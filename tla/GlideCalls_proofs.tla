------------------------- MODULE GlideCalls_proofs -------------------------
(***************************************************************************)
(* Proofs about the Glide pass-through: for every table of functions,      *)
(* every layout and any number of processes and calls, the reference count *)
(* is right, nothing is written outside the shared memory, and the device  *)
(* runs the calls in order, each once and with its own data, whoever died  *)
(* before: the safety half of GlideIsDirect.                               *)
(*                                                                         *)
(* The calls sent are the calls run, then the queue, then the call that    *)
(* traps (SentInv).  The data of the queue lies back to back from where    *)
(* the device will look; behind it is the data of the call under way, or   *)
(* what a dead process has left, which no call with data follows           *)
(* (DataInv).                                                              *)
(***************************************************************************)
EXTENDS GlideCalls, FiniteSetTheorems, TLAPS

-----------------------------------------------------------------------------
(* ---- The processes. ------------------------------------------------------ *)

\* Processes are numbered in the order they start.  Whoever is in a call or has
\* some left to make is alive, and neither loads the library nor has let go of it.
Session ==
  /\ pid \in Nat /\ refs \in Int /\ deaths \in Int /\ initDLL \in BOOLEAN
  /\ DOMAIN procs \subseteq 1 .. pid /\ procs \in [DOMAIN procs -> Process]
  /\ hpc # "ready" => gpc = "wait"
  /\ gpc # "idle" \/ todo # <<>> => user \in DOMAIN procs /\ procs[user].stage \in {"up", "leaving"}

\* Steps that only change where the user is.
UserStep ==
  (\E p \in DOMAIN procs, f \in Functions : BeginCall(p, f)) \/ (\E p \in DOMAIN procs : DetachShutdown(p))
  \/ GoOn \/ fifoAddData \/ fifoAddEntry \/ Trap

LEMMA NextCases ==
  ASSUME [Next]_vars
  PROVE  \/ UserStep \/ Device \/ UNCHANGED vars
         \/ \E a \in Addresses : AttachFinds(a) \/ AttachMaps(a)
         \/ \E p \in DOMAIN procs : Attach(p) \/ DetachNotLast(p) \/ DetachLast(p) \/ DetachUnloads(p) \/ DetachClears(p) \/ Dies(p)
BY DEF Next, UserStep, Detach

\* A process that starts, or goes on to another stage.
LEMMA HasFacts ==
  ASSUME NEW p, NEW stage, NEW a, Has(p, stage, a)
  PROVE  /\ DOMAIN procs' = DOMAIN procs \cup {p}
         /\ procs'[p] = [stage |-> stage, address |-> a]
         /\ \A q \in DOMAIN procs \ {p} : procs'[q] = procs[q]
BY DEF Has

LEMMA AtFacts ==
  ASSUME NEW p \in DOMAIN procs, NEW stage, At(p, stage)
  PROVE  /\ DOMAIN procs' = DOMAIN procs
         /\ procs'[p] = [stage |-> stage, address |-> procs[p].address]
         /\ \A q \in DOMAIN procs \ {p} : procs'[q] = procs[q]
<1>1. Has(p, stage, procs[p].address)
  BY DEF At
<1> DEFINE a == procs[p].address
<1> HIDE DEF a
<1>2. /\ DOMAIN procs' = DOMAIN procs \cup {p} /\ procs'[p] = [stage |-> stage, address |-> a]
      /\ \A q \in DOMAIN procs \ {p} : procs'[q] = procs[q]
  BY <1>1, HasFacts DEF a
<1>3. DOMAIN procs \cup {p} = DOMAIN procs
  OBVIOUS
<1> QED BY <1>2, <1>3 DEF a

LEMMA EndsFacts ==
  ASSUME NEW p \in DOMAIN procs, Ends(p)
  PROVE  /\ DOMAIN procs' = DOMAIN procs \ {p}
         /\ \A q \in DOMAIN procs \ {p} : procs'[q] = procs[q]
BY DEF Ends

LEMMA StartsFacts ==
  ASSUME Session, NEW a \in Addresses, NEW stage \in Stages, Starts(a, stage)
  PROVE  /\ pid' = pid + 1 /\ pid + 1 \notin DOMAIN procs
         /\ DOMAIN procs' = DOMAIN procs \cup {pid + 1}
         /\ procs'[pid + 1] = [stage |-> stage, address |-> a]
         /\ \A q \in DOMAIN procs : procs'[q] = procs[q]
<1>1. pid' = pid + 1 /\ Has(pid + 1, stage, a)
  BY DEF Starts
<1>2. pid + 1 \notin DOMAIN procs
  BY DEF Session
<1> QED BY <1>1, <1>2, HasFacts

LEMMA ProcessIs ==
  ASSUME NEW stage \in Stages, NEW a \in Addresses
  PROVE  [stage |-> stage, address |-> a] \in Process
BY DEF Process

LEMMA FunctionTyped ==
  ASSUME procs' = [q \in DOMAIN procs' |-> procs'[q]], \A q \in DOMAIN procs' : procs'[q] \in Process
  PROVE  procs' \in [DOMAIN procs' -> Process]
OBVIOUS

LEMMA StagesAre ==
  /\ {"found", "mapped", "counted", "failed", "up", "leaving", "quitting", "unloaded"} \subseteq Stages
  /\ CountedStages = {"counted", "failed", "up"}
BY DEF Stages, CountedStages

\* What a step does to the records of the processes: one starts, goes on, or ends.
LEMMA RecordsTyped ==
  ASSUME Session, UNCHANGED procs \/ (\E p \in DOMAIN procs, stage \in Stages : At(p, stage))
                  \/ (\E p \in DOMAIN procs : Ends(p))
  PROVE  DOMAIN procs' \subseteq DOMAIN procs /\ procs' \in [DOMAIN procs' -> Process]
<1>1. ASSUME NEW p \in DOMAIN procs, NEW stage \in Stages, At(p, stage)
      PROVE  DOMAIN procs' \subseteq DOMAIN procs /\ procs' \in [DOMAIN procs' -> Process]
  <2>1. procs[p] \in Process /\ \A q \in DOMAIN procs : procs[q] \in Process
    BY DEF Session
  <2>2. procs'[p] \in Process
    <3>1. procs[p].address \in Addresses
      BY <2>1 DEF Process
    <3> QED BY <1>1, <3>1, AtFacts, ProcessIs
  <2>3. \A q \in DOMAIN procs' : procs'[q] \in Process
    BY <1>1, <2>1, <2>2, AtFacts
  <2>4. procs' = [q \in DOMAIN procs' |-> procs'[q]]
    BY <1>1 DEF At, Has
  <2> QED BY <1>1, <2>3, <2>4, AtFacts, FunctionTyped
<1>2. ASSUME NEW p \in DOMAIN procs, Ends(p)
      PROVE  DOMAIN procs' \subseteq DOMAIN procs /\ procs' \in [DOMAIN procs' -> Process]
  <2>1. \A q \in DOMAIN procs' : procs'[q] \in Process
    BY <1>2, EndsFacts DEF Session
  <2>2. procs' = [q \in DOMAIN procs' |-> procs'[q]]
    BY <1>2 DEF Ends
  <2> QED BY <1>2, <2>1, <2>2, EndsFacts, FunctionTyped
<1> QED BY <1>1, <1>2 DEF Session

LEMMA SessionInit == ASSUME Init PROVE Session
<1>1. /\ pid = 0 /\ refs = 0 /\ deaths = 0 /\ initDLL = FALSE /\ hpc = "ready" /\ gpc = "idle"
      /\ todo = <<>> /\ procs = <<>>
  BY DEF Init
<1>2. initDLL \in BOOLEAN
  BY <1>1, Zenon
<1>3. DOMAIN procs = {} /\ procs \in [{} -> Process]
  BY <1>1
<1> QED BY <1>1, <1>2, <1>3 DEF Session

LEMMA SessionUser == ASSUME Session, UserStep PROVE Session'
<1>1. UNCHANGED <<pid, refs, deaths, initDLL, procs>>
  BY DEF UserStep, BeginCall, DetachShutdown, GoOn, fifoAddData, fifoAddEntry, Trap, shared, device, history
<1>2. user' \in DOMAIN procs /\ procs[user'].stage \in {"up", "leaving"}
  BY DEF UserStep, BeginCall, DetachShutdown, GoOn, fifoAddData, fifoAddEntry, Trap, Session
<1>3. hpc' # "ready" => gpc' = "wait"
  <2>1. CASE Trap
    BY <2>1 DEF Trap
  <2>2. CASE ~Trap
    <3>1. hpc' = hpc /\ gpc # "wait"
      BY <2>2 DEF UserStep, BeginCall, DetachShutdown, GoOn, fifoAddData, fifoAddEntry, handler
    <3> QED BY <3>1 DEF Session
  <2> QED BY <2>1, <2>2
<1> QED BY <1>1, <1>2, <1>3 DEF Session

LEMMA SessionDevice == ASSUME Session, Device PROVE Session'
<1>1. /\ UNCHANGED <<pid, initDLL, procs, user, todo>> /\ hpc # "ready" /\ gpc = "wait"
      /\ hpc' # "ready" => gpc' = gpc
  BY DEF Device, processFifo_Entry, processFifo_End, Act, Return, process, device, history, Session
<1>2. refs' \in Int /\ deaths' \in Int
  BY DEF Device, processFifo_Entry, processFifo_End, Act, Return, history, Session
<1> QED BY <1>1, <1>2 DEF Session

LEMMA SessionStarts ==
  ASSUME Session, NEW a \in Addresses, AttachFinds(a) \/ AttachMaps(a)
  PROVE  Session'
<1>1. PICK stage \in Stages : Starts(a, stage)
  BY StagesAre DEF AttachFinds, AttachMaps
<1>2. UNCHANGED <<refs, deaths, initDLL, hpc, gpc, todo, user>>
  BY DEF AttachFinds, AttachMaps, shared, device, handler
<1>3. procs' \in [DOMAIN procs' -> Process]
  <2>1. \A q \in DOMAIN procs' : procs'[q] \in Process
    <3>1. \A q \in DOMAIN procs : procs[q] \in Process
      BY DEF Session
    <3>2. procs'[pid + 1] \in Process
      BY <1>1, StartsFacts, ProcessIs
    <3>3. DOMAIN procs' = DOMAIN procs \cup {pid + 1} /\ \A q \in DOMAIN procs : procs'[q] = procs[q]
      BY <1>1, StartsFacts
    <3> QED BY <3>1, <3>2, <3>3
  <2>2. procs' = [q \in DOMAIN procs' |-> procs'[q]]
    BY <1>1 DEF Starts, Has
  <2> QED BY <2>1, <2>2, FunctionTyped
<1>4. pid' \in Nat /\ DOMAIN procs' \subseteq 1 .. pid'
  <2>1. pid \in Nat /\ DOMAIN procs \subseteq 1 .. pid
    BY DEF Session
  <2>2. pid' = pid + 1 /\ DOMAIN procs' = DOMAIN procs \cup {pid + 1}
    BY <1>1, StartsFacts
  <2> QED BY <2>1, <2>2
<1>5. user \in DOMAIN procs => user \in DOMAIN procs' /\ procs'[user] = procs[user]
  BY <1>1, StartsFacts
<1> QED BY <1>2, <1>3, <1>4, <1>5 DEF Session

\* Whoever goes on loading or unloading the library is not in a call meanwhile.
LEMMA SessionStages ==
  ASSUME Session, NEW p \in DOMAIN procs,
         Attach(p) \/ DetachLast(p) \/ DetachUnloads(p)
  PROVE  Session'
<1>1. PICK stage \in Stages : At(p, stage)
  BY StagesAre DEF Attach, AttachJoins, AttachCounts, AttachLoads, DetachLast, DetachUnloads
<1>2. UNCHANGED <<pid, hpc, gpc, todo, user>>
  BY DEF Attach, AttachJoins, AttachCounts, AttachLoads, DetachLast, DetachUnloads, handler, history
<1>3. refs' \in Int /\ deaths' \in Int
  BY DEF Attach, AttachJoins, AttachCounts, AttachLoads, DetachLast, Detaches, DetachUnloads, shared, history, Session
<1>4. initDLL' \in BOOLEAN
  <2>1. initDLL' = initDLL \/ initDLL' = FALSE \/ \E loaded \in BOOLEAN : initDLL' = loaded
    BY Zenon DEF Attach, AttachJoins, AttachCounts, AttachLoads, DetachLast, DetachUnloads, device
  <2> QED BY <2>1, Zenon DEF Session
<1>5. DOMAIN procs' = DOMAIN procs /\ procs' \in [DOMAIN procs' -> Process]
  BY <1>1, AtFacts, RecordsTyped
<1>6. p = user => gpc = "idle" /\ todo = <<>>
  BY DEF Attach, AttachJoins, AttachCounts, AttachLoads, DetachLast, Detaches, DetachUnloads, Session
<1>7. p # user /\ user \in DOMAIN procs => procs'[user] = procs[user]
  BY <1>1, AtFacts
<1> QED BY <1>2, <1>3, <1>4, <1>5, <1>6, <1>7 DEF Session

LEMMA SessionEnds ==
  ASSUME Session, NEW p \in DOMAIN procs, DetachNotLast(p) \/ DetachClears(p) \/ Dies(p)
  PROVE  /\ Session' /\ UNCHANGED <<hpc, initDLL, pid>> /\ Ends(p)
         /\ p = user => gpc # "wait" /\ hpc = "ready"
<1>1. Ends(p) /\ UNCHANGED <<pid, hpc, initDLL>> /\ refs' \in Int /\ deaths' \in Int
  BY DEF DetachNotLast, Detaches, DetachClears, Dies, shared, device, handler, history, Session
<1>2. p = user => gpc # "wait" /\ hpc = "ready"
  BY DEF DetachNotLast, Detaches, DetachClears, Dies, Session
<1>3. DOMAIN procs' \subseteq DOMAIN procs /\ procs' \in [DOMAIN procs' -> Process]
  BY <1>1, RecordsTyped
<1>4. CASE p = user
  BY <1>1, <1>2, <1>3, <1>4 DEF Session, Ends
<1>5. CASE p # user
  <2>1. UNCHANGED <<user, gpc, todo>>
    BY <1>1, <1>5 DEF Ends
  <2>2. user \in DOMAIN procs => user \in DOMAIN procs' /\ procs'[user] = procs[user]
    BY <1>1, <1>5, EndsFacts
  <2> QED BY <1>1, <1>2, <1>3, <2>1, <2>2 DEF Session
<1> QED BY <1>1, <1>2, <1>4, <1>5

LEMMA SessionStep == ASSUME Session, [Next]_vars PROVE Session'
<1>1. CASE UNCHANGED vars
  BY <1>1 DEF vars, shared, process, device, handler, history, Session
<1> QED BY <1>1, NextCases, SessionUser, SessionDevice, SessionStarts, SessionStages, SessionEnds

-----------------------------------------------------------------------------
(* ---- The reference count. ----------------------------------------------- *)

\* What the count relies on: all processes that live together find the registers at
\* one address, their DllMains come one after the other, none dies between what
\* its DllMain does to the shared memory and what it does to the host's library,
\* and a board that is queried late was left by one that died.
Orderly ==
  /\ AddressesDiffer = FALSE /\ DllMainsOverlap = FALSE /\ QueriesLate = FALSE
  /\ DiesIn \subseteq {"found", "up", "leaving"}

\* Of two processes one is up; one that sets the memory up, or takes it down, is
\* alone; and until it has, the host's library is where its stage says.
LibraryInv ==
  /\ deaths >= 0
  /\ \A p \in DOMAIN procs :
       /\ pt0 = procs[p].address
       /\ \A q \in DOMAIN procs \ {p} : procs[p].stage = "up" \/ procs[q].stage = "up"
       /\ procs[p].stage \notin {"found", "up"} => DOMAIN procs = {p}
       /\ procs[p].stage \in {"found", "leaving"} => initDLL
       /\ procs[p].stage \in {"counted", "failed"} => deaths = 0

RefsInv == Session /\ LibraryInv /\ RefsCount

LEMMA CountedFinite ==
  ASSUME Session
  PROVE  IsFiniteSet(Counted) /\ Cardinality(Counted) \in Nat /\ Counted \subseteq DOMAIN procs
<1>1. IsFiniteSet(1 .. pid) /\ DOMAIN procs \subseteq 1 .. pid
  <2>1. pid \in Int /\ 1 \in Int /\ DOMAIN procs \subseteq 1 .. pid
    BY DEF Session
  <2> QED BY <2>1, FS_Interval
<1>2. Counted \subseteq DOMAIN procs
  BY DEF Counted
<1>3. Counted \in SUBSET (1 .. pid)
  BY <1>1, <1>2
<1>4. IsFiniteSet(Counted)
  BY <1>1, <1>3, FS_Subset
<1> QED BY <1>2, <1>4, FS_CardinalityType

LEMMA CountsOne ==
  ASSUME NEW S, IsFiniteSet(S), NEW p
  PROVE  /\ p \notin S => Cardinality(S \cup {p}) = Cardinality(S) + 1
         /\ p \in S => Cardinality(S \ {p}) = Cardinality(S) - 1
BY FS_AddElement, FS_RemoveElement

LEMMA CountsNone == Cardinality({}) = 0 /\ \A p : Cardinality({p}) = 1
BY FS_EmptySet, FS_Singleton

LEMMA RefsInit == ASSUME Init PROVE RefsInv
<1>1. /\ refs = 0 /\ deaths = 0 /\ pt0 = 0 /\ procs = <<>>
  BY DEF Init
<1>2. DOMAIN procs = {} /\ Counted = {}
  BY <1>1 DEF Counted
<1>3. RefsCount
  BY <1>1, <1>2, CountsNone DEF RefsCount
<1>4. LibraryInv
  BY <1>1, <1>2 DEF LibraryInv
<1> QED BY <1>3, <1>4, SessionInit DEF RefsInv

\* Steps that leave count, owner, library and processes alone.
LEMMA RefsFrame ==
  ASSUME RefsInv, Session', UNCHANGED <<refs, deaths, initDLL, pt0, procs>>
  PROVE  RefsInv'
BY DEF RefsInv, RefsCount, LibraryInv, Counted

LEMMA RefsUser == ASSUME RefsInv, UserStep PROVE RefsInv'
<1>1. UNCHANGED <<refs, deaths, initDLL, pt0, procs>>
  BY DEF UserStep, BeginCall, DetachShutdown, GoOn, fifoAddData, fifoAddEntry, Trap, shared, device, history
<1> QED BY <1>1, SessionUser, RefsFrame DEF RefsInv

\* Who asks late and alone has nobody to be taken for; who does not, takes off one
\* that died.
LEMMA RefsDevice == ASSUME RefsInv, Orderly, Device PROVE RefsInv'
<1>1. Session'
  BY SessionDevice DEF RefsInv
<1>2. CASE processFifo_Entry \/ processFifo_End \/ Return
  BY <1>1, <1>2, RefsFrame DEF processFifo_Entry, processFifo_End, Return, process, device, history
<1>3. ASSUME NEW late \in BOOLEAN, Act(late) PROVE RefsInv'
  <2>1. UNCHANGED <<initDLL, pt0, procs>>
    BY <1>3 DEF Act, process
  <2>2. CASE UNCHANGED <<refs, deaths>>
    BY <1>1, <2>1, <2>2, RefsFrame
  <2>3. CASE ~UNCHANGED <<refs, deaths>>
    <3>1. late /\ refs > 1 /\ refs' = refs - 1 /\ deaths' = deaths - 1
      BY <1>3, <2>3 DEF Act, ResetsRefs
    <3>2. user \in DOMAIN procs /\ procs[user].stage \in {"up", "leaving"}
      BY <1>3 DEF Act, RefsInv, Session
    <3>3. \A p \in DOMAIN procs : procs[p].stage # "mapped" /\ procs[p].stage \notin {"counted", "failed"}
      <4>1. ASSUME NEW p \in DOMAIN procs, procs[p].stage \notin {"found", "up"} PROVE p = user
        BY <3>2, <4>1 DEF RefsInv, LibraryInv
      <4> QED BY <3>2, <4>1
    <3>4. refs = Cardinality(Counted) + deaths /\ refs \in Int /\ deaths \in Int
      BY <3>3 DEF RefsInv, RefsCount, Session
    <3>5. deaths > 0
      <4>1. CASE DOMAIN procs = {user}
        <5>1. Counted = {} \/ Counted = {user}
          BY <4>1 DEF Counted
        <5>2. Cardinality(Counted) = 0 \/ Cardinality(Counted) = 1
          BY <5>1, CountsNone
        <5>3. Cardinality(Counted) \in Nat
          BY CountedFinite DEF RefsInv
        <5> QED BY <3>1, <3>4, <5>2, <5>3
      <4>2. CASE DOMAIN procs # {user}
        BY <1>3, <3>1, <4>2 DEF Act, Orderly
      <4> QED BY <4>1, <4>2
    <3>6. Counted' = Counted
      BY <2>1 DEF Counted
    <3>7. Cardinality(Counted) \in Nat
      BY CountedFinite DEF RefsInv
    <3>8. refs' = Cardinality(Counted') + deaths' /\ deaths' >= 0
      BY <3>1, <3>4, <3>5, <3>6, <3>7
    <3>9. RefsCount'
      BY <2>1, <3>8 DEF RefsInv, RefsCount
    <3>10. LibraryInv'
      BY <2>1, <3>3, <3>8 DEF RefsInv, LibraryInv
    <3> QED BY <1>1, <3>9, <3>10 DEF RefsInv
  <2> QED BY <2>2, <2>3
<1> QED BY <1>2, <1>3 DEF Device

\* Only a library that finds nobody starts the memory afresh.
LEMMA MapsAlone == ASSUME RefsInv, Orderly, NEW a \in Addresses, AttachMaps(a) PROVE DOMAIN procs = {}
<1> SUFFICES ASSUME NEW q \in DOMAIN procs PROVE FALSE
  OBVIOUS
<1>1. procs[q].address = a /\ pt0 # a
  BY DEF AttachMaps, Starts, Orderly
<1> QED BY <1>1 DEF RefsInv, LibraryInv

LEMMA RefsStarts ==
  ASSUME RefsInv, Orderly, NEW a \in Addresses, AttachFinds(a) \/ AttachMaps(a)
  PROVE  RefsInv'
<1> DEFINE n == pid + 1
<1> HIDE DEF n
<1>1. Session' /\ Session
  BY SessionStarts DEF RefsInv
<1>2. CASE AttachFinds(a)
  <2>1. /\ Starts(a, "found") /\ pt0 = a /\ UNCHANGED <<refs, deaths, initDLL, pt0>>
    BY <1>2 DEF AttachFinds, shared, device
  <2>2. /\ n \notin DOMAIN procs /\ DOMAIN procs' = DOMAIN procs \cup {n}
        /\ procs'[n] = [stage |-> "found", address |-> a]
        /\ \A q \in DOMAIN procs : procs'[q] = procs[q]
    BY <1>1, <2>1, StartsFacts, StagesAre DEF n
  <2>3. \A q \in DOMAIN procs : procs[q].stage = "up"
    <3>1. \A q \in DOMAIN procs \ {pid + 1} : procs[q].stage = "up"
      BY <2>1 DEF Starts, Turn, Orderly
    <3> QED BY <2>2, <3>1 DEF n
  <2>4. initDLL
    BY <2>1, <2>3, AddressAssumption DEF RefsInv, RefsCount
  <2>5. Counted' = Counted
    BY <2>2 DEF Counted, CountedStages
  <2>6. refs = Cardinality(Counted) + deaths
    BY <2>3 DEF RefsInv, RefsCount
  <2>7. RefsCount'
    BY <2>1, <2>2, <2>3, <2>4, <2>5, <2>6 DEF RefsInv, RefsCount
  <2>8. LibraryInv'
    <3>1. \A q \in DOMAIN procs : procs[q].address = a /\ procs'[q] = procs[q]
      BY <2>1, <2>2 DEF RefsInv, LibraryInv
    <3>2. deaths' >= 0 /\ pt0' = a /\ initDLL'
      BY <2>1, <2>4 DEF RefsInv, LibraryInv
    <3> QED BY <2>2, <2>3, <3>1, <3>2 DEF LibraryInv
  <2> QED BY <1>1, <2>7, <2>8 DEF RefsInv
<1>3. CASE AttachMaps(a)
  <2>1. Starts(a, "mapped") /\ pt0' = a /\ UNCHANGED deaths
    BY <1>3 DEF AttachMaps
  <2>2. DOMAIN procs' = {n} /\ procs'[n] = [stage |-> "mapped", address |-> a]
    BY <1>1, <1>3, <2>1, StartsFacts, StagesAre, MapsAlone DEF n
  <2>3. RefsCount'
    BY <2>1, <2>2 DEF RefsInv, LibraryInv, RefsCount
  <2>4. LibraryInv'
    BY <2>1, <2>2 DEF RefsInv, LibraryInv
  <2> QED BY <1>1, <2>3, <2>4 DEF RefsInv
<1> QED BY <1>2, <1>3

LEMMA RefsJoins ==
  ASSUME RefsInv, NEW p \in DOMAIN procs, AttachJoins(p)
  PROVE  RefsInv'
<1>1. /\ procs[p].stage = "found" /\ At(p, "up") /\ refs' = refs + 1
      /\ UNCHANGED <<deaths, initDLL, pt0>>
  BY DEF AttachJoins, device, history
<1>2. /\ DOMAIN procs' = DOMAIN procs
      /\ procs'[p] = [stage |-> "up", address |-> procs[p].address]
      /\ \A q \in DOMAIN procs \ {p} : procs'[q] = procs[q]
  BY <1>1, AtFacts
<1>3. Session' /\ Session
  BY SessionStages DEF Attach, RefsInv
<1>4. \A q \in DOMAIN procs : q # p => procs[q].stage = "up"
  BY <1>1 DEF RefsInv, LibraryInv
<1>5. /\ refs = Cardinality(Counted) + deaths /\ initDLL /\ pt0 = procs[p].address
  BY <1>1, <1>4 DEF RefsInv, RefsCount, LibraryInv
<1>6. Counted' = Counted \cup {p} /\ p \notin Counted
  BY <1>1, <1>2, <1>4 DEF Counted, CountedStages
<1>7. Cardinality(Counted') = Cardinality(Counted) + 1 /\ Cardinality(Counted) \in Nat /\ deaths \in Int
  BY <1>3, <1>6, CountedFinite, CountsOne DEF Session
<1>8. refs' = Cardinality(Counted') + deaths'
  BY <1>1, <1>5, <1>7
<1>9. RefsCount'
  BY <1>1, <1>2, <1>4, <1>5, <1>8 DEF RefsInv, RefsCount
<1>10. LibraryInv'
  BY <1>1, <1>2, <1>4, <1>5 DEF RefsInv, LibraryInv
<1> QED BY <1>3, <1>9, <1>10 DEF RefsInv

\* A process in one of these stages is the only one.
LEMMA RefsAlone ==
  ASSUME RefsInv, NEW p \in DOMAIN procs, NEW stage \in Stages, At(p, stage), DOMAIN procs = {p}, pt0' = pt0,
         deaths' \in Nat, Session',
         stage = "up" => initDLL', stage \in {"found", "leaving"} => initDLL',
         stage \in {"counted", "failed"} => deaths' = 0,
         stage # "mapped" => refs' = (IF stage \in CountedStages THEN 1 ELSE 0) + deaths'
  PROVE  RefsInv'
<1>1. DOMAIN procs' = {p} /\ procs'[p] = [stage |-> stage, address |-> procs[p].address]
  BY AtFacts
<1>2. Counted' = IF stage \in CountedStages THEN {p} ELSE {}
  BY <1>1 DEF Counted
<1>3. Cardinality(Counted') = IF stage \in CountedStages THEN 1 ELSE 0
  BY <1>2, CountsNone
<1>4. pt0 = procs[p].address
  BY DEF RefsInv, LibraryInv
<1>5. RefsCount'
  BY <1>1, <1>3, <1>4 DEF RefsCount
<1>6. LibraryInv'
  BY <1>1, <1>4 DEF LibraryInv
<1> QED BY <1>5, <1>6 DEF RefsInv

LEMMA AloneCount ==
  ASSUME RefsInv, NEW p \in DOMAIN procs, DOMAIN procs = {p}, procs[p].stage # "mapped"
  PROVE  refs = (IF procs[p].stage \in CountedStages THEN 1 ELSE 0) + deaths
<1>1. Counted = IF procs[p].stage \in CountedStages THEN {p} ELSE {}
  BY DEF Counted
<1>2. Cardinality(Counted) = IF procs[p].stage \in CountedStages THEN 1 ELSE 0
  BY <1>1, CountsNone
<1> QED BY <1>2 DEF RefsInv, RefsCount

LEMMA RefsLoads ==
  ASSUME RefsInv, NEW p \in DOMAIN procs,
         AttachCounts(p) \/ (\E loaded \in BOOLEAN : AttachLoads(p, loaded))
  PROVE  RefsInv'
<1>1. Session' /\ Session
  BY SessionStages DEF Attach, RefsInv
<1>2. CASE AttachCounts(p)
  <2>1. /\ procs[p].stage = "mapped" /\ At(p, "counted") /\ refs' = 1 /\ deaths' = 0 /\ pt0' = pt0
    BY <1>2 DEF AttachCounts
  <2>2. DOMAIN procs = {p}
    BY <2>1 DEF RefsInv, LibraryInv
  <2> QED BY <1>1, <2>1, <2>2, RefsAlone, StagesAre
<1>3. ASSUME NEW loaded \in BOOLEAN, AttachLoads(p, loaded) PROVE RefsInv'
  <2>1. /\ procs[p].stage = "counted" /\ At(p, IF loaded THEN "up" ELSE "failed")
        /\ UNCHANGED <<pt0, refs, deaths>>
    BY <1>3 DEF AttachLoads, shared, history
  <2>2. initDLL' = loaded
    BY <1>3, Zenon DEF AttachLoads
  <2>3. DOMAIN procs = {p} /\ deaths = 0 /\ refs = 1
    <3>1. DOMAIN procs = {p} /\ deaths = 0
      BY <2>1 DEF RefsInv, LibraryInv
    <3> QED BY <2>1, <3>1, AloneCount, StagesAre
  <2>4. CASE loaded
    BY <1>1, <2>1, <2>2, <2>3, <2>4, RefsAlone, StagesAre
  <2>5. CASE ~loaded
    BY <1>1, <2>1, <2>2, <2>3, <2>5, RefsAlone, StagesAre
  <2> QED BY <2>4, <2>5
<1> QED BY <1>2, <1>3

\* The last one counted is the last one there is.
LEMMA LastAlone ==
  ASSUME RefsInv, Orderly, NEW p \in DOMAIN procs, DetachLast(p)
  PROVE  DOMAIN procs = {p} /\ deaths = 0
<1>1. procs[p].stage \in {"up", "failed"} /\ Turn(p) /\ refs = 1
  <2>1. refs \in Int /\ refs' = refs - 1 /\ refs' = 0
    BY DEF DetachLast, Detaches, RefsInv, Session
  <2> QED BY <2>1 DEF DetachLast, Detaches
<1>2. \A q \in DOMAIN procs \ {p} : procs[q].stage = "up"
  BY <1>1 DEF Turn, Orderly
<1>3. refs = Cardinality(Counted) + deaths /\ p \in Counted /\ deaths \in Int /\ deaths >= 0
  BY <1>1, <1>2 DEF RefsInv, RefsCount, LibraryInv, Session, Counted, CountedStages
<1>4. Cardinality(Counted \ {p}) = Cardinality(Counted) - 1 /\ Cardinality(Counted) \in Nat
      /\ IsFiniteSet(Counted \ {p})
  BY <1>3, CountedFinite, CountsOne, FS_RemoveElement DEF RefsInv
<1>5. Cardinality(Counted \ {p}) \in Nat
  BY <1>4, FS_CardinalityType
<1>6. deaths = 0 /\ Cardinality(Counted \ {p}) = 0
  BY <1>1, <1>3, <1>4, <1>5
<1>7. Counted \ {p} = {}
  BY <1>4, <1>6, FS_EmptySet
<1>8. DOMAIN procs \ {p} \subseteq Counted \ {p}
  BY <1>2 DEF Counted, CountedStages
<1> QED BY <1>6, <1>7, <1>8

LEMMA RefsLast ==
  ASSUME RefsInv, Orderly, NEW p \in DOMAIN procs, DetachLast(p) \/ DetachUnloads(p)
  PROVE  RefsInv'
<1>1. Session' /\ Session
  BY SessionStages DEF RefsInv
<1>2. CASE DetachLast(p)
  <2>1. /\ procs[p].stage \in {"up", "failed"} /\ refs' = 0
        /\ At(p, IF procs[p].stage = "up" THEN "leaving" ELSE "quitting")
        /\ UNCHANGED <<pt0, deaths, initDLL>>
    BY <1>2 DEF DetachLast, Detaches, device, history
  <2>2. DOMAIN procs = {p} /\ deaths = 0
    BY <1>2, LastAlone
  <2>3. procs[p].stage = "up" => initDLL
    BY DEF RefsInv, RefsCount
  <2>4. CASE procs[p].stage = "up"
    BY <1>1, <2>1, <2>2, <2>3, <2>4, RefsAlone, StagesAre
  <2>5. CASE procs[p].stage # "up"
    BY <1>1, <2>1, <2>2, <2>5, RefsAlone, StagesAre
  <2> QED BY <2>4, <2>5
<1>3. CASE DetachUnloads(p)
  <2>1. /\ procs[p].stage \in {"leaving", "quitting"} /\ At(p, "unloaded")
        /\ UNCHANGED <<pt0, refs, deaths>>
    BY <1>3 DEF DetachUnloads, shared, history
  <2>2. DOMAIN procs = {p} /\ deaths \in Nat
    <3>1. deaths \in Int /\ deaths >= 0
      BY DEF RefsInv, LibraryInv, Session
    <3>2. DOMAIN procs = {p}
      BY <2>1 DEF RefsInv, LibraryInv
    <3> QED BY <3>1, <3>2
  <2>3. refs = deaths
    <3>1. procs[p].stage \notin CountedStages /\ procs[p].stage # "mapped"
      BY <2>1, StagesAre
    <3>2. refs = 0 + deaths
      BY <2>2, <3>1, AloneCount
    <3> QED BY <2>2, <3>2
  <2> QED BY <1>1, <2>1, <2>2, <2>3, RefsAlone, StagesAre
<1> QED BY <1>2, <1>3

\* One among several leaves, by its detach or not.
LEMMA RefsEnds ==
  ASSUME RefsInv, Orderly, NEW p \in DOMAIN procs, DetachNotLast(p) \/ DetachClears(p) \/ Dies(p)
  PROVE  RefsInv'
<1>1. /\ Session' /\ Session /\ Ends(p) /\ UNCHANGED initDLL
  BY SessionEnds DEF RefsInv
<1>2. /\ DOMAIN procs' = DOMAIN procs \ {p}
      /\ \A q \in DOMAIN procs \ {p} : procs'[q] = procs[q]
  BY <1>1, EndsFacts
<1>3. Counted' = Counted \ {p}
  BY <1>2 DEF Counted
<1>4. Cardinality(Counted) \in Nat /\ deaths \in Int /\ refs \in Int /\ IsFiniteSet(Counted)
  BY <1>1, CountedFinite DEF Session
<1>5. p \in Counted => Cardinality(Counted') = Cardinality(Counted) - 1
  BY <1>3, <1>4, CountsOne
<1>6. p \notin Counted => Counted' = Counted
  BY <1>3
<1>7. ASSUME procs[p].stage \in {"found", "up", "leaving"}, UNCHANGED pt0, deaths' >= 0,
             refs' - deaths' = refs - deaths - (IF p \in Counted THEN 1 ELSE 0),
             refs' \in Int, deaths' \in Int
      PROVE  RefsInv'
  <2>1. \A q \in DOMAIN procs \ {p} : procs[q].stage \in {"found", "up"}
    BY DEF RefsInv, LibraryInv
  <2>2. refs = Cardinality(Counted) + deaths
    BY <1>7, <2>1 DEF RefsInv, RefsCount
  <2>3. refs' = Cardinality(Counted') + deaths'
    BY <1>4, <1>5, <1>6, <1>7, <2>2
  <2>4. initDLL
    BY <1>7 DEF RefsInv, RefsCount, LibraryInv
  <2>5. RefsCount'
    BY <1>1, <1>2, <1>7, <2>3, <2>4 DEF RefsInv, RefsCount
  <2>6. LibraryInv'
    BY <1>1, <1>2, <1>7, <2>1, <2>4 DEF RefsInv, LibraryInv
  <2> QED BY <1>1, <2>5, <2>6 DEF RefsInv
<1>8. CASE DetachNotLast(p)
  <2>1. /\ procs[p].stage \in {"up", "failed"} /\ refs' = refs - 1 /\ refs' # 0
        /\ UNCHANGED <<pt0, deaths>>
    BY <1>8 DEF DetachNotLast, Detaches, history
  <2>2. p \in Counted
    BY <2>1 DEF Counted, CountedStages
  <2>3. procs[p].stage = "up"
    <3> SUFFICES ASSUME procs[p].stage = "failed" PROVE FALSE
      BY <2>1
    <3>1. DOMAIN procs = {p} /\ deaths = 0
      BY DEF RefsInv, LibraryInv
    <3>2. refs = 1
      BY <3>1, AloneCount, StagesAre
    <3> QED BY <2>1, <3>2
  <2>4. deaths >= 0
    BY DEF RefsInv, LibraryInv
  <2> QED BY <1>4, <1>7, <2>1, <2>2, <2>3, <2>4
<1>9. CASE DetachClears(p)
  <2>1. procs[p].stage = "unloaded" /\ pt0' = 0 /\ UNCHANGED <<refs, deaths>>
    BY <1>9 DEF DetachClears, history
  <2>2. DOMAIN procs = {p} /\ deaths >= 0
    BY <2>1 DEF RefsInv, LibraryInv
  <2>3. refs = 0 + deaths
    BY <2>1, <2>2, AloneCount, StagesAre
  <2>4. DOMAIN procs' = {} /\ Counted' = {}
    BY <1>2, <2>2 DEF Counted
  <2>5. RefsCount'
    BY <2>1, <2>2, <2>3, <2>4, CountsNone DEF RefsCount
  <2>6. LibraryInv'
    BY <2>1, <2>2, <2>4 DEF LibraryInv
  <2> QED BY <1>1, <2>5, <2>6 DEF RefsInv
<1>10. CASE Dies(p)
  <2>1. /\ procs[p].stage \in {"found", "up", "leaving"} /\ UNCHANGED <<pt0, refs>>
        /\ deaths' = IF p \in Counted THEN deaths + 1 ELSE deaths
    BY <1>10 DEF Dies, shared, Orderly, Counted
  <2>2. deaths >= 0
    BY DEF RefsInv, LibraryInv
  <2>3. deaths' >= 0 /\ deaths' \in Int /\ refs' \in Int
        /\ refs' - deaths' = refs - deaths - (IF p \in Counted THEN 1 ELSE 0)
    BY <1>4, <2>1, <2>2
  <2> QED BY <1>7, <2>1, <2>3
<1> QED BY <1>8, <1>9, <1>10

LEMMA RefsStep == ASSUME RefsInv, Orderly, [Next]_vars PROVE RefsInv'
<1>1. CASE UNCHANGED vars
  <2>1. Session'
    BY <1>1, SessionStep DEF RefsInv
  <2> QED BY <1>1, <2>1, RefsFrame DEF vars, shared, process, device, history
<1>2. ASSUME NEW p \in DOMAIN procs, Attach(p) PROVE RefsInv'
  BY <1>2, RefsJoins, RefsLoads DEF Attach
<1> QED BY <1>1, <1>2, NextCases, RefsUser, RefsDevice, RefsStarts, RefsLast, RefsEnds

\* Whatever joins, leaves, dies and is taken for dead: the count is that of the
\* processes alive and of the dead not yet taken off.  So with any number of
\* processes alive at once no detach unloads the host's library under another,
\* and a library that joins finds it loaded, as long as a late board query means
\* a death and DllMains are Orderly.
THEOREM RefsCounted == ASSUME Orderly PROVE Spec => []RefsCount
<1>1. RefsInv /\ [Next]_vars => RefsInv'
  BY RefsStep
<1>2. RefsInv => RefsCount
  BY DEF RefsInv
<1> QED BY RefsInit, <1>1, <1>2, PTL DEF Spec

-----------------------------------------------------------------------------
(* ---- The areas of the shared memory. ------------------------------------ *)

\* Room is looked at when a call has been queued, and a trap empties the data
\* area: a program that may send data finds the area below its mark.  What a
\* dead process left there is gone after the next one's grGlideInit, which
\* brings no data itself.
AreaInv ==
  /\ fifo0 \in FirstFifo .. MaxFifo - 1 /\ data0 \in DataStart .. DataTop
  /\ gcall \in Functions
  /\ todo \in Seq(Control \ {"grSstQueryBoards"})
  /\ gpc = "data" => data0 < MaxData
  /\ gpc = "idle" /\ (present \/ wnd) => data0 < MaxData

LEMMA DataStartFits == DataStart < MaxData /\ DataStart \in DataStart .. DataTop
<1>1. "grGlideInit" \in Functions
  BY DEF Functions, Control
<1> QED BY <1>1, LayoutAssumption, TableAssumption DEF DataStart

LEMMA AreaInit == ASSUME Init PROVE AreaInv
<1>1. "grGlideInit" \in Functions
  BY DEF Functions, Control
<1>2. fifo0 \in FirstFifo .. MaxFifo - 1 /\ data0 \in DataStart .. DataTop
  BY DataStartFits, LayoutAssumption DEF Init
<1>3. todo \in Seq(Control \ {"grSstQueryBoards"}) /\ gpc = "idle" /\ gcall = "grGlideInit"
      /\ ~present /\ ~wnd
  BY DEF Init
<1> QED BY <1>1, <1>2, <1>3 DEF AreaInv

LEMMA ShortSequences == ASSUME NEW S PROVE <<>> \in Seq(S) /\ \A e \in S : <<e>> \in Seq(S)
OBVIOUS

LEMMA StepsType ==
  ASSUME NEW f \in Functions
  PROVE  /\ Steps(f)[1] \in {f, "grSstWinClose"}
         /\ Tail(Steps(f)) \in Seq(Control \ {"grSstQueryBoards"})
<1>1. CASE f \in {"grSstWinOpen", "grGlideShutdown"} /\ wnd
  <2>1. Steps(f) = <<"grSstWinClose", f>>
    BY <1>1 DEF Steps
  <2>2. Tail(Steps(f)) = <<f>> /\ Steps(f)[1] = "grSstWinClose"
    BY <2>1
  <2>3. f \in Control \ {"grSstQueryBoards"}
    BY <1>1 DEF Control
  <2> QED BY <2>2, <2>3, ShortSequences
<1>2. CASE ~(f \in {"grSstWinOpen", "grGlideShutdown"} /\ wnd)
  <2>1. Steps(f) = <<f>>
    BY <1>2 DEF Steps
  <2>2. Tail(Steps(f)) = <<>> /\ Steps(f)[1] = f
    BY <2>1
  <2> QED BY <2>2, ShortSequences
<1> QED BY <1>1, <1>2

\* Only a function with data may go on to write data.
LEMMA BeginType ==
  ASSUME AreaInv, NEW f \in Functions, Begin(f)
  PROVE  /\ gcall' \in Functions /\ gpc' \in {"data", "entry"}
         /\ f \in Control \ {"grSstQueryBoards"} => gpc' = "entry"
BY TableAssumption DEF Begin

LEMMA AreaCalls ==
  ASSUME AreaInv, DataFirst = FALSE,
         (\E p \in DOMAIN procs, f \in Functions : BeginCall(p, f)) \/ GoOn
         \/ (\E p \in DOMAIN procs : DetachShutdown(p))
  PROVE  AreaInv'
<1>1. gpc = "idle" /\ UNCHANGED <<fifo0, data0, present, wnd>>
  BY DEF BeginCall, GoOn, DetachShutdown, shared
<1>2. ASSUME NEW p \in DOMAIN procs, NEW f \in Functions, BeginCall(p, f) PROVE AreaInv'
  <2>1. Steps(f)[1] \in Functions /\ todo' \in Seq(Control \ {"grSstQueryBoards"})
    BY <1>2, StepsType DEF BeginCall, Functions, Control
  <2>2. /\ gcall' \in Functions /\ gpc' \in {"data", "entry"}
        /\ Steps(f)[1] \in Control \ {"grSstQueryBoards"} => gpc' = "entry"
    BY <1>2, <2>1, BeginType DEF BeginCall
  <2>3. gpc' = "data" => present \/ wnd
    <3>1. CASE f = "grGlideInit"
      BY <2>2, <3>1, StepsType DEF Control
    <3>2. CASE f # "grGlideInit"
      BY <1>2, <3>2 DEF BeginCall, Allowed
    <3> QED BY <3>1, <3>2
  <2> QED BY <1>1, <2>1, <2>2, <2>3 DEF AreaInv
<1>3. CASE GoOn
  <2>1. Head(todo) \in Control \ {"grSstQueryBoards"} /\ todo' \in Seq(Control \ {"grSstQueryBoards"})
    BY <1>3 DEF GoOn, AreaInv
  <2>2. gcall' \in Functions /\ gpc' = "entry"
    BY <1>3, <2>1, BeginType DEF GoOn, Functions
  <2> QED BY <1>1, <2>1, <2>2 DEF AreaInv
<1>4. ASSUME NEW p \in DOMAIN procs, DetachShutdown(p) PROVE AreaInv'
  <2>1. "grGlideShutdown" \in Functions /\ "grSstWinClose" \in Functions
    BY DEF Functions, Control
  <2>2. /\ Steps("grGlideShutdown")[1] \in Functions
        /\ Steps("grGlideShutdown")[1] \in Control \ {"grSstQueryBoards"}
        /\ todo' \in Seq(Control \ {"grSstQueryBoards"})
    BY <1>4, <2>1, StepsType DEF DetachShutdown, Control
  <2>3. gcall' \in Functions /\ gpc' = "entry"
    BY <1>4, <2>2, BeginType DEF DetachShutdown
  <2> QED BY <1>1, <2>2, <2>3 DEF AreaInv
<1> QED BY <1>2, <1>3, <1>4

LEMMA AreaStub == ASSUME AreaInv, fifoAddData \/ fifoAddEntry \/ Trap PROVE AreaInv'
<1>1. UNCHANGED <<gcall, todo, present, wnd>>
  BY DEF fifoAddData, fifoAddEntry, Trap
<1>2. CASE fifoAddData
  <2>1. Words[gcall] \in Nat /\ MaxData + Words[gcall] <= DataTop
    BY TableAssumption, LayoutAssumption DEF AreaInv
  <2>2. data0' \in DataStart .. DataTop
    <3>1. data0 \in Nat /\ DataStart <= data0 /\ data0 < MaxData /\ data0' = data0 + Words[gcall]
      BY <1>2 DEF AreaInv, fifoAddData, DataStart
    <3>2. MaxData \in Nat /\ DataTop \in Nat /\ DataStart \in Nat
      BY LayoutAssumption DEF DataStart
    <3> QED BY <2>1, <3>1, <3>2
  <2> QED BY <1>1, <1>2, <2>2 DEF AreaInv, fifoAddData
<1>3. CASE fifoAddEntry
  <2>1. fifo0' \in FirstFifo .. MaxFifo - 1
    <3>1. /\ fifo0' = fifo0 + (Args[gcall] + 1) /\ fifo0 + (Args[gcall] + 1) < MaxFifo
          /\ fifo0 \in FirstFifo .. MaxFifo - 1 /\ gcall \in Calls
      BY <1>3 DEF AreaInv, fifoAddEntry, FifoHasRoom
    <3>2. Args[gcall] \in Nat /\ FirstFifo \in Nat /\ MaxFifo \in Nat
      BY <3>1, TableAssumption, LayoutAssumption
    <3> QED BY <3>1, <3>2
  <2> QED BY <1>1, <1>3, <2>1 DEF AreaInv, fifoAddEntry, FifoHasRoom
<1>4. CASE Trap
  BY <1>1, <1>4 DEF AreaInv, Trap, shared
<1> QED BY <1>2, <1>3, <1>4

LEMMA AreaDevice == ASSUME AreaInv, Device PROVE AreaInv'
<1>1. CASE processFifo_Entry
  BY <1>1 DEF AreaInv, processFifo_Entry, process
<1>2. CASE processFifo_End
  BY <1>2, LayoutAssumption DEF AreaInv, processFifo_End, process
<1>3. ASSUME NEW late \in BOOLEAN, Act(late) PROVE AreaInv'
  BY <1>3 DEF AreaInv, Act, process
<1>4. CASE Return
  BY <1>4, DataStartFits DEF AreaInv, Return, Reset
<1> QED BY <1>1, <1>2, <1>3, <1>4 DEF Device

\* A process that loads or unloads the library changes the areas only to empty
\* them, and is not in a call.
LEMMA AreaProcess ==
  ASSUME AreaInv, \/ \E a \in Addresses : AttachFinds(a) \/ AttachMaps(a)
                  \/ \E p \in DOMAIN procs : \/ Attach(p) \/ DetachNotLast(p) \/ DetachLast(p)
                                           \/ DetachUnloads(p) \/ DetachClears(p) \/ Dies(p)
  PROVE  AreaInv'
<1>1. gcall' = gcall /\ ((fifo0' = fifo0 /\ data0' = data0) \/ (fifo0' = FirstFifo /\ data0' = DataStart))
  BY DEF AttachFinds, AttachMaps, Attach, AttachJoins, AttachCounts, AttachLoads, DetachNotLast, DetachLast,
         DetachUnloads, DetachClears, Dies, Ends, shared
<1>2. UNCHANGED <<gpc, todo, present, wnd>> \/ (gpc' = "idle" /\ todo' = <<>> /\ ~present' /\ ~wnd')
  BY DEF AttachFinds, AttachMaps, Attach, AttachJoins, AttachCounts, AttachLoads, DetachNotLast, DetachLast,
         DetachUnloads, DetachClears, Dies, Ends
<1>3. fifo0' \in FirstFifo .. MaxFifo - 1 /\ data0' \in DataStart .. DataTop /\ data0' \in {data0, DataStart}
  <2>1. CASE fifo0' = fifo0 /\ data0' = data0
    BY <2>1 DEF AreaInv
  <2>2. CASE fifo0' = FirstFifo /\ data0' = DataStart
    <3>1. FirstFifo \in FirstFifo .. MaxFifo - 1
      BY LayoutAssumption
    <3> QED BY <2>2, <3>1, DataStartFits
  <2> QED BY <1>1, <2>1, <2>2
<1>4. todo' \in Seq(Control \ {"grSstQueryBoards"})
  <2>1. todo' = todo \/ todo' = <<>>
    BY <1>2
  <2> QED BY <2>1, ShortSequences DEF AreaInv
<1> QED BY <1>1, <1>2, <1>3, <1>4, DataStartFits DEF AreaInv

LEMMA AreaStep == ASSUME AreaInv, DataFirst = FALSE, [Next]_vars PROVE AreaInv'
<1>1. CASE UNCHANGED vars
  BY <1>1 DEF AreaInv, vars, shared, process
<1> QED BY <1>1, NextCases, AreaCalls, AreaStub, AreaDevice, AreaProcess DEF UserStep

\* A program that calls grGlideInit first never writes behind the queue or behind
\* the shared memory, although fifoAddData looks at no room: what it has added
\* since the last look is one function's data, for which LayoutAssumption keeps
\* the place.
THEOREM AreasKept == ASSUME DataFirst = FALSE PROVE Spec => []InArea
<1>1. AreaInv /\ [Next]_vars => AreaInv'
  BY AreaStep
<1>2. AreaInv => InArea
  BY LayoutAssumption DEF AreaInv, InArea, DataStart
<1> QED BY AreaInit, <1>1, <1>2, PTL DEF Spec
-----------------------------------------------------------------------------
(* ---- Sequences. --------------------------------------------------------- *)

LEMMA CatType == ASSUME NEW S, NEW s \in Seq(S), NEW t \in Seq(S)
                 PROVE  s \o t \in Seq(S) /\ Len(s \o t) = Len(s) + Len(t)
OBVIOUS

LEMMA CatAppend ==
  ASSUME NEW s \in Seq(Call), NEW t \in Seq(Call), NEW e \in Call
  PROVE  Append(s \o t, e) = s \o Append(t, e)
OBVIOUS

LEMMA CatHead ==
  ASSUME NEW S, NEW s \in Seq(S), NEW t \in Seq(S), t # <<>>
  PROVE  /\ s \o t = Append(s, Head(t)) \o Tail(t)
         /\ (s \o t)[Len(s) + 1] = Head(t) /\ Len(s) < Len(s \o t)
         /\ Head(t) \in S /\ Tail(t) \in Seq(S) /\ Len(Tail(t)) = Len(t) - 1
         /\ \A k \in 1 .. Len(t) - 1 : Tail(t)[k] = t[k + 1]
OBVIOUS

LEMMA CatSecond ==
  ASSUME NEW S, NEW s \in Seq(S), NEW t \in Seq(S)
  PROVE  \A i \in 1 .. Len(t) : (s \o t)[Len(s) + i] = t[i]
OBVIOUS

LEMMA AppendFirst ==
  ASSUME NEW S, NEW s \in Seq(S), s # <<>>, NEW e \in S
  PROVE  /\ Append(s, e) \in Seq(S) /\ Append(s, e) # <<>> /\ Head(Append(s, e)) = Head(s)
         /\ Tail(Append(s, e)) = Append(Tail(s), e)
OBVIOUS

LEMMA CatCut == ASSUME NEW S, NEW s \in Seq(S), NEW t \in Seq(S) PROVE SubSeq(s \o t, 1, Len(s)) = s
OBVIOUS

LEMMA CatEmpty == ASSUME NEW S, NEW s \in Seq(S) PROVE s \o <<>> = s
OBVIOUS

LEMMA AppendLast ==
  ASSUME NEW S, NEW s \in Seq(S), NEW e \in S
  PROVE  /\ Append(s, e) \in Seq(S) /\ Len(Append(s, e)) = Len(s) + 1
         /\ Append(s, e)[Len(s) + 1] = e
         /\ \A k \in 1 .. Len(s) : Append(s, e)[k] = s[k]
OBVIOUS

-----------------------------------------------------------------------------
(* ---- Where data lies. --------------------------------------------------- *)

\* The words of function f behind at are n's.
WordsAt(m, f, n, at) ==
  \A i \in 1 .. Words[f] : at - DataStart + i <= Len(m) /\ m[at - DataStart + i] = n

\* The calls of q have their data back to back, from "from" to "to".
Placed(m, q, from, to) ==
  \E off \in [1 .. Len(q) + 1 -> Nat] :
    /\ off[1] = from /\ off[Len(q) + 1] = to
    /\ \A k \in 1 .. Len(q) :
         off[k + 1] = off[k] + Words[q[k].f] /\ DataStart <= off[k] /\ WordsAt(m, q[k].f, q[k].n, off[k])

LEMMA WordsType == ASSUME NEW f \in Functions PROVE Words[f] \in Nat
BY TableAssumption

\* Data that is added changes none that is there.
LEMMA WordsKept ==
  ASSUME NEW m \in Seq(Nat), NEW x \in Seq(Nat), NEW f \in Functions, NEW n,
         NEW at \in Nat, DataStart <= at, WordsAt(m, f, n, at)
  PROVE  WordsAt(m \o x, f, n, at)
<1>1. /\ Len(m) \in Nat /\ Len(m \o x) = Len(m) + Len(x) /\ Len(x) \in Nat
      /\ \A j \in 1 .. Len(m) : (m \o x)[j] = m[j]
  OBVIOUS
<1>2. Words[f] \in Nat
  BY WordsType
<1> SUFFICES ASSUME NEW i \in 1 .. Words[f]
             PROVE  at - DataStart + i <= Len(m \o x) /\ (m \o x)[at - DataStart + i] = n
  BY DEF WordsAt
<1> DEFINE j == at - DataStart + i
<1>3. j <= Len(m) /\ m[j] = n
  BY DEF WordsAt
<1>4. j \in 1 .. Len(m)
  BY <1>2, <1>3 DEF DataStart
<1> HIDE DEF j
<1>5. j <= Len(m \o x) /\ (m \o x)[j] = n
  BY <1>1, <1>3, <1>4
<1> QED BY <1>5 DEF j

LEMMA PlacedKept ==
  ASSUME NEW m \in Seq(Nat), NEW x \in Seq(Nat), NEW q \in Seq(Call), NEW from, NEW to,
         Placed(m, q, from, to)
  PROVE  Placed(m \o x, q, from, to)
<1>1. PICK off \in [1 .. Len(q) + 1 -> Nat] :
        /\ off[1] = from /\ off[Len(q) + 1] = to
        /\ \A k \in 1 .. Len(q) :
             off[k + 1] = off[k] + Words[q[k].f] /\ DataStart <= off[k] /\ WordsAt(m, q[k].f, q[k].n, off[k])
  BY DEF Placed
<1>2. \A k \in 1 .. Len(q) : WordsAt(m \o x, q[k].f, q[k].n, off[k])
  <2> SUFFICES ASSUME NEW k \in 1 .. Len(q) PROVE WordsAt(m \o x, q[k].f, q[k].n, off[k])
    OBVIOUS
  <2>1. Len(q) \in Nat /\ k \in 1 .. Len(q) + 1
    OBVIOUS
  <2>2. off[k] \in Nat
    BY <1>1, <2>1
  <2>3. q[k] \in Call
    OBVIOUS
  <2>4. q[k].f \in Functions
    BY <2>3 DEF Call
  <2> QED BY <1>1, <2>2, <2>4, WordsKept
<1> QED BY <1>1, <1>2 DEF Placed

LEMMA PlacedNone == ASSUME NEW m, NEW at \in Nat PROVE Placed(m, <<>>, at, at)
<1> DEFINE off == [k \in 1 .. 1 |-> at]
<1>1. Len(<<>>) = 0
  OBVIOUS
<1>2. off \in [1 .. Len(<<>>) + 1 -> Nat] /\ off[1] = at /\ off[Len(<<>>) + 1] = at
  BY <1>1
<1> HIDE DEF off
<1> QED BY <1>1, <1>2 DEF Placed

LEMMA PlacedEmpty == ASSUME NEW m, NEW from, NEW to, Placed(m, <<>>, from, to) PROVE from = to
BY DEF Placed

\* A call whose data lies behind the queue's is queued.
LEMMA PlacedAppend ==
  ASSUME NEW m \in Seq(Nat), NEW q \in Seq(Call), NEW c \in Call, NEW from, NEW to \in Nat, DataStart <= to,
         Placed(m, q, from, to), WordsAt(m, c.f, c.n, to)
  PROVE  Placed(m, Append(q, c), from, to + Words[c.f])
<1>1. PICK off \in [1 .. Len(q) + 1 -> Nat] :
        /\ off[1] = from /\ off[Len(q) + 1] = to
        /\ \A k \in 1 .. Len(q) :
             off[k + 1] = off[k] + Words[q[k].f] /\ DataStart <= off[k] /\ WordsAt(m, q[k].f, q[k].n, off[k])
  BY DEF Placed
<1>2. c.f \in Functions /\ Words[c.f] \in Nat
  BY WordsType DEF Call
<1> DEFINE q2 == Append(q, c)
           off2 == [k \in 1 .. Len(q) + 2 |-> IF k = Len(q) + 2 THEN to + Words[c.f] ELSE off[k]]
<1>3. /\ Len(q) \in Nat /\ Len(q2) = Len(q) + 1 /\ q2[Len(q) + 1] = c
      /\ \A k \in 1 .. Len(q) : q2[k] = q[k]
  BY AppendLast
<1>4. off2 \in [1 .. Len(q2) + 1 -> Nat] /\ off2[1] = from /\ off2[Len(q2) + 1] = to + Words[c.f]
  BY <1>1, <1>2, <1>3
<1>5. ASSUME NEW k \in 1 .. Len(q2)
      PROVE  /\ off2[k + 1] = off2[k] + Words[q2[k].f] /\ DataStart <= off2[k]
             /\ WordsAt(m, q2[k].f, q2[k].n, off2[k])
  <2>1. CASE k \in 1 .. Len(q)
    <3>1. off2[k] = off[k] /\ off2[k + 1] = off[k + 1] /\ q2[k] = q[k]
      BY <1>3, <2>1
    <3> HIDE DEF off2, q2
    <3> QED BY <1>1, <2>1, <3>1
  <2>2. CASE k = Len(q) + 1
    <3>1. off2[k] = to /\ off2[k + 1] = to + Words[c.f] /\ q2[k] = c
      BY <1>1, <1>3, <2>2
    <3> HIDE DEF off2, q2
    <3> QED BY <3>1
  <2> QED BY <1>3, <1>5, <2>1, <2>2
<1> HIDE DEF off2, q2
<1>6. Placed(m, q2, from, to + Words[c.f])
  BY <1>4, <1>5 DEF Placed
<1> QED BY <1>6 DEF q2

\* The device finds the first call's data where it looks, and the rest behind it.
LEMMA PlacedHead ==
  ASSUME NEW m \in Seq(Nat), NEW q \in Seq(Call), q # <<>>, NEW from \in Nat, NEW to, Placed(m, q, from, to)
  PROVE  /\ WordsAt(m, Head(q).f, Head(q).n, from) /\ DataStart <= from
         /\ Placed(m, Tail(q), from + Words[Head(q).f], to)
<1>1. PICK off \in [1 .. Len(q) + 1 -> Nat] :
        /\ off[1] = from /\ off[Len(q) + 1] = to
        /\ \A k \in 1 .. Len(q) :
             off[k + 1] = off[k] + Words[q[k].f] /\ DataStart <= off[k] /\ WordsAt(m, q[k].f, q[k].n, off[k])
  BY DEF Placed
<1>2. /\ Len(q) \in Nat /\ Len(q) >= 1 /\ q[1] = Head(q)
      /\ Tail(q) \in Seq(Call) /\ Len(Tail(q)) = Len(q) - 1
      /\ \A k \in 1 .. Len(q) - 1 : Tail(q)[k] = q[k + 1]
  OBVIOUS
<1> DEFINE off2 == [k \in 1 .. Len(q) |-> off[k + 1]]
           t == Tail(q)
<1>3. /\ off2 \in [1 .. Len(t) + 1 -> Nat]
      /\ off2[1] = from + Words[Head(q).f] /\ off2[Len(t) + 1] = to
  <2>1. Len(t) + 1 = Len(q) /\ \A k \in 1 .. Len(q) : off[k + 1] \in Nat
    <3>1. \A k \in 1 .. Len(q) : k + 1 \in 1 .. Len(q) + 1
      BY <1>2
    <3>2. \A k \in 1 .. Len(q) : off[k + 1] \in Nat
      BY <1>1, <3>1
    <3>3. Len(t) + 1 = Len(q)
      BY <1>2
    <3> QED BY <3>2, <3>3
  <2>2. off2 \in [1 .. Len(t) + 1 -> Nat]
    BY <2>1
  <2>3. 1 \in 1 .. Len(q) /\ Len(q) \in 1 .. Len(q)
    BY <1>2
  <2>4. off2[1] = off[1 + 1] /\ off2[Len(t) + 1] = off[Len(q) + 1]
    BY <2>1, <2>3
  <2>5. off[1 + 1] = from + Words[Head(q).f]
    BY <1>1, <1>2, <2>3
  <2> QED BY <1>1, <2>2, <2>4, <2>5
<1>4. ASSUME NEW k \in 1 .. Len(t)
      PROVE  /\ off2[k + 1] = off2[k] + Words[t[k].f] /\ DataStart <= off2[k]
             /\ WordsAt(m, t[k].f, t[k].n, off2[k])
  <2>1. /\ off2[k] = off[k + 1] /\ off2[k + 1] = off[(k + 1) + 1] /\ t[k] = q[k + 1]
        /\ k + 1 \in 1 .. Len(q)
    BY <1>2
  <2> HIDE DEF off2, t
  <2> QED BY <1>1, <2>1
<1> HIDE DEF off2, t
<1>5. Placed(m, t, from + Words[Head(q).f], to)
  BY <1>3, <1>4 DEF Placed
<1> QED BY <1>1, <1>2, <1>5 DEF t

-----------------------------------------------------------------------------
(* ---- The invariant. ----------------------------------------------------- *)

\* The number of a call, and of a process.
CountInv ==
  /\ serial \in Nat /\ serial + Len(todo) <= MaxCalls + 1
  /\ gpc \in {"data", "entry", "wait"} => serial >= 1
  /\ pid = 0 => sent = <<>> /\ run = <<>>

\* The call that traps is the last one sent, and is not in the queue.
Trapped == [n |-> serial, f |-> trap]
Rest == IF hpc \in {"drain", "act"} THEN Append(queue, Trapped) ELSE queue

SentInv ==
  /\ queue \in Seq(Call) /\ run \in Seq(Call) /\ trap \in Functions
  /\ sent = run \o Rest
  /\ hpc \in {"act", "return"} => queue = <<>>

\* While the process runs: the queue's data ends at e, and what the program may
\* add data to lies there.
Idle(e) ==
  /\ Placed(mdata, queue, DataStart, e)
  /\ gpc \in {"idle", "data"} /\ (present \/ wnd) => e = data0
  /\ gpc = "entry" => /\ WordsAt(mdata, gcall, serial, e)
                      /\ present \/ wnd => e + Words[gcall] = data0

\* While the device drains: the same from where it looks, with the call that
\* traps behind the queue.
Draining(e) == Placed(mdata, queue, hj, e) /\ WordsAt(mdata, trap, serial, e)

DataInv ==
  /\ mdata \in Seq(Nat) /\ data0 = DataStart + Len(mdata) /\ hj \in Nat
  /\ gpc = "data" => present \/ wnd
  /\ hpc = "ready" => \E e \in Nat : DataStart <= e /\ Idle(e)
  /\ hpc = "drain" => \E e \in Nat : DataStart <= e /\ Draining(e)
  /\ hpc = "act" => WordsAt(mdata, trap, serial, hj)

LEMMA CountInit == ASSUME Init PROVE CountInv
<1>1. serial = 0 /\ todo = <<>> /\ gpc = "idle" /\ sent = <<>> /\ run = <<>>
  BY DEF Init
<1> QED BY <1>1, LayoutAssumption DEF CountInv

\* A call made of several steps begins with one of its own.
LEMMA StepsCount == ASSUME NEW f PROVE Len(Tail(Steps(f))) \in Nat /\ Len(Tail(Steps(f))) <= 1
<1>1. CASE f \in {"grSstWinOpen", "grGlideShutdown"} /\ wnd
  BY <1>1 DEF Steps
<1>2. CASE ~(f \in {"grSstWinOpen", "grGlideShutdown"} /\ wnd)
  BY <1>2 DEF Steps
<1> QED BY <1>1, <1>2

LEMMA CountStep == ASSUME Session, AreaInv, CountInv, [Next]_vars PROVE CountInv'
<1>1. Len(todo) \in Nat /\ MaxCalls \in Nat
  BY LayoutAssumption DEF AreaInv
<1>2. ASSUME NEW p \in DOMAIN procs, (\E f \in Functions : BeginCall(p, f)) \/ DetachShutdown(p) PROVE CountInv'
  <2>1. PICK f \in Functions \cup {"grGlideShutdown"} :
          Begin(Steps(f)[1]) /\ todo' = Tail(Steps(f)) /\ serial < MaxCalls
    BY <1>2 DEF BeginCall, DetachShutdown
  <2>2. UNCHANGED <<pid, sent, run>>
    BY <1>2 DEF BeginCall, DetachShutdown
  <2>3. serial' = serial + 1 /\ gpc' \in {"data", "entry"} /\ Len(todo') \in Nat /\ Len(todo') <= 1
    BY <2>1, StepsCount DEF Begin
  <2>4. serial \in Nat /\ serial' \in Nat /\ serial' >= 1 /\ serial' + Len(todo') <= MaxCalls + 1
    <3>1. serial \in Nat /\ serial < MaxCalls
      BY <2>1 DEF CountInv
    <3>2. serial' = serial + 1 /\ Len(todo') \in Nat /\ Len(todo') <= 1
      BY <2>3
    <3> QED BY <1>1, <3>1, <3>2
  <2> QED BY <2>2, <2>4 DEF CountInv
<1>3. CASE GoOn
  <2>1. serial' = serial + 1 /\ UNCHANGED <<pid, sent, run>>
    BY <1>3 DEF GoOn, Begin
  <2>2. Len(todo') = Len(todo) - 1
    BY <1>3 DEF GoOn, AreaInv
  <2> QED BY <1>1, <2>1, <2>2 DEF CountInv
<1>4. CASE fifoAddData \/ fifoAddEntry \/ Trap
  <2>1. /\ gpc \in {"data", "entry"} /\ gpc # "idle" /\ UNCHANGED <<todo, pid, serial>>
    BY <1>4 DEF fifoAddData, fifoAddEntry, Trap, history
  <2>2. pid # 0
    BY <2>1 DEF Session
  <2> QED BY <2>1, <2>2 DEF CountInv
<1>5. CASE Device
  <2>1. gpc = "wait" /\ gpc' \in {"wait", "idle"} /\ UNCHANGED <<todo, pid, serial>>
    BY <1>5 DEF Device, processFifo_Entry, processFifo_End, Act, Return, process, history, Session
  <2>2. pid # 0
    BY <2>1 DEF Session
  <2> QED BY <2>1, <2>2 DEF CountInv
<1>6. ASSUME NEW a \in Addresses, AttachFinds(a) \/ AttachMaps(a) PROVE CountInv'
  <2>1. UNCHANGED <<gpc, todo, serial>> /\ pid' = pid + 1
    BY <1>6 DEF AttachFinds, AttachMaps, Starts
  <2>2. pid' # 0
    BY <2>1 DEF Session
  <2> QED BY <2>1, <2>2 DEF CountInv
<1>7. ASSUME NEW p \in DOMAIN procs, Attach(p) \/ DetachLast(p) \/ DetachUnloads(p) PROVE CountInv'
  <2>1. UNCHANGED <<gpc, todo, serial, pid, sent, run>>
    BY <1>7 DEF Attach, AttachJoins, AttachCounts, AttachLoads, DetachLast, DetachUnloads, history
  <2> QED BY <2>1 DEF CountInv
<1>8. ASSUME NEW p \in DOMAIN procs, DetachNotLast(p) \/ DetachClears(p) \/ Dies(p) PROVE CountInv'
  <2>1. UNCHANGED <<serial, pid, sent, run>> /\ Ends(p)
    BY <1>8 DEF DetachNotLast, DetachClears, Dies, history
  <2>2. UNCHANGED <<gpc, todo>> \/ (gpc' = "idle" /\ Len(todo') = 0)
    BY <2>1 DEF Ends
  <2> QED BY <1>1, <2>1, <2>2 DEF CountInv
<1>9. CASE UNCHANGED vars
  BY <1>9 DEF vars, process, history, CountInv
<1> QED BY <1>2, <1>3, <1>4, <1>5, <1>6, <1>7, <1>8, <1>9, NextCases DEF UserStep

Order == SentInv /\ DataInv

LEMMA OrderInit == ASSUME Init PROVE Order
<1>1. /\ queue = <<>> /\ run = <<>> /\ sent = <<>> /\ mdata = <<>> /\ hpc = "ready" /\ gpc = "idle" /\ ~present /\ ~wnd
      /\ data0 = DataStart /\ hj = DataStart /\ trap = "grGlideInit"
  BY DEF Init
<1>2. SentInv
  BY <1>1, CatEmpty DEF SentInv, Rest, Functions, Control
<1>3. DataStart \in Nat /\ Len(<<>>) = 0
  BY DEF DataStart
<1>4. Idle(DataStart)
  BY <1>1, <1>3, PlacedNone DEF Idle
<1>5. DataInv
  BY <1>1, <1>3, <1>4 DEF DataInv
<1> QED BY <1>2, <1>5 DEF Order

\* A step of the process that neither sends nor queues a call.
LEMMA SentQuiet ==
  ASSUME SentInv, hpc = "ready", hpc' = "ready", UNCHANGED <<queue, run, sent, trap>>
  PROVE  SentInv'
BY DEF SentInv, Rest

\* Where the data ends does not depend on where the process is.
LEMMA DataQuiet ==
  ASSUME DataInv, hpc = "ready", hpc' = "ready", UNCHANGED <<queue, mdata, data0, hj>>,
         gpc' = "data" => present' \/ wnd',
         NEW e \in Nat, DataStart <= e, Idle(e)'
  PROVE  DataInv'
BY DEF DataInv

LEMMA OrderCalls ==
  ASSUME Order, Session, AreaInv, DataFirst = FALSE,
         (\E p \in DOMAIN procs, f \in Functions : BeginCall(p, f)) \/ GoOn
         \/ (\E p \in DOMAIN procs : DetachShutdown(p))
  PROVE  Order'
<1>1. /\ gpc = "idle" /\ hpc = "ready" /\ hpc' = "ready"
      /\ UNCHANGED <<queue, run, sent, trap, mdata, data0, hj, present, wnd>>
  BY DEF BeginCall, GoOn, DetachShutdown, shared, handler, Session
<1>2. gcall' \in Functions /\ gpc' = IF Words[gcall'] > 0 THEN "data" ELSE "entry"
  <2>1. (\E f \in Functions : Begin(f)) \/ (\E f \in Functions \cup {"grGlideShutdown"} : Begin(Steps(f)[1]))
    <3>1. ASSUME GoOn PROVE Head(todo) \in Functions
      BY <3>1 DEF GoOn, AreaInv, Functions
    <3> QED BY <3>1 DEF BeginCall, GoOn, DetachShutdown
  <2>2. "grGlideShutdown" \in Functions /\ "grSstWinClose" \in Functions
    BY DEF Functions, Control
  <2>3. \A f \in Functions \cup {"grGlideShutdown"} : Steps(f)[1] \in Functions
    BY <2>2, StepsType
  <2> QED BY <2>1, <2>3 DEF Begin
<1>3. gpc' = "data" => data0 < MaxData /\ (present \/ wnd)
  <2>1. ASSUME NEW p \in DOMAIN procs, NEW f \in Functions, BeginCall(p, f), gpc' = "data" PROVE present \/ wnd
    <3>1. f # "grGlideInit"
      <4>1. SUFFICES ASSUME f = "grGlideInit" PROVE FALSE
        OBVIOUS
      <4>2. Steps(f)[1] \in Control \ {"grSstQueryBoards"} /\ Steps(f)[1] \in Functions
        BY <4>1, StepsType DEF Control, Functions
      <4> QED BY <2>1, <4>2, BeginType DEF BeginCall
    <3> QED BY <2>1, <3>1 DEF BeginCall, Allowed
  <2>2. ASSUME GoOn PROVE gpc' = "entry"
    <3>1. Head(todo) \in Control \ {"grSstQueryBoards"} /\ Head(todo) \in Functions
      BY <2>2 DEF GoOn, AreaInv, Functions
    <3> QED BY <2>2, <3>1, BeginType DEF GoOn
  <2>3. ASSUME NEW p \in DOMAIN procs, DetachShutdown(p) PROVE present
    BY <2>3 DEF DetachShutdown
  <2> QED BY <1>1, <2>1, <2>2, <2>3 DEF AreaInv
<1>4. PICK e \in Nat : DataStart <= e /\ Idle(e)
  BY <1>1 DEF Order, DataInv
<1>5. gpc' = "entry" => Words[gcall'] = 0
  BY <1>2, WordsType
<1>6. data0 \in Nat
  BY DEF Order, DataInv, DataStart
<1>7. Idle(e)'
  <2>1. Placed(mdata, queue, DataStart, e)' /\ (present \/ wnd => e = data0)
    BY <1>1, <1>4 DEF Idle
  <2>2. gpc' = "entry" => WordsAt(mdata, gcall, serial, e)'
    BY <1>5 DEF WordsAt
  <2>3. gpc' = "entry" /\ (present \/ wnd) => e + Words[gcall'] = data0
    BY <1>5, <1>6, <2>1
  <2>4. gpc' \in {"data", "entry"}
    BY <1>2
  <2> QED BY <1>1, <2>1, <2>2, <2>3, <2>4 DEF Idle
<1> QED BY <1>1, <1>3, <1>4, <1>7, SentQuiet, DataQuiet DEF Order

LEMMA OrderData == ASSUME Order, Session, CountInv, AreaInv, fifoAddData PROVE Order'
<1>1. /\ gpc = "data" /\ gpc' = "entry" /\ hpc = "ready" /\ hpc' = "ready"
      /\ UNCHANGED <<queue, run, sent, trap, hj, present, wnd, gcall, serial>>
  BY DEF fifoAddData, handler, history, Session
<1> DEFINE W == Words[gcall]
           x == [i \in 1 .. W |-> serial]
<1>2. W \in Nat /\ serial \in Nat /\ mdata' = mdata \o x /\ data0' = data0 + W /\ gcall \in Functions
  BY WordsType DEF fifoAddData, AreaInv, CountInv
<1>3. /\ x \in Seq(Nat) /\ Len(x) = W /\ \A i \in 1 .. W : x[i] = serial
  BY <1>2
<1>4. PICK e \in Nat : DataStart <= e /\ Idle(e)
  BY <1>1 DEF Order, DataInv
<1>5. e = data0 /\ data0 = DataStart + Len(mdata) /\ mdata \in Seq(Nat)
  BY <1>1, <1>4 DEF Order, DataInv, Idle
<1> HIDE DEF x
<1>6. mdata' \in Seq(Nat) /\ Len(mdata') = Len(mdata) + W /\ \A i \in 1 .. W : mdata'[Len(mdata) + i] = serial
  <2>1. mdata' \in Seq(Nat) /\ Len(mdata') = Len(mdata) + W
    BY <1>2, <1>3, <1>5, CatType
  <2>2. \A i \in 1 .. W : mdata'[Len(mdata) + i] = x[i]
    <3>1. \A i \in 1 .. Len(x) : (mdata \o x)[Len(mdata) + i] = x[i]
      BY <1>3, <1>5, CatSecond
    <3>2. mdata' = mdata \o x /\ Len(x) = W
      BY <1>2, <1>3
    <3> QED BY <3>1, <3>2
  <2> QED BY <1>3, <2>1, <2>2
<1>7. WordsAt(mdata', gcall, serial, e)
  BY <1>2, <1>5, <1>6 DEF WordsAt, DataStart
<1>8. Placed(mdata', queue, DataStart, e)
  BY <1>2, <1>3, <1>4, <1>5, PlacedKept DEF Idle, Order, SentInv
<1>9. Idle(e)'
  BY <1>1, <1>2, <1>5, <1>7, <1>8 DEF Idle
<1>10. data0' = DataStart + Len(mdata')
  BY <1>2, <1>5, <1>6 DEF DataStart
<1>11. DataInv'
  BY <1>1, <1>4, <1>6, <1>9, <1>10 DEF Order, DataInv
<1> QED BY <1>1, <1>11, SentQuiet DEF Order

LEMMA OrderEntry == ASSUME Order, Session, CountInv, AreaInv, fifoAddEntry PROVE Order'
<1>1. /\ gpc = "entry" /\ gpc' = "idle" /\ hpc = "ready" /\ hpc' = "ready"
      /\ UNCHANGED <<run, trap, mdata, data0, hj, present, wnd>>
      /\ queue' = Append(queue, Made) /\ sent' = Append(sent, Made)
  BY DEF fifoAddEntry, handler, Session
<1>2. Made \in Call /\ Made.n = serial /\ Made.f = gcall
  BY DEF Made, Call, AreaInv, CountInv
<1>3. SentInv'
  <2>1. queue \in Seq(Call) /\ run \in Seq(Call) /\ sent = run \o queue
    BY <1>1 DEF Order, SentInv, Rest
  <2>2. Append(run \o queue, Made) = run \o Append(queue, Made)
    BY <1>2, <2>1, CatAppend, Zenon
  <2>3. queue' \in Seq(Call) /\ sent' = run \o queue'
    BY <1>1, <1>2, <2>1, <2>2, AppendLast
  <2> QED BY <1>1, <2>1, <2>3 DEF Order, SentInv, Rest
<1>4. PICK e \in Nat : DataStart <= e /\ Idle(e)
  BY <1>1 DEF Order, DataInv
<1>5. Words[gcall] \in Nat
  BY WordsType DEF AreaInv
<1>6. Placed(mdata, Append(queue, Made), DataStart, e + Words[gcall])
  <2>1. queue \in Seq(Call) /\ mdata \in Seq(Nat)
    BY DEF Order, SentInv, DataInv
  <2>2. Placed(mdata, queue, DataStart, e) /\ WordsAt(mdata, Made.f, Made.n, e)
    BY <1>1, <1>2, <1>4 DEF Idle
  <2> HIDE DEF Made
  <2> QED BY <1>2, <1>4, <2>1, <2>2, PlacedAppend
<1>7. PICK e2 \in Nat : e2 = e + Words[gcall] /\ DataStart <= e2
  BY <1>4, <1>5 DEF DataStart
<1>8. Idle(e2)'
  BY <1>1, <1>4, <1>6, <1>7 DEF Idle
<1>9. DataInv'
  BY <1>1, <1>7, <1>8 DEF Order, DataInv
<1> QED BY <1>3, <1>9 DEF Order

LEMMA OrderTrap == ASSUME Order, Session, CountInv, AreaInv, Trap PROVE Order'
<1>1. /\ gpc = "entry" /\ gpc' = "wait" /\ hpc = "ready" /\ hpc' = "drain" /\ trap' = gcall /\ hj' = DataStart
      /\ UNCHANGED <<queue, run, mdata, data0, serial>> /\ sent' = Append(sent, Made)
  BY DEF Trap, shared, Session
<1>2. Made \in Call /\ Made = Trapped' /\ gcall \in Functions
  BY <1>1 DEF Made, Call, Trapped, AreaInv, CountInv
<1>3. SentInv'
  <2>1. queue \in Seq(Call) /\ run \in Seq(Call) /\ sent = run \o queue
    BY <1>1 DEF Order, SentInv, Rest
  <2>2. Append(run \o queue, Made) = run \o Append(queue, Made)
    BY <1>2, <2>1, CatAppend, Zenon
  <2>3. sent' = run \o Append(queue, Made)
    BY <1>1, <2>1, <2>2
  <2> QED BY <1>1, <1>2, <2>1, <2>3 DEF SentInv, Rest
<1>4. PICK e \in Nat : DataStart <= e /\ Idle(e)
  BY <1>1 DEF Order, DataInv
<1>5. Draining(e)'
  BY <1>1, <1>4 DEF Idle, Draining
<1>6. DataInv'
  BY <1>1, <1>4, <1>5 DEF Order, DataInv, DataStart
<1> QED BY <1>3, <1>6 DEF Order

\* A call whose data is where the device looks is run as it was sent.
LEMMA RanOwn == ASSUME NEW c \in Call, WordsAt(mdata, c.f, c.n, hj) PROVE Ran(c) = c
BY DEF Ran, Reads, WordsAt

LEMMA OrderDrain ==
  ASSUME Order, CountInv, processFifo_Entry
  PROVE  /\ Order' /\ Len(run) < Len(sent) /\ sent \in Seq(Call)
         /\ run' = Append(run, sent[Len(run) + 1])
<1>1. /\ hpc = "drain" /\ hpc' = "drain" /\ queue # <<>> /\ queue' = Tail(queue)
      /\ run' = Append(run, Ran(Head(queue))) /\ hj' = hj + Words[Head(queue).f]
      /\ UNCHANGED <<mdata, data0, sent, trap, serial, gpc, present, wnd>>
  BY DEF processFifo_Entry, process
<1>2. PICK e \in Nat : DataStart <= e /\ Draining(e)
  BY <1>1 DEF Order, DataInv
<1>3. /\ queue \in Seq(Call) /\ run \in Seq(Call) /\ mdata \in Seq(Nat) /\ hj \in Nat
      /\ Head(queue) \in Call /\ Tail(queue) \in Seq(Call)
  BY <1>1, CatHead DEF Order, SentInv, DataInv
<1>4. WordsAt(mdata, Head(queue).f, Head(queue).n, hj) /\ Placed(mdata, Tail(queue), hj', e)
  BY <1>1, <1>2, <1>3, PlacedHead DEF Draining
<1>5. run' = Append(run, Head(queue))
  BY <1>1, <1>3, <1>4, RanOwn
<1>6. hj' \in Nat
  BY <1>1, <1>3, WordsType DEF Call
<1>7. DataInv'
  <2>1. Draining(e)'
    BY <1>1, <1>2, <1>4 DEF Draining
  <2> QED BY <1>1, <1>2, <1>6, <2>1 DEF Order, DataInv
<1> DEFINE rest == Append(queue, Trapped)
<1>8. /\ sent = run \o rest /\ rest \in Seq(Call) /\ rest # <<>> /\ Head(rest) = Head(queue)
      /\ Tail(rest) = Append(Tail(queue), Trapped)
  <2>1. Trapped \in Call
    BY DEF Trapped, Call, Order, SentInv, CountInv
  <2> HIDE DEF Trapped
  <2>2. sent = run \o rest
    BY <1>1 DEF Order, SentInv, Rest
  <2> QED BY <1>1, <1>3, <2>1, <2>2, AppendFirst
<1> HIDE DEF rest
<1>9. run \o rest = Append(run, Head(rest)) \o Tail(rest) /\ (run \o rest)[Len(run) + 1] = Head(rest)
      /\ Len(run) < Len(run \o rest) /\ run \o rest \in Seq(Call)
  BY <1>3, <1>8, CatHead, CatType
<1>10. SentInv'
  <2>1. run' \in Seq(Call)
    BY <1>3, <1>5, AppendLast
  <2>2. Trapped' = Trapped
    BY <1>1 DEF Trapped
  <2> QED BY <1>1, <1>3, <1>5, <1>8, <1>9, <2>1, <2>2 DEF Order, SentInv, Rest
<1> QED BY <1>5, <1>7, <1>8, <1>9, <1>10 DEF Order

LEMMA OrderEnd == ASSUME Order, processFifo_End PROVE Order'
<1>1. /\ hpc = "drain" /\ hpc' = "act" /\ queue = <<>>
      /\ UNCHANGED <<queue, run, sent, trap, serial, mdata, data0, hj, gpc, present, wnd>>
  BY DEF processFifo_End, process, history
<1>2. PICK e \in Nat : DataStart <= e /\ Draining(e)
  BY <1>1 DEF Order, DataInv
<1>3. hj = e
  BY <1>1, <1>2, PlacedEmpty DEF Draining
<1>4. WordsAt(mdata, trap, serial, hj)
  BY <1>2, <1>3 DEF Draining
<1>5. DataInv'
  BY <1>1, <1>4 DEF Order, DataInv
<1>6. Trapped' = Trapped
  BY <1>1 DEF Trapped
<1>7. SentInv'
  BY <1>1, <1>6 DEF Order, SentInv, Rest
<1> QED BY <1>5, <1>7 DEF Order

LEMMA OrderAct ==
  ASSUME Order, CountInv, NEW late \in BOOLEAN, Act(late)
  PROVE  /\ Order' /\ Len(run) < Len(sent) /\ sent \in Seq(Call)
         /\ run' = Append(run, sent[Len(run) + 1])
<1>1. /\ hpc = "act" /\ hpc' = "return" /\ run' = Append(run, Ran(Trapped)) /\ queue = <<>>
      /\ UNCHANGED <<queue, sent, trap, serial, mdata, data0, hj, gpc, present, wnd>>
  BY DEF Act, Trapped, process, Order, SentInv
<1>2. Trapped \in Call /\ Trapped.n = serial /\ Trapped.f = trap
  BY DEF Trapped, Call, Order, SentInv, CountInv
<1>3. WordsAt(mdata, trap, serial, hj)
  BY <1>1 DEF Order, DataInv
<1>4. Ran(Trapped) = Trapped
  BY <1>2, <1>3, RanOwn
<1> HIDE DEF Trapped
<1>5. run \in Seq(Call) /\ sent = run \o <<Trapped>>
  <2>1. run \in Seq(Call) /\ sent = run \o Append(<<>>, Trapped)
    BY <1>1 DEF Order, SentInv, Rest
  <2> QED BY <2>1
<1>6. /\ run \o <<Trapped>> = Append(run, Trapped) /\ run \o <<Trapped>> \in Seq(Call)
      /\ Len(run \o <<Trapped>>) = Len(run) + 1 /\ (run \o <<Trapped>>)[Len(run) + 1] = Trapped
  BY <1>2, <1>5
<1>7. Len(run) \in Nat /\ Append(run, Trapped) \o <<>> = Append(run, Trapped)
  BY <1>2, <1>5, <1>6
<1>8. SentInv'
  BY <1>1, <1>4, <1>5, <1>6, <1>7 DEF Order, SentInv, Rest
<1>9. DataInv'
  BY <1>1 DEF Order, DataInv
<1> QED BY <1>1, <1>4, <1>5, <1>6, <1>7, <1>8, <1>9 DEF Order

LEMMA OrderReturn == ASSUME Order, Return PROVE Order' /\ run = sent
<1>1. /\ hpc = "return" /\ hpc' = "ready" /\ gpc' = "idle" /\ queue = <<>>
      /\ data0' = DataStart /\ mdata' = <<>> /\ UNCHANGED <<queue, run, sent, trap, hj>>
  BY DEF Return, Reset, history, Order, SentInv
<1>2. run \in Seq(Call) /\ sent = run \o <<>>
  BY <1>1 DEF Order, SentInv, Rest
<1>3. sent = run
  BY <1>2, CatEmpty
<1>4. SentInv'
  BY <1>1 DEF Order, SentInv, Rest
<1>5. DataStart \in Nat /\ Len(<<>>) = 0 /\ <<>> \in Seq(Nat)
  BY DEF DataStart
<1>6. Idle(DataStart)'
  BY <1>1, <1>5, PlacedNone DEF Idle
<1>7. DataInv'
  BY <1>1, <1>5, <1>6 DEF Order, DataInv
<1> QED BY <1>3, <1>4, <1>7 DEF Order

\* Steps that leave the shared memory and the device's handler alone.  If they end
\* the user, it was in no call the device was running.
LEMMA OrderProcess ==
  ASSUME Order, UNCHANGED <<queue, mdata, data0, hpc, trap, hj, serial, sent, run>>,
         \/ UNCHANGED <<gpc, gcall, present, wnd>>
         \/ hpc = "ready" /\ gpc' = "idle" /\ ~present' /\ ~wnd'
  PROVE  Order'
<1>1. SentInv'
  BY DEF Order, SentInv, Rest, Trapped
<1>2. CASE UNCHANGED <<gpc, gcall, present, wnd>>
  BY <1>1, <1>2 DEF Order, DataInv, Idle, Draining
<1>3. CASE hpc = "ready" /\ gpc' = "idle" /\ ~present' /\ ~wnd'
  <2>1. PICK e \in Nat : DataStart <= e /\ Idle(e)
    BY <1>3 DEF Order, DataInv
  <2>2. Idle(e)'
    BY <1>3, <2>1 DEF Idle
  <2>3. gpc' # "data" /\ hpc' = "ready"
    BY <1>3
  <2> QED BY <1>1, <1>3, <2>1, <2>2, <2>3, DataQuiet DEF Order
<1> QED BY <1>2, <1>3

\* Calls of the dead stay in the shared memory for the one that joins ...
LEMMA OrderQuiet ==
  ASSUME Order, Session,
         \/ \E a \in Addresses : AttachFinds(a)
         \/ \E p \in DOMAIN procs : \/ Attach(p) \/ DetachNotLast(p) \/ DetachLast(p)
                                  \/ DetachUnloads(p) \/ DetachClears(p) \/ Dies(p)
  PROVE  Order' /\ UNCHANGED <<sent, run, hpc>>
<1>1. UNCHANGED <<queue, mdata, data0, hpc, trap, hj, serial, sent, run>>
  BY DEF AttachFinds, Attach, AttachJoins, AttachCounts, AttachLoads, DetachNotLast, DetachLast,
         DetachUnloads, DetachClears, Dies, shared, handler, history
<1>2. ASSUME NEW a \in Addresses, AttachFinds(a) PROVE UNCHANGED <<gpc, gcall, present, wnd>>
  BY <1>2 DEF AttachFinds
<1>3. ASSUME NEW p \in DOMAIN procs, Attach(p) \/ DetachLast(p) \/ DetachUnloads(p)
      PROVE  UNCHANGED <<gpc, gcall, present, wnd>>
  BY <1>3 DEF Attach, AttachJoins, AttachCounts, AttachLoads, DetachLast, DetachUnloads
<1>4. ASSUME NEW p \in DOMAIN procs, DetachNotLast(p) \/ DetachClears(p) \/ Dies(p)
      PROVE  \/ UNCHANGED <<gpc, gcall, present, wnd>>
             \/ hpc = "ready" /\ gpc' = "idle" /\ ~present' /\ ~wnd'
  BY <1>4, SessionEnds DEF Ends
<1> QED BY <1>1, <1>2, <1>3, <1>4, OrderProcess

\* ... and are taken back by the one that does not.
LEMMA OrderMaps ==
  ASSUME Order, Session, NEW a \in Addresses, AttachMaps(a), DOMAIN procs = {}
  PROVE  Order' /\ sent' = SubSeq(sent, 1, Len(run)) /\ UNCHANGED <<run, hpc>>
<1>1. /\ gpc = "idle" /\ gpc' = "idle" /\ hpc = "ready" /\ UNCHANGED <<hpc, trap, hj, run>>
      /\ queue' = <<>> /\ mdata' = <<>> /\ data0' = DataStart /\ sent' = SubSeq(sent, 1, Len(run))
  BY DEF AttachMaps, handler, Session
<1>2. run \in Seq(Call) /\ queue \in Seq(Call) /\ sent = run \o queue
  BY <1>1 DEF Order, SentInv, Rest
<1>3. sent' = run /\ run \o <<>> = run
  BY <1>1, <1>2, CatCut, CatEmpty
<1>4. SentInv'
  BY <1>1, <1>2, <1>3 DEF Order, SentInv, Rest
<1>5. DataStart \in Nat /\ Len(<<>>) = 0 /\ <<>> \in Seq(Nat)
  BY DEF DataStart
<1>6. Idle(DataStart)'
  BY <1>1, <1>5, PlacedNone DEF Idle
<1>7. DataInv'
  BY <1>1, <1>5, <1>6 DEF Order, DataInv
<1> QED BY <1>1, <1>4, <1>7 DEF Order

LEMMA OrderStutter == ASSUME Order, UNCHANGED vars PROVE Order'
<1>1. SentInv'
  BY DEF vars, shared, handler, history, Order, SentInv, Rest, Trapped
<1>2. DataInv'
  BY DEF vars, shared, process, handler, history, Order, DataInv, Idle, Draining
<1> QED BY <1>1, <1>2 DEF Order

LEMMA OrderStep ==
  ASSUME Order, RefsInv, Orderly, CountInv, AreaInv, DataFirst = FALSE, [Next]_vars
  PROVE  Order'
<1>1. Session
  BY DEF RefsInv
<1>2. CASE UNCHANGED vars
  BY <1>2, OrderStutter
<1>3. CASE UserStep
  BY <1>1, <1>3, OrderCalls, OrderData, OrderEntry, OrderTrap DEF UserStep
<1>4. CASE Device
  BY <1>1, <1>4, OrderDrain, OrderEnd, OrderAct, OrderReturn DEF Device
<1> QED BY <1>1, <1>2, <1>3, <1>4, NextCases, OrderQuiet, OrderMaps, MapsAlone

-----------------------------------------------------------------------------
(* ---- Every step is one of DirectCalls, or none. ------------------------- *)

asked == hpc # "ready"
alive == DOMAIN procs # {} \/ pid = 0

\* A step that neither sends nor runs a call, and ends or starts nobody.
LEMMA DirectStutter ==
  ASSUME UNCHANGED <<sent, run>>, asked' = asked, alive' = alive
  PROVE  UNCHANGED Direct!vars
BY DEF asked, alive, Direct!vars

LEMMA StubSteps ==
  ASSUME Session,
         (\E p \in DOMAIN procs, f \in Functions : BeginCall(p, f)) \/ GoOn
         \/ (\E p \in DOMAIN procs : DetachShutdown(p))
         \/ fifoAddData \/ processFifo_End
  PROVE  UNCHANGED Direct!vars
<1>1. /\ UNCHANGED <<sent, run, procs, pid>>
      /\ hpc' = hpc \/ (hpc # "ready" /\ hpc' # "ready")
  BY DEF BeginCall, GoOn, DetachShutdown, fifoAddData, processFifo_End, process, handler, history
<1> QED BY <1>1, DirectStutter DEF asked, alive

\* What the process calls is a call of DirectCalls.
LEMMA MadeType ==
  ASSUME CountInv, AreaInv, gpc \in {"data", "entry", "wait"}
  PROVE  Made \in [n : 1 .. MaxCalls + 1, f : Functions]
<1>1. Len(todo) \in Nat /\ serial \in Nat /\ serial >= 1 /\ serial + Len(todo) <= MaxCalls + 1 /\ MaxCalls \in Nat
  BY LayoutAssumption DEF CountInv, AreaInv
<1>2. serial \in 1 .. MaxCalls + 1
  BY <1>1
<1> QED BY <1>2 DEF Made, AreaInv

LEMMA PostStep == ASSUME CountInv, AreaInv, Session, fifoAddEntry PROVE Direct!Post
<1>1. /\ gpc = "entry" /\ hpc = "ready" /\ hpc' = hpc
      /\ sent' = Append(sent, Made) /\ run' = run /\ pid' = pid
      /\ procs' = procs /\ DOMAIN procs # {}
  BY DEF fifoAddEntry, handler, Session
<1>2. Made \in [n : 1 .. MaxCalls + 1, f : Functions]
  BY <1>1, MadeType
<1> HIDE DEF Made
<1> QED BY <1>1, <1>2 DEF Direct!Post

LEMMA AskStep == ASSUME CountInv, AreaInv, Session, Trap PROVE Direct!Ask
<1>1. /\ gpc = "entry" /\ hpc = "ready" /\ hpc' = "drain"
      /\ sent' = Append(sent, Made) /\ run' = run /\ pid' = pid
      /\ procs' = procs /\ DOMAIN procs # {}
  BY DEF Trap, Session
<1>2. Made \in [n : 1 .. MaxCalls + 1, f : Functions]
  BY <1>1, MadeType
<1> HIDE DEF Made
<1> QED BY <1>1, <1>2 DEF Direct!Ask

LEMMA RunStep ==
  ASSUME Order, CountInv, Session, processFifo_Entry \/ (\E late \in BOOLEAN : Act(late))
  PROVE  Direct!Run
<1>1. Len(run) < Len(sent) /\ run' = Append(run, sent[Len(run) + 1])
  BY OrderDrain, OrderAct
<1>2. hpc # "ready" /\ hpc' # "ready" /\ UNCHANGED <<sent, procs, pid>>
  BY DEF processFifo_Entry, Act, process
<1> QED BY <1>1, <1>2 DEF Direct!Run

LEMMA AnswerStep == ASSUME Order, CountInv, Session, Return PROVE Direct!Answer
<1>1. run = sent
  BY OrderReturn
<1>2. hpc # "ready" /\ hpc' = "ready" /\ UNCHANGED <<sent, run, procs, pid>>
  BY DEF Return, history
<1> QED BY <1>1, <1>2 DEF Direct!Answer

\* The first process of all finds nothing sent, and is there already; one that
\* starts while others live adds nothing.
LEMMA StartStep ==
  ASSUME Order, CountInv, RefsInv, Orderly, NEW a \in Addresses, AttachFinds(a) \/ AttachMaps(a)
  PROVE  Direct!Start \/ UNCHANGED Direct!vars
<1>1. /\ Session /\ DOMAIN procs' # {} /\ hpc' = hpc /\ run' = run
      /\ sent' \in {sent, SubSeq(sent, 1, Len(run))} /\ (DOMAIN procs # {} => sent' = sent)
  <2>1. Session /\ \E stage \in Stages : Starts(a, stage)
    BY StagesAre DEF AttachFinds, AttachMaps, RefsInv
  <2>2. DOMAIN procs' # {}
    BY <2>1, StartsFacts
  <2> QED BY <2>1, <2>2, OrderQuiet, OrderMaps, MapsAlone
<1>2. CASE pid = 0
  <2>1. sent = <<>> /\ run = <<>>
    BY <1>2 DEF CountInv
  <2>2. sent' = sent
    BY <1>1, <2>1
  <2>3. asked' = asked /\ alive' = alive
    BY <1>1, <1>2 DEF asked, alive
  <2> QED BY <1>1, <2>2, <2>3, DirectStutter
<1>3. CASE DOMAIN procs # {}
  BY <1>1, <1>3, DirectStutter DEF asked, alive
<1>4. CASE pid # 0 /\ DOMAIN procs = {}
  <2>1. hpc = "ready"
    BY <1>1, <1>4 DEF Session
  <2> QED BY <1>1, <1>4, <2>1 DEF Direct!Start
<1> QED BY <1>2, <1>3, <1>4

LEMMA StageStep ==
  ASSUME Order, Session, NEW p \in DOMAIN procs, Attach(p) \/ DetachLast(p) \/ DetachUnloads(p)
  PROVE  UNCHANGED Direct!vars
<1>1. PICK stage \in Stages : At(p, stage)
  BY StagesAre DEF Attach, AttachJoins, AttachCounts, AttachLoads, DetachLast, DetachUnloads
<1>2. pid' = pid
  BY DEF Attach, AttachJoins, AttachCounts, AttachLoads, DetachLast, DetachUnloads, history
<1> QED BY <1>1, <1>2, AtFacts, OrderQuiet, DirectStutter DEF asked, alive

\* The last process that ends is the application's end.
LEMMA EndStep ==
  ASSUME Order, Session, NEW p \in DOMAIN procs, DetachNotLast(p) \/ DetachClears(p) \/ Dies(p)
  PROVE  Direct!Die \/ UNCHANGED Direct!vars
<1>1. UNCHANGED <<sent, run, hpc, pid>> /\ DOMAIN procs' = DOMAIN procs \ {p} /\ pid # 0
      /\ (p = user => hpc = "ready")
  <2>1. UNCHANGED <<sent, run, hpc, pid>> /\ Ends(p) /\ (p = user => hpc = "ready")
    BY OrderQuiet, SessionEnds
  <2>2. DOMAIN procs' = DOMAIN procs \ {p}
    BY <2>1, EndsFacts
  <2>3. pid # 0
    BY DEF Session
  <2> QED BY <2>1, <2>2, <2>3
<1>2. CASE DOMAIN procs' # {}
  BY <1>1, <1>2, DirectStutter DEF asked, alive
<1>3. CASE DOMAIN procs' = {}
  <2>1. hpc = "ready"
    BY <1>1, <1>3 DEF Session
  <2> QED BY <1>1, <1>3, <2>1 DEF Direct!Die
<1> QED BY <1>2, <1>3

LEMMA DirectStep ==
  ASSUME Order, CountInv, RefsInv, Orderly, AreaInv, [Next]_vars
  PROVE  [Direct!Next]_(Direct!vars)
<1>1. Session
  BY DEF RefsInv
<1>2. CASE UNCHANGED vars
  BY <1>2, DirectStutter DEF vars, process, handler, history, asked, alive
<1>3. CASE UserStep
  BY <1>1, <1>3, StubSteps, PostStep, AskStep DEF UserStep, Direct!Next
<1>4. CASE Device
  BY <1>1, <1>4, StubSteps, RunStep, AnswerStep DEF Device, Direct!Next
<1> QED BY <1>1, <1>2, <1>3, <1>4, NextCases, StartStep, StageStep, EndStep DEF Direct!Next

LEMMA DirectInit == ASSUME Init PROVE Direct!Init
BY DEF Init, Direct!Init

\* The safety half of GlideIsDirect: for programs that call grGlideInit first,
\* every call processFifo or the trap itself runs is the next one made, with its
\* own data, and a trap returns only when all of them have run; whichever
\* processes load, unload and die in between, and whatever calls of theirs lie
\* in the memory.
THEOREM RunsInOrder ==
  ASSUME DataFirst = FALSE, Orderly
  PROVE  Spec => Direct!Init /\ [][Direct!Next]_(Direct!vars)
<1> DEFINE IInv == RefsInv /\ AreaInv /\ CountInv /\ Order
<1>1. Init => IInv
  BY RefsInit, AreaInit, CountInit, OrderInit
<1>2. IInv /\ [Next]_vars => IInv'
  BY RefsStep, AreaStep, CountStep, OrderStep DEF RefsInv
<1>3. IInv /\ [Next]_vars => [Direct!Next]_(Direct!vars)
  BY DirectStep DEF RefsInv
<1>4. Init => Direct!Init
  BY DirectInit
<1> HIDE DEF IInv
<1> QED BY <1>1, <1>2, <1>3, <1>4, PTL DEF Spec

-----------------------------------------------------------------------------
(* ---- Types. -------------------------------------------------------------- *)

\* What the invariants above do not say of the processes and the device.
ControlTypes ==
  /\ gpc \in {"idle", "data", "entry", "wait"} /\ user \in Nat
  /\ hpc \in {"ready", "drain", "act", "return"}
  /\ pt0 \in Addresses \cup {0}
  /\ present \in BOOLEAN /\ wnd \in BOOLEAN /\ crashRC \in BOOLEAN /\ context \in Nat

LEMMA ControlInit == ASSUME Init PROVE ControlTypes
<1>1. present \in BOOLEAN /\ wnd \in BOOLEAN /\ crashRC \in BOOLEAN
  BY Zenon DEF Init
<1>2. /\ gpc = "idle" /\ hpc = "ready" /\ user = 0 /\ pt0 = 0 /\ context = 0
  BY DEF Init
<1> QED BY <1>1, <1>2 DEF ControlTypes

LEMMA ControlUser == ASSUME ControlTypes, Session, UserStep PROVE ControlTypes'
<1> USE DEF ControlTypes
<1>1. ASSUME NEW p \in DOMAIN procs, NEW f \in Functions, BeginCall(p, f) PROVE ControlTypes'
  <2>1. p \in Nat
    BY DEF Session
  <2> QED BY <1>1, <2>1 DEF BeginCall, Begin, shared, device, handler
<1>2. ASSUME GoOn \/ \E p \in DOMAIN procs : DetachShutdown(p) PROVE ControlTypes'
  BY <1>2 DEF GoOn, DetachShutdown, Begin, shared, device, handler
<1>3. CASE fifoAddData \/ fifoAddEntry \/ Trap
  BY <1>3 DEF fifoAddData, fifoAddEntry, Trap, shared, device, handler
<1> QED BY <1>1, <1>2, <1>3 DEF UserStep

LEMMA ControlDevice == ASSUME ControlTypes, Device PROVE ControlTypes'
<1> USE DEF ControlTypes
<1>1. CASE processFifo_Entry \/ processFifo_End
  BY <1>1 DEF processFifo_Entry, processFifo_End, process, device
<1>2. ASSUME NEW late \in BOOLEAN, Act(late) PROVE ControlTypes'
  <2>1. context' \in Nat /\ crashRC' \in BOOLEAN
    BY <1>2 DEF Act
  <2> QED BY <1>2, <2>1 DEF Act, process
<1>3. CASE Return
  BY <1>3 DEF Return, device
<1> QED BY <1>1, <1>2, <1>3 DEF Device

LEMMA ControlStages ==
  ASSUME ControlTypes, \/ \E a \in Addresses : AttachFinds(a) \/ AttachMaps(a)
                       \/ \E p \in DOMAIN procs : Attach(p) \/ DetachLast(p) \/ DetachUnloads(p)
  PROVE  ControlTypes'
<1>1. UNCHANGED <<gpc, user, hpc, present, wnd>> /\ pt0' \in Addresses \cup {pt0}
      /\ context' \in {context, 0}
  BY DEF AttachFinds, AttachMaps, Attach, AttachJoins, AttachCounts, AttachLoads, DetachLast, DetachUnloads,
         shared, device, handler
<1>2. crashRC' \in BOOLEAN
  BY Zenon DEF AttachFinds, AttachMaps, Attach, AttachJoins, AttachCounts, AttachLoads, DetachLast,
               DetachUnloads, device, ControlTypes
<1> QED BY <1>1, <1>2 DEF ControlTypes

LEMMA ControlEnds ==
  ASSUME ControlTypes, NEW p \in DOMAIN procs, DetachNotLast(p) \/ DetachClears(p) \/ Dies(p)
  PROVE  ControlTypes'
<1>1. Ends(p) /\ UNCHANGED <<hpc, crashRC, context>> /\ pt0' \in {pt0, 0}
  BY DEF DetachNotLast, DetachClears, Dies, shared, device, handler
<1>2. UNCHANGED <<gpc, user, present, wnd>> \/ (gpc' = "idle" /\ user' = 0 /\ ~present' /\ ~wnd')
  BY <1>1 DEF Ends
<1>3. present' \in BOOLEAN /\ wnd' \in BOOLEAN
  BY <1>1, Zenon DEF Ends, ControlTypes
<1> QED BY <1>1, <1>2, <1>3 DEF ControlTypes

LEMMA ControlStep == ASSUME ControlTypes, Session, [Next]_vars PROVE ControlTypes'
<1>1. CASE UNCHANGED vars
  BY <1>1 DEF vars, shared, process, device, handler, ControlTypes
<1> QED BY <1>1, NextCases, ControlUser, ControlDevice, ControlStages, ControlEnds

LEMMA AllTyped ==
  ASSUME RefsInv, AreaInv, CountInv, Order, ControlTypes PROVE TypeOK
<1>1. sent \in Seq(Call)
  <2>1. Trapped \in Call
    BY DEF Trapped, Call, CountInv, Order, SentInv
  <2>2. Rest \in Seq(Call) /\ run \in Seq(Call) /\ sent = run \o Rest
    BY <2>1 DEF Rest, Order, SentInv
  <2> QED BY <2>2
<1>2. /\ fifo0 \in FirstFifo .. MaxFifo /\ data0 \in DataStart .. DataTop /\ gcall \in Functions
  BY LayoutAssumption DEF AreaInv
<1>3. todo \in Seq(Control)
  BY DEF AreaInv
<1> QED
  BY <1>1, <1>2, <1>3 DEF TypeOK, ControlTypes, RefsInv, Session, CountInv, Order, SentInv, DataInv

\* Every variable has its type: above all, what has been written lies inside the two
\* areas of the shared memory, and what is queued, sent and run are calls.
THEOREM GlideTyped == ASSUME DataFirst = FALSE, Orderly PROVE Spec => []TypeOK
<1> DEFINE IInv == RefsInv /\ AreaInv /\ CountInv /\ Order /\ ControlTypes
<1>1. Init => IInv
  BY RefsInit, AreaInit, CountInit, OrderInit, ControlInit
<1>2. IInv /\ [Next]_vars => IInv'
  BY RefsStep, AreaStep, CountStep, OrderStep, ControlStep DEF RefsInv
<1>3. IInv => TypeOK
  BY AllTyped
<1> HIDE DEF IInv
<1> QED BY <1>1, <1>2, <1>3, PTL DEF Spec
=============================================================================
