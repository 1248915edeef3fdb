----------------------------- MODULE GlideCalls -----------------------------
(***************************************************************************)
(* The Glide pass-through: wrappers/3dfx/src/glidedll.c in the guest and   *)
(* hw/3dfx/glidept_mm.c in QEMU.  As with OpenGL a call is written to      *)
(* shared memory and run by the device at the next register write that     *)
(* names a function; but the wrapper never flushes for room, it traps with *)
(* the call that finds none, and the device puts the data area back after  *)
(* every trap.                                                             *)
(*                                                                         *)
(* The shared memory outlives a process.  A library that finds its own     *)
(* trap address in it joins what is there: it adds itself to the reference *)
(* count and writes no register; any other library starts the memory       *)
(* afresh.  A process that dies is never subtracted; the device does that  *)
(* when a board is queried and the last query was long ago.                *)
(*                                                                         *)
(* Any number of processes have the library loaded, and load and unload it *)
(* while others make calls; one of them uses Glide at a time, from its     *)
(* grGlideInit to its grGlideShutdown.  The wait for the window is in      *)
(* WindowShare; here grSstWinOpen and grSstWinClose are done when their    *)
(* register write returns.                                                 *)
(***************************************************************************)
EXTENDS Integers, Sequences, FiniteSets

CONSTANTS
  Calls,        \* the functions that may be queued
  Asks,         \* the functions that answer, and carry data
  Args,         \* arguments of a queued function
  Words,        \* the data words of a function, an even number on both sides
  Addresses,    \* where a process may find the device's registers
  FirstFifo, MaxFifo, MaxData,
  DataTop,      \* the end of the shared memory
  DataFirst,    \* may a function with data be called before grGlideInit?
  AddressesDiffer,  \* may processes that live together find the registers at different addresses?
  DllMainsOverlap,  \* may a process load or unload the library while another one is doing so?
  DiesIn,       \* where a process may die, see Stages
  QueriesLate,  \* may a board be queried late, with others alive, though none has died?
  MaxCalls,     \* bound: calls of a run
  MaxProcesses  \* bound: processes of a run

DataStart == 2     \* ALIGNED(1) >> 2: the next free word, and the reference count

Control == {"grGlideInit", "grSstWinOpen", "grSstWinClose", "grGlideShutdown", "grSstQueryBoards"}
Functions == Calls \cup Asks \cup Control

ASSUME TableAssumption ==
  /\ Calls \cap Asks = {} /\ (Calls \cup Asks) \cap Control = {}
  /\ Args \in [Calls -> Nat]
  /\ Words \in [Functions -> Nat] /\ \A f \in Functions : Words[f] % 2 = 0
  /\ \A f \in Control \ {"grSstQueryBoards"} : Words[f] = 0

\* What a function pushes fits behind MAX_DATA: 64 KB, which is less than the
\* largest texture.
ASSUME LayoutAssumption ==
  /\ {FirstFifo, MaxFifo, MaxData, DataTop, MaxCalls, MaxProcesses} \subseteq Nat
  /\ FirstFifo < MaxFifo /\ DataStart < MaxData /\ DataFirst \in BOOLEAN
  /\ \A f \in Functions : MaxData + Words[f] <= DataTop

\* Where the registers are is never a null pointer, which marks a memory not in use.
ASSUME AddressAssumption == 0 \notin Addresses

\* How far a process is in its DllMain.  Loading: it has found its address in the
\* memory; or it has set the memory up, counted itself, and asked the device for
\* the host's library, in vain or not.  Unloading: it was the last one counted,
\* and had the host's library or not; it has had that unloaded.
Stages == {"found", "mapped", "counted", "failed", "up", "leaving", "quitting", "unloaded"}

ASSUME ModeAssumption ==
  /\ {AddressesDiffer, DllMainsOverlap, QueriesLate} \subseteq BOOLEAN /\ DiesIn \subseteq Stages

VARIABLES
  fifo0, queue,        \* mfifo[0], and the calls queued
  data0, mdata,        \* mdata[0], and who wrote the words before it
  pt0, refs,           \* mfifo[1]: the trap address or 0; mdata[1]: the reference count
  procs,               \* the live processes, each with its stage and its mapping
  user,                \* the one that uses Glide, or did last
  gpc, gcall, todo,    \* where that one is, in which call, what it has to call still
  present, wnd,        \* its grGlidePresent and grGlideWnd, which the others have not set
  hpc, trap, hj,       \* the handler of the trap: where it is, the function, the data read
  initDLL, crashRC, context,  \* the device; context is the process that made it
  pid, deaths,         \* processes so far, and the dead ones that are still counted
  serial, sent, run    \* calls made, those the host will have, those it has run

shared == <<fifo0, queue, data0, mdata, pt0, refs>>
process == <<procs, user, gpc, gcall, todo, present, wnd>>
device == <<initDLL, crashRC, context>>
handler == <<hpc, trap, hj>>
history == <<pid, deaths, serial, sent, run>>
vars == <<shared, process, device, handler, history>>

Call == [n : Nat, f : Functions]
Process == [stage : Stages, address : Addresses]

TypeOK ==
  /\ fifo0 \in FirstFifo .. MaxFifo /\ queue \in Seq(Call)
  /\ data0 \in DataStart .. DataTop /\ mdata \in Seq(Nat)
  /\ pt0 \in Addresses \cup {0} /\ refs \in Int
  /\ DOMAIN procs \subseteq 1 .. pid /\ procs \in [DOMAIN procs -> Process]
  /\ user \in Nat /\ gpc \in {"idle", "data", "entry", "wait"} /\ gcall \in Functions
  /\ todo \in Seq(Control) /\ present \in BOOLEAN /\ wnd \in BOOLEAN
  /\ hpc \in {"ready", "drain", "act", "return"} /\ trap \in Functions /\ hj \in Nat
  /\ initDLL \in BOOLEAN /\ crashRC \in BOOLEAN /\ context \in Nat
  /\ pid \in Nat /\ deaths \in Int /\ serial \in Nat
  /\ sent \in Seq(Call) /\ run \in Seq(Call)

Init ==
  /\ fifo0 = FirstFifo /\ queue = <<>> /\ data0 = DataStart /\ mdata = <<>>
  /\ pt0 = 0 /\ refs = 0
  /\ procs = <<>> /\ user = 0 /\ gpc = "idle" /\ gcall = "grGlideInit" /\ todo = <<>>
  /\ present = FALSE /\ wnd = FALSE
  /\ hpc = "ready" /\ trap = "grGlideInit" /\ hj = DataStart
  /\ initDLL = FALSE /\ crashRC = FALSE /\ context = 0
  /\ pid = 0 /\ deaths = 0 /\ serial = 0 /\ sent = <<>> /\ run = <<>>

-----------------------------------------------------------------------------
(* A process: making a call. *)

\* What a program may call: grGlideInit first, and drawing with a window.
Allowed(f) ==
  \/ f = "grGlideInit" /\ ~present
  \/ f = "grSstQueryBoards" /\ (present \/ DataFirst)
  \/ f \in {"grSstWinOpen", "grGlideShutdown"} /\ present
  \/ f \in {"grSstWinClose"} \cup Calls \cup Asks /\ wnd

\* grSstWinOpen closes the window that is open; so does grGlideShutdown.
Steps(f) ==
  IF f \in {"grSstWinOpen", "grGlideShutdown"} /\ wnd THEN <<"grSstWinClose", f>> ELSE <<f>>

Begin(f) ==
  /\ gcall' = f /\ serial' = serial + 1
  /\ gpc' = IF Words[f] > 0 THEN "data" ELSE "entry"

BeginCall(p, f) ==
  /\ procs[p].stage = "up" /\ (p = user \/ ~present)
  /\ gpc = "idle" /\ todo = <<>> /\ serial < MaxCalls /\ Allowed(f)
  /\ user' = p /\ Begin(Steps(f)[1]) /\ todo' = Tail(Steps(f))
  /\ UNCHANGED <<shared, procs, present, wnd, device, handler, pid, deaths, sent, run>>

\* The next of several calls, of grSstWinOpen, grGlideShutdown or DllMain.
GoOn ==
  /\ gpc = "idle" /\ todo # <<>>
  /\ Begin(Head(todo)) /\ todo' = Tail(todo)
  /\ UNCHANGED <<shared, procs, user, present, wnd, device, handler, pid, deaths, sent, run>>

\* The data goes behind what is there, whatever room there is.
fifoAddData ==
  /\ gpc = "data"
  /\ mdata' = mdata \o [i \in 1 .. Words[gcall] |-> serial]
  /\ data0' = data0 + Words[gcall]
  /\ gpc' = "entry"
  /\ UNCHANGED <<fifo0, queue, pt0, refs, procs, user, gcall, todo, present, wnd, device,
                 handler, history>>

\* One word short: the function's number is not counted.
WrongFifoHasRoom == fifo0 + Args[gcall] < MaxFifo /\ data0 < MaxData

\* The condition of FIFO_GRFUNC.
FifoHasRoom == fifo0 + (Args[gcall] + 1) < MaxFifo /\ data0 < MaxData

Made == [n |-> serial, f |-> gcall]

fifoAddEntry ==
  /\ gpc = "entry" /\ gcall \in Calls /\ FifoHasRoom
  /\ queue' = Append(queue, Made) /\ fifo0' = fifo0 + (Args[gcall] + 1)
  /\ sent' = Append(sent, Made)
  /\ gpc' = "idle"
  /\ UNCHANGED <<data0, mdata, pt0, refs, procs, user, gcall, todo, present, wnd, device,
                 handler, pid, deaths, serial, run>>

\* *pt0 = function: the process stands still until the device has run it.
Trap ==
  /\ gpc = "entry" /\ ~(gcall \in Calls /\ FifoHasRoom)
  /\ sent' = Append(sent, Made)
  /\ gpc' = "wait" /\ hpc' = "drain" /\ trap' = gcall /\ hj' = DataStart
  /\ UNCHANGED <<shared, procs, user, gcall, todo, present, wnd, device, pid, deaths, serial, run>>

-----------------------------------------------------------------------------
(* The device: glidept_write, 0xfc0. *)

\* A call's data are the words at hj; it has been run if all of them are its own.
Reads(c) ==
  \A i \in 1 .. Words[c.f] : hj - DataStart + i <= Len(mdata) /\ mdata[hj - DataStart + i] = c.n

Ran(c) == IF Reads(c) THEN c ELSE [c EXCEPT !.n = 0]

\* The next call of the queue starts after the words before it, not after its own.
WrongEntry ==
  /\ hpc = "drain" /\ queue # <<>>
  /\ run' = Append(run, Ran(Head(queue)))
  /\ queue' = Tail(queue)
  /\ UNCHANGED <<fifo0, data0, mdata, pt0, refs, process, device, handler, pid, deaths, serial,
                 sent>>

processFifo_Entry ==
  /\ hpc = "drain" /\ queue # <<>>
  /\ run' = Append(run, Ran(Head(queue)))
  /\ queue' = Tail(queue) /\ hj' = hj + Words[Head(queue).f]
  /\ UNCHANGED <<fifo0, data0, mdata, pt0, refs, process, device, hpc, trap, pid, deaths, serial,
                 sent>>

processFifo_End ==
  /\ hpc = "drain" /\ queue = <<>>
  /\ fifo0' = FirstFifo /\ hpc' = "act"
  /\ UNCHANGED <<queue, data0, mdata, pt0, refs, process, device, trap, hj, history>>

\* The only process there is may be subtracted too.
WrongResetsRefs(late) == trap = "grSstQueryBoards" /\ crashRC /\ late /\ refs > 0

\* More than three seconds since the last query: a process must have died.
ResetsRefs(late) == trap = "grSstQueryBoards" /\ crashRC /\ late /\ refs > 1

\* processArgs, the function and processFRet; grSstWinOpen makes the context.
Act(late) ==
  /\ hpc = "act"
  /\ late => trap = "grSstQueryBoards" /\ (QueriesLate \/ deaths > 0 \/ DOMAIN procs = {user})
  /\ run' = Append(run, Ran([n |-> serial, f |-> trap]))
  /\ hpc' = "return"
  /\ IF ResetsRefs(late) THEN refs' = refs - 1 /\ deaths' = deaths - 1 ELSE UNCHANGED <<refs, deaths>>
  /\ crashRC' = (crashRC \/ trap = "grSstQueryBoards")
  /\ context' = IF trap = "grSstWinOpen" THEN user ELSE IF trap = "grSstWinClose" THEN 0 ELSE context
  /\ UNCHANGED <<fifo0, queue, data0, mdata, pt0, process, initDLL, trap, hj, pid, serial, sent>>

\* The data area is left as it is.
WrongReset == data0' = data0 /\ mdata' = mdata

\* At the end of every trap the data area is empty.
Reset == data0' = DataStart /\ mdata' = <<>>

\* The write returns, and the wrapper notes what it has.
Return ==
  /\ hpc = "return"
  /\ Reset
  /\ hpc' = "ready" /\ gpc' = "idle"
  /\ present' = (trap = "grGlideInit" \/ (present /\ trap # "grGlideShutdown"))
  /\ wnd' = (trap = "grSstWinOpen" \/ (wnd /\ trap \notin {"grSstWinClose", "grGlideInit"}))
  /\ UNCHANGED <<fifo0, queue, pt0, refs, procs, user, gcall, todo, device, trap, hj, history>>

-----------------------------------------------------------------------------
(* DllMain. *)

\* No other process is in its DllMain.
Turn(p) == DllMainsOverlap \/ \A q \in DOMAIN procs \ {p} : procs[q].stage = "up"

Has(p, stage, a) == procs' = [q \in DOMAIN procs \cup {p} |->
                                IF q = p THEN [stage |-> stage, address |-> a] ELSE procs[q]]

At(p, stage) == Has(p, stage, procs[p].address)

\* A process starts and loads the library.
Starts(a, stage) ==
  /\ pid < MaxProcesses /\ pid' = pid + 1
  /\ Turn(pid + 1) /\ (AddressesDiffer \/ \A q \in DOMAIN procs : procs[q].address = a)
  /\ Has(pid + 1, stage, a)

\* InitGlidePTMMBase finds this library's trap address in the memory ...
AttachFinds(a) ==
  /\ pt0 = a /\ Starts(a, "found")
  /\ UNCHANGED <<shared, user, gpc, gcall, todo, present, wnd, device, handler, deaths, serial, sent,
                 run>>

\* ... and DllMain joins.
AttachJoins(p) ==
  /\ procs[p].stage = "found" /\ At(p, "up")
  /\ refs' = refs + 1
  /\ UNCHANGED <<fifo0, queue, data0, mdata, pt0, user, gpc, gcall, todo, present, wnd, device,
                 handler, history>>

\* It does not, and sets the memory up afresh ...
AttachMaps(a) ==
  /\ pt0 # a /\ Starts(a, "mapped")
  /\ fifo0' = FirstFifo /\ queue' = <<>> /\ data0' = DataStart /\ mdata' = <<>>
  /\ pt0' = a
  /\ sent' = SubSeq(sent, 1, Len(run))
  /\ UNCHANGED <<refs, user, gpc, gcall, todo, present, wnd, device, handler, deaths, serial, run>>

\* ... DllMain counts one process ...
AttachCounts(p) ==
  /\ procs[p].stage = "mapped" /\ At(p, "counted")
  /\ refs' = 1 /\ deaths' = 0
  /\ UNCHANGED <<fifo0, queue, data0, mdata, pt0, user, gpc, gcall, todo, present, wnd, device,
                 handler, pid, serial, sent, run>>

\* ... and the register write makes the device forget the context it remembers
\* and load the host's library, or fail to.
AttachLoads(p, loaded) ==
  /\ procs[p].stage = "counted" /\ hpc = "ready"
  /\ At(p, IF loaded THEN "up" ELSE "failed")
  /\ initDLL' = loaded /\ context' = 0
  /\ UNCHANGED <<shared, user, gpc, gcall, todo, present, wnd, crashRC, handler, history>>

\* The process is gone, and with it what it had of Glide.
Ends(p) ==
  /\ procs' = [q \in DOMAIN procs \ {p} |-> procs[q]]
  /\ IF p = user
     THEN user' = 0 /\ gpc' = "idle" /\ todo' = <<>> /\ present' = FALSE /\ wnd' = FALSE
     ELSE UNCHANGED <<user, gpc, todo, present, wnd>>
  /\ UNCHANGED gcall

\* DLL_PROCESS_DETACH; also after a load that failed.
Detaches(p) ==
  /\ procs[p].stage \in {"up", "failed"} /\ Turn(p)
  /\ p = user => gpc = "idle" /\ todo = <<>>
  /\ refs' = refs - 1

\* It was one among several: that is all, and what it has queued stays.
DetachNotLast(p) ==
  /\ Detaches(p) /\ refs' # 0 /\ Ends(p)
  /\ UNCHANGED <<fifo0, queue, data0, mdata, pt0, device, handler, history>>

\* It was the last one.
DetachLast(p) ==
  /\ Detaches(p) /\ refs' = 0 /\ At(p, IF procs[p].stage = "up" THEN "leaving" ELSE "quitting")
  /\ UNCHANGED <<fifo0, queue, data0, mdata, pt0, user, gpc, gcall, todo, present, wnd, device,
                 handler, history>>

\* Glide is shut down first ...
DetachShutdown(p) ==
  /\ procs[p].stage = "leaving" /\ p = user /\ present
  /\ gpc = "idle" /\ todo = <<>> /\ serial < MaxCalls
  /\ Begin(Steps("grGlideShutdown")[1]) /\ todo' = Tail(Steps("grGlideShutdown"))
  /\ UNCHANGED <<shared, procs, user, present, wnd, device, handler, pid, deaths, sent, run>>

\* ... then a register write unloads the host's library ...
DetachUnloads(p) ==
  /\ procs[p].stage \in {"leaving", "quitting"} /\ hpc = "ready"
  /\ p = user => gpc = "idle" /\ todo = <<>> /\ ~present
  /\ At(p, "unloaded")
  /\ IF initDLL THEN initDLL' = FALSE /\ crashRC' = FALSE /\ context' = 0 ELSE UNCHANGED device
  /\ UNCHANGED <<shared, user, gpc, gcall, todo, present, wnd, handler, history>>

\* ... and nothing is left to join.
DetachClears(p) ==
  /\ procs[p].stage = "unloaded" /\ pt0' = 0 /\ Ends(p)
  /\ UNCHANGED <<fifo0, queue, data0, mdata, refs, device, handler, history>>

\* The stages in which mdata[1] counts a process.
CountedStages == {"counted", "failed", "up"}

\* The process dies between two instructions of its own.
Dies(p) ==
  /\ procs[p].stage \in DiesIn
  /\ p = user => gpc # "wait"
  /\ Ends(p)
  /\ deaths' = IF procs[p].stage \in CountedStages THEN deaths + 1 ELSE deaths
  /\ UNCHANGED <<shared, device, handler, pid, serial, sent, run>>

Device == processFifo_Entry \/ processFifo_End \/ (\E late \in BOOLEAN : Act(late)) \/ Return

Attach(p) == AttachJoins(p) \/ AttachCounts(p) \/ \E loaded \in BOOLEAN : AttachLoads(p, loaded)
Detach(p) == DetachNotLast(p) \/ DetachLast(p) \/ DetachShutdown(p) \/ DetachUnloads(p) \/ DetachClears(p)

Next ==
  \/ \E p \in DOMAIN procs, f \in Functions : BeginCall(p, f)
  \/ GoOn \/ fifoAddData \/ fifoAddEntry \/ Trap
  \/ Device
  \/ \E a \in Addresses : AttachFinds(a) \/ AttachMaps(a)
  \/ \E p \in DOMAIN procs : Attach(p) \/ Detach(p) \/ Dies(p)

\* A register write is handled to its end.
Spec == Init /\ [][Next]_vars /\ WF_vars(Device)

-----------------------------------------------------------------------------
(* Properties. *)

\* Nothing is written behind the queue or behind the shared memory: the room
\* is looked at after the data has been written, not before.
InArea == fifo0 < MaxFifo /\ data0 <= DataTop

Counted == {p \in DOMAIN procs : procs[p].stage \in CountedStages}

\* The reference count is that of the processes there are and of those that died
\* and have not been taken off again, of which there are never fewer than none,
\* whoever joined, left, died or was taken for dead in the meantime: so the detach
\* of one never unloads the host's library under another, and a library that joins
\* finds the host's loaded.
RefsCount ==
  /\ deaths >= 0
  /\ (\A p \in DOMAIN procs : procs[p].stage # "mapped") => refs = Cardinality(Counted) + deaths
  /\ \A p \in DOMAIN procs : procs[p].stage = "up" => initDLL /\ pt0 = procs[p].address
  /\ (\A p \in DOMAIN procs : procs[p].stage = "up") /\ pt0 # 0 => initDLL

\* The calls behave as if made on the host directly, in order, each with its
\* own data; across the death of a process and the start of another, which
\* may find calls and orphaned data in the shared memory.
Direct == INSTANCE DirectCalls WITH
            Call <- [n : 1 .. MaxCalls + 1, f : Functions], asked <- (hpc # "ready"),
            alive <- (DOMAIN procs # {} \/ pid = 0)
GlideIsDirect == Direct!Spec

\* A register write never takes back the context of a process that is gone, as
\* the comment in glidept_write has it; false after a death, since a library
\* that joins writes no register first.
OwnContext == hpc = "drain" => context \in {0, user}
=============================================================================
