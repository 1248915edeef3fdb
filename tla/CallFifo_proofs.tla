--------------------------- MODULE CallFifo_proofs ---------------------------
(***************************************************************************)
(* Proofs about the call FIFO: that every behaviour keeps the type         *)
(* invariant, for every call table, every layout and every mode (one lemma *)
(* per part of the state); that guest and host never lose step; and what   *)
(* follows from that for uploads, for the data words and for DirectCalls.  *)
(***************************************************************************)
EXTENDS CallFifo, TLAPS

LEMMA CutType ==
  ASSUME NEW S, NEW s \in Seq(S), NEW n \in 0 .. Len(s)
  PROVE  /\ SubSeq(s, 1, n) \in Seq(S)
         /\ Len(SubSeq(s, 1, n)) = n
         /\ \A k \in 1 .. n : SubSeq(s, 1, n)[k] = s[k]
  OBVIOUS

LEMMA AppendType == ASSUME NEW S, NEW s \in Seq(S), NEW e \in S PROVE Append(s, e) \in Seq(S)
  OBVIOUS

LEMMA SharedStep == ASSUME TypeOK, [Next]_vars PROVE TypeShared'
<1> USE LayoutAssumption DEF TypeOK, TypeShared, DataStart, FifoIdx
<1>1. ASSUME NEW n \in 1 .. gleft, fifoAddData_Copy(n) PROVE TypeShared'
  BY <1>1 DEF fifoAddData_Copy, TypeGuest, TypeHistory
<1>2. CASE fifoAddEntry_Store
  <2>1. /\ gcall \in Calls /\ Args[gcall] \in Nat /\ gj \in Nat /\ serial \in Nat
        /\ gj + Args[gcall] + 1 \in FifoIdx
    BY <1>2, CallsAssumption DEF fifoAddEntry_Store, TypeGuest, TypeHistory, InCall
  <2>2. mfifo' \in [FifoIdx -> Word]
    BY <1>2, <2>1 DEF fifoAddEntry_Store, Word
  <2> QED BY <1>2, <2>1, <2>2 DEF fifoAddEntry_Store
<1>3. CASE CreateContext \/ MakeCurrent \/ MakeNothingCurrent \/ DeleteContext \/ SetPixelFormat
  BY <1>3 DEF CreateContext, MakeCurrent, MakeNothingCurrent, DeleteContext, SetPixelFormat, Writes
<1>4. CASE DetachLast \/ DetachClear \/ DetachNotLast
  <2>1. refs' \in Nat
    BY <1>4 DEF DetachLast, DetachClear, DetachNotLast
  <2>2. warm' = FALSE \/ warm' = warm
    BY <1>4 DEF DetachLast, DetachClear, DetachNotLast
  <2>3. UNCHANGED <<fifo0, mfifo, data0, mdata>>
    BY <1>4 DEF DetachLast, DetachClear, DetachNotLast, Writes
  <2> QED BY <2>1, <2>2, <2>3
<1>5. CASE Attach
  <2>1. warm' \in BOOLEAN
    BY <1>5 DEF Attach
  <2> QED BY <1>5, <2>1 DEF Attach
<1>6. CASE processFifo_End
  BY <1>6 DEF processFifo_End
<1>7. CASE ActReturn \/ ActPlain \/ ActCreate \/ ActAttribs \/ ActBind \/ ActDelete
  BY <1>7 DEF ActReturn, ActPlain, ActCreate, ActAttribs, ActBind, ActDelete
<1>8. CASE ActFormat
  BY <1>8 DEF ActFormat
<1>9. CASE UNCHANGED shared
  BY <1>9 DEF shared
<1> HIDE DEF TypeOK, TypeShared
<1> QED BY <1>1, <1>2, <1>3, <1>4, <1>5, <1>6, <1>7, <1>8, <1>9
     DEF Next, vars, MakeCall, BeginCall, PrepFlush, PrepNoFlush, fifoAddData_Read, fifoAddEntry_Read, TrapCall,
         Wgl, SwapBuffers, CreateContextAttribs, RegWrite, Process, Kill, Activate, Host, processFifo_Entry, processFifo_Misread,
         ActCall, ActUnload

LEMMA GuestStep == ASSUME TypeOK, [Next]_vars PROVE TypeGuest'
<1> USE DEF TypeOK, TypeGuest, InCall
<1>1. ASSUME NEW c \in Calls, BeginCall(c) PROVE TypeGuest'
  BY <1>1, CallsAssumption DEF BeginCall, session
<1>2. CASE PrepFlush \/ PrepNoFlush
  BY <1>2 DEF PrepFlush, PrepNoFlush, session
<1>3. CASE fifoAddData_Read \/ fifoAddEntry_Read
  BY <1>3, CallsAssumption, LayoutAssumption
     DEF fifoAddData_Read, fifoAddEntry_Read, FifoHasRoom, FifoIdx, session, TypeShared
<1>4. ASSUME NEW n \in 1 .. gleft, fifoAddData_Copy(n) PROVE TypeGuest'
  BY <1>4 DEF fifoAddData_Copy, session
<1>5. CASE fifoAddEntry_Store \/ TrapCall
  BY <1>5 DEF fifoAddEntry_Store, TrapCall, session
<1>6. ASSUME NEW op \in todo, RegWrite(op) PROVE TypeGuest'
  BY <1>6 DEF RegWrite, session
<1>7. CASE CreateContext \/ MakeCurrent \/ MakeNothingCurrent \/ DeleteContext
  BY <1>7 DEF CreateContext, MakeCurrent, MakeNothingCurrent, DeleteContext, Writes, RegOps
<1>8. CASE SetPixelFormat \/ DetachLast
  <2>1. currDC' \in BOOLEAN
    BY <1>8 DEF SetPixelFormat, DetachLast
  <2> QED BY <1>8, <2>1 DEF SetPixelFormat, DetachLast, Writes, Release, RegOps
<1>9. CASE DetachClear \/ DetachNotLast \/ Kill
  BY <1>9 DEF DetachClear, DetachNotLast, Kill, session
<1>10. CASE Attach
  <2>1. hooked' \in BOOLEAN
    BY <1>10 DEF Attach
  <2> QED BY <1>10, <2>1 DEF Attach
<1>11. CASE ActFormat
  <2>1. currPixFmt' \in BOOLEAN
    BY <1>11 DEF ActFormat, Outcome
  <2> QED BY <1>11, <2>1 DEF ActFormat, render
<1>13. CASE ActAttribs
  <2>1. currDC' \in BOOLEAN /\ currGLRC' \in BOOLEAN
    BY <1>13 DEF ActAttribs
  <2>2. UNCHANGED <<render, todo, currPixFmt, hooked>>
    BY <1>13 DEF ActAttribs
  <2> QED BY <2>1, <2>2 DEF render
<1>12. CASE UNCHANGED guest
  BY <1>12 DEF guest, render, session
<1> HIDE DEF TypeOK, TypeGuest, InCall
<1> QED BY <1>1, <1>2, <1>3, <1>4, <1>5, <1>6, <1>7, <1>8, <1>9, <1>10, <1>11, <1>12, <1>13
     DEF Next, vars, MakeCall, Wgl, SwapBuffers, CreateContextAttribs, Process, Activate, Host, processFifo_Entry, processFifo_Misread,
         processFifo_End, ActCall, ActReturn, ActPlain, ActCreate, ActBind, ActDelete, ActUnload

LEMMA HostStep == ASSUME TypeOK, [Next]_vars PROVE TypeHost'
<1> USE LayoutAssumption DEF TypeOK, TypeHost, DataStart
<1>1. ASSUME NEW op \in Ops, Trap(op), UNCHANGED context PROVE TypeHost'
  BY <1>1 DEF Trap, context
<1>2. CASE processFifo_Entry \/ processFifo_Misread
  <2>1. PICK c \in Calls : hi' = hi + 1 + HostArgs[c] /\ hj' = hj + Taken[c]
    BY <1>2 DEF processFifo_Entry, processFifo_Misread
  <2>2. HostArgs[c] \in Nat /\ Taken[c] \in Nat
    BY CallsAssumption
  <2>3. UNCHANGED <<context, hpc, trap>>
    BY <1>2 DEF processFifo_Entry, processFifo_Misread
  <2> QED BY <2>1, <2>2, <2>3 DEF context
<1>3. CASE processFifo_End \/ ActCall \/ ActReturn \/ ActPlain \/ ActFormat
  BY <1>3 DEF processFifo_End, ActCall, ActReturn, ActPlain, ActFormat, context
<1>4. CASE ActCreate \/ ActAttribs \/ ActBind \/ ActDelete \/ ActUnload
  <2>1. mglContext' \in BOOLEAN /\ mglCntxCurrent' \in BOOLEAN
    BY <1>4 DEF ActCreate, ActAttribs, ActBind, ActDelete, ActUnload
  <2> QED BY <1>4, <2>1 DEF ActCreate, ActAttribs, ActBind, ActDelete, ActUnload
<1>5. CASE UNCHANGED <<context, drain>>
  BY <1>5 DEF context, drain
<1>6. RegOps \subseteq Ops /\ {"flush", "call", "swap", "activate", "attribs"} \subseteq Ops /\ todo \subseteq RegOps
  BY DEF RegOps, Ops, TypeGuest
<1> HIDE DEF TypeOK, TypeHost
<1>7. CASE MakeCall
  BY <1>7, <1>1, <1>5, <1>6
     DEF MakeCall, BeginCall, PrepFlush, PrepNoFlush, fifoAddData_Read, fifoAddData_Copy, fifoAddEntry_Read,
         fifoAddEntry_Store, TrapCall
<1>8. CASE Wgl
  BY <1>8, <1>1, <1>5, <1>6
     DEF Wgl, SwapBuffers, CreateContextAttribs, RegWrite, CreateContext, MakeCurrent, MakeNothingCurrent, DeleteContext,
         SetPixelFormat, Writes
<1>9. CASE Process
  BY <1>9, <1>1, <1>5, <1>6
     DEF Process, Attach, DetachLast, DetachClear, DetachNotLast, Kill, Activate, Writes
<1> QED BY <1>2, <1>3, <1>4, <1>5, <1>7, <1>8, <1>9 DEF Next, vars, Host

LEMMA HistoryStep == ASSUME TypeOK, [Next]_vars PROVE TypeHistory'
<1> USE DEF TypeOK, TypeHistory
<1>1. ASSUME NEW c \in Calls, BeginCall(c) PROVE TypeHistory'
  BY <1>1 DEF BeginCall
<1>2. ASSUME NEW at \in Nat, gcall \in Calls PROVE Entry(at) \in [n : Nat, c : Calls, at : Nat, dat : Int]
  BY <1>2, CallsAssumption DEF Entry, TypeShared
<1>3. CASE fifoAddEntry_Store
  <2>1. gcall \in Calls /\ gj \in Nat
    BY <1>3 DEF fifoAddEntry_Store, TypeGuest, InCall
  <2>2. Entry(gj) \in [n : Nat, c : Calls, at : Nat, dat : Int]
    BY <1>2, <2>1
  <2> QED BY <1>3, <2>2 DEF fifoAddEntry_Store
<1>4. CASE TrapCall
  <2>1. gcall \in Calls
    BY <1>4 DEF TrapCall, TypeGuest, InCall
  <2>2. Entry(0) \in [n : Nat, c : Calls, at : Nat, dat : Int]
    BY <1>2, <2>1
  <2>3. (sent' = sent \/ sent' = Append(sent, Entry(0))) /\ UNCHANGED <<run, serial>>
    BY <1>4 DEF TrapCall
  <2>4. CASE sent' = sent
    BY <2>3, <2>4
  <2>5. CASE sent' = Append(sent, Entry(0))
    BY <2>2, <2>3, <2>5
  <2> QED BY <2>3, <2>4, <2>5
<1>5. CASE Attach
  <2>0. Len(run) \in Nat /\ Len(sent) \in Nat
    OBVIOUS
  <2>1. sent' = sent \/ (sent' = SubSeq(sent, 1, Len(run)) /\ Len(run) \in 0 .. Len(sent))
    BY <1>5, <2>0 DEF Attach
  <2>2. SubSeq(sent, 1, Len(run)) \in Seq([n : Nat, c : Calls, at : Nat, dat : Int])
        \/ Len(run) \notin 0 .. Len(sent)
    BY CutType
  <2>3. sent' \in Seq([n : Nat, c : Calls, at : Nat, dat : Int])
    BY <2>1, <2>2
  <2> QED BY <1>5, <2>3 DEF Attach
<1>6. \A j, words : Owners(j, words) \in SUBSET Nat
  BY DEF Owners, TypeShared
<1>7. CASE processFifo_Entry \/ processFifo_Misread
  <2>1. hi \in FifoIdx
    BY <1>7, LayoutAssumption DEF processFifo_Entry, processFifo_Misread, TypeShared, TypeHost, FifoIdx
  <2>2. mfifo[hi].n \in Nat
    BY <2>1 DEF TypeShared, Word
  <2>3. PICK c \in Calls, d \in Calls \cup {NoCall} :
          run' = Append(run, [n |-> mfifo[hi].n, c |-> d, data |-> Owners(hj, Taken[c])])
    BY <1>7 DEF processFifo_Entry, processFifo_Misread
  <2>4. [n |-> mfifo[hi].n, c |-> d, data |-> Owners(hj, Taken[c])]
          \in [n : Nat, c : Calls \cup {NoCall}, data : SUBSET Nat]
    BY <1>6, <2>2
  <2> QED BY <1>7, <2>3, <2>4 DEF processFifo_Entry, processFifo_Misread
<1>8. CASE ActCall
  <2> DEFINE entry == [n |-> serial, c |-> gcall, data |-> Owners(hj, Taken[gcall])]
             Entries == [n : Nat, c : Calls \cup {NoCall}, data : SUBSET Nat]
  <2>1. entry \in Entries
    BY <1>6 DEF TypeGuest
  <2>2. run' = run \/ run' = Append(run, entry)
    BY <1>8 DEF ActCall
  <2>3. UNCHANGED <<serial, sent>>
    BY <1>8 DEF ActCall
  <2>4. run \in Seq(Entries)
    OBVIOUS
  <2> HIDE DEF entry, Entries
  <2>5. Append(run, entry) \in Seq(Entries)
    BY <2>1, <2>4, AppendType
  <2>6. run' \in Seq(Entries)
    BY <2>2, <2>4, <2>5
  <2> QED BY <2>3, <2>6 DEF Entries
<1>9. CASE UNCHANGED history
  BY <1>9 DEF history
<1> HIDE DEF TypeOK, TypeHistory
<1>10. CASE MakeCall
  BY <1>10, <1>1, <1>3, <1>4, <1>9
     DEF MakeCall, PrepFlush, PrepNoFlush, fifoAddData_Read, fifoAddData_Copy, fifoAddEntry_Read
<1>11. CASE Wgl
  BY <1>11, <1>9
     DEF Wgl, SwapBuffers, CreateContextAttribs, RegWrite, CreateContext, MakeCurrent, MakeNothingCurrent, DeleteContext,
         SetPixelFormat, Writes
<1>12. CASE Process
  BY <1>12, <1>5, <1>9 DEF Process, DetachLast, DetachClear, DetachNotLast, Kill, Activate, Writes
<1>13. CASE Host
  BY <1>13, <1>7, <1>8, <1>9
     DEF Host, processFifo_End, ActReturn, ActPlain, ActCreate, ActAttribs, ActBind, ActDelete, ActFormat, ActUnload
<1> QED BY <1>9, <1>10, <1>11, <1>12, <1>13 DEF Next, vars

LEMMA TypeInit == Init => TypeOK
<1> SUFFICES ASSUME Init PROVE TypeOK
  OBVIOUS
<1> USE LayoutAssumption DEF Init, DataStart, FifoIdx
<1>1. TypeShared
  <2>1. Blank \in Word
    BY DEF Blank, Word
  <2> QED BY <2>1 DEF TypeShared, Nobody
<1>2. TypeGuest
  BY DEF TypeGuest, InCall
<1>3. TypeHost
  <2>1. hpc = "ready" /\ trap = "swap" /\ hi = FirstFifo /\ hj = 2
    OBVIOUS
  <2>2. mglContext = FALSE /\ mglCntxCurrent = FALSE
    OBVIOUS
  <2> HIDE DEF Init
  <2>3. mglContext \in BOOLEAN /\ mglCntxCurrent \in BOOLEAN
    BY <2>2
  <2>4. hpc \in {"ready", "drain", "act", "ret"} /\ trap \in Ops
    BY <2>1 DEF Ops
  <2>5. hi \in Nat /\ FirstFifo <= hi /\ hj \in Nat
    BY <2>1
  <2> QED BY <2>3, <2>4, <2>5 DEF TypeHost
<1>4. TypeHistory
  BY DEF TypeHistory
<1> QED BY <1>1, <1>2, <1>3, <1>4 DEF TypeOK

LEMMA TypeStep == ASSUME TypeOK, [Next]_vars PROVE TypeOK'
BY SharedStep, GuestStep, HostStep, HistoryStep DEF TypeOK

\* Guest and host keep to their parts of the memory and of each other's protocol
\* whatever the call tables, the window system and the processes do: mfifo[0]
\* stays inside the FIFO's words and every entry fifoAddEntry stores fits there.
THEOREM TypeCorrect == Spec => []TypeOK
<1>1. TypeOK /\ [Next]_vars => TypeOK'
  BY TypeStep
<1> QED BY <1>1, TypeInit, PTL DEF Spec

-----------------------------------------------------------------------------
(***************************************************************************)
(* Proof that guest and host never lose step: under the conditions named   *)
(* by Disciplined, every call the host runs is the next one the guest      *)
(* handed over, with its own data, and neither stream leaves its area.     *)
(*                                                                         *)
(* OwnData is not inductive.  It takes what lies in the FIFO between two   *)
(* traps (QueueInv, MemoryInv), how far the call under way has come        *)
(* (CallInv), what a dead process may have left behind (OrphanInv) and     *)
(* when a context is current (SessionInv).  One lemma per group of actions *)
(* shows that a step keeps them; the frame lemmas say which steps leave    *)
(* the queue alone.                                                        *)
(***************************************************************************)

LEMMA SessionStep == ASSUME Disciplined, TypeOK, SessionInv, [Next]_vars PROVE SessionInv'
<1> USE DEF SessionInv, InCall, Handling, Current, TypeOK, TypeGuest, TypeHost, TypeShared
<1>1. ASSUME NEW c \in Calls, BeginCall(c) PROVE SessionInv'
  BY <1>1 DEF BeginCall, Disciplined, shared, session, context, drain
<1>2. CASE PrepFlush
  BY <1>2 DEF PrepFlush, Trap, shared, session, context
<1>3. CASE PrepNoFlush
  BY <1>3 DEF PrepNoFlush, shared, session, context, drain
<1>4. CASE fifoAddData_Read
  BY <1>4 DEF fifoAddData_Read, shared, session, context, drain
<1>5. ASSUME NEW n \in 1 .. gleft, fifoAddData_Copy(n) PROVE SessionInv'
  BY <1>5 DEF fifoAddData_Copy, session, context, drain
<1>6. CASE fifoAddEntry_Read
  BY <1>6 DEF fifoAddEntry_Read, shared, session, context, drain
<1>7. CASE fifoAddEntry_Store
  BY <1>7 DEF fifoAddEntry_Store, session, context, drain
<1>8. CASE TrapCall
  BY <1>8 DEF TrapCall, Trap, shared, session, context
<1>9. CASE SwapBuffers
  BY <1>9 DEF SwapBuffers, Trap, shared, guest, render, session, context
<1>10. ASSUME NEW op \in todo, RegWrite(op) PROVE SessionInv'
  <2> USE <1>10 DEF RegWrite, Trap, shared, session, context
  <2>1. op \in RegOps /\ todo \subseteq RegOps
    OBVIOUS
  <2>2. Rank["create"] = 1 /\ Rank["unbind"] = 2 /\ Rank["delete"] = 3 /\ Rank["bind"] = 4
        /\ Rank["format"] = 5 /\ Rank["unload"] = 6
    BY DEF Rank
  <2>3. op = "unload" => todo = {"unload"}
    <3> SUFFICES ASSUME op = "unload", NEW o \in todo PROVE o = "unload"
      OBVIOUS
    <3>1. o \in RegOps /\ Rank["unload"] <= Rank[o]
      BY <2>1
    <3> QED BY <2>2, <3>1 DEF RegOps
  <2>4. op = "bind" => "create" \notin todo
    BY <2>1, <2>2
  <2>5. op \notin {"flush", "call", "swap", "activate", "attribs"}
    BY <2>1 DEF RegOps
  <2>6. \A o : o # op => (o \in todo' <=> o \in todo)
    OBVIOUS
  <2>7. /\ gpc' = "regs" <=> todo' # {}
        /\ gpc' = "clear" <=> op = "unload"
        /\ gpc' \in {"regs", "clear", "idle"}
    BY <2>3
  <2>8. "unload" \in todo' \/ gpc' = "clear" <=> "unload" \in todo
    BY <2>3, <2>6, <2>7
  <2>9. \A o \in {"bind", "create", "delete"} : o \in todo' \/ op = o <=> o \in todo
    BY <2>6
  <2>10. gpc # "gone" /\ gpc # "clear" /\ ~InCall /\ hpc = "ready"
    OBVIOUS
  <2> QED BY <2>4, <2>5, <2>7, <2>8, <2>9, <2>10
<1>11. CASE CreateContext
  BY <1>11 DEF CreateContext, Writes, context, drain
<1>12. CASE MakeCurrent
  BY <1>12 DEF MakeCurrent, Writes, context, drain
<1>13. CASE MakeNothingCurrent
  BY <1>13 DEF MakeNothingCurrent, Writes, context, drain
<1>14. CASE DeleteContext
  BY <1>14 DEF DeleteContext, Writes, context, drain
<1>15. CASE SetPixelFormat
  BY <1>15 DEF SetPixelFormat, Writes, Release, context, drain
<1>16. CASE DetachLast
  BY <1>16 DEF DetachLast, Writes, Release, context, drain
<1>17. CASE DetachClear
  BY <1>17 DEF DetachClear, session, context, drain
<1>18. CASE DetachNotLast
  BY <1>18 DEF DetachNotLast, session, context, drain
<1>19. CASE Kill
  BY <1>19 DEF Kill, shared, session, context, drain
<1>20. CASE Attach
  <2>1. /\ gpc' = "idle" /\ gpc = "gone" /\ warm' = TRUE /\ hpc = "ready" /\ hpc' = "ready" /\ todo' = todo
        /\ currDC' = FALSE /\ currGLRC' = FALSE
    BY <1>20 DEF Attach, Outcome, Disciplined, drain
  <2>2. refs' >= 1
    BY <1>20 DEF Attach
  <2>3. todo' = {}
    BY <2>1
  <2> QED BY <2>1, <2>2, <2>3
<1>21. CASE Activate
  BY <1>21 DEF Activate, Disciplined, Trap, shared, guest, render, session, context
<1>22. CASE processFifo_Entry
  BY <1>22 DEF processFifo_Entry, shared, guest, render, session, context
<1>23. CASE processFifo_Misread
  BY <1>23 DEF processFifo_Misread, shared, guest, render, session, context
<1>24. CASE processFifo_End
  BY <1>24 DEF processFifo_End, guest, render, session, context
<1>25. CASE ActCall
  BY <1>25 DEF ActCall, shared, guest, render, session, context
<1>26. CASE ActReturn
  BY <1>26 DEF ActReturn, guest, render, session, context
<1>27. CASE ActPlain
  BY <1>27 DEF ActPlain, guest, render, session, context
<1>28. CASE ActCreate
  BY <1>28 DEF ActCreate, Outcome, Disciplined, guest, render, session, context
<1>29. CASE ActBind
  <2>1. (mglCntxCurrent' = (mglCntxCurrent \/ mglContext)) /\ mglContext' = mglContext /\ hpc' = "ready"
    BY <1>29 DEF ActBind, Outcome, Disciplined
  <2>2. UNCHANGED <<guest, warm, refs, trap>> /\ trap = "bind" /\ hpc = "act"
    BY <1>29 DEF ActBind
  <2>3. Current => Current'
    BY <2>1
  <2>4. gpc # "clear" /\ gpc # "gone" /\ currGLRC
    BY <2>2
  <2>5. currDC /\ mglContext
    BY <2>2, <2>4
  <2>6. Current'
    BY <2>1, <2>5
  <2> QED BY <2>1, <2>2, <2>4, <2>5, <2>6 DEF guest, render, session
<1>30. CASE ActDelete
  BY <1>30 DEF ActDelete, guest, render, session
<1>31. CASE ActFormat
  BY <1>31 DEF ActFormat, Outcome, render, session, context
<1>32. CASE ActUnload
  BY <1>32 DEF ActUnload, shared, guest, render, session
<1>34. CASE CreateContextAttribs
  BY <1>34 DEF CreateContextAttribs, Trap, shared, guest, render, session, context
<1>35. CASE ActAttribs
  <2>1. /\ currDC' = TRUE /\ currGLRC' = FALSE /\ mglContext' = TRUE /\ hpc' = "ready" /\ hpc = "act"
        /\ UNCHANGED <<warm, refs, gpc, todo, trap>> /\ trap = "attribs"
    BY <1>35 DEF ActAttribs, Outcome, Disciplined, render
  <2>2. gpc = "idle" /\ todo = {}
    BY <2>1
  <2> QED BY <2>1, <2>2
<1>33. CASE UNCHANGED vars
  BY <1>33 DEF vars, shared, guest, render, session, context, drain
<1> HIDE DEF SessionInv, TypeOK
<1> QED
  BY <1>1, <1>2, <1>3, <1>4, <1>5, <1>6, <1>7, <1>8, <1>9, <1>10, <1>11, <1>12, <1>13, <1>14, <1>15, <1>16,
     <1>17, <1>18, <1>19, <1>20, <1>21, <1>22, <1>23, <1>24, <1>25, <1>26, <1>27, <1>28, <1>29, <1>30, <1>31,
     <1>32, <1>33, <1>34, <1>35 DEF Next, MakeCall, Wgl, Process, Host

LEMMA ElementType == ASSUME NEW S, NEW s \in Seq(S), NEW k \in 1 .. Len(s) PROVE s[k] \in S
  OBVIOUS

LEMMA SentFacts ==
  ASSUME TypeOK
  PROVE  /\ Done \in Nat /\ Len(sent) \in Nat /\ DataPos \in Nat /\ FifoPos \in Nat
         /\ Last = Len(sent) \/ (Waiting /\ Last = Len(sent) - 1)
         /\ \A k \in 1 .. Len(sent) :
              /\ sent[k].n \in Nat /\ sent[k].at \in Nat /\ sent[k].dat \in Int
              /\ sent[k].c \in Calls /\ Args[sent[k].c] \in Nat /\ Pushed[sent[k].c] \in Nat
<1>1. /\ Done \in Nat /\ Len(sent) \in Nat /\ DataPos \in Nat /\ FifoPos \in Nat
      /\ Last = Len(sent) \/ (Waiting /\ Last = Len(sent) - 1)
  BY LayoutAssumption DEF TypeOK, TypeHistory, TypeHost, Done, DataPos, FifoPos, DataStart, Last
<1>2. ASSUME NEW k \in 1 .. Len(sent)
      PROVE  sent[k] \in [n : Nat, c : Calls, at : Nat, dat : Int]
  BY ElementType DEF TypeOK, TypeHistory
<1> QED BY <1>1, <1>2, CallsAssumption

LEMMA QueueEndType == ASSUME TypeOK, QueueInv PROVE QueueEnd \in Nat /\ Last \in Nat /\ Last <= Len(sent)
<1>1. Done \in Nat /\ Last \in Nat /\ Last <= Len(sent) /\ Len(sent) \in Nat
  BY SentFacts DEF QueueInv
<1>2. QueueEnd \in Int
  <2>1. CASE Done < Last
    <3>1. Last \in 1 .. Len(sent)
      BY <1>1, <2>1
    <3> QED BY <2>1, <3>1, SentFacts DEF QueueEnd
  <2>2. CASE ~(Done < Last)
    BY <2>2, SentFacts DEF QueueEnd
  <2> QED BY <2>1, <2>2
<1> QED BY <1>1, <1>2 DEF QueueInv, DataStart

\* The queue as the host will find it does not depend on where the guest is.
LEMMA QueueFrame ==
  ASSUME TypeOK, QueueInv, MemoryInv,
         UNCHANGED <<fifo0, mfifo, mdata, Done, Last, FifoPos>>,
         \A k \in 1 .. Last : sent'[k] = sent[k],
         DataPos' = DataPos \/ (Done = Last /\ DataPos' = DataStart),
         (hpc' \in {"act", "ret"} /\ trap' # "unload" /\ Current') => Done = Last
  PROVE  /\ QueueInv' /\ MemoryInv'
         /\ QueueEnd' = IF Done = Last THEN DataPos' ELSE QueueEnd
<1>1. Done \in Nat /\ Last \in Int
  BY SentFacts
<1>2. QueueEnd' = IF Done = Last THEN DataPos' ELSE QueueEnd
  BY <1>1 DEF QueueEnd, QueueInv
<1>3. QueueInv'
  <2>1. CASE Done = Last
    <3>1. QueueEnd = DataPos
      BY <2>1, <1>1 DEF QueueEnd
    <3> QED BY <2>1, <3>1, <1>1, <1>2, LayoutAssumption DEF QueueInv, DataStart
  <2>2. CASE Done < Last
    <3>1. DataPos' = DataPos /\ QueueEnd' = QueueEnd /\ Done + 1 \in 1 .. Last /\ Last \in 1 .. Last
      BY <2>2, <1>1, <1>2
    <3>2. \A k \in (Done + 1) .. (Last - 1) : k \in 1 .. Last /\ k + 1 \in 1 .. Last
      BY <1>1
    <3> QED BY <2>2, <3>1, <3>2, <1>1 DEF QueueInv
  <2> QED BY <2>1, <2>2, <1>1 DEF QueueInv
<1>4. MemoryInv'
  BY <1>1, <1>2 DEF MemoryInv, QueueInv
<1> QED BY <1>2, <1>3, <1>4

\* A step of the guest alone, and one that traps, leave the queue as it is.
LEMMA QuietFrame ==
  ASSUME TypeOK, QueueInv, MemoryInv, hpc = "ready", hpc' = "ready",
         UNCHANGED <<fifo0, mfifo, mdata, sent, run>>
  PROVE  QueueInv' /\ MemoryInv' /\ UNCHANGED <<Last, QueueEnd>> /\ ~Waiting /\ ~Waiting'
<1>1. UNCHANGED <<Done, Last, FifoPos, DataPos>> /\ ~Waiting /\ ~Waiting'
  BY DEF Done, Last, FifoPos, DataPos, Waiting
<1>2. QueueInv' /\ MemoryInv' /\ QueueEnd' = IF Done = Last THEN DataPos' ELSE QueueEnd
  BY <1>1, QueueFrame
<1>3. QueueEnd' = QueueEnd
  BY <1>1 DEF QueueEnd
<1> QED BY <1>1, <1>2, <1>3

LEMMA TrapFrame ==
  ASSUME TypeOK, QueueInv, MemoryInv, NEW op, Trap(op), op # "call",
         UNCHANGED <<fifo0, mfifo, mdata, sent, run, context>>
  PROVE  QueueInv' /\ MemoryInv' /\ UNCHANGED <<Last, QueueEnd>> /\ ~Waiting /\ ~Waiting'
<1>1. UNCHANGED <<Done, Last, FifoPos, DataPos>> /\ ~Waiting /\ ~Waiting'
  BY DEF Done, Last, FifoPos, DataPos, Waiting, Trap
<1>2. Current' = Current
  BY DEF Current, context
<1>3. ~(hpc' \in {"act", "ret"} /\ trap' # "unload" /\ Current')
  BY <1>2 DEF Trap
<1>4. QueueInv' /\ MemoryInv' /\ QueueEnd' = IF Done = Last THEN DataPos' ELSE QueueEnd
  BY <1>1, <1>3, QueueFrame
<1>5. QueueEnd' = QueueEnd
  BY <1>1 DEF QueueEnd
<1> QED BY <1>1, <1>4, <1>5

\* Everything but SessionInv, which needs no help from the rest.
Order == QueueInv /\ MemoryInv /\ CallInv /\ OrphanInv /\ OwnData

\* A current context is there for whoever is inside a call.
LEMMA CurrentInCall ==
  ASSUME TypeOK, SessionInv, InCall, hpc = "ready" \/ trap = "flush"
  PROVE  Current /\ currGLRC /\ gpc # "gone" /\ refs >= 1 /\ warm
<1>1. currGLRC /\ gpc # "gone" /\ gpc # "regs" /\ gpc # "clear"
  BY DEF SessionInv, InCall
<1>2. todo = {} /\ ~Handling("bind")
  BY <1>1 DEF SessionInv, Handling
<1> QED BY <1>1, <1>2 DEF SessionInv

LEMMA OwnDataFrame ==
  ASSUME TypeOK, OwnData, UNCHANGED run, \A k \in 1 .. Len(run) : k <= Len(sent) => k <= Len(sent') /\ sent'[k] = sent[k]
  PROVE  OwnData'
  BY DEF OwnData, Carried, TypeOK, TypeHistory

LEMMA BeginCallOrder ==
  ASSUME Disciplined, TypeOK, SessionInv, Order, NEW c \in Calls, BeginCall(c)
  PROVE  Order'
<1> USE DEF Order
<1>1. /\ hpc = "ready" /\ hpc' = "ready" /\ UNCHANGED <<fifo0, mfifo, mdata, data0, sent, run>>
      /\ gpc = "idle" /\ gpc' = "prep" /\ gcall' = c /\ gleft' = Pushed[c] /\ currGLRC
      /\ Pushed[c] \in Nat /\ data0 \in Nat
  BY CallsAssumption DEF BeginCall, Disciplined, shared, drain, TypeOK, TypeShared
<1>2. QueueInv' /\ MemoryInv' /\ UNCHANGED QueueEnd /\ ~Waiting /\ ~Waiting'
  BY <1>1, QuietFrame
<1>3. ~InCall /\ InCall'
  BY <1>1 DEF InCall
<1>4. data0 = QueueEnd
  BY <1>1, <1>2, <1>3 DEF OrphanInv, Orphaned
<1>5. CallInv'
  BY <1>1, <1>2, <1>3, <1>4 DEF CallInv
<1>6. OrphanInv'
  BY <1>3 DEF OrphanInv, Orphaned
<1>7. OwnData'
  BY <1>1, OwnDataFrame
<1> QED BY <1>2, <1>5, <1>6, <1>7

LEMMA PrepOrder ==
  ASSUME Disciplined, TypeOK, SessionInv, Order, PrepFlush \/ PrepNoFlush
  PROVE  Order'
<1> USE DEF Order
<1>1. /\ hpc = "ready" /\ UNCHANGED <<fifo0, mfifo, mdata, data0, sent, run, context, gcall, gleft, serial>>
      /\ gpc = "prep" /\ gpc' = "data" /\ gcall \in Calls
  BY DEF PrepFlush, PrepNoFlush, Trap, shared, history, drain, TypeOK, TypeGuest, InCall
<1>2. /\ Pushed[gcall] \in Nat /\ data0 \in Nat /\ gleft \in Nat /\ MaxData \in Nat /\ DataTop \in Nat
      /\ MaxData <= DataTop /\ InCall /\ InCall'
  BY <1>1, CallsAssumption, LayoutAssumption DEF TypeOK, TypeShared, TypeGuest, InCall
<1>3. QueueInv' /\ MemoryInv' /\ UNCHANGED QueueEnd /\ ~Waiting /\ ~Waiting'
  <2>1. CASE PrepFlush
    BY <1>1, <2>1, TrapFrame DEF PrepFlush
  <2>2. CASE PrepNoFlush
    BY <1>1, <2>2, QuietFrame DEF PrepNoFlush, drain
  <2> QED BY <2>1, <2>2
<1>4. gleft = Pushed[gcall] /\ data0 = QueueEnd /\ data0 < MaxData
  BY <1>1, <1>2, <1>3, QueueEndType DEF CallInv, QueueInv
<1>5. IF gcall \in Draws \cup Uploads THEN DataStart + Pushed[gcall] < MaxData
                                     ELSE MaxData + Pushed[gcall] <= DataTop
  BY <1>1 DEF Disciplined, PushesFit
<1>6. hpc' = "ready" => data0 + gleft <= DataTop
  <2>1. CASE PrepFlush
    BY <2>1, CurrentInCall, <1>2 DEF PrepFlush, Trap
  <2>2. CASE PrepNoFlush
    BY <2>2, <1>1, <1>2, <1>4, <1>5 DEF PrepNoFlush, WouldOverflow
  <2> QED BY <2>1, <2>2
<1>7. hpc' # "ready" => DataStart + gleft <= DataTop
  BY <1>1, <1>2, <1>4, <1>5 DEF PrepFlush, PrepNoFlush, WouldOverflow, drain, DataStart
<1>8. CallInv'
  BY <1>1, <1>2, <1>3, <1>4, <1>6, <1>7 DEF CallInv
<1>9. OrphanInv'
  BY <1>2 DEF OrphanInv, Orphaned
<1>10. OwnData'
  BY <1>1, OwnDataFrame
<1> QED BY <1>3, <1>8, <1>9, <1>10

LEMMA ReadOrder ==
  ASSUME Disciplined, TypeOK, SessionInv, Order, fifoAddData_Read \/ fifoAddEntry_Read
  PROVE  Order'
<1> USE DEF Order
<1>1. /\ hpc = "ready" /\ hpc' = "ready" /\ gpc = "data"
      /\ UNCHANGED <<fifo0, mfifo, mdata, data0, sent, run, gcall, gleft, serial>>
      /\ \/ gpc' = "copy" /\ gj' = data0
         \/ gpc' = "entry" /\ gj' = fifo0 /\ gleft = 0 /\ FifoHasRoom
  BY DEF fifoAddData_Read, fifoAddEntry_Read, shared, history, drain
<1>2. InCall /\ InCall'
  BY <1>1 DEF InCall
<1>3. QueueInv' /\ MemoryInv' /\ UNCHANGED QueueEnd /\ ~Waiting /\ ~Waiting'
  BY <1>1, QuietFrame
<1>4. CallInv'
  BY <1>1, <1>2, <1>3 DEF CallInv, FifoHasRoom
<1>5. OrphanInv'
  BY <1>2 DEF OrphanInv, Orphaned
<1>6. OwnData'
  BY <1>1, OwnDataFrame
<1> QED BY <1>3, <1>4, <1>5, <1>6

LEMMA CopyOrder ==
  ASSUME Disciplined, TypeOK, SessionInv, Order, NEW n \in 1 .. gleft, fifoAddData_Copy(n)
  PROVE  Order'
<1> USE DEF Order
<1>1. /\ hpc = "ready" /\ hpc' = "ready" /\ gpc = "copy" /\ gpc' = "data"
      /\ UNCHANGED <<fifo0, mfifo, sent, run, gcall, serial>>
      /\ data0' = gj + n /\ gleft' = gleft - n
      /\ mdata' = [x \in DataIdx |-> IF x \in gj .. (gj + n - 1) THEN serial ELSE mdata[x]]
  BY DEF fifoAddData_Copy, shared, history, drain
<1>2. /\ data0 \in Nat /\ gleft \in Nat /\ n \in Nat /\ n <= gleft /\ DataTop \in Nat
      /\ InCall /\ InCall' /\ gcall \in Calls /\ Pushed[gcall] \in Nat
  BY <1>1, CallsAssumption, LayoutAssumption DEF TypeOK, TypeShared, TypeGuest, InCall
<1>3. gj = data0 /\ data0 + gleft <= DataTop
  BY <1>1, <1>2 DEF CallInv
<1>4. UNCHANGED <<Done, Last, FifoPos, DataPos>> /\ ~Waiting /\ ~Waiting'
  BY <1>1 DEF Done, Last, FifoPos, DataPos, Waiting
<1>5. QueueEnd' = QueueEnd
  BY <1>1, <1>4 DEF QueueEnd
<1>6. DataStart <= QueueEnd /\ QueueEnd <= data0 /\ QueueEnd \in Int
  BY <1>1, QueueEndType DEF QueueInv, CallInv
<1>7. QueueInv'
  BY <1>1, <1>4, <1>5 DEF QueueInv
<1>8. MemoryInv'
  <2> SUFFICES \A k \in (Done + 1) .. Last :
                 \A x \in sent[k].dat .. (sent[k].dat + Pushed[sent[k].c] - 1) : mdata'[x] = sent[k].n
    BY <1>1, <1>4, <1>5, ZenonT(60) DEF MemoryInv
  <2> TAKE k \in (Done + 1) .. Last
  <2> TAKE x \in sent[k].dat .. (sent[k].dat + Pushed[sent[k].c] - 1)
  <2>1. /\ sent[k].dat \in Int /\ Pushed[sent[k].c] \in Nat
        /\ DataStart <= sent[k].dat /\ sent[k].dat + Pushed[sent[k].c] <= QueueEnd /\ mdata[x] = sent[k].n
    <3>1. k \in 1 .. Len(sent)
      BY SentFacts, QueueEndType
    <3> QED BY <3>1, SentFacts DEF MemoryInv
  <2>2. x \in DataIdx /\ ~ (x \in gj .. (gj + n - 1))
    BY <2>1, <1>2, <1>3, <1>6 DEF DataIdx, DataStart
  <2> QED BY <1>1, <2>1, <2>2
<1>9. \A x \in QueueEnd .. (data0' - 1) : mdata'[x] = serial
  <2> TAKE x \in QueueEnd .. (data0' - 1)
  <2>1. x \in DataIdx
    BY <1>1, <1>2, <1>3, <1>6 DEF DataIdx, DataStart
  <2>2. x \in gj .. (gj + n - 1) \/ x \in QueueEnd .. (data0 - 1)
    BY <1>1, <1>2, <1>3, <1>6
  <2>3. x \in QueueEnd .. (data0 - 1) => mdata[x] = serial
    BY <1>2 DEF CallInv
  <2> QED BY <1>1, <2>1, <2>2, <2>3
<1>10. CallInv'
  <2>1. /\ gleft' <= Pushed[gcall] /\ data0' = QueueEnd + Pushed[gcall] - gleft'
        /\ data0' + gleft' <= DataTop
    <3>1. gleft <= Pushed[gcall] /\ data0 = QueueEnd + Pushed[gcall] - gleft
      BY <1>2 DEF CallInv
    <3>2. data0' = data0 + n /\ gleft' = gleft - n
      BY <1>1, <1>3
    <3> QED BY <3>1, <3>2, <1>2, <1>3, <1>6
  <2>2. gcall' = gcall /\ serial' = serial /\ gpc' = "data" /\ hpc' = "ready"
    BY <1>1
  <2>3. \A x \in QueueEnd' .. (data0' - 1) : mdata'[x] = serial'
    BY <2>2, <1>5, <1>9, Zenon
  <2>4. gleft' <= Pushed[gcall'] /\ data0' = QueueEnd' + Pushed[gcall'] - gleft'
    BY <2>1, <2>2, <1>5, Zenon
  <2>5. gpc' # "prep" /\ gpc' # "copy" /\ gpc' # "entry"
    BY <2>2
  <2>6. ~Waiting' /\ hpc' = "ready" /\ data0' + gleft' <= DataTop
    BY <1>4, <2>1, <2>2
  <2>7. QueueEnd <= data0' /\ data0' <= DataTop
    BY <1>1, <1>2, <1>3, <1>6
  <2>8. QueueEnd' <= data0'
    BY <2>7, <1>5
  <2> HIDE DEF Order
  <2> QED BY <2>3, <2>4, <2>5, <2>6, <2>7, <2>8 DEF CallInv
<1>11. OrphanInv'
  BY <1>2 DEF OrphanInv, Orphaned
<1>12. OwnData'
  BY <1>1, OwnDataFrame
<1> QED BY <1>7, <1>8, <1>10, <1>11, <1>12

LEMMA StoreOrder ==
  ASSUME Disciplined, TypeOK, SessionInv, Order, fifoAddEntry_Store
  PROVE  Order'
<1> USE DEF Order
<1>1. /\ hpc = "ready" /\ hpc' = "ready" /\ gpc = "entry" /\ gpc' = "idle"
      /\ UNCHANGED <<mdata, data0, run, gcall, serial>>
      /\ mfifo' = [x \in FifoIdx |->
                 IF x \in gj .. (gj + Args[gcall])
                   THEN [n |-> serial, k |-> x - gj, c |-> gcall] ELSE mfifo[x]]
      /\ fifo0' = gj + Args[gcall] + 1
      /\ sent' = Append(sent, Entry(gj))
  BY DEF fifoAddEntry_Store, drain
<1>2. /\ data0 \in Nat /\ InCall /\ ~InCall' /\ gcall \in Calls /\ Pushed[gcall] \in Nat /\ Args[gcall] \in Nat
      /\ fifo0 \in FifoIdx /\ gj \in FifoIdx /\ gj + Args[gcall] + 1 \in FifoIdx
  BY <1>1, CallsAssumption DEF TypeOK, TypeShared, TypeGuest, InCall
<1>3. gj = fifo0 /\ data0 = QueueEnd + Pushed[gcall] /\ data0 < MaxData
  BY <1>1, <1>2, QueueEndType DEF CallInv
<1>4. /\ Done' = Done /\ Last = Len(sent) /\ Last' = Last + 1 /\ FifoPos' = FifoPos /\ DataPos' = DataPos
      /\ ~Waiting /\ ~Waiting' /\ Done \in Nat /\ Last \in Nat /\ Done <= Last /\ QueueEnd \in Nat
  BY <1>1, SentFacts, QueueEndType DEF Done, Last, FifoPos, DataPos, Waiting, QueueInv, TypeOK, TypeHistory
<1>5. \A k \in 1 .. Last : sent'[k] = sent[k]
  BY <1>1, <1>4 DEF TypeOK, TypeHistory
<1>6. sent'[Last + 1] = [n |-> serial, c |-> gcall, at |-> fifo0, dat |-> QueueEnd]
  <2>1. Entry(gj) = [n |-> serial, c |-> gcall, at |-> fifo0, dat |-> QueueEnd]
    BY <1>2, <1>3, <1>4 DEF Entry
  <2> QED BY <1>1, <1>4, <2>1 DEF TypeOK, TypeHistory
<1>7. QueueEnd' = data0
  BY <1>2, <1>3, <1>4, <1>6 DEF QueueEnd
<1> DEFINE e == fifo0' q == QueueEnd'
<1>70. /\ fifo0 \in Nat /\ e \in Nat /\ e = fifo0 + Args[gcall] + 1 /\ FirstFifo <= fifo0 /\ FirstFifo \in Nat
       /\ q \in Nat /\ q = QueueEnd + Pushed[gcall] /\ q = data0
  BY <1>1, <1>2, <1>3, <1>4, <1>7, LayoutAssumption DEF FifoIdx
<1> HIDE DEF e, q
<1>71. fifo0 <= e /\ QueueEnd <= q
  <2>1. fifo0 \in Nat /\ e \in Nat /\ Args[gcall] \in Nat /\ e = fifo0 + Args[gcall] + 1
    BY <1>2, <1>70
  <2>2. q \in Nat /\ QueueEnd \in Nat /\ Pushed[gcall] \in Nat /\ q = QueueEnd + Pushed[gcall]
    BY <1>2, <1>4, <1>70
  <2>3. fifo0 <= e
    BY <2>1
  <2>4. QueueEnd <= q
    BY <2>2
  <2> QED BY <2>3, <2>4
<1>73. fifo0 + 1 + Args[gcall] <= e /\ QueueEnd + Pushed[gcall] <= q
  <2>1. fifo0 \in Nat /\ e \in Nat /\ Args[gcall] \in Nat /\ e = fifo0 + Args[gcall] + 1
    BY <1>2, <1>70
  <2>2. q \in Nat /\ q = QueueEnd + Pushed[gcall]
    BY <1>70
  <2>3. fifo0 + 1 + Args[gcall] <= e
    BY <2>1
  <2>4. QueueEnd + Pushed[gcall] <= q
    BY <2>2
  <2> QED BY <2>3, <2>4
<1>72. \A x \in QueueEnd .. (QueueEnd + Pushed[gcall] - 1) : mdata'[x] = serial
  <2>0. QueueEnd \in Nat /\ Pushed[gcall] \in Nat /\ data0 = QueueEnd + Pushed[gcall]
    BY <1>2, <1>3, <1>4
  <2>1. QueueEnd + Pushed[gcall] - 1 = data0 - 1
    BY <2>0
  <2>2. \A x \in QueueEnd .. (data0 - 1) : mdata[x] = serial
    BY <1>2 DEF CallInv
  <2>3. mdata' = mdata
    BY <1>1
  <2> QED BY <2>1, <2>2, <2>3, Zenon
<1>8. QueueInv'
  <2>1. Done' < Last' /\ ~(hpc' \in {"act", "ret"})
    BY <1>1, <1>4
  <2>2. sent'[Last'].at + 1 + Args[sent'[Last'].c] = fifo0'
    BY <1>1, <1>2, <1>3, <1>4, <1>6 DEF FifoIdx
  <2>3. sent'[Done' + 1].at = FifoPos' /\ sent'[Done' + 1].dat = DataPos'
    <3>1. CASE Done = Last
      BY <3>1, <1>4, <1>6 DEF QueueInv, QueueEnd
    <3>2. CASE Done < Last
      BY <3>2, <1>4, <1>5 DEF QueueInv
    <3> QED BY <3>1, <3>2, <1>4
  <2>4. ASSUME NEW k \in (Done' + 1) .. (Last' - 1)
        PROVE  /\ sent'[k + 1].at = sent'[k].at + 1 + Args[sent'[k].c]
               /\ sent'[k + 1].dat = sent'[k].dat + Pushed[sent'[k].c]
    <3>1. CASE k = Last
      BY <3>1, <1>4, <1>5, <1>6 DEF QueueInv, QueueEnd
    <3>2. CASE k < Last
      BY <3>2, <1>4, <1>5 DEF QueueInv
    <3> QED BY <3>1, <3>2, <1>4
  <2>5. DataStart <= QueueEnd' /\ QueueEnd' < MaxData
    BY <1>2, <1>3, <1>4, <1>7 DEF QueueInv, DataStart
  <2>6. fifo0' < MaxFifo
    BY <1>1, <1>2, LayoutAssumption DEF FifoIdx
  <2> QED BY <2>1, <2>2, <2>3, <2>4, <2>5, <2>6, <1>4 DEF QueueInv
<1>9. MemoryInv'
  <2> SUFFICES ASSUME NEW k \in (Done' + 1) .. Last'
               PROVE  /\ FirstFifo <= sent'[k].at
                      /\ sent'[k].at + 1 + Args[sent'[k].c] <= fifo0'
                      /\ mfifo'[sent'[k].at] = [n |-> sent'[k].n, k |-> 0, c |-> sent'[k].c]
                      /\ DataStart <= sent'[k].dat
                      /\ sent'[k].dat + Pushed[sent'[k].c] <= QueueEnd'
                      /\ \A x \in sent'[k].dat .. (sent'[k].dat + Pushed[sent'[k].c] - 1) : mdata'[x] = sent'[k].n
    BY DEF MemoryInv
  <2>1. CASE k = Last + 1
    <3>1. mfifo'[fifo0] = [n |-> serial, k |-> 0, c |-> gcall]
      BY <1>1, <1>2, <1>3, LayoutAssumption DEF FifoIdx
    <3>3. FirstFifo <= fifo0 /\ DataStart <= QueueEnd
      BY <1>2, LayoutAssumption DEF FifoIdx, QueueInv
    <3>4. fifo0 + 1 + Args[gcall] <= e /\ QueueEnd + Pushed[gcall] <= q
      BY <1>73
    <3>5. sent'[k].n = serial /\ sent'[k].c = gcall /\ sent'[k].at = fifo0 /\ sent'[k].dat = QueueEnd
      BY <1>6, <2>1
    <3>6. \A x \in sent'[k].dat .. (sent'[k].dat + Pushed[sent'[k].c] - 1) : mdata'[x] = sent'[k].n
      BY <1>72, <3>5
    <3>7. mfifo'[sent'[k].at] = [n |-> sent'[k].n, k |-> 0, c |-> sent'[k].c]
      BY <3>1, <3>5
    <3> QED BY <3>3, <3>4, <3>5, <3>6, <3>7 DEF e, q
  <2>2. CASE k <= Last
    <3>1. k \in (Done + 1) .. Last /\ k \in 1 .. Len(sent) /\ sent'[k] = sent[k]
      BY <2>2, <1>4, <1>5
    <3>2. /\ FirstFifo <= sent[k].at /\ sent[k].at + 1 + Args[sent[k].c] <= fifo0
          /\ mfifo[sent[k].at] = [n |-> sent[k].n, k |-> 0, c |-> sent[k].c]
          /\ DataStart <= sent[k].dat /\ sent[k].dat + Pushed[sent[k].c] <= QueueEnd
          /\ \A x \in sent[k].dat .. (sent[k].dat + Pushed[sent[k].c] - 1) : mdata[x] = sent[k].n
      BY <3>1 DEF MemoryInv
    <3>3. /\ sent[k].at \in Nat /\ sent[k].dat \in Int /\ Args[sent[k].c] \in Nat /\ Pushed[sent[k].c] \in Nat
      BY <3>1, SentFacts
    <3>4. mfifo'[sent[k].at] = mfifo[sent[k].at]
      <4>1. sent[k].at \in FifoIdx /\ ~(sent[k].at \in gj .. (gj + Args[gcall]))
        BY <1>2, <1>3, <3>2, <3>3, LayoutAssumption DEF FifoIdx
      <4> QED BY <1>1, <4>1
    <3>7. sent[k].at + 1 + Args[sent[k].c] <= e
      BY <1>70, <3>2, <3>3, <1>71
    <3>8. sent[k].dat + Pushed[sent[k].c] <= q
      <4> DEFINE end == sent[k].dat + Pushed[sent[k].c]
      <4>1. end \in Int /\ end <= QueueEnd
        BY <3>2, <3>3
      <4>2. q \in Int /\ QueueEnd \in Int /\ QueueEnd <= q
        BY <1>70, <1>4, <1>71
      <4> HIDE DEF end
      <4>3. end <= q
        BY <4>1, <4>2
      <4> QED BY <4>3 DEF end
    <3>5. sent[k].at + 1 + Args[sent[k].c] <= e /\ sent[k].dat + Pushed[sent[k].c] <= q
      BY <3>7, <3>8
    <3> QED BY <1>1, <3>1, <3>2, <3>4, <3>5 DEF e, q
  <2> QED BY <2>1, <2>2, <1>4
<1>10. CallInv'
  BY <1>1, <1>2, <1>4, <1>7 DEF CallInv
<1>11. OrphanInv'
  BY <1>7, <1>1 DEF OrphanInv, Orphaned
<1>12. OwnData'
  <2>1. \A k \in 1 .. Len(run) : k <= Len(sent) => k <= Len(sent') /\ sent'[k] = sent[k]
    BY <1>1, <1>4, <1>5 DEF TypeOK, TypeHistory
  <2> QED BY <1>1, <2>1, OwnDataFrame
<1> QED BY <1>8, <1>9, <1>10, <1>11, <1>12

LEMMA TrapCallOrder ==
  ASSUME Disciplined, TypeOK, SessionInv, Order, TrapCall
  PROVE  Order'
<1> USE DEF Order
<1>1. /\ hpc = "ready" /\ gpc = "data" /\ gpc' = "idle" /\ gleft = 0 /\ gcall \in Calls
      /\ Trap("call") /\ UNCHANGED <<shared, gcall, context, serial, run>>
      /\ sent' = IF Current \/ gcall \in Unconditional THEN Append(sent, Entry(0)) ELSE sent
  BY DEF TrapCall, Trap, TypeOK, TypeGuest, InCall
<1>2. InCall /\ ~InCall' /\ data0 \in Nat /\ Pushed[gcall] \in Nat
  BY <1>1, CallsAssumption DEF InCall, TypeOK, TypeShared
<1>3. Current /\ Current'
  BY <1>1, <1>2, CurrentInCall DEF context, Current
<1>4. /\ UNCHANGED <<Done, Last, FifoPos, DataPos>> /\ ~Waiting /\ Waiting' /\ Last = Len(sent)
      /\ Len(sent') = Len(sent) + 1 /\ hpc' = "drain"
  BY <1>1, <1>3 DEF Trap, Done, Last, FifoPos, DataPos, Waiting, TypeOK, TypeHistory
<1>5. \A k \in 1 .. Last : sent'[k] = sent[k]
  BY <1>1, <1>3, <1>4 DEF TypeOK, TypeHistory
<1>6. QueueInv' /\ MemoryInv' /\ QueueEnd' = IF Done = Last THEN DataPos' ELSE QueueEnd
  BY <1>1, <1>4, <1>5, QueueFrame DEF shared
<1>7. QueueEnd' = QueueEnd /\ QueueEnd \in Nat
  BY <1>4, <1>6, QueueEndType DEF QueueEnd
<1>8. sent'[Len(sent')].n = serial /\ sent'[Len(sent')].c = gcall
  BY <1>1, <1>3, <1>4 DEF Entry, TypeOK, TypeHistory
<1>9. data0 = QueueEnd + Pushed[gcall] /\ \A x \in QueueEnd .. (data0 - 1) : mdata[x] = serial
  BY <1>1, <1>2, <1>7 DEF CallInv
<1>10. CallInv'
  BY <1>1, <1>2, <1>4, <1>7, <1>8, <1>9 DEF CallInv, shared
<1>11. OrphanInv'
  BY <1>4 DEF OrphanInv, Orphaned
<1>12. OwnData'
  <2>1. \A k \in 1 .. Len(run) : k <= Len(sent) => k <= Len(sent') /\ sent'[k] = sent[k]
    BY <1>4, <1>5, SentFacts DEF TypeOK, TypeHistory
  <2> QED BY <1>1, <2>1, OwnDataFrame
<1> QED BY <1>6, <1>10, <1>11, <1>12

\* What a step that leaves memory and history alone, and no call under way, keeps.
LEMMA IdleOrder ==
  ASSUME TypeOK, Order, QueueInv', MemoryInv', UNCHANGED <<QueueEnd, mdata, data0, sent, run>>,
         ~InCall, ~InCall', ~Waiting, ~Waiting', hpc = "ready"
  PROVE  CallInv' /\ OwnData' /\ (data0 # QueueEnd => Orphaned) /\ (data0 = QueueEnd => ~Orphaned')
<1> USE DEF Order
<1>1. gpc' # "copy" /\ gpc' # "entry"
  BY DEF InCall
<1>2. CallInv'
  BY <1>1 DEF CallInv
<1>3. OwnData'
  BY OwnDataFrame
<1> QED BY <1>2, <1>3 DEF Orphaned

LEMMA WritesOrder ==
  ASSUME TypeOK, SessionInv, Order,
         CreateContext \/ MakeCurrent \/ MakeNothingCurrent \/ DeleteContext \/ SetPixelFormat \/ DetachLast
  PROVE  Order'
<1> USE DEF Order
<1>1. /\ hpc = "ready" /\ hpc' = "ready" /\ gpc = "idle" /\ gpc' = "regs"
      /\ UNCHANGED <<fifo0, mfifo, mdata, data0, sent, run, warm, context>>
      /\ refs' = refs \/ refs = 1
  BY DEF CreateContext, MakeCurrent, MakeNothingCurrent, DeleteContext, SetPixelFormat, DetachLast,
         Writes, drain, history
<1>2. ~InCall /\ ~InCall'
  BY <1>1 DEF InCall
<1>3. QueueInv' /\ MemoryInv' /\ UNCHANGED QueueEnd /\ ~Waiting /\ ~Waiting'
  BY <1>1, QuietFrame
<1>4. CallInv' /\ OwnData' /\ (data0 # QueueEnd => Orphaned) /\ (data0 = QueueEnd => ~Orphaned')
  BY <1>1, <1>2, <1>3, IdleOrder
<1>5. OrphanInv'
  BY <1>1, <1>4 DEF OrphanInv, Current, context
<1> QED BY <1>3, <1>4, <1>5

LEMMA TrapOrder ==
  ASSUME Disciplined, TypeOK, SessionInv, Order,
         SwapBuffers \/ CreateContextAttribs \/ Activate \/ \E op \in todo : RegWrite(op)
  PROVE  Order'
<1> USE DEF Order
<1>1. PICK op \in Ops : Trap(op) /\ op # "call"
  <2>1. CASE SwapBuffers
    BY <2>1 DEF SwapBuffers, Ops
  <2>2. CASE Activate \/ CreateContextAttribs
    BY <2>2 DEF Activate, CreateContextAttribs, Ops
  <2>3. CASE \E op \in todo : RegWrite(op)
    <3>1. todo \subseteq RegOps
      BY DEF TypeOK, TypeGuest
    <3> QED BY <2>3, <3>1 DEF RegWrite, RegOps, Ops
  <2> QED BY <2>1, <2>2, <2>3
<1>2. /\ hpc = "ready" /\ hpc' # "ready" /\ hpc' # "ret" /\ UNCHANGED <<fifo0, mfifo, mdata, data0, sent, run, warm, refs, context>>
      /\ ~InCall /\ ~InCall' /\ gpc # "gone" /\ gpc' # "gone"
  BY <1>1 DEF SwapBuffers, CreateContextAttribs, Activate, RegWrite, Trap, shared, guest, render, history, InCall, Disciplined
<1>3. QueueInv' /\ MemoryInv' /\ UNCHANGED QueueEnd /\ ~Waiting /\ ~Waiting'
  BY <1>1, <1>2, TrapFrame
<1>4. CallInv' /\ OwnData' /\ (data0 # QueueEnd => Orphaned) /\ (data0 = QueueEnd => ~Orphaned')
  BY <1>2, <1>3, IdleOrder
<1>5. OrphanInv'
  BY <1>2, <1>4 DEF OrphanInv, Current, context
<1> QED BY <1>3, <1>4, <1>5

LEMMA LeaveOrder ==
  ASSUME TypeOK, SessionInv, Order, DetachClear \/ DetachNotLast \/ Kill
  PROVE  Order'
<1> USE DEF Order
<1>1. /\ hpc = "ready" /\ hpc' = "ready" /\ gpc # "gone" /\ gpc' = "gone"
      /\ UNCHANGED <<fifo0, mfifo, mdata, data0, sent, run, context>> /\ ~InCall'
  BY DEF DetachClear, DetachNotLast, Kill, shared, drain, history, InCall
<1>2. QueueInv' /\ MemoryInv' /\ UNCHANGED QueueEnd /\ ~Waiting /\ ~Waiting'
  BY <1>1, QuietFrame
<1>3. CallInv'
  <2>1. QueueEnd <= data0 /\ data0 <= DataTop
    BY <1>1 DEF CallInv
  <2> QED BY <1>1, <1>2, <2>1 DEF CallInv
<1>4. OwnData'
  BY <1>1, OwnDataFrame
<1>5. OrphanInv'
  <2>1. CASE DetachClear
    <3>1. refs = 0 /\ ~InCall
      BY <2>1 DEF DetachClear, SessionInv, InCall
    <3>2. data0 = QueueEnd
      BY <3>1, <1>1, <1>2 DEF OrphanInv, Orphaned, TypeOK, TypeShared
    <3> QED BY <1>1, <1>2, <3>2 DEF OrphanInv, Orphaned
  <2>2. CASE DetachNotLast
    <3>1. refs > 1 /\ refs' = refs - 1 /\ ~InCall /\ refs \in Nat /\ warm' = warm
      BY <2>2 DEF DetachNotLast, InCall, TypeOK, TypeShared
    <3>2. data0 # QueueEnd => Orphaned
      BY <3>1, <1>1, <1>2 DEF Orphaned
    <3> QED BY <1>1, <1>2, <3>1, <3>2 DEF OrphanInv, Orphaned, Current, context
  <2>3. CASE Kill
    <3>1. refs' = refs /\ warm' = warm /\ refs \in Nat
      BY <2>3 DEF Kill, shared, TypeOK, TypeShared
    <3>2. CASE InCall
      <4>1. Current /\ refs >= 1 /\ warm
        BY <1>1, <3>2, CurrentInCall
      <4> QED BY <4>1, <1>1, <3>1 DEF OrphanInv, Current, context
    <3>3. CASE ~InCall
      <4>1. data0 # QueueEnd => Orphaned
        BY <3>3, <1>1, <1>2 DEF Orphaned
      <4> QED BY <1>1, <1>2, <3>1, <4>1 DEF OrphanInv, Orphaned, Current, context
    <3> QED BY <3>2, <3>3
  <2> QED BY <2>1, <2>2, <2>3
<1> QED BY <1>2, <1>3, <1>4, <1>5

LEMMA AttachOrder ==
  ASSUME Disciplined, TypeOK, SessionInv, Order, Attach
  PROVE  Order'
<1> USE DEF Order
<1>1. /\ hpc = "ready" /\ hpc' = "ready" /\ gpc = "gone" /\ gpc' = "idle" /\ ~InCall /\ ~InCall'
      /\ UNCHANGED <<mfifo, mdata, run, context>> /\ warm' = TRUE /\ currGLRC' = FALSE
  BY DEF Attach, Outcome, Disciplined, drain, InCall
<1>2. CASE warm
  <2>1. UNCHANGED <<fifo0, data0, sent>> /\ refs' = refs + 1
    BY <1>2 DEF Attach
  <2>2. QueueInv' /\ MemoryInv' /\ UNCHANGED QueueEnd /\ ~Waiting /\ ~Waiting'
    BY <1>1, <2>1, QuietFrame
  <2>3. CallInv' /\ OwnData' /\ (data0 # QueueEnd => Orphaned) /\ (data0 = QueueEnd => ~Orphaned')
    BY <1>1, <2>1, <2>2, IdleOrder
  <2>4. OrphanInv'
    BY <1>1, <2>1, <2>3 DEF OrphanInv, Current, context, TypeOK, TypeShared
  <2> QED BY <2>2, <2>3, <2>4
<1>3. CASE ~warm
  <2>1. /\ fifo0' = FirstFifo /\ data0' = DataStart /\ refs' = 1 /\ ~Waiting /\ ~Waiting' /\ Done' = Done
        /\ FifoPos' = FirstFifo /\ DataPos' = DataStart /\ Last = Len(sent) /\ Last' = Len(sent')
    BY <1>1, <1>3 DEF Attach, Waiting, Done, Last, FifoPos, DataPos
  <2>2. Done <= Last /\ Done \in Nat /\ Last \in Nat
    BY SentFacts, <2>1 DEF QueueInv
  <2>3. Len(sent') = Done /\ \A k \in 1 .. Done : sent'[k] = sent[k]
    <3>1. CASE Len(run) >= Len(sent)
      BY <3>1, <2>1, <2>2, <1>3 DEF Attach, Done
    <3>2. CASE ~(Len(run) >= Len(sent))
      <4>1. sent' = SubSeq(sent, 1, Len(run)) /\ Len(run) \in 0 .. Len(sent)
        BY <3>2, <1>3, <2>1, <2>2 DEF Attach, Done
      <4> QED BY <4>1, CutType DEF TypeOK, TypeHistory, Done
    <3> QED BY <3>1, <3>2
  <2>4. QueueEnd' = DataStart
    BY <2>1, <2>2, <2>3 DEF QueueEnd
  <2>5. QueueInv' /\ MemoryInv'
    <3>1. Done' = Last' /\ (Done' + 1) .. Last' = {} /\ (Done' + 1) .. (Last' - 1) = {}
      BY <2>1, <2>2, <2>3
    <3>2. MemoryInv'
      BY <3>1 DEF MemoryInv
    <3>3. QueueInv'
      BY <3>1, <2>1, <2>2, <2>3, <2>4, <1>1, LayoutAssumption DEF QueueInv, DataStart
    <3> QED BY <3>2, <3>3
  <2>6. CallInv'
    BY <1>1, <2>1, <2>4, LayoutAssumption DEF CallInv, DataStart
  <2>7. OrphanInv'
    BY <2>1, <2>4 DEF OrphanInv, Orphaned
  <2>8. OwnData'
    <3>1. \A k \in 1 .. Len(run) : k <= Len(sent) => k <= Len(sent') /\ sent'[k] = sent[k]
      BY <2>3 DEF Done
    <3> QED BY <1>1, <3>1, OwnDataFrame
  <2> QED BY <2>5, <2>6, <2>7, <2>8
<1> QED BY <1>2, <1>3 DEF TypeOK, TypeShared

\* The data words of one call, all of them its own.
LEMMA OwnersOf ==
  ASSUME NEW j \in Int, NEW words \in Nat, NEW n,
         DataStart <= j, j + words <= DataTop, DataTop \in Nat,
         \A x \in j .. (j + words - 1) : mdata[x] = n
  PROVE  Owners(j, words) = IF words = 0 THEN {} ELSE {n}
<1>1. (j .. (j + words - 1)) \cap DataIdx = j .. (j + words - 1)
  BY DEF DataIdx, DataStart
<1>2. words # 0 => j \in j .. (j + words - 1)
  OBVIOUS
<1>3. words = 0 => j .. (j + words - 1) = {}
  OBVIOUS
<1> QED BY <1>1, <1>2, <1>3 DEF Owners

\* One more call run, with its own data.
LEMMA OwnDataStep ==
  ASSUME TypeOK, OwnData, Done < Len(sent), UNCHANGED sent,
         run' = Append(run, [n |-> sent[Done + 1].n, c |-> sent[Done + 1].c,
                             data |-> Carried(sent[Done + 1].n, sent[Done + 1].c)])
  PROVE  OwnData' /\ Done' = Done + 1
<1>1. Done \in Nat /\ Done' = Done + 1 /\ Done = Len(run)
  BY DEF TypeOK, TypeHistory, Done
<1>2. ASSUME NEW k \in 1 .. Len(run')
      PROVE  k <= Len(sent) /\ run'[k] = [n |-> sent[k].n, c |-> sent[k].c, data |-> Carried(sent[k].n, sent[k].c)]
  <2>1. CASE k = Done + 1
    BY <1>1, <2>1 DEF TypeOK, TypeHistory
  <2>2. CASE k <= Done
    <3>1. k \in 1 .. Len(run) /\ run'[k] = run[k]
      BY <1>1, <2>2 DEF TypeOK, TypeHistory
    <3> QED BY <3>1 DEF OwnData
  <2> QED BY <1>1, <2>1, <2>2 DEF Done
<1> QED BY <1>1, <1>2 DEF OwnData, Carried

LEMMA EntryOrder ==
  ASSUME Disciplined, TypeOK, SessionInv, Order, processFifo_Entry \/ processFifo_Misread
  PROVE  Order' /\ QueueEnd' = QueueEnd
<1> USE DEF Order
<1>1. /\ hpc = "drain" /\ hi < fifo0 /\ FifoPos = hi /\ DataPos = hj
      /\ UNCHANGED <<fifo0, mfifo, mdata, data0, warm, refs, guest, context, hpc, trap, serial, sent>>
  BY DEF processFifo_Entry, processFifo_Misread, shared, FifoPos, DataPos
<1>2. Done < Last /\ Done \in Nat /\ Last \in Nat /\ Last <= Len(sent) /\ Len(sent) \in Nat
  <2>1. hi \in Nat /\ fifo0 \in Nat
    BY LayoutAssumption DEF TypeOK, TypeHost, TypeShared, FifoIdx
  <2>2. Done # Last
    BY <1>1, <2>1 DEF QueueInv
  <2> QED BY <2>2, SentFacts, QueueEndType DEF QueueInv
<1> DEFINE s == sent[Done + 1]
<1>3. /\ s.at = hi /\ s.dat = hj /\ s.n \in Nat /\ s.c \in Calls /\ Args[s.c] \in Nat /\ Pushed[s.c] \in Nat
      /\ HostArgs[s.c] = Args[s.c] /\ Taken[s.c] = Pushed[s.c]
      /\ Done + 1 \in (Done + 1) .. Last /\ Done + 1 \in 1 .. Len(sent)
  <2>1. Done + 1 \in (Done + 1) .. Last /\ Done + 1 \in 1 .. Len(sent)
    BY <1>2
  <2>2. s.at = hi /\ s.dat = hj
    BY <1>1, <1>2 DEF QueueInv
  <2> QED BY <2>1, <2>2, SentFacts DEF Disciplined, StreamAgrees
<1>4. /\ mfifo[hi] = [n |-> s.n, k |-> 0, c |-> s.c]
      /\ DataStart <= hj /\ hj + Pushed[s.c] <= QueueEnd /\ hj \in Nat /\ hi \in Nat
      /\ \A x \in hj .. (hj + Pushed[s.c] - 1) : mdata[x] = s.n
  <2>1. /\ mfifo[s.at] = [n |-> s.n, k |-> 0, c |-> s.c]
        /\ DataStart <= s.dat /\ s.dat + Pushed[s.c] <= QueueEnd
        /\ \A x \in s.dat .. (s.dat + Pushed[s.c] - 1) : mdata[x] = s.n
    BY <1>3 DEF MemoryInv
  <2>2. hj \in Nat /\ hi \in Nat
    BY DEF TypeOK, TypeHost
  <2> QED BY <1>3, <2>1, <2>2
<1>5. /\ run' = Append(run, [n |-> s.n, c |-> s.c, data |-> Owners(hj, Taken[s.c])])
      /\ hi' = hi + 1 + HostArgs[s.c] /\ hj' = hj + Taken[s.c]
  <2>1. processFifo_Entry
    BY <1>3, <1>4 DEF processFifo_Misread
  <2> QED BY <2>1, <1>4 DEF processFifo_Entry
<1>6. Owners(hj, Taken[s.c]) = Carried(s.n, s.c)
  <2>1. hj + Pushed[s.c] <= DataTop /\ DataTop \in Nat
    <3>1. QueueEnd \in Nat /\ QueueEnd < MaxData
      BY QueueEndType DEF QueueInv
    <3>2. hj \in Nat /\ Pushed[s.c] \in Nat /\ hj + Pushed[s.c] <= QueueEnd
      BY <1>3, <1>4
    <3> QED BY <3>1, <3>2, LayoutAssumption
  <2> HIDE DEF s
  <2>2. Owners(hj, Pushed[s.c]) = IF Pushed[s.c] = 0 THEN {} ELSE {s.n}
    <3> DEFINE w == Pushed[s.c] n == s.n
    <3>1. hj \in Int /\ w \in Nat /\ DataStart <= hj
      BY <1>3, <1>4
    <3>2. \A x \in hj .. (hj + w - 1) : mdata[x] = n
      BY <1>4
    <3>3. hj + w <= DataTop /\ DataTop \in Nat
      BY <2>1
    <3> HIDE DEF w, n
    <3>4. Owners(hj, w) = IF w = 0 THEN {} ELSE {n}
      BY <3>1, <3>2, <3>3, OwnersOf
    <3> QED BY <3>4 DEF w, n
  <2> QED BY <1>3, <2>2 DEF Carried
<1>7. OwnData' /\ Done' = Done + 1
  BY <1>1, <1>2, <1>5, <1>6, OwnDataStep
<1>8. /\ Last' = Last /\ (Waiting' <=> Waiting) /\ FifoPos' = hi + 1 + Args[s.c] /\ DataPos' = hj + Pushed[s.c]
      /\ (Current' <=> Current) /\ (InCall' <=> InCall)
  <2>1. (Current' <=> Current) /\ (InCall' <=> InCall)
    BY <1>1 DEF Current, context, guest, render, InCall
  <2>2. Waiting' <=> Waiting
    BY <1>1, <2>1 DEF Waiting
  <2> QED BY <1>1, <1>3, <1>5, <2>1, <2>2 DEF Last, FifoPos, DataPos
<1>9. QueueEnd' = QueueEnd
  <2>1. CASE Done + 1 = Last
    BY <1>1, <1>2, <1>3, <1>7, <1>8, <2>1 DEF QueueEnd
  <2>2. CASE Done + 1 < Last
    BY <1>1, <1>2, <1>7, <1>8, <2>2 DEF QueueEnd
  <2> QED BY <1>2, <2>1, <2>2
<1>10. QueueInv'
  <2>1. CASE Done + 1 = Last
    <3>1. fifo0 = FifoPos'
      BY <1>2, <1>3, <1>8, <2>1, LayoutAssumption DEF QueueInv, TypeOK, TypeShared, TypeHost, FifoIdx
    <3> QED BY <1>1, <1>2, <1>7, <1>8, <1>9, <2>1, <3>1 DEF QueueInv
  <2>2. CASE Done + 1 < Last
    <3>1. Done + 1 \in (Done + 1) .. (Last - 1)
      BY <1>2, <2>2
    <3>2. sent[(Done + 1) + 1].at = s.at + 1 + Args[s.c] /\ sent[(Done + 1) + 1].dat = s.dat + Pushed[s.c]
      BY <3>1 DEF QueueInv
    <3>3. \A k \in (Done' + 1) .. (Last' - 1) : k \in (Done + 1) .. (Last - 1)
      BY <1>2, <1>7, <1>8
    <3>4. Done' < Last' /\ ~(hpc' \in {"act", "ret"})
      BY <1>1, <1>2, <1>7, <1>8, <2>2
    <3>5. sent'[Done' + 1].at = FifoPos' /\ sent'[Done' + 1].dat = DataPos'
      BY <1>1, <1>3, <1>7, <1>8, <3>2
    <3> QED BY <1>1, <1>2, <1>7, <1>8, <1>9, <3>3, <3>4, <3>5 DEF QueueInv
  <2> QED BY <1>2, <2>1, <2>2
<1>11. MemoryInv'
  <2>1. \A k \in (Done' + 1) .. Last' : k \in (Done + 1) .. Last
    BY <1>2, <1>7, <1>8
  <2> QED BY <1>1, <1>9, <2>1 DEF MemoryInv
<1>12. CallInv'
  BY <1>1, <1>8, <1>9 DEF CallInv, guest, render
<1>13. OrphanInv'
  BY <1>1, <1>8, <1>9 DEF OrphanInv, Orphaned, guest, render
<1> QED BY <1>7, <1>9, <1>10, <1>11, <1>12, <1>13

LEMMA EndOrder ==
  ASSUME Disciplined, TypeOK, SessionInv, Order, processFifo_End
  PROVE  Order' /\ QueueEnd' = QueueEnd
<1> USE DEF Order
<1>1. /\ hpc = "drain" /\ hpc' = "act" /\ hi >= fifo0 /\ fifo0' = FirstFifo /\ FifoPos = hi /\ DataPos' = DataPos
      /\ UNCHANGED <<mfifo, mdata, data0, warm, refs, guest, context, trap, hj, serial, sent, run>> /\ FifoPos' = FirstFifo
  BY DEF processFifo_End, FifoPos, DataPos, history
<1>2. /\ UNCHANGED <<Done, Last>> /\ (Waiting' <=> Waiting) /\ (Current' <=> Current) /\ (InCall' <=> InCall)
  <2>1. (Current' <=> Current) /\ (InCall' <=> InCall)
    BY <1>1 DEF Current, context, guest, render, InCall
  <2>2. Waiting' <=> Waiting
    BY <1>1, <2>1 DEF Waiting
  <2> QED BY <1>1, <2>1, <2>2 DEF Last, Done
<1>3. Done = Last /\ Done \in Nat
  <2>1. Done \in Nat /\ Last \in Nat /\ Done <= Last /\ Last <= Len(sent)
    BY SentFacts, QueueEndType DEF QueueInv
  <2>2. ASSUME Done < Last PROVE FALSE
    <3>1. Done + 1 \in (Done + 1) .. Last /\ Done + 1 \in 1 .. Len(sent)
      BY <2>1, <2>2, SentFacts
    <3>2. sent[Done + 1].at + 1 + Args[sent[Done + 1].c] <= fifo0 /\ sent[Done + 1].at = hi
      BY <1>1, <2>2, <3>1 DEF MemoryInv, QueueInv
    <3>3. fifo0 \in Nat /\ hi \in Nat /\ Args[sent[Done + 1].c] \in Nat
      <4>1. fifo0 \in Nat /\ hi \in Nat
        BY LayoutAssumption DEF TypeOK, TypeShared, TypeHost, FifoIdx
      <4> QED BY <3>1, <4>1, SentFacts
    <3> QED BY <1>1, <3>2, <3>3
  <2> QED BY <2>1, <2>2
<1>4. QueueEnd' = QueueEnd
  BY <1>1, <1>2, <1>3 DEF QueueEnd
<1>5. QueueInv' /\ MemoryInv'
  <2>1. Done' = Last' /\ (Done' + 1) .. Last' = {} /\ (Done' + 1) .. (Last' - 1) = {}
    BY <1>2, <1>3
  <2>2. MemoryInv'
    BY <2>1 DEF MemoryInv
  <2>3. QueueInv'
    BY <1>1, <1>2, <1>3, <1>4, <2>1, LayoutAssumption DEF QueueInv
  <2> QED BY <2>2, <2>3
<1>6. CallInv'
  <2>1. gpc # "entry"
    BY <1>1 DEF SessionInv, InCall
  <2> QED BY <1>1, <1>2, <1>4, <2>1 DEF CallInv, guest, render
<1>7. OrphanInv'
  BY <1>1, <1>2, <1>4 DEF OrphanInv, Orphaned, guest, render
<1>8. OwnData'
  BY <1>1, OwnDataFrame
<1> QED BY <1>4, <1>5, <1>6, <1>7, <1>8

LEMMA ActCallOrder ==
  ASSUME Disciplined, TypeOK, SessionInv, Order, ActCall
  PROVE  Order'
<1> USE DEF Order
<1>1. /\ hpc = "act" /\ hpc' = "ret" /\ trap = "call"
      /\ UNCHANGED <<fifo0, mfifo, mdata, data0, warm, refs, guest, context, trap, serial, sent>>
      /\ run' = IF Current \/ gcall \in Unconditional
                  THEN Append(run, [n |-> serial, c |-> gcall, data |-> Owners(hj, Taken[gcall])])
                  ELSE run
  BY DEF ActCall, shared
<1>2. Current /\ Current' /\ Waiting /\ ~Waiting' /\ ~InCall /\ ~InCall'
  <2>1. Current /\ gpc = "idle"
    BY <1>1 DEF SessionInv
  <2> QED BY <1>1, <2>1 DEF Current, context, Waiting, InCall, guest, render
<1>3. /\ Done = Last /\ Last = Len(sent) - 1 /\ Last' = Len(sent) /\ Done \in Nat /\ Len(sent) \in Nat
      /\ QueueEnd = hj /\ FifoPos = FirstFifo /\ FifoPos' = FirstFifo /\ DataPos' = DataStart
  BY <1>1, <1>2, SentFacts DEF QueueInv, Last, QueueEnd, FifoPos, DataPos
<1>4. /\ gcall \in Calls /\ Pushed[gcall] \in Nat /\ Taken[gcall] = Pushed[gcall] /\ hj \in Nat
      /\ sent[Done + 1].n = serial /\ sent[Done + 1].c = gcall
      /\ data0 = hj + Pushed[gcall] /\ data0 <= DataTop /\ DataStart <= hj
      /\ \A x \in hj .. (data0 - 1) : mdata[x] = serial
  <2>1. Done + 1 = Len(sent)
    BY <1>3
  <2>2. gcall \in Calls
    BY <1>2 DEF CallInv
  <2>3. Pushed[gcall] \in Nat /\ Taken[gcall] = Pushed[gcall] /\ hj \in Nat
    BY <2>2, CallsAssumption DEF Disciplined, StreamAgrees, TypeOK, TypeHost
  <2> QED BY <1>2, <1>3, <2>1, <2>2, <2>3 DEF CallInv, QueueInv
<1>5. Owners(hj, Taken[gcall]) = Carried(serial, gcall)
  <2> DEFINE w == Pushed[gcall]
  <2>1. hj \in Int /\ w \in Nat /\ DataStart <= hj /\ hj + w <= DataTop /\ DataTop \in Nat
    BY <1>4, LayoutAssumption
  <2>2. \A x \in hj .. (hj + w - 1) : mdata[x] = serial
    <3>1. hj + w - 1 = data0 - 1
      BY <1>4
    <3> QED BY <1>4, <3>1, Zenon
  <2> HIDE DEF w
  <2>3. Owners(hj, w) = IF w = 0 THEN {} ELSE {serial}
    BY <2>1, <2>2, OwnersOf
  <2> QED BY <1>4, <2>3 DEF w, Carried
<1>6. OwnData' /\ Done' = Done + 1
  <2>1. Done < Len(sent)
    BY <1>3
  <2> QED BY <1>1, <1>2, <1>4, <1>5, <2>1, OwnDataStep
<1>7. Done' = Last' /\ QueueEnd' = DataStart /\ (Done' + 1) .. Last' = {} /\ (Done' + 1) .. (Last' - 1) = {}
  BY <1>3, <1>6 DEF QueueEnd
<1>8. MemoryInv'
  BY <1>7 DEF MemoryInv
<1>9. QueueInv'
  BY <1>1, <1>3, <1>6, <1>7, LayoutAssumption DEF QueueInv, DataStart
<1>10. CallInv'
  BY <1>1, <1>2, <1>4 DEF CallInv, InCall, guest, render
<1>11. OrphanInv'
  BY <1>1 DEF OrphanInv, Orphaned
<1> QED BY <1>6, <1>8, <1>9, <1>10, <1>11

\* The end of a trap: after a drain both streams are empty again, otherwise
\* nothing has moved.
LEMMA AnswerFrame ==
  ASSUME TypeOK, SessionInv, QueueInv, MemoryInv, CallInv, OrphanInv,
         hpc = "act" \/ hpc = "ret", trap = "call" => hpc = "ret", hpc' = "ready",
         UNCHANGED <<fifo0, mfifo, mdata, sent, run, trap, gpc>>,
         data0' = IF Current /\ trap # "unload" THEN DataStart ELSE data0
  PROVE  /\ QueueInv' /\ MemoryInv' /\ ~Waiting'
         /\ Current /\ trap # "unload" => QueueEnd' = DataStart
         /\ ~(Current /\ trap # "unload") => QueueEnd' = QueueEnd
         /\ data0' = QueueEnd' /\ data0' <= DataTop
<1>1. /\ UNCHANGED <<Done, Last, FifoPos>> /\ ~Waiting /\ ~Waiting' /\ DataPos' = DataStart
      /\ Done \in Nat /\ Last \in Nat /\ data0 <= DataTop
  BY SentFacts, QueueEndType DEF Done, Last, FifoPos, DataPos, Waiting, CallInv
<1>2. Current /\ trap # "unload" => Done = Last
  BY DEF QueueInv
<1>3. ~(Current /\ trap # "unload") => DataPos = DataStart
  BY DEF SessionInv, DataPos
<1>4. QueueInv' /\ MemoryInv' /\ QueueEnd' = IF Done = Last THEN DataPos' ELSE QueueEnd
  BY <1>1, <1>2, <1>3, QueueFrame
<1>5. Current /\ trap # "unload" => QueueEnd' = DataStart
  BY <1>1, <1>2, <1>4
<1>6. ~(Current /\ trap # "unload") => QueueEnd' = QueueEnd
  BY <1>1, <1>3, <1>4 DEF QueueEnd
<1>7. ~(Current /\ trap # "unload") => data0 = QueueEnd
  <2> SUFFICES ASSUME ~(Current /\ trap # "unload") PROVE data0 = QueueEnd
    OBVIOUS
  <2>1. hpc # "ret" /\ hpc = "act"
    BY DEF SessionInv
  <2>2. CASE InCall
    <3>1. trap = "flush"
      BY <2>1, <2>2 DEF SessionInv
    <3>2. FALSE
      BY <2>2, <3>1, CurrentInCall
    <3> QED BY <3>2
  <2>3. CASE ~InCall
    <3>1. ~Orphaned
      <4>1. trap = "unload" => refs = 0 /\ gpc # "gone"
        BY <2>1 DEF SessionInv
      <4> QED BY <4>1 DEF OrphanInv
    <3> QED BY <1>1, <2>1, <2>3, <3>1 DEF Orphaned
  <2> QED BY <2>2, <2>3
<1>8. data0' = QueueEnd' /\ data0' <= DataTop
  BY <1>1, <1>5, <1>6, <1>7, LayoutAssumption DEF DataStart
<1> QED BY <1>1, <1>4, <1>5, <1>6, <1>8

LEMMA AnswerOrder ==
  ASSUME Disciplined, TypeOK, SessionInv, Order,
         ActReturn \/ ActPlain \/ ActCreate \/ ActAttribs \/ ActBind \/ ActDelete \/ ActFormat \/ ActUnload
  PROVE  Order'
<1> USE DEF Order
<1>1. /\ hpc = "act" \/ hpc = "ret"
      /\ trap = "call" => hpc = "ret"
      /\ trap = "unload" => hpc = "act"
      /\ hpc' = "ready"
      /\ UNCHANGED <<fifo0, mfifo, mdata, sent, run, trap, gpc, gcall, gleft, gj, serial>>
  <2>1. hpc = "ret" => trap = "call"
    BY DEF SessionInv
  <2> QED BY <2>1 DEF ActReturn, ActPlain, ActCreate, ActAttribs, ActBind, ActDelete, ActFormat, ActUnload,
                      shared, guest, render, history
<1>2. data0' = IF Current /\ trap # "unload" THEN DataStart ELSE data0
  <2>1. CASE ActReturn
    <3>1. Current /\ trap # "unload"
      BY <2>1 DEF ActReturn, SessionInv
    <3> QED BY <2>1, <3>1 DEF ActReturn
  <2>2. CASE ~ActReturn
    BY <1>1, <2>2 DEF ActPlain, ActCreate, ActAttribs, ActBind, ActDelete, ActFormat, ActUnload, shared
  <2> QED BY <2>1, <2>2
<1>3. /\ QueueInv' /\ MemoryInv' /\ ~Waiting'
      /\ Current /\ trap # "unload" => QueueEnd' = DataStart
      /\ data0' = QueueEnd' /\ data0' <= DataTop
  BY <1>1, <1>2, AnswerFrame
<1>4. OrphanInv'
  BY <1>3 DEF OrphanInv, Orphaned
<1>5. OwnData'
  BY <1>1, OwnDataFrame
<1>6. CallInv'
  <2>1. CASE InCall
    <3>1. trap = "flush" /\ gpc = "data"
      BY <1>1, <2>1 DEF SessionInv
    <3>2. Current
      BY <2>1, <3>1, CurrentInCall
    <3>3. gleft = Pushed[gcall] /\ DataStart + gleft <= DataTop /\ QueueEnd' = DataStart /\ gleft \in Nat
      BY <1>1, <1>3, <2>1, <3>1, <3>2 DEF CallInv, TypeOK, TypeGuest
    <3>4. QueueEnd' .. (data0' - 1) = {}
      BY <1>3, <3>3 DEF DataStart
    <3> QED BY <1>1, <1>3, <3>1, <3>3, <3>4 DEF CallInv, InCall, DataStart
  <2>2. CASE ~InCall
    <3>1. data0' \in Int
      BY <1>2 DEF DataStart, TypeOK, TypeShared
    <3>2. ~InCall' /\ gpc' # "copy" /\ gpc' # "entry"
      BY <1>1, <2>2 DEF InCall
    <3>3. QueueEnd' <= data0'
      BY <1>3, <3>1
    <3> QED BY <1>3, <3>2, <3>3 DEF CallInv
  <2> QED BY <2>1, <2>2
<1> QED BY <1>3, <1>4, <1>5, <1>6

LEMMA OrderInit == Init => Order /\ SessionInv
<1> SUFFICES ASSUME Init PROVE Order /\ SessionInv
  OBVIOUS
<1>1. Len(sent) = 0 /\ Len(run) = 0 /\ hpc = "ready" /\ gpc = "idle" /\ todo = {} /\ warm = TRUE /\ refs = 1
      /\ currGLRC = FALSE /\ currDC = FALSE /\ data0 = 2 /\ fifo0 = FirstFifo
  BY DEF Init, DataStart
<1>2. ~Waiting /\ Done = 0 /\ Last = 0 /\ FifoPos = FirstFifo /\ DataPos = 2 /\ ~InCall
  BY <1>1 DEF Waiting, Done, Last, FifoPos, DataPos, DataStart, InCall
<1>3. QueueEnd = 2
  BY <1>2 DEF QueueEnd
<1>4. QueueInv
  BY <1>1, <1>2, <1>3, LayoutAssumption DEF QueueInv, DataStart
<1>5. MemoryInv
  BY <1>2 DEF MemoryInv
<1>6. CallInv
  BY <1>1, <1>2, <1>3, LayoutAssumption DEF CallInv
<1>7. OrphanInv
  BY <1>1, <1>3 DEF OrphanInv, Orphaned
<1>8. OwnData
  BY <1>1 DEF OwnData
<1>9. SessionInv
  BY <1>1 DEF SessionInv, InCall, Handling
<1> QED BY <1>4, <1>5, <1>6, <1>7, <1>8, <1>9 DEF Order

LEMMA OrderStutter == ASSUME Order, UNCHANGED vars PROVE Order'
<1>1. UNCHANGED <<Done, Last, FifoPos, DataPos, QueueEnd>> /\ (Waiting' <=> Waiting) /\ (Current' <=> Current)
      /\ (InCall' <=> InCall)
  <2>1. (Current' <=> Current) /\ (InCall' <=> InCall)
    BY DEF vars, context, guest, render, Current, InCall
  <2>2. Waiting' <=> Waiting
    BY <2>1 DEF vars, drain, Waiting
  <2>3. UNCHANGED <<Done, Last, FifoPos, DataPos>>
    BY <2>2 DEF vars, drain, history, Done, Last, FifoPos, DataPos
  <2>4. UNCHANGED QueueEnd
    BY <2>3 DEF vars, history, QueueEnd
  <2> QED BY <2>1, <2>2, <2>3, <2>4
<1> USE <1>1 DEF Order, vars, shared, guest, render, session, drain, history
<1>2. QueueInv'
  BY DEF QueueInv
<1>3. MemoryInv'
  BY DEF MemoryInv
<1>4. CallInv'
  BY DEF CallInv
<1>5. OrphanInv'
  BY DEF OrphanInv, Orphaned
<1>6. OwnData'
  BY DEF OwnData, Carried
<1> QED BY <1>2, <1>3, <1>4, <1>5, <1>6

LEMMA OrderStep ==
  ASSUME Disciplined, Order, TypeOK, SessionInv, [Next]_vars
  PROVE  Order' /\ SessionInv'
<1>1. SessionInv'
  BY SessionStep
<1>2. Order'
  BY BeginCallOrder, PrepOrder, ReadOrder, CopyOrder, StoreOrder, TrapCallOrder, WritesOrder, TrapOrder,
     LeaveOrder, AttachOrder, EntryOrder, EndOrder, ActCallOrder, AnswerOrder, OrderStutter
     DEF Next, MakeCall, Wgl, Process, Host
<1> QED BY <1>1, <1>2

\* Under the conditions of Disciplined the host runs the calls handed over in
\* order, each with its own data, and no stream leaves its area; whatever dies,
\* attaches, binds or unloads in between.
THEOREM CallsInOrder == ASSUME Disciplined PROVE Spec => [](OwnData /\ InArea)
<1>1. Init => Order /\ SessionInv
  BY OrderInit
<1>2. Order /\ TypeOK /\ SessionInv /\ [Next]_vars => Order' /\ SessionInv'
  BY OrderStep
<1>3. Order => OwnData /\ InArea
  BY DEF Order, QueueInv, CallInv, InArea
<1> QED BY <1>1, <1>2, <1>3, TypeCorrect, PTL DEF Spec

-----------------------------------------------------------------------------
(***************************************************************************)
(* What follows from the order of the calls: mapped uploads are never a    *)
(* round trip, every data word of a call is taken by the time its trap is  *)
(* answered, and the FIFO is DirectCalls, as far as safety goes.           *)
(***************************************************************************)

\* What the two parts above show to be kept.
Kept == TypeOK /\ Order /\ SessionInv

LEMMA KeptInit == Init => Kept
BY TypeInit, OrderInit DEF Kept

LEMMA KeptStep == ASSUME Disciplined, Kept, [Next]_vars PROVE Kept'
BY TypeStep, OrderStep DEF Kept

\* The guest's FIFO ends before the data area and the data before the answers.
THEOREM StreamsInArea == ASSUME Disciplined PROVE Spec => []InArea
BY CallsInOrder, PTL

-----------------------------------------------------------------------------
(* ---- Mapped uploads. ---------------------------------------------------- *)

\* An upload has no answer, and its entry fits an empty FIFO.
UploadsPosted == \A c \in Uploads : c \notin Sync /\ FirstFifo + Args[c] + 1 < MaxFifo

\* Whatever mapped_upload_queue has found or made room for is still there when
\* the upload is queued.
UploadInv ==
  gcall \in Uploads =>
    /\ hpc = "ready" /\ gpc \in {"data", "copy"} => data0 + gleft < MaxData /\ fifo0 + Args[gcall] + 1 < MaxFifo
    /\ ~ (hpc # "ready" /\ trap = "call")

LEMMA UploadCall ==
  ASSUME Kept, UploadsPosted, UploadInv, MakeCall
  PROVE  UploadInv'
<1>1. ASSUME NEW c \in Calls, BeginCall(c) PROVE UploadInv'
  BY <1>1 DEF BeginCall, drain, UploadInv
<1>2. CASE PrepFlush
  <2>1. hpc' # "ready" /\ trap' = "flush"
    BY <1>2 DEF PrepFlush, Trap
  <2> QED BY <2>1 DEF UploadInv
<1>3. CASE PrepNoFlush
  <2>1. /\ hpc' = "ready" /\ gpc = "prep" /\ UNCHANGED <<gcall, gleft, data0, fifo0>> /\ ~WouldOverflow
    BY <1>3 DEF PrepNoFlush, drain, shared
  <2>2. ASSUME gcall \in Uploads PROVE data0 + gleft < MaxData /\ fifo0 + Args[gcall] + 1 < MaxFifo
    <3>1. gleft = Pushed[gcall]
      BY <2>1 DEF Kept, Order, CallInv, InCall
    <3>2. ~(data0 + Pushed[gcall] >= MaxData) /\ ~(fifo0 + Args[gcall] + 1 >= MaxFifo)
      BY <2>1, <2>2 DEF WouldOverflow
    <3>3. data0 \in Nat /\ fifo0 \in Int /\ Pushed[gcall] \in Nat /\ Args[gcall] \in Nat /\ MaxData \in Nat
          /\ MaxFifo \in Nat
      BY <2>2, CallsAssumption, LayoutAssumption DEF Kept, TypeOK, TypeShared, FifoIdx
    <3> QED BY <3>1, <3>2, <3>3
  <2> QED BY <2>1, <2>2 DEF UploadInv
<1>4. CASE fifoAddData_Read
  BY <1>4 DEF fifoAddData_Read, shared, drain, UploadInv
<1>5. ASSUME NEW n \in 1 .. gleft, fifoAddData_Copy(n) PROVE UploadInv'
  <2>1. /\ gpc = "copy" /\ hpc = "ready" /\ hpc' = "ready" /\ gj = data0 /\ data0 \in Nat /\ gleft \in Nat
        /\ data0' = gj + n /\ gleft' = gleft - n /\ UNCHANGED <<gcall, fifo0>>
    BY <1>5 DEF fifoAddData_Copy, drain, Kept, Order, CallInv, TypeOK, TypeShared, TypeGuest
  <2>2. data0' + gleft' = data0 + gleft
    BY <2>1
  <2> QED BY <2>1, <2>2 DEF UploadInv
<1>6. CASE fifoAddEntry_Read \/ fifoAddEntry_Store
  <2>1. hpc' = "ready" /\ gpc' \in {"entry", "idle"}
    BY <1>6 DEF fifoAddEntry_Read, fifoAddEntry_Store, drain
  <2> QED BY <2>1 DEF UploadInv
<1>7. CASE TrapCall
  <2>1. /\ hpc = "ready" /\ gpc = "data" /\ gleft = 0 /\ gcall' = gcall /\ data0 \in Nat
        /\ gcall \in Sync \/ ~FifoHasRoom
    BY <1>7 DEF TrapCall, Trap, Kept, TypeOK, TypeShared
  <2>2. gcall \notin Uploads
    BY <2>1 DEF UploadInv, UploadsPosted, FifoHasRoom
  <2> QED BY <2>1, <2>2 DEF UploadInv
<1> QED BY <1>1, <1>2, <1>3, <1>4, <1>5, <1>6, <1>7 DEF MakeCall

LEMMA UploadElse ==
  ASSUME Disciplined, Kept, UploadInv, Wgl \/ Process
  PROVE  UploadInv'
<1>1. gpc' \notin {"data", "copy"} /\ (hpc' # "ready" => trap' # "call")
  <2>1. CASE SwapBuffers \/ CreateContextAttribs \/ Activate
    BY <2>1 DEF SwapBuffers, CreateContextAttribs, Activate, Trap, guest, render, Disciplined
  <2>2. ASSUME NEW op \in todo, RegWrite(op) PROVE gpc' \notin {"data", "copy"} /\ trap' # "call"
    BY <2>2 DEF RegWrite, Trap, RegOps, Kept, TypeOK, TypeGuest
  <2>3. CASE CreateContext \/ MakeCurrent \/ MakeNothingCurrent \/ DeleteContext \/ SetPixelFormat \/ DetachLast
    BY <2>3 DEF CreateContext, MakeCurrent, MakeNothingCurrent, DeleteContext, SetPixelFormat, DetachLast,
                Writes, drain
  <2>4. CASE Attach
    BY <2>4 DEF Attach, Outcome, drain
  <2>5. CASE DetachClear \/ DetachNotLast \/ Kill
    BY <2>5 DEF DetachClear, DetachNotLast, Kill, drain
  <2> QED BY <2>1, <2>2, <2>3, <2>4, <2>5 DEF Wgl, Process
<1> QED BY <1>1 DEF UploadInv

LEMMA UploadHost ==
  ASSUME Disciplined, UploadsPosted, Kept, UploadInv, Host
  PROVE  UploadInv'
<1>1. hpc # "ready" /\ UNCHANGED <<gcall, gpc, gleft, trap>>
  BY DEF Host, processFifo_Entry, processFifo_Misread, processFifo_End, ActCall, ActReturn, ActPlain, ActCreate,
         ActAttribs, ActBind, ActDelete, ActFormat, ActUnload, guest, render
<1>2. gcall \in Uploads => trap # "call"
  BY <1>1 DEF UploadInv
<1>3. ASSUME gcall \in Uploads, hpc' = "ready", gpc \in {"data", "copy"}
      PROVE  data0' + gleft < MaxData /\ fifo0' + Args[gcall] + 1 < MaxFifo
  <2>1. InCall /\ trap = "flush"
    BY <1>1, <1>3 DEF InCall, Kept, SessionInv
  <2>2. ActPlain
    BY <1>3, <2>1 DEF Host, processFifo_Entry, processFifo_Misread, processFifo_End, ActCall, ActReturn, ActCreate,
         ActAttribs, ActBind, ActDelete, ActFormat, ActUnload, Kept, SessionInv
  <2>3. Current
    BY <2>1, CurrentInCall DEF Kept
  <2>4. data0' = DataStart /\ fifo0' = fifo0 /\ hpc = "act"
    BY <2>2, <2>3 DEF ActPlain
  <2>5. fifo0 = FirstFifo
    BY <2>1, <2>3, <2>4 DEF Kept, Order, QueueInv, FifoPos
  <2>6. gleft = Pushed[gcall]
    BY <2>1, <2>4 DEF Kept, Order, CallInv
  <2>7. DataStart + Pushed[gcall] < MaxData
    BY <1>3, CallsAssumption DEF Disciplined, PushesFit
  <2> QED BY <1>3, <2>4, <2>5, <2>6, <2>7 DEF UploadsPosted
<1> QED BY <1>1, <1>2, <1>3 DEF UploadInv

\* "Always fits once the FIFO is flushed": a mapped upload is queued, however full
\* both areas were, and never becomes a trap of its own.
THEOREM UploadsQueued == ASSUME Disciplined, UploadsPosted PROVE Spec => []UploadFits
<1>1. Init => Kept /\ UploadInv
  BY KeptInit DEF Init, UploadInv
<1>2. Kept /\ UploadInv /\ [Next]_vars => Kept' /\ UploadInv'
  <2>1. Kept /\ UploadInv /\ Next => UploadInv'
    BY UploadCall, UploadElse, UploadHost DEF Next
  <2>2. UploadInv /\ UNCHANGED vars => UploadInv'
    BY DEF UploadInv, vars, shared, guest, render, drain
  <2> QED BY <2>1, <2>2, KeptStep
<1>3. UploadInv => UploadFits
  BY DEF UploadInv, UploadFits
<1> QED BY <1>1, <1>2, <1>3, PTL DEF Spec

-----------------------------------------------------------------------------
(* ---- The data is all taken. ---------------------------------------------- *)

Images == [n : Nat, c : Calls \cup {NoCall}, data : SUBSET Nat]

HandedOver == [n : Nat, c : Calls, at : Nat, dat : Int]

\* The call under way is newer than all handed over ...
NewerInv ==
  \A k \in 1 .. Len(sent) : sent[k].n <= serial /\ (InCall => sent[k].n < serial)

\* ... so what is left of a call that a dead process never finished is data of
\* none of them.
LeftoverInv ==
  Orphaned => \A x \in QueueEnd .. (data0 - 1), k \in 1 .. Len(sent) : mdata[x] # sent[k].n

LEMMA NewerAppend ==
  ASSUME NEW q \in Seq(HandedOver), NEW e \in HandedOver, NEW m \in Nat, e.n <= m, \A k \in 1 .. Len(q) : q[k].n < m
  PROVE  \A k \in 1 .. Len(Append(q, e)) : Append(q, e)[k].n <= m
<1> DEFINE q2 == Append(q, e)
<1>1. Len(q2) = Len(q) + 1 /\ q2[Len(q) + 1] = e /\ (\A k \in 1 .. Len(q) : q2[k] = q[k]) /\ Len(q) \in Nat
  OBVIOUS
<1> HIDE DEF q2
<1>2. ASSUME NEW k \in 1 .. Len(q2) PROVE q2[k].n <= m
  <2>1. CASE k \in 1 .. Len(q)
    <3>1. q[k] \in HandedOver
      BY <2>1, ElementType
    <3> QED BY <1>1, <2>1, <3>1 DEF HandedOver
  <2>2. CASE k = Len(q) + 1
    BY <1>1, <2>2
  <2> QED BY <1>1, <2>1, <2>2
<1> QED BY <1>2 DEF q2

LEMMA NewerStep == ASSUME Kept, NewerInv, [Next]_vars PROVE NewerInv'
<1>1. /\ serial \in Nat /\ sent \in Seq(HandedOver) /\ Len(sent) \in Nat /\ run \in Seq(Images)
      /\ Len(run) \in Nat
  BY DEF Kept, TypeOK, TypeHistory, HandedOver, Images
<1>2. ASSUME NEW c \in Calls, BeginCall(c) PROVE NewerInv'
  <2>1. serial' = serial + 1 /\ sent' = sent
    BY <1>2 DEF BeginCall
  <2>2. \A k \in 1 .. Len(sent) : sent[k].n \in Nat
    BY SentFacts DEF Kept
  <2> QED BY <1>1, <2>1, <2>2 DEF NewerInv
<1>3. CASE fifoAddEntry_Store \/ TrapCall
  <2>1. serial' = serial /\ InCall /\ ~InCall' /\ \E at \in Nat : sent' = Append(sent, Entry(at)) \/ sent' = sent
    <3>1. gj \in Nat
      BY DEF Kept, TypeOK, TypeGuest
    <3> QED BY <1>3, <3>1 DEF fifoAddEntry_Store, TrapCall, InCall
  <2>2. PICK at \in Nat : sent' = Append(sent, Entry(at)) \/ sent' = sent
    BY <2>1
  <2>3. Entry(at) \in HandedOver /\ Entry(at).n = serial
    <3>1. gcall \in Calls /\ data0 \in Nat /\ Pushed[gcall] \in Nat
      BY <2>1, CallsAssumption DEF Kept, TypeOK, TypeGuest, TypeShared
    <3> QED BY <1>1, <3>1 DEF Entry, HandedOver
  <2>4. CASE sent' = sent
    BY <2>1, <2>4 DEF NewerInv
  <2>5. CASE sent' = Append(sent, Entry(at))
    <3>1. \A k \in 1 .. Len(sent) : sent[k].n < serial
      BY <2>1 DEF NewerInv
    <3> DEFINE e == Entry(at)
    <3>2. e \in HandedOver /\ e.n <= serial
      BY <1>1, <2>3
    <3> HIDE DEF e
    <3>3. \A k \in 1 .. Len(Append(sent, e)) : Append(sent, e)[k].n <= serial
      BY <1>1, <3>1, <3>2, NewerAppend
    <3> QED BY <2>1, <2>5, <3>3 DEF NewerInv, e
  <2> QED BY <2>2, <2>4, <2>5
<1>4. CASE Attach
  <2>1. serial' = serial /\ ~InCall' /\ sent' = IF warm \/ Len(run) >= Len(sent) THEN sent ELSE SubSeq(sent, 1, Len(run))
    BY <1>4 DEF Attach, InCall
  <2>2. CASE sent' = sent
    BY <2>1, <2>2 DEF NewerInv
  <2>3. CASE sent' # sent
    <3>1. sent' = SubSeq(sent, 1, Len(run)) /\ Len(run) \in 0 .. Len(sent)
      BY <1>1, <2>1, <2>3
    <3>2. Len(sent') = Len(run) /\ \A k \in 1 .. Len(run) : sent'[k] = sent[k] /\ k \in 1 .. Len(sent)
      BY <1>1, <3>1, CutType
    <3> QED BY <2>1, <3>2 DEF NewerInv
  <2> QED BY <2>2, <2>3
<1>5. ASSUME UNCHANGED <<serial, sent>>, InCall' => InCall PROVE NewerInv'
  BY <1>5 DEF NewerInv
<1>6. CASE PrepFlush \/ PrepNoFlush \/ fifoAddData_Read \/ (\E n \in 1 .. gleft : fifoAddData_Copy(n))
           \/ fifoAddEntry_Read
  BY <1>5, <1>6 DEF PrepFlush, PrepNoFlush, fifoAddData_Read, fifoAddData_Copy, fifoAddEntry_Read, history, InCall
<1>7. CASE Wgl
  BY <1>5, <1>7 DEF Wgl, SwapBuffers, RegWrite, CreateContext, CreateContextAttribs, MakeCurrent, MakeNothingCurrent,
                    DeleteContext, SetPixelFormat, Writes, guest, render, history, InCall
<1>8. CASE DetachLast \/ DetachClear \/ DetachNotLast \/ Kill \/ Activate
  BY <1>5, <1>8 DEF DetachLast, DetachClear, DetachNotLast, Kill, Activate, Writes, guest, render, history, InCall
<1>9. CASE Host
  BY <1>5, <1>9 DEF Host, processFifo_Entry, processFifo_Misread, processFifo_End, ActCall, ActReturn, ActPlain,
                    ActCreate, ActAttribs, ActBind, ActDelete, ActFormat, ActUnload, guest, render, history, InCall
<1>10. CASE UNCHANGED vars
  BY <1>5, <1>10 DEF vars, guest, render, history, InCall
<1> QED BY <1>2, <1>3, <1>4, <1>6, <1>7, <1>8, <1>9, <1>10 DEF Next, MakeCall, Process

\* Nothing is left over by a call that ends as it should.
LEMMA LeftoverCall == ASSUME Kept, Kept', MakeCall PROVE ~Orphaned'
<1>1. CASE fifoAddEntry_Store
  <2>1. gpc' = "idle" /\ hpc' = "ready" /\ currGLRC' = currGLRC /\ currGLRC
    BY <1>1 DEF fifoAddEntry_Store, drain, session, Kept, SessionInv, InCall
  <2> QED BY <2>1 DEF Kept, Order, OrphanInv
<1>2. CASE TrapCall
  <2>1. Current /\ hpc' = "drain" /\ trap' = "call" /\ Current'
    <3>1. hpc = "ready" /\ InCall
      BY <1>2 DEF TrapCall, Trap, InCall
    <3>2. Current
      BY <3>1, CurrentInCall DEF Kept
    <3> QED BY <1>2, <3>2 DEF TrapCall, Trap, Current, context
  <2> QED BY <2>1 DEF Orphaned, Waiting
<1>3. CASE ~(fifoAddEntry_Store \/ TrapCall)
  BY <1>3 DEF MakeCall, BeginCall, PrepFlush, PrepNoFlush, fifoAddData_Read, fifoAddData_Copy, fifoAddEntry_Read,
              Orphaned, InCall
<1> QED BY <1>1, <1>2, <1>3

\* What is left over stays as it is until it is dropped.
LEMMA LeftoverFrame ==
  ASSUME LeftoverInv, UNCHANGED <<sent, mdata, data0, QueueEnd>>, Orphaned' => Orphaned
  PROVE  LeftoverInv'
BY DEF LeftoverInv

LEMMA LeftoverElse ==
  ASSUME Kept, Kept', LeftoverInv, Wgl \/ DetachLast \/ Activate
  PROVE  LeftoverInv'
<1>1. /\ UNCHANGED <<sent, run, mdata, data0, fifo0, mfifo, context>> /\ hpc = "ready"
      /\ InCall' = InCall
  BY DEF Wgl, DetachLast, Activate, SwapBuffers, CreateContextAttribs, RegWrite, Trap, CreateContext, MakeCurrent,
         MakeNothingCurrent, DeleteContext, SetPixelFormat, Writes, shared, guest, render, history, InCall
<1>2. UNCHANGED QueueEnd /\ ~Waiting
  <2>1. CASE hpc' = "ready"
    BY <1>1, <2>1, QuietFrame DEF Kept, Order
  <2>2. CASE hpc' # "ready"
    <3>1. \E op : Trap(op) /\ op # "call"
      <4>1. \A op \in todo : op # "call"
        BY DEF Kept, TypeOK, TypeGuest, RegOps
      <4> QED BY <1>1, <2>2, <4>1 DEF Wgl, DetachLast, Activate, SwapBuffers, CreateContextAttribs, RegWrite,
                   CreateContext, MakeCurrent, MakeNothingCurrent, DeleteContext, SetPixelFormat, Writes, drain
    <3> QED BY <1>1, <3>1, TrapFrame DEF Kept, Order
  <2> QED BY <2>1, <2>2
<1>3. Orphaned' => Orphaned
  BY <1>1, <1>2 DEF Orphaned
<1> QED BY <1>1, <1>2, <1>3, LeftoverFrame

\* A process that dies within a call leaves that call's data, which is newer.
LEMMA LeftoverDeath ==
  ASSUME Kept, Kept', NewerInv, LeftoverInv, DetachClear \/ DetachNotLast \/ Kill
  PROVE  LeftoverInv'
<1>1. UNCHANGED <<sent, run, mdata, data0, fifo0, mfifo>> /\ hpc = "ready" /\ hpc' = "ready"
  BY DEF DetachClear, DetachNotLast, Kill, shared, drain, history
<1>2. UNCHANGED QueueEnd /\ ~Waiting
  BY <1>1, QuietFrame DEF Kept, Order
<1>3. CASE InCall
  <2>1. \A x \in QueueEnd .. (data0 - 1) : mdata[x] = serial
    BY <1>3 DEF Kept, Order, CallInv
  <2>2. \A k \in 1 .. Len(sent) : sent[k].n \in Nat /\ sent[k].n < serial
    BY <1>3, SentFacts DEF NewerInv, Kept
  <2>3. serial \in Nat
    BY DEF Kept, TypeOK, TypeHistory
  <2> QED BY <1>1, <1>2, <2>1, <2>2, <2>3 DEF LeftoverInv
<1>4. CASE ~InCall
  <2>1. Orphaned' => Orphaned
    BY <1>1, <1>2, <1>4 DEF Orphaned
  <2> QED BY <1>1, <1>2, <2>1, LeftoverFrame
<1> QED BY <1>3, <1>4

LEMMA LeftoverAttach ==
  ASSUME Disciplined, Kept, Kept', LeftoverInv, Attach
  PROVE  LeftoverInv'
<1>1. gpc = "gone" /\ hpc = "ready" /\ hpc' = "ready" /\ UNCHANGED <<mdata, mfifo, run>>
  BY DEF Attach, drain
<1>2. CASE warm
  <2>1. UNCHANGED <<sent, data0, fifo0>>
    BY <1>2 DEF Attach
  <2>2. UNCHANGED QueueEnd /\ ~Waiting
    BY <1>1, <2>1, QuietFrame DEF Kept, Order
  <2>3. Orphaned' => Orphaned
    BY <1>1, <2>1, <2>2 DEF Orphaned, InCall
  <2> QED BY <1>1, <2>1, <2>2, <2>3, LeftoverFrame
<1>3. CASE ~warm
  <2>1. gpc' = "idle" /\ refs' = 1
    BY <1>3 DEF Attach, Outcome, Disciplined
  <2>2. ~Orphaned'
    BY <2>1 DEF Kept, Order, OrphanInv
  <2> QED BY <2>2 DEF LeftoverInv
<1> QED BY <1>2, <1>3

LEMMA LeftoverHost ==
  ASSUME Disciplined, Kept, Kept', LeftoverInv, Host
  PROVE  LeftoverInv'
<1>1. CASE processFifo_Entry \/ processFifo_Misread \/ processFifo_End
  <2>1. QueueEnd' = QueueEnd
    BY <1>1, EntryOrder, EndOrder DEF Kept
  <2>2. /\ UNCHANGED <<sent, mdata, data0, context, trap, gpc>> /\ hpc = "drain" /\ hpc' \in {"drain", "act"}
    BY <1>1 DEF processFifo_Entry, processFifo_Misread, processFifo_End, shared, guest, render, history
  <2>3. Orphaned' => Orphaned
    BY <2>1, <2>2 DEF Orphaned, Waiting, InCall, Current, context
  <2> QED BY <2>1, <2>2, <2>3, LeftoverFrame
<1>2. CASE ActCall
  BY <1>2 DEF ActCall, LeftoverInv, Orphaned
<1>3. CASE ActReturn \/ ActPlain \/ ActCreate \/ ActAttribs \/ ActBind \/ ActDelete \/ ActFormat \/ ActUnload
  <2>1. /\ hpc = "act" \/ hpc = "ret"
        /\ trap = "call" => hpc = "ret"
        /\ trap = "unload" => hpc = "act"
        /\ hpc' = "ready"
        /\ UNCHANGED <<fifo0, mfifo, mdata, sent, run, trap, gpc>>
    <3>1. hpc = "ret" => trap = "call"
      BY DEF Kept, SessionInv
    <3> QED BY <1>3, <3>1 DEF ActReturn, ActPlain, ActCreate, ActAttribs, ActBind, ActDelete, ActFormat, ActUnload,
                              shared, guest, render, history
  <2>2. data0' = IF Current /\ trap # "unload" THEN DataStart ELSE data0
    <3>1. CASE ActReturn
      <4>1. Current /\ trap # "unload"
        BY <3>1 DEF ActReturn, Kept, SessionInv
      <4> QED BY <3>1, <4>1 DEF ActReturn
    <3>2. CASE ~ActReturn
      BY <1>3, <2>1, <3>2 DEF ActPlain, ActCreate, ActAttribs, ActBind, ActDelete, ActFormat, ActUnload, shared
    <3> QED BY <3>1, <3>2
  <2>3. data0' = QueueEnd'
    BY <2>1, <2>2, AnswerFrame DEF Kept, Order
  <2> QED BY <2>3 DEF LeftoverInv, Orphaned
<1> QED BY <1>1, <1>2, <1>3 DEF Host

LEMMA LeftoverStep ==
  ASSUME Disciplined, Kept, Kept', NewerInv, LeftoverInv, [Next]_vars
  PROVE  LeftoverInv'
<1>1. CASE Next
  <2>1. CASE MakeCall
    BY <2>1, LeftoverCall DEF LeftoverInv
  <2>2. CASE Process
    BY <2>2, LeftoverElse, LeftoverDeath, LeftoverAttach DEF Process
  <2> QED BY <1>1, <2>1, <2>2, LeftoverElse, LeftoverHost DEF Next
<1>2. CASE UNCHANGED vars
  <2>1. UNCHANGED <<QueueEnd, Waiting, InCall>>
    BY <1>2 DEF vars, context, guest, render, drain, history, QueueEnd, DataPos, Done, Last, Waiting, Current, InCall
  <2> QED BY <1>2, <2>1, LeftoverFrame DEF vars, shared, drain, history, Orphaned
<1> QED BY <1>1, <1>2

\* What the host has before it when it is about to act on a write that drained.
LEMMA TakenNow ==
  ASSUME Disciplined, Kept, LeftoverInv
  PROVE  DataAllTaken
<1> SUFFICES ASSUME hpc = "act", Current, trap # "unload"
             PROVE  LET end == hj + (IF trap = "call" THEN Taken[gcall] ELSE 0)
                    IN  /\ end <= data0
                        /\ \A x \in (end .. (data0 - 1)) \cap DataIdx :
                             \A k \in 1 .. Len(sent) : mdata[x] # sent[k].n
  BY DEF DataAllTaken
<1>1. QueueEnd = hj /\ hj \in Nat /\ QueueEnd <= data0 /\ data0 \in Nat
  <2>1. Done = Last /\ Done \in Nat
    BY SentFacts DEF Kept, Order, QueueInv
  <2> QED BY <2>1 DEF QueueEnd, DataPos, Kept, Order, CallInv, TypeOK, TypeHost, TypeShared
<1>2. CASE trap = "call"
  <2>1. Waiting /\ gcall \in Calls /\ Taken[gcall] = Pushed[gcall] /\ Pushed[gcall] \in Nat
    BY <1>2, CallsAssumption DEF Waiting, Kept, SessionInv, Disciplined, StreamAgrees
  <2>2. data0 = hj + Taken[gcall]
    BY <1>1, <2>1 DEF Kept, Order, CallInv
  <2>3. (hj + Taken[gcall]) .. (data0 - 1) = {}
    BY <1>1, <2>1, <2>2
  <2> QED BY <1>1, <1>2, <2>1, <2>2, <2>3
<1>3. CASE trap # "call"
  <2>1. CASE Orphaned
    BY <1>1, <1>3, <2>1 DEF LeftoverInv
  <2>2. CASE InCall
    <3>1. gleft = Pushed[gcall] /\ data0 = QueueEnd + Pushed[gcall] - gleft /\ gcall \in Calls /\ Pushed[gcall] \in Nat
      BY <2>2, CallsAssumption DEF Kept, Order, CallInv, TypeOK, TypeGuest
    <3>2. hj .. (data0 - 1) = {}
      BY <1>1, <3>1
    <3> QED BY <1>1, <1>3, <3>2
  <2>3. CASE ~Orphaned /\ ~InCall
    <3>1. data0 = QueueEnd
      BY <1>3, <2>3 DEF Orphaned, Waiting
    <3>2. hj .. (data0 - 1) = {}
      BY <1>1, <3>1
    <3> QED BY <1>1, <1>3, <3>2
  <2> QED BY <2>1, <2>2, <2>3
<1> QED BY <1>2, <1>3

\* processFifo's "FIFO data leak" never concerns a call that was handed over:
\* when a write that drained is acted on, every word of those has been taken,
\* and what lies beyond is of a call a dead process never finished.
THEOREM DataTaken == ASSUME Disciplined PROVE Spec => []DataAllTaken
<1> DEFINE DInv == Kept /\ NewerInv /\ LeftoverInv
<1>1. Init => DInv
  BY KeptInit DEF Init, NewerInv, LeftoverInv
<1>2. DInv /\ [Next]_vars => DInv'
  BY KeptStep, NewerStep, LeftoverStep
<1>3. DInv => DataAllTaken
  BY TakenNow
<1> HIDE DEF DInv
<1> QED BY <1>1, <1>2, <1>3, PTL DEF Spec

-----------------------------------------------------------------------------
(* ---- What is left in the queue. ----------------------------------------- *)

\* Calls in the queue have a context and somebody who will drain them before it
\* goes: the process that has the context current, a wgl function that starts
\* with a draining write, or, of a dead process, a reference that keeps the
\* next one from unloading.
Left ==
  /\ Current /\ warm /\ hpc \in {"ready", "drain"}
  /\ hpc = "ready" => IF gpc = "gone" THEN refs >= 1 ELSE refs >= 2 \/ currGLRC \/ todo \ {"unload"} # {}

LeftInv == Done < Last => Left

LEMMA LeftCall == ASSUME Disciplined, Kept, Kept', LeftInv, MakeCall PROVE LeftInv'
<1>1. CASE fifoAddEntry_Store
  <2>1. hpc = "ready" /\ hpc' = "ready" /\ gpc' = "idle" /\ UNCHANGED <<context, warm, currGLRC>> /\ InCall
    BY <1>1 DEF fifoAddEntry_Store, drain, session, InCall
  <2>2. Current /\ currGLRC /\ warm
    BY <2>1, CurrentInCall DEF Kept
  <2> QED BY <2>1, <2>2 DEF LeftInv, Left, Current, context
<1>2. CASE TrapCall
  <2>1. hpc = "ready" /\ InCall /\ UNCHANGED <<context, warm>>
    BY <1>2 DEF TrapCall, Trap, InCall, shared
  <2>2. Current /\ warm
    BY <2>1, CurrentInCall DEF Kept
  <2>3. Current' /\ hpc' = "drain"
    BY <1>2, <2>1, <2>2 DEF TrapCall, Trap, Current, context
  <2> QED BY <2>1, <2>2, <2>3 DEF LeftInv, Left
<1>3. CASE PrepFlush
  <2>1. hpc = "ready" /\ InCall /\ UNCHANGED <<context, warm>>
    BY <1>3 DEF PrepFlush, Trap, InCall, shared
  <2>2. Current /\ warm
    BY <2>1, CurrentInCall DEF Kept
  <2>3. Current' /\ hpc' = "drain"
    BY <1>3, <2>1, <2>2 DEF PrepFlush, Trap, Current, context
  <2> QED BY <2>1, <2>2, <2>3 DEF LeftInv, Left
<1>4. ASSUME (\E c \in Calls : BeginCall(c)) \/ PrepNoFlush \/ fifoAddData_Read \/ fifoAddEntry_Read
             \/ (\E n \in 1 .. gleft : fifoAddData_Copy(n))
      PROVE  LeftInv'
  <2>1. /\ hpc = "ready" /\ hpc' = "ready" /\ gpc # "gone" /\ gpc' # "gone"
        /\ UNCHANGED <<context, warm, refs, currGLRC, todo, sent, run>>
    BY <1>4 DEF BeginCall, PrepNoFlush, fifoAddData_Read, fifoAddEntry_Read, fifoAddData_Copy, shared, session,
                drain, history
  <2>2. UNCHANGED <<Done, Last>>
    BY <2>1 DEF Done, Last, Waiting
  <2> QED BY <2>1, <2>2 DEF LeftInv, Left, Current, context
<1> QED BY <1>1, <1>2, <1>3, <1>4 DEF MakeCall

\* The register writes: all but the unload drain.
LEMMA LeftTrap ==
  ASSUME Disciplined, Kept, LeftInv,
         SwapBuffers \/ CreateContextAttribs \/ Activate \/ (\E op \in todo : RegWrite(op))
  PROVE  LeftInv'
<1>1. /\ hpc = "ready" /\ hpc' # "ready" /\ UNCHANGED <<context, warm, sent, run>> /\ gpc # "gone"
      /\ trap' # "unload" /\ Current => hpc' = "drain"
      /\ trap' # "call"
  <2>1. ASSUME NEW op \in todo, RegWrite(op) PROVE op # "call"
    BY <2>1 DEF Kept, TypeOK, TypeGuest, RegOps
  <2> QED BY <2>1 DEF SwapBuffers, CreateContextAttribs, Activate, RegWrite, Trap, shared, history, guest, render, Disciplined
<1>2. Done' = Done /\ Last' = Last
  BY <1>1 DEF Done, Last, Waiting
<1>3. CASE trap' = "unload"
  <2>1. RegWrite("unload") /\ "unload" \in todo
    BY <1>3 DEF SwapBuffers, CreateContextAttribs, Activate, RegWrite, Trap
  <2>2. refs = 0 /\ ~currGLRC
    BY <1>1, <2>1 DEF Kept, SessionInv
  <2>3. todo \ {"unload"} = {}
    <3> SUFFICES ASSUME NEW o \in todo PROVE o = "unload"
      OBVIOUS
    <3>1. Rank["unload"] <= Rank[o] /\ o \in RegOps
      BY <2>1 DEF RegWrite, Kept, TypeOK, TypeGuest
    <3> QED BY <3>1 DEF Rank, RegOps
  <2>4. ~(Done < Last)
    BY <1>1, <2>2, <2>3 DEF LeftInv, Left
  <2> QED BY <1>2, <2>4 DEF LeftInv
<1>4. CASE trap' # "unload"
  <2>1. Current' = Current
    BY <1>1 DEF Current, context
  <2> QED BY <1>1, <1>2, <1>4, <2>1 DEF LeftInv, Left
<1> QED BY <1>3, <1>4

LEMMA LeftWrites ==
  ASSUME Kept, LeftInv,
         CreateContext \/ MakeCurrent \/ MakeNothingCurrent \/ DeleteContext \/ SetPixelFormat \/ DetachLast
  PROVE  LeftInv'
<1>1. /\ hpc = "ready" /\ hpc' = "ready" /\ gpc = "idle" /\ gpc' = "regs"
      /\ UNCHANGED <<context, warm, sent, run>>
  BY DEF CreateContext, MakeCurrent, MakeNothingCurrent, DeleteContext, SetPixelFormat, DetachLast,
         Writes, drain, history
<1>2. UNCHANGED <<Done, Last>> /\ Current' = Current
  BY <1>1 DEF Done, Last, Waiting, Current, context
<1>3. CASE ~DetachLast
  <2>1. todo' \ {"unload"} # {}
    BY <1>3 DEF CreateContext, MakeCurrent, MakeNothingCurrent, DeleteContext, SetPixelFormat, Writes
  <2> QED BY <1>1, <1>2, <2>1 DEF LeftInv, Left
<1>4. CASE DetachLast
  <2>1. refs = 1 /\ todo' = Release \cup {"unload"} /\ todo = {}
    BY <1>1, <1>4 DEF DetachLast, Writes, Kept, SessionInv
  <2>2. Done < Last => currGLRC
    BY <1>1, <2>1 DEF LeftInv, Left
  <2>3. Done < Last => todo' \ {"unload"} # {}
    BY <2>1, <2>2 DEF Release
  <2> QED BY <1>1, <1>2, <2>3 DEF LeftInv, Left
<1> QED BY <1>3, <1>4

LEMMA LeftLeaves ==
  ASSUME DiesInDetach = FALSE, Kept, LeftInv, DetachClear \/ DetachNotLast \/ Kill
  PROVE  LeftInv'
<1>1. /\ hpc = "ready" /\ hpc' = "ready" /\ gpc # "gone" /\ gpc' = "gone"
      /\ UNCHANGED <<context, sent, run>> /\ refs \in Nat
  BY DEF DetachClear, DetachNotLast, Kill, shared, drain, history, Kept, TypeOK, TypeShared
<1>2. UNCHANGED <<Done, Last>> /\ Current' = Current
  BY <1>1 DEF Done, Last, Waiting, Current, context
<1>3. CASE DetachClear
  <2>1. gpc = "clear" /\ refs = 0 /\ ~currGLRC /\ todo = {}
    BY <1>3 DEF DetachClear, Kept, SessionInv
  <2> QED BY <1>1, <1>2, <2>1 DEF LeftInv, Left
<1>4. CASE DetachNotLast
  <2>1. refs > 1 /\ refs' = refs - 1 /\ warm' = warm
    BY <1>4 DEF DetachNotLast
  <2> QED BY <1>1, <1>2, <2>1 DEF LeftInv, Left
<1>5. CASE Kill
  <2>1. refs > 0 /\ refs' = refs /\ warm' = warm
    BY <1>5 DEF Kill, shared
  <2> QED BY <1>1, <1>2, <2>1 DEF LeftInv, Left
<1> QED BY <1>3, <1>4, <1>5

LEMMA LeftAttach == ASSUME Disciplined, Kept, Kept', LeftInv, Attach PROVE LeftInv'
<1>1. /\ hpc = "ready" /\ hpc' = "ready" /\ gpc = "gone" /\ UNCHANGED <<context, run>> /\ refs \in Nat
  BY DEF Attach, drain, Kept, TypeOK, TypeShared
<1>2. Done' = Done /\ Last = Len(sent) /\ Last' = Len(sent') /\ Current' = Current /\ Done = Len(run)
  BY <1>1 DEF Done, Last, Waiting, Current, context
<1>3. Done \in Nat /\ Len(sent) \in Nat /\ Done <= Len(sent)
  BY <1>2, SentFacts DEF Kept, Order, QueueInv
<1>4. CASE warm
  <2>1. refs' = refs + 1 /\ sent' = sent /\ warm' = TRUE
    BY <1>4 DEF Attach
  <2> QED BY <1>1, <1>2, <2>1 DEF LeftInv, Left
<1>5. CASE ~warm
  <2>1. sent' = IF Len(run) >= Len(sent) THEN sent ELSE SubSeq(sent, 1, Len(run))
    BY <1>5 DEF Attach
  <2>2. CASE Len(run) >= Len(sent)
    BY <1>2, <1>3, <2>1, <2>2 DEF LeftInv
  <2>3. CASE ~(Len(run) >= Len(sent))
    <3>1. Len(sent') = Len(run)
      BY <1>2, <1>3, <2>1, <2>3, CutType DEF Kept, TypeOK, TypeHistory
    <3> QED BY <1>2, <1>3, <3>1 DEF LeftInv
  <2> QED BY <2>2, <2>3
<1> QED BY <1>4, <1>5

LEMMA LeftHost == ASSUME Disciplined, Kept, Kept', LeftInv, Host PROVE LeftInv'
<1>1. CASE processFifo_Entry \/ processFifo_Misread
  <2>1. hpc = "drain" /\ hpc' = "drain" /\ UNCHANGED <<context, warm, gpc>>
    BY <1>1 DEF processFifo_Entry, processFifo_Misread, guest, render, shared
  <2>2. Current /\ warm
    BY <2>1 DEF Kept, SessionInv
  <2> QED BY <2>1, <2>2 DEF LeftInv, Left, Current, context
<1>2. CASE processFifo_End
  <2>1. hpc = "drain" /\ hpc' = "act" /\ UNCHANGED <<context, trap>>
    BY <1>2 DEF processFifo_End
  <2>2. Current' /\ trap' # "unload"
    BY <2>1 DEF Kept, SessionInv, Current, context
  <2> QED BY <2>1, <2>2 DEF LeftInv, Kept, Order, QueueInv, Done, Last
<1>3. CASE ActCall
  <2>1. hpc' = "ret" /\ hpc = "act" /\ UNCHANGED <<context, trap>> /\ trap = "call"
    BY <1>3 DEF ActCall
  <2>2. Current'
    BY <2>1 DEF Kept, SessionInv, Current, context
  <2>3. Done' = Last'
    BY <2>1, <2>2 DEF Kept, Order, QueueInv
  <2>4. Done' \in Int
    BY DEF Kept, TypeOK, TypeHistory, Done
  <2> QED BY <2>3, <2>4 DEF LeftInv
<1>4. CASE ActReturn \/ ActPlain \/ ActCreate \/ ActAttribs \/ ActBind \/ ActDelete \/ ActFormat \/ ActUnload
  <2>1. /\ hpc \in {"act", "ret"} /\ hpc' = "ready" /\ UNCHANGED <<run, sent>>
        /\ hpc = "act" => trap # "call"
    BY <1>4 DEF ActReturn, ActPlain, ActCreate, ActAttribs, ActBind, ActDelete, ActFormat, ActUnload, history
  <2>2. UNCHANGED <<Done, Last>>
    BY <2>1 DEF Done, Last, Waiting
  <2>3. ~(Done < Last)
    BY <2>1 DEF LeftInv, Left
  <2> QED BY <2>2, <2>3 DEF LeftInv
<1> QED BY <1>1, <1>2, <1>3, <1>4 DEF Host

LEMMA LeftStep ==
  ASSUME Disciplined, DiesInDetach = FALSE, Kept, Kept', LeftInv, [Next]_vars
  PROVE  LeftInv'
<1>1. CASE Next
  BY <1>1, LeftCall, LeftTrap, LeftWrites, LeftLeaves, LeftAttach, LeftHost DEF Next, Wgl, Process
<1>2. CASE UNCHANGED vars
  <2>1. UNCHANGED <<Done, Last, Current>>
    BY <1>2 DEF vars, context, drain, history, Done, Last, Waiting, Current
  <2> QED BY <1>2, <2>1 DEF LeftInv, Left, vars, shared, guest, render, session, drain
<1> QED BY <1>1, <1>2

-----------------------------------------------------------------------------
(* ---- The calls as DirectCalls sees them. -------------------------------- *)


LEMMA MapType ==
  ASSUME NEW n \in Nat, NEW S, NEW f \in [1 .. n -> S]
  PROVE  f \in Seq(S) /\ Len(f) = n
OBVIOUS

LEMMA SameSequence ==
  ASSUME NEW S, NEW s \in Seq(S), NEW t \in Seq(S), Len(s) = Len(t), \A k \in 1 .. Len(s) : s[k] = t[k]
  PROVE  s = t
OBVIOUS

LEMMA AppendFacts ==
  ASSUME NEW S, NEW s \in Seq(S), NEW e \in S
  PROVE  /\ Append(s, e) \in Seq(S) /\ Len(Append(s, e)) = Len(s) + 1
         /\ Append(s, e)[Len(s) + 1] = e
         /\ \A k \in 1 .. Len(s) : Append(s, e)[k] = s[k]
OBVIOUS

LEMMA ImageType == ASSUME NEW n \in Nat, NEW c \in Calls PROVE Image(n, c) \in Images
BY DEF Image, Images, Carried

LEMMA ImagesType ==
  ASSUME NEW q \in Seq(HandedOver)
  PROVE  /\ ImagesOf(q) \in Seq(Images) /\ Len(ImagesOf(q)) = Len(q) /\ Len(q) \in Nat
         /\ \A k \in 1 .. Len(q) : ImagesOf(q)[k] = Image(q[k].n, q[k].c)
<1>1. Len(q) \in Nat /\ DOMAIN q = 1 .. Len(q)
  OBVIOUS
<1>2. \A k \in 1 .. Len(q) : Image(q[k].n, q[k].c) \in Images
  <2> SUFFICES ASSUME NEW k \in 1 .. Len(q) PROVE Image(q[k].n, q[k].c) \in Images
    OBVIOUS
  <2>1. q[k] \in HandedOver
    BY ElementType
  <2>2. q[k].n \in Nat /\ q[k].c \in Calls
    BY <2>1 DEF HandedOver
  <2> QED BY <2>2, ImageType
<1>3. ImagesOf(q) \in [1 .. Len(q) -> Images]
  BY <1>1, <1>2 DEF ImagesOf
<1>4. ImagesOf(q) \in Seq(Images) /\ Len(ImagesOf(q)) = Len(q)
  BY <1>1, <1>3, MapType
<1> QED BY <1>1, <1>4 DEF ImagesOf

LEMMA ImagesAppend ==
  ASSUME NEW q \in Seq(HandedOver), NEW e \in HandedOver
  PROVE  ImagesOf(Append(q, e)) = Append(ImagesOf(q), Image(e.n, e.c))
<1> DEFINE q2 == Append(q, e)
           s == ImagesOf(q)
           s2 == ImagesOf(q2)
           x == Image(e.n, e.c)
<1>1. q2 \in Seq(HandedOver) /\ Len(q2) = Len(q) + 1 /\ q2[Len(q) + 1] = e /\ \A k \in 1 .. Len(q) : q2[k] = q[k]
  BY AppendFacts
<1> HIDE DEF q2
<1>2. /\ s \in Seq(Images) /\ Len(s) = Len(q) /\ Len(q) \in Nat
      /\ \A k \in 1 .. Len(q) : s[k] = Image(q[k].n, q[k].c)
  BY ImagesType
<1>3. /\ s2 \in Seq(Images) /\ Len(s2) = Len(q2)
      /\ \A k \in 1 .. Len(q2) : s2[k] = Image(q2[k].n, q2[k].c)
  BY <1>1, ImagesType
<1>4. x \in Images
  BY ImageType DEF HandedOver
<1>5. Len(q) + 1 \in 1 .. Len(q2)
  BY <1>1, <1>2
<1>6. s2[Len(q) + 1] = x
  BY <1>1, <1>3, <1>5
<1> HIDE DEF s, s2, x
<1>7. /\ Append(s, x) \in Seq(Images) /\ Len(Append(s, x)) = Len(s) + 1 /\ Append(s, x)[Len(s) + 1] = x
      /\ \A k \in 1 .. Len(s) : Append(s, x)[k] = s[k]
  BY <1>2, <1>4, AppendFacts
<1>8. ASSUME NEW k \in 1 .. Len(s2) PROVE s2[k] = Append(s, x)[k]
  <2>1. CASE k \in 1 .. Len(q)
    BY <1>1, <1>2, <1>3, <1>7, <2>1
  <2>2. CASE k = Len(q) + 1
    BY <1>2, <1>6, <1>7, <2>2
  <2> QED BY <1>1, <1>2, <1>3, <2>1, <2>2
<1>9. Len(s2) = Len(Append(s, x))
  BY <1>1, <1>2, <1>3, <1>7
<1>10. s2 = Append(s, x)
  BY <1>3, <1>7, <1>8, <1>9, SameSequence
<1> QED BY <1>10 DEF s, s2, x, q2

LEMMA ImagesCut ==
  ASSUME NEW q \in Seq(HandedOver), NEW m \in 0 .. Len(q)
  PROVE  ImagesOf(SubSeq(q, 1, m)) = SubSeq(ImagesOf(q), 1, m)
<1> DEFINE q2 == SubSeq(q, 1, m)
           s == ImagesOf(q)
           s2 == ImagesOf(q2)
<1>1. q2 \in Seq(HandedOver) /\ Len(q2) = m /\ \A k \in 1 .. m : q2[k] = q[k]
  BY CutType
<1> HIDE DEF q2
<1>2. /\ s \in Seq(Images) /\ Len(s) = Len(q) /\ Len(q) \in Nat
      /\ \A k \in 1 .. Len(q) : s[k] = Image(q[k].n, q[k].c)
  BY ImagesType
<1>3. /\ s2 \in Seq(Images) /\ Len(s2) = Len(q2)
      /\ \A k \in 1 .. Len(q2) : s2[k] = Image(q2[k].n, q2[k].c)
  BY <1>1, ImagesType
<1> HIDE DEF s, s2
<1>4. SubSeq(s, 1, m) \in Seq(Images) /\ Len(SubSeq(s, 1, m)) = m /\ \A k \in 1 .. m : SubSeq(s, 1, m)[k] = s[k]
  BY <1>2, CutType
<1>5. \A k \in 1 .. Len(s2) : s2[k] = SubSeq(s, 1, m)[k]
  BY <1>1, <1>2, <1>3, <1>4
<1>6. s2 = SubSeq(s, 1, m)
  BY <1>1, <1>3, <1>4, <1>5, SameSequence
<1> QED BY <1>6 DEF s, s2, q2

\* OwnData, said of the calls as a whole.
LEMMA RunIsSent ==
  ASSUME TypeHistory, OwnData
  PROVE  /\ Len(run) <= Len(Sent)
         /\ \A k \in 1 .. Len(run) : run[k] = Sent[k]
         /\ Len(run) = Len(Sent) => run = Sent
<1>1. /\ Sent \in Seq(Images) /\ Len(Sent) = Len(sent) /\ Len(sent) \in Nat
      /\ \A k \in 1 .. Len(sent) : Sent[k] = Image(sent[k].n, sent[k].c)
  BY ImagesType DEF Sent, TypeHistory, HandedOver
<1>2. run \in Seq(Images) /\ Len(run) \in Nat
  BY DEF TypeHistory, Images
<1>3. Len(run) <= Len(Sent)
  <2>1. CASE Len(run) = 0
    BY <1>1, <2>1
  <2>2. CASE Len(run) # 0
    <3>1. Len(run) \in 1 .. Len(run)
      BY <1>2, <2>2
    <3> QED BY <1>1, <3>1 DEF OwnData
  <2> QED BY <2>1, <2>2
<1>4. ASSUME NEW k \in 1 .. Len(run) PROVE run[k] = Sent[k]
  <2>1. k \in 1 .. Len(sent)
    BY <1>1, <1>2, <1>3
  <2>2. Sent[k] = Image(sent[k].n, sent[k].c)
    BY <1>1, <2>1
  <2> QED BY <2>2 DEF OwnData, Image
<1>5. Len(run) = Len(Sent) => run = Sent
  BY <1>1, <1>2, <1>4, SameSequence
<1> QED BY <1>3, <1>4, <1>5

-----------------------------------------------------------------------------
(* ---- Every step is one of DirectCalls, or none. ------------------------- *)

\* The number of the call under way.
NumberInv == serial <= MaxCalls /\ (InCall => serial \in 1 .. MaxCalls)

LEMMA NumberStep == ASSUME Kept, NumberInv, [Next]_vars PROVE NumberInv'
<1>1. serial \in Nat /\ MaxCalls \in Nat
  BY LayoutAssumption DEF Kept, TypeOK, TypeHistory
<1>2. ASSUME NEW c \in Calls, BeginCall(c) PROVE NumberInv'
  <2>1. serial < MaxCalls /\ serial' = serial + 1
    BY <1>2 DEF BeginCall
  <2> QED BY <1>1, <2>1 DEF NumberInv
<1>3. ASSUME serial' = serial, InCall' => InCall PROVE NumberInv'
  BY <1>3 DEF NumberInv
<1>4. CASE PrepFlush \/ PrepNoFlush \/ fifoAddData_Read \/ (\E n \in 1 .. gleft : fifoAddData_Copy(n))
           \/ fifoAddEntry_Read \/ fifoAddEntry_Store \/ TrapCall
  BY <1>3, <1>4 DEF PrepFlush, PrepNoFlush, fifoAddData_Read, fifoAddData_Copy, fifoAddEntry_Read,
                    fifoAddEntry_Store, TrapCall, history, InCall
<1>5. CASE Wgl
  BY <1>3, <1>5 DEF Wgl, SwapBuffers, RegWrite, CreateContext, CreateContextAttribs, MakeCurrent, MakeNothingCurrent,
                    DeleteContext, SetPixelFormat, Writes, guest, render, history, InCall
<1>6. CASE Process
  BY <1>3, <1>6 DEF Process, Attach, DetachLast, DetachClear, DetachNotLast, Kill, Activate, Writes, guest, render,
                    history, InCall
<1>7. CASE Host
  BY <1>3, <1>7 DEF Host, processFifo_Entry, processFifo_Misread, processFifo_End, ActCall, ActReturn, ActPlain,
                    ActCreate, ActAttribs, ActBind, ActDelete, ActFormat, ActUnload, guest, render, history, InCall
<1>8. CASE UNCHANGED vars
  BY <1>3, <1>8 DEF vars, guest, render, history, InCall
<1> QED BY <1>2, <1>4, <1>5, <1>6, <1>7, <1>8 DEF Next, MakeCall

LEMMA PostStep ==
  ASSUME Kept, Kept', NumberInv, fifoAddEntry_Store
  PROVE  Direct!Post
<1>1. /\ hpc = "ready" /\ hpc' = "ready" /\ gpc = "entry" /\ gpc' = "idle" /\ run' = run
      /\ sent' = Append(sent, Entry(gj))
  BY DEF fifoAddEntry_Store, drain
<1>2. Entry(gj) \in HandedOver /\ Entry(gj).n = serial /\ Entry(gj).c = gcall
      /\ serial \in 1 .. MaxCalls /\ gcall \in Calls
  <2>1. serial \in 1 .. MaxCalls /\ gcall \in Calls /\ gj \in Nat /\ data0 \in Nat /\ Pushed[gcall] \in Nat
    BY <1>1, CallsAssumption DEF NumberInv, InCall, Kept, TypeOK, TypeGuest, TypeShared
  <2> QED BY <2>1 DEF Entry, HandedOver
<1>3. Sent' = Append(Sent, Image(serial, gcall))
  BY <1>1, <1>2, ImagesAppend DEF Sent, Kept, TypeOK, TypeHistory, HandedOver
<1>4. Image(serial, gcall) \in Callable
  BY <1>2 DEF Callable
<1>5. Alive /\ ~Asked /\ Asked' = Asked /\ Alive' = Alive
  BY <1>1 DEF Alive, Asked
<1> QED BY <1>1, <1>3, <1>4, <1>5 DEF Direct!Post

LEMMA AskStep ==
  ASSUME Kept, Kept', NumberInv, TrapCall
  PROVE  Direct!Ask
<1>1. /\ hpc = "ready" /\ gpc = "data" /\ gpc' = "idle" /\ run' = run /\ trap' = "call" /\ hpc' # "ready" /\ InCall
  BY DEF TrapCall, Trap, InCall
<1>2. sent' = Append(sent, Entry(0))
  BY <1>1, CurrentInCall DEF TrapCall, Kept
<1>3. Entry(0) \in HandedOver /\ Entry(0).n = serial /\ Entry(0).c = gcall
      /\ serial \in 1 .. MaxCalls /\ gcall \in Calls
  <2>1. serial \in 1 .. MaxCalls /\ gcall \in Calls /\ data0 \in Nat /\ Pushed[gcall] \in Nat
    BY <1>1, CallsAssumption DEF NumberInv, Kept, TypeOK, TypeGuest, TypeShared
  <2> QED BY <2>1 DEF Entry, HandedOver
<1>4. Sent' = Append(Sent, Image(serial, gcall))
  BY <1>2, <1>3, ImagesAppend DEF Sent, Kept, TypeOK, TypeHistory, HandedOver
<1>5. Image(serial, gcall) \in Callable
  BY <1>3 DEF Callable
<1>6. Alive /\ ~Asked /\ Asked' = TRUE /\ Alive' = Alive
  BY <1>1 DEF Alive, Asked
<1> QED BY <1>1, <1>4, <1>5, <1>6 DEF Direct!Ask

\* A register write that drains and is not a call.
LEMMA BarrierStep ==
  ASSUME NEW op, Trap(op), op # "unload", gpc # "gone", gpc' # "gone", UNCHANGED <<sent, run>>
  PROVE  Direct!Barrier
<1>1. Alive /\ ~Asked /\ Asked' = TRUE /\ Alive' = Alive /\ Sent' = Sent
  BY DEF Trap, Alive, Asked, Sent
<1> QED BY <1>1 DEF Direct!Barrier

LEMMA StutterStep ==
  ASSUME UNCHANGED <<sent, run>>, Asked' = Asked, Alive' = Alive
  PROVE  UNCHANGED Direct!vars
BY DEF Sent, Direct!vars

\* A call that is run is the next one: what OwnData says of it once it has run.
LEMMA RunStep ==
  ASSUME Kept, Kept', NEW r, run' = Append(run, r), sent' = sent, Asked, Asked', Alive' = Alive
  PROVE  Direct!Run
<1>1. /\ run \in Seq(Images) /\ run' \in Seq(Images)
      /\ Len(run) \in Nat /\ Len(run') = Len(run) + 1 /\ run'[Len(run) + 1] = r
  <2>1. run \in Seq(Images) /\ run' \in Seq(Images)
    BY DEF Kept, TypeOK, TypeHistory, Images
  <2> QED BY <2>1
<1>2. Len(run) + 1 \in 1 .. Len(run')
  BY <1>1
<1>3. Len(run) + 1 <= Len(sent) /\ r = Image(sent[Len(run) + 1].n, sent[Len(run) + 1].c)
  BY <1>1, <1>2 DEF Kept, Order, OwnData, Image
<1>4. /\ Len(Sent) = Len(sent) /\ Len(sent) \in Nat
      /\ \A k \in 1 .. Len(sent) : Sent[k] = Image(sent[k].n, sent[k].c)
  BY ImagesType DEF Sent, Kept, TypeOK, TypeHistory, HandedOver
<1>5. Len(run) < Len(Sent) /\ r = Sent[Len(run) + 1]
  BY <1>1, <1>3, <1>4
<1>6. Sent' = Sent
  BY DEF Sent
<1> QED BY <1>5, <1>6 DEF Direct!Run, Asked

\* A trap returns when everything handed over has run: the queue is empty after a
\* drain, and where nothing is drained nothing was left.
LEMMA AnswerStep ==
  ASSUME Kept, LeftInv, UNCHANGED <<sent, run>>, hpc' = "ready", trap # "unload",
         hpc = "ret" \/ (hpc = "act" /\ trap # "call"), Alive' = Alive
  PROVE  Direct!Answer
<1>1. Last = Len(sent) /\ Done \in Nat /\ Last \in Nat /\ Done <= Last
  BY SentFacts DEF Last, Waiting, Kept, Order, QueueInv
<1>2. ~(Done < Last)
  BY DEF LeftInv, Left
<1>3. Len(run) = Len(sent)
  BY <1>1, <1>2 DEF Done
<1>4. run = Sent
  BY <1>3, RunIsSent, ImagesType DEF Sent, Kept, Order, TypeOK, TypeHistory, HandedOver
<1>5. Asked /\ Asked' = FALSE /\ Sent' = Sent
  BY DEF Asked, Sent
<1> QED BY <1>4, <1>5 DEF Direct!Answer

LEMMA StartStep == ASSUME Disciplined, Kept, Attach PROVE Direct!Start
<1>1. hpc = "ready" /\ hpc' = hpc /\ trap' = trap /\ gpc = "gone" /\ gpc' # "gone" /\ run' = run
  BY DEF Attach, Outcome, Disciplined, drain
<1>2. Len(run) \in Nat /\ Len(sent) \in Nat /\ sent \in Seq(HandedOver)
  BY DEF Kept, TypeOK, TypeHistory, HandedOver
<1>3. Sent' \in {Sent, SubSeq(Sent, 1, Len(run))}
  <2>1. CASE warm \/ Len(run) >= Len(sent)
    BY <2>1 DEF Attach, Sent
  <2>2. CASE ~(warm \/ Len(run) >= Len(sent))
    <3>1. Len(run) \in 0 .. Len(sent) /\ sent' = SubSeq(sent, 1, Len(run))
      BY <1>2, <2>2 DEF Attach
    <3> QED BY <1>2, <3>1, ImagesCut DEF Sent
  <2> QED BY <2>1, <2>2
<1>4. ~Alive /\ ~Asked /\ Alive' = TRUE /\ Asked' = Asked
  BY <1>1 DEF Alive, Asked
<1> QED BY <1>1, <1>3, <1>4 DEF Direct!Start

LEMMA DieStep == ASSUME DetachClear \/ DetachNotLast \/ Kill PROVE Kept => Direct!Die
<1> SUFFICES ASSUME Kept PROVE Direct!Die
  OBVIOUS
<1>1. hpc = "ready" /\ hpc' = hpc /\ trap' = trap /\ gpc # "gone" /\ gpc' = "gone" /\ UNCHANGED <<sent, run>>
  BY DEF DetachClear, DetachNotLast, Kill, drain, history
<1>2. Alive /\ ~Asked /\ Alive' = FALSE /\ Asked' = Asked /\ Sent' = Sent
  BY <1>1 DEF Alive, Asked, Sent
<1> QED BY <1>1, <1>2 DEF Direct!Die

\* The render thread's own steps: only a call handed over is one of DirectCalls.
LEMMA DirectCall ==
  ASSUME Kept, Kept', NumberInv, MakeCall
  PROVE  [Direct!Next]_(Direct!vars)
<1>1. CASE fifoAddEntry_Store
  BY <1>1, PostStep DEF Direct!Next
<1>2. CASE TrapCall
  BY <1>2, AskStep DEF Direct!Next
<1>3. CASE PrepFlush
  <2>1. Trap("flush") /\ gpc # "gone" /\ gpc' # "gone" /\ UNCHANGED <<sent, run>>
    BY <1>3 DEF PrepFlush, history
  <2>2. Direct!Barrier
    BY <2>1, BarrierStep
  <2> QED BY <2>2 DEF Direct!Next
<1>4. CASE (\E c \in Calls : BeginCall(c)) \/ PrepNoFlush \/ fifoAddData_Read \/ fifoAddEntry_Read
           \/ (\E n \in 1 .. gleft : fifoAddData_Copy(n))
  <2>1. UNCHANGED <<sent, run, hpc, trap>> /\ gpc # "gone" /\ gpc' # "gone"
    BY <1>4 DEF BeginCall, PrepNoFlush, fifoAddData_Read, fifoAddEntry_Read, fifoAddData_Copy, drain, history
  <2> QED BY <2>1, StutterStep DEF Asked, Alive
<1> QED BY <1>1, <1>2, <1>3, <1>4 DEF MakeCall

\* A wgl function is one Barrier for each of its register writes.
LEMMA DirectWgl ==
  ASSUME Kept, Wgl
  PROVE  [Direct!Next]_(Direct!vars)
<1>1. CASE SwapBuffers \/ CreateContextAttribs
  <2>1. UNCHANGED <<sent, run>> /\ gpc = "idle" /\ gpc' = "idle"
    BY <1>1 DEF SwapBuffers, CreateContextAttribs, guest, render, history
  <2>2. Trap("swap") \/ Trap("attribs")
    BY <1>1 DEF SwapBuffers, CreateContextAttribs
  <2>3. Direct!Barrier
    BY <2>1, <2>2, BarrierStep
  <2> QED BY <2>3 DEF Direct!Next
<1>2. ASSUME NEW op \in todo, RegWrite(op) PROVE [Direct!Next]_(Direct!vars)
  <2>1. Trap(op) /\ UNCHANGED <<sent, run>> /\ gpc # "gone" /\ gpc' # "gone"
    BY <1>2 DEF RegWrite, history
  <2>2. CASE op # "unload"
    <3>1. Direct!Barrier
      BY <2>1, <2>2, BarrierStep
    <3> QED BY <3>1 DEF Direct!Next
  <2>3. CASE op = "unload"
    BY <2>1, <2>3, StutterStep DEF Trap, Asked, Alive
  <2> QED BY <2>2, <2>3
<1>3. CASE CreateContext \/ MakeCurrent \/ MakeNothingCurrent \/ DeleteContext \/ SetPixelFormat
  <2>1. UNCHANGED <<sent, run, hpc, trap>> /\ gpc # "gone" /\ gpc' # "gone"
    BY <1>3 DEF CreateContext, MakeCurrent, MakeNothingCurrent, DeleteContext, SetPixelFormat, Writes, drain, history
  <2> QED BY <2>1, StutterStep DEF Asked, Alive
<1> QED BY <1>1, <1>2, <1>3 DEF Wgl

LEMMA DirectProcess ==
  ASSUME Disciplined, Kept, Process
  PROVE  [Direct!Next]_(Direct!vars)
<1>1. CASE Attach
  BY <1>1, StartStep DEF Direct!Next
<1>2. CASE DetachClear \/ DetachNotLast \/ Kill
  BY <1>2, DieStep DEF Direct!Next
<1>3. CASE DetachLast
  <2>1. UNCHANGED <<sent, run, hpc, trap>> /\ gpc # "gone" /\ gpc' # "gone"
    BY <1>3 DEF DetachLast, Writes, drain, history
  <2> QED BY <2>1, StutterStep DEF Asked, Alive
<1>4. CASE Activate
  <2>1. Trap("activate") /\ gpc = "idle" /\ gpc' = "idle" /\ UNCHANGED <<sent, run>>
    BY <1>4 DEF Activate, Disciplined, guest, render, history
  <2>2. Direct!Barrier
    BY <2>1, BarrierStep
  <2> QED BY <2>2 DEF Direct!Next
<1> QED BY <1>1, <1>2, <1>3, <1>4 DEF Process

LEMMA DirectHost ==
  ASSUME Kept, Kept', LeftInv, Host
  PROVE  [Direct!Next]_(Direct!vars)
<1>1. gpc' = gpc /\ trap' = trap /\ sent' = sent /\ Alive' = Alive
  BY DEF Host, processFifo_Entry, processFifo_Misread, processFifo_End, ActCall, ActReturn, ActPlain, ActCreate,
         ActAttribs, ActBind, ActDelete, ActFormat, ActUnload, guest, render, history, Alive
<1>2. CASE processFifo_Entry
  <2>1. hpc = "drain" /\ hpc' = "drain" /\ \E r : run' = Append(run, r)
    BY <1>2 DEF processFifo_Entry
  <2>2. Asked /\ Asked'
    BY <1>1, <2>1 DEF Asked, Kept, SessionInv
  <2>3. Direct!Run
    BY <1>1, <2>1, <2>2, RunStep
  <2> QED BY <2>3 DEF Direct!Next
<1>3. CASE processFifo_Misread
  <2>1. hpc = "drain" /\ hpc' = "drain" /\ \E r : run' = Append(run, r)
    BY <1>3 DEF processFifo_Misread
  <2>2. Asked /\ Asked'
    BY <1>1, <2>1 DEF Asked, Kept, SessionInv
  <2>3. Direct!Run
    BY <1>1, <2>1, <2>2, RunStep
  <2> QED BY <2>3 DEF Direct!Next
<1>4. CASE ActCall
  <2>1. hpc = "act" /\ hpc' = "ret" /\ trap = "call"
    BY <1>4 DEF ActCall
  <2>2. Current
    BY <2>1 DEF Kept, SessionInv
  <2>3. \E r : run' = Append(run, r)
    BY <1>4, <2>2 DEF ActCall
  <2>4. Asked /\ Asked'
    BY <1>1, <2>1 DEF Asked
  <2>5. Direct!Run
    BY <1>1, <2>3, <2>4, RunStep
  <2> QED BY <2>5 DEF Direct!Next
<1>5. CASE ActReturn \/ ActPlain \/ ActCreate \/ ActAttribs \/ ActBind \/ ActDelete \/ ActFormat
  <2>1. UNCHANGED run /\ hpc' = "ready" /\ (hpc = "ret" \/ (hpc = "act" /\ trap \notin {"call", "unload"}))
    BY <1>5 DEF ActReturn, ActPlain, ActCreate, ActAttribs, ActBind, ActDelete, ActFormat, history
  <2>2. trap # "unload"
    BY <2>1 DEF Kept, SessionInv
  <2>3. Direct!Answer
    BY <1>1, <2>1, <2>2, AnswerStep
  <2> QED BY <2>3 DEF Direct!Next
<1>6. CASE processFifo_End
  <2>1. hpc = "drain" /\ hpc' = "act" /\ run' = run
    BY <1>6 DEF processFifo_End, history
  <2> QED BY <1>1, <2>1, StutterStep DEF Asked
<1>7. CASE ActUnload
  <2>1. trap = "unload" /\ run' = run
    BY <1>7 DEF ActUnload, history
  <2> QED BY <1>1, <2>1, StutterStep DEF Asked
<1> QED BY <1>2, <1>3, <1>4, <1>5, <1>6, <1>7 DEF Host

LEMMA DirectStep ==
  ASSUME Disciplined, Kept, Kept', LeftInv, NumberInv, [Next]_vars
  PROVE  [Direct!Next]_(Direct!vars)
<1>1. CASE Next
  BY <1>1, DirectCall, DirectWgl, DirectProcess, DirectHost DEF Next
<1>2. CASE UNCHANGED vars
  <2>1. UNCHANGED <<sent, run, hpc, trap, gpc>>
    BY <1>2 DEF vars, guest, render, drain, history
  <2> QED BY <2>1, StutterStep DEF Asked, Alive
<1> QED BY <1>1, <1>2

LEMMA DirectInit == ASSUME Init PROVE Direct!Init /\ LeftInv /\ NumberInv
<1>1. sent = <<>> /\ run = <<>> /\ hpc = "ready" /\ gpc = "idle" /\ serial = 0
  BY DEF Init
<1>2. Sent = <<>>
  <2>1. sent \in Seq(HandedOver) /\ Len(sent) = 0
    BY <1>1
  <2>2. Sent \in Seq(Images) /\ Len(Sent) = 0
    BY <2>1, ImagesType DEF Sent
  <2> QED BY <2>2
<1>3. Direct!Init
  BY <1>1, <1>2 DEF Direct!Init, Asked, Alive
<1>4. LeftInv
  BY <1>1 DEF LeftInv, Done, Last, Waiting
<1>5. NumberInv
  BY <1>1, LayoutAssumption DEF NumberInv, InCall
<1> QED BY <1>3, <1>4, <1>5

\* The safety half of IsDirect: an application whose calls agree on both sides
\* cannot tell the FIFO from calling the host.  Each call the host takes out of
\* mfifo is the oldest that has not run and comes with its own data, and a trap
\* returns only when all have run; processes may die anywhere but inside their
\* own DLL_PROCESS_DETACH, and the next one takes their calls over or drops them.
THEOREM FifoIsDirect ==
  ASSUME Disciplined, DiesInDetach = FALSE
  PROVE  Spec => Direct!Init /\ [][Direct!Next]_(Direct!vars)
<1> DEFINE DInv == Kept /\ LeftInv /\ NumberInv
<1>1. Init => DInv /\ Direct!Init
  BY KeptInit, DirectInit
<1>2. DInv /\ [Next]_vars => DInv'
  BY KeptStep, LeftStep, NumberStep
<1>3. DInv /\ [Next]_vars => [Direct!Next]_(Direct!vars)
  BY KeptStep, DirectStep
<1> HIDE DEF DInv
<1> QED BY <1>1, <1>2, <1>3, PTL DEF Spec
=============================================================================
