------------------------------ MODULE CallFifo ------------------------------
(***************************************************************************)
(* The shared call FIFO between the guest's opengl32 wrapper               *)
(* (wrappers/mesa/src/wrapgl32.c) and the host device                      *)
(* (qemu-1/hw/mesa/mesapt_mm.c).                                           *)
(*                                                                         *)
(* Guest and host share one RAM region.  Its first part holds queued calls *)
(* (function number, then the arguments), its second part the data those   *)
(* calls point at, back to back in call order.  Nothing in the stream says *)
(* how long an entry is: the guest advances by what it pushed and the host *)
(* by what its own tables say the call takes.  The host looks at the FIFO  *)
(* only when a register write traps into it.                               *)
(*                                                                         *)
(* The guest's vCPU stands still while the host handles a trap, so a guest *)
(* action is enabled only when the host is ready.  The process is pinned   *)
(* to one vCPU (mglSetAffinity), so the only interleavings inside the      *)
(* guest are a second thread of the process (the window's hook) and death  *)
(* of the process.                                                         *)
(***************************************************************************)
EXTENDS Integers, Sequences

CONSTANTS
  Calls,        \* the OpenGL functions, with their data already fixed
  Args,         \* Args[c]: argument words the guest queues for c
  HostArgs,     \* HostArgs[c]: argument words the host skips (GLFEnumArgsCnt)
  Pushed,       \* Pushed[c]: data words the guest adds for c, padding included
  Taken,        \* Taken[c]: data words the host advances over for c
  Sync,         \* the calls that always trap, because they return something
  Unconditional, \* those of them the host runs without a current context too
  Draws,        \* the calls that go through PrepVertexArray
  Uploads,      \* the calls made by mapped_upload_queue
  FirstFifo,    \* FIRST_FIFO
  MaxFifo,      \* MAX_FIFO, also where the data area starts
  MaxData,      \* MAX_DATA
  DataTop,      \* words from the start of the data area to the answer pages
  MaxCalls,     \* bound: how many calls a behaviour makes
  MaxRefs,      \* bound: how high the library's reference count goes
  StrayCalls,   \* the calls the application makes without a current context too
  HostMayFail,  \* may the host fail to load, create or make current?
  RenderThreadOwnsWindow, \* is the hook run only between calls?
  DiesInDetach  \* may a process die inside its own DLL_PROCESS_DETACH?

ASSUME CallsAssumption ==
  /\ Args \in [Calls -> Nat]
  /\ HostArgs \in [Calls -> Nat]
  /\ Pushed \in [Calls -> Nat]
  /\ Taken \in [Calls -> Nat]
  /\ Sync \subseteq Calls /\ Unconditional \subseteq Sync
  /\ Draws \subseteq Calls
  /\ Uploads \subseteq Calls

\* fifoAddData keeps mdata[0] even, so what a call pushes is even.
ASSUME PaddingAssumption == \A c \in Calls : Pushed[c] % 2 = 0

ASSUME LayoutAssumption ==
  /\ FirstFifo \in Nat /\ MaxFifo \in Nat /\ FirstFifo < MaxFifo
  /\ MaxData \in Nat /\ DataTop \in Nat /\ 2 < MaxData /\ MaxData <= DataTop
  /\ MaxCalls \in Nat /\ MaxRefs \in Nat

ASSUME ModeAssumption ==
  /\ StrayCalls \subseteq Calls
  /\ HostMayFail \in BOOLEAN
  /\ RenderThreadOwnsWindow \in BOOLEAN
  /\ DiesInDetach \in BOOLEAN

DataStart == 2          \* ALIGNED(1) >> 2: mdata[0] and mdata[1] are not data
NoCall == "none"        \* not a member of Calls in any instance
Nobody == 0             \* owner of a data word nobody has written
-----------------------------------------------------------------------------
VARIABLES
  \* The shared memory.
  fifo0,        \* mfifo[0]: index of the next free FIFO word
  mfifo,        \* the FIFO words, as what the guest stored there
  data0,        \* mdata[0]: index of the next free data word
  mdata,        \* the data words, as the serial number of the call they belong to
  warm,         \* mfifo[1] holds the trap address: a process set the FIFO up
  refs,         \* mdata[1]: the library's reference count
  \* The guest process.
  gpc,          \* where its render thread is
  gcall,        \* the call it is making
  gj,           \* the local j of fifoAddEntry and fifoAddData
  gleft,        \* data words still to be added
  todo,         \* register writes left to do in the current wgl function
  currPixFmt,   \* a pixel format is set
  currDC,       \* a context has been created
  currGLRC,     \* a context is current, as far as the wrapper knows
  hooked,       \* the WM_ACTIVATE hook is installed
  \* The host device.
  hpc,          \* ready, in processFifo's loop, past it, or done with the call
  trap,         \* the register write it handles
  hi,           \* processFifo's i
  hj,           \* processFifo's j
  mglContext,
  mglCntxCurrent,
  \* History: what the application did and what the host made of it.
  serial,       \* calls begun
  sent,         \* calls handed over: serial, function, where entry and data lie
  run           \* calls run: serial, function, owners of the data words read

shared == <<fifo0, mfifo, data0, mdata, warm, refs>>
render == <<gpc, gcall, gj, gleft>>
session == <<currPixFmt, currDC, currGLRC, hooked>>
guest == <<render, todo, session>>
context == <<mglContext, mglCntxCurrent>>
drain == <<hpc, trap, hi, hj>>
history == <<serial, sent, run>>
vars == <<shared, guest, context, drain, history>>

FifoIdx == FirstFifo .. (MaxFifo - 1)
DataIdx == DataStart .. (DataTop - 1)

\* A FIFO word: word k of the entry of the call with serial number n.
Word == [n : Nat, k : Nat, c : Calls \cup {NoCall}]
Blank == [n |-> 0, k |-> 0, c |-> NoCall]

\* The register writes that matter here.  "swap" stands for every MAGIC
\* register that leaves the context alone (0xFF0, 0xFEC, 0xFE8, 0xFE0, 0xFDC),
\* "attribs" for 0xFDC's wglCreateContextAttribsARB of a context that shares
\* with none, "flush" for FIFO_FLUSH's 0x0FC, "unload" for 0xFBC with 0xD0320.
Ops == {"call", "flush", "swap", "activate", "create", "attribs", "bind",
        "unbind", "delete", "format", "unload"}

RegOps == {"create", "unbind", "delete", "bind", "format", "unload"}

Current == mglContext /\ mglCntxCurrent

\* The render thread is inside an OpenGL function.
InCall == gpc \in {"prep", "data", "copy", "entry"}

TypeShared ==
  /\ fifo0 \in FifoIdx /\ data0 \in Nat /\ refs \in Nat
  /\ mfifo \in [FifoIdx -> Word]
  /\ mdata \in [DataIdx -> Nat]
  /\ warm \in BOOLEAN

TypeGuest ==
  /\ gpc \in {"gone", "idle", "prep", "data", "copy", "entry", "regs", "clear"}
  /\ gcall \in Calls \cup {NoCall}
  /\ InCall => gcall \in Calls
  /\ gj \in Nat /\ gleft \in Nat
  /\ gpc = "entry" => gj \in FifoIdx /\ gj + Args[gcall] + 1 \in FifoIdx
  /\ todo \subseteq RegOps
  /\ currPixFmt \in BOOLEAN /\ currDC \in BOOLEAN /\ currGLRC \in BOOLEAN
  /\ hooked \in BOOLEAN

TypeHost ==
  /\ hpc \in {"ready", "drain", "act", "ret"}
  /\ trap \in Ops
  /\ hi \in Nat /\ FirstFifo <= hi /\ hj \in Nat
  /\ mglContext \in BOOLEAN /\ mglCntxCurrent \in BOOLEAN

TypeHistory ==
  /\ serial \in Nat
  /\ sent \in Seq([n : Nat, c : Calls, at : Nat, dat : Int])
  /\ run \in Seq([n : Nat, c : Calls \cup {NoCall}, data : SUBSET Nat])

TypeOK == TypeShared /\ TypeGuest /\ TypeHost /\ TypeHistory

\* The first process has loaded the wrapper, which found mfifo[1] clear.
Init ==
  /\ fifo0 = FirstFifo /\ mfifo = [x \in FifoIdx |-> Blank]
  /\ data0 = DataStart /\ mdata = [x \in DataIdx |-> Nobody]
  /\ warm = TRUE /\ refs = 1
  /\ gpc = "idle" /\ gcall = NoCall /\ gj = 0 /\ gleft = 0 /\ todo = {}
  /\ currPixFmt = FALSE /\ currDC = FALSE /\ currGLRC = FALSE /\ hooked = TRUE
  /\ hpc = "ready" /\ trap = "swap" /\ hi = FirstFifo /\ hj = DataStart
  /\ mglContext = FALSE /\ mglCntxCurrent = FALSE
  /\ serial = 0 /\ sent = <<>> /\ run = <<>>
-----------------------------------------------------------------------------
\* Definitions named Wrong... are faults put into the model on purpose, one for
\* each property, to see that the property notices.

\* Only calls and flushes drain the FIFO.
WrongTrap(op) ==
  /\ hpc = "ready"
  /\ hpc' = IF Current /\ op \in {"call", "flush"} THEN "drain" ELSE "act"
  /\ trap' = op
  /\ hi' = FirstFifo
  /\ hj' = DataStart

\* mesapt_write up to its switch: with a current context the FIFO is drained
\* first; without one a call is dropped, unless it is glDebugMessageInsertARB, and
\* a MAGIC write is just acted on.
\* The DLL register is not a MAGIC write and drains nothing.
Trap(op) ==
  /\ hpc = "ready"
  /\ hpc' = IF op # "unload" /\ (Current \/ (op = "call" /\ gcall \in Unconditional))
            THEN "drain" ELSE "act"
  /\ trap' = op
  /\ hi' = FirstFifo
  /\ hj' = DataStart

\* Success and failure of the host: its window system, its OpenGL library.
Outcome == IF HostMayFail THEN BOOLEAN ELSE {TRUE}

\* The entry of the call that gcall is, as sent records it.
Entry(at) == [n |-> serial, c |-> gcall, at |-> at, dat |-> data0 - Pushed[gcall]]

(* ---- The render thread makes a call. ---------------------------------- *)

\* The application calls an OpenGL function.
BeginCall(c) ==
  /\ hpc = "ready" /\ gpc = "idle"
  /\ currGLRC \/ c \in StrayCalls
  /\ serial < MaxCalls
  /\ serial' = serial + 1
  /\ gcall' = c
  /\ gleft' = Pushed[c]
  /\ gpc' = "prep"
  /\ UNCHANGED <<shared, gj, todo, session, context, drain, sent, run>>

\* mapped_upload_queue makes room in the data area only.
WrongWouldOverflow ==
  gcall \in Draws \cup Uploads /\ data0 + Pushed[gcall] >= MaxData

\* The room a call makes for itself before it adds its data: PrepVertexArray
\* looks at the data area, mapped_upload_queue at both, every other call at
\* neither.
WouldOverflow ==
  \/ gcall \in Draws \cup Uploads /\ data0 + Pushed[gcall] >= MaxData
  \/ gcall \in Uploads /\ fifo0 + Args[gcall] + 1 >= MaxFifo

PrepFlush ==
  /\ gpc = "prep" /\ WouldOverflow
  /\ Trap("flush")
  /\ gpc' = "data"
  /\ UNCHANGED <<shared, gcall, gj, gleft, todo, session, context, history>>

PrepNoFlush ==
  /\ hpc = "ready" /\ gpc = "prep" /\ ~WouldOverflow
  /\ gpc' = "data"
  /\ UNCHANGED <<shared, gcall, gj, gleft, todo, session, context, drain, history>>

\* fifoAddData reads mdata[0] into its local j ...
fifoAddData_Read ==
  /\ hpc = "ready" /\ gpc = "data" /\ gleft > 0
  /\ gj' = data0
  /\ gpc' = "copy"
  /\ UNCHANGED <<shared, gcall, gleft, todo, session, context, drain, history>>

\* ... and from it moves mdata[0] and copies the words.  n counts the words of
\* one chunk with its padding; a draw adds one chunk per array.
fifoAddData_Copy(n) ==
  /\ hpc = "ready" /\ gpc = "copy"
  /\ n <= gleft /\ n % 2 = 0
  /\ data0' = gj + n
  /\ mdata' = [x \in DataIdx |-> IF x \in gj .. (gj + n - 1) THEN serial ELSE mdata[x]]
  /\ gleft' = gleft - n
  /\ gpc' = "data"
  /\ UNCHANGED <<fifo0, mfifo, warm, refs, gcall, gj, todo, session, context, drain, history>>

\* The function number's own word is forgotten.
WrongFifoHasRoom == fifo0 + Args[gcall] < MaxFifo /\ data0 < MaxData

\* FIFO_GLFUNC's test, made after the data has been added.
FifoHasRoom == fifo0 + Args[gcall] + 1 < MaxFifo /\ data0 < MaxData

\* fifoAddEntry reads mfifo[0] into its local j ...
fifoAddEntry_Read ==
  /\ hpc = "ready" /\ gpc = "data" /\ gleft = 0
  /\ gcall \notin Sync /\ FifoHasRoom
  /\ gj' = fifo0
  /\ gpc' = "entry"
  /\ UNCHANGED <<shared, gcall, gleft, todo, session, context, drain, history>>

\* ... stores function and arguments there and then moves mfifo[0].
fifoAddEntry_Store ==
  /\ hpc = "ready" /\ gpc = "entry"
  /\ mfifo' = [x \in FifoIdx |->
                 IF x \in gj .. (gj + Args[gcall])
                   THEN [n |-> serial, k |-> x - gj, c |-> gcall] ELSE mfifo[x]]
  /\ fifo0' = gj + Args[gcall] + 1
  /\ sent' = Append(sent, Entry(gj))
  /\ gpc' = "idle"
  /\ UNCHANGED <<data0, mdata, warm, refs, gcall, gj, gleft, todo, session, context, drain, serial, run>>

\* *pt0 = func: the call has an answer, or there is no room for it.
TrapCall ==
  /\ gpc = "data" /\ gleft = 0
  /\ gcall \in Sync \/ ~FifoHasRoom
  /\ Trap("call")
  /\ sent' = IF Current \/ gcall \in Unconditional THEN Append(sent, Entry(0)) ELSE sent
  /\ gpc' = "idle"
  /\ UNCHANGED <<shared, gcall, gj, gleft, todo, session, context, serial, run>>

(* ---- The wgl functions. ------------------------------------------------ *)

\* wglSwapBuffers, wglChoosePixelFormat, mglGetProcAddress and the like.
SwapBuffers ==
  /\ gpc = "idle"
  /\ Trap("swap")
  /\ UNCHANGED <<shared, guest, context, history>>

\* The order in which a wgl function makes its register writes.
Rank == [create |-> 1, unbind |-> 2, delete |-> 3, bind |-> 4, format |-> 5, unload |-> 6]

\* One register write of the wgl function under way.
RegWrite(op) ==
  /\ gpc = "regs"
  /\ \A o \in todo : Rank[op] <= Rank[o]
  /\ Trap(op)
  /\ todo' = todo \ {op}
  /\ gpc' = IF todo # {op} THEN "regs" ELSE IF op = "unload" THEN "clear" ELSE "idle"
  /\ UNCHANGED <<shared, gcall, gj, gleft, session, context, history>>

\* A wgl function is its register writes; what it leaves in the wrapper's own
\* variables nobody reads before the last of them.
Writes(ops) ==
  /\ hpc = "ready" /\ gpc = "idle"
  /\ gpc' = "regs"
  /\ todo' = ops
  /\ UNCHANGED <<fifo0, mfifo, data0, mdata, gcall, gj, gleft, hooked, context, drain, history>>

\* What letting go of a current context writes.
Release == IF currGLRC THEN {"unbind", "delete"} ELSE {}

\* mglCreateContext
CreateContext ==
  /\ currPixFmt
  /\ Writes({"create"})
  /\ currDC' = TRUE
  /\ UNCHANGED <<warm, refs, currPixFmt, currGLRC>>

\* wglCreateContextAttribsARB without a context to share with; what it leaves in
\* the wrapper's variables depends on the answer.
CreateContextAttribs ==
  /\ gpc = "idle"
  /\ Trap("attribs")
  /\ UNCHANGED <<shared, guest, context, history>>

\* mglMakeCurrent of a context, which creates it when that has not been done.
MakeCurrent ==
  /\ currDC \/ currPixFmt
  /\ Writes(IF currDC THEN {"bind"} ELSE {"create", "bind"})
  /\ currDC' = TRUE
  /\ currGLRC' = TRUE
  /\ UNCHANGED <<warm, refs, currPixFmt>>

\* mglMakeCurrent(0, 0), which goes through the same creation.
MakeNothingCurrent ==
  /\ currDC \/ currPixFmt
  /\ Writes(IF currDC THEN {"unbind"} ELSE {"create", "unbind"})
  /\ currGLRC' = FALSE
  /\ UNCHANGED <<warm, refs, currPixFmt, currDC>>

\* mglDeleteContext does nothing for a context that is current.
DeleteContext ==
  /\ ~currGLRC
  /\ Writes({"delete"})
  /\ currDC' = FALSE
  /\ UNCHANGED <<warm, refs, currPixFmt, currGLRC>>

\* wglSetPixelFormat lets go of a current context first.
SetPixelFormat ==
  /\ Writes(Release \cup {"format"})
  /\ currGLRC' = FALSE
  /\ currDC' = (currDC /\ ~currGLRC)
  /\ UNCHANGED <<warm, refs, currPixFmt>>

(* ---- Loading, unloading and losing the wrapper. ------------------------ *)

\* Every process empties the FIFO, but not the data area.
WrongAttach ==
  /\ hpc = "ready" /\ gpc = "gone"
  /\ refs < MaxRefs
  /\ fifo0' = FirstFifo
  /\ data0' = IF warm THEN data0 ELSE DataStart
  /\ refs' = IF warm THEN refs + 1 ELSE 1
  /\ \E ok \in Outcome :
       /\ warm' = (warm \/ ok)
       /\ hooked' = (~warm /\ ok)
       /\ gpc' = IF warm \/ ok THEN "idle" ELSE "gone"
  /\ currPixFmt' = FALSE /\ currDC' = FALSE /\ currGLRC' = FALSE
  /\ sent' = IF warm \/ Len(run) >= Len(sent) THEN sent ELSE SubSeq(sent, 1, Len(run))
  /\ UNCHANGED <<mfifo, mdata, gcall, gj, gleft, todo, context, drain, serial, run>>

\* DllMain, DLL_PROCESS_ATTACH.  A FIFO some process has set up already is
\* taken over as it is, and the hook is then not installed; otherwise the FIFO
\* is emptied, and calls a dead process left in it are gone, even when the host
\* then refuses the library and the attach fails.
Attach ==
  /\ hpc = "ready" /\ gpc = "gone"
  /\ refs < MaxRefs
  /\ fifo0' = IF warm THEN fifo0 ELSE FirstFifo
  /\ data0' = IF warm THEN data0 ELSE DataStart
  /\ refs' = IF warm THEN refs + 1 ELSE 1
  /\ \E ok \in Outcome :
       /\ warm' = (warm \/ ok)
       /\ hooked' = (~warm /\ ok)
       /\ gpc' = IF warm \/ ok THEN "idle" ELSE "gone"
  /\ currPixFmt' = FALSE /\ currDC' = FALSE /\ currGLRC' = FALSE
  /\ sent' = IF warm \/ Len(run) >= Len(sent) THEN sent ELSE SubSeq(sent, 1, Len(run))
  /\ UNCHANGED <<mfifo, mdata, gcall, gj, gleft, todo, context, drain, serial, run>>

\* DllMain, DLL_PROCESS_DETACH with the last reference.
DetachLast ==
  /\ refs = 1
  /\ Writes(Release \cup {"unload"})
  /\ refs' = 0
  /\ currGLRC' = FALSE
  /\ currDC' = (currDC /\ ~currGLRC)
  /\ currPixFmt' = FALSE
  /\ UNCHANGED warm

\* ... which ends by clearing mfifo[1] and unmapping the FIFO.
DetachClear ==
  /\ hpc = "ready" /\ gpc = "clear"
  /\ warm' = FALSE
  /\ gpc' = "gone"
  /\ UNCHANGED <<fifo0, mfifo, data0, mdata, refs, gcall, gj, gleft, todo, session, context, drain, history>>

\* DLL_PROCESS_DETACH with references left over from processes that died: the
\* library goes without a word to the host.
DetachNotLast ==
  /\ hpc = "ready" /\ gpc = "idle"
  /\ refs > 1
  /\ refs' = refs - 1
  /\ gpc' = "gone"
  /\ UNCHANGED <<fifo0, mfifo, data0, mdata, warm, gcall, gj, gleft, todo, session, context, drain, history>>

\* The process dies without DllMain: terminated, or its machine reset.
Kill ==
  /\ hpc = "ready" /\ gpc # "gone"
  /\ DiesInDetach \/ refs > 0
  /\ gpc' = "gone"
  /\ todo' = {}
  /\ UNCHANGED <<shared, gcall, gj, gleft, session, context, drain, history>>

\* CallWndProc: WM_ACTIVATE reaches the hook of the thread that loaded the
\* wrapper.  That thread is between calls when it renders as well; when
\* another thread renders, that one can be anywhere.
\* GLwnd outlives the context, but then the host has nothing to drain.
Activate ==
  /\ hooked /\ currDC
  /\ gpc # "gone"
  /\ RenderThreadOwnsWindow => gpc = "idle"
  /\ Trap("activate")
  /\ UNCHANGED <<shared, guest, context, history>>

(* ---- The host handles a trap. ------------------------------------------ *)

\* The owners of the words the host takes for a call at j.
Owners(j, words) == {mdata[x] : x \in (j .. (j + words - 1)) \cap DataIdx}

\* One pass of processFifo's loop over a word that is a function number.
processFifo_Entry ==
  /\ hpc = "drain" /\ hi < fifo0
  /\ mfifo[hi].k = 0 /\ mfifo[hi].c \in Calls
  /\ LET c == mfifo[hi].c
     IN  /\ run' = Append(run, [n |-> mfifo[hi].n, c |-> c, data |-> Owners(hj, Taken[c])])
         /\ hi' = hi + 1 + HostArgs[c]
         /\ hj' = hj + Taken[c]
  /\ UNCHANGED <<shared, guest, context, hpc, trap, serial, sent>>

\* The same over a word that is an argument: it names any function at all.
processFifo_Misread ==
  /\ hpc = "drain" /\ hi < fifo0
  /\ ~ (mfifo[hi].k = 0 /\ mfifo[hi].c \in Calls)
  /\ \E c \in Calls :
       /\ run' = Append(run, [n |-> mfifo[hi].n, c |-> NoCall, data |-> Owners(hj, Taken[c])])
       /\ hi' = hi + 1 + HostArgs[c]
       /\ hj' = hj + Taken[c]
  /\ UNCHANGED <<shared, guest, context, hpc, trap, serial, sent>>

\* The loop tests i against mfifo[0] for equality.
WrongEnd ==
  /\ hpc = "drain" /\ hi = fifo0
  /\ fifo0' = FirstFifo
  /\ hpc' = "act"
  /\ UNCHANGED <<mfifo, data0, mdata, warm, refs, guest, context, trap, hi, hj, history>>

\* The end of processFifo.
processFifo_End ==
  /\ hpc = "drain" /\ hi >= fifo0
  /\ fifo0' = FirstFifo
  /\ hpc' = "act"
  /\ UNCHANGED <<mfifo, data0, mdata, warm, refs, guest, context, trap, hi, hj, history>>

\* The trapped call itself, its data behind that of the queued calls.  Without
\* a context it is dropped, and its data stays in the data area.
ActCall ==
  /\ hpc = "act" /\ trap = "call"
  /\ run' = IF Current \/ gcall \in Unconditional
              THEN Append(run, [n |-> serial, c |-> gcall, data |-> Owners(hj, Taken[gcall])])
              ELSE run
  /\ hpc' = "ret"
  /\ UNCHANGED <<shared, guest, context, trap, hi, hj, serial, sent>>

\* After the call the data area is declared empty, leak or no leak.
ActReturn ==
  /\ hpc = "ret"
  /\ data0' = IF Current \/ gcall \in Unconditional THEN DataStart ELSE data0
  /\ hpc' = "ready"
  /\ UNCHANGED <<fifo0, mfifo, mdata, warm, refs, guest, context, trap, hi, hj, history>>

\* The data area is not declared empty after a drain.
WrongPlain ==
  /\ hpc = "act" /\ trap \in {"flush", "swap", "activate", "unbind"}
  /\ hpc' = "ready"
  /\ UNCHANGED <<shared, guest, context, trap, hi, hj, history>>

\* A MAGIC write that leaves the context alone.
ActPlain ==
  /\ hpc = "act" /\ trap \in {"flush", "swap", "activate", "unbind"}
  /\ data0' = IF Current THEN DataStart ELSE data0
  /\ hpc' = "ready"
  /\ UNCHANGED <<fifo0, mfifo, mdata, warm, refs, guest, context, trap, hi, hj, history>>

\* 0xFFC: a context is created unless there is one.
ActCreate ==
  /\ hpc = "act" /\ trap = "create"
  /\ \E ok \in Outcome : mglContext' = (mglContext \/ ok)
  /\ data0' = IF Current THEN DataStart ELSE data0
  /\ hpc' = "ready"
  /\ UNCHANGED <<fifo0, mfifo, mdata, warm, refs, guest, mglCntxCurrent, trap, hi, hj, history>>

\* 0xFDC with wglCreateContextAttribsARB: a fresh context that is not current,
\* on both sides.
ActAttribs ==
  /\ hpc = "act" /\ trap = "attribs"
  /\ \E ok \in Outcome :
       /\ mglContext' = (mglContext \/ ok)
       /\ mglCntxCurrent' = (mglCntxCurrent /\ ~ok)
       /\ currDC' = (currDC \/ ok)
       /\ currGLRC' = (currGLRC /\ ~ok)
  /\ data0' = IF Current THEN DataStart ELSE data0
  /\ hpc' = "ready"
  /\ UNCHANGED <<fifo0, mfifo, mdata, warm, refs, render, todo, currPixFmt, hooked, trap, hi, hj, history>>

\* 0xFF8 with a context; one that is current already stays so.
ActBind ==
  /\ hpc = "act" /\ trap = "bind"
  /\ \E ok \in Outcome : mglCntxCurrent' = (mglCntxCurrent \/ (mglContext /\ ok))
  /\ data0' = IF Current THEN DataStart ELSE data0
  /\ hpc' = "ready"
  /\ UNCHANGED <<fifo0, mfifo, mdata, warm, refs, guest, mglContext, trap, hi, hj, history>>

\* 0xFF4: only a current context is taken down.
ActDelete ==
  /\ hpc = "act" /\ trap = "delete"
  /\ mglContext' = (mglContext /\ ~mglCntxCurrent)
  /\ mglCntxCurrent' = (mglCntxCurrent /\ ~mglContext)
  /\ data0' = IF Current THEN DataStart ELSE data0
  /\ hpc' = "ready"
  /\ UNCHANGED <<fifo0, mfifo, mdata, warm, refs, guest, trap, hi, hj, history>>

\* The reference count is lowered without a look at it.
WrongFormat ==
  /\ hpc = "act" /\ trap = "format"
  /\ \E ok \in Outcome : currPixFmt' = ok
  /\ \E longAgo \in BOOLEAN : refs' = IF longAgo THEN refs - 1 ELSE refs
  /\ data0' = IF Current THEN DataStart ELSE data0
  /\ hpc' = "ready"
  /\ UNCHANGED <<fifo0, mfifo, mdata, warm, render, todo, currDC, currGLRC, hooked, context, trap, hi, hj, history>>

\* 0xFE4: the wrapper's pixel format, and the reference of a process that died
\* long enough ago.
ActFormat ==
  /\ hpc = "act" /\ trap = "format"
  /\ \E ok \in Outcome : currPixFmt' = ok
  /\ \E longAgo \in BOOLEAN : refs' = IF longAgo /\ refs > 1 THEN refs - 1 ELSE refs
  /\ data0' = IF Current THEN DataStart ELSE data0
  /\ hpc' = "ready"
  /\ UNCHANGED <<fifo0, mfifo, mdata, warm, render, todo, currDC, currGLRC, hooked, context, trap, hi, hj, history>>

\* 0xFBC with 0xD0320: the context goes, but not the note that it is current.
ActUnload ==
  /\ hpc = "act" /\ trap = "unload"
  /\ mglContext' = FALSE
  /\ hpc' = "ready"
  /\ UNCHANGED <<shared, guest, mglCntxCurrent, trap, hi, hj, history>>
-----------------------------------------------------------------------------
MakeCall ==
  \/ \E c \in Calls : BeginCall(c)
  \/ PrepFlush
  \/ PrepNoFlush
  \/ fifoAddData_Read
  \/ \E n \in 1 .. gleft : fifoAddData_Copy(n)
  \/ fifoAddEntry_Read
  \/ fifoAddEntry_Store
  \/ TrapCall

Wgl ==
  \/ SwapBuffers
  \/ \E op \in todo : RegWrite(op)
  \/ CreateContext
  \/ CreateContextAttribs
  \/ MakeCurrent
  \/ MakeNothingCurrent
  \/ DeleteContext
  \/ SetPixelFormat

Process ==
  \/ Attach
  \/ DetachLast
  \/ DetachClear
  \/ DetachNotLast
  \/ Kill
  \/ Activate

Host ==
  \/ processFifo_Entry
  \/ processFifo_Misread
  \/ processFifo_End
  \/ ActCall
  \/ ActReturn
  \/ ActPlain
  \/ ActCreate
  \/ ActAttribs
  \/ ActBind
  \/ ActDelete
  \/ ActFormat
  \/ ActUnload

Next == MakeCall \/ Wgl \/ Process \/ Host

\* The host's vCPU thread runs a trap to its end; nothing makes the
\* application do anything.
Spec == Init /\ [][Next]_vars /\ WF_vars(Host)
-----------------------------------------------------------------------------
(* ---- Properties. -------------------------------------------------------- *)

\* Both sides know the same lengths for a call: nargs of FIFO_GLFUNC against
\* GLFEnumArgsCnt, the sizes given to fifoAddData against processArgs' datacb.
StreamAgrees == \A c \in Calls : HostArgs[c] = Args[c] /\ Taken[c] = Pushed[c]

\* The data a call carries, as the owners of its words.
Carried(n, c) == IF Pushed[c] = 0 THEN {} ELSE {n}

\* The host runs the application's calls in the order they were made, each
\* once, and reads for each call only data words that call has added: guest
\* and host never lose step in the two streams of the FIFO.
OwnData ==
  \A k \in 1 .. Len(run) :
    /\ k <= Len(sent)
    /\ run[k] = [n |-> sent[k].n, c |-> sent[k].c, data |-> Carried(sent[k].n, sent[k].c)]

\* By the time a trap is answered, every data word of every call handed over has
\* been taken; what is left over (the code's "FIFO data leak") belongs to calls
\* that a dead process never finished.
DataAllTaken ==
  hpc = "act" /\ Current /\ trap # "unload" =>
    LET end == hj + (IF trap = "call" THEN Taken[gcall] ELSE 0)
    IN  /\ end <= data0
        /\ \A x \in (end .. (data0 - 1)) \cap DataIdx :
             \A k \in 1 .. Len(sent) : mdata[x] # sent[k].n

\* Neither stream leaves its part of the shared memory: the FIFO words end
\* before the data area, the data words before the answer pages.
InArea == fifo0 < MaxFifo /\ data0 <= DataTop

\* A mapped upload "always fits once the FIFO is flushed" and is queued, never
\* a round trip: when its data is added the data area has the room, and it
\* does not end in a trapped call.
UploadFits ==
  gcall \in Uploads =>
    /\ hpc = "ready" /\ gpc \in {"data", "copy"} => data0 + gleft < MaxData
    /\ ~ (hpc # "ready" /\ trap = "call")

\* Whatever the host makes of the FIFO, even when it misreads it, the trap that
\* drains it ends: processFifo's loop cannot run on past the words it was given.
TrapReturns == hpc # "ready" ~> hpc = "ready"

\* wrapgl32.c of mapped uploads: "every range it hands back reaches the host as
\* a glBufferSubData queued in the FIFO, its bytes in the FIFO data area".  Once
\* a trap has drained the FIFO, each upload handed over has run with its bytes.
UploadArrives ==
  hpc = "act" /\ Current /\ trap \notin {"call", "unload"} =>
    \A k \in 1 .. Len(sent) :
      sent[k].c \in Uploads =>
        \E m \in 1 .. Len(run) :
          run[m] = [n |-> sent[k].n, c |-> sent[k].c, data |-> Carried(sent[k].n, sent[k].c)]

\* The calls handed over as DirectCalls sees them: what they are and the data they
\* carry, not where they lie.
Image(n, c) == [n |-> n, c |-> c, data |-> Carried(n, c)]
ImagesOf(q) == [k \in DOMAIN q |-> Image(q[k].n, q[k].c)]
Sent == ImagesOf(sent)
Callable == {Image(n, c) : n \in 1 .. MaxCalls, c \in Calls}

\* The application waits while the host handles a write that drains.
Asked == hpc # "ready" /\ trap # "unload"
Alive == gpc # "gone"

\* The FIFO keeps the promise of DirectCalls: an application cannot tell it
\* from calling the host directly.
Direct == INSTANCE DirectCalls WITH
            Call <- Callable, sent <- Sent, run <- run, asked <- Asked, alive <- Alive

IsDirect == Direct!Spec
-----------------------------------------------------------------------------
(* ---- The inductive invariant behind OwnData and InArea. ---------------- *)

\* What a call adds stays inside the data area when it starts from below
\* MAX_DATA; a draw or an upload fits into an empty one.
PushesFit ==
  \A c \in Calls :
    IF c \in Draws \cup Uploads THEN DataStart + Pushed[c] < MaxData
                               ELSE MaxData + Pushed[c] <= DataTop

\* The conditions under which the FIFO works.
Disciplined ==
  /\ StreamAgrees
  /\ PushesFit
  /\ StrayCalls = {}
  /\ HostMayFail = FALSE
  /\ RenderThreadOwnsWindow = TRUE

\* The host is handling op.
Handling(op) == hpc # "ready" /\ trap = op

\* The last call handed over is the trapped one, which has not run yet.
Waiting == hpc \in {"drain", "act"} /\ trap = "call" /\ Current

\* Calls Done + 1 .. Last are the ones in the FIFO.
Done == Len(run)
Last == IF Waiting THEN Len(sent) - 1 ELSE Len(sent)

\* Where the host's next entry and its data lie, and where the data ends.
FifoPos == IF hpc = "drain" THEN hi ELSE FirstFifo
DataPos == IF hpc \in {"drain", "act"} THEN hj ELSE DataStart
QueueEnd == IF Done < Last THEN sent[Last].dat + Pushed[sent[Last].c] ELSE DataPos

\* The entries and their data lie back to back from where the host will look.
QueueInv ==
  /\ Done <= Last
  /\ hpc \in {"act", "ret"} /\ trap # "unload" /\ Current => Done = Last
  /\ Done = Last => fifo0 = FifoPos
  /\ Done < Last => /\ sent[Done + 1].at = FifoPos
                   /\ sent[Done + 1].dat = DataPos
                   /\ sent[Last].at + 1 + Args[sent[Last].c] = fifo0
  /\ \A k \in (Done + 1) .. (Last - 1) :
       /\ sent[k + 1].at = sent[k].at + 1 + Args[sent[k].c]
       /\ sent[k + 1].dat = sent[k].dat + Pushed[sent[k].c]
  /\ DataStart <= QueueEnd /\ QueueEnd < MaxData
  /\ fifo0 < MaxFifo

\* Memory holds what was stored: nothing overwrites an entry or its data before
\* the host has read it.
MemoryInv ==
  \A k \in (Done + 1) .. Last :
    /\ FirstFifo <= sent[k].at
    /\ sent[k].at + 1 + Args[sent[k].c] <= fifo0
    /\ mfifo[sent[k].at] = [n |-> sent[k].n, k |-> 0, c |-> sent[k].c]
    /\ DataStart <= sent[k].dat
    /\ sent[k].dat + Pushed[sent[k].c] <= QueueEnd
    /\ \A x \in sent[k].dat .. (sent[k].dat + Pushed[sent[k].c] - 1) : mdata[x] = sent[k].n

\* The call under way: its data starts where that of the queue ends.
CallInv ==
  /\ InCall =>
       /\ gleft <= Pushed[gcall]
       /\ data0 = QueueEnd + Pushed[gcall] - gleft
       /\ \A x \in QueueEnd .. (data0 - 1) : mdata[x] = serial
       /\ gpc = "prep" => gleft = Pushed[gcall]
       /\ hpc = "ready" /\ gpc # "prep" => data0 + gleft <= DataTop
       /\ hpc # "ready" => gleft = Pushed[gcall] /\ DataStart + gleft <= DataTop
  /\ gpc = "copy" => gj = data0
  /\ gpc = "entry" => /\ gj = fifo0 /\ gleft = 0
                     /\ fifo0 + Args[gcall] + 1 < MaxFifo /\ data0 < MaxData
  /\ Waiting =>
       /\ gcall \in Calls
       /\ sent[Len(sent)].n = serial /\ sent[Len(sent)].c = gcall
       /\ data0 = QueueEnd + Pushed[gcall]
       /\ \A x \in QueueEnd .. (data0 - 1) : mdata[x] = serial
  /\ QueueEnd <= data0 \/ hpc = "ret"
  /\ data0 <= DataTop

\* Data of a call that a dead process never finished: only while the host still
\* has that process's context, and gone before the next one can make a call.
Orphaned == ~InCall /\ ~Waiting /\ hpc # "ret" /\ data0 # QueueEnd

OrphanInv ==
  Orphaned =>
    /\ Current /\ warm
    /\ IF gpc = "gone" THEN refs >= 1 ELSE refs >= 2
    /\ gpc = "idle" /\ hpc = "ready" => ~currGLRC

\* The wrapper's idea of its context, against the host's.
SessionInv ==
  /\ gpc = "regs" <=> todo # {}
  /\ hpc # "ready" =>
       /\ gpc # "gone"
       /\ InCall <=> trap = "flush"
       /\ InCall => gpc = "data"
       /\ trap \in {"call", "swap", "activate", "attribs"} => gpc = "idle"
       /\ trap = "unload" <=> gpc = "clear"
       /\ trap = "call" => Current /\ gcall \in Calls
  /\ hpc \in {"drain", "ret"} => Current /\ trap # "unload"
  /\ hpc = "ret" => trap = "call"
  /\ hpc = "act" /\ (~Current \/ trap = "unload") => hj = DataStart
  /\ gpc # "gone" =>
       /\ warm
       /\ IF "unload" \in todo \/ gpc = "clear" THEN refs = 0 /\ ~currGLRC ELSE refs >= 1
       /\ currGLRC => currDC /\ (Current \/ "bind" \in todo \/ Handling("bind"))
       /\ currDC /\ gpc # "clear" => mglContext \/ "create" \in todo \/ Handling("create")
       /\ "bind" \in todo \/ Handling("bind") => currGLRC
       /\ Handling("bind") => "create" \notin todo
       /\ "delete" \in todo \/ Handling("delete") => ~currDC
  /\ InCall => currGLRC

IInv == QueueInv /\ MemoryInv /\ CallInv /\ OrphanInv /\ SessionInv
=============================================================================
