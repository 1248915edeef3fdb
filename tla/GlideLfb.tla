------------------------------ MODULE GlideLfb ------------------------------
(***************************************************************************)
(* The linear frame buffer of Glide: grLfbLock and grLfbUnlock of          *)
(* wrappers/3dfx/src/glidedll.c and hw/3dfx/glidept_mm.c.                  *)
(*                                                                         *)
(* A locked buffer reaches the program in one of three ways.  Its accesses *)
(* may trap and be carried out on the host's buffer one by one (LfbHandler)*)
(* or the host's pages may become pages of the guest (LfbMapBufo), or the  *)
(* program works on a copy in shared memory: one for front and back buffer *)
(* and one for the aux buffer.  A lock fetches the copy unless it is known *)
(* to be good (lfb_dirty), an unlock of a buffer locked for writing puts   *)
(* it back.  The copy is always the whole buffer, so a stale one undoes    *)
(* what was drawn, and with LfbWriteMerge it is put back only at the swap. *)
(*                                                                         *)
(* Which shortcuts are safe depends on the program, hence the options.     *)
(* The programs considered for each choice of options are Uses.            *)
(***************************************************************************)
EXTENDS Integers

CONSTANTS
  Pixels,     \* of a buffer
  Uses,       \* the options, and what the program does: see Use
  MaxSteps    \* bound: pixels written by drawing and through locks, locks refused

Front == 0
Back == 1
Aux == 2
Buffers == {Front, Back, Aux}
NoBuf == -1
Reading == 0   \* the kinds of lock
Writing == 1
Kinds == {Reading, Writing}
Areas == {"colour", "aux"}

Use == [lfbHandler : BOOLEAN, mapBufo : BOOLEAN, noAux : BOOLEAN, lockDirty : BOOLEAN,
        merge : BOOLEAN,
        redraws : BOOLEAN,  \* the program draws after it has locked a buffer in this frame
        both : BOOLEAN,     \* it may lock a buffer for reading and for writing at once
        swaps : BOOLEAN,    \* it may swap with the back buffer locked for writing
        refused : BOOLEAN]  \* the host's library may refuse a lock

ASSUME UseAssumption == Uses \subseteq Use /\ MaxSteps \in Nat

VARIABLES
  use,                       \* the options and the program
  host,                      \* the host's buffers
  glfb,                      \* the copies in shared memory
  queue,                     \* draws in the FIFO, to the back buffer
  lock, lfbPtr, grBuffer,    \* the device
  lfb_dirty,                 \* bits: fetch at the next lock (0x01), put back at the swap (0x80)
  mbufo, kvm,                \* pages mapped for each kind of lock, and the regions standing
  held,                      \* the program: what it has locked for reading and for writing
  locked,                    \* it has locked a buffer since the last swap
  truth,                     \* what the buffers would hold on a real board, 0 where undefined
  steps

device == <<lock, lfbPtr, grBuffer, lfb_dirty, mbufo, kvm>>
vars == <<use, host, glfb, queue, device, held, locked, truth, steps>>

Picture == [Pixels -> 0 .. MaxSteps]
Blank == [p \in Pixels |-> 0]

\* The device knows the locks there are, and no pages stand without one.
LocksKnown ==
  /\ \A x \in Kinds : lock[x] <=> held[x] # NoBuf
  /\ \A r \in kvm : \E x \in Kinds : held[x] = r.buffer

TypeOK ==
  /\ use \in Use
  /\ host \in [Buffers -> Picture] /\ truth \in [Buffers -> Picture]
  /\ glfb \in [Areas -> Picture] /\ queue \in Picture
  /\ lock \in [Kinds -> BOOLEAN] /\ lfbPtr \in [Kinds -> Buffers \cup {NoBuf}]
  /\ grBuffer \in Buffers /\ lfb_dirty \subseteq {"fetch", "merge"}
  /\ mbufo \in [Kinds -> Buffers \cup {NoBuf}]
  /\ kvm \subseteq [buffer : Buffers, readonly : BOOLEAN]
  /\ held \in [Kinds -> Buffers \cup {NoBuf}]
  /\ locked \in BOOLEAN /\ steps \in 0 .. MaxSteps
  /\ ~use.refused => LocksKnown

Init ==
  /\ use \in Uses
  /\ host = [b \in Buffers |-> Blank] /\ truth = host
  /\ glfb = [a \in Areas |-> Blank] /\ queue = Blank
  /\ lock = [x \in Kinds |-> FALSE] /\ lfbPtr = [x \in Kinds |-> NoBuf]
  /\ grBuffer = Back /\ lfb_dirty = {"fetch"}
  /\ mbufo = [x \in Kinds |-> NoBuf] /\ kvm = {}
  /\ held = [x \in Kinds |-> NoBuf] /\ locked = FALSE
  /\ steps = 0

-----------------------------------------------------------------------------
(* The options in force. *)

\* glide_mapbufo(0, 0): zero copy.
Mapped == use.mapBufo /\ ~use.lfbHandler /\ ~use.merge

\* glide_lfbmerge, glide_lfbdirty: neither with LfbMapBufo.
Merges == use.merge /\ ~use.mapBufo /\ ~use.lfbHandler
LockDirty == use.lockDirty /\ ~use.mapBufo

\* LfbNoAux: the host is not to touch the aux buffer, the program gets the copy.
Aside(b) == use.noAux /\ b = Aux

Area(b) == IF b = Aux THEN "aux" ELSE "colour"

-----------------------------------------------------------------------------
(* The device. *)

Over(picture, drawn) == [p \in Pixels |-> IF drawn[p] # 0 THEN drawn[p] ELSE picture[p]]

\* processFifo before the call that traps.
Drained == [host EXCEPT ![Back] = Over(@, queue)]

\* The copy of the buffer goes to where the last lock for writing pointed.
vgLfbFlush(h, area) ==
  IF Mapped \/ lfbPtr[Writing] = NoBuf THEN h ELSE [h EXCEPT ![lfbPtr[Writing]] = glfb[area]]

\* The fetched copy stays good although the buffer is drawn to before it is locked again.
WrongLockDirt(b) == IF grBuffer = b /\ ~Aside(b) THEN lfb_dirty ELSE {"fetch"}

\* lfb_dirty as the lock of b finds it.  A buffer locked aside is noted under a number
\* of its own (0x80 added), so no lock finds it to be the one locked last.
LockDirt(b) ==
  IF grBuffer = b /\ ~Aside(b) THEN lfb_dirty \cup (IF LockDirty THEN {"fetch"} ELSE {}) ELSE {"fetch"}

\* The pages of b for kind x; those of the other kind go if they are the same.
MapPages(x, b) ==
  LET shared == mbufo[1 - x] = b
      others == IF shared THEN {r \in kvm : r.buffer # b} ELSE kvm
  IN  /\ kvm' = others \cup {[buffer |-> b, readonly |-> x = Reading]}
      /\ mbufo' = [y \in Kinds |-> IF y = x THEN b ELSE IF shared THEN NoBuf ELSE mbufo[y]]

\* The pages stay when the lock that brought them goes.
WrongUnmapPages(x) ==
  /\ kvm' = kvm
  /\ mbufo' = IF Mapped THEN [mbufo EXCEPT ![x] = NoBuf] ELSE mbufo

UnmapPages(x) ==
  /\ kvm' = IF Mapped THEN {r \in kvm : r.buffer # mbufo[x]} ELSE kvm
  /\ mbufo' = IF Mapped THEN [mbufo EXCEPT ![x] = NoBuf] ELSE mbufo

\* The copy is fetched unless it is good.
Fetch(b, dirt, h) ==
  IF "fetch" \in dirt
  THEN glfb' = [glfb EXCEPT ![Area(b)] = h[b]] /\ lfb_dirty' = {}
  ELSE glfb' = glfb /\ lfb_dirty' = dirt

\* processArgs, the call and processFRet of grLfbLock.  A refused lock leaves the
\* same traces in the device, with the pointer of the lock before.
Locked(x, b) ==
  /\ host' = Drained /\ queue' = Blank
  /\ lock' = [lock EXCEPT ![x] = TRUE] /\ grBuffer' = b
  /\ IF use.lfbHandler \/ Aside(b)
     THEN /\ lfb_dirty' = LockDirt(b)
          /\ UNCHANGED <<glfb, kvm>>
          /\ mbufo' = IF use.lfbHandler THEN mbufo ELSE [mbufo EXCEPT ![x] = b]
     ELSE IF Mapped
     THEN MapPages(x, b) /\ glfb' = glfb /\ lfb_dirty' = LockDirt(b)
     ELSE /\ Fetch(b, LockDirt(b), Drained)
          /\ mbufo' = [mbufo EXCEPT ![x] = b] /\ kvm' = kvm

\* What is kept for the swap is not noted to be.
WrongPutBack(x, b) ==
  IF use.lfbHandler \/ x # Writing \/ Aside(b) THEN host' = Drained /\ lfb_dirty' = lfb_dirty
  ELSE IF Merges /\ b = Back THEN host' = Drained /\ lfb_dirty' = {"fetch"}
  ELSE host' = vgLfbFlush(Drained, Area(b)) /\ lfb_dirty' = {"fetch"}

\* processArgs: a buffer locked for writing is put back, or kept for the swap.
PutBack(x, b) ==
  IF use.lfbHandler \/ x # Writing \/ Aside(b) THEN host' = Drained /\ lfb_dirty' = lfb_dirty
  ELSE IF Merges /\ b = Back THEN host' = Drained /\ lfb_dirty' = {"merge"}
  ELSE host' = vgLfbFlush(Drained, Area(b)) /\ lfb_dirty' = {"fetch"}

\* What grBufferSwap puts back before the host swaps.
Presented ==
  LET flushed == IF lock[Writing] /\ grBuffer # Aux THEN vgLfbFlush(Drained, "colour") ELSE Drained
  IN  IF use.lfbHandler THEN Drained
      ELSE IF "merge" \in lfb_dirty THEN [flushed EXCEPT ![Back] = glfb["colour"]]
      ELSE flushed

-----------------------------------------------------------------------------
(* The program. *)

NothingHeld == \A x \in Kinds : held[x] = NoBuf

\* Drawing to a buffer that is locked is not allowed; and only a program that has
\* done its drawing is given LfbWriteMerge, or the copy without LfbLockDirty.
MayDraw ==
  /\ steps < MaxSteps /\ NothingHeld
  /\ use.redraws \/ ~locked

Draw(p) ==
  /\ MayDraw /\ steps' = steps + 1
  /\ queue' = [queue EXCEPT ![p] = steps']
  /\ truth' = [truth EXCEPT ![Back][p] = steps']
  /\ UNCHANGED <<use, host, glfb, device, held, locked>>

\* grLfbWriteRegion traps; the host writes its buffer.
WriteRegion(b, p) ==
  /\ MayDraw /\ steps' = steps + 1
  /\ host' = [Drained EXCEPT ![b][p] = steps'] /\ queue' = Blank
  /\ truth' = [truth EXCEPT ![b][p] = steps']
  /\ UNCHANGED <<use, glfb, device, held, locked>>

LfbLock(x, b) ==
  /\ held[x] = NoBuf
  /\ held[1 - x] = NoBuf \/ (use.both /\ held[1 - x] = b)
  /\ use.merge => b = Back
  /\ Locked(x, b)
  /\ lfbPtr' = [lfbPtr EXCEPT ![x] = b]
  /\ held' = [held EXCEPT ![x] = b] /\ locked' = TRUE
  /\ UNCHANGED <<use, truth, steps>>

LfbRefused(x, b) ==
  /\ use.refused /\ held[x] = NoBuf /\ held[1 - x] = NoBuf
  /\ Locked(x, b)
  /\ steps < MaxSteps /\ steps' = steps + 1
  /\ UNCHANGED <<use, lfbPtr, held, locked, truth>>

LfbUnlock(x) ==
  /\ held[x] # NoBuf
  /\ PutBack(x, held[x]) /\ queue' = Blank
  /\ UnmapPages(x)
  /\ lock' = [lock EXCEPT ![x] = FALSE]
  /\ held' = [held EXCEPT ![x] = NoBuf]
  /\ UNCHANGED <<use, glfb, lfbPtr, grBuffer, locked, truth, steps>>

\* A store through the pointer of the lock for writing: it traps, or it goes to
\* the copy, or to the host's pages if they are there and may be written.
LfbWrite(p) ==
  LET b == held[Writing]
  IN  /\ b # NoBuf /\ ~Aside(b) /\ steps < MaxSteps /\ steps' = steps + 1
      /\ truth' = [truth EXCEPT ![b][p] = steps']
      /\ IF use.lfbHandler THEN host' = [host EXCEPT ![lfbPtr[Writing]][p] = steps'] /\ glfb' = glfb
         ELSE IF Mapped
         THEN /\ host' = IF [buffer |-> b, readonly |-> FALSE] \in kvm
                         THEN [host EXCEPT ![b][p] = steps'] ELSE host
              /\ glfb' = glfb
         ELSE glfb' = [glfb EXCEPT ![Area(b)][p] = steps'] /\ host' = host
      /\ UNCHANGED <<use, queue, device, held, locked>>

\* What the back buffer holds after a swap is undefined.
BufferSwap ==
  /\ held[Reading] = NoBuf
  /\ held[Writing] = NoBuf \/ (use.swaps /\ held[Writing] = Back)
  /\ host' = [Presented EXCEPT ![Front] = Presented[Back], ![Back] = Presented[Front]]
  /\ queue' = Blank
  /\ lfb_dirty' = IF use.lfbHandler THEN lfb_dirty ELSE {"fetch"}
  /\ truth' = [truth EXCEPT ![Front] = truth[Back], ![Back] = Blank]
  /\ locked' = (held[Writing] # NoBuf)
  /\ UNCHANGED <<use, glfb, lock, lfbPtr, grBuffer, mbufo, kvm, held, steps>>

\* grGlideInit, of a program that opens its window next.
GlideInit ==
  /\ lock' = [x \in Kinds |-> FALSE] /\ lfbPtr' = [x \in Kinds |-> NoBuf] /\ grBuffer' = Back

\* grSstWinOpen, with the window open before closed: the buffers are new, the
\* copy of the aux buffer is cleared.
SstWinOpen ==
  /\ NothingHeld
  /\ GlideInit \/ UNCHANGED <<lock, lfbPtr, grBuffer>>
  /\ host' = [b \in Buffers |-> Blank] /\ truth' = host' /\ queue' = Blank
  /\ IF use.lfbHandler THEN UNCHANGED <<glfb, lfb_dirty>>
     ELSE glfb' = [glfb EXCEPT !["aux"] = Blank] /\ lfb_dirty' = {"fetch"}
  /\ locked' = FALSE
  /\ UNCHANGED <<use, mbufo, kvm, held, steps>>

Next ==
  \/ \E p \in Pixels : Draw(p) \/ LfbWrite(p)
  \/ \E b \in Buffers, p \in Pixels : WriteRegion(b, p)
  \/ \E x \in Kinds, b \in Buffers : LfbLock(x, b) \/ LfbRefused(x, b)
  \/ \E x \in Kinds : LfbUnlock(x)
  \/ BufferSwap \/ SstWinOpen

Spec == Init /\ [][Next]_vars

-----------------------------------------------------------------------------
(* Properties. *)

\* What the options need of the program.  Nothing if its accesses are carried out
\* one by one; zero copy: that it holds one lock at a time.  A copy is never to be
\* given by a refused lock; a program that draws after a lock, or gives up the
\* buffer and takes it again, needs it fetched at every lock, and one that locks for
\* reading and for writing at once, or has it put back at the swap, must not.
Safe(u) ==
  \/ u.lfbHandler
  \/ u.mapBufo /\ ~u.merge /\ ~u.both
  \/ /\ ~u.refused
     /\ u.mapBufo => u.merge
     /\ IF u.lockDirty /\ ~u.mapBufo THEN ~u.both /\ ~u.merge
        ELSE ~u.redraws /\ ~(u.both /\ u.swaps)

Agrees(seen, b) == \A p \in Pixels : truth[b][p] \in {0, seen[p]}

\* Whatever was drawn and whatever was written through locks, and in whatever
\* order, ends up in the buffer: no copy put back takes away what was drawn since
\* it was fetched, and nothing written to a copy is forgotten, up to and
\* including the swap that shows the picture.
FrameTrue ==
  \A b \in Buffers :
    ~Aside(b) /\ held[Reading] # b /\ held[Writing] # b /\ ~(b = Back /\ "merge" \in lfb_dirty)
      => Agrees((IF b = Back THEN Over(host[b], queue) ELSE host[b]), b)

\* Where the program finds the buffer it has locked for reading.
Seen(b) ==
  IF use.lfbHandler THEN host[lfbPtr[Reading]]
  ELSE IF Mapped THEN host[b]
  ELSE glfb[Area(b)]

\* A program that has locked a buffer for reading sees what the buffer holds, what
\* it drew before and what it writes under a lock of its own included; and the
\* pages it sees it through are there.
ReadsTrue ==
  LET b == held[Reading]
  IN  b # NoBuf /\ ~Aside(b) =>
        /\ Agrees(Seen(b), b)
        /\ Mapped => \E r \in kvm : r.buffer = b
=============================================================================
