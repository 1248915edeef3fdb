-------------------------- MODULE GlideLfb_proofs --------------------------
(***************************************************************************)
(* Proofs about the linear frame buffer of Glide: for any number of pixels *)
(* and of steps, and for every choice of the options with a program that   *)
(* meets what the choice needs (Safe), nothing drawn or written is lost,   *)
(* and what is read is the buffer.                                         *)
(***************************************************************************)
EXTENDS GlideLfb, TLAPS

-----------------------------------------------------------------------------
(* ---- Types. ------------------------------------------------------------- *)

\* TypeOK but for its last conjunct.
Typed ==
  /\ use \in Use
  /\ host \in [Buffers -> Picture] /\ truth \in [Buffers -> Picture]
  /\ glfb \in [Areas -> Picture] /\ queue \in Picture
  /\ lock \in [Kinds -> BOOLEAN] /\ lfbPtr \in [Kinds -> Buffers \cup {NoBuf}]
  /\ grBuffer \in Buffers /\ lfb_dirty \subseteq {"fetch", "merge"}
  /\ mbufo \in [Kinds -> Buffers \cup {NoBuf}]
  /\ kvm \subseteq [buffer : Buffers, readonly : BOOLEAN]
  /\ held \in [Kinds -> Buffers \cup {NoBuf}]
  /\ locked \in BOOLEAN /\ steps \in 0 .. MaxSteps

LEMMA PictureSet ==
  ASSUME NEW f \in Picture, NEW p \in Pixels, NEW n \in 0 .. MaxSteps
  PROVE  [f EXCEPT ![p] = n] \in Picture
BY DEF Picture

LEMMA PictureBlank == Blank \in Picture
BY UseAssumption DEF Picture, Blank

LEMMA OverType ==
  ASSUME NEW f \in Picture, NEW q \in Picture PROVE Over(f, q) \in Picture
BY DEF Picture, Over

\* A buffer as the queue leaves it, pixel by pixel.
LEMMA OverAt ==
  ASSUME NEW h \in [Buffers -> Picture], NEW q \in Picture
  PROVE  /\ [h EXCEPT ![Back] = Over(h[Back], q)] \in [Buffers -> Picture]
         /\ \A b \in Buffers, p \in Pixels :
              [h EXCEPT ![Back] = Over(h[Back], q)][b][p]
                = IF b = Back /\ q[p] # 0 THEN q[p] ELSE h[b][p]
<1>1. Over(h[Back], q) \in Picture
  BY OverType DEF Buffers
<1>2. \A p \in Pixels : Over(h[Back], q)[p] = IF q[p] # 0 THEN q[p] ELSE h[Back][p]
  BY DEF Over
<1> HIDE DEF Back
<1> QED BY <1>1, <1>2

LEMMA DrainedType == ASSUME Typed PROVE Drained \in [Buffers -> Picture]
BY OverAt DEF Typed, Drained

LEMMA FlushType ==
  ASSUME Typed, NEW h \in [Buffers -> Picture], NEW a \in Areas
  PROVE  vgLfbFlush(h, a) \in [Buffers -> Picture]
BY DEF Typed, vgLfbFlush, Kinds, Writing

LEMMA LockedType ==
  ASSUME Typed, NEW x \in Kinds, NEW b \in Buffers, Locked(x, b)
  PROVE  /\ host' \in [Buffers -> Picture] /\ queue' \in Picture
         /\ glfb' \in [Areas -> Picture]
         /\ lock' \in [Kinds -> BOOLEAN] /\ grBuffer' \in Buffers
         /\ lfb_dirty' \subseteq {"fetch", "merge"}
         /\ mbufo' \in [Kinds -> Buffers \cup {NoBuf}]
         /\ kvm' \subseteq [buffer : Buffers, readonly : BOOLEAN]
<1>1. host' \in [Buffers -> Picture] /\ queue' \in Picture
  BY DrainedType, PictureBlank DEF Locked
<1>2. lock' \in [Kinds -> BOOLEAN] /\ grBuffer' \in Buffers
  BY DEF Locked, Typed
<1>3. LockDirt(b) \subseteq {"fetch", "merge"}
  BY DEF LockDirt, Typed
<1>4. glfb' \in [Areas -> Picture] /\ lfb_dirty' \subseteq {"fetch", "merge"}
  <2>1. CASE Fetch(b, LockDirt(b), Drained)
    <3>1. Drained[b] \in Picture
      BY DrainedType
    <3> HIDE DEF Drained, LockDirt
    <3> QED BY <2>1, <3>1, <1>3 DEF Fetch, Typed
  <2>2. CASE glfb' = glfb /\ lfb_dirty' = LockDirt(b)
    BY <2>2, <1>3 DEF Typed
  <2> QED BY <2>1, <2>2 DEF Locked
<1>5. mbufo' \in [Kinds -> Buffers \cup {NoBuf}]
  BY DEF Locked, MapPages, Typed
<1>6. kvm' \subseteq [buffer : Buffers, readonly : BOOLEAN]
  <2>1. CASE MapPages(x, b)
    <3>1. [buffer |-> b, readonly |-> x = Reading] \in [buffer : Buffers, readonly : BOOLEAN]
      OBVIOUS
    <3> QED BY <2>1, <3>1 DEF MapPages, Typed
  <2> QED BY <2>1 DEF Locked, Typed
<1> QED BY <1>1, <1>2, <1>4, <1>5, <1>6

LEMMA PutBackType ==
  ASSUME Typed, NEW x \in Kinds, NEW b \in Buffers, PutBack(x, b)
  PROVE  /\ host' \in [Buffers -> Picture]
         /\ lfb_dirty' \subseteq {"fetch", "merge"}
<1>1. Area(b) \in Areas
  BY DEF Area, Areas
<1>2. vgLfbFlush(Drained, Area(b)) \in [Buffers -> Picture]
  BY <1>1, DrainedType, FlushType
<1> HIDE DEF Drained
<1> QED BY <1>2, DrainedType DEF PutBack, Typed

LEMMA PresentedType == ASSUME Typed PROVE Presented \in [Buffers -> Picture]
<1>1. vgLfbFlush(Drained, "colour") \in [Buffers -> Picture]
  BY DrainedType, FlushType DEF Areas
<1>2. glfb["colour"] \in Picture
  BY DEF Typed, Areas
<1> HIDE DEF Drained
<1> QED BY <1>1, <1>2, DrainedType DEF Presented

LEMMA TypedInit == ASSUME Init PROVE Typed
<1>1. /\ use \in Use /\ steps \in 0 .. MaxSteps
  BY UseAssumption DEF Init
<1>2. /\ host \in [Buffers -> Picture] /\ truth \in [Buffers -> Picture]
      /\ glfb \in [Areas -> Picture] /\ queue \in Picture
  BY PictureBlank DEF Init
<1> QED BY <1>1, <1>2 DEF Init, Typed, Buffers

\* A pixel of one buffer or copy is set.
LEMMA SetPixel ==
  ASSUME NEW S, NEW h \in [S -> Picture], NEW b \in S, NEW p \in Pixels, NEW n \in 0 .. MaxSteps
  PROVE  [h EXCEPT ![b][p] = n] \in [S -> Picture]
BY PictureSet

LEMMA TypedStep == ASSUME Typed, [Next]_vars PROVE Typed'
<1>s. ASSUME steps < MaxSteps, steps' = steps + 1 PROVE steps' \in 0 .. MaxSteps
  BY <1>s, UseAssumption DEF Typed
<1>b. Back \in Buffers /\ Front \in Buffers /\ Aux \in Buffers
  BY DEF Buffers
<1>1. ASSUME NEW p \in Pixels, Draw(p) PROVE Typed'
  <2>1. steps' \in 0 .. MaxSteps
    BY <1>1, <1>s DEF Draw, MayDraw
  <2>2. queue' \in Picture
    BY <1>1, <2>1, PictureSet DEF Draw, Typed
  <2>3. truth' \in [Buffers -> Picture]
    BY <1>1, <1>b, <2>1, SetPixel DEF Draw, Typed
  <2> QED BY <1>1, <2>1, <2>2, <2>3 DEF Draw, device, Typed
<1>2. ASSUME NEW b \in Buffers, NEW p \in Pixels, WriteRegion(b, p) PROVE Typed'
  <2>1. steps' \in 0 .. MaxSteps
    BY <1>2, <1>s DEF WriteRegion, MayDraw
  <2>2. host' \in [Buffers -> Picture]
    <3> HIDE DEF Drained
    <3> QED BY <1>2, <2>1, DrainedType, SetPixel DEF WriteRegion
  <2>3. queue' \in Picture
    BY <1>2, PictureBlank DEF WriteRegion
  <2>4. truth' \in [Buffers -> Picture]
    BY <1>2, <2>1, SetPixel DEF WriteRegion, Typed
  <2> QED BY <1>2, <2>4, <2>1, <2>2, <2>3 DEF WriteRegion, device, Typed
<1>3. ASSUME NEW x \in Kinds, NEW b \in Buffers, LfbLock(x, b) PROVE Typed'
  <2>1. Locked(x, b)
    BY <1>3 DEF LfbLock
  <2>2. lfbPtr' \in [Kinds -> Buffers \cup {NoBuf}] /\ held' \in [Kinds -> Buffers \cup {NoBuf}]
    BY <1>3 DEF LfbLock, Typed
  <2> QED BY <1>3, <2>1, <2>2, LockedType DEF LfbLock, Typed
<1>4. ASSUME NEW x \in Kinds, NEW b \in Buffers, LfbRefused(x, b) PROVE Typed'
  <2>1. Locked(x, b)
    BY <1>4 DEF LfbRefused
  <2>2. steps' \in 0 .. MaxSteps
    BY <1>4, <1>s DEF LfbRefused
  <2> QED BY <1>4, <2>1, <2>2, LockedType DEF LfbRefused, Typed
<1>5. ASSUME NEW x \in Kinds, LfbUnlock(x) PROVE Typed'
  <2>1. held[x] \in Buffers /\ PutBack(x, held[x])
    BY <1>5 DEF LfbUnlock, Typed
  <2>2. host' \in [Buffers -> Picture] /\ lfb_dirty' \subseteq {"fetch", "merge"}
    BY <2>1, PutBackType
  <2>3. /\ mbufo' \in [Kinds -> Buffers \cup {NoBuf}]
        /\ kvm' \subseteq [buffer : Buffers, readonly : BOOLEAN]
    BY <1>5 DEF LfbUnlock, UnmapPages, Typed
  <2>4. /\ lock' \in [Kinds -> BOOLEAN] /\ held' \in [Kinds -> Buffers \cup {NoBuf}]
        /\ queue' \in Picture
    BY <1>5, PictureBlank DEF LfbUnlock, Typed
  <2> QED BY <1>5, <2>2, <2>3, <2>4 DEF LfbUnlock, Typed
<1>6. ASSUME NEW p \in Pixels, LfbWrite(p) PROVE Typed'
  <2> DEFINE b == held[Writing]
  <2>1. steps' \in 0 .. MaxSteps
    BY <1>6, <1>s DEF LfbWrite
  <2>2. b \in Buffers
    BY <1>6 DEF LfbWrite, Typed, Kinds, Writing
  <2>3. truth' \in [Buffers -> Picture]
    BY <1>6, <2>1, <2>2, SetPixel DEF LfbWrite, Typed
  <2>4. Area(b) \in Areas
    BY DEF Area, Areas
  <2>5. glfb' \in [Areas -> Picture]
    <3>1. CASE glfb' = glfb
      BY <3>1 DEF Typed
    <3>2. CASE glfb' = [glfb EXCEPT ![Area(b)][p] = steps']
      <4> HIDE DEF b
      <4> QED BY <3>2, <2>1, <2>4, SetPixel DEF Typed
    <3> QED BY <1>6, <3>1, <3>2 DEF LfbWrite
  <2>6. host' \in [Buffers -> Picture]
    <3>1. CASE host' = host
      BY <3>1 DEF Typed
    <3>2. CASE host' = [host EXCEPT ![b][p] = steps']
      <4> HIDE DEF b
      <4> QED BY <3>2, <2>1, <2>2, SetPixel DEF Typed
    <3>3. CASE host' = [host EXCEPT ![lfbPtr[Writing]][p] = steps']
      <4>1. CASE lfbPtr[Writing] \in Buffers
        BY <3>3, <4>1, <2>1, SetPixel DEF Typed
      <4>2. CASE lfbPtr[Writing] \notin Buffers
        BY <3>3, <4>2 DEF Typed
      <4> QED BY <4>1, <4>2
    <3> QED BY <1>6, <3>1, <3>2, <3>3 DEF LfbWrite
  <2> QED BY <1>6, <2>1, <2>3, <2>5, <2>6 DEF LfbWrite, device, Typed
<1>7. CASE BufferSwap
  <2>1. host' \in [Buffers -> Picture]
    <3>1. Presented[Back] \in Picture /\ Presented[Front] \in Picture
      BY PresentedType, <1>b
    <3> HIDE DEF Presented
    <3> QED BY <1>7, <3>1, PresentedType DEF BufferSwap
  <2>2. truth' \in [Buffers -> Picture] /\ queue' \in Picture
    BY <1>7, <1>b, PictureBlank DEF BufferSwap, Typed
  <2>3. lfb_dirty' \subseteq {"fetch", "merge"} /\ locked' \in BOOLEAN
    BY <1>7 DEF BufferSwap, Typed
  <2> QED BY <1>7, <2>1, <2>2, <2>3 DEF BufferSwap, Typed
<1>8. CASE SstWinOpen
  <2>1. /\ host' \in [Buffers -> Picture] /\ truth' \in [Buffers -> Picture]
        /\ queue' \in Picture /\ glfb' \in [Areas -> Picture]
    BY <1>8, PictureBlank DEF SstWinOpen, Typed
  <2>2. /\ lock' \in [Kinds -> BOOLEAN] /\ lfbPtr' \in [Kinds -> Buffers \cup {NoBuf}]
        /\ grBuffer' \in Buffers
    BY <1>8, <1>b DEF SstWinOpen, GlideInit, Typed
  <2>3. lfb_dirty' \subseteq {"fetch", "merge"}
    BY <1>8 DEF SstWinOpen, Typed
  <2> QED BY <1>8, <2>1, <2>2, <2>3 DEF SstWinOpen, Typed
<1>9. CASE UNCHANGED vars
  BY <1>9 DEF vars, device, Typed
<1> QED BY <1>1, <1>2, <1>3, <1>4, <1>5, <1>6, <1>7, <1>8, <1>9 DEF Next

-----------------------------------------------------------------------------
(* ---- The locks, and the pages that go with them. ------------------------- *)

\* The pages that stand are those mbufo points to, and unless a lock was refused
\* that is where a lock is held: a lock for reading and one for writing of the same
\* buffer share its pages, and the first unlock that finds them takes them away.
Pages ==
  /\ ~use.refused => \A x \in Kinds : lock[x] <=> held[x] # NoBuf
  /\ ~Mapped => kvm = {}
  /\ Mapped /\ ~use.refused =>
       /\ \A x \in Kinds : mbufo[x] \in {NoBuf, held[x]}
       /\ \A r \in kvm : \E x \in Kinds : mbufo[x] = r.buffer

LEMMA PagesInit == ASSUME Init PROVE Pages
BY DEF Init, Pages

LEMMA PagesFrame ==
  ASSUME Typed, Pages, UNCHANGED <<use, kvm, mbufo, lock, held>> PROVE Pages'
BY DEF Typed, Pages, Mapped

LEMMA PagesLock ==
  ASSUME Typed, Pages, NEW x \in Kinds, NEW b \in Buffers, LfbLock(x, b)
  PROVE  Pages'
<1>1. /\ use' = use /\ Locked(x, b) /\ lock' = [lock EXCEPT ![x] = TRUE]
      /\ held' = [held EXCEPT ![x] = b]
      /\ held[x] = NoBuf /\ (held[1 - x] = NoBuf \/ held[1 - x] = b)
  BY DEF LfbLock, Locked
<1>2. Mapped' <=> Mapped
  BY <1>1 DEF Mapped
<1>3. b # NoBuf
  BY DEF Buffers, Front, Back, Aux, NoBuf
<1>4. ~use'.refused => \A y \in Kinds : lock'[y] <=> held'[y] # NoBuf
  BY <1>1, <1>3 DEF Pages, Typed
<1>5. ~Mapped' => kvm' = {}
  BY <1>1, <1>2 DEF Locked, Pages
<1>6. ASSUME Mapped', ~use'.refused
      PROVE  /\ \A y \in Kinds : mbufo'[y] \in {NoBuf, held'[y]}
             /\ \A r \in kvm' : \E y \in Kinds : mbufo'[y] = r.buffer
  <2>1. /\ Mapped /\ ~use.lfbHandler
        /\ \A y \in Kinds : mbufo[y] \in {NoBuf, held[y]}
        /\ \A r \in kvm : \E y \in Kinds : mbufo[y] = r.buffer
    BY <1>1, <1>2, <1>6 DEF Mapped, Pages
  <2>2. mbufo[x] = NoBuf
    BY <1>1, <2>1
  <2>3. CASE kvm' = kvm /\ mbufo' = [mbufo EXCEPT ![x] = b]
    <3>1. \A y \in Kinds : mbufo'[y] = IF y = x THEN b ELSE mbufo[y]
      BY <2>3 DEF Typed
    <3>2. \A y \in Kinds : held'[y] = IF y = x THEN b ELSE held[y]
      BY <1>1 DEF Typed
    <3>3. \A r \in kvm : r.buffer # NoBuf
      BY DEF Typed, Buffers, Front, Back, Aux, NoBuf
    <3> QED BY <2>1, <2>2, <2>3, <3>1, <3>2, <3>3
  <2>4. CASE MapPages(x, b)
    <3>1. \A y \in Kinds : held'[y] = IF y = x THEN b ELSE held[y]
      BY <1>1 DEF Typed
    <3>2. \A r \in kvm : r.buffer # NoBuf
      BY DEF Typed, Buffers, Front, Back, Aux, NoBuf
    <3>3. 1 - x \in Kinds /\ \A y \in Kinds : y = x \/ y = 1 - x
      BY DEF Kinds, Reading, Writing
    <3>4. CASE mbufo[1 - x] = b
      <4>1. /\ \A r \in kvm' : r.buffer = b \/ (r \in kvm /\ r.buffer # b)
            /\ \A y \in Kinds : mbufo'[y] = IF y = x THEN b ELSE NoBuf
        BY <2>4, <3>4 DEF MapPages
      <4> QED BY <2>1, <2>2, <3>1, <3>2, <3>3, <3>4, <4>1
    <3>5. CASE mbufo[1 - x] # b
      <4>1. /\ \A r \in kvm' : r.buffer = b \/ r \in kvm
            /\ \A y \in Kinds : mbufo'[y] = IF y = x THEN b ELSE mbufo[y]
        BY <2>4, <3>5 DEF MapPages
      <4> QED BY <2>1, <2>2, <3>1, <3>2, <3>3, <4>1
    <3> QED BY <3>4, <3>5
  <2> QED BY <1>1, <2>1, <2>3, <2>4 DEF Locked
<1> QED BY <1>4, <1>5, <1>6 DEF Pages

LEMMA PagesRefused ==
  ASSUME Typed, Pages, NEW x \in Kinds, NEW b \in Buffers, LfbRefused(x, b)
  PROVE  Pages'
<1>1. use' = use /\ use.refused /\ Locked(x, b)
  BY DEF LfbRefused
<1>2. ~Mapped => kvm' = {}
  BY <1>1 DEF Locked, Pages
<1> QED BY <1>1, <1>2 DEF Pages, Mapped

LEMMA PagesUnlock ==
  ASSUME Typed, Pages, NEW x \in Kinds, LfbUnlock(x)
  PROVE  Pages'
<1>1. /\ use' = use /\ UnmapPages(x) /\ lock' = [lock EXCEPT ![x] = FALSE]
      /\ held' = [held EXCEPT ![x] = NoBuf]
  BY DEF LfbUnlock
<1>2. Mapped' <=> Mapped
  BY <1>1 DEF Mapped
<1>3. ~use'.refused => \A y \in Kinds : lock'[y] <=> held'[y] # NoBuf
  BY <1>1 DEF Pages, Typed
<1>4. ~Mapped' => kvm' = {}
  BY <1>1, <1>2 DEF UnmapPages, Pages
<1>5. ASSUME Mapped', ~use'.refused
      PROVE  /\ \A y \in Kinds : mbufo'[y] \in {NoBuf, held'[y]}
             /\ \A r \in kvm' : \E y \in Kinds : mbufo'[y] = r.buffer
  <2>1. /\ \A y \in Kinds : mbufo[y] \in {NoBuf, held[y]}
        /\ \A r \in kvm : \E y \in Kinds : mbufo[y] = r.buffer
    BY <1>1, <1>2, <1>5 DEF Pages
  <2>2. /\ kvm' = {r \in kvm : r.buffer # mbufo[x]}
        /\ mbufo' = [mbufo EXCEPT ![x] = NoBuf]
    BY <1>1, <1>2, <1>5 DEF UnmapPages
  <2>3. \A y \in Kinds : mbufo'[y] = IF y = x THEN NoBuf ELSE mbufo[y]
    BY <2>2 DEF Typed
  <2>4. \A y \in Kinds : held'[y] = IF y = x THEN NoBuf ELSE held[y]
    BY <1>1 DEF Typed
  <2> QED BY <2>1, <2>2, <2>3, <2>4
<1> QED BY <1>3, <1>4, <1>5 DEF Pages

LEMMA PagesOpen == ASSUME Typed, Pages, SstWinOpen PROVE Pages'
<1>1. /\ UNCHANGED <<use, mbufo, kvm, held>> /\ \A x \in Kinds : held[x] = NoBuf
      /\ lock' = lock \/ \A x \in Kinds : lock'[x] = FALSE
  BY DEF SstWinOpen, GlideInit, NothingHeld
<1>2. ~use.refused => \A x \in Kinds : lock'[x] <=> held'[x] # NoBuf
  BY <1>1, Zenon DEF Pages
<1> QED BY <1>1, <1>2 DEF Pages, Mapped

LEMMA PagesStep == ASSUME Typed, Pages, [Next]_vars PROVE Pages'
<1>1. ASSUME NEW p \in Pixels, Draw(p) \/ LfbWrite(p) PROVE Pages'
  BY <1>1, PagesFrame DEF Draw, LfbWrite, device
<1>2. ASSUME NEW b \in Buffers, NEW p \in Pixels, WriteRegion(b, p) PROVE Pages'
  BY <1>2, PagesFrame DEF WriteRegion, device
<1>3. CASE BufferSwap
  BY <1>3, PagesFrame DEF BufferSwap
<1>4. CASE UNCHANGED vars
  BY <1>4, PagesFrame DEF vars, device
<1> QED BY <1>1, <1>2, <1>3, <1>4, PagesLock, PagesRefused, PagesUnlock, PagesOpen DEF Next

LEMMA PagesTyped == ASSUME Typed, Pages PROVE TypeOK
<1>1. ASSUME ~use.refused PROVE LocksKnown
  <2>1. ASSUME NEW r \in kvm PROVE \E x \in Kinds : held[x] = r.buffer
    <3>1. Mapped /\ r.buffer # NoBuf
      BY <2>1 DEF Typed, Pages, Buffers, Front, Back, Aux, NoBuf
    <3> QED BY <1>1, <2>1, <3>1 DEF Pages
  <2> QED BY <1>1, <2>1 DEF Pages, LocksKnown
<1> QED BY <1>1 DEF Typed, TypeOK

\* Under every choice of the options and with every program: each variable has its
\* type, and unless locks are refused the device counts those locks as held that
\* the program holds, and no pages of the host stand in the guest without one.
THEOREM LfbTyped == Spec => []TypeOK
<1>1. Init => Typed /\ Pages
  BY TypedInit, PagesInit
<1>2. Typed /\ Pages /\ [Next]_vars => Typed' /\ Pages'
  BY TypedStep, PagesStep
<1>3. Typed /\ Pages => TypeOK
  BY PagesTyped
<1> QED BY <1>1, <1>2, <1>3, PTL DEF Spec

-----------------------------------------------------------------------------
(* ---- What is held. ------------------------------------------------------- *)

\* While a buffer is locked nothing waits in the FIFO, and both the pointer of that
\* kind of lock and grBuffer are the locked buffer's.
Holding ==
  /\ ~NothingHeld => queue = Blank /\ locked
  /\ \A x \in Kinds : held[x] # NoBuf => lfbPtr[x] = held[x] /\ grBuffer = held[x]
  /\ ~use.both => \E x \in Kinds : held[x] = NoBuf

LEMMA TwoKinds == \A x \in Kinds : 1 - x \in Kinds /\ \A y \in Kinds : y = x \/ y = 1 - x
BY DEF Kinds, Reading, Writing

LEMMA NoBufNone == NoBuf \notin Buffers
BY DEF Buffers, Front, Back, Aux, NoBuf

LEMMA HoldingInit == ASSUME Init PROVE Holding
BY DEF Init, Holding, NothingHeld, Kinds

LEMMA HoldingFrame ==
  ASSUME Typed, Holding, UNCHANGED <<use, held, lfbPtr, grBuffer>>,
         ~NothingHeld => queue' = Blank /\ locked'
  PROVE  Holding'
BY DEF Holding, NothingHeld

LEMMA HoldingStep == ASSUME Typed, Holding, [Next]_vars PROVE Holding'
<1>1. ASSUME NEW p \in Pixels, Draw(p) \/ LfbWrite(p) PROVE Holding'
  BY <1>1, HoldingFrame DEF Draw, MayDraw, LfbWrite, device, Holding
<1>2. ASSUME NEW b \in Buffers, NEW p \in Pixels, WriteRegion(b, p) PROVE Holding'
  BY <1>2, HoldingFrame DEF WriteRegion, MayDraw, device
<1>3. ASSUME NEW x \in Kinds, NEW b \in Buffers, LfbLock(x, b) PROVE Holding'
  <2>1. /\ use' = use /\ queue' = Blank /\ locked' = TRUE /\ grBuffer' = b
        /\ held[1 - x] = NoBuf \/ (use.both /\ held[1 - x] = b)
    BY <1>3 DEF LfbLock, Locked
  <2>2. \A y \in Kinds : /\ held'[y] = IF y = x THEN b ELSE held[y]
                         /\ lfbPtr'[y] = IF y = x THEN b ELSE lfbPtr[y]
    BY <1>3 DEF LfbLock, Typed
  <2>3. \A y \in Kinds : held'[y] # NoBuf => lfbPtr'[y] = held'[y] /\ grBuffer' = held'[y]
    <3>1. held[1 - x] # NoBuf => lfbPtr[1 - x] = b
      BY <2>1, TwoKinds DEF Holding
    <3> QED BY <2>1, <2>2, <3>1, TwoKinds
  <2>4. ~use'.both => held'[1 - x] = NoBuf
    <3>1. 1 - x # x
      BY DEF Kinds, Reading, Writing
    <3> QED BY <2>1, <2>2, <3>1, TwoKinds
  <2> QED BY <2>1, <2>3, <2>4, TwoKinds DEF Holding
<1>4. ASSUME NEW x \in Kinds, NEW b \in Buffers, LfbRefused(x, b) PROVE Holding'
  <2>1. /\ UNCHANGED <<use, held, lfbPtr, locked>> /\ queue' = Blank
        /\ held[x] = NoBuf /\ held[1 - x] = NoBuf
    BY <1>4 DEF LfbRefused, Locked
  <2> QED BY <2>1, TwoKinds DEF Holding, NothingHeld
<1>5. ASSUME NEW x \in Kinds, LfbUnlock(x) PROVE Holding'
  <2>1. /\ UNCHANGED <<use, lfbPtr, grBuffer, locked>> /\ queue' = Blank
        /\ held[x] # NoBuf
    BY <1>5 DEF LfbUnlock
  <2>2. \A y \in Kinds : held'[y] = IF y = x THEN NoBuf ELSE held[y]
    BY <1>5 DEF LfbUnlock, Typed
  <2> QED BY <2>1, <2>2 DEF Holding, NothingHeld
<1>6. CASE BufferSwap
  <2>1. /\ UNCHANGED <<use, held, lfbPtr, grBuffer>> /\ queue' = Blank
        /\ held[Reading] = NoBuf /\ locked' = (held[Writing] # NoBuf)
    BY <1>6 DEF BufferSwap
  <2>2. ~NothingHeld => locked'
    BY <2>1 DEF NothingHeld, Kinds
  <2> QED BY <2>1, <2>2, HoldingFrame
<1>7. CASE SstWinOpen
  <2>1. NothingHeld /\ UNCHANGED <<use, held>>
    BY <1>7 DEF SstWinOpen
  <2> QED BY <2>1 DEF Holding, NothingHeld
<1>8. CASE UNCHANGED vars
  BY <1>8, HoldingFrame DEF vars, device, Holding
<1> QED BY <1>1, <1>2, <1>3, <1>4, <1>5, <1>6, <1>7, <1>8 DEF Next

-----------------------------------------------------------------------------
(* ---- Programs that meet what the options need. --------------------------- *)

\* The program works on a copy.
Copies == ~Mapped /\ ~use.lfbHandler

\* Safe, as the steps need it.
Fits ==
  /\ Copies => ~use.refused
  /\ Copies /\ use.both => ~LockDirty /\ ~use.swaps
  /\ Copies /\ use.redraws => LockDirty
  /\ Merges => Copies /\ use.merge /\ ~LockDirty
  /\ Mapped => ~use.both

LEMMA SafeFits == ASSUME use \in Use, Safe(use) PROVE Fits
BY DEF Use, Safe, Fits, Copies, Mapped, Merges, LockDirty

\* What lfb_dirty says: a copy waits for the swap only with LfbWriteMerge, and is
\* then the back buffer's; before the first lock of a frame the copy is not good,
\* and it stays as it is while the program has it for reading and for writing.
Dirt ==
  /\ "merge" \in lfb_dirty => Merges /\ lfb_dirty = {"merge"} /\ locked
  /\ Merges => grBuffer = Back
  /\ Copies =>
       /\ ~locked => lfb_dirty = {"fetch"}
       /\ use.both /\ held[Writing] # NoBuf /\ ~Aside(held[Writing]) => "fetch" \notin lfb_dirty

LEMMA DirtInit == ASSUME Init PROVE Dirt
BY DEF Init, Dirt, Writing, Kinds

LEMMA OptionsStay ==
  ASSUME use' = use
  PROVE  /\ (Copies' <=> Copies) /\ (Mapped' <=> Mapped) /\ (Merges' <=> Merges)
         /\ (LockDirty' <=> LockDirty)
         /\ \A b : Aside(b)' <=> Aside(b)
BY DEF Copies, Mapped, Merges, LockDirty, Aside

LEMMA DirtFrame ==
  ASSUME Typed, Dirt, UNCHANGED <<use, held, lfb_dirty, grBuffer, locked>> PROVE Dirt'
BY OptionsStay DEF Dirt

LEMMA DirtLock ==
  ASSUME Typed, Holding, Fits, Dirt, NEW x \in Kinds, NEW b \in Buffers, LfbLock(x, b)
  PROVE  Dirt'
<1>1. /\ use' = use /\ locked' /\ grBuffer' = b /\ Locked(x, b)
      /\ held[x] = NoBuf /\ (held[1 - x] = NoBuf \/ (use.both /\ held[1 - x] = b))
      /\ use.merge => b = Back
  BY DEF LfbLock, Locked
<1>2. \A y \in Kinds : held'[y] = IF y = x THEN b ELSE held[y]
  BY DEF LfbLock, Typed
<1>3. Merges => b = Back /\ ~Aside(b)
  BY <1>1 DEF Merges, Aside, Back, Aux
<1>4. lfb_dirty' \subseteq LockDirt(b)
  BY <1>1 DEF Locked, Fetch
<1>5. "merge" \in lfb_dirty' => Merges /\ lfb_dirty' = {"merge"}
  <2>1. "merge" \in LockDirt(b) => Merges /\ LockDirt(b) = {"merge"}
    BY DEF LockDirt, Dirt, Fits
  <2> QED BY <1>4, <2>1
<1>6. ASSUME Copies, ~Aside(b) PROVE "fetch" \notin lfb_dirty'
  BY <1>1, <1>6 DEF Locked, Fetch, Copies
<1>7. Writing \in Kinds
  BY DEF Kinds
<1>8. ASSUME Copies, held'[Writing] # NoBuf, ~Aside(held'[Writing]) PROVE "fetch" \notin lfb_dirty'
  <2>1. held'[Writing] = b
    BY <1>1, <1>2, <1>7, <1>8, TwoKinds
  <2> QED BY <1>6, <1>8, <2>1
<1> QED BY <1>1, <1>3, <1>5, <1>8, OptionsStay DEF Dirt

LEMMA DirtRefused ==
  ASSUME Typed, Fits, Dirt, NEW x \in Kinds, NEW b \in Buffers, LfbRefused(x, b)
  PROVE  Dirt'
<1>1. /\ use' = use /\ Locked(x, b) /\ use.refused /\ UNCHANGED <<held, locked>>
  BY DEF LfbRefused
<1>2. ~Copies /\ ~Merges
  BY <1>1 DEF Fits
<1>3. "merge" \notin lfb_dirty
  BY <1>2 DEF Dirt
<1>4. "merge" \notin lfb_dirty'
  BY <1>1, <1>3 DEF Locked, Fetch, LockDirt
<1> QED BY <1>1, <1>2, <1>4, OptionsStay DEF Dirt

LEMMA DirtUnlock ==
  ASSUME Typed, Holding, Fits, Dirt, NEW x \in Kinds, LfbUnlock(x)
  PROVE  Dirt'
<1>1. /\ UNCHANGED <<use, grBuffer, locked>> /\ PutBack(x, held[x]) /\ held[x] # NoBuf
  BY DEF LfbUnlock
<1>2. \A y \in Kinds : held'[y] = IF y = x THEN NoBuf ELSE held[y]
  BY DEF LfbUnlock, Typed
<1>3. locked
  BY <1>1 DEF Holding, NothingHeld
<1>4. Writing \in Kinds
  BY DEF Kinds
<1>5. CASE lfb_dirty' = lfb_dirty
  BY <1>1, <1>2, <1>3, <1>4, <1>5, OptionsStay DEF Dirt
<1>6. CASE x = Writing /\ lfb_dirty' = {"fetch"}
  BY <1>1, <1>2, <1>3, <1>4, <1>6, OptionsStay DEF Dirt
<1>7. CASE x = Writing /\ Merges /\ lfb_dirty' = {"merge"}
  BY <1>1, <1>2, <1>3, <1>4, <1>7, OptionsStay DEF Dirt
<1> QED BY <1>1, <1>5, <1>6, <1>7 DEF PutBack

LEMMA DirtSwap ==
  ASSUME Typed, Holding, Fits, Dirt, BufferSwap
  PROVE  Dirt'
<1>1. /\ UNCHANGED <<use, grBuffer, held>> /\ held[Reading] = NoBuf
      /\ lfb_dirty' = IF use.lfbHandler THEN lfb_dirty ELSE {"fetch"}
      /\ held[Writing] = NoBuf \/ (use.swaps /\ held[Writing] = Back)
  BY DEF BufferSwap
<1>2. CASE use.lfbHandler
  <2>1. ~Copies /\ ~Merges /\ lfb_dirty' = lfb_dirty
    BY <1>1, <1>2 DEF Copies, Merges
  <2> QED BY <1>1, <2>1, OptionsStay DEF Dirt
<1>3. CASE ~use.lfbHandler
  <2>1. lfb_dirty' = {"fetch"}
    BY <1>1, <1>3
  <2>2. ~(Copies /\ use.both /\ held[Writing] # NoBuf)
    BY <1>1 DEF Fits
  <2> QED BY <1>1, <2>1, <2>2, OptionsStay DEF Dirt
<1> QED BY <1>2, <1>3

LEMMA DirtOpen ==
  ASSUME Typed, Fits, Dirt, SstWinOpen
  PROVE  Dirt'
<1>1. /\ UNCHANGED <<use, held>> /\ held[Writing] = NoBuf /\ ~locked'
      /\ lfb_dirty' = IF use.lfbHandler THEN lfb_dirty ELSE {"fetch"}
      /\ grBuffer' = grBuffer \/ grBuffer' = Back
  BY DEF SstWinOpen, GlideInit, NothingHeld, Kinds
<1>2. CASE use.lfbHandler
  <2>1. ~Copies /\ ~Merges /\ lfb_dirty' = lfb_dirty
    BY <1>1, <1>2 DEF Copies, Merges
  <2> QED BY <1>1, <2>1, OptionsStay DEF Dirt
<1>3. CASE ~use.lfbHandler
  <2>1. lfb_dirty' = {"fetch"}
    BY <1>1, <1>3
  <2> QED BY <1>1, <2>1, OptionsStay DEF Dirt
<1> QED BY <1>2, <1>3

LEMMA DirtStep == ASSUME Typed, Holding, Fits, Dirt, [Next]_vars PROVE Dirt'
<1>1. ASSUME NEW p \in Pixels, Draw(p) \/ LfbWrite(p) PROVE Dirt'
  BY <1>1, DirtFrame DEF Draw, LfbWrite, device
<1>2. ASSUME NEW b \in Buffers, NEW p \in Pixels, WriteRegion(b, p) PROVE Dirt'
  BY <1>2, DirtFrame DEF WriteRegion, device
<1>3. CASE UNCHANGED vars
  BY <1>3, DirtFrame DEF vars, device
<1> QED BY <1>1, <1>2, <1>3, DirtLock, DirtRefused, DirtUnlock, DirtSwap, DirtOpen DEF Next

-----------------------------------------------------------------------------
(* ---- The pictures. ------------------------------------------------------- *)

\* A lock is given the pages it needs.
PagesThere ==
  Mapped => \A x \in Kinds : held[x] # NoBuf /\ ~Aside(held[x]) =>
              [buffer |-> held[x], readonly |-> x = Reading] \in kvm

\* The copy of the buffer locked last is good while it is locked, and until it is
\* fetched again.
CopyTrue ==
  Copies /\ ~Aside(grBuffer) /\ (NothingHeld => "fetch" \notin lfb_dirty /\ ~LockDirty)
    => Agrees(glfb[Area(grBuffer)], grBuffer)

\* A buffer is good once the queue is drained, unless what is to be put back to it
\* is in a copy.
HostTrue ==
  \A b \in Buffers :
    /\ ~Aside(b) /\ (Copies => held[Writing] # b) /\ (b = Back => "merge" \notin lfb_dirty)
    => Agrees(Drained[b], b)

LEMMA PagesThereInit == ASSUME Init PROVE PagesThere
BY DEF Init, PagesThere

LEMMA PagesThereFrame ==
  ASSUME PagesThere, UNCHANGED <<use, held, kvm>> PROVE PagesThere'
BY OptionsStay DEF PagesThere

LEMMA PagesThereStep ==
  ASSUME Typed, Fits, PagesThere, Holding, [Next]_vars PROVE PagesThere'
<1>1. ASSUME NEW p \in Pixels, Draw(p) \/ LfbWrite(p) PROVE PagesThere'
  BY <1>1, PagesThereFrame DEF Draw, LfbWrite, device
<1>2. ASSUME NEW b \in Buffers, NEW p \in Pixels, WriteRegion(b, p) PROVE PagesThere'
  BY <1>2, PagesThereFrame DEF WriteRegion, device
<1>3. ASSUME NEW x \in Kinds, NEW b \in Buffers, LfbLock(x, b) PROVE PagesThere'
  <2>1. /\ use' = use /\ Locked(x, b)
        /\ held[1 - x] = NoBuf \/ (use.both /\ held[1 - x] = b)
    BY <1>3 DEF LfbLock
  <2>2. \A y \in Kinds : held'[y] = IF y = x THEN b ELSE held[y]
    BY <1>3 DEF LfbLock, Typed
  <2>3. ASSUME Mapped, ~Aside(b)
        PROVE  [buffer |-> b, readonly |-> x = Reading] \in kvm'
    BY <2>1, <2>3 DEF Locked, MapPages, Mapped
  <2>4. Mapped => \A y \in Kinds : y # x => held'[y] = NoBuf
    BY <2>1, <2>2, TwoKinds DEF Fits
  <2> QED BY <2>1, <2>2, <2>3, <2>4, OptionsStay DEF PagesThere
<1>4. ASSUME NEW x \in Kinds, NEW b \in Buffers, LfbRefused(x, b) PROVE PagesThere'
  <2>1. UNCHANGED <<use, held>> /\ held[x] = NoBuf /\ held[1 - x] = NoBuf
    BY <1>4 DEF LfbRefused
  <2> QED BY <2>1, TwoKinds, OptionsStay DEF PagesThere
<1>5. ASSUME NEW x \in Kinds, LfbUnlock(x) PROVE PagesThere'
  <2>1. use' = use /\ held[x] # NoBuf
    BY <1>5 DEF LfbUnlock
  <2>2. \A y \in Kinds : held'[y] = IF y = x THEN NoBuf ELSE held[y]
    BY <1>5 DEF LfbUnlock, Typed
  <2>3. Mapped => \A y \in Kinds : held'[y] = NoBuf
    BY <2>1, <2>2, TwoKinds DEF Fits, Holding
  <2> QED BY <2>1, <2>3, OptionsStay DEF PagesThere
<1>6. CASE BufferSwap
  BY <1>6, PagesThereFrame DEF BufferSwap
<1>7. CASE SstWinOpen
  BY <1>7, PagesThereFrame DEF SstWinOpen
<1>8. CASE UNCHANGED vars
  BY <1>8, PagesThereFrame DEF vars, device
<1> QED BY <1>1, <1>2, <1>3, <1>4, <1>5, <1>6, <1>7, <1>8 DEF Next

\* A pixel of a drained buffer, in a state and after a step.
LEMMA DrainedAt ==
  ASSUME Typed
  PROVE  \A b \in Buffers, p \in Pixels :
           Drained[b][p] = IF b = Back /\ queue[p] # 0 THEN queue[p] ELSE host[b][p]
BY OverAt DEF Typed, Drained

LEMMA DrainedNext ==
  ASSUME Typed', queue' = Blank
  PROVE  \A b \in Buffers, p \in Pixels : Drained'[b][p] = host'[b][p]
<1>1. host' \in [Buffers -> Picture] /\ queue' \in Picture
  BY DEF Typed
<1>2. \A b \in Buffers, p \in Pixels :
        [host' EXCEPT ![Back] = Over(host'[Back], queue')][b][p]
          = IF b = Back /\ queue'[p] # 0 THEN queue'[p] ELSE host'[b][p]
  BY <1>1, OverAt
<1>3. \A p \in Pixels : queue'[p] = 0
  BY DEF Blank
<1> QED BY <1>2, <1>3 DEF Drained

Pictures == CopyTrue /\ HostTrue

LEMMA PicturesInit == ASSUME Init PROVE Pictures
<1>1. \A b \in Buffers, p \in Pixels : truth[b][p] = 0
  BY DEF Init, Blank
<1>2. grBuffer \in Buffers
  BY DEF Init, Buffers
<1> QED BY <1>1, <1>2 DEF Pictures, CopyTrue, HostTrue, Agrees

\* A step that changes neither the pictures nor what is known of them.
LEMMA PicturesFrame ==
  ASSUME Pictures,
         UNCHANGED <<use, host, glfb, queue, held, lfb_dirty, grBuffer, truth>>
  PROVE  Pictures'
<1>1. CopyTrue'
  BY OptionsStay DEF Pictures, CopyTrue, Agrees, NothingHeld, Area
<1>2. HostTrue'
  BY OptionsStay DEF Pictures, HostTrue, Agrees, Drained, Over
<1> QED BY <1>1, <1>2 DEF Pictures

\* Pictures as formulas about pixels.
LEMMA CopyAt ==
  ASSUME CopyTrue, Copies, ~Aside(grBuffer),
         NothingHeld => "fetch" \notin lfb_dirty /\ ~LockDirty
  PROVE  \A p \in Pixels : truth[grBuffer][p] \in {0, glfb[Area(grBuffer)][p]}
BY DEF CopyTrue, Agrees

LEMMA HostAt ==
  ASSUME HostTrue, NEW b \in Buffers, ~Aside(b), Copies => held[Writing] # b,
         b = Back => "merge" \notin lfb_dirty
  PROVE  \A p \in Pixels : truth[b][p] \in {0, Drained[b][p]}
BY DEF HostTrue, Agrees

\* The invariant.
Known == Typed /\ Pages /\ Holding /\ Fits /\ Dirt /\ PagesThere /\ Pictures

\* How HostTrue and CopyTrue are shown of the next state.
LEMMA HostNext ==
  ASSUME use' = use,
         \A b \in Buffers :
           /\ ~Aside(b) /\ (Copies => held'[Writing] # b) /\ (b = Back => "merge" \notin lfb_dirty')
           => \A p \in Pixels : truth'[b][p] \in {0, Drained'[b][p]}
  PROVE  HostTrue'
BY OptionsStay DEF HostTrue, Agrees

LEMMA CopyNext ==
  ASSUME use' = use,
         /\ Copies /\ ~Aside(grBuffer')
         /\ (\A x \in Kinds : held'[x] = NoBuf) => "fetch" \notin lfb_dirty' /\ ~LockDirty
         => \A p \in Pixels : truth'[grBuffer'][p] \in {0, glfb'[Area(grBuffer')][p]}
  PROVE  CopyTrue'
BY OptionsStay DEF CopyTrue, Agrees, NothingHeld, Area

\* Before the first lock of a frame the copy is not good; later the program draws
\* only if its copy is fetched again.
LEMMA DrawnCopy ==
  ASSUME Fits, Dirt, MayDraw
  PROVE  ~(Copies /\ "fetch" \notin lfb_dirty /\ ~LockDirty)
BY DEF Fits, Dirt, MayDraw

LEMMA PicturesDraw ==
  ASSUME Known, Typed', NEW p \in Pixels, Draw(p) PROVE Pictures'
<1>1. /\ MayDraw /\ NothingHeld /\ UNCHANGED <<use, host, glfb, lfb_dirty, held, grBuffer>>
      /\ queue' = [queue EXCEPT ![p] = steps'] /\ truth' = [truth EXCEPT ![Back][p] = steps']
  BY DEF Draw, MayDraw, device
<1>2. \A c \in Buffers, q \in Pixels :
        truth'[c][q] = IF c = Back /\ q = p THEN steps' ELSE truth[c][q]
  <2>1. Typed /\ Back \in Buffers /\ truth' = [truth EXCEPT ![Back][p] = steps']
    BY <1>1 DEF Known, Buffers
  <2> HIDE DEF Back
  <2> QED BY <2>1 DEF Typed, Picture
<1>3. steps' # 0
  BY DEF Draw, Known, Typed
<1>4. \A q \in Pixels : queue'[q] = IF q = p THEN steps' ELSE queue[q]
  BY <1>1 DEF Known, Typed, Picture
<1>5. \A c \in Buffers, q \in Pixels :
        /\ Drained[c][q] = IF c = Back /\ queue[q] # 0 THEN queue[q] ELSE host[c][q]
        /\ Drained'[c][q] = IF c = Back /\ queue'[q] # 0 THEN queue'[q] ELSE host'[c][q]
  <2>1. host' \in [Buffers -> Picture] /\ queue' \in Picture
    BY DEF Typed
  <2>2. \A c \in Buffers, q \in Pixels :
          [host' EXCEPT ![Back] = Over(host'[Back], queue')][c][q]
            = IF c = Back /\ queue'[q] # 0 THEN queue'[q] ELSE host'[c][q]
    BY <2>1, OverAt
  <2> QED BY <2>2, DrainedAt DEF Drained, Known
<1>6. \A c \in Buffers, q \in Pixels :
        Drained'[c][q] = IF c = Back /\ q = p THEN steps' ELSE Drained[c][q]
  <2> HIDE DEF Drained
  <2> QED BY <1>1, <1>3, <1>4, <1>5
<1>7. HostTrue'
  <2>1. ASSUME NEW b \in Buffers, ~Aside(b), Copies => held'[Writing] # b,
               b = Back => "merge" \notin lfb_dirty', NEW q \in Pixels
        PROVE  truth'[b][q] \in {0, Drained'[b][q]}
    <3>1. truth[b][q] \in {0, Drained[b][q]}
      BY <1>1, <2>1, HostAt DEF Known, Pictures
    <3> HIDE DEF Drained
    <3> QED BY <1>2, <1>6, <3>1
  <2> QED BY <1>1, <2>1, HostNext
<1>8. CopyTrue'
  BY <1>1, DrawnCopy, CopyNext DEF Known, NothingHeld
<1> QED BY <1>7, <1>8 DEF Pictures

LEMMA PicturesWriteRegion ==
  ASSUME Known, Typed', NEW b \in Buffers, NEW p \in Pixels, WriteRegion(b, p) PROVE Pictures'
<1>1. /\ MayDraw /\ NothingHeld /\ UNCHANGED <<use, glfb, lfb_dirty, held, grBuffer>>
      /\ queue' = Blank /\ truth' = [truth EXCEPT ![b][p] = steps']
      /\ host' = [Drained EXCEPT ![b][p] = steps']
  BY DEF WriteRegion, MayDraw, device
<1>2. \A c \in Buffers, q \in Pixels :
        truth'[c][q] = IF c = b /\ q = p THEN steps' ELSE truth[c][q]
  <2>1. Typed /\ truth' = [truth EXCEPT ![b][p] = steps']
    BY <1>1 DEF Known
  <2> QED BY <2>1 DEF Typed, Picture
<1>3. \A c \in Buffers, q \in Pixels :
        host'[c][q] = IF c = b /\ q = p THEN steps' ELSE Drained[c][q]
  <2>1. Drained \in [Buffers -> Picture]
    BY DrainedType DEF Known
  <2> HIDE DEF Drained
  <2> QED BY <1>1, <2>1 DEF Picture
<1>4. \A c \in Buffers, q \in Pixels : Drained'[c][q] = host'[c][q]
  BY <1>1, DrainedNext
<1>5. HostTrue'
  <2>1. ASSUME NEW c \in Buffers, ~Aside(c), Copies => held'[Writing] # c,
               c = Back => "merge" \notin lfb_dirty', NEW q \in Pixels
        PROVE  truth'[c][q] \in {0, Drained'[c][q]}
    <3>1. truth[c][q] \in {0, Drained[c][q]}
      BY <1>1, <2>1, HostAt DEF Known, Pictures
    <3> HIDE DEF Drained
    <3> QED BY <1>2, <1>3, <1>4, <3>1
  <2> QED BY <1>1, <2>1, HostNext
<1>6. CopyTrue'
  BY <1>1, DrawnCopy, CopyNext DEF Known, NothingHeld
<1> QED BY <1>5, <1>6 DEF Pictures

\* Once the queue is drained, and nothing else happens to the buffers.
LEMMA JustDrained ==
  ASSUME Known, Typed', host' = Drained, queue' = Blank, UNCHANGED <<use, truth>>,
         \A b \in Buffers :
           /\ ~Aside(b) /\ (Copies => held'[Writing] # b) /\ (b = Back => "merge" \notin lfb_dirty')
           => (Copies => held[Writing] # b) /\ (b = Back => "merge" \notin lfb_dirty)
  PROVE  HostTrue'
<1>1. ASSUME NEW c \in Buffers, ~Aside(c), Copies => held'[Writing] # c,
             c = Back => "merge" \notin lfb_dirty', NEW q \in Pixels
      PROVE  truth'[c][q] \in {0, Drained'[c][q]}
  <2>1. truth[c][q] \in {0, Drained[c][q]}
    BY <1>1, HostAt DEF Known, Pictures
  <2>2. Drained'[c][q] = host'[c][q]
    BY DrainedNext
  <2> HIDE DEF Drained
  <2> QED BY <2>1, <2>2
<1> QED BY <1>1, HostNext

LEMMA PicturesLock ==
  ASSUME Known, Typed', NEW x \in Kinds, NEW b \in Buffers, LfbLock(x, b) PROVE Pictures'
<1>1. /\ UNCHANGED <<use, truth>> /\ grBuffer' = b /\ Locked(x, b)
      /\ host' = Drained /\ queue' = Blank
      /\ held[x] = NoBuf /\ (held[1 - x] = NoBuf \/ (use.both /\ held[1 - x] = b))
      /\ use.merge => b = Back
  BY DEF LfbLock, Locked
<1>2. \A y \in Kinds : held'[y] = IF y = x THEN b ELSE held[y]
  BY DEF LfbLock, Known, Typed
<1>w. Writing \in Kinds /\ Reading \in Kinds
  BY DEF Kinds
<1>3. ASSUME "merge" \in lfb_dirty PROVE b = grBuffer /\ LockDirt(b) = {"merge"} /\ lfb_dirty' = {"merge"}
  <2>1. /\ Copies /\ ~LockDirty /\ lfb_dirty = {"merge"} /\ grBuffer = Back /\ b = Back
        /\ ~Aside(b)
    BY <1>1, <1>3 DEF Known, Dirt, Fits, Aside, Back, Aux
  <2>2. LockDirt(b) = {"merge"}
    BY <2>1 DEF LockDirt
  <2> QED BY <1>1, <2>1, <2>2 DEF Locked, Copies, Fetch
<1>4. HostTrue'
  <2>1. ASSUME NEW c \in Buffers, Copies => held'[Writing] # c, c = Back => "merge" \notin lfb_dirty'
        PROVE  (Copies => held[Writing] # c) /\ (c = Back => "merge" \notin lfb_dirty)
    BY <1>1, <1>2, <1>3, <1>w, <2>1, NoBufNone
  <2> QED BY <1>1, <2>1, JustDrained
<1>5. ASSUME Copies, ~Aside(b), NEW q \in Pixels PROVE truth[b][q] \in {0, glfb'[Area(b)][q]}
  <2>1. Fetch(b, LockDirt(b), Drained)
    BY <1>1, <1>5 DEF Locked, Copies
  <2>2. CASE "fetch" \notin LockDirt(b)
    <3>1. grBuffer = b /\ "fetch" \notin lfb_dirty /\ ~LockDirty
      BY <2>2 DEF LockDirt
    <3>2. truth[b][q] \in {0, glfb[Area(b)][q]}
      BY <1>5, <3>1, CopyAt DEF Known, Pictures
    <3> QED BY <2>1, <2>2, <3>2 DEF Fetch
  <2>3. CASE "fetch" \in LockDirt(b)
    <3>1. b = Back => "merge" \notin lfb_dirty
      BY <1>3, <2>3
    <3>2. held[Writing] # b
      <4>1. SUFFICES ASSUME held[Writing] = b PROVE FALSE
        OBVIOUS
      <4>2. held[Writing] # NoBuf /\ x # Writing /\ use.both
        BY <1>1, <1>w, <4>1, NoBufNone, TwoKinds
      <4>3. grBuffer = b /\ ~LockDirty /\ "fetch" \notin lfb_dirty
        BY <1>5, <1>w, <4>1, <4>2 DEF Known, Holding, Fits, Dirt
      <4> QED BY <1>5, <2>3, <4>3 DEF LockDirt
    <3>3. truth[b][q] \in {0, Drained[b][q]}
      BY <1>5, <3>1, <3>2, HostAt DEF Known, Pictures
    <3>4. glfb'[Area(b)] = Drained[b]
      BY <2>1, <2>3 DEF Fetch, Area, Areas, Known, Typed
    <3> HIDE DEF Drained
    <3> QED BY <3>3, <3>4
  <2> QED BY <2>2, <2>3
<1>6. CopyTrue'
  BY <1>1, <1>5, CopyNext
<1> QED BY <1>4, <1>6 DEF Pictures

LEMMA PicturesRefused ==
  ASSUME Known, Typed', NEW x \in Kinds, NEW b \in Buffers, LfbRefused(x, b) PROVE Pictures'
<1>1. /\ UNCHANGED <<use, truth, held>> /\ use.refused
      /\ host' = Drained /\ queue' = Blank
  BY DEF LfbRefused, Locked
<1>2. ~Copies /\ "merge" \notin lfb_dirty
  BY <1>1 DEF Known, Fits, Dirt
<1>3. HostTrue'
  BY <1>1, <1>2, JustDrained
<1>4. CopyTrue'
  BY <1>1, <1>2, CopyNext
<1> QED BY <1>3, <1>4 DEF Pictures

LEMMA PicturesUnlock ==
  ASSUME Known, Typed', NEW x \in Kinds, LfbUnlock(x) PROVE Pictures'
<1> DEFINE b == held[x]
<1>1. /\ UNCHANGED <<use, truth, glfb, grBuffer>> /\ b # NoBuf /\ PutBack(x, b)
      /\ queue' = Blank
  BY DEF LfbUnlock
<1>2. \A y \in Kinds : held'[y] = IF y = x THEN NoBuf ELSE held[y]
  BY DEF LfbUnlock, Known, Typed
<1>w. Writing \in Kinds /\ Reading \in Kinds
  BY DEF Kinds
<1>3. /\ b \in Buffers /\ grBuffer = b /\ lfbPtr[x] = b /\ ~NothingHeld
  BY <1>1 DEF Known, Typed, Holding, NothingHeld
<1>4. CopyTrue'
  <2>1. ASSUME Copies, ~Aside(b), NEW q \in Pixels
        PROVE  truth'[grBuffer'][q] \in {0, glfb'[Area(grBuffer')][q]}
    BY <1>1, <1>3, <2>1, CopyAt DEF Known, Pictures
  <2> HIDE DEF b
  <2> QED BY <1>1, <1>3, <2>1, CopyNext
<1>5. HostTrue'
  <2>1. CASE host' = Drained /\ lfb_dirty' = lfb_dirty /\ (x # Writing \/ Aside(b) \/ ~Copies)
    <3>1. ASSUME NEW c \in Buffers, ~Aside(c), Copies => held'[Writing] # c
          PROVE  Copies => held[Writing] # c
      BY <1>2, <1>w, <2>1, <3>1
    <3> HIDE DEF b
    <3> QED BY <1>1, <2>1, <3>1, JustDrained
  <2>2. CASE Merges /\ b = Back /\ x = Writing /\ host' = Drained /\ lfb_dirty' = {"merge"}
    <3>1. ASSUME NEW c \in Buffers, c = Back => "merge" \notin lfb_dirty'
          PROVE  held[Writing] # c /\ (c = Back => "merge" \notin lfb_dirty)
      BY <2>2, <3>1
    <3> HIDE DEF b
    <3> QED BY <1>1, <2>2, <3>1, JustDrained
  <2>3. CASE /\ x = Writing /\ ~Aside(b) /\ ~use.lfbHandler /\ ~(Merges /\ b = Back)
             /\ host' = vgLfbFlush(Drained, Area(b)) /\ lfb_dirty' = {"fetch"}
    <3>1. "merge" \notin lfb_dirty
      BY <1>3, <2>3 DEF Known, Dirt
    <3>2. CASE Mapped
      <4>1. host' = Drained /\ ~Copies
        BY <2>3, <3>2 DEF vgLfbFlush, Copies
      <4> HIDE DEF b
      <4> QED BY <1>1, <3>1, <4>1, JustDrained
    <3>3. CASE ~Mapped
      <4>1. Copies /\ lfbPtr[Writing] = b /\ b # NoBuf
        BY <1>1, <1>3, <2>3, <3>3 DEF Copies
      <4>2. host' = [Drained EXCEPT ![b] = glfb[Area(b)]]
        <5> HIDE DEF b, Drained
        <5> QED BY <2>3, <3>3, <4>1 DEF vgLfbFlush
      <4>3. \A c \in Buffers : host'[c] = IF c = b THEN glfb[Area(b)] ELSE Drained[c]
        <5>1. Drained \in [Buffers -> Picture]
          BY DrainedType DEF Known
        <5> HIDE DEF b, Drained
        <5> QED BY <4>2, <5>1
      <4>4. \A q \in Pixels : truth[b][q] \in {0, glfb[Area(b)][q]}
        BY <1>3, <2>3, <4>1, CopyAt DEF Known, Pictures
      <4>5. ASSUME NEW c \in Buffers, ~Aside(c), NEW q \in Pixels
            PROVE  truth'[c][q] \in {0, Drained'[c][q]}
        <5>1. Drained'[c][q] = host'[c][q]
          BY <1>1, DrainedNext
        <5>2. CASE c = b
          <6> HIDE DEF b, Drained
          <6> QED BY <1>1, <1>3, <4>3, <4>4, <5>1, <5>2
        <5>3. CASE c # b
          <6>1. held[Writing] # c
            BY <2>3, <5>3
          <6>2. truth[c][q] \in {0, Drained[c][q]}
            BY <3>1, <4>5, <6>1, HostAt DEF Known, Pictures
          <6> HIDE DEF b, Drained
          <6> QED BY <1>1, <4>3, <5>1, <5>3, <6>2
        <5> QED BY <5>2, <5>3
      <4> QED BY <1>1, <4>5, HostNext
    <3> QED BY <3>2, <3>3
  <2>4. use.lfbHandler => ~Copies
    BY DEF Copies
  <2> QED BY <1>1, <2>1, <2>2, <2>3, <2>4 DEF PutBack
<1> QED BY <1>4, <1>5 DEF Pictures

LEMMA PicturesWrite ==
  ASSUME Known, Typed', NEW p \in Pixels, LfbWrite(p) PROVE Pictures'
<1> DEFINE b == held[Writing]
<1>w. Writing \in Kinds /\ Reading \in Kinds /\ Writing # Reading
  BY DEF Kinds, Reading, Writing
<1>1. /\ UNCHANGED <<use, queue, lfb_dirty, held, grBuffer>>
      /\ b \in Buffers /\ ~Aside(b) /\ truth' = [truth EXCEPT ![b][p] = steps']
  BY <1>w DEF LfbWrite, device, Known, Typed
<1>2. queue = Blank /\ lfbPtr[Writing] = b /\ grBuffer = b /\ ~NothingHeld
  BY <1>1, <1>w, NoBufNone DEF Known, Holding, NothingHeld
<1>3. \A c \in Buffers, q \in Pixels :
        truth'[c][q] = IF c = b /\ q = p THEN steps' ELSE truth[c][q]
  <2> HIDE DEF b
  <2> QED BY <1>1 DEF Known, Typed, Picture
<1>4. \A c \in Buffers, q \in Pixels : Drained'[c][q] = host'[c][q]
  BY <1>1, <1>2, DrainedNext
<1>5. \A c \in Buffers, q \in Pixels : Drained[c][q] = host[c][q]
  <2>1. \A q \in Pixels : queue[q] = 0
    BY <1>2 DEF Blank
  <2> QED BY <2>1, DrainedAt DEF Known
<1>6. CASE Copies
  <2>1. host' = host /\ glfb' = [glfb EXCEPT ![Area(b)][p] = steps']
    BY <1>6 DEF LfbWrite, Copies
  <2>2. ASSUME NEW q \in Pixels
        PROVE  glfb'[Area(b)][q] = IF q = p THEN steps' ELSE glfb[Area(b)][q]
    <3>1. Area(b) \in Areas
      BY DEF Area, Areas
    <3> HIDE DEF b
    <3> QED BY <2>1, <3>1 DEF Known, Typed, Picture
  <2>3. CopyTrue'
    <3>1. \A q \in Pixels : truth[b][q] \in {0, glfb[Area(b)][q]}
      BY <1>1, <1>2, <1>6, CopyAt DEF Known, Pictures
    <3>2. \A q \in Pixels : truth'[b][q] \in {0, glfb'[Area(b)][q]}
      <4> HIDE DEF b
      <4> QED BY <1>1, <1>3, <2>2, <3>1
    <3> HIDE DEF b
    <3> QED BY <1>1, <1>2, <3>2, CopyNext
  <2>4. HostTrue'
    <3>1. ASSUME NEW c \in Buffers, ~Aside(c), held'[Writing] # c,
                 c = Back => "merge" \notin lfb_dirty', NEW q \in Pixels
          PROVE  truth'[c][q] \in {0, Drained'[c][q]}
      <4>1. truth[c][q] \in {0, Drained[c][q]}
        BY <1>1, <3>1, HostAt DEF Known, Pictures
      <4> HIDE DEF Drained
      <4> QED BY <1>1, <1>3, <1>4, <1>5, <2>1, <3>1, <4>1
    <3> QED BY <1>1, <1>6, <3>1, HostNext
  <2> QED BY <2>3, <2>4 DEF Pictures
<1>7. CASE ~Copies
  <2>1. host' = [host EXCEPT ![b][p] = steps']
    <3>1. CASE use.lfbHandler
      BY <1>2, <3>1 DEF LfbWrite
    <3>2. CASE ~use.lfbHandler
      <4>1. Mapped /\ b # NoBuf
        BY <1>1, <1>7, <3>2, NoBufNone DEF Copies
      <4>2. [buffer |-> b, readonly |-> FALSE] \in kvm
        BY <1>1, <1>w, <4>1 DEF Known, PagesThere
      <4> QED BY <3>2, <4>1, <4>2 DEF LfbWrite
    <3> QED BY <3>1, <3>2
  <2>2. \A c \in Buffers, q \in Pixels :
          host'[c][q] = IF c = b /\ q = p THEN steps' ELSE host[c][q]
    <3> HIDE DEF b
    <3> QED BY <1>1, <2>1 DEF Known, Typed, Picture
  <2>3. HostTrue'
    <3>1. ASSUME NEW c \in Buffers, ~Aside(c), c = Back => "merge" \notin lfb_dirty', NEW q \in Pixels
          PROVE  truth'[c][q] \in {0, Drained'[c][q]}
      <4>1. truth[c][q] \in {0, Drained[c][q]}
        BY <1>1, <1>7, <3>1, HostAt DEF Known, Pictures
      <4> HIDE DEF b, Drained
      <4> QED BY <1>1, <1>3, <1>4, <1>5, <2>2, <4>1
    <3> QED BY <1>1, <3>1, HostNext
  <2>4. CopyTrue'
    BY <1>1, <1>7, CopyNext
  <2> QED BY <2>3, <2>4 DEF Pictures
<1> QED BY <1>6, <1>7

LEMMA PicturesSwap ==
  ASSUME Known, Typed', BufferSwap PROVE Pictures'
<1>w. /\ Writing \in Kinds /\ Reading \in Kinds
      /\ Front \in Buffers /\ Back \in Buffers /\ Front # Back /\ Back # Aux /\ Back # NoBuf
      /\ \A c \in Buffers : c \in {Front, Back, Aux}
      /\ ~Aside(Back) /\ ~Aside(Front) /\ Area(Back) = "colour"
  BY DEF Kinds, Buffers, Front, Back, Aux, NoBuf, Aside, Area
<1>1. /\ UNCHANGED <<use, glfb, held, grBuffer>> /\ queue' = Blank
      /\ host' = [Presented EXCEPT ![Front] = Presented[Back], ![Back] = Presented[Front]]
      /\ lfb_dirty' = IF use.lfbHandler THEN lfb_dirty ELSE {"fetch"}
      /\ truth' = [truth EXCEPT ![Front] = truth[Back], ![Back] = Blank]
      /\ held[Writing] = NoBuf \/ held[Writing] = Back
      /\ held[Reading] = NoBuf
  BY DEF BufferSwap
<1>2. /\ \A q \in Pixels : truth'[Front][q] = truth[Back][q] /\ truth'[Back][q] = 0
      /\ \A c \in Buffers : c \notin {Front, Back} => truth'[c] = truth[c]
  <2>1. truth \in [Buffers -> Picture]
    BY DEF Known, Typed
  <2>2. \A q \in Pixels : Blank[q] = 0
    BY DEF Blank
  <2> HIDE DEF Front, Back, Buffers
  <2> QED BY <1>1, <1>w, <2>1, <2>2
<1>3. /\ host'[Front] = Presented[Back]
      /\ \A c \in Buffers : c \notin {Front, Back} => host'[c] = Presented[c]
  <2>1. Presented \in [Buffers -> Picture]
    BY PresentedType DEF Known
  <2> HIDE DEF Front, Back, Buffers, Presented
  <2> QED BY <1>1, <1>w, <2>1
<1>d. Drained \in [Buffers -> Picture]
  BY DrainedType DEF Known
<1>4. /\ \A c \in Buffers : c # Back => Presented[c] = Drained[c]
      /\ \/ Presented[Back] = glfb["colour"] /\ Copies
            /\ ("merge" \in lfb_dirty \/ held[Writing] = Back)
         \/ Presented[Back] = Drained[Back] /\ "merge" \notin lfb_dirty
            /\ (Copies => held[Writing] # Back)
  <2>1. CASE use.lfbHandler
    <3>1. Presented = Drained
      BY <2>1 DEF Presented
    <3>2. ~Copies /\ "merge" \notin lfb_dirty
      BY <2>1 DEF Copies, Known, Dirt, Merges
    <3> QED BY <3>1, <3>2
  <2>2. CASE ~use.lfbHandler /\ Mapped
    <3>1. ~Copies /\ "merge" \notin lfb_dirty
      BY <2>2 DEF Copies, Known, Dirt, Fits
    <3>2. Presented = Drained
      <4> HIDE DEF Drained
      <4> QED BY <2>2, <3>1 DEF Presented, vgLfbFlush
    <3> QED BY <3>1, <3>2
  <2>3. CASE Copies
    <3>1. lock[Writing] <=> held[Writing] # NoBuf
      BY <1>w, <2>3 DEF Known, Fits, Pages
    <3>2. held[Writing] # NoBuf => held[Writing] = Back /\ lfbPtr[Writing] = Back /\ grBuffer = Back
      BY <1>1, <1>w DEF Known, Holding
    <3> DEFINE flushed == IF lock[Writing] /\ grBuffer # Aux THEN vgLfbFlush(Drained, "colour")
                          ELSE Drained
    <3>3. Presented = IF "merge" \in lfb_dirty THEN [flushed EXCEPT ![Back] = glfb["colour"]]
                      ELSE flushed
      BY <2>3 DEF Presented, Copies
    <3>4. flushed = IF held[Writing] = Back THEN [Drained EXCEPT ![Back] = glfb["colour"]]
                    ELSE Drained
      <4> HIDE DEF Drained, Back, Aux, NoBuf
      <4> QED BY <1>1, <1>w, <2>3, <3>1, <3>2 DEF vgLfbFlush, Copies
    <3>5. flushed \in [Buffers -> Picture]
      <4>1. glfb["colour"] \in Picture
        BY DEF Known, Typed, Areas
      <4> HIDE DEF flushed, Drained, Back, Buffers
      <4> QED BY <1>w, <1>d, <3>4, <4>1
    <3>6. /\ \A c \in Buffers : c # Back => Presented[c] = flushed[c]
          /\ Presented[Back] = IF "merge" \in lfb_dirty THEN glfb["colour"] ELSE flushed[Back]
      <4> HIDE DEF flushed, Presented, Back, Buffers
      <4> QED BY <1>w, <3>3, <3>5
    <3>7. /\ \A c \in Buffers : c # Back => flushed[c] = Drained[c]
          /\ flushed[Back] = IF held[Writing] = Back THEN glfb["colour"] ELSE Drained[Back]
      <4> HIDE DEF flushed, Drained, Back, Buffers
      <4> QED BY <1>w, <1>d, <3>4
    <3> HIDE DEF flushed, Drained, Presented
    <3> QED BY <2>3, <3>6, <3>7
  <2> QED BY <2>1, <2>2, <2>3 DEF Copies
<1>5. \A q \in Pixels : truth[Back][q] \in {0, Presented[Back][q]}
  <2>1. CASE /\ Presented[Back] = glfb["colour"] /\ Copies
             /\ "merge" \in lfb_dirty \/ held[Writing] = Back
    <3>1. grBuffer = Back /\ (NothingHeld => "fetch" \notin lfb_dirty /\ ~LockDirty)
      BY <1>w, <2>1 DEF Known, Dirt, Fits, Holding, NothingHeld
    <3>2. \A q \in Pixels : truth[grBuffer][q] \in {0, glfb[Area(grBuffer)][q]}
      BY <1>w, <2>1, <3>1, CopyAt DEF Known, Pictures
    <3> QED BY <1>w, <2>1, <3>1, <3>2
  <2>2. CASE /\ Presented[Back] = Drained[Back] /\ "merge" \notin lfb_dirty
             /\ Copies => held[Writing] # Back
    <3>1. \A q \in Pixels : truth[Back][q] \in {0, Drained[Back][q]}
      BY <1>w, <2>2, HostAt DEF Known, Pictures
    <3> HIDE DEF Drained, Presented
    <3> QED BY <2>2, <3>1
  <2> QED BY <1>4, <2>1, <2>2
<1>6. HostTrue'
  <2>1. ASSUME NEW c \in Buffers, ~Aside(c), NEW q \in Pixels
        PROVE  truth'[c][q] \in {0, Drained'[c][q]}
    <3>1. Drained'[c][q] = host'[c][q]
      BY <1>1, DrainedNext
    <3>2. CASE c = Back
      BY <1>2, <3>2
    <3>3. CASE c = Front
      <4>1. truth'[Front][q] \in {0, host'[Front][q]}
        <5> HIDE DEF Presented, Front, Back
        <5> QED BY <1>2, <1>3, <1>5
      <4> QED BY <3>1, <3>3, <4>1
    <3>4. CASE c \notin {Front, Back}
      <4>1. held[Writing] # c /\ c # Back
        BY <1>1, <3>4, NoBufNone
      <4>2. truth[c][q] \in {0, Drained[c][q]}
        BY <2>1, <4>1, HostAt DEF Known, Pictures
      <4> HIDE DEF Presented, Drained, Front, Back
      <4> QED BY <1>2, <1>3, <1>4, <3>1, <3>4, <4>1, <4>2
    <3> QED BY <3>2, <3>3, <3>4
  <2> QED BY <1>1, <2>1, HostNext
<1>7. CopyTrue'
  <2>1. ASSUME Copies, ~\A x \in Kinds : held'[x] = NoBuf PROVE grBuffer' = Back
    <3>1. held[Writing] = Back
      BY <1>1, <2>1 DEF Kinds
    <3> QED BY <1>1, <1>w, <3>1 DEF Known, Holding
  <2>2. Copies => "fetch" \in lfb_dirty'
    BY <1>1 DEF Copies
  <2> QED BY <1>1, <1>2, <2>1, <2>2, CopyNext
<1> QED BY <1>6, <1>7 DEF Pictures

LEMMA PicturesOpen ==
  ASSUME Known, Typed', SstWinOpen PROVE Pictures'
<1>1. use' = use /\ truth' = [c \in Buffers |-> Blank]
  BY DEF SstWinOpen
<1>2. \A c \in Buffers, q \in Pixels : truth'[c][q] = 0
  BY <1>1 DEF Blank
<1>3. grBuffer' \in Buffers
  BY DEF Typed
<1> QED BY <1>1, <1>2, <1>3, HostNext, CopyNext DEF Pictures

LEMMA PicturesStep == ASSUME Known, Typed', [Next]_vars PROVE Pictures'
<1>1. CASE UNCHANGED vars
  BY <1>1, PicturesFrame DEF vars, device, Known
<1> QED BY <1>1, PicturesDraw, PicturesWriteRegion, PicturesLock, PicturesRefused,
           PicturesUnlock, PicturesWrite, PicturesSwap, PicturesOpen DEF Next

LEMMA KnownInit == ASSUME Init, \A u \in Uses : Safe(u) PROVE Known
<1>1. Fits
  BY UseAssumption, SafeFits DEF Init
<1> QED BY <1>1, TypedInit, PagesInit, HoldingInit, DirtInit, PagesThereInit, PicturesInit DEF Known

LEMMA KnownStep == ASSUME Known, [Next]_vars PROVE Known'
<1>1. Typed' /\ Pages' /\ Holding' /\ Dirt' /\ PagesThere'
  BY TypedStep, PagesStep, HoldingStep, DirtStep, PagesThereStep DEF Known
<1>2. use' = use
  BY DEF Next, vars, Draw, LfbWrite, WriteRegion, LfbLock, LfbRefused, LfbUnlock, BufferSwap,
         SstWinOpen
<1>3. Fits'
  BY <1>2, OptionsStay DEF Known, Fits
<1> QED BY <1>1, <1>3, PicturesStep DEF Known

LEMMA KnownFrame == ASSUME Known PROVE FrameTrue
<1>1. ASSUME NEW b \in Buffers, ~Aside(b), held[Writing] # b,
             ~(b = Back /\ "merge" \in lfb_dirty), NEW q \in Pixels
      PROVE  truth[b][q] \in {0, (IF b = Back THEN Over(host[b], queue) ELSE host[b])[q]}
  <2>1. truth[b][q] \in {0, Drained[b][q]}
    BY <1>1, HostAt DEF Known, Pictures
  <2>2. Drained[b][q] = IF b = Back /\ queue[q] # 0 THEN queue[q] ELSE host[b][q]
    BY DrainedAt DEF Known
  <2>3. b = Back => Over(host[b], queue)[q] = IF queue[q] # 0 THEN queue[q] ELSE host[b][q]
    BY DEF Over
  <2> HIDE DEF Drained
  <2> QED BY <2>1, <2>2, <2>3
<1> QED BY <1>1 DEF FrameTrue, Agrees

LEMMA KnownReads == ASSUME Known PROVE ReadsTrue
<1> DEFINE b == held[Reading]
<1> SUFFICES ASSUME b # NoBuf, ~Aside(b)
             PROVE  Agrees(Seen(b), b) /\ (Mapped => \E r \in kvm : r.buffer = b)
  BY DEF ReadsTrue
<1>w. Reading \in Kinds /\ Writing \in Kinds
  BY DEF Kinds
<1>1. b \in Buffers /\ grBuffer = b /\ lfbPtr[Reading] = b /\ queue = Blank /\ ~NothingHeld
  BY <1>w DEF Known, Typed, Holding, NothingHeld
<1>2. Mapped => \E r \in kvm : r.buffer = b
  BY <1>w DEF Known, PagesThere
<1>3. CASE Copies
  <2>1. Seen(b) = glfb[Area(b)]
    BY <1>3 DEF Seen, Copies
  <2>2. Agrees(glfb[Area(b)], b)
    BY <1>1, <1>3 DEF Known, Pictures, CopyTrue
  <2> QED BY <1>2, <2>1, <2>2
<1>4. CASE ~Copies
  <2>1. Seen(b) = host[b]
    BY <1>1, <1>4 DEF Seen, Copies
  <2>2. ASSUME NEW q \in Pixels PROVE truth[b][q] \in {0, host[b][q]}
    <3>1. "merge" \notin lfb_dirty
      BY <1>4 DEF Known, Dirt, Fits
    <3>2. truth[b][q] \in {0, Drained[b][q]}
      BY <1>1, <1>4, <3>1, HostAt DEF Known, Pictures
    <3>3. queue[q] = 0
      BY <1>1 DEF Blank
    <3>4. Drained[b][q] = host[b][q]
      BY <1>1, <3>3, DrainedAt DEF Known
    <3> HIDE DEF Drained, b
    <3> QED BY <3>2, <3>4
  <2>3. Agrees(host[b], b)
    BY <2>2 DEF Agrees
  <2> QED BY <1>2, <2>1, <2>3
<1> QED BY <1>3, <1>4

\* Every program that meets what its options need: drawing, writing through the
\* pointer and swapping in any order, the buffers hold what they would on a board.
\* No copy that is put back takes away what was drawn since it was fetched, and
\* nothing written to a copy is forgotten.
THEOREM FrameTrueAlways == (\A u \in Uses : Safe(u)) /\ Spec => []FrameTrue
<1> SUFFICES ASSUME \A u \in Uses : Safe(u) PROVE Spec => []FrameTrue
  OBVIOUS
<1>1. Init => Known
  BY KnownInit
<1>2. Known /\ [Next]_vars => Known'
  BY KnownStep
<1>3. Known => FrameTrue
  BY KnownFrame
<1> HIDE DEF Known
<1> QED BY <1>1, <1>2, <1>3, PTL DEF Spec

\* Every such program sees through a lock for reading what the buffer holds, what
\* it has drawn and what it writes under a lock of its own included, and the pages
\* it sees it through are there.
THEOREM ReadsTrueAlways == (\A u \in Uses : Safe(u)) /\ Spec => []ReadsTrue
<1> SUFFICES ASSUME \A u \in Uses : Safe(u) PROVE Spec => []ReadsTrue
  OBVIOUS
<1>1. Init => Known
  BY KnownInit
<1>2. Known /\ [Next]_vars => Known'
  BY KnownStep
<1>3. Known => ReadsTrue
  BY KnownReads
<1> HIDE DEF Known
<1> QED BY <1>1, <1>2, <1>3, PTL DEF Spec
=============================================================================
