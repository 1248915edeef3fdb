------------------------------- MODULE HostMaps -------------------------------
(***************************************************************************)
(* Buffer objects mapped by the host (qemu-1/hw/mesa: mglmapbo.c, the map  *)
(* calls of mesapt_mm.c, MGLUpdateGuestBufo of mglcntx_linux.c).           *)
(*                                                                         *)
(* A mapped buffer reaches the guest in one of two ways.  With zero copy   *)
(* the host pages of the mapping become a memory region of the guest, at a *)
(* place in a window (MBUFO) that MapBufObjGpa chooses; the region of the  *)
(* buffer unmapped last is kept standing in case it is mapped again.  With *)
(* one copy the guest works in a staging area, which grows down from the   *)
(* end of the texture area, and the host copies at flush and unmap.        *)
(*                                                                         *)
(* The application is taken to bind a buffer right before it maps, flushes *)
(* or unmaps it: the host knows it as the buffer bound last, on whatever   *)
(* target (BufIdx).                                                        *)
(***************************************************************************)
EXTENDS Integers, Sequences, SequencesExt

CONSTANTS
  Buffers,       \* buffer names
  NoBuffer,      \* the name 0
  Targets,       \* binding targets
  UnpackTarget,  \* GL_PIXEL_UNPACK_BUFFER
  Settings,      \* the start-up settings considered, see Setting
  Hvas,          \* addresses OpenGL maps at; 0 when it refuses
  Sizes,         \* sizes of mappings
  PageSize,      \* host page
  BoAlign,       \* what ALIGNBO rounds up to
  MbufoSize,     \* MBUFO_SIZE, the window
  FbtSize,       \* MGLFBT_SIZE, the texture area
  FbtAddress,    \* fbtm_ptr, where QEMU has it
  MaxMaps,       \* bound: mappings made
  MaxMixed,      \* bound: buffers mapped at a time where not every target has zero copy
  DeletesMapped, \* the application deletes buffers it has mapped
  EndsMapped,    \* a context may go with buffers still mapped
  FlushesElsewhere  \* it flushes a buffer through a target that is mapped the other way

\* What the host reads once at start-up: whether every target is mapped with
\* zero copy (BufOAccelEN), whether the unpack target is (bufo_accel_en), and
\* whether the region unmapped last is kept (FVM3DX_BUFO_KEEP).
Setting == [accelAll : BOOLEAN, accelUnpack : BOOLEAN, keep : BOOLEAN]

ASSUME SizeAssumption ==
  /\ PageSize \in Nat \ {0} /\ BoAlign \in Nat \ {0}
  /\ MbufoSize \in Nat \ {0} /\ MbufoSize % PageSize = 0
  /\ FbtSize \in Nat /\ MaxMaps \in Nat /\ MaxMixed \in Nat
  /\ FbtAddress \in Nat /\ FbtAddress >= MbufoSize   \* a pointer, and far above the window
  /\ Hvas \subseteq Nat /\ Sizes \subseteq Nat \ {0}

ASSUME NameAssumption ==
  /\ NoBuffer \notin Buffers /\ UnpackTarget \in Targets
  /\ Settings \subseteq Setting
  /\ {DeletesMapped, EndsMapped, FlushesElsewhere} \subseteq BOOLEAN

VARIABLES
  setting,    \* the setting in force
  context,    \* a context exists
  bound,      \* OpenGL: the buffer bound to each target
  BufIdx,     \* the buffer bound last
  pbufo,      \* the list of mapped buffers
  szUsedBuf,  \* staging in use, from the end of the texture area
  kept,       \* keptGuestBufo
  kvm,        \* KVM: the regions standing
  ptr,        \* application: where it has each buffer mapped
  maps        \* mappings made so far

vars == <<setting, context, bound, BufIdx, pbufo, szUsedBuf, kept, kvm, ptr, maps>>

NoPtr == [via |-> "none", at |-> 0]
NoRegion == [ga |-> 0, size |-> 0, ha |-> 0, ro |-> FALSE]

Region == [ga : Nat, size : Nat, ha : Nat, ro : BOOLEAN]

\* gpa is a place in the window, or an address of QEMU's in the texture area.
MapBo == {e \in [idx : Buffers, tgt : Targets, ocpy : BOOLEAN, hva : Nat, gpa : Int,
                 mused : Nat, mapsz : Nat, write : BOOLEAN] :
            e.ocpy \/ e.gpa \in 0 .. (MbufoSize - 1)}

TypeOK ==
  /\ setting \in Setting
  /\ context \in BOOLEAN
  /\ bound \in [Targets -> Buffers \cup {NoBuffer}]
  /\ BufIdx \in Buffers \cup {NoBuffer}
  /\ pbufo \in Seq(MapBo)
  /\ szUsedBuf \in Nat
  /\ kept \in [standing : BOOLEAN, region : Region, idx : Buffers \cup {NoBuffer}]
  /\ kvm \subseteq Region
  /\ ptr \in [Buffers -> [via : {"none", "kvm", "fbtm"}, at : Int]]
  /\ maps \in 0 .. MaxMaps

Init ==
  /\ setting \in Settings
  /\ context = FALSE
  /\ bound = [t \in Targets |-> NoBuffer]
  /\ BufIdx = NoBuffer
  /\ pbufo = <<>> /\ szUsedBuf = 0
  /\ kept = [standing |-> FALSE, region |-> NoRegion, idx |-> NoBuffer]
  /\ kvm = {}
  /\ ptr = [b \in Buffers |-> NoPtr]
  /\ maps = 0

-----------------------------------------------------------------------------
(* Addresses. *)

ALIGNBO(n) == IF n % BoAlign # 0 THEN (n \div BoAlign + 1) * BoAlign ELSE n

PageFloor(a) == a - (a % PageSize)
PageOffset(a) == a % PageSize

\* The pages KVM maps for region r.
Pages(r) ==
  LET n == IF r.size % PageSize = 0 THEN r.size ELSE PageFloor(r.size) + PageSize
  IN  r.ga .. (r.ga + n - 1)

\* The stretch of the window that the mappings in list cover.
Lowest(list) == Min({PageFloor(list[k].gpa) : k \in DOMAIN list} \cup {MbufoSize - 1})

\* The offset of the host address, which makes a region longer, is left out.
WrongHighest(list) ==
  Max({PageFloor(list[k].gpa + list[k].mapsz) : k \in DOMAIN list} \cup {0})

Highest(list) ==
  Max({PageFloor(list[k].gpa + list[k].mapsz + PageOffset(list[k].hva)) : k \in DOMAIN list} \cup {0})

\* A mapping is moved below the others without looking whether it fits there.
WrongMapBufObjGpa(earlier, hva, size) ==
  LET natural == hva % MbufoSize
      need == ALIGNBO(size) + PageOffset(hva)
  IN  IF earlier = <<>> \/ natural + need < Lowest(earlier) \/ natural >= Highest(earlier)
      THEN natural ELSE Lowest(earlier) - need

\* The place in the window for a mapping of size bytes at hva, when the
\* mappings before it in the list are earlier: its natural place unless that
\* meets the stretch they cover, else right below or right above that stretch.
MapBufObjGpa(earlier, hva, size) ==
  LET natural == hva % MbufoSize
      need == ALIGNBO(size) + PageOffset(hva)
      lo == Lowest(earlier)
      hi == Highest(earlier)
  IN  IF earlier = <<>> \/ natural + need < lo \/ natural >= hi THEN natural
      ELSE IF lo > need THEN lo - need
      ELSE IF hi + need < MbufoSize THEN hi
      ELSE 0

\* The region of a zero-copy mapping.
RegionOf(e) ==
  [ga |-> PageFloor(e.gpa % MbufoSize), size |-> e.mapsz + PageOffset(e.hva),
   ha |-> PageFloor(e.hva), ro |-> ~e.write]

\* MGLUpdateGuestBufo takes the mapping of this target into its hands.
ZeroCopy(t) == setting.accelAll \/ (setting.accelUnpack /\ t = UnpackTarget)

-----------------------------------------------------------------------------
(* The kept region.  KVM finds a region to remove by its place and size. *)

KvmRemoved(r) == {s \in kvm : ~(s.ga = r.ga /\ Pages(s) = Pages(r))}

\* MGLRemoveKeptGuestBufo
WithoutKept == IF kept.standing THEN KvmRemoved(kept.region) ELSE kvm

\* Whether the host pages are the same is not looked at.
WrongIsKept(r) == kept.standing /\ kept.region.ga = r.ga /\ kept.region.size = r.size

IsKept(r) == kept.standing /\ kept.region = r

NotKept == [kept EXCEPT !.standing = FALSE]

\* A region that is the kept one is there already; any other takes its place.
Replaced(r) == IF IsKept(r) THEN kvm ELSE WithoutKept \cup {r}

\* update_guest_bufo_region, add.
AddRegion(r) ==
  /\ kept' = IF setting.keep THEN NotKept ELSE kept
  /\ kvm' = IF setting.keep THEN Replaced(r) ELSE kvm \cup {r}

\* The region kept so far is forgotten and never removed.
WrongRemoveRegion(r, b) ==
  /\ kept' = [standing |-> TRUE, region |-> r, idx |-> b]
  /\ kvm' = kvm

\* update_guest_bufo_region, remove: this region is the kept one now.
RemoveRegion(r, b) ==
  IF setting.keep
  THEN kept' = [standing |-> TRUE, region |-> r, idx |-> b] /\ kvm' = WithoutKept
  ELSE kept' = kept /\ kvm' = KvmRemoved(r)

-----------------------------------------------------------------------------
(* The list. *)

\* LookupBufObj: where buffer b is in the list, or would be added.
Place(b) ==
  LET S == {k \in DOMAIN pbufo : pbufo[k].idx = b}
  IN  IF S = {} THEN Len(pbufo) + 1 ELSE Min(S)

\* FreeBufObj
Freed(b) == IF Place(b) <= Len(pbufo) THEN RemoveAt(pbufo, Place(b)) ELSE pbufo

Put(k, e) == IF k <= Len(pbufo) THEN [pbufo EXCEPT ![k] = e] ELSE Append(pbufo, e)

-----------------------------------------------------------------------------
(* Operations. *)

\* The context goes, and its objects with it (0xFF4, 0xD0320).
DeleteContext ==
  /\ context
  /\ EndsMapped \/ \A b \in Buffers : ptr[b] = NoPtr
  /\ context' = FALSE
  /\ kept' = NotKept /\ kvm' = WithoutKept
  /\ bound' = [t \in Targets |-> NoBuffer]
  /\ ptr' = [b \in Buffers |-> NoPtr]
  /\ UNCHANGED <<setting, BufIdx, pbufo, szUsedBuf, maps>>

\* ContextCreateCommon
CreateContext ==
  /\ ~context
  /\ context' = TRUE
  /\ szUsedBuf' = 0 /\ pbufo' = <<>>
  /\ kept' = NotKept /\ kvm' = WithoutKept
  /\ UNCHANGED <<setting, bound, BufIdx, ptr, maps>>

BindBuffer(t, b) ==
  /\ context
  /\ bound' = [bound EXCEPT ![t] = b]
  /\ BufIdx' = b
  /\ UNCHANGED <<setting, context, pbufo, szUsedBuf, kept, kvm, ptr, maps>>

\* OpenGL never maps two buffers at the same host addresses.
HostFree(hva, size) ==
  \A k \in DOMAIN pbufo : ptr[pbufo[k].idx] # NoPtr =>
    \/ hva = 0 \/ pbufo[k].hva = 0
    \/ hva + size <= pbufo[k].hva \/ pbufo[k].hva + pbufo[k].mapsz <= hva

\* SZFBT_VALID, of a mapping OpenGL has made.
SZFBT_VALID(n, hva) == IF hva # 0 /\ n > FbtSize THEN FbtSize ELSE n

\* glMapBuffer and glMapBufferRange: processArgs, the call, processFRet.
MapBuffer(t, hva, size, write) ==
  LET b == bound[t]
      k == Place(b)
      used == SZFBT_VALID(szUsedBuf, hva)
      gpa == IF ZeroCopy(t) THEN MapBufObjGpa(SubSeq(pbufo, 1, k - 1), hva, size)
             ELSE FbtAddress + FbtSize - used
      copied == k <= Len(pbufo) /\ pbufo[k].ocpy    \* ocpy is only ever set
      e == [idx |-> b, tgt |-> t, ocpy |-> copied \/ ~ZeroCopy(t), hva |-> hva, gpa |-> gpa,
            mused |-> szUsedBuf, mapsz |-> size, write |-> write]
  IN  /\ context /\ b # NoBuffer /\ BufIdx = b /\ ptr[b] = NoPtr
      /\ maps < MaxMaps /\ maps' = maps + 1
      /\ setting.accelAll \/ Cardinality({o \in Buffers : ptr[o] # NoPtr}) < MaxMixed
      /\ HostFree(hva, size)
      /\ pbufo' = Put(k, e)
      /\ IF ZeroCopy(t)
         THEN /\ AddRegion(RegionOf(e))
              /\ szUsedBuf' = used
              /\ ptr' = [ptr EXCEPT ![b] = [via |-> "kvm", at |-> gpa]]
         ELSE /\ szUsedBuf' = used + ALIGNBO(size)
              /\ ptr' = [ptr EXCEPT ![b] = [via |-> "fbtm", at |-> FbtSize - szUsedBuf']]
              /\ UNCHANGED <<kept, kvm>>
      /\ UNCHANGED <<setting, context, bound, BufIdx>>

\* glFlushMappedBufferRange: the mapping belongs to the target named here from now on.
FlushMappedBufferRange(t) ==
  LET b == bound[t]
      k == Place(b)
  IN  /\ context /\ b # NoBuffer /\ BufIdx = b /\ ptr[b] # NoPtr
      /\ k <= Len(pbufo) /\ pbufo[k].write
      /\ FlushesElsewhere \/ ZeroCopy(t) = ZeroCopy(pbufo[k].tgt)
      /\ pbufo' = [pbufo EXCEPT ![k].tgt = t]
      /\ UNCHANGED <<setting, context, bound, BufIdx, szUsedBuf, kept, kvm, ptr, maps>>

\* Every one-copy mapping gives its staging back, the last one or not.
WrongUnstaged(e) == IF ZeroCopy(e.tgt) THEN szUsedBuf ELSE szUsedBuf - ALIGNBO(e.mapsz)

\* The staging in use without mapping e: only the last area can be given back.
Unstaged(e) ==
  IF ~ZeroCopy(e.tgt) /\ szUsedBuf = e.mused + ALIGNBO(e.mapsz)
  THEN szUsedBuf - ALIGNBO(e.mapsz) ELSE szUsedBuf

\* The list is emptied, the staging not.
WrongUnmapBuffer(t) ==
  LET b == bound[t]
      e == pbufo[Place(b)]
  IN  /\ context /\ b # NoBuffer /\ BufIdx = b /\ ptr[b] # NoPtr
      /\ Place(b) <= Len(pbufo)
      /\ pbufo' = Freed(b)
      /\ IF ZeroCopy(e.tgt) THEN RemoveRegion(RegionOf(e), b) ELSE UNCHANGED <<kept, kvm>>
      /\ szUsedBuf' = Unstaged(e)
      /\ ptr' = [ptr EXCEPT ![b] = NoPtr]
      /\ UNCHANGED <<setting, context, bound, BufIdx, maps>>

\* glUnmapBuffer
UnmapBuffer(t) ==
  LET b == bound[t]
      e == pbufo[Place(b)]
  IN  /\ context /\ b # NoBuffer /\ BufIdx = b /\ ptr[b] # NoPtr
      /\ Place(b) <= Len(pbufo)
      /\ pbufo' = Freed(b)
      /\ IF ZeroCopy(e.tgt) THEN RemoveRegion(RegionOf(e), b) ELSE UNCHANGED <<kept, kvm>>
      /\ szUsedBuf' = IF Freed(b) = <<>> THEN 0 ELSE Unstaged(e)
      /\ ptr' = [ptr EXCEPT ![b] = NoPtr]
      /\ UNCHANGED <<setting, context, bound, BufIdx, maps>>

\* glDeleteBuffers of one buffer, which OpenGL unbinds and unmaps.
DeleteBuffer(b) ==
  /\ context
  /\ DeletesMapped \/ ptr[b] = NoPtr
  /\ kept' = IF kept.idx = b THEN NotKept ELSE kept
  /\ kvm' = IF kept.idx = b THEN WithoutKept ELSE kvm
  /\ bound' = [t \in Targets |-> IF bound[t] = b THEN NoBuffer ELSE bound[t]]
  /\ ptr' = [ptr EXCEPT ![b] = NoPtr]
  /\ UNCHANGED <<setting, context, BufIdx, pbufo, szUsedBuf, maps>>

Next ==
  \/ DeleteContext \/ CreateContext
  \/ \E t \in Targets, b \in Buffers \cup {NoBuffer} : BindBuffer(t, b)
  \/ \E t \in Targets, hva \in Hvas, size \in Sizes, write \in BOOLEAN : MapBuffer(t, hva, size, write)
  \/ \E t \in Targets : FlushMappedBufferRange(t) \/ UnmapBuffer(t)
  \/ \E b \in Buffers : DeleteBuffer(b)

Spec == Init /\ [][Next]_vars

-----------------------------------------------------------------------------
(* What must hold. *)

\* "No two of them overlap": KVM refuses a region that meets another one.
RegionsDisjoint == \A r, s \in kvm : r # s => Pages(r) \cap Pages(s) = {}

\* The regions standing are those of the buffers mapped with zero copy, each of
\* its own, and the kept one: nothing is left behind and nothing is taken away
\* from under a mapping, whoever reused or replaced the kept region.
RegionsAccounted ==
  LET live == {k \in DOMAIN pbufo : ~pbufo[k].ocpy}
  IN  /\ kvm = {RegionOf(pbufo[k]) : k \in live} \cup (IF kept.standing THEN {kept.region} ELSE {})
      /\ \A j, k \in live : RegionOf(pbufo[j]) = RegionOf(pbufo[k]) => j = k
      /\ kept.standing => \A k \in live : RegionOf(pbufo[k]) # kept.region

\* Where the pages end that region r fills.
WholeEnd(r) == r.ga + PageFloor(r.size)

\* Two regions meet at most in a page that one of them does not fill, its last: a
\* mapping MapBufObjGpa moves begins in that page at the earliest, and one that it
\* leaves where it is too.
MeetInPartPages ==
  \A r, s \in kvm : r # s => WholeEnd(r) <= s.ga \/ WholeEnd(s) <= r.ga

\* A mapping has found a place beside those before it in the list, and not only 0.
HasPlace(earlier, hva, size) ==
  LET natural == hva % MbufoSize
      need == ALIGNBO(size) + PageOffset(hva)
  IN  \/ earlier = <<>> \/ natural + need < Lowest(earlier) \/ natural >= Highest(earlier)
      \/ Lowest(earlier) > need \/ Highest(earlier) + need < MbufoSize

\* The window has room for what is mapped.
RoomFound ==
  \A k \in DOMAIN pbufo :
    ~pbufo[k].ocpy => HasPlace(SubSeq(pbufo, 1, k - 1), pbufo[k].hva, pbufo[k].mapsz)

\* The host address that the application's pointer to mapping e leads to, through
\* the region of that mapping.
LeadsTo(e) == RegionOf(e).ha + (ptr[e.idx].at - RegionOf(e).ga)

\* Whether the place of mapping e has the offset in its page that its host address
\* has: where it is not moved, or there is no offset and it is of whole pages.
KeepsOffset(e) ==
  e.gpa = e.hva % MbufoSize \/ (PageOffset(e.hva) = 0 /\ PageOffset(ALIGNBO(e.mapsz)) = 0)

\* The pointer the application was given leads through the mapping's own region
\* to the page with the first byte OpenGL mapped, wherever MapBufObjGpa moved it
\* and whatever region was kept and reused; and to that byte itself where the
\* offset is kept.
PointerRight ==
  \A k \in DOMAIN pbufo : LET e == pbufo[k] IN
    ptr[e.idx].via = "kvm" /\ e.hva # 0 =>
      /\ RegionOf(e) \in kvm /\ ptr[e.idx].at \in Pages(RegionOf(e))
      /\ PageFloor(LeadsTo(e)) = PageFloor(e.hva)
      /\ KeepsOffset(e) => LeadsTo(e) = e.hva

\* To that byte in every case: false, since the place a mapping is moved to has
\* nothing of the offset of its host address.
PointerExact ==
  \A k \in DOMAIN pbufo : LET e == pbufo[k] IN
    ptr[e.idx].via = "kvm" /\ e.hva # 0 => LeadsTo(e) = e.hva

\* Where the host takes the area of a one-copy mapping to begin, which ends at gpa.
AreaStart(e) == e.gpa - ALIGNBO(e.mapsz) - FbtAddress

\* The part of the texture area that is used for it.
Area(e) == AreaStart(e) .. (AreaStart(e) + ALIGNBO(e.mapsz) - 1)

OneCopy == {k \in DOMAIN pbufo : pbufo[k].ocpy /\ ptr[pbufo[k].idx] # NoPtr}

\* One-copy mappings have an area each, in whatever order they are unmapped, and
\* guest and host mean the same area.
OwnArea ==
  \A k \in OneCopy :
    /\ ptr[pbufo[k].idx].at = AreaStart(pbufo[k])
    /\ \A j \in OneCopy : j # k => Area(pbufo[j]) \cap Area(pbufo[k]) = {}

\* When nothing is mapped, all staging is free again.
StagingFreed == (\A b \in Buffers : ptr[b] = NoPtr) /\ context => szUsedBuf = 0

\* SZFBT_VALID means to keep staging inside the texture area.
InsideTextureArea == \A k \in OneCopy : Area(pbufo[k]) \subseteq 0 .. (FbtSize - 1)
=============================================================================
