------------------------ MODULE MappedUploads_proofs ------------------------
(***************************************************************************)
(* Proofs about MappedUploads, for any number of buffers, targets,         *)
(* contexts, vertex arrays and slots, and any sizes.                       *)
(***************************************************************************)
EXTENDS MappedUploads, FiniteSetTheorems, WellFoundedInduction, TLAPS

-----------------------------------------------------------------------------
(* Bindings. *)

\* The types of OpenGL's bindings and of what the wrapper tracks of them.
BindingTypes ==
  /\ current \in Contexts
  /\ bound \in [Contexts -> [Targets -> Buffers \cup {NoBuffer}]]
  /\ vao \in [Contexts -> VAOs]
  /\ elem \in [Contexts -> [VAOs -> Buffers \cup {NoBuffer}]]
  /\ alive \subseteq Buffers
  /\ tracked \in [Targets -> Buffers \cup {NoBuffer, NotTracked}]

\* Targets whose tracked binding can be relied on: all, if the application has no
\* way to bind behind the wrapper's back, or those it has bound with glBindBuffer.
Vouched(t) == UntrackedBinds = {} \/ t \in named

BindingInv ==
  /\ BindingTypes
  /\ \A t \in Targets : Vouched(t) => tracked[t] \in {NotTracked, Bound(t)}

\* What the application starts with: nothing bound, nothing tracked.
LEMMA BindingStart == Init => BindingInv
  BY NamesAssumption DEF Init, BindingInv, BindingTypes

\* OpenGL's side of a bind.
LEMMA BoundTypes ==
  ASSUME BindingTypes, NEW t \in Targets, NEW b \in alive \cup {NoBuffer}, GLBind(t, b)
  PROVE  /\ bound' \in [Contexts -> [Targets -> Buffers \cup {NoBuffer}]]
         /\ elem' \in [Contexts -> [VAOs -> Buffers \cup {NoBuffer}]]
<1> USE DEF BindingTypes
<1>1. b \in Buffers \cup {NoBuffer} /\ vao[current] \in VAOs
  OBVIOUS
<1>2. bound' \in [Contexts -> [Targets -> Buffers \cup {NoBuffer}]]
  <2>1. CASE t = ElementTarget
    BY <2>1 DEF GLBind
  <2>2. CASE t # ElementTarget
    <3>1. [bound[current] EXCEPT ![t] = b] \in [Targets -> Buffers \cup {NoBuffer}]
      BY <1>1
    <3>2. bound' = [bound EXCEPT ![current] = [bound[current] EXCEPT ![t] = b]]
      BY <2>2 DEF GLBind
    <3> QED BY <3>1, <3>2
  <2> QED BY <2>1, <2>2
<1>3. elem' \in [Contexts -> [VAOs -> Buffers \cup {NoBuffer}]]
  <2>1. CASE t # ElementTarget
    BY <2>1 DEF GLBind
  <2>2. CASE t = ElementTarget
    <3>1. [elem[current] EXCEPT ![vao[current]] = b] \in [VAOs -> Buffers \cup {NoBuffer}]
      BY <1>1
    <3>2. elem' = [elem EXCEPT ![current] = [elem[current] EXCEPT ![vao[current]] = b]]
      BY <2>2 DEF GLBind
    <3> QED BY <3>1, <3>2
  <2> QED BY <2>1, <2>2
<1> QED BY <1>2, <1>3

\* A bind the wrapper notes, and one it only knows to have happened.
LEMMA BindingBind ==
  ASSUME BindingInv, NEW t \in Targets, NEW b \in alive \cup {NoBuffer},
         BindBuffer(t, b) \/ BindBufferNV(t, b)
  PROVE  BindingInv'
<1>1. \A u \in Targets : tracked'[u] \in {tracked[u], b, NotTracked} /\ (u # t => tracked'[u] = tracked[u])
  BY DEF BindBuffer, BindBufferNV, binding_note, binding_forget, BindingInv, BindingTypes
<1>2. tracked'[t] \in {b, NotTracked}
  BY DEF BindBuffer, BindBufferNV, binding_note, binding_forget, BindingInv, BindingTypes
<1>3. tracked' \in [Targets -> Buffers \cup {NoBuffer, NotTracked}]
  BY DEF BindBuffer, BindBufferNV, binding_note, binding_forget, BindingInv, BindingTypes
<1>4. GLBind(t, b) /\ current' = current /\ vao' = vao /\ alive' = alive
  BY DEF BindBuffer, BindBufferNV
<1>5. BindingTypes'
  BY <1>3, <1>4, BoundTypes DEF BindingInv, BindingTypes
<1>6. Bound(t)' = b /\ \A u \in Targets : u # t => Bound(u)' = Bound(u)
  BY <1>4 DEF GLBind, Bound, BindingInv, BindingTypes
<1>7. named' = named \cup {t} \/ named' = named \ {t}
  BY DEF BindBuffer, BindBufferNV
<1> QED
  BY <1>1, <1>2, <1>5, <1>6, <1>7 DEF BindingInv, Vouched

\* A bind the wrapper does not see is not one with glBindBuffer.
LEMMA BindingOffset ==
  ASSUME BindingInv, NEW t \in Targets, NEW b \in alive \cup {NoBuffer}, BindBufferOffset(t, b)
  PROVE  BindingInv'
<1>1. /\ t \in UntrackedBinds /\ t \notin named' /\ named' \subseteq named
      /\ GLBind(t, b) /\ UNCHANGED <<current, vao, alive, tracked>>
  BY DEF BindBufferOffset, wrapper
<1>2. BindingTypes'
  BY <1>1, BoundTypes DEF BindingInv, BindingTypes
<1>3. \A u \in Targets : u # t => Bound(u)' = Bound(u)
  BY <1>1 DEF GLBind, Bound, BindingInv, BindingTypes
<1> QED
  BY <1>1, <1>2, <1>3 DEF BindingInv, Vouched

\* Another vertex array or context: what may have changed is forgotten.
LEMMA BindingSwitch ==
  ASSUME BindingInv,
         \/ \E v \in VAOs : BindVertexArray(v) \/ DeleteVertexArrays(v)
         \/ \E c \in Contexts : MakeCurrent(c)
  PROVE  BindingInv'
<1>1. CASE \E v \in VAOs : BindVertexArray(v) \/ DeleteVertexArrays(v)
  <2>1. BindingTypes'
    <3> USE DEF BindingInv, BindingTypes
    <3> PICK v \in VAOs : BindVertexArray(v) \/ DeleteVertexArrays(v)
      BY <1>1
    <3>1. vao' \in [Contexts -> VAOs]
      BY NamesAssumption DEF BindVertexArray, DeleteVertexArrays
    <3>2. [elem[current] EXCEPT ![v] = NoBuffer] \in [VAOs -> Buffers \cup {NoBuffer}]
      OBVIOUS
    <3>3. elem' \in {elem, [elem EXCEPT ![current] = [elem[current] EXCEPT ![v] = NoBuffer]]}
      BY DEF BindVertexArray, DeleteVertexArrays
    <3>4. elem' \in [Contexts -> [VAOs -> Buffers \cup {NoBuffer}]]
      BY <3>2, <3>3
    <3>5. UNCHANGED <<current, bound, alive>> /\ tracked' = binding_forget(ElementTarget)
      BY DEF BindVertexArray, DeleteVertexArrays
    <3> QED BY <3>1, <3>4, <3>5, NamesAssumption DEF binding_forget
  <2>2. \A u \in Targets : IF u = ElementTarget THEN tracked'[u] = NotTracked
                           ELSE tracked'[u] = tracked[u] /\ Bound(u)' = Bound(u)
    BY <1>1 DEF BindVertexArray, DeleteVertexArrays, binding_forget, Bound, BindingInv, BindingTypes
  <2>3. named' \subseteq named
    BY <1>1 DEF BindVertexArray, DeleteVertexArrays
  <2> QED
    BY <2>1, <2>2, <2>3 DEF BindingInv, Vouched
<1>2. CASE \E c \in Contexts : MakeCurrent(c)
  BY <1>2 DEF MakeCurrent, binding_forget_all, BindingInv, BindingTypes
<1> QED
  BY <1>1, <1>2

\* Deleted buffers are unbound on both sides.
LEMMA BindingDelete ==
  ASSUME BindingInv, NEW S \in SUBSET alive, DeleteBuffers(S)
  PROVE  BindingInv'
<1>1. NotTracked \notin S
  BY NamesAssumption DEF BindingInv, BindingTypes
<1>2. BindingTypes'
  BY DEF DeleteBuffers, ForgottenBindings, BindingInv, BindingTypes
<1>3. \A u \in Targets : Bound(u)' = IF Bound(u) \in S THEN NoBuffer ELSE Bound(u)
  BY DEF DeleteBuffers, Bound, BindingInv, BindingTypes
<1>4. \A u \in Targets : tracked'[u] = IF tracked[u] \in S THEN NoBuffer ELSE tracked[u]
  BY DEF DeleteBuffers, ForgottenBindings
<1>5. named' = named
  BY DEF DeleteBuffers
<1> QED
  BY <1>1, <1>2, <1>3, <1>4, <1>5 DEF BindingInv, Vouched

\* All other steps leave the bindings alone, and the names as far as they matter.
LEMMA BindingFrame ==
  ASSUME BindingInv, UNCHANGED <<bindings, tracked, named>>, alive' \subseteq Buffers
  PROVE  BindingInv'
  BY DEF bindings, BindingInv, BindingTypes, Vouched, Bound

\* Mapping, writing, flushing and unmapping bind nothing.
LEMMA MappingBindsNothing ==
  ASSUME Mapping
  PROVE  UNCHANGED <<bindings, tracked, alive, named>>
<1> USE DEF gl, wrapper
<1>1. \A t \in Targets, offset \in Cells, length \in 1 .. BufferSize, access \in Accesses :
        MapInGuest(t, offset, length, access) => UNCHANGED <<bindings, tracked, alive, named>>
  BY DEF MapInGuest
<1>2. \A t \in Targets, offset \in Cells, length \in 1 .. BufferSize, access \in Accesses :
        MapOnHost(t, offset, length, access) => UNCHANGED <<bindings, tracked, alive, named>>
  BY DEF MapOnHost
<1>3. \A t \in Targets : MapBuffer(t) \/ BufferData(t) => UNCHANGED <<bindings, tracked, alive, named>>
  BY DEF MapBuffer, BufferData
<1>4. \A t \in Targets : UnmapInGuest(t) \/ UnmapOnHost(t) => UNCHANGED <<bindings, tracked, alive, named>>
  BY DEF UnmapInGuest, UnmapOnHost, Unmapped
<1>5. \A t \in Targets, rangeOffset \in Cells, count \in 0 .. BufferSize :
        FlushMappedBufferRange(t, rangeOffset, count) => UNCHANGED <<bindings, tracked, alive, named>>
  BY DEF FlushMappedBufferRange
<1>6. \A b \in Buffers, x \in Cells : WriteMapped(b, x) => UNCHANGED <<bindings, tracked, alive, named>>
  BY DEF WriteMapped
<1> QED
  BY <1>1, <1>2, <1>3, <1>4, <1>5, <1>6 DEF Mapping

\* Every step keeps the bindings tracked.
LEMMA BindingStep ==
  ASSUME BindingInv, [Next]_vars
  PROVE  BindingInv'
<1>1. CASE Mapping
  BY <1>1, MappingBindsNothing, BindingFrame DEF BindingInv, BindingTypes
<1>2. CASE \E t \in Targets, b \in alive \cup {NoBuffer} :
             BindBuffer(t, b) \/ BindBufferNV(t, b) \/ BindBufferOffset(t, b)
  BY <1>2, BindingBind, BindingOffset
<1>3. CASE \/ \E v \in VAOs : BindVertexArray(v) \/ DeleteVertexArrays(v)
           \/ \E c \in Contexts : MakeCurrent(c)
  BY <1>3, BindingSwitch
<1>4. CASE \E S \in SUBSET alive : DeleteBuffers(S)
  BY <1>4, BindingDelete
<1>5. CASE \E b \in Buffers : GenBuffer(b)
  <2>1. UNCHANGED <<bindings, tracked, named>> /\ alive' \subseteq Buffers
    BY <1>5 DEF GenBuffer, wrapper, BindingInv, BindingTypes
  <2> QED BY <2>1, BindingFrame
<1>6. CASE UNCHANGED vars
  <2>1. UNCHANGED <<bindings, tracked, named>> /\ alive' \subseteq Buffers
    BY <1>6 DEF vars, gl, wrapper, app, BindingInv, BindingTypes
  <2> QED BY <2>1, BindingFrame
<1> QED
  BY <1>1, <1>2, <1>3, <1>4, <1>5, <1>6 DEF Next, Binding

\* trackedBindings (wrapgl32.c:650-706) never names a buffer OpenGL does not have
\* bound to the target, through every bind, vertex array, context and deletion,
\* if no buffer is bound with glBindBufferOffset{EXT,NV}.
THEOREM BindingsTracked ==
  ASSUME UntrackedBinds = {}
  PROVE  Spec => []TrackedTrue
<1>1. Init => BindingInv
  BY BindingStart
<1>2. BindingInv /\ [Next]_vars => BindingInv'
  BY BindingStep
<1>3. BindingInv => TrackedTrue
  BY DEF BindingInv, Vouched, TrackedTrue
<1> HIDE DEF BindingInv, TrackedTrue
<1> QED
  BY <1>1, <1>2, <1>3, PTL DEF Spec

-----------------------------------------------------------------------------
(* Slots. *)

SlotTypes ==
  /\ slots \in [Slots -> Slot]
  /\ map \in [Buffers -> MapRecord \cup {NotMapped}]
  /\ steps \in 0 .. MaxSteps

SlotInv == SlotTypes /\ OwnSlot

\* First chooses a member: the slots are well ordered.
LEMMA FirstIsMember ==
  ASSUME NEW S \in SUBSET Slots, S # {}
  PROVE  First(S) \in S
<1>1. S \subseteq Nat
  BY SizesAssumption DEF Slots
<1>2. PICK s \in S : \A r \in S : ~(<<r, s>> \in OpToRel(<, Nat))
  BY <1>1, NatLessThanWellFounded, WFMin
<1>3. ASSUME NEW r \in S PROVE s <= r
  <2>1. r \in Nat /\ s \in Nat
    BY <1>1
  <2>2. r < s => <<r, s>> \in OpToRel(<, Nat)
    BY <2>1, Zenon DEF OpToRel
  <2>3. ~(r < s)
    BY <1>2, <2>2, Zenon
  <2> QED BY <2>1, <2>3
<1> QED
  BY <1>3 DEF First

\* What mapped_upload_of_buffer finds is the buffer's own slot.
LEMMA FoundSlot ==
  ASSUME NEW b, NEW s, s = mapped_upload_of_buffer(b), s # NoSlot
  PROVE  s \in Slots /\ slots[s].active /\ slots[s].buffer = b /\ b # NoBuffer
<1>1. ActiveFor(b) \in SUBSET Slots /\ ActiveFor(b) # {}
  BY DEF mapped_upload_of_buffer, ActiveFor
<1>2. s \in ActiveFor(b)
  BY <1>1, FirstIsMember DEF mapped_upload_of_buffer
<1> QED
  BY <1>2 DEF ActiveFor

\* What mapped_upload_begin takes is free or the buffer's own.
LEMMA TakenSlot ==
  ASSUME NEW b, NEW s, s = SlotFor(b), s # NoSlot
  PROVE  s \in Slots /\ b # NoBuffer /\ (slots[s].active => slots[s].buffer = b)
<1> DEFINE free == {r \in Slots : ~slots[r].active}
<1>1. b # NoBuffer /\ ActiveFor(b) \cup free # {}
  BY DEF SlotFor
<1>2. CASE ActiveFor(b) # {}
  <2>1. s = First(ActiveFor(b)) /\ ActiveFor(b) \in SUBSET Slots
    BY <1>1, <1>2 DEF SlotFor, ActiveFor
  <2> QED BY <1>1, <1>2, <2>1, FirstIsMember DEF ActiveFor
<1>3. CASE ActiveFor(b) = {}
  <2>1. s = First(free) /\ free # {} /\ free \in SUBSET Slots
    BY <1>1, <1>3 DEF SlotFor
  <2> QED BY <1>1, <2>1, FirstIsMember
<1> QED
  BY <1>2, <1>3

\* ALIGNED rounds up.
LEMMA AlignedUp ==
  ASSUME NEW n \in Nat
  PROVE  Aligned(n) \in Nat /\ n <= Aligned(n)
<1>1. Align \in Nat \ {0}
  BY SizesAssumption
<1>2. n \div Align \in Nat /\ n % Align \in 0 .. (Align - 1) /\ n = Align * (n \div Align) + (n % Align)
  BY <1>1, SMT
<1>3. \A q \in Nat : (q + 1) * Align = Align * q + Align /\ (q + 1) * Align \in Nat
  BY <1>1, SMT
<1> QED
  BY <1>1, <1>2, <1>3 DEF Aligned

\* Guest mappings that stay keep their slots as they are, except for the bytes.
SameMapping(s) ==
  /\ slots'[s].active = slots[s].active /\ slots'[s].buffer = slots[s].buffer
  /\ slots'[s].offset = slots[s].offset /\ slots'[s].length = slots[s].length
  /\ slots'[s].access = slots[s].access /\ slots'[s].capacity = slots[s].capacity

\* A step that makes no guest mapping and disturbs none.
LEMMA SlotFrame ==
  ASSUME SlotInv, SlotTypes',
         \A b \in Buffers : map'[b].via = "guest" => map'[b] = map[b] /\ SameMapping(map[b].slot)
  PROVE  SlotInv'
  BY DEF SlotInv, OwnSlot, SameMapping

\* What a mapping record says.
LEMMA MapTypes ==
  ASSUME SlotTypes, NEW b \in Buffers
  PROVE  /\ map[b].via \in {"none", "guest", "host"}
         /\ map[b] = NotMapped => map[b].via = "none"
         /\ map[b].via = "guest" =>
              /\ map[b].slot \in Slots /\ map[b].offset \in Nat /\ map[b].length \in Nat
              /\ map[b].access \in SUBSET Bits
  BY DEF SlotTypes, MapRecord, NotMapped

\* No mapping and no slot to begin with.
LEMMA SlotStart == Init => SlotInv
<1> SUFFICES ASSUME Init PROVE SlotInv
  OBVIOUS
<1>1. [x \in Cells |-> 0] \in [Cells -> Values]
  BY SizesAssumption DEF Values
<1>2. slots \in [Slots -> Slot]
  BY <1>1, SizesAssumption DEF Init, Slot
<1>3. \A b \in Buffers : map[b].via = "none"
  BY DEF Init, NotMapped
<1>4. OwnSlot
  BY <1>3 DEF OwnSlot
<1>5. map \in [Buffers -> MapRecord \cup {NotMapped}] /\ steps \in 0 .. MaxSteps
  BY SizesAssumption DEF Init
<1> QED
  BY <1>2, <1>4, <1>5 DEF SlotInv, SlotTypes

\* Slots that are given up keep their types.
LEMMA DeactivateTypes ==
  ASSUME SlotTypes, NEW S
  PROVE  /\ Deactivate(S) \in [Slots -> Slot]
         /\ \A s \in Slots \ S : Deactivate(S)[s] = slots[s]
  BY DEF SlotTypes, Deactivate, Slot

\* Giving up slots that are not the slot of any guest mapping that stays.
LEMMA SlotGiveUp ==
  ASSUME SlotInv, NEW S, slots' = Deactivate(S), steps' \in 0 .. MaxSteps,
         map' \in [Buffers -> MapRecord \cup {NotMapped}],
         \A b \in Buffers : map'[b].via = "guest" => map'[b] = map[b] /\ map[b].slot \notin S
  PROVE  SlotInv'
<1>1. SlotTypes'
  BY DeactivateTypes DEF SlotInv, SlotTypes
<1>2. \A b \in Buffers : map'[b].via = "guest" => map'[b] = map[b] /\ SameMapping(map[b].slot)
  BY DeactivateTypes, MapTypes DEF SlotInv, SameMapping
<1> QED
  BY <1>1, <1>2, SlotFrame

\* Steps that leave the slots alone and make no guest mapping.
LEMMA SlotQuiet ==
  ASSUME SlotInv, slots' = slots, steps' \in 0 .. MaxSteps,
         map' \in [Buffers -> MapRecord \cup {NotMapped}],
         \A b \in Buffers : map'[b].via = "guest" => map'[b] = map[b]
  PROVE  SlotInv'
  BY SlotFrame DEF SlotInv, SlotTypes, SameMapping

\* Where the wrapper believes a buffer to be bound, it is.
LEMMA BelievedBound ==
  ASSUME BindingInv, NEW t \in Targets, Vouched(t), binding_buffer(t) # NoBuffer
  PROVE  binding_buffer(t) = Bound(t)
  BY DEF BindingInv, binding_buffer

\* The application binds anew, if it may have bound behind the wrapper's back.
Rebinds == UntrackedBinds = {} \/ (RebindsToMap /\ RebindsToUnmap)

LEMMA RebindsVouched ==
  ASSUME Rebinds, NEW t, MayMap(t) \/ MayHandBack(t) PROVE Vouched(t)
  BY DEF Rebinds, MayMap, MayHandBack, Vouched

\* mapped_upload_begin: the new mapping has taken no one's slot.
LEMMA SlotMapInGuest ==
  ASSUME Rebinds, SlotInv, BindingInv, NEW t \in Targets, NEW offset \in Cells,
         NEW length \in 1 .. BufferSize, NEW access \in Accesses,
         MapInGuest(t, offset, length, access)
  PROVE  SlotInv'
<1> DEFINE b == Bound(t)
           s == SlotFor(binding_buffer(t))
           m == [via |-> "guest", slot |-> s, offset |-> offset, length |-> length, access |-> access]
<1>1. /\ s # NoSlot /\ steps < MaxSteps /\ steps' = steps + 1
      /\ slots' = Begun(s, binding_buffer(t), offset, length, access)
      /\ map' = [map EXCEPT ![b] = m]
      /\ b \in alive /\ length <= MaxLength
  BY DEF MapInGuest, MayMap, mapped_upload_wanted
<1>v. Vouched(t)
  BY RebindsVouched DEF MapInGuest
<1>2. s \in Slots /\ binding_buffer(t) # NoBuffer /\ (slots[s].active => slots[s].buffer = binding_buffer(t))
  BY <1>1, TakenSlot
<1>3. binding_buffer(t) = b /\ b \in Buffers
  BY <1>v, <1>1, <1>2, BelievedBound DEF BindingInv, BindingTypes
<1>4. offset \in Nat /\ length \in Nat /\ access \in SUBSET Bits
  BY SizesAssumption DEF Cells
<1>5. Aligned(length) \in Nat /\ length <= Aligned(length)
  BY <1>4, AlignedUp
<1>6. slots[s] \in Slot /\ [x \in Cells |-> 0] \in [Cells -> Values]
  BY <1>2, SizesAssumption DEF SlotInv, SlotTypes, Values
<1> HIDE DEF b, s
<1> DEFINE u == [active |-> TRUE, buffer |-> b, offset |-> offset, length |-> length, access |-> access,
                 capacity |-> IF MustGrow(s, length) THEN Aligned(length) ELSE slots[s].capacity,
                 staging |-> IF MustGrow(s, length) THEN [x \in Cells |-> 0] ELSE slots[s].staging]
<1>7. slots' = [slots EXCEPT ![s] = u]
  BY <1>1, <1>3 DEF Begun
<1>8. u.capacity \in Nat /\ length <= u.capacity
  BY <1>4, <1>5, <1>6 DEF MustGrow, Slot
<1>9. u \in Slot
  BY <1>1, <1>3, <1>4, <1>6, <1>8 DEF Slot
<1>10. m \in MapRecord
  BY <1>2, <1>4 DEF MapRecord
<1> HIDE DEF u, m
<1>11. SlotTypes'
  <2>1. slots' \in [Slots -> Slot]
    BY <1>7, <1>9 DEF SlotInv, SlotTypes
  <2>2. map' \in [Buffers -> MapRecord \cup {NotMapped}]
    BY <1>1, <1>10 DEF SlotInv, SlotTypes
  <2>3. steps' \in 0 .. MaxSteps
    BY <1>1, SizesAssumption DEF SlotInv, SlotTypes
  <2> QED BY <2>1, <2>2, <2>3 DEF SlotTypes
<1>12. ASSUME NEW c \in Buffers, map'[c].via = "guest"
       PROVE  LET v == slots'[map'[c].slot]
              IN  /\ v.active /\ v.buffer = c
                  /\ v.offset = map'[c].offset /\ v.length = map'[c].length /\ v.access = map'[c].access
                  /\ v.length <= v.capacity
  <2>1. CASE c = b
    <3>1. map'[c] = m /\ slots'[s] = u
      BY <1>1, <1>2, <1>7, <2>1 DEF SlotInv, SlotTypes
    <3> QED BY <2>1, <3>1, <1>8 DEF u, m
  <2>2. CASE c # b
    <3>1. map'[c] = map[c]
      BY <1>1, <2>2 DEF SlotInv, SlotTypes
    <3>2. map[c].slot \in Slots /\ slots[map[c].slot].active /\ slots[map[c].slot].buffer = c
      BY <1>12, <3>1, MapTypes DEF SlotInv, OwnSlot
    <3>3. slots'[map[c].slot] = slots[map[c].slot]
      BY <1>2, <1>3, <1>7, <2>2, <3>2 DEF SlotInv, SlotTypes
    <3> QED BY <1>12, <3>1, <3>3 DEF SlotInv, OwnSlot
  <2> QED BY <2>1, <2>2
<1> QED
  BY <1>11, <1>12 DEF SlotInv, OwnSlot

\* What mapped_upload_find finds, for a target whose buffer b is live: b's slot.
LEMMA FoundThroughTarget ==
  ASSUME BindingInv, NEW t \in Targets, Vouched(t), mapped_upload_find(t) # NoSlot
  PROVE  /\ mapped_upload_find(t) \in Slots
         /\ slots[mapped_upload_find(t)].active
         /\ slots[mapped_upload_find(t)].buffer = Bound(t)
<1>1. /\ mapped_upload_find(t) \in Slots
      /\ slots[mapped_upload_find(t)].active
      /\ slots[mapped_upload_find(t)].buffer = binding_buffer(t)
      /\ binding_buffer(t) # NoBuffer
  BY FoundSlot DEF mapped_upload_find
<1> QED
  BY <1>1, BelievedBound

\* A slot found through a target is not that of a guest mapping of another buffer.
LEMMA FoundIsNotAnothers ==
  ASSUME SlotInv, BindingInv, NEW t \in Targets, Vouched(t), NEW c \in Buffers, c # Bound(t),
         map[c].via = "guest"
  PROVE  map[c].slot # mapped_upload_find(t)
<1>1. map[c].slot \in Slots /\ slots[map[c].slot].buffer = c
  BY MapTypes DEF SlotInv, OwnSlot
<1>2. NoSlot \notin Slots
  BY DEF NoSlot, Slots
<1> QED
  BY <1>1, <1>2, FoundThroughTarget

\* A host mapping may fail in mapped_upload_begin and takes no one's slot.
LEMMA SlotMapOnHost ==
  ASSUME Rebinds, SlotInv, BindingInv, NEW t \in Targets, NEW offset \in Cells,
         NEW length \in 1 .. BufferSize, NEW access \in Accesses,
         MapOnHost(t, offset, length, access)
  PROVE  SlotInv'
<1> DEFINE b == Bound(t)
           s == SlotFor(binding_buffer(t))
           m == [via |-> "host", offset |-> offset, length |-> length, access |-> access]
<1>1. /\ steps < MaxSteps /\ steps' = steps + 1 /\ b \in alive
      /\ map' = [map EXCEPT ![b] = m]
      /\ \/ slots' = mapped_upload_abandon(t)
         \/ slots' = slots
         \/ s # NoSlot /\ slots' = Refused(s)
  BY DEF MapOnHost, MayMap, SlotsForHost
<1>v. Vouched(t)
  BY RebindsVouched DEF MapOnHost
<1>2. offset \in Nat /\ length \in Nat /\ access \in SUBSET Bits /\ b \in Buffers
  BY <1>1, SizesAssumption DEF Cells, BindingInv, BindingTypes
<1>3. m \in MapRecord /\ m.via = "host"
  BY <1>2 DEF MapRecord
<1> HIDE DEF m, b, s
<1>4. map' \in [Buffers -> MapRecord \cup {NotMapped}] /\ steps' \in 0 .. MaxSteps
  <2>1. map' \in [Buffers -> MapRecord \cup {NotMapped}]
    BY <1>1, <1>3 DEF SlotInv, SlotTypes
  <2>2. steps' \in 0 .. MaxSteps
    BY <1>1, SizesAssumption DEF SlotInv, SlotTypes
  <2> QED BY <2>1, <2>2
<1>5. \A c \in Buffers : map'[c].via = "guest" => map'[c] = map[c] /\ c # b
  BY <1>1, <1>2, <1>3 DEF SlotInv, SlotTypes
<1>6. CASE slots' = mapped_upload_abandon(t)
  <2>1. slots' = Deactivate({mapped_upload_find(t)})
    BY <1>6 DEF mapped_upload_abandon
  <2>2. \A c \in Buffers : map'[c].via = "guest" => map'[c] = map[c] /\ map[c].slot \notin {mapped_upload_find(t)}
    BY <1>v, <1>5, FoundIsNotAnothers DEF b
  <2> QED BY <1>4, <2>1, <2>2, SlotGiveUp
<1>7. CASE slots' = slots
  BY <1>4, <1>5, <1>7, SlotQuiet
<1>8. CASE s # NoSlot /\ slots' = Refused(s)
  <2>1. s \in Slots /\ binding_buffer(t) # NoBuffer /\ (slots[s].active => slots[s].buffer = binding_buffer(t))
    BY <1>8, TakenSlot DEF s
  <2>2. binding_buffer(t) = b
    BY <1>v, <2>1, BelievedBound DEF b
  <2>3. slots' \in [Slots -> Slot] /\ \A r \in Slots \ {s} : slots'[r] = slots[r]
    <3> DEFINE u == [slots[s] EXCEPT !.active = FALSE, !.capacity = 0]
    <3>1. slots[s] \in Slot
      BY <2>1 DEF SlotInv, SlotTypes
    <3>2. u \in Slot
      BY <3>1 DEF Slot
    <3>3. slots' = [slots EXCEPT ![s] = u]
      BY <1>8, <2>1 DEF Refused, SlotInv, SlotTypes
    <3> HIDE DEF u
    <3> QED BY <2>1, <3>2, <3>3 DEF SlotInv, SlotTypes
  <2>4. \A c \in Buffers : map'[c].via = "guest" => map'[c] = map[c] /\ SameMapping(map[c].slot)
    <3> SUFFICES ASSUME NEW c \in Buffers, map'[c].via = "guest" PROVE map'[c] = map[c] /\ SameMapping(map[c].slot)
      OBVIOUS
    <3>1. map'[c] = map[c] /\ c # b
      BY <1>5
    <3>2. map[c].slot \in Slots /\ slots[map[c].slot].active /\ slots[map[c].slot].buffer = c
      BY <3>1, MapTypes DEF SlotInv, OwnSlot
    <3> QED BY <2>1, <2>2, <2>3, <3>1, <3>2 DEF SameMapping
  <2> QED BY <1>4, <2>3, <2>4, SlotFrame DEF SlotTypes
<1> QED
  BY <1>1, <1>6, <1>7, <1>8

\* glMapBuffer abandons at most the slot of the buffer it maps.
LEMMA SlotMapBuffer ==
  ASSUME Rebinds, SlotInv, BindingInv, NEW t \in Targets, MapBuffer(t)
  PROVE  SlotInv'
<1> DEFINE b == Bound(t)
           m == [via |-> "host", offset |-> 0, length |-> BufferSize, access |-> {"write"}]
<1>1. /\ steps < MaxSteps /\ steps' = steps + 1 /\ b \in Buffers
      /\ map' = [map EXCEPT ![b] = m] /\ slots' = Deactivate({mapped_upload_find(t)})
  BY DEF MapBuffer, MayMap, mapped_upload_abandon, BindingInv, BindingTypes
<1>v. Vouched(t)
  BY RebindsVouched DEF MapBuffer
<1>2. m \in MapRecord /\ m.via = "host"
  BY SizesAssumption DEF MapRecord, Bits
<1> HIDE DEF m
<1>3. map' \in [Buffers -> MapRecord \cup {NotMapped}] /\ steps' \in 0 .. MaxSteps
  <2>1. map' \in [Buffers -> MapRecord \cup {NotMapped}]
    BY <1>1, <1>2 DEF SlotInv, SlotTypes
  <2>2. steps' \in 0 .. MaxSteps
    BY <1>1, SizesAssumption DEF SlotInv, SlotTypes
  <2> QED BY <2>1, <2>2
<1>4. \A c \in Buffers : map'[c].via = "guest" => map'[c] = map[c] /\ map[c].slot \notin {mapped_upload_find(t)}
  BY <1>v, <1>1, <1>2, FoundIsNotAnothers DEF SlotInv, SlotTypes
<1> QED
  BY <1>1, <1>3, <1>4, SlotGiveUp

\* The bytes of a slot change, not what it describes.
LEMMA SlotWrite ==
  ASSUME SlotInv, NEW b \in Buffers, NEW x \in Cells, WriteMapped(b, x)
  PROVE  SlotInv'
<1> DEFINE s == map[b].slot
           i == x - map[b].offset
<1>1. /\ map' = map /\ steps' = steps + 1 /\ steps \in Nat /\ steps < MaxSteps
      /\ map[b] # NotMapped /\ x \in Span(map[b].offset, map[b].length)
      /\ slots' = IF map[b].via = "guest" THEN [slots EXCEPT ![s].staging[i] = steps + 1] ELSE slots
  BY DEF WriteMapped, SlotInv, SlotTypes
<1>2. map' \in [Buffers -> MapRecord \cup {NotMapped}] /\ steps' \in 0 .. MaxSteps
  BY <1>1, SizesAssumption DEF SlotInv, SlotTypes
<1>3. CASE map[b].via # "guest"
  BY <1>1, <1>2, <1>3, SlotQuiet
<1>4. CASE map[b].via = "guest"
  <2>1. s \in Slots /\ slots[s] \in Slot /\ map[b].offset \in Nat /\ map[b].length \in Nat
    BY <1>4, MapTypes DEF SlotInv, SlotTypes
  <2>2. i \in Cells
    BY <1>1, <2>1, SizesAssumption DEF Span, Cells
  <2>3. steps + 1 \in Values
    BY <1>1, SizesAssumption DEF Values
  <2> HIDE DEF s, i
  <2>4. [slots[s].staging EXCEPT ![i] = steps + 1] \in [Cells -> Values]
    BY <2>1, <2>2, <2>3 DEF Slot
  <2> DEFINE u == [slots[s] EXCEPT !.staging = [slots[s].staging EXCEPT ![i] = steps + 1]]
  <2>5. u \in Slot
    BY <2>1, <2>4 DEF Slot
  <2>6. /\ u.active = slots[s].active /\ u.buffer = slots[s].buffer /\ u.offset = slots[s].offset
        /\ u.length = slots[s].length /\ u.access = slots[s].access /\ u.capacity = slots[s].capacity
    BY <2>1 DEF Slot
  <2>7. slots' = [slots EXCEPT ![s] = u]
    BY <1>1, <1>4
  <2> HIDE DEF u
  <2>8. slots' \in [Slots -> Slot]
    BY <2>5, <2>7 DEF SlotInv, SlotTypes
  <2>9. \A r \in Slots : SameMapping(r)
    BY <2>1, <2>6, <2>7 DEF SlotInv, SlotTypes, SameMapping
  <2> QED BY <1>1, <1>2, <2>8, <2>9, SlotFrame, MapTypes DEF SlotInv, SlotTypes
<1> QED
  BY <1>3, <1>4

\* glUnmapBuffer gives up at most the slot of the buffer it unmaps.
LEMMA SlotUnmap ==
  ASSUME Rebinds, SlotInv, BindingInv, NEW t \in Targets, UnmapInGuest(t) \/ UnmapOnHost(t)
  PROVE  SlotInv'
<1>1. /\ Bound(t) \in Buffers /\ steps' = steps /\ map' = [map EXCEPT ![Bound(t)] = NotMapped]
      /\ slots' = slots \/ slots' = Deactivate({mapped_upload_find(t)})
  BY DEF UnmapInGuest, UnmapOnHost, Unmapped, MayHandBack, BindingInv, BindingTypes
<1>v. Vouched(t)
  BY RebindsVouched DEF UnmapInGuest, UnmapOnHost
<1>2. map' \in [Buffers -> MapRecord \cup {NotMapped}] /\ steps' \in 0 .. MaxSteps
  BY <1>1 DEF SlotInv, SlotTypes
<1>3. \A c \in Buffers : map'[c].via = "guest" => map'[c] = map[c] /\ map[c].slot \notin {mapped_upload_find(t)}
  BY <1>v, <1>1, FoundIsNotAnothers DEF SlotInv, SlotTypes, NotMapped
<1> QED
  BY <1>1, <1>2, <1>3, SlotGiveUp, SlotQuiet

\* glDeleteBuffers gives up the slots of the deleted buffers and no other.
LEMMA SlotDelete ==
  ASSUME SlotInv, NEW S \in SUBSET alive, DeleteBuffers(S)
  PROVE  SlotInv'
<1> DEFINE gone == {mapped_upload_of_buffer(b) : b \in S}
<1>1. /\ slots' = Deactivate(gone) /\ steps' = steps
      /\ map' = [b \in Buffers |-> IF b \in S THEN NotMapped ELSE map[b]]
  BY DEF DeleteBuffers, ForgottenSlots
<1>2. map' \in [Buffers -> MapRecord \cup {NotMapped}] /\ steps' \in 0 .. MaxSteps
  BY <1>1 DEF SlotInv, SlotTypes
<1>3. ASSUME NEW c \in Buffers, map'[c].via = "guest" PROVE map'[c] = map[c] /\ map[c].slot \notin gone
  <2>1. c \notin S /\ map'[c] = map[c]
    BY <1>1, <1>3 DEF NotMapped
  <2>2. map[c].slot \in Slots /\ slots[map[c].slot].buffer = c
    BY <1>3, <2>1, MapTypes DEF SlotInv, OwnSlot
  <2>3. map[c].slot # NoSlot
    BY <2>2 DEF NoSlot, Slots
  <2> QED BY <2>1, <2>2, <2>3, FoundSlot
<1> QED
  BY <1>1, <1>2, <1>3, SlotGiveUp

\* Binding, creating, respecifying and flushing leave the slots alone.
LEMMA SlotRest ==
  ASSUME SlotInv,
         \/ \E t \in Targets, b \in alive \cup {NoBuffer} : BindBuffer(t, b) \/ BindBufferNV(t, b) \/ BindBufferOffset(t, b)
         \/ \E v \in VAOs : BindVertexArray(v) \/ DeleteVertexArrays(v)
         \/ \E c \in Contexts : MakeCurrent(c)
         \/ \E b \in Buffers : GenBuffer(b)
         \/ \E t \in Targets : BufferData(t)
         \/ \E t \in Targets, rangeOffset \in Cells, count \in 0 .. BufferSize :
              FlushMappedBufferRange(t, rangeOffset, count)
         \/ UNCHANGED vars
  PROVE  SlotInv'
<1>1. CASE \E t \in Targets : BufferData(t)
  <2> PICK t \in Targets : BufferData(t)
    BY <1>1
  <2>1. slots' = slots /\ map' = [map EXCEPT ![Bound(t)] = NotMapped] /\ steps < MaxSteps /\ steps' = steps + 1
    BY DEF BufferData, wrapper
  <2>2. map' \in [Buffers -> MapRecord \cup {NotMapped}] /\ steps' \in 0 .. MaxSteps
    <3>1. map' \in [Buffers -> MapRecord \cup {NotMapped}]
      BY <2>1 DEF SlotInv, SlotTypes
    <3>2. steps' \in 0 .. MaxSteps
      BY <2>1, SizesAssumption DEF SlotInv, SlotTypes
    <3> QED BY <3>1, <3>2
  <2>3. \A c \in Buffers : map'[c].via = "guest" => map'[c] = map[c]
    BY <2>1 DEF SlotInv, SlotTypes, NotMapped
  <2> QED BY <2>1, <2>2, <2>3, SlotQuiet
<1>2. CASE ~ \E t \in Targets : BufferData(t)
  <2>1. UNCHANGED <<slots, map, steps>>
    BY <1>2 DEF BindBuffer, BindBufferNV, BindBufferOffset, BindVertexArray, DeleteVertexArrays,
                MakeCurrent, GenBuffer, FlushMappedBufferRange, vars, wrapper, app
  <2> QED BY <2>1, SlotQuiet DEF SlotInv, SlotTypes
<1> QED
  BY <1>1, <1>2

\* Every step leaves every live guest mapping its slot.
LEMMA SlotStep ==
  ASSUME Rebinds, SlotInv, BindingInv, [Next]_vars
  PROVE  SlotInv'
<1>1. CASE Mapping
  BY <1>1, SlotMapInGuest, SlotMapOnHost, SlotMapBuffer, SlotWrite, SlotUnmap, SlotRest DEF Mapping
<1>2. CASE Binding
  BY <1>2, SlotDelete, SlotRest DEF Binding
<1>3. CASE UNCHANGED vars
  BY <1>3, SlotRest
<1> QED
  BY <1>1, <1>2, <1>3 DEF Next

\* A live guest mapping has its slot to itself and the slot describes it
\* (mapped_upload_begin, _end, _abandon and _forget_buffers, wrapgl32.c:709-818),
\* whatever the application maps, respecifies or deletes, if no buffer is bound with
\* glBindBufferOffset{EXT,NV} or the application binds a buffer anew before it maps,
\* flushes or unmaps it.
THEOREM SlotsOwned ==
  ASSUME Rebinds
  PROVE  Spec => []OwnSlot
<1>1. Init => BindingInv /\ SlotInv
  BY BindingStart, SlotStart
<1>2. BindingInv /\ SlotInv /\ [Next]_vars => BindingInv' /\ SlotInv'
  BY BindingStep, SlotStep
<1>3. SlotInv => OwnSlot
  BY DEF SlotInv
<1> HIDE DEF BindingInv, SlotInv, OwnSlot
<1> QED
  BY <1>1, <1>2, <1>3, PTL DEF Spec

-----------------------------------------------------------------------------
(* Types of everything else. *)

DataTypes ==
  /\ SlotTypes
  /\ hostMap \subseteq Buffers /\ named \subseteq Targets
  /\ data \in [Buffers -> [Cells -> Values]]
  /\ wrote \in [Buffers -> [Cells -> Values \cup {Undefined}]]
  /\ promised \in [Buffers -> [Cells -> Values \cup {Undefined}]]

LEMMA DataTypesStart == Init => DataTypes
<1> SUFFICES ASSUME Init PROVE DataTypes
  OBVIOUS
<1>1. 0 \in Values
  BY SizesAssumption DEF Values
<1>2. data \in [Buffers -> [Cells -> Values]]
  BY <1>1 DEF Init
<1>3. wrote \in [Buffers -> [Cells -> Values \cup {Undefined}]]
  BY DEF Init
<1>4. promised \in [Buffers -> [Cells -> Values \cup {Undefined}]]
  BY <1>1 DEF Init
<1> QED
  BY <1>2, <1>3, <1>4, SlotStart DEF Init, DataTypes, SlotInv

\* One cell, or the cells of one buffer, get new contents.
LEMMA CellsTypes ==
  ASSUME NEW V, NEW f \in [Buffers -> [Cells -> V]], NEW b \in Buffers, NEW g \in [Cells -> V]
  PROVE  [f EXCEPT ![b] = g] \in [Buffers -> [Cells -> V]]
  OBVIOUS

LEMMA BegunTypes ==
  ASSUME SlotTypes, NEW s \in Slots, NEW b \in Buffers \cup {NoBuffer}, NEW offset \in Nat,
         NEW length \in 0 .. MaxLength, NEW access \in SUBSET Bits
  PROVE  Begun(s, b, offset, length, access) \in [Slots -> Slot]
<1> DEFINE u == [active |-> TRUE, buffer |-> b, offset |-> offset, length |-> length, access |-> access,
                 capacity |-> IF MustGrow(s, length) THEN Aligned(length) ELSE slots[s].capacity,
                 staging |-> IF MustGrow(s, length) THEN [x \in Cells |-> 0] ELSE slots[s].staging]
<1>1. slots[s] \in Slot /\ [x \in Cells |-> 0] \in [Cells -> Values]
  BY SizesAssumption DEF SlotTypes, Values
<1>2. length \in Nat
  BY SizesAssumption
<1>3. Aligned(length) \in Nat
  BY <1>2, AlignedUp
<1>4. u.capacity \in Nat /\ u.staging \in [Cells -> Values]
  BY <1>1, <1>3 DEF Slot
<1>5. u \in Slot
  BY <1>4 DEF Slot
<1> HIDE DEF u
<1> QED
  BY <1>5 DEF Begun, SlotTypes, u

LEMMA RefusedTypes ==
  ASSUME SlotTypes, NEW s \in Slots
  PROVE  Refused(s) \in [Slots -> Slot]
<1> DEFINE u == [slots[s] EXCEPT !.active = FALSE, !.capacity = 0]
<1>1. slots[s] \in Slot
  BY DEF SlotTypes
<1>2. u \in Slot
  BY <1>1 DEF Slot
<1>3. Refused(s) = [slots EXCEPT ![s] = u]
  BY DEF Refused, SlotTypes
<1> HIDE DEF u
<1> QED
  BY <1>2, <1>3 DEF SlotTypes

LEMMA StagedTypes ==
  ASSUME SlotTypes, NEW s \in Slots, NEW i \in Cells, NEW v \in Values
  PROVE  [slots EXCEPT ![s].staging[i] = v] \in [Slots -> Slot]
<1> DEFINE u == [slots[s] EXCEPT !.staging = [slots[s].staging EXCEPT ![i] = v]]
<1>1. slots[s] \in Slot
  BY DEF SlotTypes
<1>2. [slots[s].staging EXCEPT ![i] = v] \in [Cells -> Values]
  BY <1>1 DEF Slot
<1>3. u \in Slot
  BY <1>1, <1>2 DEF Slot
<1>4. [slots EXCEPT ![s].staging[i] = v] = [slots EXCEPT ![s] = u]
  OBVIOUS
<1> HIDE DEF u
<1> QED
  BY <1>3, <1>4 DEF SlotTypes

\* What a flush or an unmap of a guest mapping does to the cells of a buffer.
LEMMA QueueTypes ==
  ASSUME DataTypes, BindingInv, NEW t \in Targets, NEW s \in Slots,
         NEW rangeOffset \in Nat, NEW count
  PROVE  mapped_upload_queue(t, s, rangeOffset, count) \in [Buffers -> [Cells -> Values]]
<1> DEFINE g == [x \in Cells |-> IF x \in Span(slots[s].offset + rangeOffset, count)
                                 THEN slots[s].staging[x - slots[s].offset] ELSE data[Bound(t)][x]]
<1>1. slots[s].offset \in Nat /\ slots[s].staging \in [Cells -> Values]
  BY DEF DataTypes, SlotTypes, Slot
<1>2. CASE Bound(t) \in alive \ hostMap
  <2>1. Bound(t) \in Buffers
    BY <1>2 DEF BindingInv, BindingTypes
  <2>2. ASSUME NEW x \in Cells, x \in Span(slots[s].offset + rangeOffset, count)
        PROVE  x - slots[s].offset \in Cells
    <3>1. x \in Nat /\ slots[s].offset + rangeOffset <= x
      BY <1>1, <2>2, SizesAssumption DEF Span, Cells
    <3> QED BY <1>1, <3>1, SizesAssumption DEF Cells
  <2>3. g \in [Cells -> Values]
    BY <1>1, <2>1, <2>2 DEF DataTypes
  <2> HIDE DEF g
  <2> QED BY <2>1, <2>3, CellsTypes DEF mapped_upload_queue, DataTypes, g
<1>3. CASE Bound(t) \notin alive \ hostMap
  BY <1>3 DEF mapped_upload_queue, DataTypes
<1> QED
  BY <1>2, <1>3

LEMMA HostWrittenTypes ==
  ASSUME DataTypes, NEW b \in Buffers, NEW X
  PROVE  HostWritten(b, X) \in [Buffers -> [Cells -> Values]]
<1> DEFINE g == [x \in Cells |-> IF x \in X /\ wrote[b][x] # Undefined THEN wrote[b][x] ELSE data[b][x]]
<1>1. g \in [Cells -> Values]
  BY DEF DataTypes
<1> HIDE DEF g
<1> QED
  BY <1>1, CellsTypes DEF HostWritten, DataTypes, g

\* The application's three notes of a buffer.
LEMMA UndefinedCells ==
  /\ [x \in Cells |-> Undefined] \in [Cells -> Values \cup {Undefined}]
  /\ NotMapped \in MapRecord \cup {NotMapped}
  OBVIOUS

LEMMA PromiseMappedTypes ==
  ASSUME DataTypes, NEW b \in Buffers, NEW offset, NEW length, NEW access
  PROVE  PromiseMapped(b, offset, length, access) \in [Buffers -> [Cells -> Values \cup {Undefined}]]
<1> DEFINE g == [x \in Cells |-> IF "invalidate" \in access /\ x \in Span(offset, length)
                                 THEN Undefined ELSE promised[b][x]]
<1>1. g \in [Cells -> Values \cup {Undefined}]
  BY DEF DataTypes
<1> HIDE DEF g
<1> QED
  BY <1>1, CellsTypes DEF PromiseMapped, DataTypes, g

LEMMA DataTypesMap ==
  ASSUME DataTypes, BindingInv, NEW t \in Targets, NEW offset \in Cells,
         NEW length \in 1 .. BufferSize, NEW access \in Accesses,
         MapInGuest(t, offset, length, access) \/ MapOnHost(t, offset, length, access)
  PROVE  DataTypes'
<1> DEFINE s == SlotFor(binding_buffer(t))
           b == Bound(t)
<1>1. /\ steps < MaxSteps /\ steps' = steps + 1 /\ b \in Buffers
      /\ UNCHANGED <<data, wrote, named>>
      /\ promised' = PromiseMapped(b, offset, length, access)
  BY DEF MapInGuest, MapOnHost, MayMap, gl, BindingInv, BindingTypes
<1>2. offset \in Nat /\ length \in Nat /\ access \in SUBSET Bits
  BY SizesAssumption DEF Cells
<1>3. steps' \in 0 .. MaxSteps
  BY <1>1, SizesAssumption DEF DataTypes, SlotTypes
<1>4. promised' \in [Buffers -> [Cells -> Values \cup {Undefined}]]
  BY <1>1, PromiseMappedTypes
<1>5. binding_buffer(t) \in Buffers \cup {NoBuffer}
  BY DEF binding_buffer, BindingInv, BindingTypes
<1>6. slots' \in [Slots -> Slot]
  <2>1. CASE s # NoSlot /\ slots' = Begun(s, binding_buffer(t), offset, length, access)
                 /\ length <= MaxLength
    <3>1. s \in Slots
      BY <2>1, TakenSlot
    <3>2. length \in 0 .. MaxLength
      BY <1>2, <2>1, SizesAssumption
    <3> HIDE DEF s
    <3> QED BY <1>2, <1>5, <2>1, <3>1, <3>2, BegunTypes DEF DataTypes
  <2>2. CASE slots' = mapped_upload_abandon(t)
    BY <2>2, DeactivateTypes DEF mapped_upload_abandon, DataTypes
  <2>3. CASE slots' = slots
    BY <2>3 DEF DataTypes, SlotTypes
  <2>4. CASE s # NoSlot /\ slots' = Refused(s)
    BY <2>4, TakenSlot, RefusedTypes DEF DataTypes
  <2> QED BY <2>1, <2>2, <2>3, <2>4 DEF MapInGuest, MapOnHost, SlotsForHost, mapped_upload_wanted
<1>7. map' \in [Buffers -> MapRecord \cup {NotMapped}]
  <2>1. CASE MapInGuest(t, offset, length, access)
    <3> DEFINE m == [via |-> "guest", slot |-> s, offset |-> offset, length |-> length, access |-> access]
    <3>1. s \in Slots /\ map' = [map EXCEPT ![b] = m]
      BY <2>1, TakenSlot DEF MapInGuest
    <3>2. m \in MapRecord
      BY <1>2, <3>1 DEF MapRecord
    <3> HIDE DEF m
    <3> QED BY <3>1, <3>2 DEF DataTypes, SlotTypes
  <2>2. CASE MapOnHost(t, offset, length, access)
    <3> DEFINE m == [via |-> "host", offset |-> offset, length |-> length, access |-> access]
    <3>1. map' = [map EXCEPT ![b] = m]
      BY <2>2 DEF MapOnHost
    <3>2. m \in MapRecord
      BY <1>2 DEF MapRecord
    <3> HIDE DEF m
    <3> QED BY <3>1, <3>2 DEF DataTypes, SlotTypes
  <2> QED BY <2>1, <2>2
<1>8. hostMap' \subseteq Buffers
  BY <1>1 DEF MapInGuest, MapOnHost, gl, DataTypes
<1> HIDE DEF s, b
<1> QED
  BY <1>1, <1>3, <1>4, <1>6, <1>7, <1>8 DEF DataTypes, SlotTypes

LEMMA DataTypesMapBuffer ==
  ASSUME DataTypes, BindingInv, NEW t \in Targets, MapBuffer(t)
  PROVE  DataTypes'
<1> DEFINE m == [via |-> "host", offset |-> 0, length |-> BufferSize, access |-> {"write"}]
<1>1. /\ steps < MaxSteps /\ steps' = steps + 1 /\ Bound(t) \in Buffers
      /\ UNCHANGED <<data, wrote, promised, named>>
      /\ map' = [map EXCEPT ![Bound(t)] = m] /\ hostMap' = hostMap \cup {Bound(t)}
      /\ slots' = mapped_upload_abandon(t)
  BY DEF MapBuffer, MayMap, BindingInv, BindingTypes
<1>2. m \in MapRecord
  BY SizesAssumption DEF MapRecord, Bits
<1>3. slots' \in [Slots -> Slot]
  BY <1>1, DeactivateTypes DEF mapped_upload_abandon, DataTypes
<1>4. steps' \in 0 .. MaxSteps
  BY <1>1, SizesAssumption DEF DataTypes, SlotTypes
<1> HIDE DEF m
<1>5. map' \in [Buffers -> MapRecord \cup {NotMapped}]
  BY <1>1, <1>2 DEF DataTypes, SlotTypes
<1> QED
  BY <1>1, <1>3, <1>4, <1>5 DEF DataTypes, SlotTypes

LEMMA DataTypesWrite ==
  ASSUME DataTypes, NEW b \in Buffers, NEW x \in Cells, WriteMapped(b, x)
  PROVE  DataTypes'
<1>1. /\ steps < MaxSteps /\ steps' = steps + 1 /\ UNCHANGED <<data, hostMap, map, promised, named>>
      /\ wrote' = [wrote EXCEPT ![b][x] = steps + 1]
  BY DEF WriteMapped, gl
<1>2. steps + 1 \in Values /\ steps' \in 0 .. MaxSteps
  BY <1>1, SizesAssumption DEF DataTypes, SlotTypes, Values
<1>3. wrote' \in [Buffers -> [Cells -> Values \cup {Undefined}]]
  BY <1>1, <1>2 DEF DataTypes
<1>4. slots' \in [Slots -> Slot]
  <2>1. CASE map[b].via = "guest"
    <3>1. map[b].slot \in Slots /\ map[b].offset \in Nat /\ map[b].length \in Nat
      BY <2>1, MapTypes DEF DataTypes
    <3>2. x \in Span(map[b].offset, map[b].length)
          /\ slots' = [slots EXCEPT ![map[b].slot].staging[x - map[b].offset] = steps + 1]
      BY <2>1 DEF WriteMapped
    <3>3. x - map[b].offset \in Cells
      BY <3>1, <3>2, SizesAssumption DEF Span, Cells
    <3> QED BY <1>2, <3>1, <3>2, <3>3, StagedTypes DEF DataTypes
  <2>2. CASE map[b].via # "guest"
    BY <2>2 DEF WriteMapped, DataTypes, SlotTypes
  <2> QED BY <2>1, <2>2
<1> QED
  BY <1>1, <1>2, <1>3, <1>4 DEF DataTypes, SlotTypes

LEMMA DataTypesFlush ==
  ASSUME DataTypes, BindingInv, NEW t \in Targets, NEW rangeOffset \in Cells, NEW count \in 0 .. BufferSize,
         FlushMappedBufferRange(t, rangeOffset, count)
  PROVE  DataTypes'
<1> DEFINE b == Bound(t)
           s == mapped_upload_find(t)
           X == IF rangeOffset + count <= map[b].length THEN Span(map[b].offset + rangeOffset, count) ELSE {}
           gp == [x \in Cells |-> IF x \in X THEN wrote[b][x] ELSE promised[b][x]]
           gw == [x \in Cells |-> IF x \in X THEN Undefined ELSE wrote[b][x]]
<1>1. /\ b \in Buffers /\ UNCHANGED <<hostMap, slots, map, named, steps>>
      /\ data' = IF s # NoSlot THEN mapped_upload_queue(t, s, rangeOffset, count) ELSE HostWritten(b, X)
      /\ promised' = [promised EXCEPT ![b] = gp]
      /\ wrote' = [wrote EXCEPT ![b] = gw]
  BY DEF FlushMappedBufferRange, MayHandBack, wrapper, BindingInv, BindingTypes
<1>2. rangeOffset \in Nat
  BY SizesAssumption DEF Cells
<1>3. data' \in [Buffers -> [Cells -> Values]]
  <2>1. CASE s # NoSlot
    <3>1. s \in Slots
      BY <2>1, FoundSlot DEF mapped_upload_find
    <3> HIDE DEF s
    <3> QED BY <1>1, <1>2, <2>1, <3>1, QueueTypes
  <2>2. CASE s = NoSlot
    <3> HIDE DEF b, X, s
    <3> QED BY <1>1, <2>2, HostWrittenTypes
  <2> QED BY <2>1, <2>2
<1>4. gp \in [Cells -> Values \cup {Undefined}] /\ gw \in [Cells -> Values \cup {Undefined}]
  <2> HIDE DEF b, X
  <2> QED BY <1>1 DEF DataTypes
<1> HIDE DEF gp, gw, b, s
<1>5. /\ promised' \in [Buffers -> [Cells -> Values \cup {Undefined}]]
      /\ wrote' \in [Buffers -> [Cells -> Values \cup {Undefined}]]
  BY <1>1, <1>4, CellsTypes DEF DataTypes
<1> QED
  BY <1>1, <1>3, <1>5 DEF DataTypes, SlotTypes

LEMMA DataTypesUnmap ==
  ASSUME DataTypes, BindingInv, NEW t \in Targets, UnmapInGuest(t) \/ UnmapOnHost(t)
  PROVE  DataTypes'
<1> DEFINE b == Bound(t)
           s == mapped_upload_find(t)
           gp == [x \in Cells |-> IF wrote[b][x] = Undefined THEN promised[b][x]
                                  ELSE IF "explicit" \in map[b].access THEN Undefined ELSE wrote[b][x]]
           gw == [x \in Cells |-> Undefined]
<1>1. /\ b \in Buffers /\ UNCHANGED <<named, steps>>
      /\ promised' = [promised EXCEPT ![b] = gp]
      /\ wrote' = [wrote EXCEPT ![b] = gw]
      /\ map' = [map EXCEPT ![b] = NotMapped]
      /\ hostMap' \subseteq hostMap
      /\ slots' = slots \/ slots' = Deactivate({s})
  BY DEF UnmapInGuest, UnmapOnHost, Unmapped, PromiseUnmapped, MayHandBack, BindingInv, BindingTypes
<1>2. data' \in [Buffers -> [Cells -> Values]]
  <2>1. CASE UnmapInGuest(t)
    <3>1. s \in Slots
      BY <2>1, FoundSlot DEF mapped_upload_find, UnmapInGuest
    <3>2. data' = data \/ data' = mapped_upload_queue(t, s, 0, slots[s].length)
      BY <2>1 DEF UnmapInGuest
    <3> HIDE DEF s
    <3> QED BY <3>1, <3>2, QueueTypes DEF DataTypes
  <2>2. CASE UnmapOnHost(t)
    <3>1. data' = data \/ data' = HostWritten(b, Cells)
      BY <2>2 DEF UnmapOnHost
    <3> HIDE DEF b
    <3> QED BY <1>1, <3>1, HostWrittenTypes DEF DataTypes
  <2> QED BY <2>1, <2>2
<1>3. gp \in [Cells -> Values \cup {Undefined}] /\ gw \in [Cells -> Values \cup {Undefined}]
  <2> HIDE DEF b
  <2> QED BY <1>1 DEF DataTypes
<1>4. slots' \in [Slots -> Slot]
  BY <1>1, DeactivateTypes DEF DataTypes, SlotTypes
<1> HIDE DEF gp, gw, b, s
<1>5. /\ promised' \in [Buffers -> [Cells -> Values \cup {Undefined}]]
      /\ wrote' \in [Buffers -> [Cells -> Values \cup {Undefined}]]
  BY <1>1, <1>3, CellsTypes DEF DataTypes
<1>6. map' \in [Buffers -> MapRecord \cup {NotMapped}]
  BY <1>1 DEF DataTypes, SlotTypes
<1> QED
  BY <1>1, <1>2, <1>4, <1>5, <1>6 DEF DataTypes, SlotTypes

LEMMA DataTypesRespecify ==
  ASSUME DataTypes, BindingInv, NEW t \in Targets, BufferData(t)
  PROVE  DataTypes'
<1> DEFINE b == Bound(t)
           g == [x \in Cells |-> steps + 1]
           gw == [x \in Cells |-> Undefined]
<1>1. /\ b \in Buffers /\ steps < MaxSteps /\ steps' = steps + 1 /\ UNCHANGED <<slots, named>>
      /\ data' = [data EXCEPT ![b] = g] /\ promised' = [promised EXCEPT ![b] = g]
      /\ wrote' = [wrote EXCEPT ![b] = gw]
      /\ map' = [map EXCEPT ![b] = NotMapped] /\ hostMap' \subseteq hostMap
  BY DEF BufferData, wrapper, BindingInv, BindingTypes
<1>2. steps + 1 \in Values /\ steps' \in 0 .. MaxSteps
  BY <1>1, SizesAssumption DEF DataTypes, SlotTypes, Values
<1>3. /\ g \in [Cells -> Values] /\ g \in [Cells -> Values \cup {Undefined}]
      /\ gw \in [Cells -> Values \cup {Undefined}]
  BY <1>2
<1> HIDE DEF g, gw, b
<1>4. /\ data' \in [Buffers -> [Cells -> Values]]
      /\ promised' \in [Buffers -> [Cells -> Values \cup {Undefined}]]
      /\ wrote' \in [Buffers -> [Cells -> Values \cup {Undefined}]]
  BY <1>1, <1>3, CellsTypes DEF DataTypes
<1>5. map' \in [Buffers -> MapRecord \cup {NotMapped}]
  BY <1>1 DEF DataTypes, SlotTypes
<1> QED
  BY <1>1, <1>2, <1>4, <1>5 DEF DataTypes, SlotTypes

LEMMA DataTypesNames ==
  ASSUME DataTypes, BindingInv,
         (\E S \in SUBSET alive : DeleteBuffers(S)) \/ (\E b \in Buffers : GenBuffer(b))
  PROVE  DataTypes'
<1>1. ASSUME NEW S \in SUBSET alive, DeleteBuffers(S) PROVE DataTypes'
  <2>1. /\ UNCHANGED <<data, promised, named, steps>> /\ hostMap' \subseteq hostMap
        /\ slots' = Deactivate({mapped_upload_of_buffer(b) : b \in S})
        /\ map' = [b \in Buffers |-> IF b \in S THEN NotMapped ELSE map[b]]
        /\ wrote' = [b \in Buffers |-> IF b \in S THEN [x \in Cells |-> Undefined] ELSE wrote[b]]
    BY <1>1 DEF DeleteBuffers, ForgottenSlots
  <2>2. slots' \in [Slots -> Slot]
    BY <2>1, DeactivateTypes DEF DataTypes
  <2>3. map' \in [Buffers -> MapRecord \cup {NotMapped}]
    BY <2>1 DEF DataTypes, SlotTypes
  <2>4. wrote' \in [Buffers -> [Cells -> Values \cup {Undefined}]]
    BY <2>1, UndefinedCells DEF DataTypes
  <2> QED BY <2>1, <2>2, <2>3, <2>4 DEF DataTypes, SlotTypes
<1>2. ASSUME NEW b \in Buffers, GenBuffer(b) PROVE DataTypes'
  <2>1. /\ UNCHANGED <<data, hostMap, slots, map, wrote, named, steps>>
        /\ promised' = [promised EXCEPT ![b] = [x \in Cells |-> Undefined]]
    BY <1>2 DEF GenBuffer, wrapper
  <2>2. promised' \in [Buffers -> [Cells -> Values \cup {Undefined}]]
    BY <2>1, UndefinedCells, CellsTypes DEF DataTypes
  <2> QED BY <2>1, <2>2 DEF DataTypes, SlotTypes
<1> QED
  BY <1>1, <1>2

\* Binding changes no more than the names the application has bound.
LEMMA BindingQuiet ==
  ASSUME \/ \E t \in Targets, b \in alive \cup {NoBuffer} :
              BindBuffer(t, b) \/ BindBufferNV(t, b) \/ BindBufferOffset(t, b)
         \/ \E v \in VAOs : BindVertexArray(v) \/ DeleteVertexArrays(v)
         \/ \E c \in Contexts : MakeCurrent(c)
         \/ UNCHANGED vars
  PROVE  /\ UNCHANGED <<alive, data, hostMap, slots, map, wrote, promised, steps>>
         /\ named' \subseteq named \cup Targets
  BY DEF BindBuffer, BindBufferNV, BindBufferOffset, BindVertexArray, DeleteVertexArrays,
         MakeCurrent, vars, gl, wrapper, app

LEMMA DataTypesStep ==
  ASSUME DataTypes, BindingInv, [Next]_vars
  PROVE  DataTypes'
<1>1. CASE Mapping
  BY <1>1, DataTypesMap, DataTypesMapBuffer, DataTypesWrite, DataTypesFlush, DataTypesUnmap,
     DataTypesRespecify DEF Mapping
<1>2. CASE (\E S \in SUBSET alive : DeleteBuffers(S)) \/ (\E b \in Buffers : GenBuffer(b))
  BY <1>2, DataTypesNames
<1>3. ASSUME UNCHANGED <<data, hostMap, slots, map, wrote, promised, steps>>,
             named' \subseteq named \cup Targets
      PROVE  DataTypes'
  BY <1>3 DEF DataTypes, SlotTypes
<1> QED
  BY <1>1, <1>2, <1>3, BindingQuiet DEF Next, Binding

\* Every variable has its type, whatever the application binds, maps and deletes: what
\* is read from staging lies inside it, and a slot that is named is one there is.
THEOREM UploadsTyped == Spec => []TypeOK
<1>1. Init => BindingInv /\ DataTypes
  BY BindingStart, DataTypesStart
<1>2. BindingInv /\ DataTypes /\ [Next]_vars => BindingInv' /\ DataTypes'
  BY BindingStep, DataTypesStep
<1>3. BindingInv /\ DataTypes => TypeOK
  BY DEF BindingInv, BindingTypes, DataTypes, SlotTypes, TypeOK
<1> HIDE DEF BindingInv, DataTypes, TypeOK
<1> QED
  BY <1>1, <1>2, <1>3, PTL DEF Spec

-----------------------------------------------------------------------------
(* What the buffers hold. *)

\* A target the application has bound with glBindBuffer is tracked: there is room in
\* the table for every target.
NamedTracked == \A t \in Targets : t \in named => tracked[t] # NotTracked

LEMMA RoomToTrack ==
  ASSUME Cardinality(Targets) <= TrackedMax, NEW t \in Targets, tracked[t] = NotTracked
  PROVE  trackedBindingCount < TrackedMax
<1> DEFINE T == {u \in Targets : tracked[u] # NotTracked}
<1>1. IsFiniteSet(Targets) /\ T \subseteq Targets \ {t}
  BY NamesAssumption
<1>2. /\ Cardinality(Targets \ {t}) = Cardinality(Targets) - 1
      /\ IsFiniteSet(Targets \ {t}) /\ Cardinality(Targets) \in Nat
  BY <1>1, FS_RemoveElement, FS_CardinalityType
<1>3. Cardinality(T) <= Cardinality(Targets \ {t}) /\ Cardinality(T) \in Nat
  BY <1>1, <1>2, FS_Subset, FS_CardinalityType
<1> HIDE DEF T
<1>4. TrackedMax \in Nat
  BY SizesAssumption
<1> QED
  BY <1>2, <1>3, <1>4 DEF trackedBindingCount, T

LEMMA NamedTrackedStep ==
  ASSUME Cardinality(Targets) <= TrackedMax, BindingInv, NamedTracked, [Next]_vars
  PROVE  NamedTracked'
<1>n. NotTracked \notin Buffers \cup {NoBuffer} /\ alive \subseteq Buffers
  BY NamesAssumption DEF BindingInv, BindingTypes
<1>1. CASE Mapping
  BY <1>1, MappingBindsNothing DEF NamedTracked
<1>2. ASSUME NEW t \in Targets, NEW b \in alive \cup {NoBuffer}, BindBuffer(t, b)
      PROVE  NamedTracked'
  <2>1. /\ tracked' = [tracked EXCEPT ![t] = b] \/ (tracked' = tracked /\ tracked[t] # NotTracked)
        /\ named' = named \cup {t}
    <3>1. tracked[t] = NotTracked => trackedBindingCount < TrackedMax /\ trackedBindingCount \in Nat
      <4>1. trackedBindingCount \in Nat
        BY NamesAssumption, FS_Subset, FS_CardinalityType DEF trackedBindingCount
      <4> QED BY <4>1, RoomToTrack
    <3>2. ~(tracked[t] = NotTracked /\ trackedBindingCount >= TrackedMax)
      BY <3>1, SizesAssumption
    <3> QED BY <1>2, <3>2 DEF BindBuffer, binding_note
  <2> QED BY <1>n, <2>1 DEF NamedTracked, BindingInv, BindingTypes
<1>3. ASSUME NEW t \in Targets, NEW b, BindBufferNV(t, b) \/ BindBufferOffset(t, b)
      PROVE  NamedTracked'
  BY <1>3 DEF BindBufferNV, BindBufferOffset, binding_forget, wrapper, NamedTracked, BindingInv,
              BindingTypes
<1>4. ASSUME NEW v \in VAOs, BindVertexArray(v) \/ DeleteVertexArrays(v) PROVE NamedTracked'
  BY <1>4 DEF BindVertexArray, DeleteVertexArrays, binding_forget, NamedTracked, BindingInv,
              BindingTypes
<1>5. ASSUME NEW c \in Contexts, MakeCurrent(c) PROVE NamedTracked'
  BY <1>5 DEF MakeCurrent, NamedTracked
<1>6. ASSUME NEW S \in SUBSET alive, DeleteBuffers(S) PROVE NamedTracked'
  BY <1>n, <1>6 DEF DeleteBuffers, ForgottenBindings, NamedTracked
<1>7. ASSUME NEW b \in Buffers, GenBuffer(b) PROVE NamedTracked'
  BY <1>7 DEF GenBuffer, wrapper, NamedTracked
<1>8. CASE UNCHANGED vars
  BY <1>8 DEF vars, wrapper, app, NamedTracked
<1> QED
  BY <1>1, <1>2, <1>3, <1>4, <1>5, <1>6, <1>7, <1>8 DEF Next, Binding

\* A buffer has one slot at most.
OneSlot ==
  \A r, s \in Slots : slots[r].active /\ slots[s].active /\ slots[r].buffer = slots[s].buffer => r = s

\* What is true of each buffer: the host has mapped it if the application was told
\* so, and then no slot is kept for it; what the application has written and not yet
\* handed back lies in the slot at its place; a mapping that is to be uploaded whole
\* has been invalidated; and the buffer holds what is promised, mapped or not.
BufferTrue(b) ==
  /\ b \in hostMap <=> map[b].via = "host"
  /\ map[b].via = "host" => \A s \in Slots : ~(slots[s].active /\ slots[s].buffer = b)
  /\ map[b].via = "none" => \A x \in Cells : wrote[b][x] = Undefined
  /\ map[b].via = "guest" => \A x \in Cells :
       /\ \/ wrote[b][x] = Undefined
          \/ /\ x \in Span(map[b].offset, map[b].length)
             /\ slots[map[b].slot].staging[x - map[b].offset] = wrote[b][x]
       /\ "explicit" \notin map[b].access /\ x \in Span(map[b].offset, map[b].length)
          => promised[b][x] = Undefined
  /\ b \in alive => \A x \in Cells : promised[b][x] \in {Undefined, data[b][x]}

DataInv == OneSlot /\ \A b \in Buffers : BufferTrue(b)

\* The application binds a buffer with glBindBuffer before it hands a range of it
\* back, and before it maps one if any target is bound behind the wrapper's back; and
\* the table of bindings has room (16 entries, and OpenGL has 14 targets).
Careful == Rebinds /\ RebindsToUnmap /\ Cardinality(Targets) <= TrackedMax

Sound == BindingInv /\ DataTypes /\ OwnSlot /\ NamedTracked /\ DataInv

LEMMA DataStart == Init => OneSlot /\ (\A b \in Buffers : BufferTrue(b)) /\ NamedTracked
<1> SUFFICES ASSUME Init PROVE OneSlot /\ (\A b \in Buffers : BufferTrue(b)) /\ NamedTracked
  OBVIOUS
<1>1. \A s \in Slots : ~slots[s].active
  BY DEF Init
<1>2. \A b \in Buffers : map[b].via = "none" /\ b \notin hostMap
  BY DEF Init, NotMapped
<1>3. \A b \in Buffers, x \in Cells : wrote[b][x] = Undefined /\ promised[b][x] = data[b][x]
  BY DEF Init
<1>4. named = {}
  BY DEF Init
<1> QED
  BY <1>1, <1>2, <1>3, <1>4 DEF OneSlot, BufferTrue, NamedTracked

\* A step that leaves buffer b, its mapping and its slot as they are.
LEMMA Elsewhere ==
  ASSUME NEW b \in Buffers, BufferTrue(b), b \in alive' => b \in alive,
         b \in hostMap' <=> b \in hostMap, map'[b] = map[b], wrote'[b] = wrote[b],
         promised'[b] = promised[b], data'[b] = data[b],
         map[b].via = "host" =>
           \A s \in Slots : slots'[s].active /\ slots'[s].buffer = b => slots[s].active /\ slots[s].buffer = b,
         map[b].via = "guest" => slots'[map[b].slot].staging = slots[map[b].slot].staging
  PROVE  BufferTrue(b)'
  BY DEF BufferTrue

\* No slot is taken into use.
Shrinks ==
  \A s \in Slots : slots'[s].active => slots[s].active /\ slots'[s].buffer = slots[s].buffer

SameBytes == \A s \in Slots : slots'[s].staging = slots[s].staging

LEMMA ShrinksOneSlot == ASSUME OneSlot, Shrinks PROVE OneSlot'
  BY DEF OneSlot, Shrinks

LEMMA DeactivateShrinks ==
  ASSUME SlotTypes, NEW S, slots' = Deactivate(S)
  PROVE  /\ Shrinks /\ SameBytes
         /\ \A s \in Slots : s \in S => ~slots'[s].active
  BY DEF SlotTypes, Deactivate, Slot, Shrinks, SameBytes

LEMMA RefusedShrinks ==
  ASSUME SlotTypes, NEW s \in Slots, slots' = Refused(s)
  PROVE  Shrinks /\ SameBytes /\ ~slots'[s].active
  BY DEF SlotTypes, Refused, Slot, Shrinks, SameBytes

\* The rest of the buffers, when mapping or respecifying b gives up slots.
LEMMA OthersShrink ==
  ASSUME Sound, Shrinks, SameBytes, NEW b \in Buffers, alive' = alive,
         \A c \in Buffers \ {b} :
           /\ map'[c] = map[c] /\ wrote'[c] = wrote[c] /\ promised'[c] = promised[c]
           /\ data'[c] = data[c] /\ (c \in hostMap' <=> c \in hostMap),
         BufferTrue(b)'
  PROVE  DataInv'
<1>1. \A c \in Buffers : map[c].via = "guest" => map[c].slot \in Slots
  BY MapTypes DEF Sound, DataTypes
<1>2. \A c \in Buffers \ {b} : BufferTrue(c)'
  BY <1>1, Elsewhere DEF Sound, DataInv, Shrinks, SameBytes
<1> QED
  BY <1>2, ShrinksOneSlot DEF Sound, DataInv

\* A target that is bound with glBindBuffer and has a buffer: what the wrapper finds.
LEMMA FindOwn ==
  ASSUME Sound, NEW t \in Targets, t \in named, Bound(t) \in alive
  PROVE  /\ binding_buffer(t) = Bound(t)
         /\ mapped_upload_find(t) = mapped_upload_of_buffer(Bound(t))
<1>1. tracked[t] = Bound(t) /\ tracked[t] # NotTracked
  BY DEF Sound, BindingInv, Vouched, NamedTracked
<1> QED
  BY <1>1 DEF binding_buffer, mapped_upload_find

\* A buffer's slot is found if it has one, and taken when the buffer is mapped again.
LEMMA OwnFound ==
  ASSUME Sound, NEW b \in Buffers, NEW s \in Slots, slots[s].active, slots[s].buffer = b
  PROVE  mapped_upload_of_buffer(b) = s /\ SlotFor(b) = s
<1>1. b # NoBuffer /\ s \in ActiveFor(b) /\ ActiveFor(b) \in SUBSET Slots
  BY NamesAssumption DEF ActiveFor
<1>2. First(ActiveFor(b)) \in ActiveFor(b)
  BY <1>1, FirstIsMember
<1>3. First(ActiveFor(b)) = s
  BY <1>2 DEF ActiveFor, Sound, DataInv, OneSlot
<1> QED
  BY <1>1, <1>3 DEF mapped_upload_of_buffer, SlotFor

\* A buffer that is mapped anew in the guest had no slot but the one it takes.
LEMMA BegunOneSlot ==
  ASSUME Sound, NEW b \in Buffers, NEW s \in Slots, s = SlotFor(b), NEW u, u.buffer = b,
         slots' = [slots EXCEPT ![s] = u]
  PROVE  OneSlot'
<1>1. \A r \in Slots : slots[r].active /\ slots[r].buffer = b => r = s
  BY OwnFound
<1>2. \A r \in Slots : slots'[r] = IF r = s THEN u ELSE slots[r]
  BY DEF Sound, DataTypes, SlotTypes
<1> QED
  BY <1>1, <1>2 DEF OneSlot, Sound, DataInv

LEMMA DataMapInGuest ==
  ASSUME Careful, Sound, NEW t \in Targets, NEW offset \in Cells,
         NEW length \in 1 .. BufferSize, NEW access \in Accesses,
         MapInGuest(t, offset, length, access)
  PROVE  DataInv'
<1> PICK b \in Buffers : b = Bound(t)
  BY DEF MapInGuest, MayMap, Sound, BindingInv, BindingTypes
<1> DEFINE s == SlotFor(binding_buffer(t))
           m == [via |-> "guest", slot |-> s, offset |-> offset, length |-> length, access |-> access]
           gp == [x \in Cells |-> IF "invalidate" \in access /\ x \in Span(offset, length)
                                  THEN Undefined ELSE promised[b][x]]
           u == [active |-> TRUE, buffer |-> binding_buffer(t), offset |-> offset, length |-> length,
                 access |-> access,
                 capacity |-> IF MustGrow(s, length) THEN Aligned(length) ELSE slots[s].capacity,
                 staging |-> IF MustGrow(s, length) THEN [x \in Cells |-> 0] ELSE slots[s].staging]
<1>1. /\ s # NoSlot /\ b \in alive /\ map[b] = NotMapped
      /\ slots' = [slots EXCEPT ![s] = u]
      /\ map' = [map EXCEPT ![b] = m]
      /\ promised' = [promised EXCEPT ![b] = gp]
      /\ UNCHANGED <<alive, data, hostMap, wrote>>
      /\ access \cap {"explicit", "invalidate"} # {}
  BY DEF MapInGuest, MayMap, mapped_upload_wanted, Begun, PromiseMapped, gl
<1>2. s \in Slots /\ binding_buffer(t) = b /\ (slots[s].active => slots[s].buffer = b)
  <2>1. s \in Slots /\ binding_buffer(t) # NoBuffer /\ (slots[s].active => slots[s].buffer = binding_buffer(t))
    BY <1>1, TakenSlot
  <2>2. Vouched(t)
    BY RebindsVouched DEF MapInGuest, Careful
  <2> QED BY <2>1, <2>2, BelievedBound DEF Sound
<1>3. s = SlotFor(b) /\ u.buffer = b
  BY <1>2
<1>4. m.via = "guest" /\ m.access = access /\ m.offset = offset /\ m.length = length
  OBVIOUS
<1>5. \A x \in Cells : gp[x] = IF "invalidate" \in access /\ x \in Span(offset, length)
                               THEN Undefined ELSE promised[b][x]
  OBVIOUS
<1> HIDE DEF s, m, gp, u
<1>6. OneSlot'
  BY <1>1, <1>2, <1>3, BegunOneSlot
<1>7. map'[b] = m /\ promised'[b] = gp /\ wrote'[b] = wrote[b] /\ data'[b] = data[b]
  BY <1>1 DEF Sound, DataTypes, SlotTypes
<1>8. BufferTrue(b)'
  <2>1. map[b].via = "none"
    BY <1>1 DEF NotMapped
  <2>2. b \notin hostMap' /\ \A x \in Cells : wrote'[b][x] = Undefined
    BY <1>1, <1>7, <2>1 DEF Sound, DataInv, BufferTrue
  <2>3. \A x \in Cells : "explicit" \notin access /\ x \in Span(offset, length) => gp[x] = Undefined
    BY <1>1, <1>5
  <2>4. \A x \in Cells : gp[x] \in {Undefined, data'[b][x]}
    BY <1>1, <1>5, <1>7 DEF Sound, DataInv, BufferTrue
  <2>5. /\ map'[b].via = "guest" /\ map'[b].access = access /\ map'[b].offset = offset
        /\ map'[b].length = length
    BY <1>4, <1>7
  <2>6. \A x \in Cells : "explicit" \notin map'[b].access /\ x \in Span(map'[b].offset, map'[b].length)
                         => promised'[b][x] = Undefined
    BY <1>7, <2>3, <2>5
  <2>7. \A x \in Cells : promised'[b][x] \in {Undefined, data'[b][x]}
    BY <1>7, <2>4
  <2> QED BY <2>2, <2>5, <2>6, <2>7, Zenon DEF BufferTrue
<1>9. ASSUME NEW c \in Buffers, c # b PROVE BufferTrue(c)'
  <2>1. /\ map'[c] = map[c] /\ promised'[c] = promised[c] /\ wrote'[c] = wrote[c] /\ data'[c] = data[c]
        /\ alive' = alive /\ hostMap' = hostMap /\ BufferTrue(c)
    BY <1>1, <1>9 DEF Sound, DataTypes, SlotTypes, DataInv
  <2>2. \A r \in Slots : slots'[r] = IF r = s THEN u ELSE slots[r]
    BY <1>1, <1>2 DEF Sound, DataTypes, SlotTypes
  <2>3. map[c].via = "guest" => map[c].slot \in Slots /\ map[c].slot # s
    BY <1>2, <1>9, MapTypes DEF Sound, DataTypes, OwnSlot
  <2>4. map[c].via = "guest" => slots'[map[c].slot].staging = slots[map[c].slot].staging
    BY <2>2, <2>3
  <2>5. \A r \in Slots : slots'[r].active /\ slots'[r].buffer = c => slots[r].active /\ slots[r].buffer = c
    BY <1>3, <1>9, <2>2
  <2>6. (c \in alive' => c \in alive) /\ (c \in hostMap' <=> c \in hostMap)
    BY <2>1
  <2>7. map[c].via = "host" =>
          \A r \in Slots : slots'[r].active /\ slots'[r].buffer = c => slots[r].active /\ slots[r].buffer = c
    BY <2>5
  <2> QED BY <2>1, <2>4, <2>6, <2>7, Elsewhere
<1> QED
  BY <1>6, <1>8, <1>9 DEF DataInv

\* A buffer's slot that is left over is found when the buffer is mapped.
LEMMA LeftOverFound ==
  ASSUME Careful, Sound, NEW t \in Targets, MayMap(t), NEW s \in Slots,
         slots[s].active, slots[s].buffer = Bound(t)
  PROVE  /\ binding_buffer(t) = Bound(t)
         /\ mapped_upload_find(t) = s /\ SlotFor(binding_buffer(t)) = s
<1>1. Bound(t) \in alive /\ Bound(t) \in Buffers /\ map[Bound(t)] = NotMapped
  BY DEF MayMap, Sound, BindingInv, BindingTypes
<1>2. s \in ActiveFor(Bound(t))
  BY <1>1, NamesAssumption DEF ActiveFor
<1>3. t \in named
  BY <1>1, <1>2 DEF MayMap, Abandoned
<1> QED
  BY <1>1, <1>3, FindOwn, OwnFound

\* Mapping on the host, with glMapBufferRange and with glMapBuffer: the slot the
\* buffer may have had is given up, and what was promised of it is kept or less.
LEMMA DataHostMapped ==
  ASSUME Careful, Sound, NEW t \in Targets, MayMap(t), NEW b \in Buffers, b = Bound(t),
         NEW m, m.via = "host", map' = [map EXCEPT ![b] = m],
         hostMap' = hostMap \cup {b}, UNCHANGED <<alive, data, wrote>>,
         \A c \in Buffers \ {b} : promised'[c] = promised[c],
         \A x \in Cells : promised'[b][x] \in {Undefined, promised[b][x]},
         Shrinks, SameBytes,
         \A s \in Slots : slots[s].active /\ slots[s].buffer = b => ~slots'[s].active
  PROVE  DataInv'
<1>1. map'[b] = m /\ \A c \in Buffers \ {b} : map'[c] = map[c]
  BY DEF Sound, DataTypes, SlotTypes
<1>2. map[b].via = "none"
  BY DEF MayMap, NotMapped
<1>3. BufferTrue(b)
  BY DEF Sound, DataInv
<1>4. BufferTrue(b)'
  <2>1. map'[b].via = "host" /\ b \in hostMap'
    BY <1>1
  <2>2. \A s \in Slots : ~(slots'[s].active /\ slots'[s].buffer = b)
    BY DEF Shrinks
  <2>3. b \in alive' => \A x \in Cells : promised'[b][x] \in {Undefined, data'[b][x]}
    BY <1>3 DEF BufferTrue
  <2> QED BY <2>1, <2>2, <2>3 DEF BufferTrue
<1> QED
  BY <1>1, <1>4, OthersShrink

\* A mapping that goes to the host leaves no slot behind.
LEMMA DataMapOnHost ==
  ASSUME Careful, Sound, NEW t \in Targets, NEW offset \in Cells,
         NEW length \in 1 .. BufferSize, NEW access \in Accesses,
         MapOnHost(t, offset, length, access)
  PROVE  DataInv'
<1> PICK b \in Buffers : b = Bound(t)
  BY DEF MapOnHost, MayMap, Sound, BindingInv, BindingTypes
<1> DEFINE m == [via |-> "host", offset |-> offset, length |-> length, access |-> access]
           s == SlotFor(binding_buffer(t))
<1>1. /\ MayMap(t) /\ map' = [map EXCEPT ![b] = m]
      /\ hostMap' = hostMap \cup {b} /\ UNCHANGED <<alive, data, wrote>>
      /\ promised' = PromiseMapped(b, offset, length, access)
      /\ \/ slots' = mapped_upload_abandon(t)
         \/ slots' = slots /\ s = NoSlot
         \/ s # NoSlot /\ slots' = Refused(s)
  BY DEF MapOnHost, SlotsForHost
<1>2. m.via = "host"
  OBVIOUS
<1>3. /\ \A c \in Buffers \ {b} : promised'[c] = promised[c]
      /\ \A x \in Cells : promised'[b][x] \in {Undefined, promised[b][x]}
  BY <1>1 DEF PromiseMapped, Sound, DataTypes
<1>4. \A r \in Slots : slots[r].active /\ slots[r].buffer = b => mapped_upload_find(t) = r /\ s = r
  BY <1>1, LeftOverFound
<1>t. SlotTypes
  BY DEF Sound, DataTypes
<1> HIDE DEF m, s
<1>5. Shrinks /\ SameBytes /\ \A r \in Slots : slots[r].active /\ slots[r].buffer = b => ~slots'[r].active
  <2>1. CASE slots' = mapped_upload_abandon(t)
    <3>1. slots' = Deactivate({mapped_upload_find(t)})
      BY <2>1 DEF mapped_upload_abandon
    <3> QED BY <1>t, <1>4, <3>1, DeactivateShrinks
  <2>2. CASE slots' = slots /\ s = NoSlot
    <3>1. Shrinks /\ SameBytes
      BY <2>2 DEF Shrinks, SameBytes
    <3>2. NoSlot \notin Slots
      BY DEF NoSlot, Slots
    <3> QED BY <1>4, <2>2, <3>1, <3>2
  <2>3. CASE s # NoSlot /\ slots' = Refused(s)
    <3>1. s \in Slots
      BY <2>3, TakenSlot DEF s
    <3> QED BY <1>t, <1>4, <2>3, <3>1, RefusedShrinks
  <2> QED BY <1>1, <2>1, <2>2, <2>3
<1> QED
  BY <1>1, <1>2, <1>3, <1>5, DataHostMapped

LEMMA DataMapBuffer ==
  ASSUME Careful, Sound, NEW t \in Targets, MapBuffer(t)
  PROVE  DataInv'
<1> PICK b \in Buffers : b = Bound(t)
  BY DEF MapBuffer, MayMap, Sound, BindingInv, BindingTypes
<1> DEFINE m == [via |-> "host", offset |-> 0, length |-> BufferSize, access |-> {"write"}]
<1>1. /\ MayMap(t) /\ map' = [map EXCEPT ![b] = m]
      /\ hostMap' = hostMap \cup {b} /\ UNCHANGED <<alive, data, wrote, promised>>
      /\ slots' = Deactivate({mapped_upload_find(t)})
  BY DEF MapBuffer, mapped_upload_abandon
<1>2. m.via = "host"
  OBVIOUS
<1>3. /\ \A c \in Buffers \ {b} : promised'[c] = promised[c]
      /\ \A x \in Cells : promised'[b][x] \in {Undefined, promised[b][x]}
  BY <1>1
<1>4. \A r \in Slots : slots[r].active /\ slots[r].buffer = b => mapped_upload_find(t) = r
  BY <1>1, LeftOverFound
<1>t. SlotTypes
  BY DEF Sound, DataTypes
<1> HIDE DEF m
<1>5. Shrinks /\ SameBytes /\ \A r \in Slots : slots[r].active /\ slots[r].buffer = b => ~slots'[r].active
  <2> DEFINE S == {mapped_upload_find(t)}
  <2>1. slots' = Deactivate(S)
    BY <1>1
  <2>2. \A r \in Slots : slots[r].active /\ slots[r].buffer = b => r \in S
    BY <1>4
  <2> HIDE DEF S
  <2>3. Shrinks /\ SameBytes /\ \A r \in Slots : r \in S => ~slots'[r].active
    BY <1>t, <2>1, DeactivateShrinks
  <2> QED BY <2>2, <2>3
<1>6. MayMap(t) /\ b = Bound(t)
  BY <1>1
<1>7. map' = [map EXCEPT ![b] = m] /\ hostMap' = hostMap \cup {b} /\ UNCHANGED <<alive, data, wrote>>
  BY <1>1
<1> QED
  BY <1>2, <1>3, <1>5, <1>6, <1>7, DataHostMapped

\* What the application writes through a guest mapping lands in the slot.
LEMMA DataWrite ==
  ASSUME Sound, NEW b \in Buffers, NEW x \in Cells, WriteMapped(b, x)
  PROVE  DataInv'
<1> DEFINE s == map[b].slot
           i == x - map[b].offset
           g == [wrote[b] EXCEPT ![x] = steps + 1]
<1>1. /\ map' = map /\ map[b] # NotMapped /\ x \in Span(map[b].offset, map[b].length)
      /\ UNCHANGED <<alive, data, hostMap, promised>>
      /\ wrote' = [wrote EXCEPT ![b] = g]
      /\ slots' = IF map[b].via = "guest" THEN [slots EXCEPT ![s].staging[i] = steps + 1] ELSE slots
  BY DEF WriteMapped, gl
<1>2. \A y \in Cells : g[y] = IF y = x THEN steps + 1 ELSE wrote[b][y]
  BY DEF Sound, DataTypes
<1>3. map[b].via # "none"
  BY <1>1 DEF Sound, DataTypes, SlotTypes, MapRecord, NotMapped
<1>4. map[b].via = "guest" => s \in Slots /\ i \in Cells /\ map[b].offset \in Nat
  <2> SUFFICES ASSUME map[b].via = "guest" PROVE s \in Slots /\ i \in Cells /\ map[b].offset \in Nat
    OBVIOUS
  <2>1. s \in Slots /\ map[b].offset \in Nat /\ map[b].length \in Nat
    BY MapTypes DEF Sound, DataTypes
  <2>2. slots[s].length = map[b].length
    BY DEF Sound, OwnSlot
  <2> QED BY <1>1, <2>1, <2>2, SizesAssumption DEF Span, Cells
<1>5. map[b].via = "guest" =>
        /\ \A r \in Slots : r # s => slots'[r] = slots[r]
        /\ \A j \in Cells : slots'[s].staging[j] = IF j = i THEN steps + 1 ELSE slots[s].staging[j]
        /\ slots'[s].active = slots[s].active /\ slots'[s].buffer = slots[s].buffer
  BY <1>1, <1>4 DEF Sound, DataTypes, SlotTypes, Slot
<1>6. OneSlot'
  BY <1>1, <1>5 DEF OneSlot, Sound, DataInv
<1>7. ASSUME NEW c \in Buffers, c # b PROVE BufferTrue(c)'
  <2>1. BufferTrue(c) /\ wrote'[c] = wrote[c]
    BY <1>1, <1>7 DEF Sound, DataInv, DataTypes
  <2>2. map[c].via = "guest" => slots'[map[c].slot].staging = slots[map[c].slot].staging
    <3> SUFFICES ASSUME map[c].via = "guest" PROVE slots'[map[c].slot] = slots[map[c].slot]
      OBVIOUS
    <3>1. map[c].slot \in Slots /\ slots[map[c].slot].buffer = c
      BY MapTypes DEF Sound, DataTypes, OwnSlot
    <3>2. map[b].via = "guest" => slots[s].buffer = b
      BY DEF Sound, OwnSlot
    <3> HIDE DEF s
    <3> QED BY <1>1, <1>5, <1>7, <3>1, <3>2
  <2>3. \A r \in Slots : slots'[r].active = slots[r].active /\ slots'[r].buffer = slots[r].buffer
    BY <1>1, <1>5
  <2> QED BY <1>1, <2>1, <2>2, <2>3, Elsewhere
<1>8. BufferTrue(b)'
  <2>1. BufferTrue(b) /\ wrote'[b] = g
    BY <1>1 DEF Sound, DataInv, DataTypes
  <2>2. CASE map[b].via # "guest"
    <3>1. slots' = slots
      BY <1>1, <2>2
    <3> QED BY <1>1, <1>3, <2>1, <2>2, <3>1 DEF BufferTrue
  <2>3. CASE map[b].via = "guest"
    <3> HIDE DEF g
    <3>1. ASSUME NEW y \in Cells
          PROVE  \/ g[y] = Undefined
                 \/ /\ y \in Span(map[b].offset, map[b].length)
                    /\ slots'[s].staging[y - map[b].offset] = g[y]
      <4>1. CASE y = x
        BY <1>1, <1>2, <1>4, <1>5, <2>3, <4>1
      <4>2. CASE y # x
        <5>1. \/ g[y] = Undefined
              \/ /\ y \in Span(map[b].offset, map[b].length)
                 /\ slots[s].staging[y - map[b].offset] = g[y]
          BY <1>2, <2>1, <2>3, <4>2 DEF BufferTrue
        <5>2. y \in Span(map[b].offset, map[b].length) =>
                y - map[b].offset \in Cells /\ y - map[b].offset # i
          <6>1. map[b].length \in Nat
            BY <2>3, MapTypes DEF Sound, DataTypes
          <6> QED BY <1>4, <2>3, <4>2, <6>1, SizesAssumption DEF Span, Cells
        <5> QED BY <1>5, <2>3, <5>1, <5>2
      <4> QED BY <4>1, <4>2
    <3>2. slots'[map'[b].slot] = slots'[s]
      BY <1>1
    <3> HIDE DEF s
    <3> QED BY <1>1, <2>1, <2>3, <3>1, <3>2 DEF BufferTrue
  <2> QED BY <2>2, <2>3
<1> QED
  BY <1>6, <1>7, <1>8 DEF DataInv

\* A buffer that is handed back through target t: how it is mapped decides what the
\* wrapper finds.
LEMMA HandedBack ==
  ASSUME Careful, Sound, NEW t \in Targets, MayHandBack(t), NEW b \in Buffers, b = Bound(t)
  PROVE  /\ b \in alive /\ map[b].via \in {"guest", "host"}
         /\ map[b].via = "guest" => mapped_upload_find(t) = map[b].slot /\ b \notin hostMap
         /\ map[b].via = "host" => mapped_upload_find(t) = NoSlot /\ b \in hostMap
<1>1. b \in alive /\ map[b] # NotMapped /\ t \in named
  BY DEF MayHandBack, Careful
<1>2. map[b].via \in {"guest", "host"}
  BY <1>1 DEF Sound, DataTypes, SlotTypes, MapRecord
<1>3. mapped_upload_find(t) = mapped_upload_of_buffer(b)
  BY <1>1, FindOwn
<1>4. BufferTrue(b)
  BY DEF Sound, DataInv
<1>5. ASSUME map[b].via = "guest" PROVE mapped_upload_find(t) = map[b].slot /\ b \notin hostMap
  <2>1. map[b].slot \in Slots /\ slots[map[b].slot].active /\ slots[map[b].slot].buffer = b
    BY <1>5, MapTypes DEF Sound, DataTypes, OwnSlot
  <2> QED BY <1>3, <1>4, <1>5, <2>1, OwnFound DEF BufferTrue
<1>6. ASSUME map[b].via = "host" PROVE mapped_upload_find(t) = NoSlot /\ b \in hostMap
  <2>1. ActiveFor(b) = {}
    BY <1>4, <1>6 DEF ActiveFor, BufferTrue
  <2> QED BY <1>3, <1>4, <1>6, <2>1 DEF mapped_upload_of_buffer, BufferTrue
<1> QED
  BY <1>1, <1>2, <1>5, <1>6

\* The bytes of cells X of the slot of a guest mapping reach the buffer when they are
\* queued, if X lies in the mapping.
LEMMA QueuedCells ==
  ASSUME Careful, Sound, NEW t \in Targets, MayHandBack(t), NEW b \in Buffers, b = Bound(t),
         map[b].via = "guest", NEW rangeOffset \in Nat, NEW count \in Nat,
         rangeOffset + count <= map[b].length,
         data' = mapped_upload_queue(t, map[b].slot, rangeOffset, count)
  PROVE  /\ \A c \in Buffers \ {b} : data'[c] = data[c]
         /\ \A x \in Cells : data'[b][x] =
              IF x \in Span(map[b].offset + rangeOffset, count)
              THEN slots[map[b].slot].staging[x - map[b].offset] ELSE data[b][x]
<1> DEFINE u == slots[map[b].slot]
<1>1. /\ map[b].length \in Nat /\ map[b].offset \in Nat
      /\ u.length = map[b].length /\ u.offset = map[b].offset
  BY MapTypes DEF Sound, DataTypes, OwnSlot
<1>2. Bound(t) \in alive \ hostMap
  BY HandedBack
<1>3. CASE count = 0
  <2>1. data' = data
    BY <1>3 DEF mapped_upload_queue
  <2>2. Span(map[b].offset + rangeOffset, count) = {}
    BY <1>1, <1>3 DEF Span
  <2> QED BY <2>1, <2>2
<1>4. CASE count # 0
  <2> DEFINE g == [x \in Cells |-> IF x \in Span(u.offset + rangeOffset, count)
                                   THEN u.staging[x - u.offset] ELSE data[b][x]]
  <2>1. rangeOffset <= u.length /\ count <= u.length - rangeOffset
    BY <1>1
  <2>2. data' = [data EXCEPT ![b] = g]
    BY <1>2, <1>4, <2>1 DEF mapped_upload_queue
  <2>3. \A x \in Cells : g[x] = IF x \in Span(map[b].offset + rangeOffset, count)
                                THEN u.staging[x - map[b].offset] ELSE data[b][x]
    BY <1>1
  <2> HIDE DEF g, u
  <2>4. data'[b] = g /\ \A c \in Buffers \ {b} : data'[c] = data[c]
    BY <2>2 DEF Sound, DataTypes
  <2> QED BY <2>3, <2>4 DEF u
<1> QED
  BY <1>3, <1>4

\* Flushing promises what was written in the range and delivers it.
LEMMA DataFlush ==
  ASSUME Careful, Sound, NEW t \in Targets, NEW rangeOffset \in Cells,
         NEW count \in 0 .. BufferSize, FlushMappedBufferRange(t, rangeOffset, count)
  PROVE  DataInv'
<1> PICK b \in Buffers : b = Bound(t)
  BY DEF FlushMappedBufferRange, MayHandBack, Sound, BindingInv, BindingTypes
<1> DEFINE inside == rangeOffset + count <= map[b].length
           X == IF inside THEN Span(map[b].offset + rangeOffset, count) ELSE {}
           gp == [x \in Cells |-> IF x \in X THEN wrote[b][x] ELSE promised[b][x]]
           gw == [x \in Cells |-> IF x \in X THEN Undefined ELSE wrote[b][x]]
<1>1. /\ MayHandBack(t) /\ "explicit" \in map[b].access
      /\ UNCHANGED <<alive, hostMap, slots, map>>
      /\ data' = IF mapped_upload_find(t) # NoSlot
                 THEN mapped_upload_queue(t, mapped_upload_find(t), rangeOffset, count)
                 ELSE HostWritten(b, X)
      /\ promised' = [promised EXCEPT ![b] = gp]
      /\ wrote' = [wrote EXCEPT ![b] = gw]
  BY DEF FlushMappedBufferRange, wrapper
<1>2. rangeOffset \in Nat /\ count \in Nat
  BY SizesAssumption DEF Cells
<1>3. \A x \in Cells : gp[x] = (IF x \in X THEN wrote[b][x] ELSE promised[b][x])
                       /\ gw[x] = (IF x \in X THEN Undefined ELSE wrote[b][x])
  OBVIOUS
<1>4. BufferTrue(b) /\ b \in alive
  BY <1>1, HandedBack DEF Sound, DataInv
<1>5. /\ \A c \in Buffers \ {b} : data'[c] = data[c]
      /\ \A x \in Cells : data'[b][x] = data[b][x] \/ x \in X
      /\ \A x \in X \cap Cells : wrote[b][x] = Undefined \/ data'[b][x] = wrote[b][x]
  <2>1. CASE map[b].via = "guest"
    <3>1. mapped_upload_find(t) = map[b].slot /\ map[b].slot \in Slots /\ map[b].length \in Nat
      BY <1>1, <2>1, HandedBack, MapTypes DEF Sound, DataTypes
    <3>2. data' = mapped_upload_queue(t, map[b].slot, rangeOffset, count)
      BY <1>1, <3>1 DEF NoSlot, Slots
    <3>3. CASE inside
      <4>1. /\ \A c \in Buffers \ {b} : data'[c] = data[c]
            /\ \A x \in Cells : data'[b][x] =
                 IF x \in Span(map[b].offset + rangeOffset, count)
                 THEN slots[map[b].slot].staging[x - map[b].offset] ELSE data[b][x]
        BY <1>1, <1>2, <2>1, <3>2, <3>3, QueuedCells
      <4>2. X = Span(map[b].offset + rangeOffset, count)
        BY <3>3
      <4>3. \A x \in Cells : wrote[b][x] = Undefined
                             \/ slots[map[b].slot].staging[x - map[b].offset] = wrote[b][x]
        BY <1>4, <2>1 DEF BufferTrue
      <4> HIDE DEF X
      <4> QED BY <4>1, <4>2, <4>3
    <3>4. CASE ~inside
      <4>1. slots[map[b].slot].length = map[b].length
        BY <2>1 DEF Sound, OwnSlot
      <4>2. ~(rangeOffset <= map[b].length /\ count <= map[b].length - rangeOffset)
        BY <1>2, <3>1, <3>4
      <4>3. data' = data
        BY <3>2, <4>1, <4>2 DEF mapped_upload_queue
      <4> QED BY <3>4, <4>3
    <3> QED BY <3>3, <3>4
  <2>2. CASE map[b].via = "host"
    <3> HIDE DEF X
    <3>1. data' = HostWritten(b, X) /\ b \in hostMap
      BY <1>1, <2>2, HandedBack
    <3> QED BY <3>1 DEF HostWritten, Sound, DataTypes
  <2> QED BY <1>1, <2>1, <2>2, HandedBack
<1>6. /\ promised'[b] = gp /\ wrote'[b] = gw
      /\ \A c \in Buffers \ {b} : promised'[c] = promised[c] /\ wrote'[c] = wrote[c]
  BY <1>1 DEF Sound, DataTypes
<1> HIDE DEF X, gp, gw
<1>7. BufferTrue(b)'
  <2>1. \A x \in Cells : wrote'[b][x] \in {Undefined, wrote[b][x]}
    BY <1>3, <1>6
  <2>2. \A x \in Cells : promised'[b][x] \in {Undefined, data'[b][x]}
    BY <1>3, <1>4, <1>5, <1>6 DEF BufferTrue
  <2>3. map[b].via \in {"guest", "host"} /\ hostMap' = hostMap /\ map' = map /\ slots' = slots
    BY <1>1, HandedBack
  <2> QED BY <1>1, <1>4, <2>1, <2>2, <2>3 DEF BufferTrue
<1>8. Shrinks /\ SameBytes
  BY <1>1 DEF Shrinks, SameBytes
<1> QED
  BY <1>1, <1>5, <1>6, <1>7, <1>8, OthersShrink

\* A buffer that is unmapped and holds what is promised of it.
LEMMA DataUnmapped ==
  ASSUME Careful, Sound, NEW t \in Targets, NEW b \in Buffers, b = Bound(t), MayHandBack(t),
         Unmapped(b), hostMap' = hostMap \ {b}, slots' = slots \/ slots' = Deactivate({mapped_upload_find(t)}),
         \A c \in Buffers \ {b} : data'[c] = data[c],
         \A x \in Cells : promised'[b][x] \in {Undefined, data'[b][x]}
  PROVE  DataInv'
<1>1. /\ map'[b] = NotMapped /\ \A x \in Cells : wrote'[b][x] = Undefined
      /\ alive' = alive
      /\ \A c \in Buffers \ {b} : map'[c] = map[c] /\ wrote'[c] = wrote[c] /\ promised'[c] = promised[c]
  BY DEF Unmapped, PromiseUnmapped, Sound, DataTypes, SlotTypes
<1>2. map'[b].via = "none" /\ b \notin hostMap'
  BY <1>1 DEF NotMapped
<1>3. BufferTrue(b)'
  BY <1>1, <1>2 DEF BufferTrue
<1>4. Shrinks /\ SameBytes
  <2>1. CASE slots' = slots
    BY <2>1 DEF Shrinks, SameBytes
  <2>2. CASE slots' = Deactivate({mapped_upload_find(t)})
    BY <2>2, DeactivateShrinks DEF Sound, DataTypes
  <2> QED BY <2>1, <2>2
<1> QED
  BY <1>1, <1>3, <1>4, OthersShrink

\* What is promised of a buffer when it is unmapped.
LEMMA UnmapPromise ==
  ASSUME Sound, NEW b \in Buffers, Unmapped(b), NEW x \in Cells
  PROVE  promised'[b][x] = IF wrote[b][x] = Undefined THEN promised[b][x]
                           ELSE IF "explicit" \in map[b].access THEN Undefined ELSE wrote[b][x]
  BY DEF Unmapped, PromiseUnmapped, Sound, DataTypes

LEMMA DataUnmapInGuest ==
  ASSUME Careful, Sound, NEW t \in Targets, UnmapInGuest(t)
  PROVE  DataInv'
<1> PICK b \in Buffers : b = Bound(t)
  BY DEF UnmapInGuest, MayHandBack, Sound, BindingInv, BindingTypes
<1> DEFINE s == map[b].slot
<1>1. /\ MayHandBack(t) /\ mapped_upload_find(t) # NoSlot
      /\ slots' = Deactivate({mapped_upload_find(t)}) /\ hostMap' = hostMap /\ Unmapped(b)
  BY DEF UnmapInGuest
<1>2. map[b].via = "guest" /\ mapped_upload_find(t) = s /\ b \notin hostMap /\ BufferTrue(b) /\ b \in alive
  BY <1>1, HandedBack DEF Sound, DataInv
<1>3. slots[s].access = map[b].access /\ slots[s].length = map[b].length
  BY <1>2 DEF Sound, OwnSlot
<1>4. map[b].length \in Nat /\ map[b].offset \in Nat
  BY <1>2, MapTypes DEF Sound, DataTypes
<1>5. data' = IF "explicit" \in map[b].access THEN data ELSE mapped_upload_queue(t, s, 0, map[b].length)
  BY <1>2, <1>3 DEF UnmapInGuest
<1> HIDE DEF s
<1>6. CASE "explicit" \in map[b].access
  <2>1. data' = data
    BY <1>5, <1>6
  <2>2. \A x \in Cells : promised'[b][x] \in {Undefined, data'[b][x]}
    BY <1>1, <1>2, <1>6, <2>1, UnmapPromise DEF BufferTrue
  <2> QED BY <1>1, <1>2, <2>1, <2>2, DataUnmapped
<1>7. CASE "explicit" \notin map[b].access
  <2>1. /\ \A c \in Buffers \ {b} : data'[c] = data[c]
        /\ \A x \in Cells : data'[b][x] =
             IF x \in Span(map[b].offset + 0, map[b].length)
             THEN slots[s].staging[x - map[b].offset] ELSE data[b][x]
    BY <1>1, <1>2, <1>4, <1>5, <1>7, QueuedCells DEF s
  <2>2. map[b].offset + 0 = map[b].offset
    BY <1>4
  <2>3. ASSUME NEW x \in Cells PROVE promised'[b][x] \in {Undefined, data'[b][x]}
    <3>1. promised'[b][x] = IF wrote[b][x] = Undefined THEN promised[b][x] ELSE wrote[b][x]
      BY <1>1, <1>7, UnmapPromise
    <3>2. \/ wrote[b][x] = Undefined
          \/ /\ x \in Span(map[b].offset, map[b].length)
             /\ slots[s].staging[x - map[b].offset] = wrote[b][x]
      BY <1>2 DEF BufferTrue, s
    <3>3. x \in Span(map[b].offset, map[b].length) => promised[b][x] = Undefined
      BY <1>2, <1>7 DEF BufferTrue
    <3>4. promised[b][x] \in {Undefined, data[b][x]}
      BY <1>2 DEF BufferTrue
    <3> QED BY <2>1, <2>2, <3>1, <3>2, <3>3, <3>4
  <2> QED BY <1>1, <1>2, <2>1, <2>3, DataUnmapped
<1> QED
  BY <1>6, <1>7

LEMMA DataUnmapOnHost ==
  ASSUME Careful, Sound, NEW t \in Targets, UnmapOnHost(t)
  PROVE  DataInv'
<1> PICK b \in Buffers : b = Bound(t)
  BY DEF UnmapOnHost, MayHandBack, Sound, BindingInv, BindingTypes
<1>1. /\ MayHandBack(t) /\ mapped_upload_find(t) = NoSlot /\ hostMap' = hostMap \ {b}
      /\ slots' = slots /\ Unmapped(b)
      /\ data' = IF "explicit" \in map[b].access THEN data ELSE HostWritten(b, Cells)
  BY DEF UnmapOnHost
<1>2. BufferTrue(b) /\ b \in alive
  BY <1>1, HandedBack DEF Sound, DataInv
<1>3. b \in hostMap
  <2>1. map[b].via = "guest" => map[b].slot \in Slots
    BY MapTypes DEF Sound, DataTypes
  <2> QED BY <1>1, <2>1, HandedBack DEF NoSlot, Slots
<1>4. CASE "explicit" \in map[b].access
  <2>1. data' = data
    BY <1>1, <1>4
  <2>2. \A x \in Cells : promised'[b][x] \in {Undefined, data'[b][x]}
    BY <1>1, <1>2, <1>4, <2>1, UnmapPromise DEF BufferTrue
  <2> QED BY <1>1, <2>1, <2>2, DataUnmapped
<1>5. CASE "explicit" \notin map[b].access
  <2>1. /\ \A c \in Buffers \ {b} : data'[c] = data[c]
        /\ \A x \in Cells : data'[b][x] = IF wrote[b][x] # Undefined THEN wrote[b][x] ELSE data[b][x]
    BY <1>1, <1>3, <1>5 DEF HostWritten, Sound, DataTypes
  <2>2. \A x \in Cells : promised'[b][x] \in {Undefined, data'[b][x]}
    BY <1>1, <1>2, <1>5, <2>1, UnmapPromise DEF BufferTrue
  <2> QED BY <1>1, <2>1, <2>2, DataUnmapped
<1> QED
  BY <1>4, <1>5

\* New storage holds what it was given, and has no mapping.
LEMMA DataRespecify ==
  ASSUME Sound, NEW t \in Targets, BufferData(t)
  PROVE  DataInv'
<1> PICK b \in Buffers : b = Bound(t)
  BY DEF BufferData, Sound, BindingInv, BindingTypes
<1>1. /\ data' = [data EXCEPT ![b] = [x \in Cells |-> steps + 1]]
      /\ promised' = [promised EXCEPT ![b] = [x \in Cells |-> steps + 1]]
      /\ hostMap' = hostMap \ {b} /\ map' = [map EXCEPT ![b] = NotMapped]
      /\ wrote' = [wrote EXCEPT ![b] = [x \in Cells |-> Undefined]]
      /\ UNCHANGED <<alive, slots>>
  BY DEF BufferData, wrapper
<1>2. /\ map'[b].via = "none" /\ \A x \in Cells : wrote'[b][x] = Undefined
      /\ \A x \in Cells : promised'[b][x] = data'[b][x]
      /\ \A c \in Buffers \ {b} : map'[c] = map[c] /\ wrote'[c] = wrote[c] /\ promised'[c] = promised[c]
                                  /\ data'[c] = data[c]
  BY <1>1 DEF NotMapped, Sound, DataTypes, SlotTypes
<1>3. BufferTrue(b)'
  BY <1>1, <1>2 DEF BufferTrue
<1>4. Shrinks /\ SameBytes
  BY <1>1 DEF Shrinks, SameBytes
<1> QED
  BY <1>1, <1>2, <1>3, <1>4, OthersShrink

\* A deleted buffer is mapped nowhere; a name that comes back promises nothing.
LEMMA DataDelete ==
  ASSUME Sound, NEW S \in SUBSET alive, DeleteBuffers(S)
  PROVE  DataInv'
<1>1. /\ alive' = alive \ S /\ hostMap' = hostMap \ S /\ UNCHANGED <<data, promised>>
      /\ slots' = Deactivate({mapped_upload_of_buffer(b) : b \in S})
      /\ map' = [b \in Buffers |-> IF b \in S THEN NotMapped ELSE map[b]]
      /\ wrote' = [b \in Buffers |-> IF b \in S THEN [x \in Cells |-> Undefined] ELSE wrote[b]]
  BY DEF DeleteBuffers, ForgottenSlots
<1>2. Shrinks /\ SameBytes
  BY <1>1, DeactivateShrinks DEF Sound, DataTypes
<1>3. ASSUME NEW b \in Buffers PROVE BufferTrue(b)'
  <2>1. CASE b \in S
    <3>1. map'[b].via = "none" /\ b \notin hostMap' /\ b \notin alive' /\ \A x \in Cells : wrote'[b][x] = Undefined
      BY <1>1, <2>1 DEF NotMapped
    <3> QED BY <3>1 DEF BufferTrue
  <2>2. CASE b \notin S
    <3>1. map[b].via = "guest" => map[b].slot \in Slots
      BY MapTypes DEF Sound, DataTypes
    <3>2. map'[b] = map[b] /\ wrote'[b] = wrote[b] /\ BufferTrue(b)
      BY <1>1, <2>2 DEF Sound, DataInv
    <3> QED BY <1>1, <1>2, <2>2, <3>1, <3>2, Elsewhere DEF Shrinks, SameBytes
  <2> QED BY <2>1, <2>2
<1> QED
  BY <1>2, <1>3, ShrinksOneSlot DEF DataInv, Sound

LEMMA DataGen ==
  ASSUME Sound, NEW b \in Buffers, GenBuffer(b)
  PROVE  DataInv'
<1>1. /\ promised' = [promised EXCEPT ![b] = [x \in Cells |-> Undefined]] /\ alive' = alive \cup {b}
      /\ UNCHANGED <<data, hostMap, slots, map, wrote>>
  BY DEF GenBuffer, wrapper
<1>2. /\ \A x \in Cells : promised'[b][x] = Undefined
      /\ \A c \in Buffers \ {b} : promised'[c] = promised[c]
  BY <1>1 DEF Sound, DataTypes
<1>3. BufferTrue(b)'
  BY <1>1, <1>2 DEF BufferTrue, Sound, DataInv
<1>4. ASSUME NEW c \in Buffers, c # b PROVE BufferTrue(c)'
  BY <1>1, <1>2, <1>4, Elsewhere DEF Sound, DataInv
<1> QED
  BY <1>1, <1>3, <1>4 DEF DataInv, OneSlot, Sound

LEMMA DataStep ==
  ASSUME Careful, Sound, [Next]_vars
  PROVE  DataInv'
<1>1. CASE Mapping
  BY <1>1, DataMapInGuest, DataMapOnHost, DataMapBuffer, DataUnmapInGuest, DataUnmapOnHost,
     DataRespecify, DataFlush, DataWrite DEF Mapping
<1>2. CASE (\E S \in SUBSET alive : DeleteBuffers(S)) \/ (\E b \in Buffers : GenBuffer(b))
  BY <1>2, DataDelete, DataGen
<1>3. ASSUME UNCHANGED <<alive, data, hostMap, slots, map, wrote, promised>> PROVE DataInv'
  BY <1>3 DEF DataInv, OneSlot, BufferTrue, Sound
<1> QED
  BY <1>1, <1>2, <1>3, BindingQuiet DEF Next, Binding

\* Every byte the application hands back reaches the buffer (mapped_upload_begin,
\* _queue, _end, wrapgl32.c:700-905): what OpenGL promises of an unmapped buffer is what
\* it holds, for any buffers, slots, sizes and access bits, if the application binds a
\* buffer with glBindBuffer before it flushes or unmaps it, the table of tracked
\* bindings has room for the targets, and buffers that are bound with
\* glBindBufferOffset{EXT,NV} are bound again before they are mapped.
THEOREM UploadsArrive == Careful /\ Spec => []DataAsPromised
<1> SUFFICES ASSUME Careful PROVE Spec => []DataAsPromised
  OBVIOUS
<1>1. Init => Sound
  BY BindingStart, DataTypesStart, SlotStart, DataStart DEF Sound, DataInv, SlotInv
<1>2. Sound /\ [Next]_vars => Sound'
  <2> SUFFICES ASSUME Sound, [Next]_vars PROVE Sound'
    OBVIOUS
  <2>1. SlotInv'
    <3>1. SlotInv /\ BindingInv /\ Rebinds
      BY DEF Sound, SlotInv, DataTypes, Careful
    <3> QED BY <3>1, SlotStep
  <2>2. BindingInv' /\ DataTypes' /\ NamedTracked' /\ DataInv'
    BY BindingStep, DataTypesStep, NamedTrackedStep, DataStep DEF Sound, Careful
  <2> QED BY <2>1, <2>2 DEF Sound, SlotInv
<1>3. Sound => DataAsPromised
  <2> SUFFICES ASSUME Sound, NEW b \in alive, map[b] = NotMapped, NEW x \in Cells
               PROVE promised[b][x] \in {Undefined, data[b][x]}
    BY DEF DataAsPromised
  <2> QED BY DEF Sound, BindingInv, BindingTypes, DataInv, BufferTrue
<1> HIDE DEF Sound, DataAsPromised
<1> QED
  BY <1>1, <1>2, <1>3, PTL DEF Spec
=============================================================================
