---------------------------- MODULE MappedUploads ----------------------------
(***************************************************************************)
(* Write-only buffer maps that never leave the guest                       *)
(* (wrappers/mesa/src/wrapgl32.c).                                         *)
(*                                                                         *)
(* glMapBufferRange hands the application a piece of guest memory, a slot, *)
(* and every range the application hands back is sent to the host as a     *)
(* queued glBufferSubData.  The wrapper finds the slot through the buffer  *)
(* it believes the target to have bound; OpenGL writes the bytes into the  *)
(* buffer the target really has bound.  CallFifo shows that queued calls   *)
(* are carried out in the order they were made, so here a queued call      *)
(* takes effect at once.                                                   *)
(*                                                                         *)
(* Three parties: OpenGL itself (external), the wrapper, and the           *)
(* application with what OpenGL promises it.                               *)
(***************************************************************************)
EXTENDS Integers, FiniteSets

CONSTANTS
  Buffers,        \* buffer names
  NoBuffer,       \* NO_BUFFER, the name 0
  Targets,        \* binding targets
  ElementTarget,  \* GL_ELEMENT_ARRAY_BUFFER, whose binding is part of the VAO
  Contexts,       \* contexts of one share group
  VAOs,           \* vertex array objects of each context
  VAO0,           \* the one that is always there
  NotTracked,     \* BINDING_NOT_TRACKED
  SlotCount,      \* MAPPED_UPLOAD_SLOT_COUNT
  TrackedMax,     \* TRACKED_BINDING_COUNT
  BufferSize,     \* cells in a buffer
  MaxLength,      \* MAPPED_UPLOAD_MAX_BYTES, in cells
  Align,          \* what ALIGNED rounds up to, in cells
  Accesses,       \* the access bits applications map with
  MaxSteps,       \* bound: maps, writes through mapped pointers, respecifications
  UntrackedBinds, \* targets bound with glBindBufferOffset{EXT,NV}
  RebindsToMap,   \* the application binds a buffer with glBindBuffer before it maps it
                  \* (it always does when it has respecified a mapped buffer) ...
  RebindsToUnmap, \* ... and before it flushes or unmaps it
  Respecifies     \* the application respecifies buffers that are still mapped

NoSlot == 0
NotMapped == [via |-> "none"]
Undefined == -1                      \* OpenGL leaves the cell undefined

Slots == 1 .. SlotCount
Cells == 0 .. (BufferSize - 1)
Bits == {"read", "write", "persistent", "invalidate", "explicit"}

ASSUME NamesAssumption ==
  /\ NoBuffer \notin Buffers /\ NotTracked \notin Buffers \cup {NoBuffer} /\ IsFiniteSet(Targets)
  /\ ElementTarget \in Targets /\ UntrackedBinds \subseteq Targets
  /\ VAO0 \in VAOs /\ Contexts # {}

ASSUME SizesAssumption ==
  /\ SlotCount \in Nat /\ TrackedMax \in Nat /\ BufferSize \in Nat \ {0}
  /\ MaxLength \in Nat /\ Align \in Nat \ {0} /\ MaxSteps \in Nat
  /\ Accesses \subseteq SUBSET Bits
  /\ {RebindsToMap, RebindsToUnmap, Respecifies} \subseteq BOOLEAN

VARIABLES
  current,   \* OpenGL: the current context
  bound,     \* OpenGL: bound[c][t], for every target but the element array
  vao,       \* OpenGL: the vertex array bound in each context
  elem,      \* OpenGL: elem[c][v], the element array buffer of a vertex array
  alive,     \* OpenGL: names of existing buffers
  data,      \* OpenGL: data[b], what buffer b holds
  hostMap,   \* OpenGL: the buffers mapped on the host
  tracked,   \* wrapper: trackedBindings
  slots,     \* wrapper: mappedUploads
  map,       \* application: how each buffer is mapped
  wrote,     \* application: wrote[b], written and not yet handed back
  promised,  \* application: promised[b], what OpenGL says buffer b holds
  named,     \* application: targets it has bound in this context and VAO, with glBindBuffer
  steps      \* application: maps, writes and respecifications so far

bindings == <<current, bound, vao, elem>>
gl == <<bindings, alive, data, hostMap>>
wrapper == <<tracked, slots>>
app == <<map, wrote, promised, named, steps>>
vars == <<gl, wrapper, app>>

Values == 0 .. MaxSteps

Slot == [active : BOOLEAN, buffer : Buffers \cup {NoBuffer}, offset : Nat, length : 0 .. MaxLength,
         access : SUBSET Bits, capacity : Nat, staging : [Cells -> Values]]

MapRecord == [via : {"guest"}, slot : Slots, offset : Nat, length : Nat, access : SUBSET Bits]
             \cup [via : {"host"}, offset : Nat, length : Nat, access : SUBSET Bits]

TypeOK ==
  /\ current \in Contexts
  /\ bound \in [Contexts -> [Targets -> Buffers \cup {NoBuffer}]]
  /\ vao \in [Contexts -> VAOs]
  /\ elem \in [Contexts -> [VAOs -> Buffers \cup {NoBuffer}]]
  /\ alive \subseteq Buffers /\ hostMap \subseteq Buffers
  /\ data \in [Buffers -> [Cells -> Values]]
  /\ tracked \in [Targets -> Buffers \cup {NoBuffer, NotTracked}]
  /\ slots \in [Slots -> Slot]
  /\ map \in [Buffers -> MapRecord \cup {NotMapped}]
  /\ wrote \in [Buffers -> [Cells -> Values \cup {Undefined}]]
  /\ promised \in [Buffers -> [Cells -> Values \cup {Undefined}]]
  /\ named \subseteq Targets /\ steps \in 0 .. MaxSteps

Init ==
  /\ current \in Contexts
  /\ bound = [c \in Contexts |-> [t \in Targets |-> NoBuffer]]
  /\ vao = [c \in Contexts |-> VAO0]
  /\ elem = [c \in Contexts |-> [v \in VAOs |-> NoBuffer]]
  /\ alive = Buffers /\ hostMap = {}
  /\ data = [b \in Buffers |-> [x \in Cells |-> 0]]
  /\ tracked = [t \in Targets |-> NotTracked]
  /\ slots = [s \in Slots |-> [active |-> FALSE, buffer |-> NoBuffer, offset |-> 0, length |-> 0,
                               access |-> {}, capacity |-> 0, staging |-> [x \in Cells |-> 0]]]
  /\ map = [b \in Buffers |-> NotMapped]
  /\ wrote = [b \in Buffers |-> [x \in Cells |-> Undefined]]
  /\ promised = data
  /\ named = {} /\ steps = 0

-----------------------------------------------------------------------------
(* What the wrapper keeps of the bindings. *)

\* The buffer OpenGL has bound to t.
Bound(t) == IF t = ElementTarget THEN elem[current][vao[current]] ELSE bound[current][t]

trackedBindingCount == Cardinality({t \in Targets : tracked[t] # NotTracked})

binding_note(t, b) ==
  IF tracked[t] = NotTracked /\ trackedBindingCount >= TrackedMax
  THEN tracked
  ELSE [tracked EXCEPT ![t] = b]

binding_forget(t) == [tracked EXCEPT ![t] = NotTracked]

\* The bindings of the old context are believed of the new one.
WrongForgetAll == tracked

binding_forget_all == [t \in Targets |-> NotTracked]

binding_buffer(t) == IF tracked[t] = NotTracked THEN NoBuffer ELSE tracked[t]

-----------------------------------------------------------------------------
(* The slots. *)

ActiveFor(b) == {s \in Slots : b # NoBuffer /\ slots[s].active /\ slots[s].buffer = b}

First(S) == CHOOSE s \in S : \A r \in S : s <= r

mapped_upload_of_buffer(b) == IF ActiveFor(b) = {} THEN NoSlot ELSE First(ActiveFor(b))

mapped_upload_find(t) == mapped_upload_of_buffer(binding_buffer(t))

\* Mappings of any length are kept in the guest.
WrongWanted(length, access) ==
  /\ length # 0
  /\ "write" \in access
  /\ access \cap {"read", "persistent"} = {}
  /\ access \cap {"explicit", "invalidate"} # {}

\* Untouched bytes must be undefined, and the host must not need the memory.
mapped_upload_wanted(length, access) ==
  /\ length # 0 /\ length <= MaxLength
  /\ "write" \in access
  /\ access \cap {"read", "persistent"} = {}
  /\ access \cap {"explicit", "invalidate"} # {}

Deactivate(S) == [s \in Slots |-> IF s \in S THEN [slots[s] EXCEPT !.active = FALSE] ELSE slots[s]]

\* A buffer mapped by the host keeps the slot of its mapping before.
WrongAbandon(t) == slots

\* mapped_upload_abandon, and what is left of the slots when it has run.
mapped_upload_abandon(t) == Deactivate({mapped_upload_find(t)})

Aligned(n) == IF n % Align # 0 THEN (n \div Align + 1) * Align ELSE n

\* With no slot of its own a buffer is given the first, taken or not.
WrongSlotFor(b) ==
  IF b = NoBuffer THEN NoSlot ELSE IF ActiveFor(b) # {} THEN First(ActiveFor(b)) ELSE First(Slots)

\* The slot mapped_upload_begin takes for buffer b: its own, or the first free one.
SlotFor(b) ==
  LET own == ActiveFor(b)
      free == {s \in Slots : ~slots[s].active}
  IN  IF b = NoBuffer \/ own \cup free = {} THEN NoSlot
      ELSE IF own # {} THEN First(own) ELSE First(free)

MustGrow(s, length) == slots[s].capacity < Aligned(length)

\* mapped_upload_begin with a slot, when VirtualAlloc grants the memory ...
Begun(s, b, offset, length, access) ==
  [slots EXCEPT ![s] =
     [active |-> TRUE, buffer |-> b, offset |-> offset, length |-> length, access |-> access,
      capacity |-> IF MustGrow(s, length) THEN Aligned(length) ELSE @.capacity,
      staging |-> IF MustGrow(s, length) THEN [x \in Cells |-> 0] ELSE @.staging]]

\* ... and when it does not.
Refused(s) == [slots EXCEPT ![s].active = FALSE, ![s].capacity = 0]

Span(offset, length) == offset .. (offset + length - 1)

\* The range is queued relative to the mapping, not to the buffer.
WrongQueue(t, s, rangeOffset, count) ==
  LET u == slots[s]
      inside == count # 0 /\ rangeOffset <= u.length /\ count <= u.length - rangeOffset
  IN  IF inside /\ Bound(t) \in alive \ hostMap
      THEN [data EXCEPT ![Bound(t)] =
              [x \in Cells |-> IF x \in Span(rangeOffset, count) THEN u.staging[x] ELSE @[x]]]
      ELSE data

\* OpenGL carries out glBufferSubData on t with the bytes of slot s that
\* mapped_upload_queue queued; it checks the range first.
mapped_upload_queue(t, s, rangeOffset, count) ==
  LET u == slots[s]
      inside == count # 0 /\ rangeOffset <= u.length /\ count <= u.length - rangeOffset
  IN  IF inside /\ Bound(t) \in alive \ hostMap
      THEN [data EXCEPT ![Bound(t)] =
              [x \in Cells |-> IF x \in Span(u.offset + rangeOffset, count)
                               THEN u.staging[x - u.offset] ELSE @[x]]]
      ELSE data

\* The bytes of a host map reach the buffer: those written in cells X.
HostWritten(b, X) ==
  IF b \in hostMap
  THEN [data EXCEPT ![b] = [x \in Cells |-> IF x \in X /\ wrote[b][x] # Undefined THEN wrote[b][x] ELSE @[x]]]
  ELSE data

-----------------------------------------------------------------------------
(* Binding. *)

\* OpenGL's side of a bind.
GLBind(t, b) ==
  IF t = ElementTarget
  THEN elem' = [elem EXCEPT ![current][vao[current]] = b] /\ bound' = bound
  ELSE bound' = [bound EXCEPT ![current][t] = b] /\ elem' = elem

\* glBindBuffer, glBindBufferBase, glBindBufferRange and their ARB and EXT forms.
BindBuffer(t, b) ==
  /\ GLBind(t, b)
  /\ tracked' = binding_note(t, b)
  /\ named' = named \cup {t}
  /\ UNCHANGED <<current, vao, alive, data, hostMap, slots, map, wrote, promised, steps>>

\* glBindBufferBaseNV, glBindBufferRangeNV.
BindBufferNV(t, b) ==
  /\ GLBind(t, b)
  /\ tracked' = binding_forget(t)
  /\ named' = named \ {t}
  /\ UNCHANGED <<current, vao, alive, data, hostMap, slots, map, wrote, promised, steps>>

\* glBindBufferOffsetEXT, glBindBufferOffsetNV: queued and nothing else.
BindBufferOffset(t, b) ==
  /\ t \in UntrackedBinds
  /\ GLBind(t, b)
  /\ named' = named \ {t}
  /\ UNCHANGED <<current, vao, alive, data, hostMap, wrapper, map, wrote, promised, steps>>

BindVertexArray(v) ==
  /\ vao' = [vao EXCEPT ![current] = v]
  /\ tracked' = binding_forget(ElementTarget)
  /\ named' = named \ {ElementTarget}
  /\ UNCHANGED <<current, bound, elem, alive, data, hostMap, slots, map, wrote, promised, steps>>

\* A deleted vertex array that is bound gives way to the one always there.
DeleteVertexArrays(v) ==
  /\ v # VAO0
  /\ vao' = [vao EXCEPT ![current] = IF @ = v THEN VAO0 ELSE @]
  /\ elem' = [elem EXCEPT ![current][v] = NoBuffer]
  /\ tracked' = binding_forget(ElementTarget)
  /\ named' = named \ {ElementTarget}
  /\ UNCHANGED <<current, bound, alive, data, hostMap, slots, map, wrote, promised, steps>>

MakeCurrent(c) ==
  /\ current' = c
  /\ tracked' = binding_forget_all
  /\ named' = {}
  /\ UNCHANGED <<bound, vao, elem, alive, data, hostMap, slots, map, wrote, promised, steps>>

\* What glDeleteBuffers leaves of the slots ...
ForgottenSlots(S) == Deactivate({mapped_upload_of_buffer(b) : b \in S})

\* ... and of the bindings.
ForgottenBindings(S) == [t \in Targets |-> IF tracked[t] \in S THEN NoBuffer ELSE tracked[t]]

\* OpenGL unbinds and unmaps the deleted buffers S; an application does not use
\* a name it deleted, so the bindings of other contexts lose it as well.
DeleteBuffers(S) ==
  LET unbound(b) == IF b \in S THEN NoBuffer ELSE b
  IN  /\ alive' = alive \ S /\ hostMap' = hostMap \ S
      /\ bound' = [c \in Contexts |-> [t \in Targets |-> unbound(bound[c][t])]]
      /\ elem' = [c \in Contexts |-> [v \in VAOs |-> unbound(elem[c][v])]]
      /\ slots' = ForgottenSlots(S)
      /\ tracked' = ForgottenBindings(S)
      /\ map' = [b \in Buffers |-> IF b \in S THEN NotMapped ELSE map[b]]
      /\ wrote' = [b \in Buffers |-> IF b \in S THEN [x \in Cells |-> Undefined] ELSE wrote[b]]
      /\ UNCHANGED <<current, vao, data, promised, named, steps>>

\* glGenBuffers may return a name that was deleted.
GenBuffer(b) ==
  /\ b \notin alive
  /\ alive' = alive \cup {b}
  /\ promised' = [promised EXCEPT ![b] = [x \in Cells |-> Undefined]]
  /\ UNCHANGED <<bindings, data, hostMap, wrapper, map, wrote, named, steps>>

\* glBufferData gives the buffer new storage; OpenGL drops a mapping of the old.
BufferData(t) ==
  LET b == Bound(t)
  IN  /\ b \in alive /\ steps < MaxSteps
      /\ map[b] # NotMapped => Respecifies
      /\ data' = [data EXCEPT ![b] = [x \in Cells |-> steps + 1]]
      /\ promised' = [promised EXCEPT ![b] = [x \in Cells |-> steps + 1]]
      /\ hostMap' = hostMap \ {b}
      /\ map' = [map EXCEPT ![b] = NotMapped]
      /\ wrote' = [wrote EXCEPT ![b] = [x \in Cells |-> Undefined]]
      /\ steps' = steps + 1
      /\ UNCHANGED <<bindings, alive, wrapper, named>>

-----------------------------------------------------------------------------
(* Mapping. *)

\* A mapping of buffer b went with its storage and left its slot behind.
Abandoned(b) == map[b] = NotMapped /\ ActiveFor(b) # {}

MayMap(t) ==
  /\ steps < MaxSteps
  /\ Bound(t) \in alive /\ map[Bound(t)] = NotMapped
  /\ RebindsToMap \/ Abandoned(Bound(t)) => t \in named

\* OpenGL's promise when b is mapped: what is invalidated may become anything.
PromiseMapped(b, offset, length, access) ==
  [promised EXCEPT ![b] =
     [x \in Cells |-> IF "invalidate" \in access /\ x \in Span(offset, length) THEN Undefined ELSE @[x]]]

\* glMapBufferRange answered by the wrapper alone.
MapInGuest(t, offset, length, access) ==
  LET s == SlotFor(binding_buffer(t))
  IN  /\ MayMap(t)
      /\ mapped_upload_wanted(length, access) /\ s # NoSlot
      /\ slots' = Begun(s, binding_buffer(t), offset, length, access)
      /\ map' = [map EXCEPT ![Bound(t)] =
                   [via |-> "guest", slot |-> s, offset |-> offset, length |-> length, access |-> access]]
      /\ promised' = PromiseMapped(Bound(t), offset, length, access)
      /\ steps' = steps + 1
      /\ UNCHANGED <<gl, tracked, wrote, named>>

\* What glMapBufferRange leaves of the slots when it goes to the host:
\* mapped_upload_begin may have tried one in vain.  A buffer with a slot of its
\* own is abandoned either way.
SlotsForHost(t, length, access) ==
  LET s == SlotFor(binding_buffer(t))
  IN  IF ~mapped_upload_wanted(length, access) THEN {mapped_upload_abandon(t)}
      ELSE IF s = NoSlot THEN {slots}
      ELSE IF MustGrow(s, length) THEN {Refused(s)}
      ELSE {}

MapOnHost(t, offset, length, access) ==
  /\ MayMap(t)
  /\ slots' \in SlotsForHost(t, length, access)
  /\ hostMap' = hostMap \cup {Bound(t)}
  /\ map' = [map EXCEPT ![Bound(t)] =
               [via |-> "host", offset |-> offset, length |-> length, access |-> access]]
  /\ promised' = PromiseMapped(Bound(t), offset, length, access)
  /\ steps' = steps + 1
  /\ UNCHANGED <<bindings, alive, data, tracked, wrote, named>>

\* glMapBuffer maps the whole buffer and always on the host.
MapBuffer(t) ==
  /\ MayMap(t)
  /\ slots' = mapped_upload_abandon(t)
  /\ hostMap' = hostMap \cup {Bound(t)}
  /\ map' = [map EXCEPT ![Bound(t)] =
               [via |-> "host", offset |-> 0, length |-> BufferSize, access |-> {"write"}]]
  /\ steps' = steps + 1
  /\ UNCHANGED <<bindings, alive, data, tracked, wrote, promised, named>>

\* The application stores a value through the pointer it was given.
WriteMapped(b, x) ==
  LET m == map[b]
  IN  /\ m # NotMapped /\ steps < MaxSteps
      /\ "write" \in m.access /\ x \in Span(m.offset, m.length)
      /\ wrote' = [wrote EXCEPT ![b][x] = steps + 1]
      /\ slots' = IF m.via = "guest"
                  THEN [slots EXCEPT ![m.slot].staging[x - m.offset] = steps + 1]
                  ELSE slots
      /\ steps' = steps + 1
      /\ UNCHANGED <<gl, tracked, map, promised, named>>

MayHandBack(t) ==
  /\ Bound(t) \in alive /\ map[Bound(t)] # NotMapped
  /\ RebindsToUnmap => t \in named

FlushMappedBufferRange(t, rangeOffset, count) ==
  LET b == Bound(t)
      s == mapped_upload_find(t)
      m == map[b]
      inside == rangeOffset + count <= m.length
      X == IF inside THEN Span(m.offset + rangeOffset, count) ELSE {}
  IN  /\ MayHandBack(t) /\ "explicit" \in m.access
      /\ data' = IF s # NoSlot THEN mapped_upload_queue(t, s, rangeOffset, count) ELSE HostWritten(b, X)
      /\ promised' = [promised EXCEPT ![b] = [x \in Cells |-> IF x \in X THEN wrote[b][x] ELSE @[x]]]
      /\ wrote' = [wrote EXCEPT ![b] = [x \in Cells |-> IF x \in X THEN Undefined ELSE @[x]]]
      /\ UNCHANGED <<bindings, alive, hostMap, wrapper, map, named, steps>>

\* What OpenGL promises once b is unmapped: what was written, unless it was to be
\* flushed and was not.
PromiseUnmapped(b) ==
  [promised EXCEPT ![b] =
     [x \in Cells |-> IF wrote[b][x] = Undefined THEN @[x]
                      ELSE IF "explicit" \in map[b].access THEN Undefined ELSE wrote[b][x]]]

Unmapped(b) ==
  /\ map' = [map EXCEPT ![b] = NotMapped]
  /\ wrote' = [wrote EXCEPT ![b] = [x \in Cells |-> Undefined]]
  /\ promised' = PromiseUnmapped(b)
  /\ UNCHANGED <<bindings, alive, tracked, named, steps>>

\* glUnmapBuffer of a guest mapping (mapped_upload_end returns 1).
UnmapInGuest(t) ==
  LET s == mapped_upload_find(t)
  IN  /\ MayHandBack(t) /\ s # NoSlot
      /\ data' = IF "explicit" \in slots[s].access THEN data
                 ELSE mapped_upload_queue(t, s, 0, slots[s].length)
      /\ slots' = Deactivate({s})
      /\ hostMap' = hostMap
      /\ Unmapped(Bound(t))

\* glUnmapBuffer of anything else; OpenGL refuses it if b is not mapped.
UnmapOnHost(t) ==
  LET b == Bound(t)
  IN  /\ MayHandBack(t) /\ mapped_upload_find(t) = NoSlot
      /\ data' = IF "explicit" \in map[b].access THEN data ELSE HostWritten(b, Cells)
      /\ hostMap' = hostMap \ {b}
      /\ slots' = slots
      /\ Unmapped(b)

-----------------------------------------------------------------------------
Binding ==
  \/ \E t \in Targets, b \in alive \cup {NoBuffer} :
       BindBuffer(t, b) \/ BindBufferNV(t, b) \/ BindBufferOffset(t, b)
  \/ \E v \in VAOs : BindVertexArray(v) \/ DeleteVertexArrays(v)
  \/ \E c \in Contexts : MakeCurrent(c)
  \/ \E S \in SUBSET alive : DeleteBuffers(S)
  \/ \E b \in Buffers : GenBuffer(b)

Mapping ==
  \/ \E t \in Targets, offset \in Cells, length \in 1 .. BufferSize, access \in Accesses :
       /\ offset + length <= BufferSize
       /\ MapInGuest(t, offset, length, access) \/ MapOnHost(t, offset, length, access)
  \/ \E t \in Targets : MapBuffer(t) \/ UnmapInGuest(t) \/ UnmapOnHost(t) \/ BufferData(t)
  \/ \E t \in Targets, rangeOffset \in Cells, count \in 0 .. BufferSize :
       FlushMappedBufferRange(t, rangeOffset, count)
  \/ \E b \in Buffers, x \in Cells : WriteMapped(b, x)

Next == Binding \/ Mapping

Spec == Init /\ [][Next]_vars

-----------------------------------------------------------------------------
(* What the wrapper must get right. *)

\* "Every range it hands back reaches the host": what OpenGL promises of an
\* unmapped buffer is what the buffer holds, however maps, binds, deletes and
\* context switches were mixed and wherever each map was kept.
DataAsPromised ==
  \A b \in alive : map[b] = NotMapped =>
    \A x \in Cells : promised[b][x] \in {Undefined, data[b][x]}

\* A live guest mapping has its slot to itself, and the slot still describes it:
\* neither another map nor an abandoned or failed one has taken it over.
OwnSlot ==
  \A b \in Buffers : map[b].via = "guest" =>
    LET u == slots[map[b].slot]
    IN  /\ u.active /\ u.buffer = b
        /\ u.offset = map[b].offset /\ u.length = map[b].length /\ u.access = map[b].access
        /\ u.length <= u.capacity

\* The wrapper vouches only for bindings that OpenGL really has.
TrackedTrue == \A t \in Targets : tracked[t] \in {NotTracked, Bound(t)}
=============================================================================
