-------------------------- MODULE ClientArrays_proofs --------------------------
(***************************************************************************)
(* Proofs about the client vertex arrays, for any functions, pointers,     *)
(* buffers, units and draws, and any number of calls.                      *)
(***************************************************************************)
EXTENDS ClientArrays, FiniteSetTheorems, WellFoundedInduction, TLAPS

-----------------------------------------------------------------------------
(* ---- The record of the arrays keeps its shape. -------------------------- *)

\* The calls that can be in the FIFO.
Calls ==
  [f : {"ArrayState"}, name : Names \cup {"Color", "TexCoord"}, st : BOOLEAN]
  \cup [f : {"AttribState"}, attr : Attribs, st : BOOLEAN]
  \cup [f : {"Pointer"}, name : Names, ptr : Ptrs]
  \cup [f : {"AttribPointer"}, attr : Attribs, ptr : Ptrs]
  \cup [f : {"InterleavedArrays"}, ptr : Ptrs]
  \cup [f : {"ClientActiveTexture"}, unit : 0 .. Units - 1]
  \cup [f : {"BindBuffer"}, target : {"array", "element", "pixels"}, buf : Buffers \cup {0}]
  \cup [f : {"DeleteBuffer"}, buf : Buffers]
  \cup [f : {"BindVertexArray"}, vao : Vaos \cup {0}]
  \cup [f : {"DeleteVertexArray"}, vao : Vaos]
  \cup Draws

Entries == [call : Calls, was : TrackedArrays, will : TrackedArrays]

LEMMA InitType == InitClientStates \in TrackedArrays
BY NameAssumption DEF InitClientStates, TrackedArrays, TrackedArray

LEMMA SlotOfType ==
  ASSUME NEW name \in Names \cup {"Color", "TexCoord"}, NEW unit \in 0 .. Units - 1
  PROVE  SlotOf(name, unit) \in Slots
BY NameAssumption DEF SlotOf, Slots, Conventional

LEMMA FieldTypes ==
  ASSUME NEW s \in TrackedArrays
  PROVE  /\ s.texUnit \in 0 .. Units - 1 /\ s.arrayBuf \in Nat /\ s.elemArryBuf \in Nat /\ s.vao \in Nat
         /\ s.inter \in [enable : BOOLEAN, ptr : Nat] /\ s.arr \in [Slots -> TrackedArray]
BY DEF TrackedArrays

\* Each operator of the record once.
LEMMA PointerType ==
  ASSUME NEW s \in TrackedArrays, NEW slot \in Slots, NEW p \in Nat
  PROVE  vtxarry_init(s, slot, p) \in TrackedArrays
<1> DEFINE x == [s.arr[slot] EXCEPT !.ptr = p, !.client = (s.arrayBuf = 0)]
<1>1. s.arr[slot] \in TrackedArray /\ (s.arrayBuf = 0) \in BOOLEAN
  BY FieldTypes
<1>2. x \in TrackedArray
  BY <1>1 DEF TrackedArray
<1> HIDE DEF x
<1>3. [s EXCEPT !.arr[slot] = x] \in TrackedArrays
  BY <1>2 DEF TrackedArrays
<1> QED BY <1>3 DEF vtxarry_init, x

LEMMA EnableType ==
  ASSUME NEW s \in TrackedArrays, NEW slot \in Slots, NEW st \in BOOLEAN
  PROVE  [s EXCEPT !.arr[slot].enable = st] \in TrackedArrays
BY DEF TrackedArrays, TrackedArray

LEMMA StateType ==
  ASSUME NEW s \in TrackedArrays, NEW name \in Names \cup {"Color", "TexCoord"}, NEW st \in BOOLEAN
  PROVE  vtxarry_state(s, name, st) \in TrackedArrays
BY FieldTypes, SlotOfType, EnableType DEF vtxarry_state

LEMMA UnitType ==
  ASSUME NEW s \in TrackedArrays, NEW u \in 0 .. Units - 1
  PROVE  [s EXCEPT !.texUnit = u] \in TrackedArrays
BY DEF TrackedArrays

LEMMA AttribNamesInSlots == \A i \in 1 .. 8 : <<AttribNames[i], 0>> \in Slots /\ AttribNames[i] # "TexCoord"
BY DEF AttribNames, Slots, Conventional

LEMMA AttribCases ==
  ASSUME NEW attr \in Attribs
  PROVE  /\ attr \in 0 .. 15
         /\ attr >= 8 => attr % 8 \in 0 .. Units - 1
         /\ ~(attr >= 8) => attr + 1 \in 1 .. 8
BY NameAssumption

LEMMA AttribSlot == ASSUME NEW attr \in Attribs PROVE vattr2arry(attr) \in Slots
<1>1. CASE attr >= 8
  BY <1>1, AttribCases DEF vattr2arry, Slots
<1>2. CASE ~(attr >= 8)
  BY <1>2, AttribCases, AttribNamesInSlots DEF vattr2arry
<1> QED BY <1>1, <1>2

LEMMA AttribStateType ==
  ASSUME NEW s \in TrackedArrays, NEW attr \in Attribs, NEW st \in BOOLEAN
  PROVE  vattr2arry_state(s, attr, st) \in TrackedArrays
<1>1. CASE attr >= 8
  BY <1>1, AttribCases, UnitType, StateType DEF vattr2arry_state
<1>2. CASE ~(attr >= 8)
  <2>1. SlotOf(AttribNames[attr + 1], s.texUnit) \in Slots
    BY <1>2, AttribCases, AttribNamesInSlots DEF SlotOf
  <2> QED BY <1>2, <2>1, EnableType DEF vattr2arry_state, vtxarry_state
<1> QED BY <1>1, <1>2

LEMMA BindingType ==
  ASSUME NEW s \in TrackedArrays, NEW a \in Nat, NEW e \in Nat, NEW v \in Nat
  PROVE  /\ [s EXCEPT !.arrayBuf = a, !.elemArryBuf = e] \in TrackedArrays
         /\ [s EXCEPT !.vao = v, !.arrayBuf = a, !.elemArryBuf = e] \in TrackedArrays
BY DEF TrackedArrays

LEMMA UnderVaoType == ASSUME NEW s \in TrackedArrays PROVE UnderVao(s) \in TrackedArrays
BY FieldTypes, BindingType DEF UnderVao

LEMMA BufferType ==
  ASSUME NEW s \in TrackedArrays, NEW target, NEW b \in Nat
  PROVE  BindBuffer(s, target, b) \in TrackedArrays /\ DeleteBuffer(s, b) \in TrackedArrays
<1>1. [s EXCEPT !.arrayBuf = IF target = "array" THEN b ELSE @,
                !.elemArryBuf = IF target = "element" THEN b ELSE @] \in TrackedArrays
  BY FieldTypes, BindingType
<1>2. [s EXCEPT !.arrayBuf = IF @ = b THEN 0 ELSE @,
                !.elemArryBuf = IF @ = b THEN 0 ELSE @] \in TrackedArrays
  BY FieldTypes, BindingType
<1> QED BY <1>1, <1>2, UnderVaoType DEF BindBuffer, DeleteBuffer

LEMMA VertexArrayType ==
  ASSUME NEW s \in TrackedArrays, NEW v \in Nat
  PROVE  BindVertexArray(s, v) \in TrackedArrays /\ DeleteVertexArray(s, v) \in TrackedArrays
BY FieldTypes, BindingType DEF BindVertexArray, DeleteVertexArray

LEMMA InterleavedType ==
  ASSUME NEW s \in TrackedArrays, NEW p \in Nat
  PROVE  InterleavedArrays(s, p) \in TrackedArrays /\ PushVertexArray(s) \in TrackedArrays
BY DEF InterleavedArrays, PushVertexArray, IsInterleaved, TrackedArrays

LEMMA AfterDrawType == ASSUME NEW s \in TrackedArrays, NEW c PROVE AfterDraw(s, c) \in TrackedArrays
BY InterleavedType DEF AfterDraw

\* What a call's function says of its arguments.
LEMMA CallFields ==
  ASSUME NEW c \in Calls
  PROVE  /\ c.f = "ArrayState" => c.name \in Names \cup {"Color", "TexCoord"} /\ c.st \in BOOLEAN
         /\ c.f = "AttribState" => c.attr \in Attribs /\ c.st \in BOOLEAN
         /\ c.f = "Pointer" => c.name \in Names /\ c.ptr \in Ptrs
         /\ c.f = "AttribPointer" => c.attr \in Attribs /\ c.ptr \in Ptrs
         /\ c.f = "InterleavedArrays" => c.ptr \in Ptrs
         /\ c.f = "ClientActiveTexture" => c.unit \in 0 .. Units - 1
         /\ c.f = "BindBuffer" => c.buf \in Nat
         /\ c.f = "DeleteBuffer" => c.buf \in Nat
         /\ c.f \in {"BindVertexArray", "DeleteVertexArray"} => c.vao \in Nat
<1>0. Buffers \cup {0} \subseteq Nat /\ Vaos \cup {0} \subseteq Nat
  BY ValueAssumption
<1>1. CASE c \in [f : {"ArrayState"}, name : Names \cup {"Color", "TexCoord"}, st : BOOLEAN]
  BY <1>1
<1>2. CASE c \in [f : {"AttribState"}, attr : Attribs, st : BOOLEAN]
  BY <1>2
<1>3. CASE c \in [f : {"Pointer"}, name : Names, ptr : Ptrs]
  BY <1>3
<1>4. CASE c \in [f : {"AttribPointer"}, attr : Attribs, ptr : Ptrs]
  BY <1>4
<1>5. CASE c \in [f : {"InterleavedArrays"}, ptr : Ptrs]
  BY <1>5
<1>6. CASE c \in [f : {"ClientActiveTexture"}, unit : 0 .. Units - 1]
  BY <1>6
<1>7. CASE c \in [f : {"BindBuffer"}, target : {"array", "element", "pixels"}, buf : Buffers \cup {0}]
  <2>1. c.f = "BindBuffer" /\ c.buf \in Nat
    BY <1>0, <1>7
  <2> QED BY <2>1
<1>8. CASE c \in [f : {"DeleteBuffer"}, buf : Buffers]
  <2>1. c.f = "DeleteBuffer" /\ c.buf \in Nat
    BY <1>0, <1>8
  <2> QED BY <2>1
<1>9. CASE c \in [f : {"BindVertexArray"}, vao : Vaos \cup {0}]
  <2>1. c.f = "BindVertexArray" /\ c.vao \in Nat
    BY <1>0, <1>9
  <2> QED BY <2>1
<1>10. CASE c \in [f : {"DeleteVertexArray"}, vao : Vaos]
  BY <1>10, <1>0
<1>11. CASE c \in Draws
  BY <1>11, DrawAssumption
<1> QED BY <1>1, <1>2, <1>3, <1>4, <1>5, <1>6, <1>7, <1>8, <1>9, <1>10, <1>11 DEF Calls

LEMMA DrawIsDraw ==
  ASSUME NEW c \in Draws
  PROVE  IsDraw(c) /\ c \in Calls /\ c # NoDraw
         /\ c.f \in {"DrawArrays", "DrawElements", "DrawRangeElements", "ArrayElement", "LockArraysEXT"}
<1>1. c.f \in {"DrawArrays", "DrawElements", "DrawRangeElements", "ArrayElement", "LockArraysEXT"}
  BY DrawAssumption
<1>2. c \in Calls
  BY DEF Calls
<1>3. c # NoDraw
  BY <1>1 DEF NoDraw
<1> QED BY <1>1, <1>2, <1>3 DEF IsDraw, IsIndexed

LEMMA HostStepType ==
  ASSUME NEW h \in TrackedArrays, NEW c \in Calls, NEW h2, HostStep(h, c, h2)
  PROVE  h2 \in TrackedArrays
<1>1. CASE HostArrayState(h, c, h2)
  BY <1>1, CallFields, StateType DEF HostArrayState
<1>2. CASE HostAttribState(h, c, h2)
  BY <1>2, CallFields, AttribStateType DEF HostAttribState
<1>3. CASE HostPointer(h, c, h2)
  BY <1>3, CallFields, FieldTypes, SlotOfType, PointerType, ValueAssumption DEF HostPointer
<1>4. CASE HostAttribPointer(h, c, h2)
  BY <1>4, CallFields, AttribSlot, PointerType, ValueAssumption DEF HostAttribPointer
<1>5. CASE HostInterleavedArrays(h, c, h2)
  BY <1>5, CallFields, InterleavedType, ValueAssumption DEF HostInterleavedArrays
<1>6. CASE HostClientActiveTexture(h, c, h2)
  BY <1>6, CallFields, UnitType DEF HostClientActiveTexture
<1>7. CASE HostBindBuffer(h, c, h2)
  BY <1>7, CallFields, BufferType DEF HostBindBuffer
<1>8. CASE HostDeleteBuffers(h, c, h2)
  BY <1>8, CallFields, BufferType DEF HostDeleteBuffers
<1>9. CASE HostVertexArray(h, c, h2)
  BY <1>9, CallFields, VertexArrayType DEF HostVertexArray
<1>10. CASE HostDraw(h, c, h2)
  BY <1>10, InterleavedType DEF HostDraw, HostPushVertexArray, PushVertexArray
<1> QED BY <1>1, <1>2, <1>3, <1>4, <1>5, <1>6, <1>7, <1>8, <1>9, <1>10 DEF HostStep

-----------------------------------------------------------------------------
(* ---- What a wrapper's step adds to the FIFO. ---------------------------- *)

\* The host makes of was what the guest made of it: will.
RunsTo(call, was, will) == \A h2 : HostStep(was, call, h2) => h2 = will

\* One call queued from the record there is, and what the host will take for it.
Queued(call, items, will) ==
  /\ Queue(call, items, will)
  /\ call \in Calls /\ will \in TrackedArrays
  /\ RunsTo(call, guest, will) /\ items = HostTakes(guest, call)

StubStep ==
  /\ CanCall /\ calls' = calls + 1
  /\ \E call, items, will : Queued(call, items, will) /\ ~IsDraw(call)
  /\ UNCHANGED <<host, drawing, app, mgl, gl>>

\* Each stub's record and data are what the host's part for it computes.
LEMMA ClientStateMatches ==
  ASSUME guest \in TrackedArrays, NEW name \in Names, NEW st \in BOOLEAN,
         glClientState(name, st)
  PROVE  StubStep
<1> DEFINE c == [f |-> "ArrayState", name |-> name, st |-> st]
           will == vtxarry_state(guest, name, st)
<1>1. c \in Calls /\ ~IsDraw(c)
  BY DEF Calls, IsDraw, IsIndexed
<1>2. will \in TrackedArrays
  BY StateType
<1>3. RunsTo(c, guest, will)
  BY DEF RunsTo, HostStep, HostArrayState, HostAttribState, HostPointer, HostAttribPointer,
         HostInterleavedArrays, HostClientActiveTexture, HostBindBuffer, HostDeleteBuffers,
         HostVertexArray, HostDraw, IsDraw, IsIndexed
<1>4. <<>> = HostTakes(guest, c)
  BY <1>1 DEF HostTakes
<1> HIDE DEF c, will
<1>5. Stub(c, <<>>, will)
  BY DEF glClientState, c, will
<1> QED BY <1>1, <1>2, <1>3, <1>4, <1>5 DEF Stub, StubStep, Queued

LEMMA VertexAttribArrayMatches ==
  ASSUME guest \in TrackedArrays, NEW attr \in Attribs, NEW st \in BOOLEAN,
         glVertexAttribArray(attr, st)
  PROVE  StubStep
<1> DEFINE c == [f |-> "AttribState", attr |-> attr, st |-> st]
           will == vattr2arry_state(guest, attr, st)
<1>1. c \in Calls /\ ~IsDraw(c)
  BY DEF Calls, IsDraw, IsIndexed
<1>2. will \in TrackedArrays
  BY AttribStateType
<1>3. RunsTo(c, guest, will)
  BY DEF RunsTo, HostStep, HostArrayState, HostAttribState, HostPointer, HostAttribPointer,
         HostInterleavedArrays, HostClientActiveTexture, HostBindBuffer, HostDeleteBuffers,
         HostVertexArray, HostDraw, IsDraw, IsIndexed
<1>4. <<>> = HostTakes(guest, c)
  BY <1>1 DEF HostTakes
<1> HIDE DEF c, will
<1>5. Stub(c, <<>>, will)
  BY DEF glVertexAttribArray, c, will
<1> QED BY <1>1, <1>2, <1>3, <1>4, <1>5 DEF Stub, StubStep, Queued

LEMMA PointerMatches ==
  ASSUME guest \in TrackedArrays, NEW name \in Names, NEW p \in Ptrs,
         glPointer(name, p)
  PROVE  StubStep
<1> DEFINE c == [f |-> "Pointer", name |-> name, ptr |-> p]
           will == vtxarry_init(guest, SlotOf(name, guest.texUnit), p)
<1>1. c \in Calls /\ ~IsDraw(c)
  BY DEF Calls, IsDraw, IsIndexed
<1>2. will \in TrackedArrays
  BY FieldTypes, SlotOfType, PointerType, ValueAssumption
<1>3. RunsTo(c, guest, will)
  BY DEF RunsTo, HostStep, HostArrayState, HostAttribState, HostPointer, HostAttribPointer,
         HostInterleavedArrays, HostClientActiveTexture, HostBindBuffer, HostDeleteBuffers,
         HostVertexArray, HostDraw, IsDraw, IsIndexed
<1>4. <<>> = HostTakes(guest, c)
  BY <1>1 DEF HostTakes
<1> HIDE DEF c, will
<1>5. Stub(c, <<>>, will)
  BY DEF glPointer, c, will
<1> QED BY <1>1, <1>2, <1>3, <1>4, <1>5 DEF Stub, StubStep, Queued

LEMMA VertexAttribPointerMatches ==
  ASSUME guest \in TrackedArrays, NEW attr \in Attribs, NEW p \in Ptrs,
         glVertexAttribPointer(attr, p)
  PROVE  StubStep
<1> DEFINE c == [f |-> "AttribPointer", attr |-> attr, ptr |-> p]
           will == vtxarry_init(guest, vattr2arry(attr), p)
<1>1. c \in Calls /\ ~IsDraw(c)
  BY DEF Calls, IsDraw, IsIndexed
<1>2. will \in TrackedArrays
  BY AttribSlot, PointerType, ValueAssumption
<1>3. RunsTo(c, guest, will)
  BY DEF RunsTo, HostStep, HostArrayState, HostAttribState, HostPointer, HostAttribPointer,
         HostInterleavedArrays, HostClientActiveTexture, HostBindBuffer, HostDeleteBuffers,
         HostVertexArray, HostDraw, IsDraw, IsIndexed
<1>4. <<>> = HostTakes(guest, c)
  BY <1>1 DEF HostTakes
<1> HIDE DEF c, will
<1>5. Stub(c, <<>>, will)
  BY DEF glVertexAttribPointer, c, will
<1> QED BY <1>1, <1>2, <1>3, <1>4, <1>5 DEF Stub, StubStep, Queued

LEMMA InterleavedArraysMatches ==
  ASSUME guest \in TrackedArrays, NEW p \in Ptrs,
         glInterleavedArrays(p)
  PROVE  StubStep
<1> DEFINE c == [f |-> "InterleavedArrays", ptr |-> p]
           will == InterleavedArrays(guest, p)
<1>1. c \in Calls /\ ~IsDraw(c)
  BY DEF Calls, IsDraw, IsIndexed
<1>2. will \in TrackedArrays
  BY InterleavedType, ValueAssumption
<1>3. RunsTo(c, guest, will)
  BY DEF RunsTo, HostStep, HostArrayState, HostAttribState, HostPointer, HostAttribPointer,
         HostInterleavedArrays, HostClientActiveTexture, HostBindBuffer, HostDeleteBuffers,
         HostVertexArray, HostDraw, IsDraw, IsIndexed
<1>4. <<>> = HostTakes(guest, c)
  BY <1>1 DEF HostTakes
<1> HIDE DEF c, will
<1>5. Stub(c, <<>>, will)
  BY DEF glInterleavedArrays, c, will
<1> QED BY <1>1, <1>2, <1>3, <1>4, <1>5 DEF Stub, StubStep, Queued

LEMMA ClientActiveTextureMatches ==
  ASSUME guest \in TrackedArrays, NEW u \in 0 .. Units - 1,
         glClientActiveTexture(u)
  PROVE  StubStep
<1> DEFINE c == [f |-> "ClientActiveTexture", unit |-> u]
           will == [guest EXCEPT !.texUnit = u]
<1>1. c \in Calls /\ ~IsDraw(c)
  BY DEF Calls, IsDraw, IsIndexed
<1>2. will \in TrackedArrays
  BY UnitType
<1>3. RunsTo(c, guest, will)
  BY DEF RunsTo, HostStep, HostArrayState, HostAttribState, HostPointer, HostAttribPointer,
         HostInterleavedArrays, HostClientActiveTexture, HostBindBuffer, HostDeleteBuffers,
         HostVertexArray, HostDraw, IsDraw, IsIndexed
<1>4. <<>> = HostTakes(guest, c)
  BY <1>1 DEF HostTakes
<1> HIDE DEF c, will
<1>5. Stub(c, <<>>, will)
  BY DEF glClientActiveTexture, c, will
<1> QED BY <1>1, <1>2, <1>3, <1>4, <1>5 DEF Stub, StubStep, Queued

LEMMA BindBufferMatches ==
  ASSUME guest \in TrackedArrays, NEW target \in {"array", "element", "pixels"}, NEW b \in Buffers \cup {0},
         glBindBuffer(target, b)
  PROVE  StubStep
<1> DEFINE c == [f |-> "BindBuffer", target |-> target, buf |-> b]
           will == BindBuffer(guest, target, b)
<1>1. c \in Calls /\ ~IsDraw(c)
  BY DEF Calls, IsDraw, IsIndexed
<1>2. will \in TrackedArrays
  BY BufferType, ValueAssumption
<1>3. RunsTo(c, guest, will)
  BY DEF RunsTo, HostStep, HostArrayState, HostAttribState, HostPointer, HostAttribPointer,
         HostInterleavedArrays, HostClientActiveTexture, HostBindBuffer, HostDeleteBuffers,
         HostVertexArray, HostDraw, IsDraw, IsIndexed
<1>4. <<>> = HostTakes(guest, c)
  BY <1>1 DEF HostTakes
<1> HIDE DEF c, will
<1>5. Stub(c, <<>>, will)
  BY DEF glBindBuffer, c, will
<1> QED BY <1>1, <1>2, <1>3, <1>4, <1>5 DEF Stub, StubStep, Queued

LEMMA DeleteBuffersMatches ==
  ASSUME guest \in TrackedArrays, NEW b \in Buffers,
         glDeleteBuffers(b)
  PROVE  StubStep
<1> DEFINE c == [f |-> "DeleteBuffer", buf |-> b]
           will == DeleteBuffer(guest, b)
<1>1. c \in Calls /\ ~IsDraw(c)
  BY DEF Calls, IsDraw, IsIndexed
<1>2. will \in TrackedArrays
  BY BufferType, ValueAssumption
<1>3. RunsTo(c, guest, will)
  BY DEF RunsTo, HostStep, HostArrayState, HostAttribState, HostPointer, HostAttribPointer,
         HostInterleavedArrays, HostClientActiveTexture, HostBindBuffer, HostDeleteBuffers,
         HostVertexArray, HostDraw, IsDraw, IsIndexed
<1>4. <<<<"names", {b}>>>> = HostTakes(guest, c)
  BY <1>1 DEF HostTakes
<1> HIDE DEF c, will
<1>5. Stub(c, <<<<"names", {b}>>>>, will)
  BY DEF glDeleteBuffers, c, will
<1> QED BY <1>1, <1>2, <1>3, <1>4, <1>5 DEF Stub, StubStep, Queued

LEMMA BindVertexArrayMatches ==
  ASSUME guest \in TrackedArrays, NEW v \in Vaos \cup {0},
         glBindVertexArray(v)
  PROVE  StubStep
<1> DEFINE c == [f |-> "BindVertexArray", vao |-> v]
           will == BindVertexArray(guest, v)
<1>1. c \in Calls /\ ~IsDraw(c)
  BY DEF Calls, IsDraw, IsIndexed
<1>2. will \in TrackedArrays
  BY VertexArrayType, ValueAssumption
<1>3. RunsTo(c, guest, will)
  BY DEF RunsTo, HostStep, HostArrayState, HostAttribState, HostPointer, HostAttribPointer,
         HostInterleavedArrays, HostClientActiveTexture, HostBindBuffer, HostDeleteBuffers,
         HostVertexArray, HostDraw, IsDraw, IsIndexed
<1>4. <<>> = HostTakes(guest, c)
  BY <1>1 DEF HostTakes
<1> HIDE DEF c, will
<1>5. Stub(c, <<>>, will)
  BY DEF glBindVertexArray, c, will
<1> QED BY <1>1, <1>2, <1>3, <1>4, <1>5 DEF Stub, StubStep, Queued

LEMMA DeleteVertexArraysMatches ==
  ASSUME guest \in TrackedArrays, NEW v \in Vaos,
         glDeleteVertexArrays(v)
  PROVE  StubStep
<1> DEFINE c == [f |-> "DeleteVertexArray", vao |-> v]
           will == DeleteVertexArray(guest, v)
<1>1. c \in Calls /\ ~IsDraw(c)
  BY DEF Calls, IsDraw, IsIndexed
<1>2. will \in TrackedArrays
  BY VertexArrayType, ValueAssumption
<1>3. RunsTo(c, guest, will)
  BY DEF RunsTo, HostStep, HostArrayState, HostAttribState, HostPointer, HostAttribPointer,
         HostInterleavedArrays, HostClientActiveTexture, HostBindBuffer, HostDeleteBuffers,
         HostVertexArray, HostDraw, IsDraw, IsIndexed
<1>4. <<<<"names", {v}>>>> = HostTakes(guest, c)
  BY <1>1 DEF HostTakes
<1> HIDE DEF c, will
<1>5. Stub(c, <<<<"names", {v}>>>>, will)
  BY DEF glDeleteVertexArrays, c, will
<1> QED BY <1>1, <1>2, <1>3, <1>4, <1>5 DEF Stub, StubStep, Queued

LEMMA StubsMatch ==
  ASSUME guest \in TrackedArrays, WrapperCall
  PROVE  StubStep \/ \E c \in Draws : glDraw(c)
<1>1. ASSUME NEW name \in Names, NEW st \in BOOLEAN, glClientState(name, st) PROVE StubStep
  BY <1>1, ClientStateMatches
<1>2. ASSUME NEW attr \in Attribs, NEW st \in BOOLEAN, glVertexAttribArray(attr, st) PROVE StubStep
  BY <1>2, VertexAttribArrayMatches
<1>3. ASSUME NEW name \in Names, NEW p \in Ptrs, glPointer(name, p) PROVE StubStep
  BY <1>3, PointerMatches
<1>4. ASSUME NEW attr \in Attribs, NEW p \in Ptrs, glVertexAttribPointer(attr, p) PROVE StubStep
  BY <1>4, VertexAttribPointerMatches
<1>5. ASSUME NEW p \in Ptrs, glInterleavedArrays(p) PROVE StubStep
  BY <1>5, InterleavedArraysMatches
<1>6. ASSUME NEW u \in 0 .. Units - 1, glClientActiveTexture(u) PROVE StubStep
  BY <1>6, ClientActiveTextureMatches
<1>7. ASSUME NEW target \in {"array", "element", "pixels"}, NEW b \in Buffers \cup {0}, glBindBuffer(target, b) PROVE StubStep
  BY <1>7, BindBufferMatches
<1>8. ASSUME NEW b \in Buffers, glDeleteBuffers(b) PROVE StubStep
  BY <1>8, DeleteBuffersMatches
<1>9. ASSUME NEW v \in Vaos \cup {0}, glBindVertexArray(v) PROVE StubStep
  BY <1>9, BindVertexArrayMatches
<1>10. ASSUME NEW v \in Vaos, glDeleteVertexArrays(v) PROVE StubStep
  BY <1>10, DeleteVertexArraysMatches
<1> QED BY <1>1, <1>2, <1>3, <1>4, <1>5, <1>6, <1>7, <1>8, <1>9, <1>10 DEF WrapperCall

\* A draw's slices are what the host takes for it from the same record.
LEMMA DrawMatches ==
  ASSUME guest \in TrackedArrays, drawing \in Draws \cup {NoDraw}, FinishDraw
  PROVE  Queued(drawing, DrawData(guest, drawing), AfterDraw(guest, drawing))
<1> DEFINE c == drawing
           will == AfterDraw(guest, drawing)
           items == DrawData(guest, drawing)
<1>1. c \in Draws /\ Queue(c, items, will)
  BY DEF FinishDraw
<1>2. c \in Calls /\ IsDraw(c)
      /\ c.f \in {"DrawArrays", "DrawElements", "DrawRangeElements", "ArrayElement", "LockArraysEXT"}
  BY <1>1, DrawIsDraw
<1>3. will \in TrackedArrays
  BY AfterDrawType
<1>4. PushesArrays(guest, c) <=> HostPushesArrays(guest, c)
  BY <1>2 DEF PushesArrays, HostPushesArrays
<1>5. items = HostTakes(guest, c)
  BY <1>2, <1>4 DEF HostTakes, DrawData
<1>6. RunsTo(c, guest, will)
  <2> SUFFICES ASSUME NEW h2, HostStep(guest, c, h2) PROVE h2 = will
    BY DEF RunsTo
  <2>1. HostDraw(guest, c, h2)
    BY <1>2 DEF HostStep, HostArrayState, HostAttribState, HostPointer, HostAttribPointer,
         HostInterleavedArrays, HostClientActiveTexture, HostBindBuffer, HostDeleteBuffers,
         HostVertexArray
  <2> QED BY <1>4, <2>1 DEF HostDraw, AfterDraw, HostPushVertexArray, PushVertexArray
<1> QED BY <1>1, <1>2, <1>3, <1>5, <1>6 DEF Queued

LEMMA ColorMatches ==
  ASSUME guest \in TrackedArrays, PrepDisableColor
  PROVE  \E call, items : Queued(call, items, vtxarry_state(guest, "Color", FALSE)) /\ ~IsDraw(call)
<1> DEFINE c == [f |-> "ArrayState", name |-> "Color", st |-> FALSE]
           will == vtxarry_state(guest, "Color", FALSE)
<1>1. c \in Calls /\ ~IsDraw(c)
  BY DEF Calls, IsDraw, IsIndexed
<1>2. will \in TrackedArrays
  BY StateType
<1>3. RunsTo(c, guest, will)
  BY DEF RunsTo, HostStep, HostArrayState, HostAttribState, HostPointer, HostAttribPointer,
         HostInterleavedArrays, HostClientActiveTexture, HostBindBuffer, HostDeleteBuffers,
         HostVertexArray, HostDraw, IsDraw, IsIndexed
<1>4. <<>> = HostTakes(guest, c)
  BY <1>1 DEF HostTakes
<1> HIDE DEF c, will
<1>5. Queue(c, <<>>, will)
  BY DEF PrepDisableColor, c, will
<1>6. Queued(c, <<>>, will) /\ ~IsDraw(c)
  BY <1>1, <1>2, <1>3, <1>4, <1>5 DEF Queued
<1> QED BY <1>6 DEF will

\* The unit chosen is one of those whose array is gone.
LEMMA LowestIn ==
  ASSUME NEW T \in SUBSET Nat, T # {}
  PROVE  Lowest(T) \in T /\ \A m \in T : Lowest(T) <= m
<1>1. PICK x \in T : TRUE
  OBVIOUS
<1>2. \E n \in T : \A m \in T : n <= m
  <2> DEFINE R == OpToRel(<, Nat)
  <2>1. \E n \in T : \A m \in T : ~(<<m, n>> \in R)
    BY NatLessThanWellFounded, WFMin, <1>1
  <2>2. \A m, n \in T : <<m, n>> \in R <=> m < n
    BY DEF OpToRel
  <2> HIDE DEF R
  <2>3. PICK n \in T : \A m \in T : ~(<<m, n>> \in R)
    BY <2>1
  <2>4. \A m \in T : ~(m < n)
    BY <2>2, <2>3
  <2>5. \A m \in T : n <= m
    BY <2>4
  <2> QED BY <2>5
<1> QED BY <1>2 DEF Lowest

\* Both calls that switch a unit's array off, and the record after the first.
LEMMA TexCoordMatches ==
  ASSUME guest \in TrackedArrays, PrepDisableTexCoord
  PROVE  \E unit \in GoneUnits(guest), c1 \in Calls, c2 \in Calls, w1 \in TrackedArrays :
           LET w2 == vtxarry_state(w1, "TexCoord", FALSE)
           IN  /\ fifo' = fifo \o <<Entry(c1, guest, w1), Entry(c2, w1, w2)>> /\ guest' = w2
               /\ w1 = [guest EXCEPT !.texUnit = unit]
               /\ w2 \in TrackedArrays /\ ~IsDraw(c1) /\ ~IsDraw(c2)
               /\ RunsTo(c1, guest, w1) /\ RunsTo(c2, w1, w2)
               /\ <<>> = HostTakes(guest, c1) /\ <<>> = HostTakes(w1, c2)
<1>1. GoneUnits(guest) \in SUBSET Nat /\ GoneUnits(guest) # {}
  <2>1. GoneUnits(guest) \in SUBSET Nat
    BY NameAssumption DEF GoneUnits
  <2>2. GoneUnits(guest) # {}
    BY DEF PrepDisableTexCoord
  <2> QED BY <2>1, <2>2
<1> DEFINE unit == Lowest(GoneUnits(guest))
           c1 == [f |-> "ClientActiveTexture", unit |-> unit]
           c2 == [f |-> "ArrayState", name |-> "TexCoord", st |-> FALSE]
           w1 == [guest EXCEPT !.texUnit = unit]
           w2 == vtxarry_state(w1, "TexCoord", FALSE)
<1>2. unit \in GoneUnits(guest)
  BY <1>1, LowestIn
<1>3. unit \in 0 .. Units - 1
  BY <1>2 DEF GoneUnits
<1>4. /\ fifo' = fifo \o <<Entry(c1, guest, w1), Entry(c2, w1, w2)>> /\ guest' = w2
  BY DEF PrepDisableTexCoord
<1> HIDE DEF unit
<1>5. c1 \in Calls /\ c2 \in Calls /\ ~IsDraw(c1) /\ ~IsDraw(c2)
  BY <1>3 DEF Calls, IsDraw, IsIndexed
<1>6. w1 \in TrackedArrays
  BY <1>3, UnitType
<1>7. RunsTo(c1, guest, w1)
  BY DEF RunsTo, HostStep, HostArrayState, HostAttribState, HostPointer, HostAttribPointer,
         HostInterleavedArrays, HostClientActiveTexture, HostBindBuffer, HostDeleteBuffers,
         HostVertexArray, HostDraw, IsDraw, IsIndexed
<1>8. <<>> = HostTakes(guest, c1) /\ <<>> = HostTakes(w1, c2)
  BY <1>5 DEF HostTakes
<1> HIDE DEF w1
<1>9. w2 \in TrackedArrays
  BY <1>6, StateType
<1>10. RunsTo(c2, w1, w2)
  BY DEF RunsTo, HostStep, HostArrayState, HostAttribState, HostPointer, HostAttribPointer,
         HostInterleavedArrays, HostClientActiveTexture, HostBindBuffer, HostDeleteBuffers,
         HostVertexArray, HostDraw, IsDraw, IsIndexed
<1>11. w1 = [guest EXCEPT !.texUnit = unit]
  BY DEF w1
<1> HIDE DEF c1, c2
<1> QED BY <1>2, <1>4, <1>5, <1>6, <1>7, <1>8, <1>9, <1>10, <1>11

-----------------------------------------------------------------------------
(* ---- Type correctness. -------------------------------------------------- *)

\* A process looks at its arrays only while it has a context current.
Shape ==
  /\ guest \in TrackedArrays /\ host \in TrackedArrays /\ fifo \in Seq(Entries)
  /\ drawing \in Draws \cup {NoDraw}
  /\ app \in {"gone", "loaded", "created", "current", "released"}
  /\ drawing # NoDraw => app = "current"
  /\ mgl \in [context : BOOLEAN, current : BOOLEAN, resetPending : BOOLEAN, ctx0 : BOOLEAN]
  /\ calls \in 0 .. MaxCalls

\* The calls that switch arrays off before the draw under way is queued, and the draw.
ColorCall(s) == IF IsGone(s, <<"Color", 0>>) THEN 1 ELSE 0
CallsAhead(s) == 2 * Cardinality(GoneUnits(s)) + ColorCall(s) + 1

\* The FIFO's room, those calls included.
RoomInv ==
  LET bound == MaxQueue + 2 * Units + 1
  IN  IF drawing = NoDraw THEN Len(fifo) <= bound ELSE Len(fifo) + CallsAhead(guest) <= bound

LEMMA UnitsFinite ==
  ASSUME NEW s
  PROVE  /\ IsFiniteSet(GoneUnits(s)) /\ Cardinality(GoneUnits(s)) \in Nat
         /\ Cardinality(GoneUnits(s)) <= Units
<1>1. Units \in Nat /\ GoneUnits(s) \subseteq 0 .. Units - 1
  BY NameAssumption DEF GoneUnits
<1>2. IsFiniteSet(0 .. Units - 1) /\ Cardinality(0 .. Units - 1) = Units
  <2>1. 0 \in Int /\ Units - 1 \in Int
    BY <1>1
  <2>2. /\ IsFiniteSet(0 .. Units - 1)
        /\ Cardinality(0 .. Units - 1) = IF 0 > Units - 1 THEN 0 ELSE Units - 1 - 0 + 1
    BY <2>1, FS_Interval
  <2> QED BY <1>1, <2>2
<1>3. IsFiniteSet(GoneUnits(s)) /\ Cardinality(GoneUnits(s)) <= Cardinality(0 .. Units - 1)
  BY <1>1, <1>2, FS_Subset
<1> QED BY <1>2, <1>3, FS_CardinalityType

LEMMA AheadType == ASSUME NEW s PROVE CallsAhead(s) \in Nat /\ CallsAhead(s) <= 2 * Units + 2
<1>1. Cardinality(GoneUnits(s)) \in Nat /\ Cardinality(GoneUnits(s)) <= Units /\ Units \in Nat
  BY UnitsFinite, NameAssumption
<1>2. ColorCall(s) \in Nat /\ ColorCall(s) <= 1
  BY DEF ColorCall
<1> QED BY <1>1, <1>2 DEF CallsAhead

LEMMA ColorOff ==
  ASSUME NEW s \in TrackedArrays, IsGone(s, <<"Color", 0>>)
  PROVE  CallsAhead(vtxarry_state(s, "Color", FALSE)) + 1 = CallsAhead(s)
<1> DEFINE t == vtxarry_state(s, "Color", FALSE)
<1>1. <<"Color", 0>> \in Slots /\ SlotOf("Color", s.texUnit) = <<"Color", 0>>
  BY DEF Slots, Conventional, SlotOf
<1>2. /\ t.arr[<<"Color", 0>>].enable = FALSE
      /\ \A i \in 0 .. Units - 1 : t.arr[<<"TexCoord", i>>] = s.arr[<<"TexCoord", i>>]
  BY <1>1 DEF vtxarry_state, TrackedArrays, TrackedArray, Slots
<1> HIDE DEF t
<1>3. ColorCall(s) = 1 /\ ColorCall(t) = 0
  BY <1>2 DEF ColorCall, IsGone, IsPushed
<1>4. GoneUnits(t) = GoneUnits(s)
  BY <1>2 DEF GoneUnits, IsGone, IsPushed
<1>5. Cardinality(GoneUnits(s)) \in Nat
  BY UnitsFinite
<1>6. CallsAhead(t) + 1 = CallsAhead(s)
  BY <1>3, <1>4, <1>5 DEF CallsAhead
<1> QED BY <1>6 DEF t

LEMMA TexCoordOff ==
  ASSUME NEW s \in TrackedArrays, NEW unit \in GoneUnits(s)
  PROVE  CallsAhead(vtxarry_state([s EXCEPT !.texUnit = unit], "TexCoord", FALSE)) + 2 <= CallsAhead(s)
<1> DEFINE t == vtxarry_state([s EXCEPT !.texUnit = unit], "TexCoord", FALSE)
<1>1. unit \in 0 .. Units - 1
  BY DEF GoneUnits
<1>2. /\ \A i \in 0 .. Units - 1 : i # unit => t.arr[<<"TexCoord", i>>] = s.arr[<<"TexCoord", i>>]
      /\ t.arr[<<"TexCoord", unit>>].enable = FALSE
      /\ t.arr[<<"Color", 0>>] = s.arr[<<"Color", 0>>]
  BY <1>1 DEF vtxarry_state, TrackedArrays, TrackedArray, Slots, SlotOf, Conventional
<1> HIDE DEF t
<1>3. ColorCall(t) = ColorCall(s) /\ ColorCall(s) \in Nat
  BY <1>2 DEF ColorCall, IsGone, IsPushed
<1>4. GoneUnits(t) \subseteq GoneUnits(s) \ {unit}
  BY <1>2 DEF GoneUnits, IsGone, IsPushed
<1>5. /\ IsFiniteSet(GoneUnits(s)) /\ Cardinality(GoneUnits(s)) \in Nat /\ Cardinality(GoneUnits(t)) \in Nat
  BY UnitsFinite
<1>6. /\ IsFiniteSet(GoneUnits(s) \ {unit})
      /\ Cardinality(GoneUnits(s) \ {unit}) = Cardinality(GoneUnits(s)) - 1
  BY <1>5, FS_RemoveElement
<1>7. Cardinality(GoneUnits(t)) <= Cardinality(GoneUnits(s)) - 1
  BY <1>4, <1>6, FS_Subset
<1>8. CallsAhead(t) + 2 <= CallsAhead(s)
  BY <1>3, <1>5, <1>7 DEF CallsAhead
<1> QED BY <1>8 DEF t

LEMMA SeqAppendType ==
  ASSUME NEW S, NEW q \in Seq(S), NEW e \in S
  PROVE  /\ Append(q, e) \in Seq(S) /\ Len(Append(q, e)) = Len(q) + 1 /\ Len(q) \in Nat
         /\ Append(q, e)[Len(q) + 1] = e /\ \A k \in 1 .. Len(q) : Append(q, e)[k] = q[k]
OBVIOUS

LEMMA SeqTailType ==
  ASSUME NEW S, NEW q \in Seq(S), q # <<>>
  PROVE  /\ Head(q) = q[1] /\ Head(q) \in S /\ Tail(q) \in Seq(S) /\ Len(Tail(q)) = Len(q) - 1
         /\ Len(q) \in Nat \ {0} /\ \A k \in 1 .. Len(q) - 1 : Tail(q)[k] = q[k + 1]
OBVIOUS

LEMMA TwoAppended ==
  ASSUME NEW S, NEW q \in Seq(S), NEW a \in S, NEW b \in S
  PROVE  q \o <<a, b>> = Append(Append(q, a), b)
OBVIOUS

LEMMA EntryType ==
  ASSUME NEW c \in Calls, NEW w \in TrackedArrays, NEW l \in TrackedArrays
  PROVE  /\ Entry(c, w, l) \in Entries /\ Entry(c, w, l).call = c
         /\ Entry(c, w, l).was = w /\ Entry(c, w, l).will = l
BY DEF Entry, Entries

LEMMA QueuedType ==
  ASSUME Shape, NEW call, NEW items, NEW will, Queued(call, items, will)
  PROVE  guest' \in TrackedArrays /\ fifo' \in Seq(Entries) /\ Len(fifo') = Len(fifo) + 1 /\ Len(fifo) \in Nat
BY EntryType, SeqAppendType DEF Shape, Queued, Queue

LEMMA InitShape == Init => Shape /\ RoomInv
<1> SUFFICES ASSUME Init PROVE Shape /\ RoomInv
  OBVIOUS
<1>1. Shape
  BY InitType, ValueAssumption DEF Init, Shape
<1>2. RoomInv
  BY NameAssumption, ValueAssumption DEF Init, RoomInv
<1> QED BY <1>1, <1>2

\* What the steps of contexts and processes leave alone.
LEMMA SessionSteps ==
  ASSUME Shape,
         Load \/ SetPixelFormat \/ mglCreateContext \/ (\E same \in BOOLEAN : wglCreateContextAttribsARB(same))
         \/ mglMakeCurrent \/ Release \/ mglDeleteContext \/ Unload \/ Die
  PROVE  /\ UNCHANGED <<fifo, data, calls>> /\ drawing' \in {drawing, NoDraw}
         /\ guest' \in {guest, InitClientStates} /\ host' \in {host, InitClientStates}
         /\ (drawing' = drawing /\ guest' = guest /\ app' = app) \/ drawing' = NoDraw \/ drawing = NoDraw
         /\ app' \in {"gone", "loaded", "created", "current", "released"}
<1>1. CASE Load
  BY <1>1 DEF Load, Shape
<1>2. CASE SetPixelFormat
  <2>1. UNCHANGED <<guest, host, fifo, data, drawing, calls>> /\ drawing = NoDraw
    BY <1>2 DEF SetPixelFormat, Drained
  <2>2. app' \in {"loaded", app}
    BY <1>2 DEF SetPixelFormat
  <2> QED BY <2>1, <2>2 DEF Shape
<1>3. CASE mglCreateContext
  BY <1>3 DEF mglCreateContext, Drained, ContextCreateCommon
<1>4. CASE \E same \in BOOLEAN : wglCreateContextAttribsARB(same)
  BY <1>4 DEF wglCreateContextAttribsARB, Drained, ContextCreateCommon
<1>5. CASE mglMakeCurrent
  BY <1>5 DEF mglMakeCurrent, Shape
<1>6. CASE Release
  BY <1>6 DEF Release, Drained
<1>7. CASE mglDeleteContext
  BY <1>7 DEF mglDeleteContext, Drained
<1>8. CASE Unload
  BY <1>8 DEF Unload, Drained
<1>9. CASE Die
  BY <1>9 DEF Die
<1> QED BY <1>1, <1>2, <1>3, <1>4, <1>5, <1>6, <1>7, <1>8, <1>9

LEMMA SessionTypes ==
  ASSUME Shape,
         Load \/ SetPixelFormat \/ mglCreateContext \/ (\E same \in BOOLEAN : wglCreateContextAttribsARB(same))
         \/ mglMakeCurrent \/ Release \/ mglDeleteContext \/ Unload \/ Die
  PROVE  mgl' \in [context : BOOLEAN, current : BOOLEAN, resetPending : BOOLEAN, ctx0 : BOOLEAN]
<1>1. mgl \in [context : BOOLEAN, current : BOOLEAN, resetPending : BOOLEAN, ctx0 : BOOLEAN]
  BY DEF Shape
<1>2. HostDelete(mgl) \in [context : BOOLEAN, current : BOOLEAN, resetPending : BOOLEAN, ctx0 : BOOLEAN]
  BY <1>1 DEF HostDelete
<1>3. CASE Load \/ Release \/ Die
  BY <1>1, <1>3 DEF Load, Release, Die
<1>4. CASE SetPixelFormat
  BY <1>1, <1>2, <1>4 DEF SetPixelFormat
<1>5. CASE mglCreateContext
  BY <1>1, <1>5 DEF mglCreateContext
<1>6. CASE \E same \in BOOLEAN : wglCreateContextAttribsARB(same)
  BY <1>6 DEF wglCreateContextAttribsARB
<1>7. CASE mglMakeCurrent
  BY <1>1, <1>7 DEF mglMakeCurrent
<1>8. CASE mglDeleteContext
  BY <1>2, <1>8 DEF mglDeleteContext
<1>9. CASE Unload
  BY <1>1, <1>2, <1>9 DEF Unload
<1> QED BY <1>3, <1>4, <1>5, <1>6, <1>7, <1>8, <1>9

\* One call run: the type of what is left.
LEMMA HostCallType ==
  ASSUME Shape, HostCall
  PROVE  /\ host' \in TrackedArrays /\ fifo' \in Seq(Entries)
         /\ Len(fifo') = Len(fifo) - 1 /\ Len(fifo) \in Nat \ {0}
<1>1. fifo # <<>> /\ fifo \in Seq(Entries) /\ host \in TrackedArrays
  BY DEF Shape, HostCall
<1>2. Head(fifo) \in Entries
  BY <1>1, SeqTailType
<1>3. Head(fifo).call \in Calls
  BY <1>2 DEF Entries
<1>4. HostStep(host, Head(fifo).call, host') /\ fifo' = Tail(fifo)
  BY DEF HostCall
<1> QED BY <1>1, <1>3, <1>4, SeqTailType, HostStepType

LEMMA ShapeKept ==
  ASSUME Shape, RoomInv, [Next]_vars
  PROVE  Shape' /\ RoomInv'
<1> DEFINE bound == MaxQueue + 2 * Units + 1
<1>0. /\ guest \in TrackedArrays /\ host \in TrackedArrays /\ fifo \in Seq(Entries) /\ Len(fifo) \in Nat
      /\ drawing \in Draws \cup {NoDraw} /\ calls \in Nat /\ calls <= MaxCalls
      /\ MaxQueue \in Nat /\ Units \in Nat /\ MaxCalls \in Nat
  BY ValueAssumption, NameAssumption DEF Shape
<1>1. CASE StubStep
  <2>1. PICK call, items, will : Queued(call, items, will)
    BY <1>1 DEF StubStep
  <2>2. guest' \in TrackedArrays /\ fifo' \in Seq(Entries) /\ Len(fifo') = Len(fifo) + 1
    BY <2>1, QueuedType
  <2>3. Len(fifo) < MaxQueue /\ drawing = NoDraw /\ drawing' = NoDraw /\ calls' = calls + 1 /\ calls < MaxCalls
    BY <1>1 DEF StubStep, CanCall
  <2>4. calls' \in 0 .. MaxCalls /\ Len(fifo') <= bound
    BY <1>0, <2>2, <2>3
  <2>5. UNCHANGED <<host, drawing, app, mgl>>
    BY <1>1 DEF StubStep
  <2>6. Shape'
    BY <2>2, <2>4, <2>5 DEF Shape
  <2>7. RoomInv'
    BY <2>3, <2>4 DEF RoomInv
  <2> QED BY <2>6, <2>7
<1>2. ASSUME NEW c \in Draws, glDraw(c) PROVE Shape' /\ RoomInv'
  <2>1. /\ Len(fifo) < MaxQueue /\ drawing' = c /\ calls' = calls + 1 /\ calls < MaxCalls /\ app = "current"
        /\ UNCHANGED <<guest, host, fifo, app, mgl>>
    BY <1>2 DEF glDraw, CanCall
  <2>2. drawing' # NoDraw
    BY <2>1, DrawIsDraw
  <2>3. CallsAhead(guest) \in Nat /\ CallsAhead(guest) <= 2 * Units + 2
    BY AheadType
  <2>4. calls' \in 0 .. MaxCalls /\ Len(fifo) + CallsAhead(guest) <= bound
    BY <1>0, <2>1, <2>3
  <2>5. Shape'
    BY <2>1, <2>4 DEF Shape
  <2>6. RoomInv'
    BY <2>1, <2>2, <2>4 DEF RoomInv
  <2> QED BY <2>5, <2>6
<1>3. CASE PrepDisableColor
  <2> DEFINE will == vtxarry_state(guest, "Color", FALSE)
  <2>1. PICK call, items : Queued(call, items, will)
    BY <1>0, <1>3, ColorMatches
  <2>2. guest' = will
    BY <2>1 DEF Queued, Queue
  <2>3. guest' \in TrackedArrays /\ fifo' \in Seq(Entries) /\ Len(fifo') = Len(fifo) + 1
    BY <2>1, QueuedType
  <2>4. drawing # NoDraw /\ IsGone(guest, <<"Color", 0>>) /\ UNCHANGED <<host, drawing, app, mgl, calls>>
    BY <1>3 DEF PrepDisableColor
  <2>5. CallsAhead(guest') + 1 = CallsAhead(guest) /\ CallsAhead(guest') \in Nat
    BY <1>0, <2>2, <2>4, ColorOff, AheadType
  <2>6. Len(fifo) + CallsAhead(guest) <= bound
    BY <2>4 DEF RoomInv
  <2>7. Len(fifo') + CallsAhead(guest') <= bound
    BY <1>0, <2>3, <2>5, <2>6
  <2>8. Shape'
    BY <2>3, <2>4 DEF Shape
  <2>9. RoomInv'
    BY <2>4, <2>7 DEF RoomInv
  <2> QED BY <2>8, <2>9
<1>4. CASE PrepDisableTexCoord
  <2>1. PICK unit \in GoneUnits(guest), c1 \in Calls, c2 \in Calls, w1 \in TrackedArrays :
           LET w2 == vtxarry_state(w1, "TexCoord", FALSE)
           IN  /\ fifo' = fifo \o <<Entry(c1, guest, w1), Entry(c2, w1, w2)>> /\ guest' = w2
               /\ w1 = [guest EXCEPT !.texUnit = unit]
               /\ w2 \in TrackedArrays
    BY <1>0, <1>4, TexCoordMatches
  <2> DEFINE e1 == Entry(c1, guest, w1)
             e2 == Entry(c2, w1, guest')
  <2>2. e1 \in Entries /\ e2 \in Entries
    BY <1>0, <2>1, EntryType
  <2>3. fifo' = fifo \o <<e1, e2>>
    BY <2>1
  <2> HIDE DEF e1, e2
  <2>4. fifo' \in Seq(Entries) /\ Len(fifo') = Len(fifo) + 2
    BY <1>0, <2>2, <2>3
  <2>5. drawing # NoDraw /\ UNCHANGED <<host, drawing, app, mgl, calls>>
    BY <1>4 DEF PrepDisableTexCoord
  <2>6. CallsAhead(guest') + 2 <= CallsAhead(guest)
    BY <1>0, <2>1, TexCoordOff
  <2>7. Len(fifo) + CallsAhead(guest) <= bound
    BY <2>5 DEF RoomInv
  <2>8. CallsAhead(guest') \in Nat /\ CallsAhead(guest) \in Nat
    BY AheadType
  <2>9. Len(fifo') + CallsAhead(guest') <= bound
    BY <1>0, <2>4, <2>6, <2>7, <2>8
  <2>10. Shape'
    BY <2>1, <2>4, <2>5 DEF Shape
  <2>11. RoomInv'
    BY <2>5, <2>9 DEF RoomInv
  <2> QED BY <2>10, <2>11
<1>5. CASE FinishDraw
  <2>1. Queued(drawing, DrawData(guest, drawing), AfterDraw(guest, drawing))
    BY <1>0, <1>5, DrawMatches
  <2>2. guest' \in TrackedArrays /\ fifo' \in Seq(Entries) /\ Len(fifo') = Len(fifo) + 1
    BY <2>1, QueuedType
  <2>3. drawing # NoDraw /\ drawing' = NoDraw /\ UNCHANGED <<host, app, mgl, calls>>
    BY <1>5 DEF FinishDraw
  <2>4. Len(fifo) + CallsAhead(guest) <= bound
    BY <2>3 DEF RoomInv
  <2>5. CallsAhead(guest) \in Nat /\ CallsAhead(guest) >= 1
    <3>1. Cardinality(GoneUnits(guest)) \in Nat /\ ColorCall(guest) \in Nat
      BY UnitsFinite DEF ColorCall
    <3> QED BY <3>1 DEF CallsAhead
  <2>6. Len(fifo') <= bound
    BY <1>0, <2>2, <2>4, <2>5
  <2>7. Shape'
    BY <2>2, <2>3 DEF Shape
  <2>8. RoomInv'
    BY <2>3, <2>6 DEF RoomInv
  <2> QED BY <2>7, <2>8
<1>6. CASE HostCall
  <2>1. host' \in TrackedArrays /\ fifo' \in Seq(Entries) /\ Len(fifo') = Len(fifo) - 1
    BY <1>6, HostCallType
  <2>2. UNCHANGED <<guest, drawing, app, mgl, calls>>
    BY <1>6 DEF HostCall
  <2>3. Shape'
    BY <2>1, <2>2 DEF Shape
  <2>4. CallsAhead(guest) \in Nat
    BY AheadType
  <2>5. /\ Len(fifo) <= bound => Len(fifo') <= bound
        /\ Len(fifo) + CallsAhead(guest) <= bound => Len(fifo') + CallsAhead(guest') <= bound
    BY <1>0, <2>1, <2>2, <2>4
  <2>6. RoomInv'
    BY <2>2, <2>5 DEF RoomInv
  <2> QED BY <2>3, <2>6
<1>7. CASE Load \/ SetPixelFormat \/ mglCreateContext \/ (\E same \in BOOLEAN : wglCreateContextAttribsARB(same))
           \/ mglMakeCurrent \/ Release \/ mglDeleteContext \/ Unload \/ Die
  <2>1. Shape'
    BY <1>7, SessionSteps, SessionTypes, InitType DEF Shape
  <2>2. CallsAhead(guest) \in Nat
    BY AheadType
  <2>3. Len(fifo) + CallsAhead(guest) <= bound => Len(fifo) <= bound
    BY <1>0, <2>2
  <2>4. RoomInv'
    BY <1>7, <2>3, SessionSteps DEF RoomInv
  <2> QED BY <2>1, <2>4
<1>8. CASE UNCHANGED vars
  BY <1>8 DEF vars, Shape, RoomInv
<1> QED
  <2>1. CASE WrapperCall
    BY <1>0, <1>1, <1>2, <2>1, StubsMatch
  <2> QED BY <1>3, <1>4, <1>5, <1>6, <1>7, <1>8, <2>1 DEF Next

\* The records keep their shape and the FIFO its room, also with the calls that a
\* draw puts in to switch off arrays whose memory is gone (PrepVertexArray).
THEOREM ArraysTyped == Spec => []TypeOK
<1>1. Shape /\ RoomInv => TypeOK
  <2> SUFFICES ASSUME Shape, RoomInv PROVE TypeOK
    OBVIOUS
  <2>1. /\ CallsAhead(guest) \in Nat /\ Len(fifo) \in Nat /\ MaxQueue \in Nat /\ Units \in Nat
    BY AheadType, ValueAssumption, NameAssumption DEF Shape
  <2>2. Len(fifo) <= MaxQueue + 2 * Units + 2
    BY <2>1 DEF RoomInv
  <2> QED BY <2>2 DEF Shape, TypeOK
<1>2. Shape /\ RoomInv /\ [Next]_vars => Shape' /\ RoomInv'
  BY ShapeKept
<1> QED BY <1>1, <1>2, InitShape, PTL DEF Spec

-----------------------------------------------------------------------------
(* ---- The slices of a draw are a sequence. ------------------------------- *)

LEMMA CatFacts ==
  ASSUME NEW S, NEW s \in Seq(S), NEW t \in Seq(S)
  PROVE  /\ s \o t \in Seq(S) /\ Len(s \o t) = Len(s) + Len(t) /\ Len(s) \in Nat /\ Len(t) \in Nat
         /\ \A j \in 1 .. Len(s) : (s \o t)[j] = s[j]
         /\ \A j \in 1 .. Len(t) : (s \o t)[Len(s) + j] = t[j]
OBVIOUS

LEMMA SeqEmpty == ASSUME NEW S, NEW q \in Seq(S) PROVE q = <<>> <=> Len(q) = 0
OBVIOUS

LEMMA OrderShape ==
  /\ Order \in Seq(Slots) /\ Len(Order) = Units + 10
  /\ \A i \in 1 .. 4 : Order[i] = <<<<"Color", 0>>, <<"EdgeFlag", 0>>, <<"Index", 0>>, <<"Normal", 0>>>>[i]
  /\ \A i \in 1 .. Units : Order[4 + i] = <<"TexCoord", i - 1>>
  /\ \A i \in 1 .. 6 :
       Order[4 + Units + i] = <<<<"Vertex", 0>>, <<"SecondaryColor", 0>>, <<"FogCoord", 0>>, <<"Weight", 0>>,
                                <<"Gen6", 0>>, <<"Gen7", 0>>>>[i]
<1> DEFINE first == <<<<"Color", 0>>, <<"EdgeFlag", 0>>, <<"Index", 0>>, <<"Normal", 0>>>>
           units == [i \in 1 .. Units |-> <<"TexCoord", i - 1>>]
           last == <<<<"Vertex", 0>>, <<"SecondaryColor", 0>>, <<"FogCoord", 0>>, <<"Weight", 0>>,
                     <<"Gen6", 0>>, <<"Gen7", 0>>>>
<1>1. Units \in Nat
  BY NameAssumption
<1>2. first \in Seq(Slots) /\ Len(first) = 4
  BY DEF Slots, Conventional
<1>3. last \in Seq(Slots) /\ Len(last) = 6
  BY DEF Slots, Conventional
<1>4. units \in Seq(Slots) /\ Len(units) = Units /\ \A i \in 1 .. Units : units[i] = <<"TexCoord", i - 1>>
  <2>1. \A i \in 1 .. Units : i - 1 \in 0 .. Units - 1
    BY <1>1
  <2>2. \A i \in 1 .. Units : <<"TexCoord", i - 1>> \in Slots
    BY <2>1 DEF Slots
  <2>3. units \in [1 .. Units -> Slots]
    BY <2>2
  <2>4. units \in Seq(Slots) /\ Len(units) = Units
    BY <1>1, <2>3
  <2> QED BY <2>4
<1>5. Order = first \o units \o last
  BY DEF Order
<1> HIDE DEF first, units, last
<1>6. /\ first \o units \in Seq(Slots) /\ Len(first \o units) = 4 + Units
      /\ \A i \in 1 .. 4 : (first \o units)[i] = first[i]
      /\ \A i \in 1 .. Units : (first \o units)[4 + i] = units[i]
  <2>0. first \in Seq(Slots) /\ units \in Seq(Slots)
    BY <1>2, <1>4
  <2>1. /\ first \o units \in Seq(Slots) /\ Len(first \o units) = Len(first) + Len(units)
        /\ \A j \in 1 .. Len(first) : (first \o units)[j] = first[j]
        /\ \A j \in 1 .. Len(units) : (first \o units)[Len(first) + j] = units[j]
    BY <2>0, CatFacts
  <2> QED BY <1>2, <1>4, <2>1
<1>7. /\ Order \in Seq(Slots) /\ Len(Order) = 4 + Units + 6
      /\ \A i \in 1 .. 4 + Units : Order[i] = (first \o units)[i]
      /\ \A i \in 1 .. 6 : Order[4 + Units + i] = last[i]
  <2>0. first \o units \in Seq(Slots) /\ last \in Seq(Slots)
    BY <1>3, <1>6
  <2>1. /\ (first \o units) \o last \in Seq(Slots)
        /\ Len((first \o units) \o last) = Len(first \o units) + Len(last)
        /\ \A j \in 1 .. Len(first \o units) : ((first \o units) \o last)[j] = (first \o units)[j]
        /\ \A j \in 1 .. Len(last) : ((first \o units) \o last)[Len(first \o units) + j] = last[j]
    BY <2>0, CatFacts
  <2> QED BY <1>3, <1>5, <1>6, <2>1
<1>8. \A i \in 1 .. 4 : i \in 1 .. 4 + Units
  BY <1>1
<1>9. \A i \in 1 .. Units : 4 + i \in 1 .. 4 + Units
  BY <1>1
<1>10. Len(Order) = Units + 10
  BY <1>1, <1>7
<1>11. \A i \in 1 .. 4 : Order[i] = first[i]
  BY <1>6, <1>7, <1>8
<1>12. \A i \in 1 .. Units : Order[4 + i] = <<"TexCoord", i - 1>>
  BY <1>4, <1>6, <1>7, <1>9
<1> QED BY <1>7, <1>10, <1>11, <1>12 DEF first, last

LEMMA PushedFinite ==
  ASSUME NEW s
  PROVE  /\ IsFiniteSet(Pushed(s)) /\ Cardinality(Pushed(s)) \in Nat
         /\ Pushed(s) \subseteq 1 .. Units + 10
<1>1. DOMAIN Order = 1 .. Units + 10 /\ Units + 10 \in Nat
  BY OrderShape, NameAssumption
<1>2. Pushed(s) \subseteq 1 .. Units + 10
  BY <1>1 DEF Pushed
<1>3. IsFiniteSet(1 .. Units + 10)
  BY <1>1, FS_Interval
<1>4. IsFiniteSet(Pushed(s))
  BY <1>2, <1>3, FS_Subset
<1> QED BY <1>2, <1>4, FS_CardinalityType

LEMMA SlicesSeq == ASSUME NEW s, NEW c PROVE \E S : Slices(s, c) \in Seq(S)
<1>1. CASE IsInterleaved(s)
  <2> DEFINE x == <<"slice", <<"Interleaved", 0>>, s.inter.ptr, Span(c)>>
  <2>1. Slices(s, c) = <<x>>
    BY <1>1 DEF Slices
  <2> HIDE DEF x
  <2>2. <<x>> \in Seq({x})
    OBVIOUS
  <2> QED BY <2>1, <2>2
<1>2. CASE ~IsInterleaved(s)
  <2> DEFINE n == Cardinality(Pushed(s))
             v(j) == <<"slice", PushedArray(s, j), s.arr[PushedArray(s, j)].ptr, Span(c)>>
  <2>1. Slices(s, c) = [j \in 1 .. n |-> v(j)]
    BY <1>2 DEF Slices
  <2>2. n \in Nat
    BY PushedFinite
  <2> HIDE DEF v, n
  <2>3. [j \in 1 .. n |-> v(j)] \in [1 .. n -> {v(j) : j \in 1 .. n}]
    OBVIOUS
  <2>4. [j \in 1 .. n |-> v(j)] \in Seq({v(j) : j \in 1 .. n})
    BY <2>2, <2>3
  <2> QED BY <2>1, <2>4
<1> QED BY <1>1, <1>2

LEMMA SeqWider == ASSUME NEW S, NEW T, NEW s \in Seq(S), S \subseteq T PROVE s \in Seq(T)
OBVIOUS

LEMMA CatOfTwo ==
  ASSUME NEW S, NEW s \in Seq(S), NEW T, NEW t \in Seq(T)
  PROVE  /\ s \in Seq(S \cup T) /\ t \in Seq(S \cup T) /\ s \o t \in Seq(S \cup T)
         /\ Len(s \o t) = Len(s) + Len(t)
<1>1. s \in Seq(S \cup T) /\ t \in Seq(S \cup T)
  BY SeqWider
<1> QED BY <1>1

LEMMA TakesSeq == ASSUME NEW s, NEW c PROVE \E S : HostTakes(s, c) \in Seq(S)
<1>1. CASE IsDraw(c)
  <2> DEFINE sl == IF HostPushesArrays(s, c) THEN Slices(s, c) ELSE <<>>
  <2>1. \E S : Indices(s, c) \in Seq(S)
    <3>1. <<<<"index", c.idx>>>> \in Seq({<<"index", c.idx>>}) /\ <<>> \in Seq({})
      OBVIOUS
    <3> QED BY <3>1 DEF Indices
  <2>2. \E S : sl \in Seq(S)
    <3>1. <<>> \in Seq({})
      OBVIOUS
    <3> QED BY <3>1, SlicesSeq
  <2>3. HostTakes(s, c) = Indices(s, c) \o sl
    BY <1>1 DEF HostTakes
  <2> HIDE DEF sl
  <2>4. PICK S : Indices(s, c) \in Seq(S)
    BY <2>1
  <2>5. PICK T : sl \in Seq(T)
    BY <2>2
  <2>6. Indices(s, c) \o sl \in Seq(S \cup T)
    BY <2>4, <2>5, CatOfTwo
  <2> QED BY <2>3, <2>6
<1>2. CASE ~IsDraw(c)
  <2>1. <<<<"names", {c.buf}>>>> \in Seq({<<"names", {c.buf}>>}) /\ <<>> \in Seq({})
        /\ <<<<"names", {c.vao}>>>> \in Seq({<<"names", {c.vao}>>})
    OBVIOUS
  <2> QED BY <1>2, <2>1 DEF HostTakes
<1> QED BY <1>1, <1>2

LEMMA TakesLength == ASSUME NEW e PROVE Len(HostTakes(e.was, e.call)) \in Nat
BY TakesSeq

-----------------------------------------------------------------------------
(* ---- The queue between the two records. --------------------------------- *)

\* From record h the calls of q lead, one after the other, to record g.
Joined(h, q, g) ==
  /\ h = IF q = <<>> THEN g ELSE q[1].was
  /\ \A k \in 1 .. Len(q) :
       /\ RunsTo(q[k].call, q[k].was, q[k].will)
       /\ q[k].will = IF k = Len(q) THEN g ELSE q[k + 1].was

LEMMA JoinedEmpty == ASSUME NEW h, NEW g PROVE Joined(h, <<>>, g) <=> h = g
BY DEF Joined

LEMMA JoinedAppend ==
  ASSUME NEW h, NEW q \in Seq(Entries), NEW g, Joined(h, q, g),
         NEW e \in Entries, e.was = g, RunsTo(e.call, e.was, e.will)
  PROVE  Joined(h, Append(q, e), e.will)
<1> DEFINE q2 == Append(q, e)
<1>1. /\ Len(q2) = Len(q) + 1 /\ Len(q) \in Nat /\ q2[Len(q) + 1] = e /\ q2 # <<>>
      /\ \A k \in 1 .. Len(q) : q2[k] = q[k]
      /\ q = <<>> <=> Len(q) = 0
  BY SeqAppendType
<1> HIDE DEF q2
<1>2. h = q2[1].was
  <2>1. CASE q = <<>>
    BY <1>1, <2>1 DEF Joined
  <2>2. CASE q # <<>>
    BY <1>1, <2>2 DEF Joined
  <2> QED BY <2>1, <2>2
<1>3. ASSUME NEW k \in 1 .. Len(q2)
      PROVE  /\ RunsTo(q2[k].call, q2[k].was, q2[k].will)
             /\ q2[k].will = IF k = Len(q2) THEN e.will ELSE q2[k + 1].was
  <2>1. CASE k = Len(q) + 1
    BY <1>1, <2>1
  <2>2. CASE k = Len(q)
    BY <1>1, <1>3, <2>2 DEF Joined
  <2>3. CASE k \in 1 .. Len(q) - 1
    <3>1. k \in 1 .. Len(q) /\ k + 1 \in 1 .. Len(q) /\ k # Len(q) /\ k # Len(q2)
      BY <1>1, <2>3
    <3> QED BY <1>1, <3>1 DEF Joined
  <2> QED BY <1>1, <1>3, <2>1, <2>2, <2>3
<1>4. Joined(h, q2, e.will)
  BY <1>1, <1>2, <1>3 DEF Joined
<1> QED BY <1>4 DEF q2

LEMMA JoinedTail ==
  ASSUME NEW h, NEW q \in Seq(Entries), NEW g, Joined(h, q, g), q # <<>>,
         NEW h2, HostStep(h, Head(q).call, h2)
  PROVE  h2 = Head(q).will /\ Joined(h2, Tail(q), g)
<1> DEFINE t == Tail(q)
<1>1. /\ Head(q) = q[1] /\ Len(t) = Len(q) - 1 /\ Len(q) \in Nat \ {0} /\ t \in Seq(Entries)
      /\ \A k \in 1 .. Len(q) - 1 : t[k] = q[k + 1]
  BY SeqTailType
<1>2. t = <<>> <=> Len(t) = 0
  BY <1>1, SeqEmpty
<1> HIDE DEF t
<1>3. 1 \in 1 .. Len(q)
  BY <1>1
<1>4. h = q[1].was /\ RunsTo(q[1].call, q[1].was, q[1].will)
  BY <1>3 DEF Joined
<1>5. h2 = q[1].will
  BY <1>1, <1>4 DEF RunsTo
<1>6. h2 = IF t = <<>> THEN g ELSE t[1].was
  <2>1. CASE Len(q) = 1
    BY <1>1, <1>2, <1>3, <1>5, <2>1 DEF Joined
  <2>2. CASE Len(q) # 1
    <3>1. t # <<>> /\ t[1] = q[2]
      BY <1>1, <1>2, <2>2
    <3>2. q[1].will = q[1 + 1].was
      BY <1>3, <2>2 DEF Joined
    <3> QED BY <1>5, <3>1, <3>2
  <2> QED BY <2>1, <2>2
<1>7. ASSUME NEW k \in 1 .. Len(t)
      PROVE  /\ RunsTo(t[k].call, t[k].was, t[k].will)
             /\ t[k].will = IF k = Len(t) THEN g ELSE t[k + 1].was
  <2>1. k \in Nat /\ k + 1 \in 1 .. Len(q) /\ t[k] = q[k + 1] /\ (k + 1 = Len(q) <=> k = Len(t))
    BY <1>1
  <2>2. CASE k = Len(t)
    BY <2>1, <2>2 DEF Joined
  <2>3. CASE k # Len(t)
    <3>1. t[k + 1] = q[k + 1 + 1]
      BY <1>1, <2>3
    <3> QED BY <2>1, <2>3, <3>1 DEF Joined
  <2> QED BY <2>2, <2>3
<1>8. Joined(h2, t, g)
  BY <1>6, <1>7 DEF Joined
<1> QED BY <1>1, <1>5, <1>8 DEF t

\* What the host will take for the queued call e.
Takes(e) == HostTakes(e.was, e.call)

\* d is what the host will take for the calls of q, back to back.
Stored(d, q) ==
  \E off \in [1 .. Len(q) + 1 -> Nat] :
    /\ off[1] = 0 /\ off[Len(q) + 1] = Len(d)
    /\ \A k, l \in 1 .. Len(q) + 1 : k <= l => off[k] <= off[l]
    /\ \A k \in 1 .. Len(q) :
         /\ off[k + 1] = off[k] + Len(Takes(q[k]))
         /\ \A i \in 1 .. Len(Takes(q[k])) : d[off[k] + i] = Takes(q[k])[i]

LEMMA StoredEmpty == ASSUME NEW d, Stored(d, <<>>) PROVE Len(d) = 0
BY DEF Stored

LEMMA StoredAppend ==
  ASSUME NEW S, NEW d \in Seq(S), NEW q \in Seq(Entries), NEW e \in Entries,
         NEW x \in Seq(S), Takes(e) = x, Stored(d, q)
  PROVE  Stored(d \o x, Append(q, e))
<1>1. PICK off \in [1 .. Len(q) + 1 -> Nat] :
        /\ off[1] = 0 /\ off[Len(q) + 1] = Len(d)
        /\ \A k, l \in 1 .. Len(q) + 1 : k <= l => off[k] <= off[l]
        /\ \A k \in 1 .. Len(q) :
             /\ off[k + 1] = off[k] + Len(Takes(q[k]))
             /\ \A i \in 1 .. Len(Takes(q[k])) : d[off[k] + i] = Takes(q[k])[i]
  BY DEF Stored
<1> DEFINE q2 == Append(q, e)
           d2 == d \o x
           n == Len(q)
           off2 == [k \in 1 .. n + 2 |-> IF k = n + 2 THEN Len(d) + Len(x) ELSE off[k]]
<1>2. /\ Len(q2) = n + 1 /\ n \in Nat /\ q2[n + 1] = e
      /\ \A k \in 1 .. n : q2[k] = q[k]
  BY SeqAppendType
<1>3. /\ Len(d2) = Len(d) + Len(x) /\ Len(d) \in Nat /\ Len(x) \in Nat
      /\ \A j \in 1 .. Len(d) : d2[j] = d[j]
      /\ \A i \in 1 .. Len(x) : d2[Len(d) + i] = x[i]
  OBVIOUS
<1> HIDE DEF q2, d2, n
<1>4. /\ off2 \in [1 .. Len(q2) + 1 -> Nat] /\ off2[Len(q2) + 1] = Len(d2)
      /\ \A k \in 1 .. n + 1 : off2[k] = off[k] /\ off[k] \in Nat /\ off[k] <= Len(d)
      /\ off2[n + 2] = Len(d) + Len(x) /\ off[n + 1] = Len(d)
  <2>1. \A k \in 1 .. n + 1 : k \in 1 .. n + 2 /\ k # n + 2 /\ k <= n + 1 /\ n + 1 \in 1 .. n + 1
    BY <1>2
  <2>2. \A k \in 1 .. n + 1 : off[k] \in Nat /\ off[k] <= Len(d) /\ off[n + 1] = Len(d)
    BY <1>1, <2>1 DEF n
  <2>3. \A k \in 1 .. n + 1 : off2[k] = off[k]
    BY <2>1
  <2>4. n + 2 \in 1 .. n + 2
    BY <1>2
  <2>5. off2[n + 2] = Len(d) + Len(x)
    BY <2>4
  <2>6. \A k \in 1 .. n + 2 : off2[k] \in Nat
    BY <1>2, <1>3, <2>2, <2>3, <2>5
  <2>7. off2 \in [1 .. n + 2 -> Nat]
    BY <2>6
  <2>8. Len(q2) + 1 = n + 2 /\ n + 1 \in 1 .. n + 1
    BY <1>2
  <2> HIDE DEF off2
  <2> QED BY <1>3, <2>2, <2>3, <2>5, <2>7, <2>8
<1> HIDE DEF off2
<1>5. off2[1] = 0
  BY <1>1, <1>2, <1>4
<1>6. ASSUME NEW k \in 1 .. Len(q2) + 1, NEW l \in 1 .. Len(q2) + 1, k <= l PROVE off2[k] <= off2[l]
  <2>1. CASE l = n + 2
    <3>1. off2[l] = Len(d) + Len(x)
      BY <1>4, <2>1
    <3>2. CASE k = n + 2
      BY <1>3, <1>4, <3>1, <3>2
    <3>3. CASE k # n + 2
      <4>1. k \in 1 .. n + 1
        BY <1>2, <3>3
      <4>2. off2[k] \in Nat /\ off2[k] <= Len(d)
        BY <1>4, <4>1
      <4> QED BY <1>3, <3>1, <4>2
    <3> QED BY <3>2, <3>3
  <2>2. CASE l # n + 2
    <3>1. k \in 1 .. n + 1 /\ l \in 1 .. n + 1
      BY <1>2, <1>6, <2>2
    <3>2. off[k] <= off[l]
      BY <1>1, <1>6, <3>1 DEF n
    <3> QED BY <1>4, <3>1, <3>2
  <2> QED BY <2>1, <2>2
<1>7. ASSUME NEW k \in 1 .. Len(q2)
      PROVE  /\ off2[k + 1] = off2[k] + Len(Takes(q2[k]))
             /\ \A i \in 1 .. Len(Takes(q2[k])) : d2[off2[k] + i] = Takes(q2[k])[i]
  <2>1. CASE k = n + 1
    <3>1. q2[k] = e /\ k + 1 = n + 2
      BY <1>2, <2>1
    <3>2. off2[k] = Len(d) /\ off2[k + 1] = Len(d) + Len(x)
      BY <1>2, <1>4, <2>1, <3>1
    <3> QED BY <1>3, <3>1, <3>2
  <2>2. CASE k # n + 1
    <3>1. k \in 1 .. n /\ k \in 1 .. n + 1 /\ k + 1 \in 1 .. n + 1
      BY <1>2, <2>2
    <3> DEFINE y == Takes(q[k])
    <3>2. /\ off[k + 1] = off[k] + Len(y) /\ \A i \in 1 .. Len(y) : d[off[k] + i] = y[i]
      BY <1>1, <3>1 DEF n
    <3>3. off[k] \in Nat /\ off[k + 1] <= Len(d) /\ off2[k] = off[k] /\ off2[k + 1] = off[k + 1] /\ q2[k] = q[k]
      BY <1>2, <1>4, <3>1
    <3> HIDE DEF y
    <3>4. ASSUME NEW i \in 1 .. Len(y) PROVE d2[off[k] + i] = y[i]
      <4>1. off[k + 1] \in Nat
        BY <1>4, <3>1
      <4> DEFINE j == off[k] + i
      <4>2. j \in 1 .. Len(d)
        <5>1. Len(y) \in Nat
          BY TakesLength DEF y, Takes
        <5>2. off[k + 1] = off[k] + Len(y) /\ off[k] \in Nat /\ off[k + 1] <= Len(d) /\ Len(d) \in Nat
          BY <1>3, <3>2, <3>3
        <5>3. i \in Nat /\ 1 <= i /\ i <= Len(y)
          BY <5>1
        <5> QED BY <4>1, <5>1, <5>2, <5>3
      <4>3. d[j] = y[i]
        BY <3>2
      <4> HIDE DEF j
      <4>4. d2[j] = y[i]
        BY <1>3, <4>2, <4>3
      <4> QED BY <4>4 DEF j
    <3> QED BY <3>2, <3>3, <3>4 DEF y
  <2> QED BY <2>1, <2>2
<1>8. Stored(d2, q2)
  BY <1>4, <1>5, <1>6, <1>7 DEF Stored
<1> QED BY <1>8 DEF d2, q2

LEMMA StoredTail ==
  ASSUME NEW S, NEW d \in Seq(S), NEW q \in Seq(Entries), q # <<>>, NEW x \in Seq(S),
         x = Takes(Head(q)), Stored(d, q)
  PROVE  /\ Len(x) <= Len(d) /\ SubSeq(d, 1, Len(x)) = x
         /\ SubSeq(d, Len(x) + 1, Len(d)) \in Seq(S)
         /\ Stored(SubSeq(d, Len(x) + 1, Len(d)), Tail(q))
<1>1. PICK off \in [1 .. Len(q) + 1 -> Nat] :
        /\ off[1] = 0 /\ off[Len(q) + 1] = Len(d)
        /\ \A k, l \in 1 .. Len(q) + 1 : k <= l => off[k] <= off[l]
        /\ \A k \in 1 .. Len(q) :
             /\ off[k + 1] = off[k] + Len(Takes(q[k]))
             /\ \A i \in 1 .. Len(Takes(q[k])) : d[off[k] + i] = Takes(q[k])[i]
  BY DEF Stored
<1> DEFINE t == Tail(q)
           m == Len(x)
           d2 == SubSeq(d, m + 1, Len(d))
           off2 == [k \in 1 .. Len(q) |-> off[k + 1] - m]
<1>2. /\ Head(q) = q[1] /\ Len(t) = Len(q) - 1 /\ Len(q) \in Nat \ {0} /\ t \in Seq(Entries)
      /\ \A k \in 1 .. Len(q) - 1 : t[k] = q[k + 1]
  BY SeqTailType
<1>3. m \in Nat /\ Len(d) \in Nat
  OBVIOUS
<1> HIDE DEF t, m
<1>4. 1 \in 1 .. Len(q) /\ 2 \in 1 .. Len(q) + 1 /\ Len(q) + 1 \in 1 .. Len(q) + 1
  BY <1>2
<1>5. off[2] = m /\ \A i \in 1 .. m : d[i] = x[i]
  <2>1. /\ off[1 + 1] = off[1] + Len(Takes(q[1]))
        /\ \A i \in 1 .. Len(Takes(q[1])) : d[off[1] + i] = Takes(q[1])[i]
    BY <1>1, <1>4
  <2>2. off[1 + 1] = 0 + m /\ \A i \in 1 .. m : d[0 + i] = x[i]
    BY <1>1, <1>2, <2>1 DEF m
  <2> QED BY <1>3, <2>2
<1>6. m <= Len(d)
  BY <1>1, <1>4, <1>5
<1>7. SubSeq(d, 1, m) = x
  BY <1>3, <1>5, <1>6 DEF m
<1>8. d2 \in Seq(S) /\ Len(d2) = Len(d) - m /\ \A j \in 1 .. Len(d) - m : d2[j] = d[m + j]
  BY <1>3, <1>6
<1> HIDE DEF d2
<1>9. \A k \in 1 .. Len(q) : /\ off2[k] = off[k + 1] - m /\ off[k + 1] \in Nat /\ m <= off[k + 1]
                             /\ off[k + 1] <= Len(d) /\ off2[k] \in Nat
  <2> SUFFICES ASSUME NEW k \in 1 .. Len(q)
               PROVE  /\ off2[k] = off[k + 1] - m /\ off[k + 1] \in Nat /\ m <= off[k + 1]
                      /\ off[k + 1] <= Len(d) /\ off2[k] \in Nat
    OBVIOUS
  <2>1. k + 1 \in 1 .. Len(q) + 1 /\ 2 <= k + 1 /\ k + 1 <= Len(q) + 1
    BY <1>2
  <2>2. off[2] <= off[k + 1] /\ off[k + 1] <= off[Len(q) + 1] /\ off[k + 1] \in Nat
    BY <1>1, <1>4, <2>1
  <2>3. off2[k] = off[k + 1] - m
    OBVIOUS
  <2> HIDE DEF off2
  <2> QED BY <1>1, <1>3, <1>5, <2>2, <2>3
<1>10. off2 \in [1 .. Len(t) + 1 -> Nat]
  <2>1. off2 \in [1 .. Len(q) -> Nat]
    BY <1>9
  <2>2. Len(t) + 1 = Len(q)
    BY <1>2
  <2> QED BY <2>1, <2>2
<1> HIDE DEF off2
<1>11. off2[1] = 0
  BY <1>3, <1>4, <1>5, <1>9
<1>12. off2[Len(t) + 1] = Len(d2)
  <2>1. Len(t) + 1 = Len(q) /\ Len(q) \in 1 .. Len(q)
    BY <1>2
  <2> QED BY <1>1, <1>8, <1>9, <2>1
<1>13. ASSUME NEW k \in 1 .. Len(t) + 1, NEW l \in 1 .. Len(t) + 1, k <= l PROVE off2[k] <= off2[l]
  <2>1. k \in 1 .. Len(q) /\ l \in 1 .. Len(q) /\ k + 1 \in 1 .. Len(q) + 1 /\ l + 1 \in 1 .. Len(q) + 1
        /\ k + 1 <= l + 1
    BY <1>2, <1>13
  <2>2. off[k + 1] <= off[l + 1]
    BY <1>1, <2>1
  <2>3. off2[k] = off[k + 1] - m /\ off2[l] = off[l + 1] - m /\ off[k + 1] \in Nat /\ off[l + 1] \in Nat
    BY <1>9, <2>1
  <2> QED BY <1>3, <2>2, <2>3
<1>14. ASSUME NEW k \in 1 .. Len(t)
       PROVE  /\ off2[k + 1] = off2[k] + Len(Takes(t[k]))
              /\ \A i \in 1 .. Len(Takes(t[k])) : d2[off2[k] + i] = Takes(t[k])[i]
  <2>1. k \in Nat /\ k \in 1 .. Len(q) /\ k + 1 \in 1 .. Len(q) /\ t[k] = q[k + 1]
    BY <1>2
  <2> DEFINE y == Takes(q[k + 1])
  <2>2. /\ off[k + 1 + 1] = off[k + 1] + Len(y)
        /\ \A i \in 1 .. Len(y) : d[off[k + 1] + i] = y[i]
    BY <1>1, <2>1
  <2> HIDE DEF y
  <2>3. /\ off2[k] = off[k + 1] - m /\ off2[k + 1] = off[k + 1 + 1] - m /\ off[k + 1] \in Nat
        /\ off[k + 1 + 1] \in Nat /\ off[k + 1 + 1] <= Len(d) /\ m <= off[k + 1] /\ off2[k] \in Nat
    BY <1>9, <2>1
  <2>4. Len(y) = off[k + 1 + 1] - off[k + 1] /\ off2[k + 1] = off2[k] + Len(y)
    <3>1. Len(y) \in Nat
      BY TakesLength DEF y, Takes
    <3> DEFINE a == off[k + 1]
               b == off[k + 1 + 1]
    <3>2. b = a + Len(y)
      BY <2>2
    <3>3. off2[k] = a - m /\ off2[k + 1] = b - m /\ a \in Nat /\ b \in Nat
      BY <2>3
    <3> HIDE DEF a, b
    <3>4. Len(y) = b - a /\ off2[k + 1] = off2[k] + Len(y)
      BY <1>3, <3>1, <3>2, <3>3
    <3> QED BY <3>4 DEF a, b
  <2>5. ASSUME NEW i \in 1 .. Len(y) PROVE d2[off2[k] + i] = y[i]
    <3> DEFINE j == off2[k] + i
    <3>1. j \in 1 .. Len(d) - m /\ m + j = off[k + 1] + i
      <4> DEFINE a == off[k + 1]
                 b == off[k + 1 + 1]
      <4>1. Len(y) \in Nat
        BY TakesLength DEF y, Takes
      <4>2. b = a + Len(y) /\ off2[k] = a - m /\ a \in Nat /\ b \in Nat /\ b <= Len(d) /\ m <= a
        BY <2>2, <2>3
      <4>3. i \in Nat /\ 1 <= i /\ i <= Len(y)
        BY <4>1
      <4> HIDE DEF a, b
      <4>4. j \in 1 .. Len(d) - m /\ m + j = a + i
        BY <1>3, <4>1, <4>2, <4>3
      <4> QED BY <4>4 DEF a
    <3>2. d[off[k + 1] + i] = y[i]
      BY <2>2
    <3> HIDE DEF j
    <3>3. d2[j] = y[i]
      BY <1>8, <3>1, <3>2
    <3> QED BY <3>3 DEF j
  <2> QED BY <2>1, <2>4, <2>5 DEF y
<1>15. Stored(d2, t)
  BY <1>10, <1>11, <1>12, <1>13, <1>14 DEF Stored
<1> QED BY <1>6, <1>7, <1>8, <1>15 DEF m, d2, t

-----------------------------------------------------------------------------
(* ---- Records and data stay together. ------------------------------------ *)

\* The wrapper's idea of its context against the host's.
SessionInv ==
  /\ app \in {"created", "current", "released"} => mgl.context
  /\ app \in {"current", "released"} => mgl.current
  /\ app # "current" => fifo = <<>> /\ drawing = NoDraw
  /\ app \in {"gone", "loaded"} /\ mgl.context => ~mgl.current
  /\ mgl.context /\ ~mgl.current => host = InitClientStates /\ (app # "gone" => guest = InitClientStates)

\* The queued calls lead from the host's record to the guest's.
JoinInv == mgl.context /\ app # "gone" => Joined(host, fifo, guest)

\* The data FIFO holds what they will take.
DataInv == (\E S : data \in Seq(S)) /\ Stored(data, fifo)

\* A process dies with a context only where that is allowed.
NoDeath == ~DiesInContext

LEMMA OneMoreCall ==
  ASSUME Shape, DataInv, NEW call, NEW items, NEW will, Queued(call, items, will)
  PROVE  /\ DataInv' /\ fifo' # <<>>
         /\ UNCHANGED host /\ Joined(host, fifo, guest) => Joined(host', fifo', guest')
<1> DEFINE e == Entry(call, guest, will)
<1>1. /\ fifo' = Append(fifo, e) /\ data' = data \o items /\ guest' = will
      /\ call \in Calls /\ will \in TrackedArrays /\ RunsTo(call, guest, will)
      /\ items = HostTakes(guest, call) /\ fifo \in Seq(Entries) /\ guest \in TrackedArrays
  BY DEF Queued, Queue, Shape
<1>2. e \in Entries /\ e.call = call /\ e.was = guest /\ e.will = will
  BY <1>1, EntryType
<1>3. Takes(e) = items
  BY <1>1, <1>2 DEF Takes
<1> HIDE DEF e
<1>4. PICK S : data \in Seq(S)
  BY DEF DataInv
<1>5. PICK T : items \in Seq(T)
  BY <1>1, TakesSeq
<1>6. data \in Seq(S \cup T) /\ items \in Seq(S \cup T) /\ data \o items \in Seq(S \cup T)
  BY <1>4, <1>5, CatOfTwo
<1>7. Stored(data \o items, Append(fifo, e))
  BY <1>1, <1>2, <1>3, <1>6, StoredAppend DEF DataInv
<1>8. DataInv'
  BY <1>1, <1>6, <1>7 DEF DataInv
<1>9. fifo' # <<>>
  BY <1>1, <1>2, SeqAppendType
<1>10. ASSUME UNCHANGED host, Joined(host, fifo, guest) PROVE Joined(host', fifo', guest')
  <2>1. Joined(host, Append(fifo, e), e.will)
    BY <1>1, <1>2, <1>10, JoinedAppend
  <2> QED BY <1>1, <1>2, <1>10, <2>1
<1> QED BY <1>8, <1>9, <1>10

LEMMA TwoMoreCalls ==
  ASSUME Shape, DataInv, PrepDisableTexCoord
  PROVE  /\ DataInv' /\ fifo' # <<>>
         /\ Joined(host, fifo, guest) => Joined(host', fifo', guest')
<1>0. guest \in TrackedArrays /\ fifo \in Seq(Entries)
  BY DEF Shape
<1>1. PICK unit \in GoneUnits(guest), c1 \in Calls, c2 \in Calls, w1 \in TrackedArrays :
         LET w2 == vtxarry_state(w1, "TexCoord", FALSE)
         IN  /\ fifo' = fifo \o <<Entry(c1, guest, w1), Entry(c2, w1, w2)>> /\ guest' = w2
             /\ w1 = [guest EXCEPT !.texUnit = unit]
             /\ w2 \in TrackedArrays
             /\ RunsTo(c1, guest, w1) /\ RunsTo(c2, w1, w2)
             /\ <<>> = HostTakes(guest, c1) /\ <<>> = HostTakes(w1, c2)
  BY <1>0, TexCoordMatches
<1> DEFINE w2 == vtxarry_state(w1, "TexCoord", FALSE)
           e1 == Entry(c1, guest, w1)
           e2 == Entry(c2, w1, w2)
           q1 == Append(fifo, e1)
           q2 == Append(q1, e2)
<1>2. guest' = w2 /\ fifo' = fifo \o <<e1, e2>> /\ w2 \in TrackedArrays /\ RunsTo(c2, w1, w2)
  BY <1>1
<1> HIDE DEF w2
<1>3. /\ e1 \in Entries /\ e1.call = c1 /\ e1.was = guest /\ e1.will = w1
      /\ e2 \in Entries /\ e2.call = c2 /\ e2.was = w1 /\ e2.will = w2
  BY <1>0, <1>1, <1>2, EntryType
<1> HIDE DEF e1, e2
<1>4. fifo' = q2 /\ q1 \in Seq(Entries) /\ q2 \in Seq(Entries) /\ q2 # <<>>
  <2>1. fifo' = Append(Append(fifo, e1), e2)
    BY <1>0, <1>2, <1>3, TwoAppended
  <2>2. q1 \in Seq(Entries)
    BY <1>0, <1>3, SeqAppendType
  <2> HIDE DEF q1
  <2>3. q2 \in Seq(Entries) /\ Len(q2) = Len(q1) + 1 /\ Len(q1) \in Nat
    BY <1>3, <2>2, SeqAppendType
  <2> HIDE DEF q2
  <2>4. q2 # <<>>
    BY <2>3, SeqEmpty
  <2> QED BY <2>1, <2>2, <2>3, <2>4 DEF q1, q2
<1>5. PICK S : data \in Seq(S)
  BY DEF DataInv
<1>6. data \o <<>> = data /\ <<>> \in Seq(S)
  BY <1>5
<1>7. Takes(e1) = <<>> /\ Takes(e2) = <<>>
  BY <1>1, <1>3 DEF Takes
<1>8. Stored(data, q1)
  <2>1. Stored(data \o <<>>, Append(fifo, e1))
    BY <1>0, <1>3, <1>5, <1>6, <1>7, StoredAppend DEF DataInv
  <2> QED BY <1>6, <2>1
<1> HIDE DEF q1
<1>9. Stored(data, q2)
  <2>1. Stored(data \o <<>>, Append(q1, e2))
    BY <1>3, <1>4, <1>5, <1>6, <1>7, <1>8, StoredAppend
  <2> QED BY <1>6, <2>1
<1> HIDE DEF q2
<1>10. UNCHANGED <<data, host>>
  BY DEF PrepDisableTexCoord
<1>11. DataInv'
  BY <1>4, <1>9, <1>10 DEF DataInv
<1>12. ASSUME Joined(host, fifo, guest) PROVE Joined(host, q2, w2)
  <2>1. Joined(host, q1, w1)
    <3>1. Joined(host, Append(fifo, e1), e1.will)
      BY <1>0, <1>1, <1>3, <1>12, JoinedAppend
    <3> QED BY <1>3, <3>1 DEF q1
  <2>2. Joined(host, Append(q1, e2), e2.will)
    BY <1>2, <1>3, <1>4, <2>1, JoinedAppend
  <2> QED BY <1>3, <2>2 DEF q2
<1> QED BY <1>2, <1>4, <1>10, <1>11, <1>12

\* What the host takes for its next call is what lies first in the data FIFO.
LEMMA FirstTaken ==
  ASSUME Shape, DataInv, fifo # <<>>, Joined(host, fifo, guest)
  PROVE  LET x == HostTakes(host, Head(fifo).call)
         IN  /\ Len(x) <= Len(data) /\ SubSeq(data, 1, Len(x)) = x
             /\ \E S : SubSeq(data, Len(x) + 1, Len(data)) \in Seq(S)
             /\ Stored(SubSeq(data, Len(x) + 1, Len(data)), Tail(fifo))
<1> DEFINE x == HostTakes(host, Head(fifo).call)
<1>1. fifo \in Seq(Entries) /\ Head(fifo) = fifo[1]
  BY SeqTailType DEF Shape
<1>2. host = Head(fifo).was
  BY <1>1 DEF Joined
<1>3. x = Takes(Head(fifo))
  BY <1>2 DEF Takes
<1>4. PICK S : data \in Seq(S)
  BY DEF DataInv
<1>5. PICK T : x \in Seq(T)
  BY TakesSeq
<1> HIDE DEF x
<1>6. data \in Seq(S \cup T) /\ x \in Seq(S \cup T)
  BY <1>4, <1>5, CatOfTwo
<1>7. /\ Len(x) <= Len(data) /\ SubSeq(data, 1, Len(x)) = x
      /\ SubSeq(data, Len(x) + 1, Len(data)) \in Seq(S \cup T)
      /\ Stored(SubSeq(data, Len(x) + 1, Len(data)), Tail(fifo))
  BY <1>1, <1>3, <1>6, StoredTail DEF DataInv
<1>8. \E U : SubSeq(data, Len(x) + 1, Len(data)) \in Seq(U)
  BY <1>7
<1> QED BY <1>7, <1>8 DEF x

LEMMA OneCallRun ==
  ASSUME Shape, DataInv, HostCall, Joined(host, fifo, guest)
  PROVE  DataInv' /\ Joined(host', fifo', guest')
<1> DEFINE x == HostTakes(host, Head(fifo).call)
<1>1. /\ fifo \in Seq(Entries) /\ fifo # <<>> /\ fifo' = Tail(fifo) /\ UNCHANGED guest
      /\ HostStep(host, Head(fifo).call, host')
      /\ data' = IF Tail(fifo) = <<>> THEN <<>> ELSE SubSeq(data, Len(x) + 1, Len(data))
  BY DEF HostCall, Shape
<1>2. Joined(host', Tail(fifo), guest)
  BY <1>1, JoinedTail
<1>3. /\ Len(x) <= Len(data) /\ \E S : SubSeq(data, Len(x) + 1, Len(data)) \in Seq(S)
      /\ Stored(SubSeq(data, Len(x) + 1, Len(data)), Tail(fifo))
  BY <1>1, FirstTaken
<1> HIDE DEF x
<1>4. data' = SubSeq(data, Len(x) + 1, Len(data))
  <2>1. CASE Tail(fifo) = <<>>
    <3> DEFINE r == SubSeq(data, Len(x) + 1, Len(data))
    <3>1. \E S : r \in Seq(S)
      BY <1>3
    <3>2. Len(r) = 0
      BY <1>3, <2>1, StoredEmpty
    <3> HIDE DEF r
    <3>3. r = <<>>
      BY <3>1, <3>2, SeqEmpty
    <3> QED BY <1>1, <2>1, <3>3 DEF r
  <2>2. CASE Tail(fifo) # <<>>
    BY <1>1, <2>2
  <2> QED BY <2>1, <2>2
<1>5. DataInv'
  BY <1>1, <1>3, <1>4 DEF DataInv
<1> QED BY <1>1, <1>2, <1>5

LEMMA SessionKept ==
  ASSUME NoDeath, Shape, SessionInv, [Next]_vars
  PROVE  SessionInv'
<1>0. /\ app \in {"gone", "loaded", "created", "current", "released"}
      /\ mgl \in [context : BOOLEAN, current : BOOLEAN, resetPending : BOOLEAN, ctx0 : BOOLEAN]
      /\ guest \in TrackedArrays
  BY DEF Shape
\* What only a process with a current context does leaves the session alone.
<1>1. ASSUME app = "current", UNCHANGED <<app, mgl>> PROVE SessionInv'
  BY <1>1 DEF SessionInv
<1>2. CASE StubStep \/ \E c \in Draws : glDraw(c)
  BY <1>1, <1>2 DEF StubStep, CanCall, glDraw
<1>3. CASE PrepDisableColor \/ PrepDisableTexCoord \/ FinishDraw
  BY <1>1, <1>3 DEF PrepDisableColor, PrepDisableTexCoord, FinishDraw, SessionInv
<1>4. CASE HostCall
  BY <1>1, <1>4 DEF HostCall, SessionInv
<1>5. CASE Load
  BY <1>5 DEF Load, SessionInv
<1>6. CASE SetPixelFormat
  <2>1. CASE app = "current"
    <3>1. mgl'.context = FALSE /\ mgl'.current = FALSE
      BY <1>0, <1>6, <2>1 DEF SetPixelFormat, HostDelete, SessionInv
    <3>2. app' = "loaded" /\ UNCHANGED <<guest, host, fifo, drawing>> /\ Drained
      BY <1>6, <2>1 DEF SetPixelFormat
    <3> QED BY <3>1, <3>2 DEF SessionInv, Drained
  <2>2. CASE app # "current"
    <3>1. mgl'.context = mgl.context /\ mgl'.current = mgl.current
      BY <1>0, <1>6, <2>2 DEF SetPixelFormat
    <3>2. app' = app /\ UNCHANGED <<guest, host, fifo, drawing>>
      BY <1>6, <2>2 DEF SetPixelFormat
    <3> QED BY <3>1, <3>2 DEF SessionInv
  <2> QED BY <2>1, <2>2
<1>7. CASE mglCreateContext
  <2>1. app \in {"loaded", "released"} /\ app' = "created" /\ Drained /\ UNCHANGED <<fifo, drawing>>
    BY <1>7 DEF mglCreateContext
  <2>2. CASE mgl.context
    <3>1. mgl'.context = mgl.context /\ mgl'.current = mgl.current /\ UNCHANGED <<guest, host>>
      BY <1>0, <1>7, <2>2 DEF mglCreateContext
    <3> QED BY <2>1, <2>2, <3>1 DEF SessionInv, Drained
  <2>3. CASE ~mgl.context
    <3>1. mgl'.context = TRUE /\ host' = InitClientStates /\ guest' = InitClientStates
      BY <1>0, <1>7, <2>3 DEF mglCreateContext, ContextCreateCommon
    <3> QED BY <2>1, <3>1 DEF SessionInv, Drained
  <2> QED BY <2>2, <2>3
<1>8. CASE \E same \in BOOLEAN : wglCreateContextAttribsARB(same)
  BY <1>8 DEF wglCreateContextAttribsARB, SessionInv, ContextCreateCommon, Drained
<1>9. CASE mglMakeCurrent
  <2>1. app \in {"created", "released"} /\ app' = "current" /\ UNCHANGED <<guest, host, fifo, drawing>>
    BY <1>9 DEF mglMakeCurrent
  <2>2. mgl.context
    BY <2>1 DEF SessionInv
  <2>3. mgl'.context = TRUE /\ mgl'.current = TRUE
    <3>1. CASE mgl.current
      BY <1>0, <1>9, <2>2, <3>1 DEF mglMakeCurrent
    <3>2. CASE ~mgl.current
      BY <1>0, <1>9, <2>2, <3>2 DEF mglMakeCurrent
    <3> QED BY <3>1, <3>2
  <2> QED BY <2>1, <2>3 DEF SessionInv
<1>10. CASE Release
  BY <1>10 DEF Release, SessionInv, Drained
<1>11. CASE mglDeleteContext
  <2>1. /\ app \in {"created", "released"} /\ app' = "loaded" /\ Drained
        /\ UNCHANGED <<guest, host, fifo, drawing>> /\ mgl' = HostDelete(mgl)
    BY <1>11 DEF mglDeleteContext
  <2>2. mgl.context
    BY <2>1 DEF SessionInv
  <2>3. CASE mgl.current
    <3>1. mgl'.context = FALSE
      BY <1>0, <2>1, <2>2, <2>3 DEF HostDelete
    <3> QED BY <2>1, <3>1 DEF SessionInv, Drained
  <2>4. CASE ~mgl.current
    <3>1. mgl' = mgl
      BY <2>1, <2>4 DEF HostDelete
    <3>2. host = InitClientStates /\ guest = InitClientStates
      BY <2>1, <2>2, <2>4 DEF SessionInv
    <3> QED BY <2>1, <2>4, <3>1, <3>2 DEF SessionInv, Drained
  <2> QED BY <2>3, <2>4
<1>12. CASE Unload
  <2>1. app' = "gone" /\ Drained /\ UNCHANGED <<fifo, drawing>>
    BY <1>12 DEF Unload
  <2>2. HostDelete(mgl) \in [context : BOOLEAN, current : BOOLEAN, resetPending : BOOLEAN, ctx0 : BOOLEAN]
    BY <1>0 DEF HostDelete
  <2>3. mgl'.context = FALSE
    BY <1>0, <1>12, <2>2 DEF Unload
  <2> QED BY <2>1, <2>3 DEF SessionInv, Drained
<1>13. CASE Die
  <2>1. app = "loaded"
    BY <1>13 DEF Die, NoDeath
  <2> QED BY <1>13, <2>1 DEF Die, SessionInv
<1>14. CASE UNCHANGED vars
  BY <1>14 DEF vars, SessionInv
<1> QED
  <2>1. CASE WrapperCall
    BY <1>0, <1>2, <2>1, StubsMatch
  <2> QED BY <1>3, <1>4, <1>5, <1>6, <1>7, <1>8, <1>9, <1>10, <1>11, <1>12, <1>13, <1>14, <2>1 DEF Next

\* Between the calls of the program the queue is empty and the records are equal.
LEMMA RecordsKept ==
  ASSUME NoDeath, Shape, SessionInv, JoinInv, DataInv, [Next]_vars
  PROVE  JoinInv' /\ DataInv'
<1>0. guest \in TrackedArrays /\ drawing \in Draws \cup {NoDraw}
  BY DEF Shape
<1>1. ASSUME app = "current", NEW call, NEW items, NEW will, Queued(call, items, will),
             UNCHANGED <<host, app, mgl>>
      PROVE  JoinInv' /\ DataInv'
  BY <1>1, OneMoreCall DEF JoinInv
<1>2. CASE StubStep
  BY <1>1, <1>2 DEF StubStep, CanCall
<1>3. CASE \E c \in Draws : glDraw(c)
  BY <1>3 DEF glDraw, JoinInv, DataInv
<1>4. CASE PrepDisableColor
  BY <1>0, <1>1, <1>4, ColorMatches DEF PrepDisableColor, SessionInv
<1>5. CASE PrepDisableTexCoord
  BY <1>5, TwoMoreCalls DEF PrepDisableTexCoord, JoinInv
<1>6. CASE FinishDraw
  BY <1>0, <1>1, <1>6, DrawMatches DEF FinishDraw, SessionInv
<1>7. CASE HostCall
  <2>1. Joined(host, fifo, guest) /\ UNCHANGED <<app, mgl>>
    BY <1>7 DEF HostCall, SessionInv, JoinInv
  <2> QED BY <1>7, <2>1, OneCallRun DEF JoinInv
<1>8. CASE Load \/ SetPixelFormat \/ mglCreateContext \/ (\E same \in BOOLEAN : wglCreateContextAttribsARB(same))
           \/ mglMakeCurrent \/ Release \/ mglDeleteContext \/ Unload \/ Die
  <2>1. UNCHANGED <<fifo, data>>
    BY <1>8, SessionSteps
  <2>2. DataInv'
    BY <2>1 DEF DataInv
  <2>3. SessionInv'
    BY <1>8, SessionKept DEF Next
  <2>4. JoinInv'
    <3>1. CASE Load
      <4>1. mgl.context => guest' = host' /\ fifo' = <<>>
        BY <3>1 DEF Load, SessionInv
      <4> QED BY <3>1, <4>1, JoinedEmpty DEF Load, JoinInv
    <3>2. CASE mglCreateContext
      <4>1. app # "gone" /\ fifo' = <<>> /\ fifo = <<>>
        BY <3>2 DEF mglCreateContext, Drained
      <4>2. CASE mgl.context
        BY <3>2, <4>1, <4>2 DEF mglCreateContext, JoinInv
      <4>3. CASE ~mgl.context
        <5>1. guest' = host'
          BY <3>2, <4>3 DEF mglCreateContext, ContextCreateCommon
        <5> QED BY <4>1, <5>1, JoinedEmpty DEF JoinInv
      <4> QED BY <4>2, <4>3
    <3>3. CASE \E same \in BOOLEAN : wglCreateContextAttribsARB(same)
      <4>1. fifo' = <<>> /\ guest' = host'
        BY <3>3 DEF wglCreateContextAttribsARB, ContextCreateCommon, Drained
      <4> QED BY <4>1, JoinedEmpty DEF JoinInv
    <3>4. CASE SetPixelFormat
      <4>1. UNCHANGED <<guest, host, fifo>> /\ app # "gone"
        BY <3>4 DEF SetPixelFormat
      <4>2. mgl'.context => mgl.context
        BY <3>4 DEF SetPixelFormat, HostDelete, Shape
      <4> QED BY <4>1, <4>2 DEF JoinInv
    <3>5. CASE mglMakeCurrent
      <4>1. UNCHANGED <<guest, host, fifo>> /\ app \in {"created", "released"}
        BY <3>5 DEF mglMakeCurrent
      <4> QED BY <4>1 DEF JoinInv, SessionInv
    <3>6. CASE Release
      BY <3>6 DEF Release, JoinInv
    <3>7. CASE mglDeleteContext
      <4>1. UNCHANGED <<guest, host, fifo>> /\ app \in {"created", "released"}
        BY <3>7 DEF mglDeleteContext
      <4> QED BY <4>1 DEF JoinInv, SessionInv
    <3>8. CASE Unload
      BY <3>8 DEF Unload, JoinInv
    <3>9. CASE Die
      BY <3>9 DEF Die, JoinInv
    <3> QED BY <1>8, <3>1, <3>2, <3>3, <3>4, <3>5, <3>6, <3>7, <3>8, <3>9
  <2> QED BY <2>2, <2>4
<1>9. CASE UNCHANGED vars
  BY <1>9 DEF vars, JoinInv, DataInv
<1> QED
  <2>1. CASE WrapperCall
    BY <1>0, <1>2, <1>3, <2>1, StubsMatch
  <2> QED BY <1>4, <1>5, <1>6, <1>7, <1>8, <1>9, <2>1 DEF Next

LEMMA InitRecords == Init => SessionInv /\ JoinInv /\ DataInv
<1> SUFFICES ASSUME Init PROVE SessionInv /\ JoinInv /\ DataInv
  OBVIOUS
<1>1. SessionInv /\ JoinInv
  BY DEF Init, SessionInv, JoinInv
<1>2. fifo = <<>> /\ data = <<>>
  BY DEF Init
<1>3. <<>> \in Seq({}) /\ Len(<<>>) = 0
  OBVIOUS
<1>4. Stored(<<>>, <<>>)
  <2> DEFINE off == [k \in 1 .. 1 |-> 0]
  <2>1. off \in [1 .. Len(<<>>) + 1 -> Nat] /\ off[1] = 0 /\ off[Len(<<>>) + 1] = Len(<<>>)
    BY <1>3
  <2>2. \A k, l \in 1 .. Len(<<>>) + 1 : k <= l => off[k] <= off[l]
    BY <1>3
  <2> HIDE DEF off
  <2> QED BY <1>3, <2>1, <2>2 DEF Stored
<1> QED BY <1>1, <1>2, <1>3, <1>4 DEF DataInv

LEMMA RecordsAlways == NoDeath /\ Spec => [](Shape /\ SessionInv /\ JoinInv /\ DataInv)
<1> SUFFICES ASSUME NoDeath PROVE Spec => [](Shape /\ SessionInv /\ JoinInv /\ DataInv)
  OBVIOUS
<1> DEFINE Inv == Shape /\ RoomInv /\ SessionInv /\ JoinInv /\ DataInv
<1>1. Init => Inv
  BY InitShape, InitRecords
<1>2. Inv /\ [Next]_vars => Inv'
  BY ShapeKept, SessionKept, RecordsKept
<1>3. Inv => Shape /\ SessionInv /\ JoinInv /\ DataInv
  OBVIOUS
<1> HIDE DEF Inv
<1> QED BY <1>1, <1>2, <1>3, PTL DEF Spec

\* Guest and host keep the same record (vtxArry in wrapgl32.c, MesaPTState in
\* mesapt_mm.c): whatever a program calls, however it draws and switches
\* contexts, they are equal whenever the FIFO is empty, as long as no process
\* dies with a context.
THEOREM SameRecordAlways == NoDeath /\ Spec => []SameRecord
<1>1. Shape /\ SessionInv /\ JoinInv /\ DataInv => SameRecord
  BY JoinedEmpty DEF SameRecord, JoinInv
<1> QED BY <1>1, RecordsAlways, PTL

\* The host takes from the data FIFO what the guest put there for this very
\* call (PushVertexArray on both sides), and with the last call nothing is left.
THEOREM StreamAlignedAlways == NoDeath /\ Spec => []StreamAligned
<1>1. Shape /\ SessionInv /\ JoinInv /\ DataInv => StreamAligned
  <2> SUFFICES ASSUME Shape, SessionInv, JoinInv, DataInv PROVE StreamAligned
    OBVIOUS
  <2>1. CASE fifo = <<>>
    BY <2>1, StoredEmpty, SeqEmpty DEF StreamAligned, DataInv
  <2>2. CASE fifo # <<>>
    BY <2>2, FirstTaken DEF StreamAligned, SessionInv, JoinInv
  <2> QED BY <2>1, <2>2
<1> QED BY <1>1, RecordsAlways, PTL

-----------------------------------------------------------------------------
(* ---- What OpenGL reads. ------------------------------------------------- *)

LEMMA SlotPlace == ASSUME NEW a \in Slots PROVE \E k \in 1 .. Units + 10 : Order[k] = a
<1>0. Units \in Nat
  BY NameAssumption
<1>1. CASE \E i \in 0 .. Units - 1 : a = <<"TexCoord", i>>
  <2>1. PICK i \in 0 .. Units - 1 : a = <<"TexCoord", i>>
    BY <1>1
  <2>2. i + 1 \in 1 .. Units /\ 4 + (i + 1) \in 1 .. Units + 10 /\ (i + 1) - 1 = i
    BY <1>0
  <2>3. Order[4 + (i + 1)] = <<"TexCoord", (i + 1) - 1>>
    BY <2>2, OrderShape
  <2> QED BY <2>1, <2>2, <2>3
<1>2. CASE a \in {<<n, 0>> : n \in Conventional \cup {"Gen6", "Gen7"}}
  <2>1. /\ Order[1] = <<"Color", 0>> /\ Order[2] = <<"EdgeFlag", 0>> /\ Order[3] = <<"Index", 0>>
        /\ Order[4] = <<"Normal", 0>>
    <3>1. 1 \in 1 .. 4 /\ 2 \in 1 .. 4 /\ 3 \in 1 .. 4 /\ 4 \in 1 .. 4
      OBVIOUS
    <3> QED BY <3>1, OrderShape
  <2>2. /\ Order[4 + Units + 1] = <<"Vertex", 0>> /\ Order[4 + Units + 2] = <<"SecondaryColor", 0>>
        /\ Order[4 + Units + 3] = <<"FogCoord", 0>> /\ Order[4 + Units + 4] = <<"Weight", 0>>
        /\ Order[4 + Units + 5] = <<"Gen6", 0>> /\ Order[4 + Units + 6] = <<"Gen7", 0>>
    <3>1. 1 \in 1 .. 6 /\ 2 \in 1 .. 6 /\ 3 \in 1 .. 6 /\ 4 \in 1 .. 6 /\ 5 \in 1 .. 6 /\ 6 \in 1 .. 6
      OBVIOUS
    <3> QED BY <3>1, OrderShape
  <2>3. /\ 1 \in 1 .. Units + 10 /\ 2 \in 1 .. Units + 10 /\ 3 \in 1 .. Units + 10 /\ 4 \in 1 .. Units + 10
        /\ 4 + Units + 1 \in 1 .. Units + 10 /\ 4 + Units + 2 \in 1 .. Units + 10
        /\ 4 + Units + 3 \in 1 .. Units + 10 /\ 4 + Units + 4 \in 1 .. Units + 10
        /\ 4 + Units + 5 \in 1 .. Units + 10 /\ 4 + Units + 6 \in 1 .. Units + 10
    BY <1>0
  <2>4. PICK n \in Conventional \cup {"Gen6", "Gen7"} : a = <<n, 0>>
    BY <1>2
  <2>5. n \in {"Color", "EdgeFlag", "Index", "Normal"} => \E k \in 1 .. Units + 10 : Order[k] = a
    BY <2>1, <2>3, <2>4
  <2>6. n \in {"Vertex", "SecondaryColor", "FogCoord", "Weight", "Gen6", "Gen7"}
          => \E k \in 1 .. Units + 10 : Order[k] = a
    BY <2>2, <2>3, <2>4
  <2> QED BY <2>4, <2>5, <2>6 DEF Conventional
<1> QED BY <1>1, <1>2 DEF Slots

\* Every array that is on and has client memory is among the slices.
LEMMA SliceSent ==
  ASSUME NEW s \in TrackedArrays, NEW a \in Slots, IsPushed(s.arr[a]), ~IsInterleaved(s), NEW c
  PROVE  \E j \in DOMAIN Slices(s, c) : Slices(s, c)[j] = <<"slice", a, s.arr[a].ptr, Span(c)>>
<1> DEFINE K == Pushed(s)
           UpTo(k) == {i \in K : i <= k}
<1>1. PICK k \in 1 .. Units + 10 : Order[k] = a
  BY SlotPlace
<1>2. k \in K
  BY <1>1, OrderShape, NameAssumption DEF Pushed
<1>3. IsFiniteSet(K) /\ Cardinality(K) \in Nat /\ K \subseteq Nat
  BY PushedFinite, NameAssumption
<1> HIDE DEF K
<1>4. \A n \in K : IsFiniteSet(UpTo(n)) /\ Cardinality(UpTo(n)) \in Nat /\ Cardinality(UpTo(n)) <= Cardinality(K)
  BY <1>3, FS_Subset, FS_CardinalityType
<1>5. \A n \in K : n \in UpTo(n)
  BY <1>3
\* An earlier place has fewer places up to it.
<1>6. ASSUME NEW m \in K, NEW n \in K, m < n PROVE Cardinality(UpTo(m)) < Cardinality(UpTo(n))
  <2>1. m \in Nat /\ n \in Nat
    BY <1>3
  <2>2. UpTo(m) \subseteq UpTo(n) \ {n}
    <3> SUFFICES ASSUME NEW i \in K, i <= m PROVE i <= n /\ i # n
      OBVIOUS
    <3>1. i \in Nat
      BY <1>3
    <3> QED BY <1>6, <2>1, <3>1
  <2>3. IsFiniteSet(UpTo(n) \ {n}) /\ Cardinality(UpTo(n) \ {n}) = Cardinality(UpTo(n)) - 1
    BY <1>4, <1>5, FS_RemoveElement
  <2>4. Cardinality(UpTo(m)) <= Cardinality(UpTo(n)) - 1
    BY <2>2, <2>3, FS_Subset
  <2>5. Cardinality(UpTo(m)) \in Nat /\ Cardinality(UpTo(n)) \in Nat
    BY <1>4
  <2> QED BY <2>4, <2>5
<1> DEFINE j == Cardinality(UpTo(k))
           place == CHOOSE n \in K : Cardinality(UpTo(n)) = j
<1>7. place \in K /\ Cardinality(UpTo(place)) = j
  BY <1>2
<1>8. place = k
  <2>1. ~(place < k) /\ ~(k < place)
    <3>1. Cardinality(UpTo(place)) \in Nat
      BY <1>4, <1>7
    <3> HIDE DEF place
    <3>2. place < k => Cardinality(UpTo(place)) < Cardinality(UpTo(k))
      BY <1>2, <1>6, <1>7
    <3>3. k < place => Cardinality(UpTo(k)) < Cardinality(UpTo(place))
      BY <1>2, <1>6, <1>7
    <3> QED BY <1>7, <3>1, <3>2, <3>3
  <2>2. place \in Nat /\ k \in Nat
    BY <1>2, <1>3, <1>7
  <2> HIDE DEF place
  <2> QED BY <2>1, <2>2
<1>9. PushedArray(s, j) = a
  <2>1. PushedArray(s, j) = Order[place]
    BY DEF PushedArray, K
  <2> QED BY <1>1, <1>8, <2>1
<1>10. j \in 1 .. Cardinality(K)
  <2>1. UpTo(k) # {} /\ IsFiniteSet(UpTo(k)) /\ j \in Nat /\ j <= Cardinality(K)
    BY <1>2, <1>4, <1>5
  <2>2. j # 0
    BY <2>1, FS_EmptySet
  <2> HIDE DEF j
  <2> QED BY <1>3, <2>1, <2>2
<1> HIDE DEF j, place
<1>11. j \in DOMAIN Slices(s, c) /\ Slices(s, c)[j] = <<"slice", a, s.arr[a].ptr, Span(c)>>
  BY <1>9, <1>10 DEF Slices, K
<1> QED BY <1>11

\* What is known of OpenGL's arrays.
GLState ==
  [on : [Slots -> BOOLEAN], src : [Slots -> [ptr : Nat, client : BOOLEAN, given : BOOLEAN]],
   unit : 0 .. Units - 1, arrayBuf : Nat, mixed : BOOLEAN, vaoUsed : BOOLEAN, fresh : BOOLEAN]

\* Record h is true to OpenGL: what is on there is noted, and what was given too.
Agree(g, h) ==
  /\ g.unit = h.texUnit /\ g.arrayBuf = h.arrayBuf /\ h.vao = 0 /\ ~h.inter.enable
  /\ \A a \in Slots :
       /\ g.on[a] => h.arr[a].enable
       /\ g.src[a].given => h.arr[a].ptr = g.src[a].ptr /\ h.arr[a].client = g.src[a].client

Follows(g, h) == g.mixed \/ g.vaoUsed \/ Agree(g, h)

\* The application does not use the array that a reset leaves on.
NoWeight == "Weight" \notin Names

WeightOff(g) == ~g.on[<<"Weight", 0>>]

LEMMA NewContextType == NewContext \in GLState /\ WeightOff(NewContext)
BY NameAssumption DEF NewContext, GLState, WeightOff, Slots, Conventional

LEMMA ResetType ==
  ASSUME NEW g \in GLState, WeightOff(g)
  PROVE  /\ MesaResetClientArrays(g) \in GLState /\ WeightOff(MesaResetClientArrays(g))
         /\ Follows(MesaResetClientArrays(g), InitClientStates)
<1> DEFINE r == MesaResetClientArrays(g)
           on == [a \in Slots |-> a = <<"Weight", 0>> /\ g.on[a]]
           src == [a \in Slots |-> [g.src[a] EXCEPT !.given = FALSE]]
<1>1. /\ g.on \in [Slots -> BOOLEAN] /\ g.src \in [Slots -> [ptr : Nat, client : BOOLEAN, given : BOOLEAN]]
      /\ 0 \in 0 .. Units - 1
  BY NameAssumption DEF GLState
<1>2. on \in [Slots -> BOOLEAN] /\ \A a \in Slots : on[a] = FALSE
  BY <1>1 DEF WeightOff
<1>3. src \in [Slots -> [ptr : Nat, client : BOOLEAN, given : BOOLEAN]] /\ \A a \in Slots : src[a].given = FALSE
  BY <1>1
<1>4. r = [g EXCEPT !.on = on, !.src = src, !.unit = 0, !.arrayBuf = 0, !.mixed = FALSE]
  BY DEF MesaResetClientArrays
<1> HIDE DEF on, src, r
<1>5. r \in GLState /\ r.on = on /\ r.src = src /\ r.unit = 0 /\ r.arrayBuf = 0
  BY <1>1, <1>2, <1>3, <1>4 DEF GLState
<1>6. WeightOff(r)
  BY <1>2, <1>5 DEF WeightOff, Slots, Conventional
<1>7. Agree(r, InitClientStates)
  BY <1>2, <1>3, <1>5 DEF Agree, InitClientStates
<1> QED BY <1>5, <1>6, <1>7 DEF r, Follows

LEMMA NewFollows == Follows(NewContext, InitClientStates)
BY DEF NewContext, InitClientStates, Follows, Agree

LEMMA OwnArraySlot ==
  ASSUME NEW attr \in Attribs, HasOwnArray(attr)
  PROVE  /\ vattr2arry(attr) \in {<<"Gen6", 0>>, <<"Gen7", 0>>} /\ vattr2arry(attr) \in Slots
         /\ \A s, st : vattr2arry_state(s, attr, st) = [s EXCEPT !.arr[vattr2arry(attr)].enable = st]
<1>1. attr \in {6, 7}
  BY DEF HasOwnArray
<1>2. AttribNames[6 + 1] = "Gen6" /\ AttribNames[7 + 1] = "Gen7"
  BY DEF AttribNames
<1>3. ~(attr >= 8) /\ AttribNames[attr + 1] \in {"Gen6", "Gen7"}
  BY <1>1, <1>2
<1> QED BY <1>3, AttribSlot DEF vattr2arry, vattr2arry_state, vtxarry_state, SlotOf

\* An array switched, on both sides, or a pointer given.
LEMMA SwitchFollows ==
  ASSUME NEW g \in GLState, NEW h \in TrackedArrays, NEW a \in Slots, NEW st \in BOOLEAN
  PROVE  /\ [g EXCEPT !.on[a] = st] \in GLState
         /\ Agree(g, h) => Agree([g EXCEPT !.on[a] = st], [h EXCEPT !.arr[a].enable = st])
         /\ a # <<"Weight", 0>> /\ WeightOff(g) => WeightOff([g EXCEPT !.on[a] = st])
<1>1. [g EXCEPT !.on[a] = st] \in GLState
  BY DEF GLState
<1>2. ASSUME Agree(g, h) PROVE Agree([g EXCEPT !.on[a] = st], [h EXCEPT !.arr[a].enable = st])
  <2> DEFINE g2 == [g EXCEPT !.on[a] = st]
             h2 == [h EXCEPT !.arr[a].enable = st]
  <2>1. /\ g2.unit = g.unit /\ g2.arrayBuf = g.arrayBuf /\ g2.src = g.src
        /\ h2.texUnit = h.texUnit /\ h2.arrayBuf = h.arrayBuf /\ h2.vao = h.vao /\ h2.inter = h.inter
    BY DEF GLState, TrackedArrays
  <2>2. \A b \in Slots : /\ g2.on[b] = IF b = a THEN st ELSE g.on[b]
                         /\ h2.arr[b].enable = IF b = a THEN st ELSE h.arr[b].enable
                         /\ h2.arr[b].ptr = h.arr[b].ptr /\ h2.arr[b].client = h.arr[b].client
    BY DEF GLState, TrackedArrays, TrackedArray
  <2> HIDE DEF g2, h2
  <2>3. Agree(g2, h2)
    BY <1>2, <2>1, <2>2 DEF Agree
  <2> QED BY <2>3 DEF g2, h2
<1>3. a # <<"Weight", 0>> /\ WeightOff(g) => WeightOff([g EXCEPT !.on[a] = st])
  BY DEF WeightOff, GLState
<1> QED BY <1>1, <1>2, <1>3

LEMMA PointerFollows ==
  ASSUME NEW g \in GLState, NEW h \in TrackedArrays, NEW a \in Slots, NEW p \in Nat
  PROVE  /\ GLPointer(g, a, p) \in GLState
         /\ Agree(g, h) => Agree(GLPointer(g, a, p), vtxarry_init(h, a, p))
         /\ WeightOff(g) => WeightOff(GLPointer(g, a, p))
<1> DEFINE x == [ptr |-> p, client |-> g.arrayBuf = 0, given |-> TRUE]
           g2 == GLPointer(g, a, p)
           h2 == vtxarry_init(h, a, p)
<1>1. x \in [ptr : Nat, client : BOOLEAN, given : BOOLEAN]
  OBVIOUS
<1>2. g2 = [g EXCEPT !.src[a] = x]
  BY DEF GLPointer
<1>3. x.ptr = p /\ (x.client <=> g.arrayBuf = 0) /\ x.client \in BOOLEAN
  OBVIOUS
<1> HIDE DEF x, g2
<1>4. g2 \in GLState /\ g2.on = g.on /\ g2.unit = g.unit /\ g2.arrayBuf = g.arrayBuf
      /\ \A b \in Slots : g2.src[b] = IF b = a THEN x ELSE g.src[b]
  BY <1>1, <1>2 DEF GLState
<1>5. /\ h2.texUnit = h.texUnit /\ h2.arrayBuf = h.arrayBuf /\ h2.vao = h.vao /\ h2.inter = h.inter
      /\ \A b \in Slots : h2.arr[b] = IF b = a THEN [h.arr[b] EXCEPT !.ptr = p, !.client = (h.arrayBuf = 0)]
                                      ELSE h.arr[b]
  BY DEF vtxarry_init, TrackedArrays
<1>6. h.arr[a] \in TrackedArray
  BY DEF TrackedArrays
<1>7. h2.arr[a].enable = h.arr[a].enable /\ h2.arr[a].ptr = p /\ (h2.arr[a].client <=> h.arrayBuf = 0)
      /\ h2.arr[a].client \in BOOLEAN
  BY <1>5, <1>6 DEF TrackedArray
<1> HIDE DEF h2
<1>8. ASSUME Agree(g, h) PROVE Agree(g2, h2)
  <2>1. ASSUME NEW b \in Slots, b # a
        PROVE  /\ g2.on[b] => h2.arr[b].enable
               /\ g2.src[b].given => h2.arr[b].ptr = g2.src[b].ptr /\ h2.arr[b].client = g2.src[b].client
    <3>1. g2.on[b] = g.on[b] /\ g2.src[b] = g.src[b]
      BY <1>4, <2>1
    <3>2. h2.arr[b] = h.arr[b]
      BY <1>5, <2>1
    <3>3. /\ g.on[b] => h.arr[b].enable
          /\ g.src[b].given => h.arr[b].ptr = g.src[b].ptr /\ h.arr[b].client = g.src[b].client
      BY <1>8 DEF Agree
    <3> QED BY <3>1, <3>2, <3>3
  <2>2. /\ g2.on[a] => h2.arr[a].enable
        /\ h2.arr[a].ptr = g2.src[a].ptr /\ h2.arr[a].client = g2.src[a].client
    <3>1. h.arrayBuf = g.arrayBuf /\ (g.on[a] => h.arr[a].enable)
      BY <1>8 DEF Agree
    <3>2. h2.arr[a].client = x.client
      BY <1>3, <1>7, <3>1
    <3>3. g2.on[a] = g.on[a] /\ g2.src[a] = x
      BY <1>4
    <3>4. g2.on[a] => h2.arr[a].enable
      BY <1>7, <3>1, <3>3
    <3>5. h2.arr[a].ptr = g2.src[a].ptr
      BY <1>3, <1>7, <3>3
    <3> QED BY <3>2, <3>3, <3>4, <3>5
  <2>3. g2.unit = h2.texUnit /\ g2.arrayBuf = h2.arrayBuf /\ h2.vao = 0 /\ ~h2.inter.enable
    BY <1>4, <1>5, <1>8 DEF Agree
  <2> QED BY <2>1, <2>2, <2>3 DEF Agree
<1>9. WeightOff(g) => WeightOff(g2)
  BY <1>4 DEF WeightOff
<1> QED BY <1>4, <1>8, <1>9 DEF g2, h2

\* The host's part for each function.
LEMMA HostPart ==
  ASSUME NEW h, NEW c \in Calls, NEW h2, HostStep(h, c, h2)
  PROVE  \/ c.f = "ArrayState" /\ h2 = vtxarry_state(h, c.name, c.st)
         \/ c.f = "AttribState" /\ h2 = vattr2arry_state(h, c.attr, c.st)
         \/ c.f = "Pointer" /\ h2 = vtxarry_init(h, SlotOf(c.name, h.texUnit), c.ptr)
         \/ c.f = "AttribPointer" /\ h2 = vtxarry_init(h, vattr2arry(c.attr), c.ptr)
         \/ c.f = "InterleavedArrays"
         \/ c.f = "ClientActiveTexture" /\ h2 = [h EXCEPT !.texUnit = c.unit]
         \/ c.f = "BindBuffer" /\ h2 = BindBuffer(h, c.target, c.buf)
         \/ c.f = "DeleteBuffer" /\ h2 = DeleteBuffer(h, c.buf)
         \/ c.f \in {"BindVertexArray", "DeleteVertexArray"}
         \/ IsDraw(c) /\ h2 = IF HostPushesArrays(h, c) THEN HostPushVertexArray(h) ELSE h
BY DEF HostStep, HostArrayState, HostAttribState, HostPointer, HostAttribPointer, HostInterleavedArrays,
       HostClientActiveTexture, HostBindBuffer, HostDeleteBuffers, HostVertexArray, HostDraw

\* What the record does not tell apart stays noted.
LEMMA MixedKept ==
  ASSUME NEW g \in GLState, NEW c, g.mixed \/ g.vaoUsed
  PROVE  GLAfter(g, c).mixed \/ GLAfter(g, c).vaoUsed
BY DEF GLAfter, GLPointer, GLState

LEMMA ScalarFollows ==
  ASSUME NEW g \in GLState, NEW u \in 0 .. Units - 1, NEW b \in Nat
  PROVE  /\ [g EXCEPT !.unit = u] \in GLState /\ [g EXCEPT !.arrayBuf = b] \in GLState
         /\ [g EXCEPT !.mixed = TRUE] \in GLState /\ [g EXCEPT !.vaoUsed = TRUE] \in GLState
         /\ [g EXCEPT !.mixed = TRUE].mixed /\ [g EXCEPT !.vaoUsed = TRUE].vaoUsed
         /\ WeightOff(g) => /\ WeightOff([g EXCEPT !.unit = u]) /\ WeightOff([g EXCEPT !.arrayBuf = b])
                            /\ WeightOff([g EXCEPT !.mixed = TRUE]) /\ WeightOff([g EXCEPT !.vaoUsed = TRUE])
BY DEF GLState, WeightOff

LEMMA UnitFollows ==
  ASSUME NEW g \in GLState, NEW h \in TrackedArrays, NEW u \in 0 .. Units - 1, Agree(g, h)
  PROVE  Agree([g EXCEPT !.unit = u], [h EXCEPT !.texUnit = u])
BY DEF Agree, GLState, TrackedArrays

\* With no vertex array object bound, a binding is what the call made it.
LEMMA BufferFollows ==
  ASSUME NEW g \in GLState, NEW h \in TrackedArrays, NEW b \in Nat, NEW e \in Nat, Agree(g, h)
  PROVE  Agree([g EXCEPT !.arrayBuf = b], UnderVao([h EXCEPT !.arrayBuf = b, !.elemArryBuf = e]))
<1> DEFINE h2 == [h EXCEPT !.arrayBuf = b, !.elemArryBuf = e]
<1>1. h2.vao = 0 /\ h2.arrayBuf = b /\ h2.arr = h.arr /\ h2.inter = h.inter /\ h2.texUnit = h.texUnit
  BY DEF Agree, TrackedArrays
<1>2. UnderVao(h2) = h2
  BY <1>1 DEF UnderVao
<1> HIDE DEF h2
<1>3. Agree([g EXCEPT !.arrayBuf = b], h2)
  BY <1>1 DEF Agree, GLState
<1> QED BY <1>2, <1>3 DEF h2

LEMMA GLStep ==
  ASSUME NoWeight, NEW g \in GLState, NEW h \in TrackedArrays, NEW c \in Calls, NEW h2, HostStep(h, c, h2),
         WeightOff(g)
  PROVE  /\ GLAfter(g, c) \in GLState /\ WeightOff(GLAfter(g, c))
         /\ Agree(g, h) => Follows(GLAfter(g, c), h2)
<1>0. g.unit \in 0 .. Units - 1 /\ g.arrayBuf \in Nat
  BY DEF GLState
<1>1. CASE c.f = "ArrayState" /\ h2 = vtxarry_state(h, c.name, c.st)
  <2> DEFINE a == SlotOf(c.name, g.unit)
  <2>1. c.name \in Names \cup {"Color", "TexCoord"} /\ c.st \in BOOLEAN
    BY <1>1, CallFields
  <2>2. a \in Slots /\ a # <<"Weight", 0>>
    BY <1>0, <2>1, SlotOfType DEF SlotOf, NoWeight
  <2>3. GLAfter(g, c) = [g EXCEPT !.on[a] = c.st]
    BY <1>1 DEF GLAfter
  <2>4. Agree(g, h) => h2 = [h EXCEPT !.arr[a].enable = c.st]
    BY <1>1 DEF Agree, vtxarry_state
  <2> HIDE DEF a
  <2>5. [g EXCEPT !.on[a] = c.st] \in GLState /\ WeightOff([g EXCEPT !.on[a] = c.st])
    BY <2>1, <2>2, SwitchFollows
  <2>6. Agree(g, h) => Agree([g EXCEPT !.on[a] = c.st], [h EXCEPT !.arr[a].enable = c.st])
    BY <2>1, <2>2, SwitchFollows
  <2>7. Agree(g, h) => Agree(GLAfter(g, c), h2)
    BY <2>3, <2>4, <2>6
  <2> QED BY <2>3, <2>5, <2>7 DEF Follows
<1>2. CASE c.f = "AttribState" /\ h2 = vattr2arry_state(h, c.attr, c.st)
  <2>1. c.attr \in Attribs /\ c.st \in BOOLEAN
    BY <1>2, CallFields
  <2>2. CASE HasOwnArray(c.attr)
    <3> DEFINE a == vattr2arry(c.attr)
    <3>1. a \in Slots /\ a # <<"Weight", 0>> /\ h2 = [h EXCEPT !.arr[a].enable = c.st]
      BY <1>2, <2>1, <2>2, OwnArraySlot
    <3>2. GLAfter(g, c) = [g EXCEPT !.on[a] = c.st]
      BY <1>2, <2>2 DEF GLAfter
    <3> HIDE DEF a
    <3> QED BY <2>1, <3>1, <3>2, SwitchFollows DEF Follows
  <2>3. CASE ~HasOwnArray(c.attr)
    <3>1. GLAfter(g, c) = [g EXCEPT !.mixed = TRUE]
      BY <1>2, <2>3 DEF GLAfter
    <3> QED BY <1>0, <3>1, ScalarFollows DEF Follows
  <2> QED BY <2>2, <2>3
<1>3. CASE c.f = "Pointer" /\ h2 = vtxarry_init(h, SlotOf(c.name, h.texUnit), c.ptr)
  <2> DEFINE a == SlotOf(c.name, g.unit)
  <2>1. c.name \in Names \cup {"Color", "TexCoord"} /\ c.ptr \in Nat
    BY <1>3, CallFields, ValueAssumption
  <2>2. a \in Slots
    BY <1>0, <2>1, SlotOfType
  <2>3. GLAfter(g, c) = GLPointer(g, a, c.ptr)
    BY <1>3 DEF GLAfter
  <2>4. Agree(g, h) => h2 = vtxarry_init(h, a, c.ptr)
    BY <1>3 DEF Agree
  <2> HIDE DEF a
  <2> QED BY <2>1, <2>2, <2>3, <2>4, PointerFollows DEF Follows
<1>4. CASE c.f = "AttribPointer" /\ h2 = vtxarry_init(h, vattr2arry(c.attr), c.ptr)
  <2>1. c.attr \in Attribs /\ c.ptr \in Nat
    BY <1>4, CallFields, ValueAssumption
  <2>2. CASE HasOwnArray(c.attr)
    <3>1. vattr2arry(c.attr) \in Slots
      BY <2>1, AttribSlot
    <3>2. GLAfter(g, c) = GLPointer(g, vattr2arry(c.attr), c.ptr)
      BY <1>4, <2>2 DEF GLAfter
    <3> QED BY <1>4, <2>1, <3>1, <3>2, PointerFollows DEF Follows
  <2>3. CASE ~HasOwnArray(c.attr)
    <3>1. GLAfter(g, c) = [g EXCEPT !.mixed = TRUE]
      BY <1>4, <2>3 DEF GLAfter
    <3> QED BY <1>0, <3>1, ScalarFollows DEF Follows
  <2> QED BY <2>2, <2>3
<1>5. CASE c.f = "InterleavedArrays"
  <2>1. GLAfter(g, c) = [g EXCEPT !.mixed = TRUE]
    BY <1>5 DEF GLAfter
  <2> QED BY <1>0, <2>1, ScalarFollows DEF Follows
<1>6. CASE c.f = "ClientActiveTexture" /\ h2 = [h EXCEPT !.texUnit = c.unit]
  <2>1. c.unit \in 0 .. Units - 1
    BY <1>6, CallFields
  <2>2. GLAfter(g, c) = [g EXCEPT !.unit = c.unit]
    BY <1>6 DEF GLAfter
  <2>3. [g EXCEPT !.unit = c.unit] \in GLState /\ WeightOff([g EXCEPT !.unit = c.unit])
    BY <1>0, <2>1, ScalarFollows
  <2>4. Agree(g, h) => Agree(GLAfter(g, c), h2)
    BY <1>6, <2>1, <2>2, UnitFollows
  <2> QED BY <2>2, <2>3, <2>4 DEF Follows
<1>7. CASE c.f = "BindBuffer" /\ h2 = BindBuffer(h, c.target, c.buf)
  <2> DEFINE b == IF c.target = "array" THEN c.buf ELSE g.arrayBuf
             e == IF c.target = "element" THEN c.buf ELSE h.elemArryBuf
  <2>1. b \in Nat /\ e \in Nat
    BY <1>0, <1>7, CallFields, FieldTypes
  <2>2. GLAfter(g, c) = [g EXCEPT !.arrayBuf = b]
    BY <1>7 DEF GLAfter
  <2>3. Agree(g, h) => h2 = UnderVao([h EXCEPT !.arrayBuf = b, !.elemArryBuf = e])
    BY <1>7 DEF Agree, BindBuffer
  <2> HIDE DEF b, e
  <2>4. [g EXCEPT !.arrayBuf = b] \in GLState /\ WeightOff([g EXCEPT !.arrayBuf = b])
    BY <1>0, <2>1, ScalarFollows
  <2>5. Agree(g, h) => Agree([g EXCEPT !.arrayBuf = b], UnderVao([h EXCEPT !.arrayBuf = b, !.elemArryBuf = e]))
    BY <2>1, BufferFollows
  <2>6. Agree(g, h) => Agree(GLAfter(g, c), h2)
    BY <2>2, <2>3, <2>5
  <2> QED BY <2>2, <2>4, <2>6 DEF Follows
<1>8. CASE c.f = "DeleteBuffer" /\ h2 = DeleteBuffer(h, c.buf)
  <2> DEFINE b == IF g.arrayBuf = c.buf THEN 0 ELSE g.arrayBuf
             e == IF h.elemArryBuf = c.buf THEN 0 ELSE h.elemArryBuf
  <2>1. b \in Nat /\ e \in Nat
    BY <1>0, FieldTypes
  <2>2. GLAfter(g, c) = [g EXCEPT !.arrayBuf = b]
    BY <1>8 DEF GLAfter
  <2>3. Agree(g, h) => h2 = UnderVao([h EXCEPT !.arrayBuf = b, !.elemArryBuf = e])
    BY <1>8 DEF Agree, DeleteBuffer
  <2> HIDE DEF b, e
  <2>4. [g EXCEPT !.arrayBuf = b] \in GLState /\ WeightOff([g EXCEPT !.arrayBuf = b])
    BY <1>0, <2>1, ScalarFollows
  <2>5. Agree(g, h) => Agree([g EXCEPT !.arrayBuf = b], UnderVao([h EXCEPT !.arrayBuf = b, !.elemArryBuf = e]))
    BY <2>1, BufferFollows
  <2>6. Agree(g, h) => Agree(GLAfter(g, c), h2)
    BY <2>2, <2>3, <2>5
  <2> QED BY <2>2, <2>4, <2>6 DEF Follows
<1>9. CASE c.f \in {"BindVertexArray", "DeleteVertexArray"}
  <2>1. GLAfter(g, c) = [g EXCEPT !.vaoUsed = TRUE]
    BY <1>9 DEF GLAfter
  <2> QED BY <1>0, <2>1, ScalarFollows DEF Follows
<1>10. CASE IsDraw(c) /\ h2 = IF HostPushesArrays(h, c) THEN HostPushVertexArray(h) ELSE h
  <2>1. GLAfter(g, c) = g
    BY <1>10 DEF GLAfter, IsDraw, IsIndexed
  <2>2. Agree(g, h) => h2 = h
    BY <1>10 DEF Agree, HostPushVertexArray, IsInterleaved
  <2> QED BY <2>1, <2>2 DEF Follows
<1> QED BY <1>1, <1>2, <1>3, <1>4, <1>5, <1>6, <1>7, <1>8, <1>9, <1>10, HostPart

\* A pixel format is not set with a context not deleted.
NoFormat == ~FormatInContext

\* The host's record is true to OpenGL whenever a context is current; a context that
\* is not is reset before it is, and one not deleted keeps its OpenGL context.
GLInv ==
  /\ gl \in GLState /\ WeightOff(gl)
  /\ mgl.context /\ ~mgl.current => mgl.resetPending
  /\ ~mgl.context /\ mgl.current => ~mgl.ctx0
  /\ app \in {"created", "current", "released"} => mgl.ctx0
  /\ mgl.context /\ mgl.current => Follows(gl, host)

LEMMA FreshFollows ==
  ASSUME NEW g \in GLState, NEW h
  PROVE  /\ [g EXCEPT !.fresh = FALSE] \in GLState
         /\ WeightOff(g) => WeightOff([g EXCEPT !.fresh = FALSE])
         /\ Follows(g, h) => Follows([g EXCEPT !.fresh = FALSE], h)
BY DEF GLState, WeightOff, Follows, Agree

LEMMA GLKept ==
  ASSUME NoDeath, NoFormat, NoWeight, Shape, SessionInv, GLInv, [Next]_vars
  PROVE  GLInv'
<1>0. /\ app \in {"gone", "loaded", "created", "current", "released"}
      /\ mgl \in [context : BOOLEAN, current : BOOLEAN, resetPending : BOOLEAN, ctx0 : BOOLEAN]
      /\ guest \in TrackedArrays /\ gl \in GLState /\ WeightOff(gl)
  BY DEF Shape, GLInv
<1>1. ASSUME UNCHANGED <<app, mgl, gl, host>> PROVE GLInv'
  BY <1>1 DEF GLInv
<1>2. CASE StubStep \/ \E c \in Draws : glDraw(c)
  BY <1>1, <1>2 DEF StubStep, glDraw
<1>3. CASE PrepDisableColor \/ PrepDisableTexCoord \/ FinishDraw
  BY <1>1, <1>3 DEF PrepDisableColor, PrepDisableTexCoord, FinishDraw
<1>4. CASE HostCall
  <2> DEFINE c == Head(fifo).call
  <2>1. c \in Calls
    <3>1. fifo \in Seq(Entries) /\ fifo # <<>>
      BY <1>4 DEF HostCall, Shape
    <3>2. Head(fifo) \in Entries
      BY <3>1, SeqTailType
    <3> QED BY <3>2 DEF Entries
  <2>2. /\ mgl.context /\ mgl.current /\ HostStep(host, c, host') /\ gl' = GLAfter(gl, c)
        /\ UNCHANGED <<app, mgl>> /\ host \in TrackedArrays
    BY <1>4 DEF HostCall, Shape
  <2> HIDE DEF c
  <2>3. gl' \in GLState /\ WeightOff(gl') /\ (Agree(gl, host) => Follows(gl', host'))
    BY <1>0, <2>1, <2>2, GLStep
  <2>4. gl.mixed \/ gl.vaoUsed => gl'.mixed \/ gl'.vaoUsed
    BY <1>0, <2>2, MixedKept
  <2>5. Follows(gl', host')
    BY <2>2, <2>3, <2>4 DEF GLInv, Follows
  <2> QED BY <2>2, <2>3, <2>5 DEF GLInv
<1>5. CASE Load
  BY <1>5 DEF Load, GLInv
<1>6. CASE SetPixelFormat
  <2>1. gl' = NewContext /\ app' \in {"loaded", "current"} /\ UNCHANGED host
    BY <1>6 DEF SetPixelFormat, NoFormat
  <2>2. CASE app = "current"
    <3>1. mgl.context /\ mgl.current
      BY <2>2 DEF SessionInv
    <3>2. mgl'.context = FALSE /\ mgl'.current = FALSE /\ app' = "loaded"
      BY <1>0, <1>6, <2>2, <3>1 DEF SetPixelFormat, HostDelete
    <3> QED BY <2>1, <3>2, NewContextType DEF GLInv
  <2>3. CASE app # "current"
    <3>1. app = "loaded" /\ app' = "loaded" /\ mgl' = [mgl EXCEPT !.ctx0 = FALSE]
      BY <1>6, <2>3 DEF SetPixelFormat, NoFormat
    <3>2. mgl'.context = mgl.context /\ mgl'.current = mgl.current /\ mgl'.resetPending = mgl.resetPending
          /\ mgl'.ctx0 = FALSE
      BY <1>0, <3>1
    <3>3. ~(mgl.context /\ mgl.current)
      BY <3>1 DEF SessionInv
    <3> QED BY <2>1, <3>1, <3>2, <3>3, NewContextType DEF GLInv
  <2> QED BY <2>2, <2>3
<1>7. CASE mglCreateContext
  <2>1. app \in {"loaded", "released"} /\ app' = "created" /\ gl' = IF mgl.ctx0 THEN gl ELSE NewContext
    BY <1>7 DEF mglCreateContext
  <2>2. gl' \in GLState /\ WeightOff(gl')
    BY <1>0, <2>1, NewContextType
  <2>3. CASE mgl.context
    <3>1. mgl' = [mgl EXCEPT !.ctx0 = TRUE] /\ UNCHANGED host
      BY <1>7, <2>3 DEF mglCreateContext
    <3>2. mgl'.context = mgl.context /\ mgl'.current = mgl.current /\ mgl'.resetPending = mgl.resetPending
          /\ mgl'.ctx0 = TRUE
      BY <1>0, <3>1
    <3>3. mgl.current => gl' = gl
      BY <2>1, <2>3 DEF SessionInv, GLInv
    <3> QED BY <2>1, <2>2, <2>3, <3>1, <3>2, <3>3 DEF GLInv
  <2>4. CASE ~mgl.context
    <3>1. mgl' = [mgl EXCEPT !.ctx0 = TRUE, !.context = TRUE, !.resetPending = TRUE] /\ host' = InitClientStates
      BY <1>7, <2>4 DEF mglCreateContext, ContextCreateCommon
    <3>2. mgl'.context = TRUE /\ mgl'.current = mgl.current /\ mgl'.resetPending = TRUE /\ mgl'.ctx0 = TRUE
      BY <1>0, <3>1
    <3>3. mgl.current => Follows(gl', host')
      BY <2>1, <2>4, <3>1, NewFollows DEF GLInv
    <3> QED BY <2>2, <3>2, <3>3 DEF GLInv
  <2> QED BY <2>3, <2>4
<1>8. CASE \E same \in BOOLEAN : wglCreateContextAttribsARB(same)
  <2>1. /\ gl' \in {gl, NewContext}
        /\ mgl' = [context |-> TRUE, current |-> FALSE, resetPending |-> TRUE, ctx0 |-> TRUE]
    BY <1>8 DEF wglCreateContextAttribsARB
  <2>2. mgl'.context = TRUE /\ mgl'.current = FALSE /\ mgl'.resetPending = TRUE /\ mgl'.ctx0 = TRUE
    BY <2>1
  <2> QED BY <1>0, <2>1, <2>2, NewContextType DEF GLInv
<1>9. CASE mglMakeCurrent
  <2>1. app \in {"created", "released"} /\ mgl.ctx0 /\ app' = "current" /\ UNCHANGED host
    BY <1>9 DEF mglMakeCurrent
  <2>2. mgl.context
    BY <2>1 DEF SessionInv
  <2>3. CASE mgl.current
    <3>1. gl' = [gl EXCEPT !.fresh = FALSE] /\ mgl' = mgl
      BY <1>9, <2>3 DEF mglMakeCurrent
    <3> QED BY <1>0, <2>1, <2>2, <2>3, <3>1, FreshFollows DEF GLInv
  <2>4. CASE ~mgl.current
    <3> DEFINE r == MesaResetClientArrays(gl)
    <3>1. mgl.resetPending /\ host = InitClientStates
      BY <2>2, <2>4 DEF GLInv, SessionInv
    <3>2. gl' = [r EXCEPT !.fresh = FALSE] /\ mgl' = [mgl EXCEPT !.current = TRUE, !.resetPending = FALSE]
      BY <1>9, <2>2, <2>4, <3>1 DEF mglMakeCurrent
    <3>3. r \in GLState /\ WeightOff(r) /\ Follows(r, InitClientStates)
      BY <1>0, ResetType
    <3> HIDE DEF r
    <3>4. gl' \in GLState /\ WeightOff(gl') /\ Follows(gl', host')
      BY <2>1, <3>1, <3>2, <3>3, FreshFollows
    <3>5. mgl'.context = TRUE /\ mgl'.current = TRUE /\ mgl'.ctx0 = TRUE
      BY <1>0, <2>1, <2>2, <3>2
    <3> QED BY <2>1, <3>4, <3>5 DEF GLInv
  <2> QED BY <2>3, <2>4
<1>10. CASE Release
  BY <1>10 DEF Release, GLInv
<1>11. CASE mglDeleteContext
  <2>1. app \in {"created", "released"} /\ app' = "loaded" /\ mgl' = HostDelete(mgl) /\ UNCHANGED <<host, gl>>
    BY <1>11 DEF mglDeleteContext
  <2>2. mgl.context
    BY <2>1 DEF SessionInv
  <2>3. CASE mgl.current
    <3>1. mgl'.context = FALSE /\ mgl'.current = FALSE
      BY <1>0, <2>1, <2>2, <2>3 DEF HostDelete
    <3> QED BY <1>0, <2>1, <3>1 DEF GLInv
  <2>4. CASE ~mgl.current
    <3>1. mgl' = mgl
      BY <2>1, <2>4 DEF HostDelete
    <3> QED BY <2>1, <3>1 DEF GLInv
  <2> QED BY <2>3, <2>4
<1>12. CASE Unload
  <2>1. HostDelete(mgl) \in [context : BOOLEAN, current : BOOLEAN, resetPending : BOOLEAN, ctx0 : BOOLEAN]
    BY <1>0 DEF HostDelete
  <2>2. mgl'.context = FALSE /\ mgl'.ctx0 = FALSE /\ gl' = NewContext /\ app' = "gone"
    BY <1>0, <1>12, <2>1 DEF Unload
  <2> QED BY <2>2, NewContextType DEF GLInv
<1>13. CASE Die
  BY <1>13 DEF Die, GLInv
<1>14. CASE UNCHANGED vars
  BY <1>1, <1>14 DEF vars
<1> QED
  <2>1. CASE WrapperCall
    BY <1>0, <1>2, <2>1, StubsMatch
  <2> QED BY <1>3, <1>4, <1>5, <1>6, <1>7, <1>8, <1>9, <1>10, <1>11, <1>12, <1>13, <1>14, <2>1 DEF Next

LEMMA InitGL == Init => GLInv
BY NewContextType DEF Init, GLInv

\* What is sent with a draw is what OpenGL reads.
LEMMA ReadsAreSent ==
  ASSUME Shape, SessionInv, GLInv
  PROVE  DrawReadsSent
<1> DEFINE c == Head(fifo).call
<1> SUFFICES ASSUME fifo # <<>>, IsDraw(c), HostPushesArrays(host, c), ~gl.mixed, ~gl.vaoUsed,
                    NEW a \in Slots, gl.on[a], gl.src[a].given, gl.src[a].client, gl.src[a].ptr # 0
             PROVE  \E k \in DOMAIN HostTakes(host, c) :
                      HostTakes(host, c)[k] = <<"slice", a, gl.src[a].ptr, Span(c)>>
  BY DEF DrawReadsSent
<1> HIDE DEF c
<1>1. Agree(gl, host) /\ host \in TrackedArrays
  BY DEF SessionInv, GLInv, Follows, Shape
<1>2. IsPushed(host.arr[a]) /\ host.arr[a].ptr = gl.src[a].ptr /\ ~IsInterleaved(host)
  BY <1>1 DEF Agree, IsPushed, IsInterleaved
<1> DEFINE sl == Slices(host, c)
           ix == Indices(host, c)
<1>3. PICK j \in DOMAIN sl : sl[j] = <<"slice", a, gl.src[a].ptr, Span(c)>>
  BY <1>1, <1>2, SliceSent
<1>4. HostTakes(host, c) = ix \o sl
  BY DEF HostTakes
<1>5. \E S : ix \in Seq(S)
  <2>1. <<<<"index", c.idx>>>> \in Seq({<<"index", c.idx>>}) /\ <<>> \in Seq({})
    OBVIOUS
  <2> QED BY <2>1 DEF Indices
<1>6. PICK S, T : ix \in Seq(S) /\ sl \in Seq(T)
  BY <1>5, SlicesSeq
<1> HIDE DEF sl, ix
<1>7. ix \in Seq(S \cup T) /\ sl \in Seq(S \cup T)
  BY <1>6, CatOfTwo
<1>8. /\ ix \o sl \in Seq(S \cup T) /\ Len(ix \o sl) = Len(ix) + Len(sl) /\ Len(ix) \in Nat /\ Len(sl) \in Nat
      /\ \A i \in 1 .. Len(sl) : (ix \o sl)[Len(ix) + i] = sl[i]
  BY <1>7, CatFacts
<1>9. j \in 1 .. Len(sl) /\ DOMAIN (ix \o sl) = 1 .. Len(ix \o sl)
  BY <1>6, <1>8
<1>10. Len(ix) + j \in DOMAIN (ix \o sl) /\ (ix \o sl)[Len(ix) + j] = sl[j]
  BY <1>8, <1>9
<1> QED BY <1>3, <1>4, <1>10

\* OpenGL reads no stale vertex: every client array it has on for a draw is among
\* the slices sent with this draw, from the address it was given last.  The
\* conditions: no process dies with a context, no pixel format is set with one, and
\* the array that MesaResetClientArrays leaves on is not used.
THEOREM DrawReadsSentAlways == NoDeath /\ NoFormat /\ NoWeight /\ Spec => []DrawReadsSent
<1> SUFFICES ASSUME NoDeath, NoFormat, NoWeight PROVE Spec => []DrawReadsSent
  OBVIOUS
<1> DEFINE Inv == Shape /\ RoomInv /\ SessionInv /\ GLInv
<1>1. Init => Inv
  BY InitShape, InitRecords, InitGL
<1>2. Inv /\ [Next]_vars => Inv'
  BY ShapeKept, SessionKept, GLKept
<1>3. Inv => DrawReadsSent
  BY ReadsAreSent
<1> HIDE DEF Inv
<1> QED BY <1>1, <1>2, <1>3, PTL DEF Spec
================================================================================
