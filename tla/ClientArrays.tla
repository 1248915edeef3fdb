----------------------------- MODULE ClientArrays -----------------------------
(***************************************************************************)
(* Client vertex arrays: the guest wrapper (wrappers/mesa/src/wrapgl32.c)  *)
(* and the host device (qemu-1/hw/mesa/mesapt_mm.c) each keep a record of  *)
(* which arrays are on and where they point.  For a draw the guest adds    *)
(* the slice of every array it believes on to the data FIFO, in a fixed    *)
(* order and without a length or a name; the host takes from the FIFO the  *)
(* slices of the arrays IT believes on, puts them into its vertex cache,   *)
(* and OpenGL reads them there.  So the two records must be the same at    *)
(* every call, and true to what OpenGL has been told.                      *)
(*                                                                         *)
(* Both sides' functions are the same text but for the ones named here.    *)
(* The size, type and stride of an array travel with its pointer and are   *)
(* part of the value that stands for it.  Calls arrive in order (CallFifo) *)
(* so the FIFO is a queue here, with the data of its calls beside it.      *)
(***************************************************************************)
EXTENDS Integers, Sequences, FiniteSets

CONSTANTS
  Names,        \* client states the application switches ("Color", "TexCoord", ...)
  Attribs,      \* generic attributes it uses
  Ptrs,         \* pointers it gives, and offsets when a buffer is bound; 0 is NULL
  BadPtrs,      \* the ones IsBadReadPtr refuses by the time of the draw
  Buffers,      \* buffer objects
  Vaos,         \* vertex array objects
  Units,        \* MAX_TEXUNIT, the texture units tracked
  Draws,        \* drawing calls: [f, idx, base]
  MaxQueue,     \* bound: calls waiting in the FIFO
  MaxCalls,     \* bound: calls in a behaviour
  DiesInContext, \* a process may die while it has a context
  FormatInContext \* it may set a pixel format with a context not deleted

Conventional == {"Color", "EdgeFlag", "Index", "Normal", "Vertex", "SecondaryColor",
                 "FogCoord", "Weight"}

ASSUME NameAssumption ==
  /\ Names \subseteq Conventional \cup {"TexCoord"}
  /\ Units \in Nat \ {0}
  /\ Attribs \subseteq {n \in 0 .. 15 : n < 8 \/ n % 8 < Units}

ASSUME ValueAssumption ==
  /\ Ptrs \subseteq Nat /\ BadPtrs \subseteq Ptrs \ {0}
  /\ Buffers \subseteq Nat \ {0} /\ Vaos \subseteq Nat \ {0}
  /\ MaxQueue \in Nat /\ MaxCalls \in Nat
  /\ DiesInContext \in BOOLEAN /\ FormatInContext \in BOOLEAN

ASSUME DrawAssumption ==
  Draws \subseteq [f : {"DrawArrays", "DrawElements", "DrawRangeElements", "ArrayElement", "LockArraysEXT"},
                   idx : SUBSET Nat, base : Int]

VARIABLES
  guest,     \* the wrapper's vtxArry and Interleaved
  host,      \* the same in MesaPTState
  fifo,      \* calls queued and not yet run
  data,      \* the data FIFO: what those calls will read
  drawing,   \* the draw whose arrays the wrapper is looking at, or NoDraw
  app,       \* the process: "gone", "loaded", "created", "current", "released"
  mgl,       \* host: mglContext, mglCntxCurrent, clientArraysResetPending
  gl,        \* OpenGL: the client arrays of ctx[0]
  calls      \* calls made so far

vars == <<guest, host, fifo, data, drawing, app, mgl, gl, calls>>

NoDraw == [f |-> "none", idx |-> {}, base |-> 0]

-----------------------------------------------------------------------------
(* The record of the arrays. *)

\* An array: its name, and for texture coordinates the unit.
Slots == {<<n, 0>> : n \in Conventional \cup {"Gen6", "Gen7"}} \cup
         {<<"TexCoord", i>> : i \in 0 .. Units - 1}

TrackedArray == [enable : BOOLEAN, ptr : Nat, client : BOOLEAN]

TrackedArrays ==
  [arr : [Slots -> TrackedArray], inter : [enable : BOOLEAN, ptr : Nat],
   texUnit : 0 .. Units - 1, arrayBuf : Nat, elemArryBuf : Nat, vao : Nat]

\* InitClientStates: everything zero.
InitClientStates ==
  [arr |-> [a \in Slots |-> [enable |-> FALSE, ptr |-> 0, client |-> FALSE]],
   inter |-> [enable |-> FALSE, ptr |-> 0],
   texUnit |-> 0, arrayBuf |-> 0, elemArryBuf |-> 0, vao |-> 0]

SlotOf(name, unit) == IF name = "TexCoord" THEN <<name, unit>> ELSE <<name, 0>>

vtxarry_init(s, slot, p) ==
  [s EXCEPT !.arr[slot] = [@ EXCEPT !.ptr = p, !.client = (s.arrayBuf = 0)]]

vtxarry_state(s, name, st) == [s EXCEPT !.arr[SlotOf(name, s.texUnit)].enable = st]

AttribNames ==
  <<"Vertex", "Weight", "Normal", "Color", "SecondaryColor", "FogCoord", "Gen6", "Gen7">>

\* The unit is taken without the mask.
WrongAttribState(s, attr, st) ==
  IF attr >= 8
  THEN vtxarry_state([s EXCEPT !.texUnit = attr], "TexCoord", st)
  ELSE vtxarry_state(s, AttribNames[attr + 1], st)

\* Attributes 8 and up are the texture units; switching one selects its unit.
vattr2arry_state(s, attr, st) ==
  IF attr >= 8
  THEN vtxarry_state([s EXCEPT !.texUnit = attr % 8], "TexCoord", st)
  ELSE vtxarry_state(s, AttribNames[attr + 1], st)

vattr2arry(attr) ==
  IF attr >= 8 THEN <<"TexCoord", attr % 8>> ELSE <<AttribNames[attr + 1], 0>>

\* While a vertex array object is bound no array is taken from the client.
UnderVao(s) == IF s.vao = 0 THEN s ELSE [s EXCEPT !.arrayBuf = s.vao, !.elemArryBuf = s.vao]

BindBuffer(s, target, b) ==
  UnderVao([s EXCEPT !.arrayBuf = IF target = "array" THEN b ELSE @,
                     !.elemArryBuf = IF target = "element" THEN b ELSE @])

DeleteBuffer(s, b) ==
  UnderVao([s EXCEPT !.arrayBuf = IF @ = b THEN 0 ELSE @,
                     !.elemArryBuf = IF @ = b THEN 0 ELSE @])

BindVertexArray(s, v) == [s EXCEPT !.vao = v, !.arrayBuf = v, !.elemArryBuf = v]

DeleteVertexArray(s, v) == BindVertexArray(s, IF s.vao = v THEN 0 ELSE s.vao)

InterleavedArrays(s, p) == [s EXCEPT !.inter = [enable |-> TRUE, ptr |-> p]]

-----------------------------------------------------------------------------
(* The slices of a draw. *)

\* The order in which both sides go through the arrays.
Order ==
  <<<<"Color", 0>>, <<"EdgeFlag", 0>>, <<"Index", 0>>, <<"Normal", 0>>>>
  \o [i \in 1 .. Units |-> <<"TexCoord", i - 1>>]
  \o <<<<"Vertex", 0>>, <<"SecondaryColor", 0>>, <<"FogCoord", 0>>, <<"Weight", 0>>,
       <<"Gen6", 0>>, <<"Gen7", 0>>>>

IsPushed(array) == array.enable /\ array.ptr # 0 /\ array.client

IsInterleaved(s) == s.inter.enable /\ s.inter.ptr # 0

Lowest(idx) == CHOOSE n \in idx : \A m \in idx : n <= m
Highest(idx) == CHOOSE n \in idx : \A m \in idx : n >= m

\* First and last vertex of a draw; no index at all counts as index 0.
Span(c) == IF c.idx = {} THEN <<c.base, c.base>>
           ELSE <<Lowest(c.idx) + c.base, Highest(c.idx) + c.base>>

\* The places in Order of the arrays to send, and the array of the j-th of them.
Pushed(s) == {k \in DOMAIN Order : IsPushed(s.arr[Order[k]])}

PushedArray(s, j) ==
  Order[CHOOSE k \in Pushed(s) : Cardinality({i \in Pushed(s) : i <= k}) = j]

\* The slices of the arrays on, for draw c.
Slices(s, c) ==
  IF IsInterleaved(s) THEN <<<<"slice", <<"Interleaved", 0>>, s.inter.ptr, Span(c)>>>>
  ELSE [j \in 1 .. Cardinality(Pushed(s)) |->
          LET a == PushedArray(s, j) IN <<"slice", a, s.arr[a].ptr, Span(c)>>]

\* An interleaved array counts for one draw only.
PushVertexArray(s) == IF IsInterleaved(s) THEN [s EXCEPT !.inter.enable = FALSE] ELSE s

IsIndexed(c) == c.f \in {"DrawElements", "DrawRangeElements"}

\* Does the wrapper look at the arrays for draw c?
PushesArrays(s, c) ==
  \/ c.f = "ArrayElement"
  \/ c.f = "LockArraysEXT" /\ c.idx # {}
  \/ c.f = "DrawArrays" /\ c.idx # {} /\ s.vao = 0
  \/ IsIndexed(c) /\ s.elemArryBuf = 0 /\ s.vao = 0

Indices(s, c) == IF IsIndexed(c) /\ s.elemArryBuf = 0 THEN <<<<"index", c.idx>>>> ELSE <<>>

DrawData(s, c) == Indices(s, c) \o (IF PushesArrays(s, c) THEN Slices(s, c) ELSE <<>>)

AfterDraw(s, c) == IF PushesArrays(s, c) THEN PushVertexArray(s) ELSE s

-----------------------------------------------------------------------------
(* OpenGL, as the host calls it.  mixed: the application has used names     *)
(* for the same array that OpenGL keeps apart and the record does not, or   *)
(* interleaved arrays; vaoUsed: it has used vertex array objects; fresh:    *)
(* the context has not been current yet.                                    *)

NewContext ==
  [on |-> [a \in Slots |-> FALSE],
   src |-> [a \in Slots |-> [ptr |-> 0, client |-> TRUE, given |-> FALSE]],
   unit |-> 0, arrayBuf |-> 0, mixed |-> FALSE, vaoUsed |-> FALSE, fresh |-> TRUE]

GLPointer(g, slot, p) ==
  [g EXCEPT !.src[slot] = [ptr |-> p, client |-> g.arrayBuf = 0, given |-> TRUE]]

HasOwnArray(attr) == attr \in {6, 7}

GLAfter(g, c) ==
  CASE c.f = "ArrayState" -> [g EXCEPT !.on[SlotOf(c.name, g.unit)] = c.st]
    [] c.f = "AttribState" -> IF HasOwnArray(c.attr) THEN [g EXCEPT !.on[vattr2arry(c.attr)] = c.st]
                              ELSE [g EXCEPT !.mixed = TRUE]
    [] c.f = "Pointer" -> GLPointer(g, SlotOf(c.name, g.unit), c.ptr)
    [] c.f = "AttribPointer" -> IF HasOwnArray(c.attr) THEN GLPointer(g, vattr2arry(c.attr), c.ptr)
                                ELSE [g EXCEPT !.mixed = TRUE]
    [] c.f = "InterleavedArrays" -> [g EXCEPT !.mixed = TRUE]
    [] c.f = "ClientActiveTexture" -> [g EXCEPT !.unit = c.unit]
    [] c.f = "BindBuffer" -> [g EXCEPT !.arrayBuf = IF c.target = "array" THEN c.buf ELSE @]
    [] c.f = "DeleteBuffer" -> [g EXCEPT !.arrayBuf = IF @ = c.buf THEN 0 ELSE @]
    [] c.f \in {"BindVertexArray", "DeleteVertexArray"} -> [g EXCEPT !.vaoUsed = TRUE]
    [] OTHER -> g

\* The texture units' arrays are forgotten: only the ones of unit 0 go off.
WrongResetClientArrays(g) ==
  [g EXCEPT !.on = [a \in Slots |-> (a = <<"Weight", 0>> \/ a[2] # 0) /\ g.on[a]],
            !.unit = 0, !.arrayBuf = 0, !.mixed = FALSE]

\* A context taken as new is brought to that state.  The arrays of vertex
\* blending are not in its list.
MesaResetClientArrays(g) ==
  [g EXCEPT !.on = [a \in Slots |-> a = <<"Weight", 0>> /\ g.on[a]],
            !.src = [a \in Slots |-> [g.src[a] EXCEPT !.given = FALSE]],
            !.unit = 0, !.arrayBuf = 0, !.mixed = FALSE]

-----------------------------------------------------------------------------
TypeOK ==
  /\ guest \in TrackedArrays /\ host \in TrackedArrays
  /\ Len(fifo) <= MaxQueue + 2 * Units + 2
  /\ app \in {"gone", "loaded", "created", "current", "released"}
  /\ mgl \in [context : BOOLEAN, current : BOOLEAN, resetPending : BOOLEAN, ctx0 : BOOLEAN]
  /\ calls \in 0 .. MaxCalls

Init ==
  /\ guest = InitClientStates /\ host = InitClientStates
  /\ fifo = <<>> /\ data = <<>> /\ drawing = NoDraw
  /\ app = "gone"
  /\ mgl = [context |-> FALSE, current |-> FALSE, resetPending |-> FALSE, ctx0 |-> FALSE]
  /\ gl = NewContext
  /\ calls = 0

-----------------------------------------------------------------------------
(* The wrapper.  A stub queues its call and then brings its record up to    *)
(* date; was and will are the record before and after.                      *)

Entry(call, was, will) == [call |-> call, was |-> was, will |-> will]

CanCall ==
  /\ app = "current" /\ drawing = NoDraw
  /\ Len(fifo) < MaxQueue /\ calls < MaxCalls

Queue(call, items, will) ==
  /\ fifo' = Append(fifo, Entry(call, guest, will))
  /\ data' = data \o items
  /\ guest' = will

Stub(call, items, will) ==
  /\ CanCall
  /\ Queue(call, items, will)
  /\ calls' = calls + 1
  /\ UNCHANGED <<host, drawing, app, mgl, gl>>

\* glEnable, glDisable, glEnableClientState, glDisableClientState.
glClientState(name, st) ==
  Stub([f |-> "ArrayState", name |-> name, st |-> st], <<>>, vtxarry_state(guest, name, st))

\* glEnableVertexAttribArray and glDisableVertexAttribArray, and the client
\* states GL_VERTEX_ATTRIB_ARRAY0_NV and up.
glVertexAttribArray(attr, st) ==
  Stub([f |-> "AttribState", attr |-> attr, st |-> st], <<>>, vattr2arry_state(guest, attr, st))

\* glColorPointer and its kin.
glPointer(name, p) ==
  Stub([f |-> "Pointer", name |-> name, ptr |-> p], <<>>,
       vtxarry_init(guest, SlotOf(name, guest.texUnit), p))

glVertexAttribPointer(attr, p) ==
  Stub([f |-> "AttribPointer", attr |-> attr, ptr |-> p], <<>>,
       vtxarry_init(guest, vattr2arry(attr), p))

glInterleavedArrays(p) ==
  Stub([f |-> "InterleavedArrays", ptr |-> p], <<>>, InterleavedArrays(guest, p))

glClientActiveTexture(u) ==
  Stub([f |-> "ClientActiveTexture", unit |-> u], <<>>, [guest EXCEPT !.texUnit = u])

glBindBuffer(target, b) ==
  Stub([f |-> "BindBuffer", target |-> target, buf |-> b], <<>>, BindBuffer(guest, target, b))

glDeleteBuffers(b) ==
  Stub([f |-> "DeleteBuffer", buf |-> b], <<<<"names", {b}>>>>, DeleteBuffer(guest, b))

glBindVertexArray(v) ==
  Stub([f |-> "BindVertexArray", vao |-> v], <<>>, BindVertexArray(guest, v))

glDeleteVertexArrays(v) ==
  Stub([f |-> "DeleteVertexArray", vao |-> v], <<<<"names", {v}>>>>, DeleteVertexArray(guest, v))

\* A draw looks at its arrays first.
glDraw(c) ==
  /\ CanCall
  /\ drawing' = c
  /\ calls' = calls + 1
  /\ UNCHANGED <<guest, host, fifo, data, app, mgl, gl>>

\* An array whose memory is gone, among the two kinds that are looked at.
IsGone(s, slot) == IsPushed(s.arr[slot]) /\ s.arr[slot].ptr \in BadPtrs
GoneUnits(s) == {i \in 0 .. Units - 1 : IsGone(s, <<"TexCoord", i>>)}
LooksAtArrays == PushesArrays(guest, drawing) /\ ~IsInterleaved(guest)

PrepDisableColor ==
  /\ drawing # NoDraw /\ LooksAtArrays
  /\ IsGone(guest, <<"Color", 0>>)
  /\ Queue([f |-> "ArrayState", name |-> "Color", st |-> FALSE], <<>>,
           vtxarry_state(guest, "Color", FALSE))
  /\ UNCHANGED <<host, drawing, app, mgl, gl, calls>>

\* The unit of the array that goes off stays selected.
PrepDisableTexCoord ==
  /\ drawing # NoDraw /\ LooksAtArrays
  /\ ~IsGone(guest, <<"Color", 0>>) /\ GoneUnits(guest) # {}
  /\ LET unit == Lowest(GoneUnits(guest))
         selected == [guest EXCEPT !.texUnit = unit]
         will == vtxarry_state(selected, "TexCoord", FALSE)
     IN  /\ fifo' = fifo \o
              <<Entry([f |-> "ClientActiveTexture", unit |-> unit], guest, selected),
                Entry([f |-> "ArrayState", name |-> "TexCoord", st |-> FALSE], selected, will)>>
         /\ guest' = will
  /\ UNCHANGED <<host, data, drawing, app, mgl, gl, calls>>

\* Then the indices and the slices are added and the draw itself queued.
FinishDraw ==
  /\ drawing # NoDraw
  /\ ~(LooksAtArrays /\ (IsGone(guest, <<"Color", 0>>) \/ GoneUnits(guest) # {}))
  /\ Queue(drawing, DrawData(guest, drawing), AfterDraw(guest, drawing))
  /\ drawing' = NoDraw
  /\ UNCHANGED <<host, app, mgl, gl, calls>>

-----------------------------------------------------------------------------
(* The host runs the calls in order: what each leaves in its record h.      *)

HostArrayState(h, c, h2) == c.f = "ArrayState" /\ h2 = vtxarry_state(h, c.name, c.st)

HostAttribState(h, c, h2) == c.f = "AttribState" /\ h2 = vattr2arry_state(h, c.attr, c.st)

\* The vertex cache has room for every address but 0, which stays NULL.
HostPointer(h, c, h2) ==
  c.f = "Pointer" /\ h2 = vtxarry_init(h, SlotOf(c.name, h.texUnit), c.ptr)

HostAttribPointer(h, c, h2) ==
  c.f = "AttribPointer" /\ h2 = vtxarry_init(h, vattr2arry(c.attr), c.ptr)

HostInterleavedArrays(h, c, h2) ==
  c.f = "InterleavedArrays" /\ h2 = InterleavedArrays(h, c.ptr)

HostClientActiveTexture(h, c, h2) ==
  c.f = "ClientActiveTexture" /\ h2 = [h EXCEPT !.texUnit = c.unit]

HostBindBuffer(h, c, h2) == c.f = "BindBuffer" /\ h2 = BindBuffer(h, c.target, c.buf)

\* The host forgets that a vertex array object is bound.
WrongHostDeleteBuffers(h, c, h2) ==
  /\ c.f = "DeleteBuffer"
  /\ h2 = [h EXCEPT !.arrayBuf = IF @ = c.buf THEN 0 ELSE @,
                    !.elemArryBuf = IF @ = c.buf THEN 0 ELSE @]

HostDeleteBuffers(h, c, h2) == c.f = "DeleteBuffer" /\ h2 = DeleteBuffer(h, c.buf)

HostVertexArray(h, c, h2) ==
  \/ c.f = "BindVertexArray" /\ h2 = BindVertexArray(h, c.vao)
  \/ c.f = "DeleteVertexArray" /\ h2 = DeleteVertexArray(h, c.vao)

IsDraw(c) == IsIndexed(c) \/ c.f \in {"ArrayElement", "LockArraysEXT", "DrawArrays"}

\* An indexed draw from a buffer takes slices too.
WrongHostPushesArrays(h, c) ==
  \/ c.f = "ArrayElement"
  \/ c.f \in {"LockArraysEXT", "DrawArrays"} /\ c.idx # {}
  \/ IsIndexed(c) /\ h.vao = 0

\* Does the host take slices for draw c?
HostPushesArrays(h, c) ==
  \/ c.f = "ArrayElement"
  \/ c.f = "LockArraysEXT" /\ c.idx # {}
  \/ c.f = "DrawArrays" /\ c.idx # {} /\ h.vao = 0
  \/ IsIndexed(c) /\ h.elemArryBuf = 0 /\ h.vao = 0

HostPushVertexArray(h) == IF IsInterleaved(h) THEN [h EXCEPT !.inter.enable = FALSE] ELSE h

HostDraw(h, c, h2) ==
  /\ IsDraw(c)
  /\ h2 = IF HostPushesArrays(h, c) THEN HostPushVertexArray(h) ELSE h

HostStep(h, c, h2) ==
  \/ HostArrayState(h, c, h2)
  \/ HostAttribState(h, c, h2)
  \/ HostPointer(h, c, h2)
  \/ HostAttribPointer(h, c, h2)
  \/ HostInterleavedArrays(h, c, h2)
  \/ HostClientActiveTexture(h, c, h2)
  \/ HostBindBuffer(h, c, h2)
  \/ HostDeleteBuffers(h, c, h2)
  \/ HostVertexArray(h, c, h2)
  \/ HostDraw(h, c, h2)

\* What the host takes from the data FIFO for call c.
HostTakes(h, c) ==
  IF IsDraw(c)
  THEN Indices(h, c) \o (IF HostPushesArrays(h, c) THEN Slices(h, c) ELSE <<>>)
  ELSE IF c.f = "DeleteBuffer" THEN <<<<"names", {c.buf}>>>>
  ELSE IF c.f = "DeleteVertexArray" THEN <<<<"names", {c.vao}>>>>
  ELSE <<>>

\* One call of the FIFO; with the last one gone the data FIFO is rewound.
HostCall ==
  /\ fifo # <<>> /\ mgl.context /\ mgl.current
  /\ LET c == Head(fifo).call
         n == Len(HostTakes(host, c))
     IN  /\ HostStep(host, c, host')
         /\ gl' = GLAfter(gl, c)
         /\ fifo' = Tail(fifo)
         /\ data' = IF Tail(fifo) = <<>> THEN <<>> ELSE SubSeq(data, n + 1, Len(data))
  /\ UNCHANGED <<guest, drawing, app, mgl, calls>>

-----------------------------------------------------------------------------
(* Processes and contexts.  A register write of the wrapper drains the FIFO *)
(* first, when there is a current context.                                  *)

Drained == fifo = <<>> /\ drawing = NoDraw

\* DLL_PROCESS_ATTACH: the statics of a new process are zero.
Load ==
  /\ app = "gone"
  /\ app' = "loaded" /\ guest' = InitClientStates
  /\ UNCHANGED <<host, fifo, data, drawing, mgl, gl, calls>>

\* 0xFF4 lets go of the context, but keeps ctx[0].
HostDelete(m) ==
  IF m.context /\ m.current THEN [m EXCEPT !.context = FALSE, !.current = FALSE] ELSE m

\* wglSetPixelFormat: a current context is released and deleted first, then
\* TmpContextPurge destroys ctx[0].
SetPixelFormat ==
  /\ app \in {"loaded", "current"} \/ (FormatInContext /\ app = "released")
  /\ Drained /\ mgl.ctx0
  /\ app' = IF app = "current" THEN "loaded" ELSE app
  /\ mgl' = [(IF app = "current" THEN HostDelete(mgl) ELSE mgl) EXCEPT !.ctx0 = FALSE]
  /\ gl' = NewContext
  /\ UNCHANGED <<guest, host, fifo, data, drawing, calls>>

ContextCreateCommon == host' = InitClientStates

\* wglCreateContext: a host context left from before is used again, and with
\* it the record, unless the host had let go of it.
mglCreateContext ==
  /\ app \in {"loaded", "released"} /\ Drained
  /\ app' = "created"
  /\ gl' = IF mgl.ctx0 THEN gl ELSE NewContext
  /\ IF mgl.context
     THEN mgl' = [mgl EXCEPT !.ctx0 = TRUE] /\ UNCHANGED <<guest, host>>
     ELSE /\ ContextCreateCommon /\ guest' = InitClientStates
          /\ mgl' = [mgl EXCEPT !.ctx0 = TRUE, !.context = TRUE, !.resetPending = TRUE]
  /\ UNCHANGED <<fifo, data, drawing, calls>>

\* wglCreateContextAttribsARB without a context to share with: the same
\* attributes as last time keep ctx[0], others build a new one.
wglCreateContextAttribsARB(sameAttributes) ==
  /\ app \in {"loaded", "current", "released"} /\ Drained
  /\ sameAttributes => mgl.ctx0
  /\ app' = "created"
  /\ gl' = IF sameAttributes THEN gl ELSE NewContext
  /\ ContextCreateCommon /\ guest' = InitClientStates
  /\ mgl' = [context |-> TRUE, current |-> FALSE, resetPending |-> TRUE, ctx0 |-> TRUE]
  /\ UNCHANGED <<fifo, data, drawing, calls>>

mglMakeCurrent ==
  /\ app \in {"created", "released"} /\ mgl.ctx0
  /\ app' = "current"
  /\ IF mgl.context /\ ~mgl.current
     THEN /\ gl' = [(IF mgl.resetPending THEN MesaResetClientArrays(gl) ELSE gl) EXCEPT !.fresh = FALSE]
          /\ mgl' = [mgl EXCEPT !.current = TRUE, !.resetPending = FALSE]
     ELSE gl' = [gl EXCEPT !.fresh = FALSE] /\ UNCHANGED mgl
  /\ UNCHANGED <<guest, host, fifo, data, drawing, calls>>

\* wglMakeCurrent of no context: the host goes on with the one it has.
Release ==
  /\ app = "current" /\ Drained
  /\ app' = "released"
  /\ UNCHANGED <<guest, host, fifo, data, drawing, mgl, gl, calls>>

mglDeleteContext ==
  /\ app \in {"created", "released"} /\ Drained
  /\ app' = "loaded" /\ mgl' = HostDelete(mgl)
  /\ UNCHANGED <<guest, host, fifo, data, drawing, gl, calls>>

\* DLL_PROCESS_DETACH: a current context is deleted, then 0xD0320 closes the
\* window with ctx[0]; that a context is current is not taken back.
Unload ==
  /\ app # "gone" /\ Drained
  /\ app' = "gone"
  /\ mgl' = [(IF app = "current" THEN HostDelete(mgl) ELSE mgl) EXCEPT !.context = FALSE, !.ctx0 = FALSE]
  /\ gl' = NewContext
  /\ UNCHANGED <<guest, host, fifo, data, drawing, calls>>

\* The process goes without a word to the host.
Die ==
  /\ app = "loaded" \/ (DiesInContext /\ app # "gone")
  /\ app' = "gone" /\ drawing' = NoDraw
  /\ UNCHANGED <<guest, host, fifo, data, mgl, gl, calls>>

WrapperCall ==
  \/ \E name \in Names, st \in BOOLEAN : glClientState(name, st)
  \/ \E attr \in Attribs, st \in BOOLEAN : glVertexAttribArray(attr, st)
  \/ \E name \in Names, p \in Ptrs : glPointer(name, p)
  \/ \E attr \in Attribs, p \in Ptrs : glVertexAttribPointer(attr, p)
  \/ \E p \in Ptrs : glInterleavedArrays(p)
  \/ \E u \in 0 .. Units - 1 : glClientActiveTexture(u)
  \/ \E target \in {"array", "element", "pixels"}, b \in Buffers \cup {0} : glBindBuffer(target, b)
  \/ \E b \in Buffers : glDeleteBuffers(b)
  \/ \E v \in Vaos \cup {0} : glBindVertexArray(v)
  \/ \E v \in Vaos : glDeleteVertexArrays(v)
  \/ \E c \in Draws : glDraw(c)

Next ==
  \/ WrapperCall
  \/ PrepDisableColor \/ PrepDisableTexCoord \/ FinishDraw
  \/ HostCall
  \/ Load \/ SetPixelFormat \/ mglCreateContext
  \/ \E same \in BOOLEAN : wglCreateContextAttribsARB(same)
  \/ mglMakeCurrent \/ Release \/ mglDeleteContext \/ Unload \/ Die

Spec == Init /\ [][Next]_vars

-----------------------------------------------------------------------------
(* Properties. *)

\* Guest and host keep the same record: with all calls run, while there is a
\* context, they are equal (vtxArry in wrapgl32.c, MesaPTState in
\* mesapt_mm.c), whatever was called and however the context came about.
SameRecord == mgl.context /\ app # "gone" /\ fifo = <<>> => guest = host

\* The host finds its data: what it takes for the next call is what the guest
\* added for it, slice by slice, and nothing is left over at the end
\* (the "FIFO data leak" that mesapt_write warns of).
StreamAligned ==
  IF fifo = <<>> THEN data = <<>>
  ELSE LET takes == HostTakes(host, Head(fifo).call)
       IN  /\ Len(takes) <= Len(data)
           /\ SubSeq(data, 1, Len(takes)) = takes

\* OpenGL reads no stale vertex: every client array it has on for a draw is
\* among the slices sent with this draw, from the address it was given --
\* for draws that send arrays at all, and applications that keep to one name
\* for an array.
DrawReadsSent ==
  fifo # <<>> =>
    LET c == Head(fifo).call
    IN  (IsDraw(c) /\ HostPushesArrays(host, c) /\ ~gl.mixed /\ ~gl.vaoUsed) =>
          \A a \in Slots :
            (gl.on[a] /\ gl.src[a].given /\ gl.src[a].client /\ gl.src[a].ptr # 0) =>
              \E k \in DOMAIN HostTakes(host, c) :
                HostTakes(host, c)[k] = <<"slice", a, gl.src[a].ptr, Span(c)>>

\* "The host answers in the next word whether it started its context afresh
\* and reset its client state" (mglCreateContext, wrapgl32.c): when the host
\* has built a new context for it, the wrapper starts with an empty record.
AfreshAnswered ==
  (app = "created" /\ mgl.ctx0 /\ gl.fresh) => guest = InitClientStates
===============================================================================
