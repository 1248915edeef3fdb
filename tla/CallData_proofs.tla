--------------------------- MODULE CallData_proofs ---------------------------
(***************************************************************************)
(* Proofs about the data of a call, for every set of counts, lengths and   *)
(* sizes.                                                                  *)
(***************************************************************************)
EXTENDS CallData, WellFoundedInduction, TLAPS

-----------------------------------------------------------------------------
(* ---- Bytes and words. --------------------------------------------------- *)

\* Rounding up to eight bytes.
LEMMA AlignedFacts ==
  ASSUME NEW cb \in Nat
  PROVE  \E q \in Nat : ALIGNED(cb) = 8 * q /\ cb <= 8 * q /\ 8 * q < cb + 8
<1> DEFINE q == cb \div 8
<1>1. q \in Int /\ cb = 8 * q + (cb % 8) /\ cb % 8 \in 0 .. 7
  OBVIOUS
<1>2. ALIGNED(cb) = IF cb % 8 # 0 THEN (q + 1) * 8 ELSE cb
  BY DEF ALIGNED
<1> HIDE DEF q
<1>3. q \in Nat
  BY <1>1
<1>4. CASE cb % 8 # 0
  <2>1. q + 1 \in Nat /\ ALIGNED(cb) = 8 * (q + 1) /\ cb <= 8 * (q + 1) /\ 8 * (q + 1) < cb + 8
    BY <1>1, <1>2, <1>3, <1>4
  <2> QED BY <2>1
<1>5. CASE cb % 8 = 0
  BY <1>1, <1>2, <1>3, <1>5
<1> QED BY <1>4, <1>5

LEMMA AlignedNat == ASSUME NEW cb \in Nat PROVE ALIGNED(cb) \in Nat /\ cb <= ALIGNED(cb)
BY AlignedFacts

LEMMA Eights ==
  ASSUME NEW q \in Nat PROVE ALIGNED(8 * q) = 8 * q /\ Words(8 * q) = 2 * q
BY DEF ALIGNED, Words

LEMMA AddData ==
  ASSUME NEW at \in Nat, at % 2 = 0, NEW cb \in Nat
  PROVE  /\ fifoAddData(at, cb) = at + Words(ALIGNED(cb))
         /\ fifoAddData(at, cb) \in Nat /\ fifoAddData(at, cb) % 2 = 0
<1>1. PICK q \in Nat : ALIGNED(cb) = 8 * q /\ cb <= 8 * q /\ 8 * q < cb + 8
  BY AlignedFacts
<1>2. Words(ALIGNED(cb)) = 2 * q
  BY <1>1, Eights
<1>3. Words(cb) \in {2 * q - 1, 2 * q} /\ Words(cb) \in Nat
  BY <1>1 DEF Words
<1> QED BY <1>2, <1>3 DEF fifoAddData

-----------------------------------------------------------------------------
(* ---- Where data is placed. ---------------------------------------------- *)

\* place[i] of PlacedAt for the chunks up to the n-th.
Placing(at, chunks, n, place) ==
  place = [i \in 0 .. n |-> IF i = 0 THEN at ELSE fifoAddData(place[i - 1], chunks[i].cb)]

\* One more chunk can always be placed.
LEMMA OneMore ==
  ASSUME NEW at, NEW chunks, NEW n \in Nat, NEW place, Placing(at, chunks, n, place)
  PROVE  \E more : Placing(at, chunks, n + 1, more)
<1> DEFINE more == [i \in 0 .. n + 1 |->
                      IF i = n + 1 THEN fifoAddData(place[n], chunks[n + 1].cb) ELSE place[i]]
<1>1. \A i \in 0 .. n + 1 :
        more[i] = IF i = 0 THEN at ELSE fifoAddData(more[i - 1], chunks[i].cb)
  <2> SUFFICES ASSUME NEW i \in 0 .. n + 1
               PROVE  more[i] = IF i = 0 THEN at ELSE fifoAddData(more[i - 1], chunks[i].cb)
    OBVIOUS
  <2>1. CASE i = n + 1
    <3>1. more[i] = fifoAddData(place[n], chunks[n + 1].cb) /\ more[n] = place[n] /\ i - 1 = n /\ i # 0
      BY <2>1
    <3> QED BY <3>1, <2>1
  <2>2. CASE i = 0
    BY <2>2 DEF Placing
  <2>3. CASE i # 0 /\ i # n + 1
    <3>1. i - 1 \in 0 .. n /\ i - 1 # n + 1 /\ i \in 0 .. n
      BY <2>3
    <3>2. more[i] = place[i] /\ more[i - 1] = place[i - 1]
      BY <2>3, <3>1
    <3>3. place[i] = fifoAddData(place[i - 1], chunks[i].cb)
      BY <2>3, <3>1 DEF Placing
    <3> QED BY <2>3, <3>2, <3>3
  <2> QED BY <2>1, <2>2, <2>3
<1>2. Placing(at, chunks, n + 1, more)
  <2>1. more = [i \in 0 .. n + 1 |-> more[i]]
    OBVIOUS
  <2> HIDE DEF more
  <2> QED BY <1>1, <2>1 DEF Placing
<1> QED BY <1>2

\* So the function PlacedAt defines is there: were it not, there would be a first
\* chunk that cannot be placed.
LEMMA PlacingExists ==
  ASSUME NEW at, NEW chunks, NEW n \in Nat
  PROVE  \E place : Placing(at, chunks, n, place)
<1> DEFINE T == {i \in Nat : ~ \E place : Placing(at, chunks, i, place)}
<1> SUFFICES ASSUME T # {} PROVE FALSE
  OBVIOUS
<1>1. PICK i \in T : \A k \in T : ~(<<k, i>> \in OpToRel(<, Nat))
  <2> HIDE DEF T
  <2>1. T \subseteq Nat
    BY DEF T
  <2> QED BY <2>1, NatLessThanWellFounded, WFMin
<1>2. i # 0
  <2>1. Placing(at, chunks, 0, [k \in 0 .. 0 |-> at])
    BY DEF Placing
  <2> QED BY <2>1
<1>3. i \in Nat /\ i - 1 \in Nat
  BY <1>2
<1>4. i - 1 \notin T
  <2>1. <<i - 1, i>> \in OpToRel(<, Nat)
    BY <1>3 DEF OpToRel
  <2> QED BY <1>1, <2>1
<1>5. PICK place : Placing(at, chunks, i - 1, place)
  BY <1>3, <1>4
<1>6. \E more : Placing(at, chunks, (i - 1) + 1, more)
  BY <1>3, <1>5, OneMore
<1>7. (i - 1) + 1 = i
  BY <1>3
<1> QED BY <1>6, <1>7

\* The first chunk goes where the call's data starts, the next ones behind it.
LEMMA Placed ==
  ASSUME NEW at, NEW chunks, Len(chunks) \in Nat
  PROVE  /\ PlacedAt(at, chunks, 0) = at
         /\ \A k \in 1 .. Len(chunks) :
              PlacedAt(at, chunks, k) = fifoAddData(PlacedAt(at, chunks, k - 1), chunks[k].cb)
<1> DEFINE place == CHOOSE p : Placing(at, chunks, Len(chunks), p)
<1>1. Placing(at, chunks, Len(chunks), place)
  BY PlacingExists
<1>2. \A k : PlacedAt(at, chunks, k) = place[k]
  BY DEF PlacedAt, Placing
<1> HIDE DEF place
<1>3. place[0] = at
  BY <1>1 DEF Placing
<1>4. \A k \in 1 .. Len(chunks) : place[k] = fifoAddData(place[k - 1], chunks[k].cb)
  BY <1>1 DEF Placing
<1> QED BY <1>2, <1>3, <1>4

\* Induction, for a set of numbers.
LEMMA AllUpTo ==
  ASSUME NEW n \in Nat, NEW S, 0 \in S, \A i \in 1 .. n : i - 1 \in S => i \in S
  PROVE  \A i \in 0 .. n : i \in S
<1> DEFINE T == {i \in Nat : i <= n /\ i \notin S}
<1> SUFFICES ASSUME T # {} PROVE FALSE
  OBVIOUS
<1>1. PICK i \in T : \A k \in T : ~(<<k, i>> \in OpToRel(<, Nat))
  <2> HIDE DEF T
  <2>1. T \subseteq Nat
    BY DEF T
  <2> QED BY <2>1, NatLessThanWellFounded, WFMin
<1>2. i \in 1 .. n /\ i - 1 \in Nat /\ i - 1 <= n
  OBVIOUS
<1>3. <<i - 1, i>> \in OpToRel(<, Nat)
  BY <1>2 DEF OpToRel
<1>4. i - 1 \notin T
  BY <1>1, <1>3
<1> QED BY <1>2, <1>4

\* A place a call's data may start at, and a call's chunks.
Even(at) == at \in Nat /\ at % 2 = 0
Sized(s) == Len(s) \in Nat /\ \A k \in 1 .. Len(s) : s[k].cb \in Nat

\* The words of a chunk.
Taken(cb) == Words(ALIGNED(cb))

LEMMA TakenNat == ASSUME NEW cb \in Nat PROVE Taken(cb) \in Nat /\ ALIGNED(cb) = 4 * Taken(cb)
BY AlignedFacts, Eights DEF Taken

LEMMA AddTaken ==
  ASSUME NEW at, Even(at), NEW cb \in Nat
  PROVE  fifoAddData(at, cb) = at + Taken(cb) /\ Even(fifoAddData(at, cb))
BY AddData DEF Even, Taken

\* A chunk takes its bytes rounded up to eight, and every place is even.
LEMMA PlacedOn ==
  ASSUME NEW at, Even(at), NEW s, Sized(s)
  PROVE  /\ PlacedAt(at, s, 0) = at
         /\ \A k \in 0 .. Len(s) : Even(PlacedAt(at, s, k))
         /\ \A k \in 1 .. Len(s) : PlacedAt(at, s, k) = PlacedAt(at, s, k - 1) + Taken(s[k].cb)
<1> DEFINE S == {k \in 0 .. Len(s) : Even(PlacedAt(at, s, k))}
<1>0. Len(s) \in Nat /\ \A k \in 1 .. Len(s) : s[k].cb \in Nat
  BY DEF Sized
<1>p. /\ PlacedAt(at, s, 0) = at
      /\ \A k \in 1 .. Len(s) : PlacedAt(at, s, k) = fifoAddData(PlacedAt(at, s, k - 1), s[k].cb)
  <2>1. Len(s) \in Nat
    BY <1>0
  <2> QED BY ONLY <2>1, Placed, ZenonT(40)
<1>1. 0 \in S /\ PlacedAt(at, s, 0) = at
  BY <1>0, <1>p
<1>2. ASSUME NEW k \in 1 .. Len(s), Even(PlacedAt(at, s, k - 1))
      PROVE  PlacedAt(at, s, k) = PlacedAt(at, s, k - 1) + Taken(s[k].cb) /\ Even(PlacedAt(at, s, k))
  <2>1. PlacedAt(at, s, k) = fifoAddData(PlacedAt(at, s, k - 1), s[k].cb)
    BY <1>p
  <2>2. s[k].cb \in Nat
    BY <1>0
  <2> QED BY <1>2, <2>1, <2>2, AddTaken
<1>3. \A k \in 1 .. Len(s) : k - 1 \in S => k \in S
  BY <1>2
<1>4. \A k \in 0 .. Len(s) : k \in S
  <2> HIDE DEF S
  <2> QED BY <1>0, <1>1, <1>3, AllUpTo
<1>5. \A k \in 1 .. Len(s) : k - 1 \in 0 .. Len(s)
  BY <1>0
<1>6. \A k \in 0 .. Len(s) : Even(PlacedAt(at, s, k))
  BY <1>4
<1>7. ASSUME NEW k \in 1 .. Len(s) PROVE PlacedAt(at, s, k) = PlacedAt(at, s, k - 1) + Taken(s[k].cb)
  BY <1>2, <1>5, <1>6
<1> HIDE DEF S
<1> QED BY <1>1, <1>6, <1>7

\* No chunk, one, and two.
LEMMA PlacedNone == ASSUME NEW at PROVE PlacedAt(at, <<>>, Len(<<>>)) = at
BY Placed

LEMMA PlacedFirst ==
  ASSUME NEW at, Even(at), NEW s, Sized(s), 1 <= Len(s)
  PROVE  PlacedAt(at, s, 0) = at /\ PlacedAt(at, s, 1) = at + Taken(s[1].cb)
<1>1. 1 \in 1 .. Len(s)
  BY DEF Sized
<1>2. PlacedAt(at, s, 0) = at
  BY PlacedOn
<1>3. \A k \in 1 .. Len(s) : PlacedAt(at, s, k) = PlacedAt(at, s, k - 1) + Taken(s[k].cb)
  BY PlacedOn
<1>4. PlacedAt(at, s, 1) = PlacedAt(at, s, 1 - 1) + Taken(s[1].cb)
  BY ONLY <1>1, <1>3
<1> QED BY ONLY <1>2, <1>4

LEMMA PlacedSecond ==
  ASSUME NEW at, Even(at), NEW s, Sized(s), 2 <= Len(s)
  PROVE  PlacedAt(at, s, 2) = PlacedAt(at, s, 1) + Taken(s[2].cb)
<1>1. 2 \in 1 .. Len(s)
  BY DEF Sized
<1>2. \A k \in 1 .. Len(s) : PlacedAt(at, s, k) = PlacedAt(at, s, k - 1) + Taken(s[k].cb)
  BY PlacedOn
<1>3. PlacedAt(at, s, 2) = PlacedAt(at, s, 2 - 1) + Taken(s[2].cb)
  BY ONLY <1>1, <1>2
<1> QED BY ONLY <1>3

LEMMA PlacedOne ==
  ASSUME NEW at, Even(at), NEW a, NEW cb \in Nat, NEW s, s = <<Chunk(a, cb)>>
  PROVE  /\ Len(s) = 1 /\ DOMAIN s = {1} /\ s[1].a = a /\ s[1].cb = cb
         /\ PlacedAt(at, s, 0) = at
         /\ PlacedAt(at, s, 1) = at + Taken(cb)
<1>1. Len(s) = 1 /\ DOMAIN s = {1} /\ s[1].a = a /\ s[1].cb = cb
  BY DEF Chunk
<1>2. Sized(s) /\ 1 <= Len(s)
  BY <1>1 DEF Sized
<1>3. Even(at)
  OBVIOUS
<1>4. PlacedAt(at, s, 0) = at /\ PlacedAt(at, s, 1) = at + Taken(s[1].cb)
  BY ONLY <1>2, <1>3, PlacedFirst
<1> QED BY <1>1, <1>4

LEMMA PlacedTwo ==
  ASSUME NEW at, Even(at), NEW a, NEW cb \in Nat, NEW b, NEW db \in Nat,
         NEW s, s = <<Chunk(a, cb), Chunk(b, db)>>
  PROVE  /\ Len(s) = 2 /\ DOMAIN s = {1, 2} /\ s[1].a = a /\ s[1].cb = cb /\ s[2].a = b /\ s[2].cb = db
         /\ PlacedAt(at, s, 0) = at
         /\ PlacedAt(at, s, 1) = at + Taken(cb)
         /\ PlacedAt(at, s, 2) = at + Taken(cb) + Taken(db)
<1>1. Len(s) = 2 /\ DOMAIN s = {1, 2} /\ s[1].a = a /\ s[1].cb = cb /\ s[2].a = b /\ s[2].cb = db
  BY DEF Chunk
<1>2. Sized(s) /\ 1 <= Len(s) /\ 2 <= Len(s)
  BY <1>1 DEF Sized
<1>5. Even(at)
  OBVIOUS
<1>3. PlacedAt(at, s, 0) = at /\ PlacedAt(at, s, 1) = at + Taken(s[1].cb)
  BY ONLY <1>2, <1>5, PlacedFirst
<1>4. PlacedAt(at, s, 2) = PlacedAt(at, s, 1) + Taken(db)
  BY <1>1, <1>2, PlacedSecond
<1> QED BY <1>1, <1>3, <1>4

\* Strings of the same length, one behind the other.
LEMMA PlacedStrings ==
  ASSUME NEW at, Even(at), NEW s, Sized(s),
         NEW m \in Nat, m <= Len(s), NEW cb \in Nat, \A k \in 1 .. m : s[k].cb = cb
  PROVE  \A k \in 0 .. m : PlacedAt(at, s, k) = at + k * Taken(cb)
<1> DEFINE S == {k \in 0 .. m : PlacedAt(at, s, k) = at + k * Taken(cb)}
<1>0. PICK w \in Nat : w = Taken(cb)
  BY TakenNat
<1>1. 0 \in S
  <2>1. PlacedAt(at, s, 0) = at
    BY PlacedOn
  <2>2. at = at + 0 * w
    BY DEF Even
  <2> QED BY <1>0, <2>1, <2>2
<1>2. ASSUME NEW k \in 1 .. m, k - 1 \in S PROVE k \in S
  <2>1. PlacedAt(at, s, k) = PlacedAt(at, s, k - 1) + Taken(cb)
    <3>1. k \in 1 .. Len(s) /\ s[k].cb = cb
      BY DEF Sized
    <3> HIDE DEF S
    <3> QED BY <3>1, PlacedOn
  <2>2. PlacedAt(at, s, k - 1) = at + (k - 1) * Taken(cb)
    BY <1>2
  <2>3. at + (k - 1) * w + w = at + k * w
    <3>1. (k - 1) * w + w = k * w /\ (k - 1) * w \in Int /\ k * w \in Int
      OBVIOUS
    <3> QED BY <3>1 DEF Even
  <2> QED BY <1>0, <2>1, <2>2, <2>3
<1>3. \A k \in 0 .. m : k \in S
  <2> HIDE DEF S
  <2> QED BY <1>1, <1>2, AllUpTo
<1> QED BY <1>3

LEMMA WordsOf == ASSUME NEW w \in Nat PROVE Words(4 * w) = w
BY DEF Words

-----------------------------------------------------------------------------
(* ---- The kinds of calls. ------------------------------------------------ *)

LEMMA OfFamily ==
  ASSUME NEW f, NEW C, NEW T, NEW N, NEW x \in Family(f, C, T, N)
  PROVE  x.f = f /\ x.c \in C /\ x.t \in T /\ x.n \in N
BY DEF Family, Call

LEMMA OfKind == ASSUME NEW S, NEW x \in S PROVE x.f \in FunctionsOf(S)
BY DEF FunctionsOf

LEMMA KindOf == ASSUME NEW S, NEW f \in FunctionsOf(S) PROVE \E x \in S : f = x.f
BY DEF FunctionsOf

Types == Signed \cup Unsigned \cup {"us565", "i64"}

VectorNames ==
  {"Color", "SecondaryColor", "Normal", "Vertex", "RasterPos", "TexCoord", "MultiTexCoord",
   "EvalCoord", "FogCoord", "Index", "EdgeFlag", "VertexAttrib"}

LEMMA VectorShape ==
  ASSUME NEW x \in Vectors
  PROVE  /\ x.f \in VectorNames /\ x.c \in 1 .. 4 /\ x.t \in Signed \cup Unsigned /\ x.n \in 0 .. 1
         /\ (x.f = "TexCoord" /\ x.c = 1) => x \in glTexCoord12
BY OfFamily DEF Vectors, VectorNames, Signed, Unsigned, Coord, glColor3, glColor4, glSecondaryColor,
   glNormal, glVertex, glRasterPos, glTexCoord12, glTexCoord34, glMultiTexCoord12, glMultiTexCoord34,
   glEvalCoord, glFogCoord, glIndex, glEdgeFlag, glVertexAttrib12, glVertexAttrib3, glVertexAttrib4

\* What is known of a call with a given name.
ArrayShapeOf(x) ==
  /\ x.n \in Nat \ {0} /\ x.c \in 1 .. 16
  /\ \/ x.f = "VertexAttribs" /\ x \in glVertexAttribs
     \/ x.f = "Uniform" /\ x.c \in 1 .. 4 /\ x.t \in {"d", "f", "i", "ui"}
     \/ x.f = "UniformMatrix" /\ x.c \in {4, 6, 8, 9, 12, 16} /\ x.t \in {"d", "f"}
     \/ x.f = "LoadMatrix" /\ x.c = 16 /\ x.t \in {"d", "f"} /\ x.n = 1
     \/ x.f = "ClipPlane" /\ x.c = 4 /\ x.t = "d" /\ x.n = 1
     \/ x.f = "Indexed" /\ x.c = 4 /\ x.t \in {"f", "i"} /\ x.n = 1
     \/ x.f = "ProgramParameter" /\ x.c = 4 /\ x.t \in {"d", "f"} /\ x.n = 1
     \/ x.f = "ProgramParameters" /\ x.c = 4 /\ x.t \in {"d", "f"}
     \/ x.f = "Rect" /\ x \in glRect /\ x.c = 1 /\ x.t \in Coord /\ x.n = 2
     \/ x.f \in {"Delete", "Bind", "PrioritizeTextures"} /\ x.c = 1 /\ x.t = "ui"
     \/ x.f = "RequestResident" /\ x \in glRequestResidentPrograms
     \/ x.f = "AreResident" /\ x \in glAreResident /\ x.c = 1 /\ x.t = "ui"
     \/ x.f = "CallLists" /\ x.c = 1 /\ x.t \in {"ub", "us", "ui"}
     \/ x.f = "Weight" /\ x.c = 1 /\ x.t \in Signed \cup Unsigned
     \/ x.f = "PixelMap" /\ x.c = 1 /\ x.t \in {"f", "ui", "us"}
     \/ x.f = "ColorTable" /\ x.c \in {1, 3, 4} /\ x.t \in {"ub", "us565", "f"}
     \/ x.f \in {"Map1", "Map2"} /\ x.c \in {3, 4} /\ x.t \in {"d", "f"}
     \/ x.f = "DrawIndirect" /\ x \in glDrawIndirect /\ x.c \in {4, 5} /\ x.t = "ui" /\ x.n = 1

LEMMA ArrayShape == ASSUME NEW x \in Arrays \cup glAreResident PROVE ArrayShapeOf(x)
<1>1. \A n \in Counts : n \in Nat \ {0}
  BY CallsAssumption
<1>2. \A n \in {1, 3} : n \in Nat \ {0}
  OBVIOUS
<1> QED
  BY <1>1, OfFamily DEF Arrays, ArrayShapeOf, Signed, Unsigned, Coord, Call, glVertexAttribs, glUniform12,
     glUniform34, glUniformMatrix, glLoadMatrix, glClipPlane, glIndexed, glProgramParameter,
     glProgramParameters, glRect, glDelete, glBind, glRequestResidentPrograms, glPrioritizeTextures,
     glCallLists, glWeight, glPixelMap, glColorTable, glMap1, glMap2, glDrawIndirect, glAreResident

ValueShapeOf(x) ==
  \/ x.f \in {"Parameter1", "Parameter2"} /\ x.c = 1 /\ x.t \in {"f", "i", "d"} /\ x.n \in {1, 3, 4}
  \/ x.f = "ColorTableParameter" /\ x \in glColorTableParameter /\ x.c = 1 /\ x.t \in {"f", "i"} /\ x.n \in {1, 4}
  \/ x.f = "ClearBuffer" /\ x \in glClearBuffer /\ x.c \in {1, 4} /\ x.t \in {"f", "i", "ui"} /\ x.n = 1
  \/ x.f \in {"ClearBufferData", "ClearBufferSubData"} /\ x \in glClearBufferData \cup glClearBufferSubData
       /\ x.c \in {1, 2, 4} /\ x.t \in {"ub", "f"} /\ x.n \in 0 .. 1
  \/ x.f \in {"ClearTexImage", "ClearTexSubImage"} /\ x \in glClearTexImage \cup glClearTexSubImage
       /\ x.c \in {1, 3, 4} /\ x.t \in {"ub", "us565", "f"} /\ x.n \in 0 .. 1

LEMMA ValueShape == ASSUME NEW x \in Values PROVE ValueShapeOf(x)
BY OfFamily DEF Values, ValueShapeOf, glParameter1, glParameter2, glColorTableParameter, glClearBuffer,
   glClearBufferData, glClearBufferSubData, glClearTexImage, glClearTexSubImage

StringShapeOf(x) ==
  /\ x.n \in Nat \ {0} /\ x.c \in Nat
  /\ \/ x.f = "BindLocation" /\ x.c = 2 /\ x.t = "b"
     \/ x.f = "BindIndexed" /\ x \in glBindFragDataLocationIndexed /\ x.c = 3 /\ x.t = "b"
     \/ x.f = "ProgramString" /\ x.c = 1 /\ x.t = "b"
     \/ x.f = "ProgramNamedParameter" /\ x.c \in {0, 4} /\ x.t \in {"d", "f"}
     \/ x.f = "Varyings" /\ x \in glTransformFeedbackVaryings /\ x.c # 0 /\ x.t = "b"
     \/ x.f = "ShaderSource" /\ x \in glShaderSource /\ x.c # 0 /\ x.t \in {"b", "i"}
     \/ x.f = "ShaderSourceARB" /\ x \in glShaderSourceARB /\ x.c # 0 /\ x.t \in {"b", "i"}

LEMMA StringShape == ASSUME NEW x \in Strings PROVE StringShapeOf(x)
<1>1. /\ \A n \in Counts : n \in Nat \ {0}
      /\ \A n \in Lengths : n \in Nat \ {0}
  BY CallsAssumption
<1> QED
  BY <1>1, OfFamily DEF Strings, StringShapeOf, glBindLocation, glBindFragDataLocationIndexed,
     glProgramString, glProgramNamedParameter, glTransformFeedbackVaryings, glShaderSource, glShaderSourceARB

AskingShapeOf(x) ==
  /\ x.n \in Nat \ {0} /\ x.c \in Nat
  /\ \/ x.f = "AreResident" /\ x \in glAreResident
     \/ x.f = "GetLocation" /\ x.c = 1 /\ x.t = "b"
     \/ x.f = "DebugMessageInsert" /\ x.c = 1 /\ x.t = "b"
     \/ x.f = "Gen" /\ x.c = 1 /\ x.t = "ui"
     \/ x.f = "Getv" /\ x.c \in 1 .. 4 /\ x.t \in {"f", "i", "d", "i64"}
     \/ x.f = "GetBooleanv" /\ x.c = 1 /\ x.t = "ub" /\ x.n \in {1, 4}
     \/ x.f = "GetClipPlane" /\ x.c = 4 /\ x.t = "d" /\ x.n = 1
     \/ x.f = "GetInternalformat" /\ x.c = 1 /\ x.t = "i"
     \/ x.f = "GetActiveUniform" /\ x \in glGetActiveUniform /\ x.t = "b"
     \/ x.f = "GetActiveUniformName" /\ x \in glGetActiveUniformName /\ x.t = "b"
     \/ x.f = "GetAttachedShaders" /\ x.c = 1 /\ x.t = "i"
     \/ x.f = "GetInfoLog" /\ x \in glGetInfoLog /\ x.t = "b"
     \/ x.f = "GetString" /\ x.c = 1 /\ x.t = "i" /\ x.n = 1

LEMMA AskingShape == ASSUME NEW x \in Asking PROVE AskingShapeOf(x)
<1>1. /\ \A n \in Counts : n \in Nat \ {0}
      /\ \A n \in Lengths : n \in Nat \ {0}
  BY CallsAssumption
<1> QED
  BY <1>1, OfFamily DEF Asking, AskingShapeOf, Call, glAreResident, glGetLocation, glDebugMessageInsert,
     glGen, glGetv, glGetBooleanv, glGetClipPlane, glGetInternalformat, glGetActiveUniform,
     glGetActiveUniformName, glGetAttachedShaders, glGetInfoLog, glGetString

PixelShapeOf(x) ==
  /\ x.n \in Nat
  /\ \/ x.f = "TexImage" /\ x \in glTexImage /\ x.c \in 1 .. 3 /\ x.t \in Pixels
     \/ x.f = "TexSubImage" /\ x \in glTexSubImage /\ x.c \in 1 .. 3 /\ x.t \in Pixels /\ x.n # 0
     \/ x.f = "CompressedTexImage" /\ x \in Sends /\ x.c \in 1 .. 3 /\ x.t = "ub" /\ x.n # 0
     \/ x.f = "CompressedTexSubImage" /\ x \in Sends /\ x.c \in 1 .. 3 /\ x.t = "ub" /\ x.n # 0
     \/ x.f = "Bitmap" /\ x \in glBitmap /\ x.c = 2 /\ x.t = "ub"
     \/ x.f = "DrawPixels" /\ x \in glDrawPixels /\ x.c = 2 /\ x.t \in Pixels /\ x.n # 0
     \/ x.f = "PolygonStipple" /\ x \in glPolygonStipple /\ x.c = 2 /\ x.t = "ub" /\ x.n = 32
     \/ x.f = "BufferData" /\ x \in Sends /\ x.c = 1 /\ x.t = "ub"
     \/ x.f = "BufferSubData" /\ x \in Sends /\ x.c = 1 /\ x.t = "ub" /\ x.n # 0
     \/ x.f = "ReadPixels" /\ x \in glReadPixels /\ x.c = 2 /\ x.t \in Pixels /\ x.n # 0
     \/ x.f = "GetTexImage" /\ x \in glGetTexImage /\ x.c = 2 /\ x.t \in Pixels /\ x.n # 0
     \/ x.f = "GetCompressedTexImage" /\ x.c = 2 /\ x.t = "ub" /\ x.n # 0
     \/ x.f = "GetBufferSubData" /\ x \in glGetBufferSubData /\ x.c = 1 /\ x.t = "ub" /\ x.n # 0

LEMMA PixelShape == ASSUME NEW x \in PixelTransfers PROVE PixelShapeOf(x)
<1>1. /\ \A n \in Widths : n \in Nat \ {0}
      /\ \A n \in Sizes : n \in Nat \ {0}
  BY PixelAssumption
<1> QED
  BY <1>1, OfFamily DEF PixelTransfers, FifoPixels, Sends, Reads, PixelShapeOf, glTexImage, glTexSubImage,
     glCompressedTexImage, glCompressedTexSubImage, glBitmap, glDrawPixels, glPolygonStipple, glBufferData,
     glBufferSubData, glReadPixels, glGetTexImage, glGetCompressedTexImage, glGetBufferSubData

SettingShapeOf(x) ==
  \/ x.f = "PixelStorei" /\ x \in glPixelStorei /\ x.t \in {"unpackWidth", "unpackHeight", "packWidth"}
       /\ x.n \in RowLengths
  \/ x.f = "PixelStoref" /\ x \in glPixelStoref /\ x.t \in {"unpackWidth", "packWidth"} /\ x.n \in RowLengths
  \/ x.f = "BindBuffer" /\ x.t \in {"unpack", "pack"} /\ x.n \in 0 .. 1
  \/ x.f = "DeleteBuffers" /\ x.c = 1 /\ x.t = "ui" /\ x.n = 1

LEMMA SettingShape == ASSUME NEW x \in Settings PROVE SettingShapeOf(x)
BY OfFamily DEF Settings, SettingShapeOf, glPixelStorei, glPixelStoref, glBindPixelBuffer, glDeletePixelBuffer

ArrayNames ==
  {"VertexAttribs", "Uniform", "UniformMatrix", "LoadMatrix", "ClipPlane", "Indexed", "ProgramParameter",
   "ProgramParameters", "Rect", "Delete", "Bind", "PrioritizeTextures", "RequestResident", "AreResident",
   "CallLists", "Weight", "PixelMap", "ColorTable", "Map1", "Map2", "DrawIndirect"}
ClearNames == {"ClearBufferData", "ClearBufferSubData", "ClearTexImage", "ClearTexSubImage"}
ValueNames == {"Parameter1", "Parameter2", "ColorTableParameter", "ClearBuffer"} \cup ClearNames
StringNames ==
  {"BindLocation", "BindIndexed", "ProgramString", "ProgramNamedParameter", "Varyings", "ShaderSource",
   "ShaderSourceARB"}
AskingNames ==
  {"AreResident", "GetLocation", "DebugMessageInsert", "Gen", "Getv", "GetBooleanv", "GetClipPlane",
   "GetInternalformat", "GetActiveUniform", "GetActiveUniformName", "GetAttachedShaders", "GetInfoLog",
   "GetString"}
SendNames ==
  {"TexImage", "TexSubImage", "CompressedTexImage", "CompressedTexSubImage", "Bitmap", "BufferData",
   "BufferSubData"}
ReadNames == {"ReadPixels", "GetTexImage", "GetCompressedTexImage", "GetBufferSubData"}
PixelNames == SendNames \cup ReadNames \cup {"DrawPixels", "PolygonStipple"}
SettingNames == {"PixelStorei", "PixelStoref", "BindBuffer", "DeleteBuffers"}

\* The names of a kind tell it from the others.
LEMMA KindNames ==
  /\ VectorFunctions \subseteq VectorNames
  /\ ArrayFunctions \subseteq ArrayNames
  /\ ValueFunctions \subseteq ValueNames
  /\ ClearFunctions \subseteq ClearNames
  /\ AskingFunctions \subseteq AskingNames
  /\ PixelFunctions \subseteq PixelNames
  /\ SettingFunctions \subseteq SettingNames
<1>1. VectorFunctions \subseteq VectorNames
  BY KindOf, VectorShape DEF VectorFunctions
<1>2. ArrayFunctions \subseteq ArrayNames
  BY KindOf, ArrayShape DEF ArrayFunctions, ArrayShapeOf, ArrayNames
<1>3. ValueFunctions \subseteq ValueNames
  BY KindOf, ValueShape DEF ValueFunctions, ValueShapeOf, ValueNames, ClearNames
<1>4. ClearFunctions \subseteq ClearNames
  BY KindOf, OfFamily DEF ClearFunctions, ClearNames, glClearBufferData, glClearBufferSubData,
     glClearTexImage, glClearTexSubImage
<1>5. AskingFunctions \subseteq AskingNames
  BY KindOf, AskingShape DEF AskingFunctions, AskingShapeOf, AskingNames
<1>6. PixelFunctions \subseteq PixelNames
  BY KindOf, PixelShape DEF PixelFunctions, PixelShapeOf, PixelNames, SendNames, ReadNames
<1>7. SettingFunctions \subseteq SettingNames
  BY KindOf, SettingShape DEF SettingFunctions, SettingShapeOf, SettingNames
<1> QED BY <1>1, <1>2, <1>3, <1>4, <1>5, <1>6, <1>7

\* Sends and reads, too.
LEMMA TransferNames ==
  /\ SendFunctions \subseteq SendNames
  /\ ReadFunctions \subseteq ReadNames
<1>1. SendFunctions \subseteq SendNames
  BY KindOf, OfFamily DEF SendFunctions, SendNames, Sends, glTexImage, glTexSubImage, glCompressedTexImage,
     glCompressedTexSubImage, glBitmap, glBufferData, glBufferSubData
<1>2. ReadFunctions \subseteq ReadNames
  BY KindOf, OfFamily DEF ReadFunctions, ReadNames, Reads, glReadPixels, glGetTexImage,
     glGetCompressedTexImage, glGetBufferSubData
<1> QED BY <1>1, <1>2

-----------------------------------------------------------------------------
(* ---- What guest and host do with each kind. ----------------------------- *)

LEMMA VectorCalls ==
  ASSUME NEW x \in Vectors, NEW g
  PROVE  Chunks(x, g) = VectorChunks(x) /\ processArgs(x, g) = HostVector(x) /\ x.f \in VectorFunctions
<1>1. x.f \in VectorFunctions
  BY OfKind DEF VectorFunctions
<1>2. x.f \in VectorNames
  BY VectorShape
<1>3. Chunks(x, g) = VectorChunks(x)
  BY <1>1, <1>2, KindNames DEF Chunks, VectorNames, ArrayNames, ValueNames, ClearNames, PixelNames,
     SendNames, ReadNames
<1>4. processArgs(x, g) = HostVector(x)
  BY <1>1, <1>2, KindNames DEF processArgs, VectorNames, ArrayNames, ClearNames, PixelNames, SendNames, ReadNames
<1> QED BY <1>1, <1>3, <1>4

LEMMA ArrayCalls ==
  ASSUME NEW x \in Arrays \cup glAreResident, NEW g
  PROVE  /\ x.f \in ArrayFunctions /\ x.f \notin VectorFunctions
         /\ Chunks(x, g) = ArrayChunks(x)
         /\ processArgs(x, g) = IF x.f \in {"Uniform", "UniformMatrix"} THEN HostUniform(x)
                                ELSE IF x.f = "Rect" THEN HostRect(x)
                                ELSE IF x.f \in {"Map1", "Map2"} THEN HostMap(x)
                                ELSE HostArray(x)
<1>1. x.f \in ArrayFunctions
  BY OfKind DEF ArrayFunctions
<1>2. x.f \in ArrayNames
  BY <1>1, KindNames
<1>3. x.f \notin VectorFunctions
  BY <1>2, KindNames DEF VectorNames, ArrayNames
<1>4. Chunks(x, g) = ArrayChunks(x)
  BY <1>1, <1>2, <1>3, KindNames DEF Chunks, ArrayNames, ValueNames, ClearNames, PixelNames, SendNames, ReadNames
<1>5. /\ x.f \in {"Uniform", "UniformMatrix"} => processArgs(x, g) = HostUniform(x)
      /\ x.f = "Rect" => processArgs(x, g) = HostRect(x)
      /\ x.f \in {"Map1", "Map2"} => processArgs(x, g) = HostMap(x)
  BY <1>2, <1>3, KindNames DEF processArgs, ArrayNames, ClearNames, PixelNames, SendNames, ReadNames
<1>6. x.f \notin {"Uniform", "UniformMatrix", "Rect", "Map1", "Map2"} => processArgs(x, g) = HostArray(x)
  BY <1>1, <1>2, <1>3, KindNames DEF processArgs, ArrayNames, ClearNames, PixelNames, SendNames, ReadNames
<1> QED BY <1>1, <1>3, <1>4, <1>5, <1>6

LEMMA ValueCalls ==
  ASSUME NEW x \in Values, NEW g
  PROVE  /\ x.f \in ValueFunctions /\ x.f \notin VectorFunctions \cup ArrayFunctions
         /\ x.f \in ClearNames => x.f \in ClearFunctions
         /\ Chunks(x, g) = ValueChunks(x)
         /\ processArgs(x, g) = IF x.f \in ClearNames THEN HostClearData(x)
                                ELSE IF x.f = "ClearBuffer" THEN HostClearBuffer(x)
                                ELSE HostParameter(x)
<1>1. x.f \in ValueFunctions
  BY OfKind DEF ValueFunctions
<1>2. x.f \in ValueNames
  BY <1>1, KindNames
<1>3. x.f \notin VectorFunctions \cup ArrayFunctions
  BY <1>2, KindNames DEF VectorNames, ArrayNames, ValueNames, ClearNames
<1>4. x.f \in ClearNames => x.f \in ClearFunctions
  <2>1. x.f \in ClearNames => x \in glClearBufferData \cup glClearBufferSubData \cup glClearTexImage \cup glClearTexSubImage
    BY ValueShape DEF ValueShapeOf, ClearNames
  <2> QED BY <2>1, OfKind DEF ClearFunctions
<1>5. Chunks(x, g) = ValueChunks(x)
  BY <1>1, <1>2, <1>3, KindNames DEF Chunks, ValueNames, ClearNames, PixelNames, SendNames, ReadNames
<1>6. x.f \in ClearNames => processArgs(x, g) = HostClearData(x)
  BY <1>2, <1>3, <1>4, KindNames DEF processArgs, ValueNames, ClearNames, PixelNames, SendNames, ReadNames
<1>7. x.f \notin ClearNames =>
        processArgs(x, g) = IF x.f = "ClearBuffer" THEN HostClearBuffer(x) ELSE HostParameter(x)
  BY <1>2, <1>3, KindNames DEF processArgs, ValueNames, ClearNames, PixelNames, SendNames, ReadNames
<1> QED BY <1>1, <1>3, <1>4, <1>5, <1>6, <1>7

LEMMA StringCalls ==
  ASSUME NEW x \in Strings, NEW g
  PROVE  /\ x.f \notin VectorFunctions \cup ArrayFunctions \cup ValueFunctions \cup ClearFunctions \cup PixelFunctions
         /\ Chunks(x, g) = CASE x.f = "BindLocation" -> NameChunks(x)
                             [] x.f = "BindIndexed" -> IndexedNameChunks(x)
                             [] x.f \in {"ProgramString", "ProgramNamedParameter"} -> ProgramChunks(x)
                             [] x.f = "Varyings" -> VaryingsChunks(x)
                             [] OTHER -> ShaderSourceChunks(x)
         /\ processArgs(x, g) = CASE x.f \in {"BindLocation", "BindIndexed"} -> HostName(x)
                                  [] x.f \in {"ProgramString", "ProgramNamedParameter"} -> HostProgram(x)
                                  [] x.f = "Varyings" -> HostVaryings(x)
                                  [] OTHER -> HostShaderSource(x)
<1>1. x.f \in StringNames
  BY StringShape DEF StringShapeOf, StringNames
<1>2. x.f \notin VectorFunctions \cup ArrayFunctions \cup ValueFunctions \cup ClearFunctions \cup PixelFunctions
  BY <1>1, KindNames DEF VectorNames, ArrayNames, ValueNames, ClearNames, PixelNames, SendNames, ReadNames,
     StringNames
<1>3. Chunks(x, g) = CASE x.f = "BindLocation" -> NameChunks(x)
                             [] x.f = "BindIndexed" -> IndexedNameChunks(x)
                             [] x.f \in {"ProgramString", "ProgramNamedParameter"} -> ProgramChunks(x)
                             [] x.f = "Varyings" -> VaryingsChunks(x)
                             [] OTHER -> ShaderSourceChunks(x)
  BY <1>1, <1>2 DEF Chunks, StringNames
<1>4. processArgs(x, g) = CASE x.f \in {"BindLocation", "BindIndexed"} -> HostName(x)
                                  [] x.f \in {"ProgramString", "ProgramNamedParameter"} -> HostProgram(x)
                                  [] x.f = "Varyings" -> HostVaryings(x)
                                  [] OTHER -> HostShaderSource(x)
  BY <1>1, <1>2 DEF processArgs, StringNames
<1> QED BY <1>2, <1>3, <1>4

LEMMA AskingCalls ==
  ASSUME NEW x \in Asking \ glAreResident, NEW g
  PROVE  /\ x.f \notin VectorFunctions \cup ArrayFunctions \cup ValueFunctions \cup ClearFunctions \cup PixelFunctions
         /\ Chunks(x, g) = CASE x.f = "GetLocation" -> NameChunks(x)
                             [] x.f = "DebugMessageInsert" -> <<Chunk(Own, x.n)>>
                             [] x.f = "GetString" -> <<Chunk(Own, 4)>>
                             [] OTHER -> <<>>
         /\ processArgs(x, g) = IF x.f = "GetLocation" THEN HostName(x) ELSE HostAnswer(x)
<1>1. x.f \in AskingNames \ {"AreResident"}
  BY AskingShape, OfFamily DEF AskingShapeOf, AskingNames, Asking, glAreResident, glGetLocation, glDebugMessageInsert,
     glGen, glGetv, glGetBooleanv, glGetClipPlane, glGetInternalformat, glGetActiveUniform,
     glGetActiveUniformName, glGetAttachedShaders, glGetInfoLog, glGetString, Call
<1>2. x.f \notin VectorFunctions \cup ArrayFunctions \cup ValueFunctions \cup ClearFunctions \cup PixelFunctions
  BY <1>1, KindNames DEF VectorNames, ArrayNames, ValueNames, ClearNames, PixelNames, SendNames, ReadNames,
     AskingNames
<1>3. Chunks(x, g) = CASE x.f = "GetLocation" -> NameChunks(x)
                             [] x.f = "DebugMessageInsert" -> <<Chunk(Own, x.n)>>
                             [] x.f = "GetString" -> <<Chunk(Own, 4)>>
                             [] OTHER -> <<>>
  BY <1>1, <1>2 DEF Chunks, AskingNames
<1>4. processArgs(x, g) = IF x.f = "GetLocation" THEN HostName(x) ELSE HostAnswer(x)
  BY <1>1, <1>2 DEF processArgs, AskingNames
<1> QED BY <1>2, <1>3, <1>4

LEMMA PixelCallsOf ==
  ASSUME NEW x \in PixelTransfers, NEW g
  PROVE  /\ x.f \in PixelFunctions
         /\ x.f \notin VectorFunctions \cup ArrayFunctions \cup ValueFunctions \cup ClearFunctions
         /\ Chunks(x, g) = PixelChunks(x, g) /\ processArgs(x, g) = HostPixels(x, g)
<1>1. x.f \in PixelFunctions
  BY OfKind DEF PixelFunctions
<1>2. x.f \in PixelNames
  BY <1>1, KindNames
<1>3. x.f \notin VectorFunctions \cup ArrayFunctions \cup ValueFunctions \cup ClearFunctions
  BY <1>2, KindNames DEF VectorNames, ArrayNames, ValueNames, ClearNames, PixelNames, SendNames, ReadNames
<1>4. Chunks(x, g) = PixelChunks(x, g)
  BY <1>1, <1>2, <1>3 DEF Chunks, PixelNames, SendNames, ReadNames
<1>5. processArgs(x, g) = HostPixels(x, g)
  BY <1>1, <1>2, <1>3 DEF processArgs, PixelNames, SendNames, ReadNames
<1> QED BY <1>1, <1>3, <1>4, <1>5

\* What changes a record has its data with it only when it deletes buffers.
LEMMA SettingCalls ==
  ASSUME NEW x, x \in Settings \/ x = Flush, NEW g
  PROVE  /\ x.f \notin VectorFunctions \cup ArrayFunctions \cup ValueFunctions \cup ClearFunctions
                         \cup PixelFunctions \cup AskingFunctions
         /\ Chunks(x, g) = IF x.f = "DeleteBuffers" THEN <<Chunk(1, x.n * 4)>> ELSE <<>>
         /\ processArgs(x, g) = IF x.f = "DeleteBuffers" THEN Args(ALIGNED(x.n * 4), At({1}, Data(0))) ELSE Nothing
<1>1. x.f \in SettingNames \cup {"Flush"}
  BY SettingShape DEF SettingShapeOf, SettingNames, Flush, Call
<1>2. x.f \notin VectorFunctions \cup ArrayFunctions \cup ValueFunctions \cup ClearFunctions
               \cup PixelFunctions \cup AskingFunctions
  BY <1>1, KindNames DEF VectorNames, ArrayNames, ValueNames, ClearNames, PixelNames, SendNames, ReadNames,
     SettingNames, AskingNames
<1>3. Chunks(x, g) = IF x.f = "DeleteBuffers" THEN <<Chunk(1, x.n * 4)>> ELSE <<>>
  BY <1>1, <1>2 DEF Chunks, SettingNames
<1>4. processArgs(x, g) = IF x.f = "DeleteBuffers" THEN Args(ALIGNED(x.n * 4), At({1}, Data(0))) ELSE HostAnswer(x)
  BY <1>1, <1>2 DEF processArgs, SettingNames
<1>5. x.f # "DeleteBuffers" => HostAnswer(x) = Nothing
  BY <1>1 DEF HostAnswer, SettingNames
<1> QED BY <1>2, <1>3, <1>4, <1>5

-----------------------------------------------------------------------------
(* ---- The bytes of each call: what the guest sends is what the host takes. *)

InStepCall(x, g) ==
  LET s == Chunks(x, g)
      cb == processArgs(x, g).cb
  IN  Sized(s) /\ cb \in Nat /\ \A at : Even(at) => PlacedAt(at, s, Len(s)) = at + Words(cb)

\* A call without data, and one with a single chunk.
LEMMA NoneInStep ==
  ASSUME NEW x, NEW g, Chunks(x, g) = <<>>, processArgs(x, g).cb = 0 PROVE InStepCall(x, g)
<1>1. Words(0) = 0
  BY DEF Words
<1>2. Sized(<<>>)
  BY DEF Sized
<1>3. \A at : Even(at) => PlacedAt(at, <<>>, Len(<<>>)) = at + Words(0)
  BY <1>1, PlacedNone DEF Even
<1> QED BY <1>2, <1>3 DEF InStepCall

LEMMA OneInStep ==
  ASSUME NEW x, NEW g, NEW a, NEW cb \in Nat, Chunks(x, g) = <<Chunk(a, cb)>>,
         processArgs(x, g).cb = ALIGNED(cb)
  PROVE  InStepCall(x, g)
<1> DEFINE s == Chunks(x, g)
           hcb == processArgs(x, g).cb
<1>1. s = <<Chunk(a, cb)>> /\ hcb = ALIGNED(cb)
  OBVIOUS
<1>2. Len(s) = 1 /\ s[1].cb = cb
  BY DEF Chunk
<1>3. Sized(s)
  BY <1>2 DEF Sized
<1>4. hcb \in Nat /\ Words(hcb) = Taken(cb)
  BY AlignedNat DEF Taken
<1> HIDE DEF s, hcb
<1>5. \A at : Even(at) => PlacedAt(at, s, Len(s)) = at + Words(hcb)
  BY <1>1, <1>2, <1>4, PlacedOne
<1> QED BY <1>3, <1>4, <1>5 DEF InStepCall, s, hcb

LEMMA TwoInStep ==
  ASSUME NEW x, NEW g, NEW a, NEW cb \in Nat, NEW b, NEW db \in Nat,
         Chunks(x, g) = <<Chunk(a, cb), Chunk(b, db)>>,
         processArgs(x, g).cb = ALIGNED(cb) + ALIGNED(db)
  PROVE  InStepCall(x, g)
<1> DEFINE s == Chunks(x, g)
           hcb == processArgs(x, g).cb
<1>1. s = <<Chunk(a, cb), Chunk(b, db)>> /\ hcb = ALIGNED(cb) + ALIGNED(db)
  OBVIOUS
<1>2. Len(s) = 2 /\ s[1].cb = cb /\ s[2].cb = db
  BY DEF Chunk
<1>3. Sized(s)
  BY <1>2 DEF Sized
<1>4. hcb \in Nat /\ Words(hcb) = Taken(cb) + Taken(db)
  <2>1. hcb = 4 * (Taken(cb) + Taken(db)) /\ Taken(cb) + Taken(db) \in Nat
    BY <1>1, TakenNat
  <2> HIDE DEF hcb
  <2> QED BY <2>1, WordsOf
<1> HIDE DEF s, hcb
<1>5. ASSUME NEW at, Even(at) PROVE PlacedAt(at, s, Len(s)) = at + Words(hcb)
  <2>1. PlacedAt(at, s, 2) = at + Taken(cb) + Taken(db)
    BY <1>1, <1>5, PlacedTwo
  <2>2. at \in Nat /\ Taken(cb) \in Nat /\ Taken(db) \in Nat
    BY <1>5, TakenNat DEF Even
  <2> QED BY <1>2, <1>4, <2>1, <2>2
<1> QED BY <1>3, <1>4, <1>5 DEF InStepCall, s, hcb

\* Rounding up twice is rounding up once.
LEMMA AlignedTwice == ASSUME NEW cb \in Nat PROVE ALIGNED(ALIGNED(cb)) = ALIGNED(cb)
BY AlignedFacts, Eights

LEMMA Sizes8 == ASSUME NEW t PROVE SizeOf(t) \in {1, 2, 4, 8}
BY DEF SizeOf

LEMMA VectorsInStep ==
  ASSUME NEW x \in Vectors, x \notin OutOfStep, NEW g PROVE InStepCall(x, g)
<1>1. /\ x.c \in 1 .. 4 /\ x.t \in Signed \cup Unsigned /\ x.n \in 0 .. 1
      /\ x.n = 1 => ~(x.f = "TexCoord" /\ x.c = 1)
  BY VectorShape DEF OutOfStep
<1>2. CASE x.n = 0
  <2>1. Chunks(x, g) = <<>> /\ processArgs(x, g).cb = 0
    BY <1>2, VectorCalls DEF VectorChunks, HostVector, Args, Nothing
  <2> QED BY <2>1, NoneInStep
<1>3. CASE x.n = 1
  <2> DEFINE b == x.c * SizeOf(x.t)
  <2>1. b \in {1, 2, 3, 4, 6, 8, 12, 16, 24, 32} /\ (x.t # "d" => b <= 16) /\ (x.t = "d" => b = x.c * 8)
        /\ (x.t # "d" /\ 8 < b => b \in {12, 16} /\ (b = 12 <=> x.c = 3))
    BY <1>1 DEF SizeOf, Signed, Unsigned
  <2>2. Chunks(x, g) = <<Chunk(VectorArg(x.f), ALIGNED(b))>>
    BY <1>3, VectorCalls DEF VectorChunks
  <2>3. processArgs(x, g).cb \in {ALIGNED(b)}
    <3>1. CASE x.f = "Index" /\ x.t = "ub"
      <4>1. b <= 8
        BY <1>1, <3>1, <2>1 DEF SizeOf
      <4>2. processArgs(x, g).cb = ALIGNED(1)
        BY <1>1, <1>3, <3>1, VectorCalls DEF HostVector, Args
      <4> QED BY <2>1, <4>1, <4>2 DEF ALIGNED
    <3>2. CASE ~(x.f = "Index" /\ x.t = "ub")
      <4>1. processArgs(x, g).cb = IF b <= 8 THEN ALIGNED(1)
                                   ELSE IF x.t = "d" THEN x.c * 8
                                   ELSE IF x.c = 3 THEN ALIGNED(3 * 4) ELSE 4 * 4
        BY <1>1, <1>3, <3>2, VectorCalls DEF HostVector, Args
      <4> HIDE DEF b
      <4> QED BY <1>1, <2>1, <4>1 DEF ALIGNED
    <3> QED BY <3>1, <3>2
  <2>4. ALIGNED(b) \in Nat /\ ALIGNED(ALIGNED(b)) = ALIGNED(b)
    <3> HIDE DEF b
    <3> QED BY <2>1, AlignedNat, AlignedTwice
  <2> HIDE DEF b
  <2> QED BY <2>2, <2>3, <2>4, OneInStep
<1> QED BY <1>1, <1>2, <1>3

\* The wrapper may round up or leave it to fifoAddData.
LEMMA RoundedInStep ==
  ASSUME NEW x, NEW g, NEW a, NEW b \in Nat, NEW cb \in {b, ALIGNED(b)}, Chunks(x, g) = <<Chunk(a, cb)>>,
         processArgs(x, g).cb = ALIGNED(b)
  PROVE  InStepCall(x, g)
<1>1. cb \in Nat /\ ALIGNED(cb) = ALIGNED(b)
  BY AlignedNat, AlignedTwice
<1> QED BY <1>1, OneInStep

LEMMA AlignedEight == ASSUME NEW q \in Nat PROVE ALIGNED(8 * q) = 8 * q
BY Eights

\* What the host takes for an array.
LEMMA HostArrayBytes ==
  ASSUME NEW x \in Arrays \cup glAreResident, x \notin OutOfStep, NEW g,
         x.f \notin {"Rect", "PrioritizeTextures"}
  PROVE  processArgs(x, g).cb = ALIGNED(ArrayBytes(x)) /\ ArrayBytes(x) \in Nat
<1> DEFINE b == ArrayBytes(x)
           sz == SizeOf(x.t)
<1>0. /\ ArrayShapeOf(x) /\ x.f # "VertexAttribs" /\ x.f # "RequestResident"
      /\ x.n \in Nat /\ x.c \in Nat
  BY ArrayShape DEF ArrayShapeOf, OutOfStep
<1>1. sz \in {1, 2, 4, 8} /\ (x.t \in {"d", "i64"} <=> sz = 8)
      /\ (x.t \in {"f", "i", "ui"} => sz = 4)
  BY DEF SizeOf
<1>2. x.t # "us565" => b = x.n * (x.c * sz)
  BY DEF ArrayBytes, szgldata
<1>3. b \in Nat
  BY <1>0, <1>1 DEF ArrayBytes, szgldata
<1>4. CASE x.f \in {"Uniform", "UniformMatrix"}
  <2>1. /\ x.c \in {1, 2, 3, 4, 6, 8, 9, 12, 16} /\ x.t \in {"d", "f", "i", "ui"}
    BY <1>0, <1>4 DEF ArrayShapeOf
  <2>2. processArgs(x, g).cb = IF x.t # "d" /\ x.c \in {1, 3, 9} THEN ALIGNED(x.c * x.n * sz) ELSE x.c * x.n * sz
    BY <1>4, ArrayCalls DEF HostUniform, Args
  <2>3. x.c * x.n * sz = b
    BY <1>0, <1>1, <1>2, <2>1
  <2>4. x.t = "d" \/ x.c \notin {1, 3, 9} => \E q \in Nat : b = 8 * q
    <3>1. CASE x.t = "d"
      <4>1. b = 8 * (x.n * x.c)
        BY <1>0, <1>1, <1>2, <3>1
      <4> QED BY <4>1, <1>0
    <3>2. CASE x.t # "d" /\ x.c \notin {1, 3, 9}
      <4>1. PICK h \in Nat : x.c = 2 * h
        <5>1. x.c \in {2, 4, 6, 8, 12, 16}
          BY <2>1, <3>2
        <5>2. x.c = 2 * 1 \/ x.c = 2 * 2 \/ x.c = 2 * 3 \/ x.c = 2 * 4 \/ x.c = 2 * 6 \/ x.c = 2 * 8
          BY <5>1
        <5> QED BY <5>2
      <4>2. sz = 4
        BY <2>1, <3>2, <1>1
      <4>3. b = 8 * (x.n * h) /\ x.n * h \in Nat
        BY <1>0, <1>2, <2>1, <4>1, <4>2
      <4> QED BY <4>3
    <3> QED BY <3>1, <3>2
  <2> HIDE DEF b, sz
  <2> QED BY <2>2, <2>3, <2>4, <1>3, AlignedEight DEF b
<1>5. CASE x.f \in {"Map1", "Map2"}
  <2>1. x.t \in {"d", "f"}
    BY <1>0, <1>5 DEF ArrayShapeOf
  <2>2. processArgs(x, g).cb = IF x.t = "d" THEN x.c * x.n * sz ELSE ALIGNED(x.c * x.n * sz)
    BY <1>5, ArrayCalls DEF HostMap, Args
  <2>3. x.c * x.n * sz = b
    BY <1>0, <1>1, <1>2, <2>1
  <2>4. x.t = "d" => b = 8 * (x.n * x.c) /\ x.n * x.c \in Nat
    BY <1>0, <1>1, <1>2
  <2> HIDE DEF b, sz
  <2> QED BY <2>2, <2>3, <2>4, <1>3, AlignedEight DEF b
<1>6. CASE x.f \notin {"Uniform", "UniformMatrix", "Map1", "Map2"}
  <2>0. processArgs(x, g) = HostArray(x)
    BY <1>6, ArrayCalls
  <2>1. CASE x.f \in {"LoadMatrix", "ClipPlane", "Indexed", "ProgramParameter", "ProgramParameters"}
    <3>1. /\ x.f = "LoadMatrix" => HostArray(x).cb = 16 * sz
          /\ x.f = "ClipPlane" => HostArray(x).cb = 4 * 8
          /\ x.f = "Indexed" => HostArray(x).cb = 4 * 4
          /\ x.f = "ProgramParameter" => HostArray(x).cb = 4 * sz
          /\ x.f = "ProgramParameters" => HostArray(x).cb = 4 * x.n * sz
      BY <2>1 DEF HostArray, Args
    <3>2. /\ x.f = "LoadMatrix" => b = 16 * sz /\ sz \in {4, 8}
          /\ x.f = "ClipPlane" => b = 4 * 8
          /\ x.f = "Indexed" => b = 4 * 4
          /\ x.f = "ProgramParameter" => b = 4 * sz /\ sz \in {4, 8}
          /\ x.f = "ProgramParameters" => b = 4 * x.n * sz /\ sz \in {4, 8}
      <4>1. /\ x.t # "us565" /\ sz \in {4, 8}
            /\ x.f = "LoadMatrix" => x.c = 16 /\ x.n = 1
            /\ x.f = "ClipPlane" => x.c = 4 /\ x.n = 1 /\ sz = 8
            /\ x.f = "Indexed" => x.c = 4 /\ x.n = 1 /\ sz = 4
            /\ x.f = "ProgramParameter" => x.c = 4 /\ x.n = 1
            /\ x.f = "ProgramParameters" => x.c = 4
        BY <1>0, <1>1, <2>1 DEF ArrayShapeOf
      <4> HIDE DEF b, sz
      <4> QED BY <4>1, <1>0, <1>2
    <3>3. \E q \in Nat : b = 8 * q
      <4>1. PICK h \in Nat : (sz = 4 * h /\ h \in {1, 2}) \/ sz \notin {4, 8}
        <5>1. (sz = 4 * 1 \/ sz = 4 * 2) \/ sz \notin {4, 8}
          BY <1>1
        <5> QED BY <5>1
      <4> HIDE DEF b, sz
      <4>2. x.f = "LoadMatrix" => b = 8 * (8 * h)
        BY <3>2, <4>1
      <4>3. x.f = "ClipPlane" => b = 8 * 4
        BY <3>2
      <4>4. x.f = "Indexed" => b = 8 * 2
        BY <3>2
      <4>5. x.f = "ProgramParameter" => b = 8 * (2 * h)
        BY <3>2, <4>1
      <4>6. x.f = "ProgramParameters" => b = 8 * (2 * (x.n * h)) /\ x.n * h \in Nat
        BY <3>2, <4>1, <1>0
      <4>7. 8 * h \in Nat /\ 2 * h \in Nat /\ (x.n * h \in Nat => 2 * (x.n * h) \in Nat)
        OBVIOUS
      <4> QED BY <2>1, <4>2, <4>3, <4>4, <4>5, <4>6, <4>7
    <3> HIDE DEF b, sz
    <3> QED BY <2>0, <2>1, <3>1, <3>2, <3>3, <1>3, AlignedEight DEF b
  <2>2. CASE x.f \in {"Delete", "Bind", "AreResident"}
    <3>1. HostArray(x).cb = ALIGNED(x.n * 4)
      BY <2>2 DEF HostArray, Args
    <3>2. b = x.n * 4
      BY <1>0, <1>1, <1>2, <2>2 DEF ArrayShapeOf
    <3> QED BY <2>0, <3>1, <3>2, <1>3
  <2>3. CASE x.f \in {"CallLists", "PixelMap", "Weight"}
    <3>1. HostArray(x).cb = IF x.f = "Weight" /\ x.t = "d" THEN x.n * 8 ELSE ALIGNED(x.n * sz)
      BY <2>3 DEF HostArray, Args
    <3>2. b = x.n * sz /\ (x.t = "d" => b = 8 * x.n)
      BY <1>0, <1>1, <1>2, <2>3 DEF ArrayShapeOf, Signed, Unsigned
    <3>3. x.t = "d" => ALIGNED(b) = x.n * 8
      BY <3>2, <1>0, AlignedEight
    <3> HIDE DEF b, sz
    <3> QED BY <2>0, <3>1, <3>2, <3>3, <1>3 DEF b
  <2>4. CASE x.f = "ColorTable"
    <3>1. HostArray(x).cb = ALIGNED(x.n * szgldata(x.c, x.t))
      BY <2>4 DEF HostArray, Args
    <3> QED BY <2>0, <3>1, <1>3 DEF ArrayBytes
  <2>5. CASE x.f = "DrawIndirect"
    <3>1. HostArray(x).cb = ALIGNED(x.c * 4)
      BY <2>5 DEF HostArray, Args
    <3>2. b = x.c * 4
      BY <1>0, <1>1, <1>2, <2>5 DEF ArrayShapeOf
    <3> QED BY <2>0, <3>1, <3>2, <1>3
  <2> QED BY <1>0, <1>6, <2>1, <2>2, <2>3, <2>4, <2>5 DEF ArrayShapeOf
<1> QED BY <1>4, <1>5, <1>6

LEMMA ArraysInStep ==
  ASSUME NEW x \in Arrays \cup glAreResident, x \notin OutOfStep, NEW g PROVE InStepCall(x, g)
<1>1. CASE x.f = "Rect"
  <2> DEFINE sz == SizeOf(x.t)
  <2>1. Chunks(x, g) = <<Chunk(0, ALIGNED(sz)), Chunk(1, ALIGNED(sz))>>
    BY <1>1, ArrayCalls DEF ArrayChunks
  <2>2. sz \in {1, 2, 4, 8} /\ (x.t = "d" => sz = 8)
    BY DEF SizeOf
  <2>3. processArgs(x, g).cb = 2 * (IF x.t = "d" THEN 8 ELSE ALIGNED(sz))
    BY <1>1, ArrayCalls DEF HostRect, Args
  <2>4. ALIGNED(sz) = 8
    BY <2>2 DEF ALIGNED
  <2> HIDE DEF sz
  <2>5. Chunks(x, g) = <<Chunk(0, 8), Chunk(1, 8)>> /\ processArgs(x, g).cb = ALIGNED(8) + ALIGNED(8)
    BY <2>1, <2>3, <2>4 DEF ALIGNED
  <2> QED BY <2>5, TwoInStep
<1>2. CASE x.f = "PrioritizeTextures"
  <2>0. x.n \in Nat
    BY ArrayShape DEF ArrayShapeOf
  <2> DEFINE b == ALIGNED(x.n * 4)
  <2>1. Chunks(x, g) = <<Chunk(1, b), Chunk(2, b)>>
    BY <1>2, ArrayCalls DEF ArrayChunks
  <2>2. processArgs(x, g).cb = 2 * b
    BY <1>2, ArrayCalls DEF HostArray, Args
  <2>3. b \in Nat /\ ALIGNED(b) = b
    BY <2>0, AlignedNat, AlignedTwice
  <2> HIDE DEF b
  <2>4. processArgs(x, g).cb = ALIGNED(b) + ALIGNED(b)
    BY <2>2, <2>3
  <2> QED BY <2>1, <2>3, <2>4, TwoInStep
<1>3. CASE x.f \notin {"Rect", "PrioritizeTextures"}
  <2> DEFINE b == ArrayBytes(x)
             cb == IF x.f \in RoundedArrays /\ x.t # "d" THEN ALIGNED(b) ELSE b
  <2>1. Chunks(x, g) = <<Chunk(ArrayArg(x), cb)>>
    BY <1>3, ArrayCalls DEF ArrayChunks
  <2>2. processArgs(x, g).cb = ALIGNED(b) /\ b \in Nat
    BY <1>3, HostArrayBytes
  <2>3. cb \in {b, ALIGNED(b)}
    OBVIOUS
  <2> HIDE DEF b, cb
  <2> QED BY <2>1, <2>2, <2>3, RoundedInStep
<1> QED BY <1>1, <1>2, <1>3

LEMMA ValuesInStep ==
  ASSUME NEW x \in Values, x \notin OutOfStep, NEW g PROVE InStepCall(x, g)
<1> DEFINE sz == SizeOf(x.t)
<1>0. ValueShapeOf(x) /\ x.f # "ColorTableParameter" /\ (x.f = "ClearBuffer" => x.c # 1)
  BY ValueShape DEF ValueShapeOf, OutOfStep
<1>1. sz \in {1, 2, 4, 8}
  BY Sizes8
<1>2. CASE x.f \in {"Parameter1", "Parameter2"}
  <2> DEFINE b == x.n * sz
  <2>1. Chunks(x, g) = <<Chunk(ParameterArg(x.f), ALIGNED(b))>>
    <3>1. ValueChunks(x) = <<Chunk(ParameterArg(x.f), ALIGNED(b))>>
      BY <1>0, <1>2 DEF ValueChunks, ValueShapeOf
    <3> QED BY <3>1, ValueCalls
  <2>2. processArgs(x, g).cb = ALIGNED(b)
    <3>1. processArgs(x, g) = HostParameter(x)
      BY <1>2, ValueCalls DEF ClearNames
    <3> QED BY <1>2, <3>1 DEF HostParameter, Args
  <2>3. b \in Nat
    BY <1>0, <1>1, <1>2 DEF ValueShapeOf
  <2> HIDE DEF b
  <2>4. ALIGNED(b) \in Nat /\ ALIGNED(ALIGNED(b)) = ALIGNED(b)
    BY <2>3, AlignedNat, AlignedTwice
  <2> QED BY <2>1, <2>2, <2>4, OneInStep
<1>3. CASE x.f = "ClearBuffer"
  <2>1. x.c = 4
    BY <1>0, <1>3 DEF ValueShapeOf
  <2>2. Chunks(x, g) = <<Chunk(2, 16)>>
    <3>1. ValueChunks(x) = <<Chunk(2, 16)>>
      BY <1>0, <1>3, <2>1 DEF ValueChunks, ValueShapeOf
    <3> QED BY <3>1, ValueCalls
  <2>3. processArgs(x, g).cb = ALIGNED(16)
    <3>1. processArgs(x, g) = HostClearBuffer(x)
      BY <1>3, ValueCalls DEF ClearNames
    <3> QED BY <2>1, <3>1 DEF HostClearBuffer, Args, ALIGNED
  <2> QED BY <2>2, <2>3, OneInStep
<1>4. CASE x.f \in ClearNames /\ x.n = 0
  <2>1. Chunks(x, g) = <<>>
    <3>1. ValueChunks(x) = <<>>
      BY <1>4 DEF ValueChunks, ClearNames
    <3> QED BY <3>1, ValueCalls
  <2>2. processArgs(x, g).cb = 0
    <3>1. processArgs(x, g) = HostClearData(x)
      BY <1>4, ValueCalls
    <3> QED BY <1>4, <3>1 DEF HostClearData, Args
  <2> QED BY <2>1, <2>2, NoneInStep
<1>5. CASE x.f \in {"ClearBufferData", "ClearBufferSubData"} /\ x.n # 0
  <2>1. Chunks(x, g) = <<Chunk(ClearArg(x.f), ALIGNED(1))>>
    BY <1>5, ValueCalls DEF ValueChunks
  <2>2. processArgs(x, g).cb = ALIGNED(1)
    <3>1. processArgs(x, g) = HostClearData(x)
      BY <1>5, ValueCalls DEF ClearNames
    <3> QED BY <1>5, <3>1 DEF HostClearData, Args
  <2>3. ALIGNED(1) \in Nat /\ ALIGNED(ALIGNED(1)) = ALIGNED(1)
    BY AlignedNat, AlignedTwice
  <2> QED BY <2>1, <2>2, <2>3, OneInStep
<1>6. CASE x.f \in {"ClearTexImage", "ClearTexSubImage"} /\ x.n # 0
  <2> DEFINE b == szgldata(x.c, x.t)
  <2>1. Chunks(x, g) = <<Chunk(ClearArg(x.f), ALIGNED(b))>>
    BY <1>6, ValueCalls DEF ValueChunks
  <2>2. processArgs(x, g).cb = ALIGNED(b)
    <3>1. processArgs(x, g) = HostClearData(x)
      BY <1>6, ValueCalls DEF ClearNames
    <3> QED BY <1>6, <3>1 DEF HostClearData, Args
  <2>3. b \in Nat
    BY <1>0, <1>1, <1>6 DEF ValueShapeOf, szgldata
  <2> HIDE DEF b
  <2>4. ALIGNED(b) \in Nat /\ ALIGNED(ALIGNED(b)) = ALIGNED(b)
    BY <2>3, AlignedNat, AlignedTwice
  <2> QED BY <2>1, <2>2, <2>4, OneInStep
<1> QED BY <1>0, <1>2, <1>3, <1>4, <1>5, <1>6 DEF ValueShapeOf, ClearNames

LEMMA AskingInStep ==
  ASSUME NEW x \in Asking \ glAreResident, NEW g PROVE InStepCall(x, g)
<1>0. x.f \in AskingNames /\ x.n \in Nat
  BY AskingShape DEF AskingShapeOf, AskingNames
<1>1. CASE x.f = "GetLocation"
  <2>1. Chunks(x, g) = <<Chunk(1, ALIGNED(x.n + 1))>>
    BY <1>1, AskingCalls DEF NameChunks
  <2>2. processArgs(x, g).cb = ALIGNED(x.n + 1)
    <3>1. processArgs(x, g) = HostName(x)
      BY <1>1, AskingCalls
    <3> QED BY <3>1 DEF HostName, Args
  <2>3. ALIGNED(x.n + 1) \in Nat /\ ALIGNED(ALIGNED(x.n + 1)) = ALIGNED(x.n + 1)
    BY <1>0, AlignedNat, AlignedTwice
  <2> QED BY <2>1, <2>2, <2>3, OneInStep
<1>2. CASE x.f = "DebugMessageInsert"
  <2>1. Chunks(x, g) = <<Chunk(Own, x.n)>>
    BY <1>2, AskingCalls
  <2>2. processArgs(x, g).cb = ALIGNED(x.n)
    <3>1. processArgs(x, g) = HostAnswer(x)
      BY <1>2, AskingCalls
    <3> QED BY <1>2, <3>1 DEF HostAnswer, Args
  <2> QED BY <1>0, <2>1, <2>2, OneInStep
<1>3. CASE x.f = "GetString"
  <2>1. Chunks(x, g) = <<Chunk(Own, 4)>>
    BY <1>3, AskingCalls
  <2>2. processArgs(x, g).cb = ALIGNED(4)
    <3>1. processArgs(x, g) = HostAnswer(x)
      BY <1>3, AskingCalls
    <3> QED BY <1>3, <3>1 DEF HostAnswer, Args
  <2> QED BY <2>1, <2>2, OneInStep
<1>4. CASE x.f \notin {"GetLocation", "DebugMessageInsert", "GetString"}
  <2>1. Chunks(x, g) = <<>>
    BY <1>4, AskingCalls
  <2>2. processArgs(x, g).cb = 0
    <3>1. processArgs(x, g) = HostAnswer(x)
      BY <1>4, AskingCalls
    <3> QED BY <1>0, <1>4, <3>1 DEF HostAnswer, Args, Nothing, AskingNames
  <2> QED BY <2>1, <2>2, NoneInStep
<1> QED BY <1>1, <1>2, <1>3, <1>4

LEMMA SettingsInStep ==
  ASSUME NEW x, x \in Settings \/ x = Flush, NEW g PROVE InStepCall(x, g)
<1>1. CASE x.f = "DeleteBuffers"
  <2>1. x.n \in Nat
    BY <1>1, SettingShape DEF SettingShapeOf, Flush, Call
  <2>2. Chunks(x, g) = <<Chunk(1, x.n * 4)>>
    BY <1>1, SettingCalls
  <2>3. processArgs(x, g).cb = ALIGNED(x.n * 4)
    BY <1>1, SettingCalls DEF Args
  <2> QED BY <2>1, <2>2, <2>3, OneInStep
<1>2. CASE x.f # "DeleteBuffers"
  BY <1>2, SettingCalls, NoneInStep DEF Nothing, Args
<1> QED BY <1>1, <1>2

LEMMA PixelSizes == ASSUME NEW t PROVE PixelSize(t) \in Nat
BY Sizes8 DEF PixelSize, szgldata

LEMMA ImageNat ==
  ASSUME NEW x, x.n \in Nat, NEW g \in PixelState PROVE ImageBytes(x, g) \in Nat
<1>1. (IF g.unpackWidth = 0 THEN x.n ELSE g.unpackWidth) \in Nat
  BY DEF PixelState
<1>2. (CASE x.c = 1 -> 1 [] x.c = 2 -> Rows [] OTHER -> IF g.unpackHeight = 0 THEN Rows ELSE g.unpackHeight) \in Nat
  BY DEF PixelState, Rows
<1>3. PixelSize(x.t) \in Nat
  BY PixelSizes
<1>4. \A m, n, k \in Nat : m * n * k \in Nat
  OBVIOUS
<1> QED BY <1>1, <1>2, <1>3, <1>4 DEF ImageBytes

LEMMA PixelsInStep ==
  ASSUME NEW x \in PixelTransfers, NEW g \in PixelState PROVE InStepCall(x, g)
<1>0. PixelShapeOf(x) /\ x.n \in Nat
  BY PixelShape DEF PixelShapeOf
<1>1. Chunks(x, g) = PixelChunks(x, g) /\ processArgs(x, g) = HostPixels(x, g)
  BY PixelCallsOf
<1>2. CASE x.f \in {"DrawPixels", "PolygonStipple"}
  <2> DEFINE b == IF x.f = "DrawPixels" THEN ImageBytes(x, g) ELSE StippleBytes(g)
  <2>1. HostPixels(x, g) = HostDrawPixels(x, g)
    BY <1>2 DEF HostPixels, Buffers
  <2>2. b \in Nat
    BY <1>0, ImageNat DEF StippleBytes, PixelState
  <2>3. CASE Unpacks(x, g)
    <3>1. PixelChunks(x, g) = <<>>
      BY <2>3 DEF PixelChunks
    <3>2. processArgs(x, g).cb = 0
      BY <1>1, <2>1, <2>3 DEF HostDrawPixels, Args
    <3> QED BY <1>1, <3>1, <3>2, NoneInStep
  <2>4. CASE ~ Unpacks(x, g)
    <3>1. PixelChunks(x, g) = <<Chunk(IF x.f = "DrawPixels" THEN 4 ELSE 0, ALIGNED(b))>>
      BY <1>2, <2>4 DEF PixelChunks
    <3>2. processArgs(x, g).cb = ALIGNED(b)
      BY <1>1, <2>1, <2>4 DEF HostDrawPixels, Args
    <3> HIDE DEF b
    <3>3. ALIGNED(b) \in Nat /\ ALIGNED(ALIGNED(b)) = ALIGNED(b)
      BY <2>2, AlignedNat, AlignedTwice
    <3> QED BY <1>1, <3>1, <3>2, <3>3, OneInStep
  <2> QED BY <2>3, <2>4
<1>3. CASE x.f \notin {"DrawPixels", "PolygonStipple"}
  <2>1. PixelChunks(x, g) = <<>>
    BY <1>3 DEF PixelChunks
  <2>2. HostPixels(x, g).cb = 0
    BY <1>3 DEF HostPixels, HostTexImage, HostCompressedTexImage, HostBufferData, HostReadPixels, Args
  <2> QED BY <1>1, <2>1, <2>2, NoneInStep
<1> QED BY <1>2, <1>3

-----------------------------------------------------------------------------
(* ---- Strings: as many chunks as the application has strings. ------------ *)

\* m chunks of one length and a last one.
Row(s, m, cb, db) ==
  /\ Len(s) = m + 1 /\ s[m + 1].cb = db
  /\ \A k \in 1 .. m : s[k].cb = cb

LEMMA RowSized ==
  ASSUME NEW s, NEW m \in Nat, NEW cb \in Nat, NEW db \in Nat, Row(s, m, cb, db) PROVE Sized(s)
<1>1. Len(s) \in Nat /\ Len(s) = m + 1
  BY DEF Row
<1>2. ASSUME NEW k \in 1 .. Len(s) PROVE s[k].cb \in Nat
  BY <1>1, k \in 1 .. m \/ k = m + 1 DEF Row
<1> QED BY <1>1, <1>2 DEF Sized

LEMMA PlacedRow ==
  ASSUME NEW at, Even(at), NEW s, NEW m \in Nat, NEW cb \in Nat, NEW db \in Nat, Row(s, m, cb, db)
  PROVE  PlacedAt(at, s, Len(s)) = at + m * Taken(cb) + Taken(db)
<1>1. Sized(s)
  BY RowSized
<1>2. PlacedAt(at, s, m) = at + m * Taken(cb)
  <2>1. m <= Len(s) /\ \A k \in 1 .. m : s[k].cb = cb
    BY DEF Row
  <2>2. \A k \in 0 .. m : PlacedAt(at, s, k) = at + k * Taken(cb)
    BY <1>1, <2>1, PlacedStrings
  <2> QED BY <2>2
<1>3. PlacedAt(at, s, m + 1) = PlacedAt(at, s, m) + Taken(db)
  <2>1. m + 1 \in 1 .. Len(s) /\ s[m + 1].cb = db /\ (m + 1) - 1 = m
    BY DEF Row
  <2>2. \A k \in 1 .. Len(s) : PlacedAt(at, s, k) = PlacedAt(at, s, k - 1) + Taken(s[k].cb)
    BY <1>1, PlacedOn
  <2>3. PlacedAt(at, s, m + 1) = PlacedAt(at, s, (m + 1) - 1) + Taken(s[m + 1].cb)
    BY ONLY <2>1, <2>2
  <2> QED BY <2>1, <2>3
<1> QED BY <1>2, <1>3 DEF Row

\* A host that takes as much for each is in step.
LEMMA RowInStep ==
  ASSUME NEW x, NEW g, NEW m \in Nat, NEW cb \in Nat, NEW db \in Nat, Row(Chunks(x, g), m, cb, db),
         processArgs(x, g).cb = m * ALIGNED(cb) + ALIGNED(db)
  PROVE  InStepCall(x, g)
<1> DEFINE s == Chunks(x, g)
           hcb == processArgs(x, g).cb
<1>1. Row(s, m, cb, db) /\ Len(s) = m + 1
  BY DEF Row
<1>2. Sized(s)
  BY RowSized
<1>3. PICK v \in Nat, w \in Nat : v = Taken(cb) /\ ALIGNED(cb) = 4 * v /\ w = Taken(db) /\ ALIGNED(db) = 4 * w
  BY TakenNat
<1>4. m * v \in Nat /\ hcb = 4 * (m * v + w)
  BY <1>3
<1>5. hcb \in Nat /\ Words(hcb) = m * v + w
  <2> HIDE DEF hcb
  <2> QED BY <1>4, WordsOf
<1> HIDE DEF s, hcb
<1>6. ASSUME NEW at, Even(at) PROVE PlacedAt(at, s, Len(s)) = at + Words(hcb)
  <2>0. PlacedAt(at, s, Len(s)) = at + m * Taken(cb) + Taken(db)
    BY <1>1, <1>6, PlacedRow
  <2>1. PlacedAt(at, s, Len(s)) = at + m * v + w
    BY <1>3, <2>0
  <2>2. at \in Nat /\ m * v \in Nat
    BY <1>4, <1>6 DEF Even
  <2> QED BY <1>5, <2>1, <2>2
<1> QED BY <1>2, <1>5, <1>6 DEF InStepCall, s, hcb

\* A first chunk, m pairs, and a last one.
Pairs(s, m, fb, cb, tb, db) ==
  /\ Len(s) = (2 * m) + 2 /\ s[1].cb = fb /\ s[(2 * m) + 2].cb = db
  /\ \A k \in 1 .. m : s[2 * k].cb = cb /\ s[(2 * k) + 1].cb = tb

LEMMA PlacedPairs ==
  ASSUME NEW at, Even(at), NEW s, NEW m \in Nat, NEW fb \in Nat, NEW cb \in Nat, NEW tb \in Nat,
         NEW db \in Nat, Pairs(s, m, fb, cb, tb, db), Sized(s)
  PROVE  PlacedAt(at, s, Len(s)) = at + Taken(fb) + m * (Taken(cb) + Taken(tb)) + Taken(db)
<1>0. PICK f \in Nat, v \in Nat, t \in Nat, w \in Nat :
        f = Taken(fb) /\ v = Taken(cb) /\ t = Taken(tb) /\ w = Taken(db)
  BY TakenNat
<1>1. at \in Nat
  BY DEF Even
<1>2. \A k \in 1 .. Len(s) : PlacedAt(at, s, k) = PlacedAt(at, s, k - 1) + Taken(s[k].cb)
  BY PlacedOn
<1>3. Len(s) = (2 * m) + 2 /\ Len(s) \in Nat
  BY DEF Pairs
<1> DEFINE S == {k \in 0 .. m : PlacedAt(at, s, (2 * k) + 1) = at + f + k * (v + t)}
<1>4. 0 \in S
  <2>1. PlacedAt(at, s, 0) = at /\ PlacedAt(at, s, 1) = at + Taken(s[1].cb)
    BY <1>3, PlacedFirst
  <2>2. s[1].cb = fb
    BY DEF Pairs
  <2>3. (2 * 0) + 1 = 1 /\ at + f + 0 * (v + t) = at + f
    BY <1>1
  <2> QED BY <1>0, <2>1, <2>2, <2>3
<1>5. ASSUME NEW k \in 1 .. m, k - 1 \in S PROVE k \in S
  <2>1. /\ 2 * k \in 1 .. Len(s) /\ (2 * k) + 1 \in 1 .. Len(s)
        /\ (2 * k) - 1 = (2 * (k - 1)) + 1 /\ ((2 * k) + 1) - 1 = 2 * k
    BY <1>3
  <2>2. s[2 * k].cb = cb /\ s[(2 * k) + 1].cb = tb
    BY DEF Pairs
  <2>3. PlacedAt(at, s, 2 * k) = PlacedAt(at, s, (2 * (k - 1)) + 1) + v
    BY <1>0, <1>2, <2>1, <2>2
  <2>4. PlacedAt(at, s, (2 * k) + 1) = PlacedAt(at, s, 2 * k) + t
    <3>1. PlacedAt(at, s, (2 * k) + 1) = PlacedAt(at, s, ((2 * k) + 1) - 1) + Taken(s[(2 * k) + 1].cb)
      BY <1>2, <2>1
    <3> QED BY <1>0, <2>1, <2>2, <3>1
  <2>5. PlacedAt(at, s, (2 * (k - 1)) + 1) = at + f + (k - 1) * (v + t)
    BY <1>5
  <2>6. at + f + (k - 1) * (v + t) + v + t = at + f + k * (v + t)
    <3>1. PICK q \in Nat : q = v + t
      OBVIOUS
    <3>2. (k - 1) * q + q = k * q /\ (k - 1) * q \in Int /\ k * q \in Int
      OBVIOUS
    <3> QED BY <1>1, <3>1, <3>2
  <2> QED BY <2>3, <2>4, <2>5, <2>6
<1>6. \A k \in 0 .. m : k \in S
  <2> HIDE DEF S
  <2> QED BY <1>4, <1>5, AllUpTo
<1>7. PlacedAt(at, s, (2 * m) + 1) = at + f + m * (v + t)
  BY <1>6
<1>8. PlacedAt(at, s, (2 * m) + 2) = PlacedAt(at, s, (2 * m) + 1) + w
  <2>1. (2 * m) + 2 \in 1 .. Len(s) /\ ((2 * m) + 2) - 1 = (2 * m) + 1 /\ s[(2 * m) + 2].cb = db
    BY <1>3 DEF Pairs
  <2>2. PlacedAt(at, s, (2 * m) + 2) = PlacedAt(at, s, ((2 * m) + 2) - 1) + Taken(s[(2 * m) + 2].cb)
    BY ONLY <1>2, <2>1
  <2> QED BY <1>0, <2>1, <2>2
<1> QED BY <1>0, <1>3, <1>7, <1>8

LEMMA PairsSized ==
  ASSUME NEW s, NEW m \in Nat, NEW fb \in Nat, NEW cb \in Nat, NEW tb \in Nat,
         NEW db \in Nat, Pairs(s, m, fb, cb, tb, db)
  PROVE  Sized(s)
<1>1. Len(s) = (2 * m) + 2 /\ Len(s) \in Nat
  BY DEF Pairs
<1>2. ASSUME NEW k \in 1 .. Len(s) PROVE s[k].cb \in Nat
  <2>1. k = 1 \/ k = (2 * m) + 2 \/ \E i \in 1 .. m : k = 2 * i \/ k = (2 * i) + 1
    <3>1. PICK i \in Int : k = 2 * i \/ k = (2 * i) + 1
      <4>1. k = 2 * (k \div 2) + (k % 2) /\ k % 2 \in {0, 1} /\ k \div 2 \in Int
        OBVIOUS
      <4>2. PICK i \in Int : i = k \div 2
        BY <4>1
      <4>3. k = 2 * i \/ k = (2 * i) + 1
        BY <4>1, <4>2
      <4> QED BY <4>3
    <3>2. i \in 1 .. m \/ k = 1 \/ k = (2 * m) + 2
      BY <1>1, <3>1
    <3> QED BY <3>1, <3>2
  <2> QED BY <2>1 DEF Pairs
<1> QED BY <1>1, <1>2 DEF Sized

LEMMA PairsInStep ==
  ASSUME NEW x, NEW g, NEW m \in Nat, NEW fb \in Nat, NEW cb \in Nat, NEW tb \in Nat, NEW db \in Nat,
         Pairs(Chunks(x, g), m, fb, cb, tb, db),
         processArgs(x, g).cb = m * (ALIGNED(cb) + ALIGNED(tb)) + ALIGNED(db) + ALIGNED(fb)
  PROVE  InStepCall(x, g)
<1> DEFINE s == Chunks(x, g)
           hcb == processArgs(x, g).cb
<1>1. Pairs(s, m, fb, cb, tb, db) /\ Sized(s)
  BY PairsSized
<1>2. PICK f \in Nat, v \in Nat, t \in Nat, w \in Nat :
        /\ f = Taken(fb) /\ ALIGNED(fb) = 4 * f /\ v = Taken(cb) /\ ALIGNED(cb) = 4 * v
        /\ t = Taken(tb) /\ ALIGNED(tb) = 4 * t /\ w = Taken(db) /\ ALIGNED(db) = 4 * w
  BY TakenNat
<1>3. PICK p \in Nat : p = m * (v + t) /\ m * (4 * v + 4 * t) = 4 * p
  <2>1. m * (4 * v + 4 * t) = 4 * (m * (v + t)) /\ m * (v + t) \in Nat
    OBVIOUS
  <2> QED BY <2>1
<1>4. hcb = 4 * (p + w + f)
  BY <1>2, <1>3
<1>5. hcb \in Nat /\ Words(hcb) = p + w + f
  <2> HIDE DEF hcb
  <2> QED BY <1>4, WordsOf
<1> HIDE DEF s, hcb
<1>6. ASSUME NEW at, Even(at) PROVE PlacedAt(at, s, Len(s)) = at + Words(hcb)
  <2>0. PlacedAt(at, s, Len(s)) = at + Taken(fb) + m * (Taken(cb) + Taken(tb)) + Taken(db)
    BY <1>1, <1>6, PlacedPairs
  <2>1. PlacedAt(at, s, Len(s)) = at + f + m * (v + t) + w
    BY <1>2, <2>0
  <2>2. at \in Nat
    BY <1>6 DEF Even
  <2> QED BY <1>3, <1>5, <2>1, <2>2
<1> QED BY <1>1, <1>5, <1>6 DEF InStepCall, s, hcb

\* m chunks followed by one make a row.
LEMMA RowOf ==
  ASSUME NEW m \in Nat, NEW F, NEW cb, NEW texts, texts = [i \in 1 .. m |-> Chunk(F[i], cb)],
         NEW b, NEW db
  PROVE  Row(texts \o <<Chunk(b, db)>>, m, cb, db)
<1> DEFINE s == texts \o <<Chunk(b, db)>>
<1>1. Len(texts) = m /\ (\A i \in 1 .. m : texts[i].cb = cb) /\ Chunk(b, db).cb = db
  BY DEF Chunk
<1> QED BY <1>1 DEF Row

\* A first chunk, m times two, and a last one.
LEMMA PairsOf ==
  ASSUME NEW m \in Nat, NEW F, NEW a, NEW fb, NEW cb, NEW b, NEW tb, NEW e, NEW db,
         NEW texts, texts = [k \in 1 .. 2 * m |-> IF k % 2 = 1 THEN Chunk(F[k], cb) ELSE Chunk(b, tb)]
  PROVE  Pairs((<<Chunk(a, fb)>> \o texts) \o <<Chunk(e, db)>>, m, fb, cb, tb, db)
<1> DEFINE s == (<<Chunk(a, fb)>> \o texts) \o <<Chunk(e, db)>>
<1>1. Len(texts) = 2 * m /\ 2 * m \in Nat
  OBVIOUS
<1>2. Len(s) = (2 * m) + 2 /\ s[1] = Chunk(a, fb) /\ s[(2 * m) + 2] = Chunk(e, db)
  BY <1>1
<1>3. ASSUME NEW k \in 1 .. m PROVE s[2 * k].cb = cb /\ s[(2 * k) + 1].cb = tb
  <2>1. 2 * k \in 2 .. (2 * m) + 1 /\ (2 * k) + 1 \in 2 .. (2 * m) + 1
    OBVIOUS
  <2>2. s[2 * k] = texts[(2 * k) - 1] /\ s[(2 * k) + 1] = texts[2 * k]
    BY <1>1, <2>1
  <2>3. (2 * k) - 1 \in 1 .. 2 * m /\ ((2 * k) - 1) % 2 = 1 /\ 2 * k \in 1 .. 2 * m /\ (2 * k) % 2 = 0
    OBVIOUS
  <2>4. texts[(2 * k) - 1] = Chunk(F[(2 * k) - 1], cb) /\ texts[2 * k] = Chunk(b, tb)
    BY <2>3
  <2> HIDE DEF s
  <2> QED BY <2>2, <2>4 DEF Chunk
<1> HIDE DEF s
<1>4. Pairs(s, m, fb, cb, tb, db)
  BY <1>2, <1>3 DEF Pairs, Chunk
<1> QED BY <1>4 DEF s

\* What strlen(varys[i] + 1) loses is made up by rounding, unless the length leaves
\* no remainder or 1.
LEMMA VaryingLength ==
  ASSUME NEW n \in Nat, n % 8 >= 2 PROVE ALIGNED(n + 1) = ALIGNED(n - 1)
<1>1. PICK q \in Nat, r \in 2 .. 7 : n = 8 * q + r
  <2>1. n = 8 * (n \div 8) + (n % 8) /\ n \div 8 \in Nat /\ n % 8 \in 0 .. 7
    OBVIOUS
  <2> QED BY <2>1
<1>2. (n + 1) \in (8 * q + 3) .. (8 * q + 8) /\ (n - 1) \in (8 * q + 1) .. (8 * q + 6)
  BY <1>1
<1>3. \A m \in (8 * q + 1) .. (8 * q + 8) : ALIGNED(m) = 8 * (q + 1)
  <2> SUFFICES ASSUME NEW m \in (8 * q + 1) .. (8 * q + 8) PROVE ALIGNED(m) = 8 * (q + 1)
    OBVIOUS
  <2>1. PICK p \in Nat : ALIGNED(m) = 8 * p /\ m <= 8 * p /\ 8 * p < m + 8
    BY AlignedFacts
  <2> QED BY <2>1
<1> QED BY <1>2, <1>3

LEMMA StringsInStep ==
  ASSUME NEW x \in Strings, x \notin OutOfStep, NEW g PROVE InStepCall(x, g)
<1>0. /\ StringShapeOf(x) /\ x.n \in Nat /\ x.n # 0 /\ x.c \in Nat
      /\ x.f = "Varyings" => x.n % 8 >= 2
      /\ x.f = "ShaderSourceARB" => x.c = 1
  <2>1. StringShapeOf(x)
    BY StringShape
  <2>2. x.f = "Varyings" => x.n % 8 >= 2
    BY <2>1 DEF StringShapeOf, OutOfStep
  <2>3. x.f = "ShaderSourceARB" => x.c = 1
    BY <2>1 DEF StringShapeOf, OutOfStep
  <2> QED BY <2>1, <2>2, <2>3 DEF StringShapeOf
<1>a. ALIGNED(1) = 8 /\ ALIGNED(8) = 8
  BY DEF ALIGNED
<1>1. CASE x.f \in {"BindLocation", "BindIndexed"}
  <2>1. Chunks(x, g) = <<Chunk(2, ALIGNED(x.n + 1))>>
    <3>1. CASE x.f = "BindLocation"
      <4>1. Chunks(x, g) = NameChunks(x)
        BY <3>1, StringCalls
      <4> QED BY <3>1, <4>1 DEF NameChunks
    <3>2. CASE x.f = "BindIndexed"
      <4>1. Chunks(x, g) = IndexedNameChunks(x)
        BY <3>2, StringCalls
      <4> QED BY <4>1 DEF IndexedNameChunks
    <3> QED BY <1>1, <3>1, <3>2
  <2>2. processArgs(x, g).cb = ALIGNED(x.n + 1)
    <3>1. processArgs(x, g) = HostName(x)
      BY <1>1, StringCalls
    <3> QED BY <3>1 DEF HostName, Args
  <2>3. ALIGNED(x.n + 1) \in Nat /\ ALIGNED(ALIGNED(x.n + 1)) = ALIGNED(x.n + 1)
    BY <1>0, AlignedNat, AlignedTwice
  <2> QED BY <2>1, <2>2, <2>3, OneInStep
<1>2. CASE x.f \in {"ProgramString", "ProgramNamedParameter"}
  <2>1. Chunks(x, g) = ProgramChunks(x) /\ processArgs(x, g) = HostProgram(x)
    BY <1>2, StringCalls
  <2>2. ALIGNED(x.n) \in Nat /\ ALIGNED(ALIGNED(x.n)) = ALIGNED(x.n)
    BY <1>0, AlignedNat, AlignedTwice
  <2>3. CASE x.f = "ProgramString"
    <3>1. ProgramChunks(x) = <<Chunk(3, ALIGNED(x.n)), Chunk(Own, 8)>>
      BY <1>0, <1>a, <2>3 DEF ProgramChunks, StringShapeOf
    <3>2. HostProgram(x).cb = ALIGNED(1) + ALIGNED(x.n)
      BY <1>0, <2>3 DEF HostProgram, Args, StringShapeOf
    <3>3. HostProgram(x).cb = ALIGNED(ALIGNED(x.n)) + ALIGNED(8)
      BY <3>2, <1>a, <2>2
    <3> QED BY <2>1, <2>2, <3>1, <3>3, TwoInStep
  <2>4. CASE x.f = "ProgramNamedParameter" /\ x.c = 0
    <3>1. ProgramChunks(x) = <<Chunk(2, ALIGNED(x.n))>>
      BY <2>4 DEF ProgramChunks
    <3>2. HostProgram(x).cb = ALIGNED(x.n)
      BY <2>4 DEF HostProgram, Args
    <3> QED BY <2>1, <2>2, <3>1, <3>2, OneInStep
  <2>5. CASE x.f = "ProgramNamedParameter" /\ x.c # 0
    <3> DEFINE db == 4 * SizeOf(x.t)
    <3>1. ProgramChunks(x) = <<Chunk(2, ALIGNED(x.n)), Chunk(3, db)>>
      BY <2>5 DEF ProgramChunks
    <3>2. HostProgram(x).cb = ALIGNED(x.n) + db
      BY <2>5 DEF HostProgram, Args
    <3>3. db \in {16, 32}
      BY <1>0, <2>5 DEF StringShapeOf, SizeOf
    <3> HIDE DEF db
    <3>4. ALIGNED(db) = db /\ db \in Nat
      BY <3>3 DEF ALIGNED
    <3>5. HostProgram(x).cb = ALIGNED(ALIGNED(x.n)) + ALIGNED(db)
      BY <3>2, <3>4, <2>2
    <3> QED BY <2>1, <2>2, <3>1, <3>4, <3>5, TwoInStep
  <2> QED BY <1>2, <2>3, <2>4, <2>5
<1>3. CASE x.f = "Varyings"
  <2> DEFINE F == [i \in 1 .. x.c |-> String(i)]
             cb == ALIGNED(x.n - 1)
             db == ALIGNED(x.c * 4)
             texts == [i \in 1 .. x.c |-> Chunk(String(i), cb)]
  <2>1. Chunks(x, g) = texts \o <<Chunk(2, db)>>
    <3>1. Chunks(x, g) = VaryingsChunks(x)
      BY <1>3, StringCalls
    <3> QED BY <3>1 DEF VaryingsChunks
  <2>2. processArgs(x, g).cb = x.c * ALIGNED(x.n + 1) + db
    <3>1. processArgs(x, g) = HostVaryings(x)
      BY <1>3, StringCalls
    <3> QED BY <3>1 DEF HostVaryings, Args
  <2>3. ALIGNED(x.n + 1) = cb
    BY <1>0, <1>3, VaryingLength
  <2>4. cb \in Nat /\ db \in Nat /\ ALIGNED(cb) = cb /\ ALIGNED(db) = db
    BY <1>0, AlignedNat, AlignedTwice
  <2>5. texts = [i \in 1 .. x.c |-> Chunk(F[i], cb)]
    OBVIOUS
  <2> HIDE DEF F, cb, db, texts
  <2>6. Row(Chunks(x, g), x.c, cb, db)
    BY <1>0, <2>1, <2>5, RowOf
  <2>7. processArgs(x, g).cb = x.c * ALIGNED(cb) + ALIGNED(db)
    BY <2>2, <2>3, <2>4
  <2> QED BY <1>0, <2>4, <2>6, <2>7, RowInStep
<1>4. CASE x.f \in {"ShaderSource", "ShaderSourceARB"}
  <2> DEFINE db == IF x.f = "ShaderSource" THEN x.c * ALIGNED(1) ELSE ALIGNED(x.c * 4)
  <2>1. Chunks(x, g) = ShaderSourceChunks(x) /\ processArgs(x, g) = HostShaderSource(x)
    BY <1>4, StringCalls
  <2>2. db = x.c * 8 /\ db \in Nat /\ ALIGNED(db) = db
    <3>1. x.f = "ShaderSourceARB" => ALIGNED(x.c * 4) = x.c * 8
      BY <1>0 DEF ALIGNED
    <3>2. x.f = "ShaderSource" => x.c * ALIGNED(1) = x.c * 8
      BY <1>0, <1>a
    <3>3. db = x.c * 8
      BY <1>4, <3>1, <3>2
    <3>4. ALIGNED(8 * x.c) = 8 * x.c
      BY <1>0, AlignedEight
    <3> HIDE DEF db
    <3> QED BY <1>0, <3>3, <3>4
  <2>3. CASE x.t = "b"
    <3> DEFINE F == [i \in 1 .. x.c |-> String(i)]
               cb == ALIGNED(x.n + 1)
               texts == [i \in 1 .. x.c |-> Chunk(String(i), cb)]
    <3>1. ShaderSourceChunks(x) = texts \o <<Chunk(2, db)>>
      BY <2>3 DEF ShaderSourceChunks
    <3>2. HostShaderSource(x).cb = x.c * cb + x.c * ALIGNED(1)
      BY <2>3 DEF HostShaderSource, Args
    <3>3. cb \in Nat /\ ALIGNED(cb) = cb
      BY <1>0, AlignedNat, AlignedTwice
    <3>4. texts = [i \in 1 .. x.c |-> Chunk(F[i], cb)]
      OBVIOUS
    <3> HIDE DEF F, cb, db, texts
    <3>5. Row(Chunks(x, g), x.c, cb, db)
      BY <1>0, <2>1, <3>1, <3>4, RowOf
    <3>6. processArgs(x, g).cb = x.c * ALIGNED(cb) + ALIGNED(db)
      BY <1>a, <2>1, <2>2, <3>2, <3>3
    <3> QED BY <1>0, <2>2, <3>3, <3>5, <3>6, RowInStep
  <2>4. CASE x.t = "i"
    <3> DEFINE F == [k \in 1 .. 2 * x.c |-> String((k + 1) \div 2)]
               fb == ALIGNED(x.c * 4)
               cb == ALIGNED(x.n)
               tb == ALIGNED(1)
               texts == [k \in 1 .. 2 * x.c |-> IF k % 2 = 1 THEN Chunk(String((k + 1) \div 2), cb)
                                                 ELSE Chunk(Own, tb)]
    <3>1. ShaderSourceChunks(x) = (<<Chunk(3, fb)>> \o texts) \o <<Chunk(2, db)>>
      BY <2>4 DEF ShaderSourceChunks
    <3>2. HostShaderSource(x).cb = x.c * (cb + tb) + x.c * ALIGNED(1) + fb
      BY <2>4 DEF HostShaderSource, Args
    <3>3. cb \in Nat /\ ALIGNED(cb) = cb /\ tb \in Nat /\ ALIGNED(tb) = tb /\ fb \in Nat /\ ALIGNED(fb) = fb
      BY <1>0, AlignedNat, AlignedTwice
    <3>4. texts = [k \in 1 .. 2 * x.c |-> IF k % 2 = 1 THEN Chunk(F[k], cb) ELSE Chunk(Own, tb)]
      OBVIOUS
    <3> HIDE DEF F, fb, cb, tb, db, texts
    <3>5. Pairs(Chunks(x, g), x.c, fb, cb, tb, db)
      <4>1. x.c \in Nat
        BY <1>0
      <4>2. Pairs((<<Chunk(3, fb)>> \o texts) \o <<Chunk(2, db)>>, x.c, fb, cb, tb, db)
        BY ONLY <4>1, <3>4, PairsOf
      <4> QED BY <2>1, <3>1, <4>2
    <3>6. processArgs(x, g).cb = x.c * (ALIGNED(cb) + ALIGNED(tb)) + ALIGNED(db) + ALIGNED(fb)
      BY <1>a, <2>1, <2>2, <3>2, <3>3
    <3> QED BY <1>0, <2>2, <3>3, <3>5, <3>6, PairsInStep
  <2> QED BY <1>0, <1>4, <2>3, <2>4 DEF StringShapeOf
<1> QED BY <1>0, <1>1, <1>2, <1>3, <1>4 DEF StringShapeOf

\* Guest and host agree on the length of every call that is not listed.
LEMMA CallsInStep ==
  ASSUME NEW x, x \in AllCalls \ OutOfStep \/ x = Flush, NEW g \in PixelState PROVE InStepCall(x, g)
<1>1. CASE x \in AllCalls \ OutOfStep
  <2>1. x \in Vectors => InStepCall(x, g)
    BY <1>1, VectorsInStep
  <2>2. x \in Arrays \cup glAreResident => InStepCall(x, g)
    BY <1>1, ArraysInStep
  <2>3. x \in Values => InStepCall(x, g)
    BY <1>1, ValuesInStep
  <2>4. x \in Strings => InStepCall(x, g)
    BY <1>1, StringsInStep
  <2>5. x \in Asking \ glAreResident => InStepCall(x, g)
    BY AskingInStep
  <2>6. x \in Settings => InStepCall(x, g)
    BY SettingsInStep
  <2>7. x \in PixelTransfers => InStepCall(x, g)
    BY PixelsInStep
  <2> QED BY <1>1, <2>1, <2>2, <2>3, <2>4, <2>5, <2>6, <2>7 DEF AllCalls
<1>2. CASE x = Flush
  BY <1>2, SettingsInStep
<1> QED BY <1>1, <1>2

-----------------------------------------------------------------------------
(* ---- The records of the pixel store. ------------------------------------ *)

Fields == {"unpackWidth", "unpackHeight", "packWidth", "unpack", "pack"}

LEMMA FieldSet ==
  ASSUME NEW r \in PixelState, NEW t \in Fields, NEW n \in Nat PROVE [r EXCEPT ![t] = n] \in PixelState
BY DEF PixelState, Fields

LEMMA NotedState ==
  ASSUME NEW x, x.f \in {"PixelStorei", "BindBuffer"} => x.t \in Fields /\ x.n \in Nat, NEW r \in PixelState
  PROVE  Noted(x, r) \in PixelState
<1>1. CASE x.f \in {"PixelStorei", "BindBuffer"}
  <2>a. CASE x.f = "PixelStorei"
    BY <2>a, FieldSet DEF Noted
  <2>b. CASE x.f = "BindBuffer"
    BY <2>b, FieldSet DEF Noted
  <2> QED BY <1>1, <2>a, <2>b
<1>2. CASE x.f = "DeleteBuffers"
  <2> DEFINE u == IF r.unpack = x.n THEN 0 ELSE r.unpack
             p == IF r.pack = x.n THEN 0 ELSE r.pack
  <2>1. Noted(x, r) = [r EXCEPT !.unpack = u, !.pack = p]
    BY <1>2 DEF Noted
  <2>2. u \in Nat /\ p \in Nat
    BY DEF PixelState
  <2> HIDE DEF u, p
  <2> QED BY <2>1, <2>2 DEF PixelState
<1>3. CASE x.f \notin {"PixelStorei", "BindBuffer", "DeleteBuffers"}
  BY <1>3 DEF Noted
<1> QED BY <1>1, <1>2, <1>3

\* Only settings are noted.
LEMMA NotSetting ==
  ASSUME NEW x, x \in AllCalls \/ x = Flush, x \notin Settings
  PROVE  x.f \notin {"PixelStorei", "PixelStoref", "BindBuffer", "DeleteBuffers"}
<1>1. x \in Vectors => x.f \in VectorNames
  BY VectorShape
<1>2. x \in Arrays \cup glAreResident => x.f \in ArrayNames
  BY ArrayShape DEF ArrayShapeOf, ArrayNames
<1>3. x \in Values => x.f \in ValueNames
  BY ValueShape DEF ValueShapeOf, ValueNames, ClearNames
<1>4. x \in Strings => x.f \in StringNames
  BY StringShape DEF StringShapeOf, StringNames
<1>5. x \in Asking => x.f \in AskingNames
  BY AskingShape DEF AskingShapeOf, AskingNames
<1>6. x \in PixelTransfers => x.f \in PixelNames
  BY PixelShape DEF PixelShapeOf, PixelNames, SendNames, ReadNames
<1>7. x = Flush => x.f = "Flush"
  BY DEF Flush, Call
<1> QED
  BY <1>1, <1>2, <1>3, <1>4, <1>5, <1>6, <1>7 DEF AllCalls, VectorNames, ArrayNames, ValueNames, ClearNames,
     StringNames, AskingNames, PixelNames, SendNames, ReadNames

LEMMA NotedCalls ==
  ASSUME NEW x, x \in AllCalls \/ x = Flush, NEW r \in PixelState
  PROVE  Noted(x, r) \in PixelState /\ GLNoted(x, r) \in PixelState
<1>1. CASE x \in Settings
  <2>1. SettingShapeOf(x) /\ \A n \in RowLengths : n \in Nat
    BY <1>1, SettingShape, PixelAssumption
  <2>2. x.f \in {"PixelStorei", "BindBuffer", "PixelStoref"} => x.t \in Fields /\ x.n \in Nat
    BY <2>1 DEF SettingShapeOf, Fields
  <2>3. Noted(x, r) \in PixelState
    BY <2>2, NotedState
  <2>4. CASE x.f = "PixelStoref"
    <3> DEFINE y == [x EXCEPT !.f = "PixelStorei"]
    <3>1. y.t = x.t /\ y.n = x.n
      <4>1. x \in glPixelStoref
        BY <2>1, <2>4 DEF SettingShapeOf
      <4>2. \E t, n : x = [f |-> "PixelStoref", c |-> 0, t |-> t, n |-> n]
        BY <4>1 DEF glPixelStoref, Family, Call
      <4> QED BY <4>2
    <3>2. GLNoted(x, r) = Noted(y, r)
      BY <2>4 DEF GLNoted
    <3> HIDE DEF y
    <3> QED BY <2>2, <2>3, <2>4, <3>1, <3>2, NotedState
  <2>5. CASE x.f # "PixelStoref"
    BY <2>3, <2>5 DEF GLNoted
  <2> QED BY <2>3, <2>4, <2>5
<1>2. CASE x \notin Settings
  <2>1. x.f \notin {"PixelStorei", "PixelStoref", "BindBuffer", "DeleteBuffers"}
    BY <1>2, NotSetting
  <2>2. Noted(x, r) = r /\ GLNoted(x, r) = r
    BY <2>1 DEF Noted, GLNoted
  <2> QED BY <2>2
<1> QED BY <1>1, <1>2

-----------------------------------------------------------------------------
(* ---- Guest and host stay in step. --------------------------------------- *)

\* Calls on their way, each with the place and the record that the one before
\* it leaves, from where the host is to where the guest is.
Passed(e) == Noted(e.x, e.pix)

Chained(at, pix, s, to, topix) ==
  /\ s = <<>> => at = to /\ pix = topix
  /\ s # <<>> => /\ s[1].at = at /\ s[1].pix = pix
                 /\ to = DataEnd(s[Len(s)]) /\ topix = Passed(s[Len(s)])
  /\ \A k \in 1 .. Len(s) - 1 : s[k + 1].at = DataEnd(s[k]) /\ s[k + 1].pix = Passed(s[k])

LEMMA ChainedOne ==
  ASSUME NEW at, NEW pix, NEW S, NEW s \in Seq(S), NEW to, NEW topix, Chained(at, pix, s, to, topix),
         NEW e \in S, e.at = to, e.pix = topix
  PROVE  Chained(at, pix, Append(s, e), DataEnd(e), Passed(e))
<1> DEFINE r == Append(s, e)
<1>1. Len(r) = Len(s) + 1 /\ r # <<>> /\ r[Len(s) + 1] = e /\ \A k \in 1 .. Len(s) : r[k] = s[k]
  OBVIOUS
<1>2. Len(s) \in Nat /\ (s = <<>> <=> Len(s) = 0)
  OBVIOUS
<1> HIDE DEF r
<1>3. r[1].at = at /\ r[1].pix = pix
  <2>1. CASE s = <<>>
    BY <1>1, <1>2, <2>1 DEF Chained
  <2>2. CASE s # <<>>
    <3>1. 1 \in 1 .. Len(s)
      BY <1>2, <2>2
    <3> QED BY <1>1, <2>2, <3>1 DEF Chained
  <2> QED BY <2>1, <2>2
<1>4. ASSUME NEW k \in 1 .. Len(r) - 1 PROVE r[k + 1].at = DataEnd(r[k]) /\ r[k + 1].pix = Passed(r[k])
  <2>1. CASE k = Len(s)
    <3>1. s # <<>> /\ k \in 1 .. Len(s)
      BY <1>1, <1>2, <2>1
    <3> QED BY <1>1, <2>1, <3>1 DEF Chained
  <2>2. CASE k # Len(s)
    <3>1. k \in 1 .. Len(s) - 1 /\ k \in 1 .. Len(s) /\ k + 1 \in 1 .. Len(s)
      BY <1>1, <1>2, <2>2
    <3> QED BY <1>1, <3>1 DEF Chained
  <2> QED BY <2>1, <2>2
<1>5. Chained(at, pix, r, DataEnd(e), Passed(e))
  BY <1>1, <1>3, <1>4 DEF Chained
<1> QED BY <1>5 DEF r

LEMMA ChainedRest ==
  ASSUME NEW at, NEW pix, NEW S, NEW s \in Seq(S), s # <<>>, NEW to, NEW topix, Chained(at, pix, s, to, topix)
  PROVE  Chained(DataEnd(s[1]), Passed(s[1]), Tail(s), to, topix)
<1> DEFINE r == Tail(s)
<1>1. Len(s) \in Nat \ {0} /\ Len(r) = Len(s) - 1 /\ \A k \in 1 .. Len(r) : r[k] = s[k + 1]
  OBVIOUS
<1>2. r = <<>> <=> Len(r) = 0
  <2>1. r \in Seq(S)
    OBVIOUS
  <2> HIDE DEF r
  <2> QED BY <2>1
<1> HIDE DEF r
<1>3. r = <<>> => DataEnd(s[1]) = to /\ Passed(s[1]) = topix
  <2>1. r = <<>> => Len(s) = 1
    BY <1>1, <1>2
  <2> QED BY <2>1 DEF Chained
<1>4. ASSUME r # <<>>
      PROVE  /\ r[1].at = DataEnd(s[1]) /\ r[1].pix = Passed(s[1])
             /\ to = DataEnd(r[Len(r)]) /\ topix = Passed(r[Len(r)])
  <2>1. 1 \in 1 .. Len(s) - 1 /\ 1 \in 1 .. Len(r) /\ Len(r) \in 1 .. Len(r) /\ Len(r) + 1 = Len(s)
    BY <1>1, <1>2, <1>4
  <2>2. r[1] = s[1 + 1] /\ r[Len(r)] = s[Len(s)]
    BY <1>1, <2>1
  <2> QED BY <2>1, <2>2 DEF Chained
<1>5. ASSUME NEW k \in 1 .. Len(r) - 1 PROVE r[k + 1].at = DataEnd(r[k]) /\ r[k + 1].pix = Passed(r[k])
  <2>1. k \in 1 .. Len(r) /\ k + 1 \in 1 .. Len(r) /\ k + 1 \in 1 .. Len(s) - 1
    BY <1>1
  <2> QED BY <1>1, <2>1 DEF Chained
<1>6. Chained(DataEnd(s[1]), Passed(s[1]), r, to, topix)
  BY <1>3, <1>4, <1>5 DEF Chained
<1> QED BY <1>6 DEF r

\* The calls on their way: those queued and the one trapped.
Pending == IF trap = <<>> THEN queue ELSE Append(queue, trap[1])

Made == Calls \cup {Flush}
Entries == [x : Made, at : {at \in Nat : Even(at)}, pix : PixelState]

StepInv ==
  /\ queue \in Seq(Entries)
  /\ trap = <<>> \/ \E e \in Entries : trap = <<e>>
  /\ Even(j) /\ Even(data0) /\ gpix \in PixelState /\ hpix \in PixelState
  /\ Chained(j, hpix, Pending, data0, gpix)
  /\ ran.end = DataEnd(ran)

\* What one call on its way takes.
LEMMA EntryStep ==
  ASSUME NEW e \in Entries, Calls \cap OutOfStep = {}
  PROVE  /\ DataEnd(e) = e.at + Words(processArgs(e.x, e.pix).cb)
         /\ Even(DataEnd(e)) /\ Passed(e) \in PixelState
<1>1. /\ e.x \in AllCalls \ OutOfStep \/ e.x = Flush
      /\ e.pix \in PixelState /\ Even(e.at)
  BY CallsAssumption DEF Entries, Made
<1>2. InStepCall(e.x, e.pix)
  BY <1>1, CallsInStep
<1>3. Sized(Chunks(e.x, e.pix))
  BY <1>2 DEF InStepCall
<1>4. DataEnd(e) = e.at + Words(processArgs(e.x, e.pix).cb)
  BY <1>1, <1>2 DEF InStepCall, DataEnd
<1>5. Even(DataEnd(e))
  <2> DEFINE s == Chunks(e.x, e.pix)
  <2>1. Len(s) \in 0 .. Len(s)
    BY <1>3 DEF Sized
  <2>2. \A k \in 0 .. Len(s) : Even(PlacedAt(e.at, s, k))
    BY <1>1, <1>3, PlacedOn
  <2> QED BY <2>1, <2>2 DEF DataEnd
<1>6. Passed(e) \in PixelState
  BY <1>1, NotedCalls DEF Passed
<1> QED BY <1>4, <1>5, <1>6

LEMMA FlushNothing ==
  ASSUME NEW at, NEW pix PROVE PlacedAt(at, Chunks(Flush, pix), Len(Chunks(Flush, pix))) = at /\ Noted(Flush, pix) = pix
<1>1. Flush.f = "Flush"
  BY DEF Flush, Call
<1>2. Chunks(Flush, pix) = <<>>
  BY <1>1, SettingCalls
<1>3. Noted(Flush, pix) = pix
  BY <1>1 DEF Noted
<1> QED BY <1>2, <1>3, PlacedNone

LEMMA StartEven == Even(DataStart) /\ InitClientPixels \in PixelState
<1>1. DataStart = 2
  BY DEF DataStart, ALIGNED
<1> QED BY <1>1 DEF Even, InitClientPixels, PixelState

LEMMA StepInit == ASSUME Init PROVE StepInv
<1>1. queue = <<>> /\ trap = <<>> /\ Pending = <<>>
  BY DEF Init, Pending
<1>2. Chained(j, hpix, Pending, data0, gpix)
  BY <1>1 DEF Init, Chained
<1>3. ran.end = DataEnd(ran)
  <2>1. ran.x = Flush /\ ran.at = DataStart /\ ran.end = DataStart
    BY DEF Init, NoCall
  <2> QED BY <2>1, FlushNothing DEF DataEnd
<1> QED BY <1>1, <1>2, <1>3, StartEven DEF Init, StepInv

\* One more call on its way.
LEMMA StepMore ==
  ASSUME Calls \cap OutOfStep = {}, StepInv, trap = <<>>, NEW x \in Made,
         \/ queue' = Append(queue, Entry(x)) /\ trap' = <<>>
         \/ queue' = queue /\ trap' = <<Entry(x)>>,
         data0' = DataEnd(Entry(x)), gpix' = Passed(Entry(x)),
         UNCHANGED <<j, hpix, ran>>
  PROVE  StepInv'
<1>1. PICK e \in Entries : e = Entry(x)
  <2>1. data0 \in {at \in Nat : Even(at)} /\ gpix \in PixelState
    BY DEF StepInv, Even
  <2>2. Entry(x) \in Entries
    BY <2>1 DEF Entries, Entry
  <2> QED BY <2>2
<1>2. e.at = data0 /\ e.pix = gpix
  BY <1>1 DEF Entry
<1>3. queue' \in Seq(Entries) /\ (trap' = <<>> \/ \E d \in Entries : trap' = <<d>>)
  <2>1. queue \in Seq(Entries)
    BY DEF StepInv
  <2>2. Append(queue, e) \in Seq(Entries)
    BY <2>1
  <2> QED BY <1>1, <2>1, <2>2
<1>4. Even(data0') /\ gpix' \in PixelState
  BY <1>1, EntryStep
<1>5. Pending = queue /\ Pending' = Append(queue, e)
  BY <1>1 DEF Pending
<1>6. Chained(j, hpix, Append(queue, e), DataEnd(e), Passed(e))
  BY <1>2, <1>5, ChainedOne DEF StepInv
<1>7. ran'.end = DataEnd(ran')
  BY DEF StepInv
<1> QED BY <1>1, <1>3, <1>4, <1>5, <1>6, <1>7 DEF StepInv

LEMMA StepCall ==
  ASSUME Calls \cap OutOfStep = {}, StepInv, trap = <<>>, NEW x \in Calls, QueueCall(x) \/ TrapCall(x)
  PROVE  StepInv'
<1>1. data0' = DataEnd(Entry(x)) /\ gpix' = Passed(Entry(x))
  BY DEF QueueCall, TrapCall, Makes, GuestNoted, Passed, Entry
<1>2. \/ queue' = Append(queue, Entry(x)) /\ trap' = <<>>
      \/ queue' = queue /\ trap' = <<Entry(x)>>
  BY DEF QueueCall, TrapCall
<1>3. UNCHANGED <<j, hpix, ran>> /\ x \in Made
  BY DEF QueueCall, TrapCall, Made
<1> QED BY <1>1, <1>2, <1>3, StepMore

LEMMA StepFlush ==
  ASSUME Calls \cap OutOfStep = {}, StepInv, TrapFlush PROVE StepInv'
<1>1. trap = <<>> /\ queue' = queue /\ trap' = <<Entry(Flush)>> /\ UNCHANGED <<j, hpix, ran>> /\ Flush \in Made
  BY DEF TrapFlush, Made
<1>2. data0' = DataEnd(Entry(Flush)) /\ gpix' = Passed(Entry(Flush))
  <2>1. Entry(Flush).x = Flush /\ Entry(Flush).at = data0 /\ Entry(Flush).pix = gpix
    BY DEF Entry
  <2>2. data0' = data0 /\ gpix' = gpix
    BY DEF TrapFlush
  <2> QED BY <2>1, <2>2, FlushNothing DEF DataEnd, Passed
<1> QED BY <1>1, <1>2, StepMore

\* The host runs the call it is at.
LEMMA StepRun ==
  ASSUME Calls \cap OutOfStep = {}, Even(j), NEW e \in Entries, e.at = j, e.pix = hpix, Run(e)
  PROVE  /\ j + Words(processArgs(e.x, hpix).cb) = DataEnd(e) /\ hpix' = Passed(e)
         /\ ran'.end = DataEnd(ran') /\ ran'.x = e.x /\ ran'.at = e.at /\ ran'.pix = e.pix
         /\ ran'.store = store /\ ran'.area = area
<1>1. /\ ran'.x = e.x /\ ran'.at = e.at /\ ran'.pix = e.pix /\ ran'.store = store /\ ran'.area = area
      /\ ran'.end = j + Words(processArgs(e.x, hpix).cb)
      /\ hpix' = HostNoted(e.x, hpix)
  BY DEF Run
<1>2. j + Words(processArgs(e.x, hpix).cb) = DataEnd(e)
  BY EntryStep
<1>3. DataEnd(ran') = DataEnd(e)
  BY <1>1 DEF DataEnd
<1> QED BY <1>1, <1>2, <1>3 DEF HostNoted, Passed

LEMMA StepFifo ==
  ASSUME Calls \cap OutOfStep = {}, StepInv, processFifo PROVE StepInv'
<1>1. trap # <<>> /\ queue # <<>> /\ Run(Head(queue)) /\ queue' = Tail(queue)
      /\ j' = j + Words(processArgs(Head(queue).x, hpix).cb) /\ UNCHANGED <<data0, trap, gpix>>
  BY DEF processFifo
<1>2. PICK e \in Entries : e = Head(queue) /\ e = Pending[1]
  <2>1. queue \in Seq(Entries)
    BY DEF StepInv
  <2>2. Pending = Append(queue, trap[1])
    BY <1>1 DEF Pending
  <2>3. Head(queue) \in Entries /\ Head(queue) = Append(queue, trap[1])[1]
    BY <1>1, <2>1
  <2> QED BY <2>2, <2>3
<1>3. Pending \in Seq(Entries) /\ Pending # <<>> /\ Pending' = Tail(Pending)
  <2>1. queue \in Seq(Entries) /\ trap[1] \in Entries
    BY <1>1 DEF StepInv
  <2>2. Pending = Append(queue, trap[1]) /\ Pending' = Append(Tail(queue), trap[1])
    BY <1>1 DEF Pending
  <2>3. Append(queue, trap[1]) \in Seq(Entries) /\ Append(queue, trap[1]) # <<>>
        /\ Tail(Append(queue, trap[1])) = Append(Tail(queue), trap[1])
    BY <1>1, <2>1
  <2> QED BY <2>2, <2>3
<1>4. e.at = j /\ e.pix = hpix
  BY <1>2, <1>3 DEF StepInv, Chained
<1>5. /\ j' = DataEnd(e) /\ hpix' = Passed(e) /\ ran'.end = DataEnd(ran')
  BY <1>1, <1>2, <1>4, StepRun DEF StepInv
<1>6. Chained(j', hpix', Pending', data0', gpix')
  <2>1. Chained(j, hpix, Pending, data0, gpix)
    BY DEF StepInv
  <2>2. Chained(DataEnd(e), Passed(e), Tail(Pending), data0, gpix)
    BY <1>2, <1>3, <2>1, ChainedRest
  <2> QED BY <1>1, <1>3, <1>5, <2>2
<1>7. Even(j') /\ hpix' \in PixelState
  BY <1>5, EntryStep
<1>8. queue' \in Seq(Entries)
  <2>1. queue \in Seq(Entries)
    BY DEF StepInv
  <2> QED BY <1>1, <2>1
<1> QED BY <1>1, <1>5, <1>6, <1>7, <1>8 DEF StepInv

LEMMA StepEnd ==
  ASSUME Calls \cap OutOfStep = {}, StepInv, EndTrap PROVE StepInv'
<1>1. trap # <<>> /\ queue = <<>> /\ queue' = <<>> /\ trap' = <<>> /\ gpix' = gpix
      /\ data0' = DataStart /\ j' = DataStart
  BY DEF EndTrap
<1>2. PICK e \in Entries : trap = <<e>> /\ trap[1] = e
  BY <1>1 DEF StepInv
<1>3. e.at = j /\ e.pix = hpix /\ Passed(e) = gpix
  <2>1. Pending = <<e>>
    BY <1>1, <1>2 DEF Pending
  <2>2. Chained(j, hpix, <<e>>, data0, gpix)
    BY <2>1 DEF StepInv
  <2>3. <<e>> # <<>> /\ <<e>>[1] = e /\ Len(<<e>>) = 1
    OBVIOUS
  <2> QED BY <2>2, <2>3 DEF Chained
<1>4. hpix' = gpix /\ ran'.end = DataEnd(ran')
  <2>1. CASE e.x = Flush
    <3>1. hpix' = hpix /\ ran' = ran
      BY <1>2, <2>1 DEF EndTrap
    <3>2. Passed(e) = hpix
      BY <1>3, <2>1, FlushNothing DEF Passed
    <3> QED BY <1>3, <3>1, <3>2 DEF StepInv
  <2>2. CASE e.x # Flush
    <3>1. Run(e)
      BY <1>2, <2>2 DEF EndTrap
    <3> QED BY <1>3, <3>1, StepRun DEF StepInv
  <2> QED BY <2>1, <2>2
<1>5. Pending' = <<>> /\ Chained(j', hpix', Pending', data0', gpix')
  BY <1>1, <1>4 DEF Pending, Chained
<1>6. Even(j') /\ Even(data0') /\ gpix' \in PixelState
  BY <1>1, StartEven DEF StepInv
<1> QED BY <1>1, <1>4, <1>5, <1>6 DEF StepInv

LEMMA StepNext ==
  ASSUME Calls \cap OutOfStep = {}, StepInv, [Next]_vars PROVE StepInv'
<1>1. CASE trap = <<>> /\ \E x \in Calls : QueueCall(x) \/ TrapCall(x)
  BY <1>1, StepCall
<1>2. CASE TrapFlush
  BY <1>2, StepFlush
<1>3. CASE processFifo
  BY <1>3, StepFifo
<1>4. CASE EndTrap
  BY <1>4, StepEnd
<1>5. CASE UNCHANGED vars
  <2>1. Pending' = Pending
    BY <1>5 DEF vars, Pending
  <2> QED BY <1>5, <2>1 DEF StepInv, vars
<1> QED BY <1>1, <1>2, <1>3, <1>4, <1>5 DEF Next

\* As long as the application makes none of the calls listed as out of step, the
\* host stands where the guest put each call's data, and takes that and no more.
THEOREM SidesInStep == ASSUME Calls \cap OutOfStep = {} PROVE Spec => []InStep
<1>1. Init => StepInv
  BY StepInit
<1>2. StepInv /\ [Next]_vars => StepInv'
  BY StepNext
<1>3. StepInv => InStep
  <2> SUFFICES ASSUME StepInv PROVE InStep
    OBVIOUS
  <2>1. ASSUME trap # <<>>, queue # <<>> PROVE j = Head(queue).at
    <3>1. queue \in Seq(Entries) /\ Pending = Append(queue, trap[1])
      BY <2>1 DEF StepInv, Pending
    <3>2. Pending # <<>> /\ Pending[1] = Head(queue)
      BY <2>1, <3>1
    <3> QED BY <3>2 DEF StepInv, Chained
  <2>2. ASSUME trap # <<>>, queue = <<>> PROVE j = trap[1].at
    <3>1. Pending = Append(<<>>, trap[1])
      BY <2>2 DEF Pending
    <3>2. Pending # <<>> /\ Pending[1] = trap[1]
      BY <3>1
    <3> QED BY <3>2 DEF StepInv, Chained
  <2> QED BY <2>1, <2>2 DEF InStep, StepInv
<1> HIDE DEF StepInv, InStep, Init, Next, vars
<1> QED BY <1>1, <1>2, <1>3, PTL DEF Spec

-----------------------------------------------------------------------------
(* ---- Types, whatever the application calls. ----------------------------- *)

SizedCall(x, g) == Sized(Chunks(x, g)) /\ processArgs(x, g).cb \in Nat

LEMMA OneSized == ASSUME NEW a, NEW cb \in Nat PROVE Sized(<<Chunk(a, cb)>>)
BY DEF Sized, Chunk

\* The calls out of step, too, bring so many bytes and have so many taken.
LEMMA OutSized == ASSUME NEW x \in OutOfStep, NEW g PROVE SizedCall(x, g)
<1> DEFINE sz == SizeOf(x.t)
<1>1. sz \in Nat
  BY Sizes8
<1>2. CASE x \in Vectors
  <2>1. x.c \in 1 .. 4 /\ x.n \in 0 .. 1
    BY <1>2, VectorShape
  <2>2. Chunks(x, g) = VectorChunks(x) /\ processArgs(x, g) = HostVector(x)
    BY <1>2, VectorCalls
  <2>3. ALIGNED(x.c * sz) \in Nat
    <3>1. x.c * sz \in Nat
      BY <1>1, <2>1
    <3> QED BY <3>1, AlignedNat
  <2>4. Sized(Chunks(x, g))
    <3>1. x.n = 0 => Chunks(x, g) = <<>>
      BY <2>2 DEF VectorChunks
    <3>2. x.n # 0 => Chunks(x, g) = <<Chunk(VectorArg(x.f), ALIGNED(x.c * sz))>>
      BY <2>2 DEF VectorChunks
    <3>3. Sized(<<>>)
      BY DEF Sized
    <3> QED BY <2>3, <3>1, <3>2, <3>3, OneSized
  <2>5. processArgs(x, g).cb \in Nat
    <3> DEFINE cb == IF x.c * sz <= 8 THEN ALIGNED(1)
                     ELSE IF x.t = "d" THEN x.c * 8 ELSE IF x.c = 3 THEN ALIGNED(3 * 4) ELSE 4 * 4
    <3>1. cb \in Nat /\ ALIGNED(1) \in Nat
      BY <2>1, AlignedNat
    <3>2. HostVector(x).cb \in {0, ALIGNED(1), cb}
      <4>1. CASE x.n = 0
        BY <4>1 DEF HostVector, Args, Nothing
      <4>2. CASE x.n # 0 /\ x.f = "TexCoord" /\ x.c = 1
        BY <4>2 DEF HostVector, Args, Nothing
      <4>3. CASE x.n # 0 /\ x.f = "Index" /\ x.t = "ub"
        BY <4>3 DEF HostVector, Args
      <4>4. CASE x.n # 0 /\ ~(x.f = "TexCoord" /\ x.c = 1) /\ ~(x.f = "Index" /\ x.t = "ub")
        BY <4>4 DEF HostVector, Args
      <4> QED BY <4>1, <4>2, <4>3, <4>4
    <3> HIDE DEF cb
    <3> QED BY <2>2, <3>1, <3>2
  <2> QED BY <2>4, <2>5 DEF SizedCall
<1>3. CASE x \in glVertexAttribs \cup glRequestResidentPrograms
  <2>0. x \in Arrays /\ x.f \in {"VertexAttribs", "RequestResident"}
    BY <1>3, OfFamily DEF Arrays, glVertexAttribs, glRequestResidentPrograms
  <2>1. x.n \in Nat /\ x.c \in Nat
    BY <2>0, ArrayShape DEF ArrayShapeOf
  <2>2. ArrayBytes(x) \in Nat
    BY <1>1, <2>1 DEF ArrayBytes, szgldata
  <2>3. Chunks(x, g) = <<Chunk(ArrayArg(x), ArrayBytes(x))>>
    <3>1. ArrayChunks(x) = <<Chunk(ArrayArg(x), ArrayBytes(x))>>
      BY <2>0 DEF ArrayChunks, RoundedArrays
    <3> QED BY <2>0, <3>1, ArrayCalls
  <2>4. processArgs(x, g).cb = 0
    <3>1. processArgs(x, g) = HostArray(x)
      BY <2>0, ArrayCalls
    <3> QED BY <2>0, <3>1 DEF HostArray, Nothing, Args
  <2> QED BY <2>2, <2>3, <2>4, OneSized DEF SizedCall
<1>4. CASE x \in glColorTableParameter
  <2>0. x \in Values /\ x.f = "ColorTableParameter" /\ x.n \in {1, 4}
    BY <1>4, OfFamily DEF Values, glColorTableParameter
  <2>1. ALIGNED(x.n * sz) \in Nat
    <3>1. x.n * sz \in Nat
      BY <1>1, <2>0
    <3> QED BY <3>1, AlignedNat
  <2>2. Chunks(x, g) = <<Chunk(ParameterArg(x.f), ALIGNED(x.n * sz))>>
    <3>1. ValueChunks(x) = <<Chunk(ParameterArg(x.f), ALIGNED(x.n * sz))>>
      BY <2>0 DEF ValueChunks
    <3> QED BY <2>0, <3>1, ValueCalls
  <2>3. processArgs(x, g).cb = 0
    <3>1. processArgs(x, g) = HostParameter(x)
      BY <2>0, ValueCalls DEF ClearNames
    <3> QED BY <2>0, <3>1 DEF HostParameter, Nothing, Args
  <2> QED BY <2>1, <2>2, <2>3, OneSized DEF SizedCall
<1>5. CASE x \in glClearBuffer
  <2>0. x \in Values /\ x.f = "ClearBuffer" /\ x.n = 1 /\ x.c \in {1, 4}
    BY <1>5, OfFamily DEF Values, glClearBuffer
  <2>1. Chunks(x, g) = <<Chunk(2, x.c * 4)>>
    <3>1. ValueChunks(x) = <<Chunk(2, x.c * 4)>>
      BY <2>0 DEF ValueChunks
    <3> QED BY <2>0, <3>1, ValueCalls
  <2>2. processArgs(x, g).cb = x.c * 4
    <3>1. processArgs(x, g) = HostClearBuffer(x)
      BY <2>0, ValueCalls DEF ClearNames
    <3> QED BY <3>1 DEF HostClearBuffer, Args
  <2>3. x.c * 4 \in Nat
    BY <2>0
  <2> QED BY <2>1, <2>2, <2>3, OneSized DEF SizedCall
<1>6. CASE x \in glTransformFeedbackVaryings
  <2>0. x \in Strings /\ x.f = "Varyings" /\ x.n \in Nat \ {0} /\ x.c \in Nat
    BY <1>6, StringShape, OfFamily DEF Strings, StringShapeOf, glTransformFeedbackVaryings
  <2> DEFINE F == [i \in 1 .. x.c |-> String(i)]
             cb == ALIGNED(x.n - 1)
             db == ALIGNED(x.c * 4)
             texts == [i \in 1 .. x.c |-> Chunk(String(i), cb)]
  <2>1. Chunks(x, g) = texts \o <<Chunk(2, db)>>
    <3>1. Chunks(x, g) = VaryingsChunks(x)
      BY <2>0, StringCalls
    <3> QED BY <3>1 DEF VaryingsChunks
  <2>2. processArgs(x, g).cb = x.c * ALIGNED(x.n + 1) + db
    <3>1. processArgs(x, g) = HostVaryings(x)
      BY <2>0, StringCalls
    <3> QED BY <3>1 DEF HostVaryings, Args
  <2>3. cb \in Nat /\ db \in Nat /\ ALIGNED(x.n + 1) \in Nat
    BY <2>0, AlignedNat
  <2>4. texts = [i \in 1 .. x.c |-> Chunk(F[i], cb)]
    OBVIOUS
  <2> HIDE DEF F, cb, db, texts
  <2>5. Row(Chunks(x, g), x.c, cb, db)
    BY <2>0, <2>1, <2>4, RowOf
  <2>6. Sized(Chunks(x, g))
    BY <2>0, <2>3, <2>5, RowSized
  <2> QED BY <2>0, <2>2, <2>3, <2>6 DEF SizedCall
<1>7. CASE x \in glShaderSourceARB
  <2>0. x \in Strings /\ x.f = "ShaderSourceARB" /\ x.n \in Nat /\ x.c \in Nat /\ x.t \in {"b", "i"}
    BY <1>7, StringShape, OfFamily DEF Strings, StringShapeOf, glShaderSourceARB
  <2>1. Chunks(x, g) = ShaderSourceChunks(x) /\ processArgs(x, g) = HostShaderSource(x)
    BY <2>0, StringCalls
  <2> DEFINE db == ALIGNED(x.c * 4)
  <2>2. ALIGNED(1) \in Nat /\ db \in Nat /\ x.c * ALIGNED(1) \in Nat
    BY <2>0, AlignedNat
  <2>3. CASE x.t = "b"
    <3> DEFINE F == [i \in 1 .. x.c |-> String(i)]
               cb == ALIGNED(x.n + 1)
               texts == [i \in 1 .. x.c |-> Chunk(String(i), cb)]
    <3>1. ShaderSourceChunks(x) = texts \o <<Chunk(2, db)>>
      BY <2>0, <2>3 DEF ShaderSourceChunks
    <3>2. HostShaderSource(x).cb = x.c * cb + x.c * ALIGNED(1)
      BY <2>3 DEF HostShaderSource, Args
    <3>3. cb \in Nat
      BY <2>0, AlignedNat
    <3>4. texts = [i \in 1 .. x.c |-> Chunk(F[i], cb)]
      OBVIOUS
    <3> HIDE DEF F, cb, db, texts
    <3>5. Row(Chunks(x, g), x.c, cb, db)
      BY <2>0, <2>1, <3>1, <3>4, RowOf
    <3>6. Sized(Chunks(x, g))
      BY <2>0, <2>2, <3>3, <3>5, RowSized
    <3> QED BY <2>0, <2>1, <2>2, <3>2, <3>3, <3>6 DEF SizedCall
  <2>4. CASE x.t = "i"
    <3> DEFINE F == [k \in 1 .. 2 * x.c |-> String((k + 1) \div 2)]
               cb == ALIGNED(x.n)
               tb == ALIGNED(1)
               texts == [k \in 1 .. 2 * x.c |-> IF k % 2 = 1 THEN Chunk(String((k + 1) \div 2), cb)
                                                 ELSE Chunk(Own, tb)]
    <3>1. ShaderSourceChunks(x) = (<<Chunk(3, db)>> \o texts) \o <<Chunk(2, db)>>
      BY <2>0, <2>4 DEF ShaderSourceChunks
    <3>2. HostShaderSource(x).cb = x.c * (cb + tb) + x.c * ALIGNED(1) + db
      BY <2>4 DEF HostShaderSource, Args
    <3>3. cb \in Nat
      BY <2>0, AlignedNat
    <3>4. texts = [k \in 1 .. 2 * x.c |-> IF k % 2 = 1 THEN Chunk(F[k], cb) ELSE Chunk(Own, tb)]
      OBVIOUS
    <3>5. x.c \in Nat /\ tb \in Nat
      BY <2>0, <2>2
    <3> HIDE DEF F, cb, tb, db, texts
    <3>6. Pairs((<<Chunk(3, db)>> \o texts) \o <<Chunk(2, db)>>, x.c, db, cb, tb, db)
      BY ONLY <3>4, <3>5, PairsOf
    <3>7. Sized(Chunks(x, g))
      BY <2>1, <2>2, <3>1, <3>3, <3>5, <3>6, PairsSized
    <3>8. x.c * (cb + tb) \in Nat
      BY <3>3, <3>5
    <3> QED BY <2>1, <2>2, <3>2, <3>7, <3>8 DEF SizedCall
  <2> QED BY <2>0, <2>3, <2>4
<1> QED BY <1>2, <1>3, <1>4, <1>5, <1>6, <1>7 DEF OutOfStep, Vectors

LEMMA CallsSized ==
  ASSUME NEW x, x \in AllCalls \/ x = Flush, NEW g \in PixelState PROVE SizedCall(x, g)
<1>1. CASE x \in OutOfStep
  BY <1>1, OutSized
<1>2. CASE x \notin OutOfStep
  BY <1>2, CallsInStep DEF InStepCall, SizedCall
<1> QED BY <1>1, <1>2

\* What parg[] may hold.
Pointer(p) ==
  p[1] \in {"data", "out", "area", "front", "arg", "colour", "null"} /\ p[2] \in Nat
Pointers(ptr) == \A k \in DOMAIN ptr : Pointer(ptr[k])

LEMMA SomePointers ==
  /\ Pointer(Given) /\ Pointer(Null) /\ Pointer(<<"colour", 0>>)
  /\ \A off \in Nat : Pointer(Data(off)) /\ Pointer(Out(off)) /\ Pointer(Area(off)) /\ Pointer(AreaFront(off))
BY DEF Pointer, Given, Null, Data, Out, Area, AreaFront

LEMMA PointersNone == \A cb : Pointers(Args(cb, <<>>).ptr)
BY DEF Pointers, Args

LEMMA PointersAt == ASSUME NEW slots, NEW p, Pointer(p) PROVE Pointers(At(slots, p))
BY DEF Pointers, At

LEMMA PointersBoth == ASSUME NEW f, NEW g, Pointers(f), Pointers(g) PROVE Pointers(Both(f, g))
BY DEF Pointers, Both

LEMMA ArgsOf == ASSUME NEW cb, NEW ptr PROVE Args(cb, ptr).cb = cb /\ Args(cb, ptr).ptr = ptr
BY DEF Args

LEMMA HostVectorTyped == ASSUME NEW x PROVE Pointers(HostVector(x).ptr)
<1>1. Pointers(At({0}, <<"colour", 0>>)) /\ Pointers(At({0}, Data(0))) /\ Pointers(At({0, 1}, Data(0)))
  BY PointersAt, SomePointers
<1>2. CASE x.n = 0
  BY <1>1, <1>2, PointersNone, ArgsOf DEF HostVector, Nothing
<1>3. CASE x.n # 0 /\ x.f = "TexCoord" /\ x.c = 1
  BY <1>3, PointersNone DEF HostVector, Nothing
<1>4. CASE x.n # 0 /\ x.f = "Index" /\ x.t = "ub"
  BY <1>1, <1>4, ArgsOf DEF HostVector
<1>5. CASE x.n # 0 /\ ~(x.f = "TexCoord" /\ x.c = 1) /\ ~(x.f = "Index" /\ x.t = "ub")
  BY <1>1, <1>5, ArgsOf DEF HostVector
<1> QED BY <1>2, <1>3, <1>4, <1>5

LEMMA HostArraysTyped ==
  ASSUME NEW x, x.n \in Nat
  PROVE  /\ Pointers(HostUniform(x).ptr) /\ Pointers(HostRect(x).ptr) /\ Pointers(HostMap(x).ptr)
         /\ x.f \in ArrayNames => Pointers(HostArray(x).ptr)
<1>1. \A slots : Pointers(At(slots, Data(0)))
  BY PointersAt, SomePointers
<1>2. Pointers(HostUniform(x).ptr)
  BY <1>1, ArgsOf DEF HostUniform
<1>3. Pointers(HostRect(x).ptr)
  <2> DEFINE corner == IF x.t = "d" THEN 8 ELSE ALIGNED(SizeOf(x.t))
  <2>1. corner \in Nat
    BY Sizes8, AlignedNat
  <2>2. Pointers(At({1}, Data(corner)))
    BY <2>1, PointersAt, SomePointers
  <2>3. Pointers(Both(At({0}, Data(0)), At({1}, Data(corner))))
    BY <1>1, <2>2, PointersBoth
  <2> QED BY <2>3, ArgsOf DEF HostRect
<1>4. Pointers(HostMap(x).ptr)
  BY <1>1, ArgsOf DEF HostMap
<1>5. ASSUME x.f \in ArrayNames PROVE Pointers(HostArray(x).ptr)
  <2>1. CASE x.f \in {"PrioritizeTextures", "AreResident"}
    <3>1. ALIGNED(x.n * 4) \in Nat
      BY AlignedNat
    <3>2. Pointers(At({2}, Data(ALIGNED(x.n * 4)))) /\ Pointers(At({2}, Out(0)))
      BY <3>1, PointersAt, SomePointers
    <3>3. /\ Pointers(Both(At({1}, Data(0)), At({2}, Data(ALIGNED(x.n * 4)))))
          /\ Pointers(Both(At({1}, Data(0)), At({2}, Out(0))))
      BY <1>1, <3>2, PointersBoth
    <3> QED BY <2>1, <3>3, ArgsOf DEF HostArray
  <2>2. CASE x.f \in {"VertexAttribs", "RequestResident", "Uniform", "UniformMatrix", "Rect", "Map1", "Map2"}
    <3>1. HostArray(x) = Nothing
      BY <2>2 DEF HostArray
    <3> QED BY <3>1, PointersNone DEF Nothing
  <2>3. CASE x.f \in {"LoadMatrix", "ClipPlane", "Indexed", "ProgramParameter", "ProgramParameters", "Delete",
                      "Bind", "CallLists", "Weight", "PixelMap", "ColorTable", "DrawIndirect"}
    <3>1. \E cb, slots : HostArray(x) = Args(cb, At(slots, Data(0)))
      BY <2>3 DEF HostArray
    <3> QED BY <1>1, <3>1, ArgsOf
  <2> QED BY <1>5, <2>1, <2>2, <2>3 DEF ArrayNames
<1> QED BY <1>2, <1>3, <1>4, <1>5

LEMMA HostValuesTyped ==
  ASSUME NEW x
  PROVE  Pointers(HostParameter(x).ptr) /\ Pointers(HostClearBuffer(x).ptr) /\ Pointers(HostClearData(x).ptr)
<1>1. \A slots : Pointers(At(slots, Data(0))) /\ Pointers(At(slots, Null))
  BY PointersAt, SomePointers
<1>2. Pointers(HostParameter(x).ptr)
  BY <1>1, PointersNone, ArgsOf DEF HostParameter, Nothing
<1>3. Pointers(HostClearBuffer(x).ptr)
  BY <1>1, ArgsOf DEF HostClearBuffer
<1>4. Pointers(HostClearData(x).ptr)
  BY <1>1, ArgsOf DEF HostClearData
<1> QED BY <1>2, <1>3, <1>4

LEMMA HostStringsTyped ==
  ASSUME NEW x, x.n \in Nat, x.c \in Nat, x.f = "ProgramString" => x.c # 0
  PROVE  /\ Pointers(HostName(x).ptr) /\ Pointers(HostProgram(x).ptr) /\ Pointers(HostVaryings(x).ptr)
         /\ Pointers(HostShaderSource(x).ptr)
<1>1. \A slots : Pointers(At(slots, Data(0))) /\ Pointers(At(slots, Null))
  BY PointersAt, SomePointers
<1>2. Pointers(HostName(x).ptr)
  BY <1>1, ArgsOf DEF HostName
<1>3. ALIGNED(x.n) \in Nat /\ ALIGNED(x.n + 1) \in Nat /\ ALIGNED(1) \in Nat
  BY AlignedNat
<1>4. Pointers(HostProgram(x).ptr)
  <2>1. Pointers(At({3}, Data(ALIGNED(x.n))))
    BY <1>3, PointersAt, SomePointers
  <2>2. Pointers(Both(At({2}, Data(0)), At({3}, Data(ALIGNED(x.n)))))
    BY <1>1, <2>1, PointersBoth
  <2>3. CASE x.f = "ProgramString" /\ x.c # 0
    BY <1>1, <2>3, ArgsOf DEF HostProgram
  <2>4. CASE x.f # "ProgramString" /\ x.c = 0
    BY <1>1, <2>4, ArgsOf DEF HostProgram
  <2>5. CASE x.f # "ProgramString" /\ x.c # 0
    BY <2>2, <2>5, ArgsOf DEF HostProgram
  <2> QED BY <2>3, <2>4, <2>5
<1>5. Pointers(HostVaryings(x).ptr)
  <2>1. x.c * ALIGNED(x.n + 1) \in Nat
    BY <1>3
  <2>2. Pointers(At({2}, Data(x.c * ALIGNED(x.n + 1))))
    BY <2>1, PointersAt, SomePointers
  <2> QED BY <2>2, ArgsOf DEF HostVaryings
<1>6. Pointers(HostShaderSource(x).ptr)
  <2>1. /\ x.c * (ALIGNED(x.n) + ALIGNED(1)) \in Nat
        /\ x.c * ALIGNED(x.n + 1) \in Nat
    BY <1>3
  <2>2. /\ Pointers(At({2}, Data(x.c * (ALIGNED(x.n) + ALIGNED(1)))))
        /\ Pointers(At({2}, Data(x.c * ALIGNED(x.n + 1))))
    BY <2>1, PointersAt, SomePointers
  <2>3. /\ Pointers(Both(At({2}, Data(x.c * (ALIGNED(x.n) + ALIGNED(1)))), At({3}, Data(0))))
        /\ Pointers(Both(At({2}, Data(x.c * ALIGNED(x.n + 1))), At({3}, Null)))
    BY <1>1, <2>2, PointersBoth
  <2> QED BY <2>3, ArgsOf DEF HostShaderSource
<1> QED BY <1>2, <1>4, <1>5, <1>6

LEMMA HostAnswersTyped == ASSUME NEW x PROVE Pointers(HostAnswer(x).ptr)
<1>1. \A off \in Nat : \A slots : Pointers(At(slots, Out(off)))
  BY PointersAt, SomePointers
<1>2. ALIGNED(4) = 8
  BY DEF ALIGNED
<1>3. /\ Pointers(Both(At({3}, Out(0)), At({0}, Out(8))))
      /\ Pointers(Both(At({2}, Out(0)), At({3}, Out(8))))
      /\ Pointers(Both(At({3}, Out(0)), Both(At({0}, Out(8)), Both(At({1}, Out(16)), At({2}, Out(24))))))
  BY <1>1, PointersBoth
<1>4. CASE x.f \in {"Gen", "GetClipPlane", "GetInternalformat"}
  <2>1. \E slots : HostAnswer(x) = Args(0, At(slots, Out(0)))
    BY <1>4 DEF HostAnswer
  <2> QED BY <1>1, <2>1, ArgsOf
<1>5. CASE x.f \in {"Getv", "GetBooleanv"}
  <2>1. \E slots : HostAnswer(x) = Args(0, At(slots, Out(8)))
    BY <1>2, <1>5 DEF HostAnswer
  <2> QED BY <1>1, <2>1, ArgsOf
<1>6. CASE x.f \in {"GetActiveUniform", "GetActiveUniformName", "GetAttachedShaders", "GetInfoLog"}
  BY <1>3, <1>6, ArgsOf DEF HostAnswer
<1>7. CASE x.f \in {"DebugMessageInsert", "GetString"}
  BY <1>7, PointersNone DEF HostAnswer
<1>8. CASE x.f \notin {"Gen", "GetClipPlane", "GetInternalformat", "Getv", "GetBooleanv", "GetActiveUniform",
                       "GetActiveUniformName", "GetAttachedShaders", "GetInfoLog", "DebugMessageInsert", "GetString"}
  <2>1. HostAnswer(x) = Nothing
    BY <1>8 DEF HostAnswer
  <2> QED BY <2>1, PointersNone DEF Nothing
<1> QED BY <1>4, <1>5, <1>6, <1>7, <1>8

LEMMA HostPixelsTyped ==
  ASSUME NEW x \in PixelTransfers, NEW g \in PixelState PROVE Pointers(HostPixels(x, g).ptr)
<1>0. PixelShapeOf(x) /\ x.n \in Nat /\ FbtSize \in Nat
  BY PixelShape, PixelAssumption DEF PixelShapeOf
<1>1. \A slots : /\ Pointers(At(slots, Data(0))) /\ Pointers(At(slots, Null)) /\ Pointers(At(slots, Given))
                 /\ \A off \in Nat : Pointers(At(slots, Area(off))) /\ Pointers(At(slots, AreaFront(off)))
  BY PointersAt, SomePointers
<1>2. /\ ALIGNED(SZFBT_VALID(x.n)) \in Nat /\ ALIGNED(SZFBT_VALID(ImageBytes(x, g))) \in Nat
      /\ ALIGNED(1) \in Nat
  BY <1>0, ImageNat, AlignedNat DEF SZFBT_VALID
<1>3. CASE x.f \in {"DrawPixels", "PolygonStipple"}
  <2>1. HostPixels(x, g) = HostDrawPixels(x, g)
    BY <1>3 DEF HostPixels, Buffers
  <2> QED BY <1>1, <2>1, ArgsOf DEF HostDrawPixels
<1>4. CASE x.f \in {"TexImage", "TexSubImage", "Bitmap"}
  <2> DEFINE p == IF Unpacks(x, g) THEN Given ELSE IF x.n = 0 THEN Null
                  ELSE Area(ALIGNED(SZFBT_VALID(ImageBytes(x, g))))
  <2>1. HostPixels(x, g) = HostTexImage(x, g)
    BY <1>4 DEF HostPixels, Buffers
  <2>2. \A slots : Pointers(At(slots, p))
    BY <1>1, <1>2
  <2>3. \E slots : HostTexImage(x, g) = Args(0, At(slots, p))
    BY DEF HostTexImage
  <2> HIDE DEF p
  <2> QED BY <2>1, <2>2, <2>3, ArgsOf
<1>5. CASE x.f \in {"CompressedTexImage", "CompressedTexSubImage"}
  <2> DEFINE p == IF Unpacks(x, g) THEN Given ELSE Area(ALIGNED(SZFBT_VALID(x.n)))
  <2>1. HostPixels(x, g) = HostCompressedTexImage(x, g)
    BY <1>5 DEF HostPixels, Buffers
  <2>2. \A slots : Pointers(At(slots, p))
    BY <1>1, <1>2
  <2>3. HostCompressedTexImage(x, g) = Args(0, At({PixelArg(x) % 4}, p))
    BY DEF HostCompressedTexImage
  <2> HIDE DEF p
  <2> QED BY <2>1, <2>2, <2>3, ArgsOf
<1>6. CASE x.f \in Buffers
  <2> DEFINE place == IF x.n = 0 THEN Null ELSE Area(ALIGNED(SZFBT_VALID(x.n)))
  <2>1. HostPixels(x, g) = HostBufferData(x)
    BY <1>6 DEF HostPixels, Buffers
  <2>2. \A slots : Pointers(At(slots, place))
    BY <1>1, <1>2
  <2>3. HostBufferData(x) = Args(0, IF x.f = "BufferData" THEN Both(At({1}, Given), At({2}, place))
                                    ELSE Both(At({1, 2}, Given), At({3}, place)))
    BY DEF HostBufferData
  <2> HIDE DEF place
  <2>4. Pointers(Both(At({1}, Given), At({2}, place))) /\ Pointers(Both(At({1, 2}, Given), At({3}, place)))
    BY <1>1, <2>2, PointersBoth
  <2> QED BY <2>1, <2>3, <2>4, ArgsOf
<1>7. CASE x.f \in {"ReadPixels", "GetTexImage", "GetCompressedTexImage"}
  <2> DEFINE p == IF Packs(x, g) THEN Given ELSE IF x.f = "ReadPixels" THEN AreaFront(0) ELSE AreaFront(ALIGNED(1))
  <2>1. HostPixels(x, g) = HostReadPixels(x, g)
    BY <1>7 DEF HostPixels, Buffers
  <2>2. \A slots : Pointers(At(slots, p))
    BY <1>1, <1>2
  <2>3. HostReadPixels(x, g) = Args(0, At({PixelArg(x) % 4}, p))
    BY DEF HostReadPixels
  <2> HIDE DEF p
  <2> QED BY <2>1, <2>2, <2>3, ArgsOf
<1> QED BY <1>0, <1>3, <1>4, <1>5, <1>6, <1>7 DEF PixelShapeOf, Buffers

LEMMA HostTyped ==
  ASSUME NEW x, x \in AllCalls \/ x = Flush, NEW g \in PixelState PROVE Pointers(processArgs(x, g).ptr)
<1>1. CASE x \in Vectors
  BY <1>1, VectorCalls, HostVectorTyped
<1>2. CASE x \in Arrays \cup glAreResident
  <2>1. x.n \in Nat /\ x.f \in ArrayNames
    BY <1>2, ArrayShape DEF ArrayShapeOf, ArrayNames
  <2>2. processArgs(x, g) \in {HostUniform(x), HostRect(x), HostMap(x), HostArray(x)}
    BY <1>2, ArrayCalls
  <2> QED BY <2>1, <2>2, HostArraysTyped
<1>3. CASE x \in Values
  <2>1. processArgs(x, g) \in {HostClearData(x), HostClearBuffer(x), HostParameter(x)}
    BY <1>3, ValueCalls
  <2> QED BY <2>1, HostValuesTyped
<1>4. CASE x \in Strings
  <2>1. x.n \in Nat /\ x.c \in Nat /\ (x.f = "ProgramString" => x.c # 0)
    BY <1>4, StringShape DEF StringShapeOf
  <2>2. processArgs(x, g) \in {HostName(x), HostProgram(x), HostVaryings(x), HostShaderSource(x)}
    BY <1>4, StringCalls
  <2> QED BY <2>1, <2>2, HostStringsTyped
<1>5. CASE x \in Asking \ glAreResident
  <2>1. x.n \in Nat /\ x.c \in Nat /\ x.f # "ProgramString"
    BY <1>5, AskingShape DEF AskingShapeOf
  <2>2. processArgs(x, g) \in {HostName(x), HostAnswer(x)}
    BY <1>5, AskingCalls
  <2> QED BY <2>1, <2>2, HostStringsTyped, HostAnswersTyped
<1>6. CASE x \in Settings \/ x = Flush
  <2>1. Pointers(At({1}, Data(0)))
    BY PointersAt, SomePointers
  <2>2. processArgs(x, g) \in {Args(ALIGNED(x.n * 4), At({1}, Data(0))), Nothing}
    BY <1>6, SettingCalls
  <2> QED BY <2>1, <2>2, PointersNone, ArgsOf DEF Nothing
<1>7. CASE x \in PixelTransfers
  BY <1>7, PixelCallsOf, HostPixelsTyped
<1> QED BY <1>1, <1>2, <1>3, <1>4, <1>5, <1>6, <1>7 DEF AllCalls

\* What is sent or read is a pixel transfer.
LEMMA TransferByName ==
  ASSUME NEW x \in AllCalls, x.f \in PixelNames PROVE x \in PixelTransfers
<1>1. x \in Vectors => x.f \in VectorNames
  BY VectorShape
<1>2. x \in Arrays => x.f \in ArrayNames
  BY ArrayShape DEF ArrayShapeOf, ArrayNames
<1>3. x \in Values => x.f \in ValueNames
  BY ValueShape DEF ValueShapeOf, ValueNames, ClearNames
<1>4. x \in Strings => x.f \in StringNames
  BY StringShape DEF StringShapeOf, StringNames
<1>5. x \in Asking => x.f \in AskingNames
  BY AskingShape DEF AskingShapeOf, AskingNames
<1>6. x \in Settings => x.f \in SettingNames
  BY SettingShape DEF SettingShapeOf, SettingNames
<1> QED
  BY <1>1, <1>2, <1>3, <1>4, <1>5, <1>6 DEF AllCalls, VectorNames, ArrayNames, ValueNames, ClearNames,
     StringNames, AskingNames, SettingNames, PixelNames, SendNames, ReadNames

Copied(r) == r.back \in Nat /\ r.len \in 0 .. FbtSize

LEMMA FbtCopied == ASSUME NEW back \in Nat, NEW len \in Nat PROVE Copied(FBTMMCPY(back, len))
BY PixelAssumption DEF Copied, FBTMMCPY

\* A pixel is no longer than an image with a row length.
LEMMA SkipFits ==
  ASSUME NEW x, NEW g \in PixelState, g.unpackWidth # 0
  PROVE  XOffset * PixelSize(x.t) <= ImageBytes(x, g)
<1>1. PICK w \in Nat \ {0} : w = g.unpackWidth
  BY DEF PixelState
<1>2. PICK r \in Nat \ {0} : r = CASE x.c = 1 -> 1 [] x.c = 2 -> Rows
                                   [] OTHER -> IF g.unpackHeight = 0 THEN Rows ELSE g.unpackHeight
  BY DEF PixelState, Rows
<1>3. PICK p \in Nat : p = PixelSize(x.t)
  BY PixelSizes
<1>4. ImageBytes(x, g) = w * r * p
  BY <1>1, <1>2, <1>3 DEF ImageBytes
<1>5. 1 * p <= w * r * p
  <2>1. w * r \in Nat /\ 1 <= w * r
    BY <1>1, <1>2
  <2>2. \A q \in Nat : 1 <= q => 1 * p <= q * p
    BY <1>3
  <2> QED BY <2>1, <2>2
<1> QED BY <1>3, <1>4, <1>5 DEF XOffset

LEMMA CopiedTyped ==
  ASSUME NEW x \in PixelTransfers, NEW g \in PixelState PROVE Copied(PixelsCopied(x, g))
<1>0. x.n \in Nat /\ FbtSize \in Nat
  BY PixelShape, PixelAssumption DEF PixelShapeOf
<1>1. ImageBytes(x, g) \in Nat
  BY <1>0, ImageNat
<1>2. CASE x.n = 0 \/ Unpacks(x, g)
  BY <1>2, FbtCopied DEF PixelsCopied
<1>3. CASE ~(x.n = 0 \/ Unpacks(x, g)) /\ x.f = "TexSubImage"
  <2> DEFINE size == ImageBytes(x, g)
             skip == IF g.unpackWidth # 0 THEN XOffset * PixelSize(x.t) ELSE 0
  <2>1. PixelsCopied(x, g) = FBTMMCPY(ALIGNED(size), size - skip)
    BY <1>3 DEF PixelsCopied
  <2>2. skip \in Nat /\ skip <= size
    BY <1>1, PixelSizes, SkipFits DEF XOffset
  <2>3. ALIGNED(size) \in Nat /\ size - skip \in Nat
    <3> HIDE DEF skip, size
    <3>1. size \in Nat
      BY <1>1 DEF size
    <3> QED BY <2>2, <3>1, AlignedNat
  <2> HIDE DEF size, skip
  <2> QED BY <2>1, <2>3, FbtCopied
<1>4. CASE ~(x.n = 0 \/ Unpacks(x, g)) /\ x.f \in {"TexImage", "Bitmap"}
  <2>1. PixelsCopied(x, g) = FBTMMCPY(ALIGNED(ImageBytes(x, g)), ImageBytes(x, g))
    BY <1>4 DEF PixelsCopied
  <2>2. ALIGNED(ImageBytes(x, g)) \in Nat
    BY <1>1, AlignedNat
  <2> QED BY <1>1, <2>1, <2>2, FbtCopied
<1>5. CASE ~(x.n = 0 \/ Unpacks(x, g)) /\ x.f \notin {"TexSubImage", "TexImage", "Bitmap"}
  <2>1. PixelsCopied(x, g) = FBTMMCPY(ALIGNED(x.n), x.n)
    BY <1>5 DEF PixelsCopied
  <2>2. ALIGNED(x.n) \in Nat
    BY <1>0, AlignedNat
  <2> QED BY <1>0, <2>1, <2>2, FbtCopied
<1> QED BY <1>2, <1>3, <1>4, <1>5

TypeInv ==
  /\ queue \in Seq(Entries)
  /\ trap = <<>> \/ \E e \in Entries : trap = <<e>>
  /\ Even(data0) /\ j \in Nat
  /\ \A k \in 0 .. 3 : Pointer(parg[k])
  /\ made \in 0 .. MaxWeight
  /\ Copied(area)
  /\ gpix \in PixelState /\ hpix \in PixelState /\ store \in PixelState

LEMMA EntryEnd ==
  ASSUME NEW e \in Entries PROVE Even(DataEnd(e)) /\ Passed(e) \in PixelState
<1>1. /\ e.x \in AllCalls \/ e.x = Flush
      /\ e.pix \in PixelState /\ Even(e.at)
  BY CallsAssumption DEF Entries, Made
<1>2. Sized(Chunks(e.x, e.pix))
  BY <1>1, CallsSized DEF SizedCall
<1>3. Even(DataEnd(e))
  <2> DEFINE s == Chunks(e.x, e.pix)
  <2>1. Len(s) \in 0 .. Len(s)
    BY <1>2 DEF Sized
  <2>2. \A k \in 0 .. Len(s) : Even(PlacedAt(e.at, s, k))
    BY <1>1, <1>2, PlacedOn
  <2> QED BY <2>1, <2>2 DEF DataEnd
<1> QED BY <1>1, <1>3, NotedCalls DEF Passed

LEMMA TypeMakes ==
  ASSUME TypeInv, NEW x \in Calls, Makes(x), made + Weight(x) <= MaxWeight
  PROVE  /\ Entry(x) \in Entries /\ Even(data0') /\ gpix' \in PixelState
         /\ made' \in 0 .. MaxWeight /\ Copied(area')
<1>1. data0 \in {at \in Nat : Even(at)} /\ gpix \in PixelState
  BY DEF TypeInv, Even
<1>2. PICK e \in Entries : e = Entry(x)
  <2>1. Entry(x) \in Entries
    BY <1>1 DEF Entries, Entry, Made
  <2> QED BY <2>1
<1>3. data0' = DataEnd(e) /\ gpix' = Passed(e)
  BY <1>2 DEF Makes, GuestNoted, Passed, Entry
<1>4. made' \in 0 .. MaxWeight
  BY CallsAssumption DEF Makes, Weight, TypeInv
<1>5. Copied(area')
  <2>1. CASE x.f \in SendFunctions
    <3>1. x \in PixelTransfers
      BY <2>1, CallsAssumption, TransferNames, TransferByName DEF PixelNames
    <3> QED BY <1>1, <2>1, <3>1, CopiedTyped DEF Makes
  <2>2. CASE x.f \notin SendFunctions
    BY <2>2 DEF Makes, TypeInv
  <2> QED BY <2>1, <2>2
<1> QED BY <1>2, <1>3, <1>4, <1>5, EntryEnd

LEMMA TypeRun ==
  ASSUME TypeInv, NEW e \in Entries, Run(e)
  PROVE  /\ \A k \in 0 .. 3 : Pointer(parg'[k])
         /\ store' \in PixelState /\ hpix' \in PixelState
         /\ j + Words(processArgs(e.x, hpix).cb) \in Nat
<1>1. (e.x \in AllCalls \/ e.x = Flush) /\ hpix \in PixelState /\ store \in PixelState /\ j \in Nat
  BY CallsAssumption DEF Entries, Made, TypeInv
<1>2. store' \in PixelState /\ hpix' \in PixelState
  BY <1>1, NotedCalls DEF Run, HostNoted
<1>3. j + Words(processArgs(e.x, hpix).cb) \in Nat
  <2>1. processArgs(e.x, hpix).cb \in Nat
    BY <1>1, CallsSized DEF SizedCall
  <2> QED BY <1>1, <2>1 DEF Words
<1>4. ASSUME NEW k \in 0 .. 3 PROVE Pointer(parg'[k])
  <2> DEFINE ptr == processArgs(e.x, hpix).ptr
  <2>1. parg'[k] = IF k \in DOMAIN ptr
                     THEN IF ptr[k][1] = "data" THEN <<"data", (4 * j) + ptr[k][2]>> ELSE ptr[k]
                     ELSE parg[k]
    BY DEF Run
  <2>2. Pointers(ptr)
    BY <1>1, HostTyped
  <2> HIDE DEF ptr
  <2>3. k \in DOMAIN ptr => Pointer(ptr[k])
    BY <2>2 DEF Pointers
  <2>4. Pointer(parg[k])
    BY DEF TypeInv
  <2>5. \A n \in Nat : Pointer(<<"data", (4 * j) + n>>)
    BY <1>1 DEF Pointer
  <2>6. k \in DOMAIN ptr => ptr[k][2] \in Nat
    BY <2>3 DEF Pointer
  <2> QED BY <2>1, <2>3, <2>4, <2>5, <2>6
<1> QED BY <1>2, <1>3, <1>4

LEMMA TypeInit == ASSUME Init PROVE TypeInv
<1>1. \A k \in 0 .. 3 : Pointer(parg[k])
  BY SomePointers DEF Init
<1>2. Copied(area)
  BY FbtCopied DEF Init
<1>3. made \in 0 .. MaxWeight
  BY CallsAssumption DEF Init
<1> QED BY <1>1, <1>2, <1>3, StartEven DEF Init, TypeInv, Even

LEMMA TypeNext == ASSUME TypeInv, [Next]_vars PROVE TypeInv'
<1>1. ASSUME trap = <<>>, NEW x \in Calls, made + Weight(x) <= MaxWeight, QueueCall(x) \/ TrapCall(x) PROVE TypeInv'
  <2>1. Makes(x) /\ UNCHANGED <<j, parg, hpix, store>>
    BY <1>1 DEF QueueCall, TrapCall
  <2>2. PICK e \in Entries : e = Entry(x)
    BY <1>1, <2>1, TypeMakes
  <2>3. queue' \in Seq(Entries) /\ (trap' = <<>> \/ \E d \in Entries : trap' = <<d>>)
    <3>1. \/ queue' = Append(queue, e) /\ trap' = trap
          \/ queue' = queue /\ trap' = <<e>>
      BY <1>1, <2>2 DEF QueueCall, TrapCall
    <3>2. queue \in Seq(Entries)
      BY DEF TypeInv
    <3>3. Append(queue, e) \in Seq(Entries)
      BY <3>2
    <3> QED BY <1>1, <3>1, <3>2, <3>3
  <2>4. Even(data0') /\ gpix' \in PixelState /\ made' \in 0 .. MaxWeight /\ Copied(area')
    BY <1>1, <2>1, TypeMakes
  <2> QED BY <2>1, <2>3, <2>4 DEF TypeInv
<1>2. CASE TrapFlush
  <2>1. data0 \in {at \in Nat : Even(at)} /\ gpix \in PixelState
    BY DEF TypeInv, Even
  <2>2. Entry(Flush) \in Entries
    BY <2>1 DEF Entries, Entry, Made
  <2>3. trap' = <<Entry(Flush)>> /\ UNCHANGED <<queue, data0, j, parg, made, area, gpix, hpix, store>>
    BY <1>2 DEF TrapFlush
  <2> QED BY <2>2, <2>3 DEF TypeInv
<1>3. CASE processFifo
  <2>1. queue # <<>> /\ Run(Head(queue)) /\ queue' = Tail(queue)
        /\ j' = j + Words(processArgs(Head(queue).x, hpix).cb) /\ UNCHANGED <<data0, trap, made, area, gpix>>
    BY <1>3 DEF processFifo
  <2>2. Head(queue) \in Entries /\ queue' \in Seq(Entries)
    <3>1. queue \in Seq(Entries)
      BY DEF TypeInv
    <3> QED BY <2>1, <3>1
  <2>3. /\ \A k \in 0 .. 3 : Pointer(parg'[k])
        /\ store' \in PixelState /\ hpix' \in PixelState /\ j' \in Nat
    BY <2>1, <2>2, TypeRun
  <2> QED BY <2>1, <2>2, <2>3 DEF TypeInv
<1>4. CASE EndTrap
  <2>1. /\ trap # <<>> /\ queue' = queue /\ trap' = <<>> /\ data0' = DataStart /\ j' = DataStart
        /\ UNCHANGED <<made, area, gpix>>
    BY <1>4 DEF EndTrap
  <2>2. PICK e \in Entries : trap = <<e>> /\ trap[1] = e
    BY <2>1 DEF TypeInv
  <2>3. UNCHANGED <<parg, hpix, store>> \/ Run(e)
    BY <1>4, <2>2 DEF EndTrap
  <2>4. /\ \A k \in 0 .. 3 : Pointer(parg'[k])
        /\ store' \in PixelState /\ hpix' \in PixelState
    BY <2>2, <2>3, TypeRun DEF TypeInv
  <2> QED BY <2>1, <2>4, StartEven DEF TypeInv, Even
<1>5. CASE UNCHANGED vars
  BY <1>5 DEF vars, TypeInv
<1> QED BY <1>1, <1>2, <1>3, <1>4, <1>5 DEF Next

\* Whatever the application calls, every entry, place, pointer and record has its
\* type, and every call's data starts on an even word.
THEOREM CallsTyped == Spec => []TypeOK
<1>1. Init => TypeInv
  BY TypeInit
<1>2. TypeInv /\ [Next]_vars => TypeInv'
  BY TypeNext
<1>3. TypeInv => TypeOK
  <2> SUFFICES ASSUME TypeInv PROVE TypeOK
    OBVIOUS
  <2>1. ASSUME NEW e \in Entries PROVE IsEntry(e) /\ e.at % 2 = 0
    <3>1. (e.x \in AllCalls \/ e.x = Flush) /\ Even(e.at)
      BY CallsAssumption DEF Entries, Made
    <3>2. e.x \in AllCalls => e.x.f \in AllFunctions
      BY OfKind DEF AllFunctions
    <3> QED BY <3>1, <3>2 DEF IsEntry, Even
  <2>2. \A k \in DOMAIN queue : IsEntry(queue[k]) /\ queue[k].at % 2 = 0
    <3>1. queue \in Seq(Entries)
      BY DEF TypeInv
    <3>2. \A k \in DOMAIN queue : queue[k] \in Entries
      BY <3>1
    <3> QED BY <2>1, <3>2
  <2>3. Len(trap) <= 1 /\ \A k \in DOMAIN trap : IsEntry(trap[k])
    <3>1. CASE trap = <<>>
      BY <3>1
    <3>2. CASE \E e \in Entries : trap = <<e>>
      <4>1. PICK e \in Entries : trap = <<e>>
        BY <3>2
      <4>2. Len(trap) = 1 /\ DOMAIN trap = {1} /\ trap[1] = e
        BY <4>1
      <4> QED BY <2>1, <4>2
    <3> QED BY <3>1, <3>2 DEF TypeInv
  <2>4. {gpix, hpix, store} \subseteq PixelState /\ data0 \in Nat /\ data0 % 2 = 0
    BY DEF TypeInv, Even
  <2>5. \A k \in 0 .. 3 : parg[k][1] \in {"data", "out", "area", "front", "arg", "colour", "null"} /\ parg[k][2] \in Nat
    BY DEF TypeInv, Pointer
  <2> QED BY <2>2, <2>3, <2>4, <2>5 DEF TypeInv, TypeOK, Copied
<1> HIDE DEF TypeInv, TypeOK, Init, Next, vars
<1> QED BY <1>1, <1>2, <1>3, PTL DEF Spec

-----------------------------------------------------------------------------
(* ---- Pointers: what processArgs sets is what doMesaFunc takes. ---------- *)

Sent(s) == {k \in 1 .. Len(s) : s[k].a < Own}

\* Chunk k of a call is where its argument's pointer leads, and long enough.
ChunkRight(x, s, ptr, st, k) ==
  /\ s[k].a \in doMesaFunc(x) /\ s[k].a % 4 \in DOMAIN ptr
  /\ \E off \in Nat : /\ ptr[s[k].a % 4] = Data(off)
                      /\ \A at : Even(at) => 4 * PlacedAt(at, s, k - 1) = (4 * at) + off
  /\ GLReads(x, s[k].a, st) <= s[k].cb

PointersRight(x, g, st) ==
  LET s == Chunks(x, g)
      ptr == processArgs(x, g).ptr
  IN  /\ Len(s) \in Nat
      /\ \A a \in doMesaFunc(x) : a % 4 \in DOMAIN ptr
      /\ \A k \in Sent(s) : ChunkRight(x, s, ptr, st, k)
      /\ \A a \in doMesaFunc(x) : ptr[a % 4][1] = "data" => \E k \in Sent(s) : s[k].a = a

\* A call that sends nothing for a pointer, and calls that send something for one
\* and for two.
LEMMA NoneRight ==
  ASSUME NEW x, NEW g, NEW st, Len(Chunks(x, g)) \in Nat, Sent(Chunks(x, g)) = {},
         \A a \in doMesaFunc(x) : a % 4 \in DOMAIN processArgs(x, g).ptr
                                  /\ processArgs(x, g).ptr[a % 4][1] # "data"
  PROVE  PointersRight(x, g, st)
BY DEF PointersRight

LEMMA OneRight ==
  ASSUME NEW x, NEW g, NEW st, NEW a \in Nat, a < Own, NEW cb \in Nat, Chunks(x, g) = <<Chunk(a, cb)>>,
         doMesaFunc(x) = {a}, NEW ptr, ptr = processArgs(x, g).ptr, a % 4 \in DOMAIN ptr, ptr[a % 4] = Data(0),
         GLReads(x, a, st) <= cb
  PROVE  PointersRight(x, g, st)
<1> DEFINE s == Chunks(x, g)
<1>1. Len(s) = 1 /\ s[1].a = a /\ s[1].cb = cb
  BY DEF Chunk
<1>2. s = <<Chunk(a, cb)>>
  OBVIOUS
<1> HIDE DEF s
<1>3. Sent(s) = {1}
  BY <1>1 DEF Sent
<1>4. ChunkRight(x, s, ptr, st, 1)
  <2>1. \A at : Even(at) => 4 * PlacedAt(at, s, 1 - 1) = (4 * at) + 0
    <3> SUFFICES ASSUME NEW at, Even(at) PROVE 4 * PlacedAt(at, s, 1 - 1) = (4 * at) + 0
      OBVIOUS
    <3>1. PlacedAt(at, s, 0) = at
      BY <1>2, PlacedOne
    <3> QED BY <3>1 DEF Even
  <2> QED BY <1>1, <2>1 DEF ChunkRight
<1> QED BY <1>1, <1>3, <1>4 DEF PointersRight, s

LEMMA TwoRight ==
  ASSUME NEW x, NEW g, NEW st, NEW a \in Nat, NEW b \in Nat, a < Own, b < Own, NEW cb \in Nat, NEW db \in Nat,
         Chunks(x, g) = <<Chunk(a, cb), Chunk(b, db)>>, doMesaFunc(x) = {a, b},
         NEW ptr, ptr = processArgs(x, g).ptr, a % 4 \in DOMAIN ptr, b % 4 \in DOMAIN ptr,
         ptr[a % 4] = Data(0), ptr[b % 4] = Data(ALIGNED(cb)),
         GLReads(x, a, st) <= cb, GLReads(x, b, st) <= db
  PROVE  PointersRight(x, g, st)
<1> DEFINE s == Chunks(x, g)
<1>1. Len(s) = 2 /\ s[1].a = a /\ s[1].cb = cb /\ s[2].a = b /\ s[2].cb = db
  BY DEF Chunk
<1>2. s = <<Chunk(a, cb), Chunk(b, db)>>
  OBVIOUS
<1> HIDE DEF s
<1>3. Sent(s) = {1, 2}
  BY <1>1 DEF Sent
<1>4. ChunkRight(x, s, ptr, st, 1)
  <2>1. \A at : Even(at) => 4 * PlacedAt(at, s, 1 - 1) = (4 * at) + 0
    <3> SUFFICES ASSUME NEW at, Even(at) PROVE 4 * PlacedAt(at, s, 1 - 1) = (4 * at) + 0
      OBVIOUS
    <3>1. PlacedAt(at, s, 0) = at
      BY <1>2, PlacedTwo
    <3> QED BY <3>1 DEF Even
  <2> QED BY <1>1, <2>1 DEF ChunkRight
<1>5. ChunkRight(x, s, ptr, st, 2)
  <2>1. \A at : Even(at) => 4 * PlacedAt(at, s, 2 - 1) = (4 * at) + ALIGNED(cb)
    <3> SUFFICES ASSUME NEW at, Even(at) PROVE 4 * PlacedAt(at, s, 2 - 1) = (4 * at) + ALIGNED(cb)
      OBVIOUS
    <3>1. PlacedAt(at, s, 1) = at + Taken(cb)
      BY <1>2, PlacedTwo
    <3>2. ALIGNED(cb) = 4 * Taken(cb) /\ Taken(cb) \in Nat
      BY TakenNat
    <3> QED BY <3>1, <3>2 DEF Even
  <2>2. ALIGNED(cb) \in Nat
    BY AlignedNat
  <2> QED BY <1>1, <2>1, <2>2 DEF ChunkRight
<1> QED BY <1>1, <1>3, <1>4, <1>5 DEF PointersRight, s

\* Entries of parg[].
LEMMA AtPtr ==
  ASSUME NEW slots, NEW p PROVE DOMAIN At(slots, p) = slots /\ \A k \in slots : At(slots, p)[k] = p
BY DEF At

LEMMA BothPtr ==
  ASSUME NEW f, NEW g
  PROVE  /\ DOMAIN Both(f, g) = DOMAIN f \cup DOMAIN g
         /\ \A k \in DOMAIN f : Both(f, g)[k] = f[k]
         /\ \A k \in DOMAIN g : k \notin DOMAIN f => Both(f, g)[k] = g[k]
BY DEF Both

\* The data a call brings is no other call's, and starts where the call does.
LEMMA DataPtr == \A off : Data(off)[1] = "data" /\ Out(off)[1] # "data" /\ Area(off)[1] # "data" /\ AreaFront(off)[1] # "data"
BY DEF Data, Out, Area, AreaFront

LEMMA VectorsRight ==
  ASSUME NEW x \in Vectors, x \notin OutOfStep, NEW g, NEW st PROVE PointersRight(x, g, st)
<1>0. /\ x.f \in VectorNames /\ x.c \in 1 .. 4 /\ x.n \in 0 .. 1 /\ (x.n = 1 => ~(x.f = "TexCoord" /\ x.c = 1))
      /\ x.f \in VectorFunctions
  BY VectorShape, OfKind DEF OutOfStep, VectorFunctions
<1>1. Chunks(x, g) = VectorChunks(x) /\ processArgs(x, g) = HostVector(x)
  BY VectorCalls
<1>2. CASE x.n = 0
  <2>1. Chunks(x, g) = <<>>
    BY <1>1, <1>2 DEF VectorChunks
  <2>2. Sent(<<>>) = {} /\ Len(<<>>) \in Nat
    BY DEF Sent
  <2>3. ASSUME NEW a \in doMesaFunc(x)
        PROVE  a % 4 \in DOMAIN processArgs(x, g).ptr /\ processArgs(x, g).ptr[a % 4][1] # "data"
    <3>1. x.f = "Color" /\ x.t = "ub" /\ a = 0
      BY <1>0, <1>2, <2>3 DEF doMesaFunc
    <3>2. processArgs(x, g).ptr = At({0}, <<"colour", 0>>)
      BY <1>1, <1>2, <3>1, ArgsOf DEF HostVector
    <3>3. a % 4 = 0
      BY <3>1
    <3> QED BY <3>2, <3>3, AtPtr
  <2> QED BY <2>1, <2>2, <2>3, NoneRight
<1>3. CASE x.n = 1
  <2> DEFINE a == VectorArg(x.f)
             b == x.c * SizeOf(x.t)
  <2>1. Chunks(x, g) = <<Chunk(a, ALIGNED(b))>>
    BY <1>1, <1>3 DEF VectorChunks
  <2>2. a \in {0, 1} /\ a < Own /\ a % 4 = a
    BY DEF VectorArg, Own
  <2>3. doMesaFunc(x) = {a}
    <3>1. x.f \notin PixelFunctions
      BY <1>0, KindNames DEF VectorNames, PixelNames, SendNames, ReadNames
    <3>2. CASE x.f \in {"MultiTexCoord", "VertexAttrib"}
      <4>1. /\ x.f \in fpa0p1 /\ x.f \notin fpp0 /\ x.f # "Rect" /\ VectorArg(x.f) = 1
            /\ ~(x.f \in VectorFunctions /\ x.n = 0) /\ ~(x.f = "TexCoord" /\ x.c = 1)
        BY <1>3, <3>2 DEF VectorArg, fpp0, fpa0p1
      <4>2. /\ x.f \notin fpa1p2 /\ x.f \notin fpa2p3 /\ x.f \notin fpa0p2 /\ x.f \notin fpa1p3 /\ x.f \notin fpa3p4
            /\ x.f \notin {"ProgramNamedParameter", "Varyings", "ColorTable", "ClearBufferSubData", "ClearTexSubImage",
                         "Map1", "Map2", "DrawIndirect", "Getv", "GetActiveUniform", "GetActiveUniformName"}
        BY <3>2 DEF fpa1p2, fpa2p3, fpa0p2, fpa1p3, fpa3p4
      <4> QED BY <3>1, <4>1, <4>2 DEF doMesaFunc
    <3>3. CASE x.f \notin {"MultiTexCoord", "VertexAttrib"}
      <4>1. /\ x.f \in fpp0 /\ x.f \notin fpa0p1 /\ x.f # "Rect" /\ VectorArg(x.f) = 0
            /\ ~(x.f \in VectorFunctions /\ x.n = 0) /\ ~(x.f = "TexCoord" /\ x.c = 1)
        BY <1>0, <1>3, <3>3 DEF VectorArg, fpp0, fpa0p1, VectorNames
      <4>2. /\ x.f \notin fpa1p2 /\ x.f \notin fpa2p3 /\ x.f \notin fpa0p2 /\ x.f \notin fpa1p3 /\ x.f \notin fpa3p4
            /\ x.f \notin {"ProgramNamedParameter", "Varyings", "ColorTable", "ClearBufferSubData", "ClearTexSubImage",
                         "Map1", "Map2", "DrawIndirect", "Getv", "GetActiveUniform", "GetActiveUniformName"}
        BY <1>0, <3>3 DEF fpa1p2, fpa2p3, fpa0p2, fpa1p3, fpa3p4, VectorNames
      <4> QED BY <3>1, <4>1, <4>2 DEF doMesaFunc
    <3> QED BY <3>2, <3>3
  <2>4. a % 4 \in DOMAIN processArgs(x, g).ptr /\ processArgs(x, g).ptr[a % 4] = Data(0)
    <3>1. CASE x.f = "Index" /\ x.t = "ub"
      <4>1. processArgs(x, g).ptr = At({0}, Data(0)) /\ a = 0
        BY <1>1, <1>3, <3>1, ArgsOf DEF HostVector, VectorArg
      <4> QED BY <2>2, <4>1, AtPtr
    <3>2. CASE ~(x.f = "Index" /\ x.t = "ub")
      <4>1. processArgs(x, g).ptr = At({0, 1}, Data(0))
        BY <1>0, <1>1, <1>3, <3>2, ArgsOf DEF HostVector
      <4> QED BY <2>2, <4>1, AtPtr
    <3> QED BY <3>1, <3>2
  <2>5. b \in Nat
    BY <1>0, Sizes8
  <2>6. GLReads(x, a, st) = b
    BY <1>0, KindNames DEF GLReads, VectorNames, ArrayNames, ClearNames, PixelNames, SendNames, ReadNames
  <2>7. ALIGNED(b) \in Nat /\ b <= ALIGNED(b)
    BY <2>5, AlignedNat
  <2> HIDE DEF a, b
  <2>8. a \in Nat
    BY <2>2
  <2> QED BY <2>1, <2>2, <2>3, <2>4, <2>6, <2>7, <2>8, OneRight
<1> QED BY <1>0, <1>2, <1>3

\* Which argument an array goes to.
LEMMA ArrayTakes ==
  ASSUME NEW x, x.f \in ArrayNames \ {"Rect", "PrioritizeTextures", "AreResident"}, x.f = "DrawIndirect" => x.c = 4
  PROVE  doMesaFunc(x) = {ArrayArg(x)} /\ ArrayArg(x) \in Nat /\ ArrayArg(x) < Own
<1>1. x.f \notin VectorFunctions /\ x.f # "TexCoord" /\ x.f \notin PixelFunctions
  BY KindNames DEF VectorNames, ArrayNames, PixelNames, SendNames, ReadNames
<1>2. CASE x.f = "LoadMatrix"
  BY <1>1, <1>2 DEF doMesaFunc, ArrayArg, Own, fpp0, fpa0p1, fpa1p2, fpa2p3, fpa0p2, fpa1p3, fpa3p4
<1>3. CASE x.f \in {"ClipPlane", "Indexed", "Delete", "RequestResident", "Weight"}
  BY <1>1, <1>3 DEF doMesaFunc, ArrayArg, Own, fpp0, fpa0p1, fpa1p2, fpa2p3, fpa0p2, fpa1p3, fpa3p4
<1>4. CASE x.f \in {"Uniform", "VertexAttribs", "ProgramParameter", "Bind", "CallLists", "PixelMap"}
  BY <1>1, <1>4 DEF doMesaFunc, ArrayArg, Own, fpp0, fpa0p1, fpa1p2, fpa2p3, fpa0p2, fpa1p3, fpa3p4
<1>5. CASE x.f \in {"UniformMatrix", "ProgramParameters"}
  BY <1>1, <1>5 DEF doMesaFunc, ArrayArg, Own, fpp0, fpa0p1, fpa1p2, fpa2p3, fpa0p2, fpa1p3, fpa3p4
<1>6. CASE x.f \in {"ColorTable", "Map1", "Map2", "DrawIndirect"}
  BY <1>1, <1>6 DEF doMesaFunc, ArrayArg, Own, fpp0, fpa0p1, fpa1p2, fpa2p3, fpa0p2, fpa1p3, fpa3p4
<1> QED BY <1>2, <1>3, <1>4, <1>5, <1>6 DEF ArrayNames

\* And where the host puts it.
LEMMA ArrayPtr ==
  ASSUME NEW x \in Arrays, x \notin OutOfStep \cup WrongPointers, NEW g,
         x.f \notin {"Rect", "PrioritizeTextures"}
  PROVE  /\ ArrayArg(x) % 4 \in DOMAIN processArgs(x, g).ptr
         /\ processArgs(x, g).ptr[ArrayArg(x) % 4] = Data(0)
<1>0. /\ ArrayShapeOf(x) /\ x.f \notin {"VertexAttribs", "RequestResident", "AreResident"}
      /\ x.f = "DrawIndirect" => x.c = 4
  <2>1. ArrayShapeOf(x)
    BY ArrayShape
  <2>2. x.f # "AreResident"
    BY OfFamily DEF Arrays, Call, glVertexAttribs, glUniform12, glUniform34, glUniformMatrix, glLoadMatrix,
       glClipPlane, glIndexed, glProgramParameter, glProgramParameters, glRect, glDelete, glBind,
       glRequestResidentPrograms, glPrioritizeTextures, glCallLists, glWeight, glPixelMap, glColorTable,
       glMap1, glMap2, glDrawIndirect
  <2> QED BY <2>1, <2>2 DEF ArrayShapeOf, OutOfStep, WrongPointers
<1> SUFFICES \E slots : /\ processArgs(x, g).ptr = At(slots, Data(0))
                        /\ ArrayArg(x) % 4 \in slots
  BY AtPtr
<1>1. CASE x.f \in {"Uniform", "UniformMatrix"}
  <2> DEFINE slots == IF x.c < 4 THEN {2} ELSE IF x.c = 4 THEN {2, 3} ELSE {3}
  <2>1. processArgs(x, g) = HostUniform(x)
    BY <1>1, ArrayCalls
  <2>2. processArgs(x, g).ptr = At(slots, Data(0))
    BY <2>1, ArgsOf DEF HostUniform
  <2>3. ArrayArg(x) % 4 \in slots
    <3>1. CASE x.f = "Uniform"
      BY <1>0, <3>1 DEF ArrayShapeOf, ArrayArg
    <3>2. CASE x.f = "UniformMatrix"
      BY <1>0, <3>2 DEF ArrayShapeOf, ArrayArg
    <3> QED BY <1>1, <3>1, <3>2
  <2> HIDE DEF slots
  <2> QED BY <2>2, <2>3
<1>2. CASE x.f \in {"Map1", "Map2"}
  <2> DEFINE slots == IF x.f = "Map1" THEN {1, 3} ELSE {1}
  <2>1. processArgs(x, g) = HostMap(x)
    BY <1>2, ArrayCalls
  <2>2. processArgs(x, g).ptr = At(slots, Data(0))
    BY <2>1, ArgsOf DEF HostMap
  <2>3. ArrayArg(x) % 4 \in slots
    <3>1. CASE x.f = "Map1"
      <4>1. ArrayArg(x) \in {5, 7}
        BY <3>1 DEF ArrayArg
      <4> QED BY <3>1, <4>1
    <3>2. CASE x.f = "Map2"
      <4>1. ArrayArg(x) \in {9, 13}
        BY <3>2 DEF ArrayArg
      <4> QED BY <3>2, <4>1
    <3> QED BY <1>2, <3>1, <3>2
  <2> HIDE DEF slots
  <2> QED BY <2>2, <2>3
<1>3. CASE x.f \notin {"Uniform", "UniformMatrix", "Map1", "Map2"}
  <2>1. processArgs(x, g) = HostArray(x)
    BY <1>3, ArrayCalls
  <2>2. CASE x.f = "LoadMatrix"
    <3>1. processArgs(x, g).ptr = At({0}, Data(0)) /\ ArrayArg(x) = 0
      BY <2>1, <2>2, ArgsOf DEF HostArray, ArrayArg
    <3> QED BY <3>1
  <2>3. CASE x.f \in {"ClipPlane", "Indexed", "Delete", "Weight", "DrawIndirect"}
    <3>1. processArgs(x, g).ptr = At({1}, Data(0))
      BY <2>1, <2>3, ArgsOf DEF HostArray
    <3>2. ArrayArg(x) = 1
      BY <1>0, <2>3 DEF ArrayArg
    <3> QED BY <3>1, <3>2
  <2>4. CASE x.f \in {"ProgramParameter", "Bind", "CallLists", "PixelMap"}
    <3>1. processArgs(x, g).ptr = At({2}, Data(0))
      BY <2>1, <2>4, ArgsOf DEF HostArray
    <3>2. ArrayArg(x) = 2
      BY <2>4 DEF ArrayArg
    <3> QED BY <3>1, <3>2
  <2>5. CASE x.f = "ProgramParameters"
    <3>1. processArgs(x, g).ptr = At({3}, Data(0)) /\ ArrayArg(x) = 3
      BY <2>1, <2>5, ArgsOf DEF HostArray, ArrayArg
    <3> QED BY <3>1
  <2>6. CASE x.f = "ColorTable"
    <3>1. processArgs(x, g).ptr = At({1}, Data(0)) /\ ArrayArg(x) = 5
      BY <2>1, <2>6, ArgsOf DEF HostArray, ArrayArg
    <3> QED BY <3>1
  <2> QED BY <1>0, <1>3, <2>2, <2>3, <2>4, <2>5, <2>6 DEF ArrayShapeOf
<1> QED BY <1>1, <1>2, <1>3

LEMMA ArraysRight ==
  ASSUME NEW x \in Arrays, x \notin OutOfStep \cup WrongPointers, NEW g, NEW st PROVE PointersRight(x, g, st)
<1>0. x.f \in ArrayFunctions /\ x.f \notin VectorFunctions /\ ArrayShapeOf(x) /\ x.f \in ArrayNames
  BY ArrayCalls, ArrayShape, KindNames
<1>1. CASE x.f = "Rect"
  <2> DEFINE sz == SizeOf(x.t)
  <2>1. Chunks(x, g) = <<Chunk(0, ALIGNED(sz)), Chunk(1, ALIGNED(sz))>>
    BY <1>1, ArrayCalls DEF ArrayChunks
  <2>2. sz \in {1, 2, 4} /\ x.t # "d"
    <3>1. x.t \in {"f", "i", "s"}
      BY <1>0, <1>1 DEF ArrayShapeOf, WrongPointers, Coord
    <3> QED BY <3>1 DEF SizeOf
  <2>3. processArgs(x, g) = HostRect(x)
    BY <1>1, ArrayCalls
  <2>4. processArgs(x, g).ptr = Both(At({0}, Data(0)), At({1}, Data(ALIGNED(sz))))
    BY <2>2, <2>3, ArgsOf DEF HostRect
  <2>5. doMesaFunc(x) = {0, 1}
    <3>1. x.f \notin VectorFunctions /\ x.f # "TexCoord" /\ x.f \notin PixelFunctions
      BY <1>0, <1>1, KindNames DEF PixelNames, SendNames, ReadNames
    <3> QED BY <1>1, <3>1 DEF doMesaFunc, fpp0, fpa0p1, fpa1p2, fpa2p3, fpa0p2, fpa1p3, fpa3p4
  <2>6. GLReads(x, 0, st) = 2 * sz /\ GLReads(x, 1, st) = 2 * sz
    BY <1>0, <1>1, KindNames DEF GLReads, ClearNames, PixelNames, SendNames, ReadNames
  <2>7. ALIGNED(sz) = 8 /\ 2 * sz <= 8
    BY <2>2 DEF ALIGNED
  <2>8. ALIGNED(8) = 8
    BY DEF ALIGNED
  <2> HIDE DEF sz
  <2>9. Chunks(x, g) = <<Chunk(0, 8), Chunk(1, 8)>>
    BY <2>1, <2>7
  <2>10. DOMAIN processArgs(x, g).ptr = {0, 1} /\ processArgs(x, g).ptr[0] = Data(0) /\ processArgs(x, g).ptr[1] = Data(8)
    <3>1. processArgs(x, g).ptr = Both(At({0}, Data(0)), At({1}, Data(8)))
      BY <2>4, <2>7
    <3> QED BY <3>1 DEF Both, At
  <2>11. /\ 0 % 4 = 0 /\ 1 % 4 = 1 /\ 0 < Own /\ 1 < Own
         /\ GLReads(x, 0, st) <= 8 /\ GLReads(x, 1, st) <= 8
    BY <2>6, <2>7 DEF Own
  <2>12. /\ 0 % 4 \in DOMAIN processArgs(x, g).ptr /\ 1 % 4 \in DOMAIN processArgs(x, g).ptr
         /\ processArgs(x, g).ptr[0 % 4] = Data(0) /\ processArgs(x, g).ptr[1 % 4] = Data(ALIGNED(8))
    BY <2>8, <2>10, <2>11
  <2> QED BY <2>5, <2>9, <2>11, <2>12, TwoRight
<1>2. CASE x.f = "PrioritizeTextures"
  <2>0. x.n \in Nat /\ x.c = 1 /\ x.t = "ui"
    BY <1>0, <1>2 DEF ArrayShapeOf
  <2> DEFINE b == ALIGNED(x.n * 4)
  <2>1. Chunks(x, g) = <<Chunk(1, b), Chunk(2, b)>>
    BY <1>2, ArrayCalls DEF ArrayChunks
  <2>2. processArgs(x, g) = HostArray(x)
    BY <1>2, ArrayCalls
  <2>3. processArgs(x, g).ptr = Both(At({1}, Data(0)), At({2}, Data(b)))
    BY <1>2, <2>2, ArgsOf DEF HostArray
  <2>4. doMesaFunc(x) = {1, 2}
    <3>1. x.f \notin VectorFunctions /\ x.f # "TexCoord" /\ x.f \notin PixelFunctions
      BY <1>0, <1>2, KindNames DEF PixelNames, SendNames, ReadNames
    <3> QED BY <1>2, <3>1 DEF doMesaFunc, fpp0, fpa0p1, fpa1p2, fpa2p3, fpa0p2, fpa1p3, fpa3p4
  <2>5. GLReads(x, 1, st) = x.n * 4 /\ GLReads(x, 2, st) = x.n * 4
    <3>1. GLReads(x, 1, st) = ArrayBytes(x) /\ GLReads(x, 2, st) = ArrayBytes(x)
      BY <1>0, <1>2, KindNames DEF GLReads, ClearNames, PixelNames, SendNames, ReadNames
    <3>2. ArrayBytes(x) = x.n * 4
      BY <2>0 DEF ArrayBytes, szgldata, SizeOf
    <3> QED BY <3>1, <3>2
  <2>6. b \in Nat /\ ALIGNED(b) = b /\ x.n * 4 <= b
    BY <2>0, AlignedNat, AlignedTwice
  <2> HIDE DEF b
  <2>7. DOMAIN processArgs(x, g).ptr = {1, 2} /\ processArgs(x, g).ptr[1] = Data(0) /\ processArgs(x, g).ptr[2] = Data(b)
    BY <2>3 DEF Both, At
  <2>8. 1 % 4 = 1 /\ 2 % 4 = 2 /\ 1 < Own /\ 2 < Own
    BY DEF Own
  <2>9. /\ 1 % 4 \in DOMAIN processArgs(x, g).ptr /\ 2 % 4 \in DOMAIN processArgs(x, g).ptr
        /\ processArgs(x, g).ptr[1 % 4] = Data(0) /\ processArgs(x, g).ptr[2 % 4] = Data(ALIGNED(b))
    BY <2>6, <2>7, <2>8
  <2>10. GLReads(x, 1, st) <= b /\ GLReads(x, 2, st) <= b
    BY <2>5, <2>6
  <2> QED BY <2>1, <2>4, <2>6, <2>8, <2>9, <2>10, TwoRight
<1>3. CASE x.f \notin {"Rect", "PrioritizeTextures"}
  <2> DEFINE b == ArrayBytes(x)
             cb == IF x.f \in RoundedArrays /\ x.t # "d" THEN ALIGNED(b) ELSE b
             a == ArrayArg(x)
  <2>1. Chunks(x, g) = <<Chunk(a, cb)>>
    BY <1>3, ArrayCalls DEF ArrayChunks
  <2>2. b \in Nat
    BY <1>3, HostArrayBytes
  <2>3. b <= ALIGNED(b) /\ ALIGNED(b) \in Nat
    <3> HIDE DEF b
    <3> QED BY <2>2, AlignedNat
  <2>4. doMesaFunc(x) = {a} /\ a \in Nat /\ a < Own
    <3>1. x.f # "AreResident"
      BY OfFamily DEF Arrays, Call, glVertexAttribs, glUniform12, glUniform34, glUniformMatrix, glLoadMatrix,
         glClipPlane, glIndexed, glProgramParameter, glProgramParameters, glRect, glDelete, glBind,
         glRequestResidentPrograms, glPrioritizeTextures, glCallLists, glWeight, glPixelMap, glColorTable,
         glMap1, glMap2, glDrawIndirect
    <3>2. x.f = "DrawIndirect" => x.c = 4
      BY <1>0 DEF ArrayShapeOf, WrongPointers
    <3> QED BY <1>0, <1>3, <3>1, <3>2, ArrayTakes
  <2>5. a % 4 \in DOMAIN processArgs(x, g).ptr /\ processArgs(x, g).ptr[a % 4] = Data(0)
    BY <1>3, ArrayPtr
  <2>6. GLReads(x, a, st) = b
    BY <1>0, <1>3, KindNames DEF GLReads, ArrayNames, ClearNames, PixelNames, SendNames, ReadNames
  <2>7. cb \in Nat /\ b <= cb
    <3> HIDE DEF b
    <3> QED BY <2>2, <2>3
  <2> HIDE DEF a, b, cb
  <2>8. GLReads(x, a, st) <= cb
    BY <2>6, <2>7
  <2> QED BY <2>1, <2>4, <2>5, <2>7, <2>8, OneRight
<1> QED BY <1>1, <1>2, <1>3

\* Which argument values go to.
ValueArg(f) == IF f \in {"Parameter1", "Parameter2"} THEN ParameterArg(f) ELSE ClearArg(f)

LEMMA ValueTakes ==
  ASSUME NEW x, x.f \in ValueNames \ {"ColorTableParameter"}
  PROVE  doMesaFunc(x) = {ValueArg(x.f)} /\ ValueArg(x.f) \in {1, 2, 4, 6, 10} /\ ValueArg(x.f) < Own
<1>1. x.f \notin VectorFunctions /\ x.f # "TexCoord" /\ x.f \notin PixelFunctions
  BY KindNames DEF VectorNames, ValueNames, ClearNames, PixelNames, SendNames, ReadNames
<1>2. CASE x.f \in {"Parameter1", "Parameter2", "ClearBuffer"}
  BY <1>1, <1>2 DEF doMesaFunc, ValueArg, ParameterArg, ClearArg, Own, fpp0, fpa0p1, fpa1p2, fpa2p3, fpa0p2, fpa1p3, fpa3p4
<1>3. CASE x.f \in {"ClearBufferData", "ClearTexImage"}
  BY <1>1, <1>3 DEF doMesaFunc, ValueArg, ParameterArg, ClearArg, Own, fpp0, fpa0p1, fpa1p2, fpa2p3, fpa0p2, fpa1p3, fpa3p4
<1>4. CASE x.f \in {"ClearBufferSubData", "ClearTexSubImage"}
  BY <1>1, <1>4 DEF doMesaFunc, ValueArg, ParameterArg, ClearArg, Own, fpp0, fpa0p1, fpa1p2, fpa2p3, fpa0p2, fpa1p3, fpa3p4
<1> QED BY <1>2, <1>3, <1>4 DEF ValueNames, ClearNames

LEMMA ClearSlot ==
  ASSUME NEW x, x.f \in ClearNames
  PROVE  ValueArg(x.f) = ClearArg(x.f)
         /\ ClearArg(x.f) % 4 = (IF x.f \in {"ClearBufferData", "ClearTexImage"} THEN 0 ELSE 2)
<1>1. CASE x.f \in {"ClearBufferData", "ClearTexImage"}
  <2>1. ValueArg(x.f) = ClearArg(x.f) /\ ClearArg(x.f) = 4
    BY <1>1 DEF ValueArg, ClearArg
  <2> QED BY <1>1, <2>1
<1>2. CASE x.f \in {"ClearBufferSubData", "ClearTexSubImage"}
  <2>1. ValueArg(x.f) = ClearArg(x.f) /\ ClearArg(x.f) \in {6, 10}
    BY <1>2 DEF ValueArg, ClearArg
  <2> QED BY <1>2, <2>1
<1> QED BY <1>1, <1>2 DEF ClearNames

LEMMA ValuesRight ==
  ASSUME NEW x \in Values, x \notin OutOfStep \cup WrongPointers, NEW g, NEW st PROVE PointersRight(x, g, st)
<1> DEFINE a == ValueArg(x.f)
<1>0. /\ ValueShapeOf(x) /\ x.f # "ColorTableParameter" /\ (x.f = "ClearBuffer" => x.c = 4)
      /\ (x.f \in {"ClearBufferData", "ClearBufferSubData"} /\ x.n = 1 => szgldata(x.c, x.t) <= 8)
  <2>1. ValueShapeOf(x)
    BY ValueShape
  <2>2. SizeOf(x.t) \in {1, 2, 4, 8}
    BY Sizes8
  <2>3. x.f # "ColorTableParameter" /\ (x.f = "ClearBuffer" => x.c = 4)
    BY <2>1 DEF ValueShapeOf, OutOfStep
  <2>4. ASSUME x.f \in {"ClearBufferData", "ClearBufferSubData"}, x.n = 1 PROVE szgldata(x.c, x.t) <= 8
    <3>1. ~(szgldata(x.c, x.t) > 8)
      BY <2>1, <2>4 DEF ValueShapeOf, WrongPointers
    <3>2. szgldata(x.c, x.t) \in Nat
      BY <2>1, <2>2, <2>4 DEF ValueShapeOf, szgldata
    <3> QED BY <3>1, <3>2
  <2> QED BY <2>1, <2>3, <2>4
<1>1. x.f \in ValueNames
  BY ValueCalls, KindNames
<1>2. doMesaFunc(x) = {a} /\ a \in {1, 2, 4, 6, 10} /\ a < Own
  BY <1>0, <1>1, ValueTakes
<1>3. SizeOf(x.t) \in {1, 2, 4, 8}
  BY Sizes8
<1>4. x.f \notin VectorFunctions \cup ArrayFunctions /\ (x.f \in ClearNames => x.f \in ClearFunctions)
  BY ValueCalls
<1>5. CASE x.f \in {"Parameter1", "Parameter2"}
  <2> DEFINE b == x.n * SizeOf(x.t)
  <2>1. Chunks(x, g) = <<Chunk(a, ALIGNED(b))>>
    <3>1. ValueChunks(x) = <<Chunk(a, ALIGNED(b))>>
      BY <1>0, <1>5 DEF ValueChunks, ValueShapeOf, ValueArg
    <3> QED BY <3>1, ValueCalls
  <2>2. processArgs(x, g).ptr = At({a}, Data(0))
    <3>1. processArgs(x, g) = HostParameter(x)
      BY <1>5, ValueCalls DEF ClearNames
    <3> QED BY <1>5, <3>1, ArgsOf DEF HostParameter, ValueArg
  <2>3. b \in Nat
    BY <1>0, <1>3, <1>5 DEF ValueShapeOf
  <2>4. GLReads(x, a, st) = b
    BY <1>4, <1>5, KindNames DEF GLReads, ClearNames, PixelNames, SendNames, ReadNames
  <2>5. a % 4 = a
    BY <1>5 DEF ValueArg, ParameterArg
  <2> HIDE DEF a, b
  <2>6. ALIGNED(b) \in Nat /\ b <= ALIGNED(b)
    BY <2>3, AlignedNat
  <2>7. a % 4 \in DOMAIN processArgs(x, g).ptr /\ processArgs(x, g).ptr[a % 4] = Data(0)
    BY <2>2, <2>5, AtPtr
  <2>8. a \in Nat
    BY <1>2
  <2> QED BY <1>2, <2>1, <2>4, <2>6, <2>7, <2>8, OneRight
<1>6. CASE x.f = "ClearBuffer"
  <2>1. Chunks(x, g) = <<Chunk(2, 16)>>
    <3>1. ValueChunks(x) = <<Chunk(2, 16)>>
      BY <1>0, <1>6 DEF ValueChunks, ValueShapeOf
    <3> QED BY <3>1, ValueCalls
  <2>2. processArgs(x, g).ptr = At({2}, Data(0))
    <3>1. processArgs(x, g) = HostClearBuffer(x)
      BY <1>6, ValueCalls DEF ClearNames
    <3> QED BY <3>1, ArgsOf DEF HostClearBuffer
  <2>3. a = 2
    BY <1>6 DEF ValueArg, ClearArg
  <2>4. GLReads(x, 2, st) = 16
    <3>1. GLReads(x, 2, st) = szgldata(x.c, x.t)
      BY <1>4, <1>6, KindNames DEF GLReads, ClearNames, PixelNames, SendNames, ReadNames
    <3>2. szgldata(x.c, x.t) = 16
      BY <1>0, <1>6 DEF ValueShapeOf, szgldata, SizeOf
    <3> QED BY <3>1, <3>2
  <2> HIDE DEF a
  <2>5. 2 % 4 \in DOMAIN processArgs(x, g).ptr /\ processArgs(x, g).ptr[2 % 4] = Data(0)
    BY <2>2, AtPtr
  <2>6. doMesaFunc(x) = {2} /\ 2 < Own /\ GLReads(x, 2, st) <= 16
    BY <1>2, <2>3, <2>4
  <2> QED BY <2>1, <2>5, <2>6, OneRight
<1>7. CASE x.f \in ClearNames
  <2> DEFINE slot == IF x.f \in {"ClearBufferData", "ClearTexImage"} THEN 0 ELSE 2
  <2>1. a = ClearArg(x.f) /\ a % 4 = slot
    BY <1>7, ClearSlot
  <2>2. processArgs(x, g) = HostClearData(x)
    BY <1>7, ValueCalls
  <2>3. CASE x.n = 0
    <3>1. Chunks(x, g) = <<>>
      <4>1. ValueChunks(x) = <<>>
        BY <1>7, <2>3 DEF ValueChunks, ClearNames
      <4> QED BY <4>1, ValueCalls
    <3>2. processArgs(x, g).ptr = At({slot}, Null)
      BY <2>2, <2>3, ArgsOf DEF HostClearData
    <3>3. Sent(<<>>) = {} /\ Len(<<>>) \in Nat /\ Null[1] # "data"
      BY DEF Sent, Null
    <3> HIDE DEF slot, a
    <3>4. a % 4 \in DOMAIN processArgs(x, g).ptr /\ processArgs(x, g).ptr[a % 4][1] # "data"
      BY <2>1, <3>2, <3>3, AtPtr
    <3>5. \A arg \in doMesaFunc(x) : arg % 4 \in DOMAIN processArgs(x, g).ptr /\ processArgs(x, g).ptr[arg % 4][1] # "data"
      BY <1>2, <3>4
    <3> QED BY <3>1, <3>3, <3>5, NoneRight
  <2>4. CASE x.n # 0
    <3> DEFINE b == szgldata(x.c, x.t)
               cb == IF x.f \in {"ClearTexImage", "ClearTexSubImage"} THEN ALIGNED(b) ELSE ALIGNED(1)
    <3>1. Chunks(x, g) = <<Chunk(a, cb)>>
      <4>1. ValueChunks(x) = <<Chunk(a, cb)>>
        BY <1>7, <2>1, <2>4 DEF ValueChunks, ClearNames
      <4> QED BY <4>1, ValueCalls
    <3>2. processArgs(x, g).ptr = At({slot}, Data(0))
      BY <2>2, <2>4, ArgsOf DEF HostClearData
    <3>3. b \in Nat
      BY <1>0, <1>3, <1>7 DEF ValueShapeOf, szgldata, ClearNames
    <3>4. x.f \notin {"ClearTexImage", "ClearTexSubImage"} => b <= 8
      BY <1>0, <1>7, <2>4 DEF ValueShapeOf, ClearNames
    <3>5. cb \in Nat /\ b <= cb
      <4>1. ALIGNED(1) = 8
        BY DEF ALIGNED
      <4> HIDE DEF b
      <4>2. ALIGNED(b) \in Nat /\ b <= ALIGNED(b)
        BY <3>3, AlignedNat
      <4> QED BY <3>4, <4>1, <4>2
    <3>6. GLReads(x, a, st) = b
      BY <1>4, <1>7, KindNames DEF GLReads, ClearNames, PixelNames, SendNames, ReadNames
    <3> HIDE DEF slot, a, b, cb
    <3>7. a % 4 \in DOMAIN processArgs(x, g).ptr /\ processArgs(x, g).ptr[a % 4] = Data(0)
      BY <2>1, <3>2, AtPtr
    <3>8. a \in Nat
      BY <1>2
    <3> QED BY <1>2, <3>1, <3>5, <3>6, <3>7, <3>8, OneRight
  <2> QED BY <2>3, <2>4
<1> QED BY <1>0, <1>1, <1>5, <1>6, <1>7 DEF ValueNames

\* Settings bring names of buffers or nothing.
LEMMA SettingsRight ==
  ASSUME NEW x, x \in Settings \/ x = Flush, NEW g, NEW st PROVE PointersRight(x, g, st)
<1>1. x.f \in SettingNames \cup {"Flush"} /\ x.f \notin VectorFunctions \cup ArrayFunctions \cup ClearFunctions \cup PixelFunctions
  BY SettingShape, SettingCalls DEF SettingShapeOf, SettingNames, Flush, Call
<1>2. CASE x.f = "DeleteBuffers"
  <2>1. x.n = 1
    BY <1>2, SettingShape DEF SettingShapeOf, Flush, Call
  <2>2. Chunks(x, g) = <<Chunk(1, 4)>>
    BY <1>2, <2>1, SettingCalls
  <2>3. processArgs(x, g).ptr = At({1}, Data(0))
    BY <1>2, SettingCalls, ArgsOf
  <2>4. doMesaFunc(x) = {1}
    BY <1>1, <1>2 DEF doMesaFunc, fpp0, fpa0p1, fpa1p2, fpa2p3, fpa0p2, fpa1p3, fpa3p4
  <2>5. GLReads(x, 1, st) = 4
    BY <1>1, <1>2, <2>1 DEF GLReads
  <2>6. 1 % 4 \in DOMAIN processArgs(x, g).ptr /\ processArgs(x, g).ptr[1 % 4] = Data(0)
    BY <2>3, AtPtr
  <2>7. 1 < Own /\ GLReads(x, 1, st) <= 4
    BY <2>5 DEF Own
  <2> QED BY <2>2, <2>4, <2>6, <2>7, OneRight
<1>3. CASE x.f # "DeleteBuffers"
  <2>1. Chunks(x, g) = <<>>
    BY <1>3, SettingCalls
  <2>2. doMesaFunc(x) = {}
    BY <1>1, <1>3 DEF SettingNames, doMesaFunc, fpp0, fpa0p1, fpa1p2, fpa2p3, fpa0p2, fpa1p3, fpa3p4
  <2>3. Sent(<<>>) = {} /\ Len(<<>>) \in Nat
    BY DEF Sent
  <2> QED BY <2>1, <2>2, <2>3, NoneRight
<1> QED BY <1>2, <1>3

\* A call whose second chunk is the wrapper's own.
LEMMA OwnRight ==
  ASSUME NEW x, NEW g, NEW st, NEW a \in Nat, a < Own, NEW cb \in Nat, NEW db \in Nat,
         Chunks(x, g) = <<Chunk(a, cb), Chunk(Own, db)>>,
         doMesaFunc(x) = {a}, NEW ptr, ptr = processArgs(x, g).ptr, a % 4 \in DOMAIN ptr, ptr[a % 4] = Data(0),
         GLReads(x, a, st) <= cb
  PROVE  PointersRight(x, g, st)
<1> DEFINE s == Chunks(x, g)
<1>1. Len(s) = 2 /\ s[1].a = a /\ s[1].cb = cb /\ s[2].a = Own
  BY DEF Chunk
<1>2. s = <<Chunk(a, cb), Chunk(Own, db)>>
  OBVIOUS
<1> HIDE DEF s
<1>3. Sent(s) = {1}
  <2>1. \A k \in 1 .. 2 : k = 1 \/ k = 2
    OBVIOUS
  <2> QED BY <1>1, <2>1 DEF Sent, Own
<1>4. ChunkRight(x, s, ptr, st, 1)
  <2>1. \A at : Even(at) => 4 * PlacedAt(at, s, 1 - 1) = (4 * at) + 0
    <3> SUFFICES ASSUME NEW at, Even(at) PROVE 4 * PlacedAt(at, s, 1 - 1) = (4 * at) + 0
      OBVIOUS
    <3>1. PlacedAt(at, s, 0) = at
      BY <1>2, PlacedTwo
    <3> QED BY <3>1 DEF Even
  <2> QED BY <1>1, <2>1 DEF ChunkRight
<1> QED BY <1>1, <1>3, <1>4 DEF PointersRight, s

LEMMA StringsRight ==
  ASSUME NEW x \in Strings, ~ IsList(x), x \notin OutOfStep \cup WrongPointers, NEW g, NEW st
  PROVE  PointersRight(x, g, st)
<1>0. /\ x.n \in Nat /\ x.c \in Nat
      /\ \/ x.f = "BindLocation"
         \/ x.f = "ProgramString" /\ x.c = 1
         \/ x.f = "ProgramNamedParameter" /\ x.c \in {0, 4}
  <2>1. StringShapeOf(x)
    BY StringShape
  <2> QED BY <2>1 DEF StringShapeOf, WrongPointers, IsList
<1>1. x.f \notin VectorFunctions \cup ArrayFunctions \cup ClearFunctions \cup PixelFunctions
  BY StringCalls
<1>2. CASE x.f = "BindLocation"
  <2> DEFINE b == ALIGNED(x.n + 1)
  <2>1. Chunks(x, g) = <<Chunk(2, b)>>
    BY <1>2, StringCalls DEF NameChunks
  <2>2. processArgs(x, g) = HostName(x)
    BY <1>2, StringCalls
  <2>3. processArgs(x, g).ptr = At({2}, Data(0))
    BY <1>2, <2>2, ArgsOf DEF HostName
  <2>4. doMesaFunc(x) = {2}
    BY <1>1, <1>2 DEF doMesaFunc, fpp0, fpa0p1, fpa1p2, fpa2p3, fpa0p2, fpa1p3, fpa3p4
  <2>5. GLReads(x, 2, st) = x.n + 1
    BY <1>1, <1>2 DEF GLReads
  <2>6. b \in Nat /\ x.n + 1 <= b
    BY <1>0, AlignedNat
  <2> HIDE DEF b
  <2>7. 2 % 4 \in DOMAIN processArgs(x, g).ptr /\ processArgs(x, g).ptr[2 % 4] = Data(0) /\ 2 < Own
    BY <2>3, AtPtr DEF Own
  <2>8. GLReads(x, 2, st) <= b
    BY <2>5, <2>6
  <2> QED BY <2>1, <2>4, <2>6, <2>7, <2>8, OneRight
<1>3. CASE x.f = "ProgramString"
  <2> DEFINE b == ALIGNED(x.n)
             db == ALIGNED(1)
  <2>1. Chunks(x, g) = <<Chunk(3, b), Chunk(Own, db)>>
    BY <1>0, <1>3, StringCalls DEF ProgramChunks
  <2>2. processArgs(x, g) = HostProgram(x)
    BY <1>3, StringCalls
  <2>3. processArgs(x, g).ptr = At({3}, Data(0))
    BY <1>0, <1>3, <2>2, ArgsOf DEF HostProgram
  <2>4. doMesaFunc(x) = {3}
    BY <1>1, <1>3 DEF doMesaFunc, fpp0, fpa0p1, fpa1p2, fpa2p3, fpa0p2, fpa1p3, fpa3p4
  <2>5. GLReads(x, 3, st) = x.n
    BY <1>1, <1>3 DEF GLReads
  <2>6. b \in Nat /\ x.n <= b /\ db \in Nat
    BY <1>0, AlignedNat
  <2> HIDE DEF b, db
  <2>7. 3 % 4 \in DOMAIN processArgs(x, g).ptr /\ processArgs(x, g).ptr[3 % 4] = Data(0) /\ 3 < Own
    BY <2>3, AtPtr DEF Own
  <2>8. GLReads(x, 3, st) <= b
    BY <2>5, <2>6
  <2> QED BY <2>1, <2>4, <2>6, <2>7, <2>8, OwnRight
<1>4. CASE x.f = "ProgramNamedParameter" /\ x.c = 0
  <2> DEFINE b == ALIGNED(x.n)
  <2>1. Chunks(x, g) = <<Chunk(2, b)>>
    BY <1>4, StringCalls DEF ProgramChunks
  <2>2. processArgs(x, g) = HostProgram(x)
    BY <1>4, StringCalls
  <2>3. processArgs(x, g).ptr = At({2}, Data(0))
    BY <1>4, <2>2, ArgsOf DEF HostProgram
  <2>4. doMesaFunc(x) = {2}
    BY <1>1, <1>4 DEF doMesaFunc, fpp0, fpa0p1, fpa1p2, fpa2p3, fpa0p2, fpa1p3, fpa3p4
  <2>5. GLReads(x, 2, st) = x.n
    BY <1>1, <1>4 DEF GLReads
  <2>6. b \in Nat /\ x.n <= b
    BY <1>0, AlignedNat
  <2> HIDE DEF b
  <2>7. 2 % 4 \in DOMAIN processArgs(x, g).ptr /\ processArgs(x, g).ptr[2 % 4] = Data(0) /\ 2 < Own
    BY <2>3, AtPtr DEF Own
  <2>8. GLReads(x, 2, st) <= b
    BY <2>5, <2>6
  <2> QED BY <2>1, <2>4, <2>6, <2>7, <2>8, OneRight
<1>5. CASE x.f = "ProgramNamedParameter" /\ x.c # 0
  <2> DEFINE b == ALIGNED(x.n)
             db == 4 * SizeOf(x.t)
  <2>1. Chunks(x, g) = <<Chunk(2, b), Chunk(3, db)>>
    BY <1>5, StringCalls DEF ProgramChunks
  <2>2. processArgs(x, g) = HostProgram(x)
    BY <1>5, StringCalls
  <2>3. processArgs(x, g).ptr = Both(At({2}, Data(0)), At({3}, Data(b)))
    BY <1>5, <2>2, ArgsOf DEF HostProgram
  <2>4. doMesaFunc(x) = {2, 3}
    BY <1>1, <1>5 DEF doMesaFunc, fpp0, fpa0p1, fpa1p2, fpa2p3, fpa0p2, fpa1p3, fpa3p4
  <2>5. GLReads(x, 2, st) = x.n /\ GLReads(x, 3, st) = db
    BY <1>1, <1>5 DEF GLReads
  <2>6. b \in Nat /\ x.n <= b /\ db \in Nat /\ ALIGNED(b) = b
    BY <1>0, AlignedNat, AlignedTwice, Sizes8
  <2> HIDE DEF b, db
  <2>7. DOMAIN processArgs(x, g).ptr = {2, 3} /\ processArgs(x, g).ptr[2] = Data(0) /\ processArgs(x, g).ptr[3] = Data(b)
    BY <2>3 DEF Both, At
  <2>8. 2 % 4 = 2 /\ 3 % 4 = 3 /\ 2 < Own /\ 3 < Own
    BY DEF Own
  <2>9. /\ 2 % 4 \in DOMAIN processArgs(x, g).ptr /\ 3 % 4 \in DOMAIN processArgs(x, g).ptr
        /\ processArgs(x, g).ptr[2 % 4] = Data(0) /\ processArgs(x, g).ptr[3 % 4] = Data(ALIGNED(b))
    BY <2>6, <2>7, <2>8
  <2>10. GLReads(x, 2, st) <= b /\ GLReads(x, 3, st) <= db
    BY <2>5, <2>6
  <2> QED BY <2>1, <2>4, <2>6, <2>8, <2>9, <2>10, TwoRight
<1> QED BY <1>0, <1>2, <1>3, <1>4, <1>5

-----------------------------------------------------------------------------
(* ---- Answers: what OpenGL writes is what the guest copies. -------------- *)

\* A copy takes what OpenGL was told to write, from there, and has room for it.
CopyRight(cp, x, g, st) ==
  /\ cp.a \in doMesaFunc(x) /\ cp.a % 4 \in DOMAIN processArgs(x, g).ptr
  /\ processArgs(x, g).ptr[cp.a % 4] = cp.from /\ cp.from[1] # "data"
  /\ cp.cb = GLWrites(x, cp.a, st)
  /\ cp.from[1] = "out" => 4 * Words(cp.cb) <= Room(x, cp.a, st)

CopiesRight(x, g, st) == \A cp \in fifoOutData(x, g) : CopyRight(cp, x, g, st)

\* A call that asks, with answers and without data.
LEMMA AskedRight ==
  ASSUME NEW x, NEW g, NEW st, Chunks(x, g) = <<>>, CopiesRight(x, g, st),
         \A a \in doMesaFunc(x) : \E cp \in fifoOutData(x, g) : cp.a = a
  PROVE  PointersRight(x, g, st)
<1>1. Sent(<<>>) = {} /\ Len(<<>>) \in Nat
  BY DEF Sent
<1>2. ASSUME NEW a \in doMesaFunc(x)
      PROVE  a % 4 \in DOMAIN processArgs(x, g).ptr /\ processArgs(x, g).ptr[a % 4][1] # "data"
  BY DEF CopiesRight, CopyRight
<1> QED BY <1>1, <1>2, NoneRight

LEMMA OneAnswer ==
  ASSUME NEW x, NEW g, NEW st, NEW a \in Nat, NEW off, NEW cb, fifoOutData(x, g) = {Copy(a, Out(off), cb)},
         Chunks(x, g) = <<>>, doMesaFunc(x) = {a}, NEW slot, a % 4 = slot,
         processArgs(x, g).ptr = At({slot}, Out(off)),
         cb = GLWrites(x, a, st), 4 * Words(cb) <= Room(x, a, st)
  PROVE  CopiesRight(x, g, st) /\ PointersRight(x, g, st)
<1>1. CopyRight(Copy(a, Out(off), cb), x, g, st)
  BY AtPtr DEF CopyRight, Copy, Out
<1>2. CopiesRight(x, g, st)
  BY <1>1 DEF CopiesRight
<1>3. \A arg \in doMesaFunc(x) : \E cp \in fifoOutData(x, g) : cp.a = arg
  BY DEF Copy
<1> QED BY <1>2, <1>3, AskedRight

\* A call without answers.
LEMMA NoAnswer == ASSUME NEW x, NEW g, NEW st, fifoOutData(x, g) = {} PROVE CopiesRight(x, g, st)
BY DEF CopiesRight

\* Whole words.
LEMMA WholeWords == ASSUME NEW w \in Nat PROVE 4 * Words(w * 4) = w * 4 /\ 4 * Words(w * 8) = w * 8
BY DEF Words

LEMMA AskingRight ==
  ASSUME NEW x \in Asking, x \notin WrongAnswers, NEW g, NEW st
  PROVE  CopiesRight(x, g, st) /\ PointersRight(x, g, st)
<1>0. AskingShapeOf(x) /\ x \notin glAreResident /\ x.f \notin {"AreResident", "GetInfoLog"} /\ x.n \in Nat
  BY AskingShape DEF AskingShapeOf, WrongAnswers
<1>1. /\ x.f \notin VectorFunctions \cup ArrayFunctions \cup ClearFunctions \cup PixelFunctions
      /\ x.f \notin ReadFunctions /\ x.f # "TexCoord"
  <2>1. x.f \in AskingNames
    BY <1>0 DEF AskingShapeOf, AskingNames
  <2> QED BY <1>0, <2>1, AskingCalls, TransferNames DEF AskingNames, ReadNames
<1>2. CASE x.f = "GetLocation"
  <2> DEFINE b == ALIGNED(x.n + 1)
  <2>1. Chunks(x, g) = <<Chunk(1, b)>>
    BY <1>0, <1>2, AskingCalls DEF NameChunks
  <2>2. processArgs(x, g) = HostName(x)
    BY <1>0, <1>2, AskingCalls
  <2>3. processArgs(x, g).ptr = At({1}, Data(0))
    BY <1>2, <2>2, ArgsOf DEF HostName
  <2>4. doMesaFunc(x) = {1}
    BY <1>1, <1>2 DEF doMesaFunc, fpp0, fpa0p1, fpa1p2, fpa2p3, fpa0p2, fpa1p3, fpa3p4
  <2>5. GLReads(x, 1, st) = x.n + 1
    BY <1>1, <1>2 DEF GLReads
  <2>6. b \in Nat /\ x.n + 1 <= b
    BY <1>0, AlignedNat
  <2>7. fifoOutData(x, g) = {}
    BY <1>1, <1>2 DEF fifoOutData
  <2> HIDE DEF b
  <2>8. 1 % 4 \in DOMAIN processArgs(x, g).ptr /\ processArgs(x, g).ptr[1 % 4] = Data(0) /\ 1 < Own
    BY <2>3, AtPtr DEF Own
  <2>9. GLReads(x, 1, st) <= b
    BY <2>5, <2>6
  <2> QED BY <2>1, <2>4, <2>6, <2>7, <2>8, <2>9, OneRight, NoAnswer
<1>3. CASE x.f \in {"DebugMessageInsert", "GetString"}
  <2>1. \E cb : Chunks(x, g) = <<Chunk(Own, cb)>>
    BY <1>0, <1>3, AskingCalls
  <2>2. PICK cb : Chunks(x, g) = <<Chunk(Own, cb)>>
    BY <2>1
  <2>3. doMesaFunc(x) = {}
    BY <1>1, <1>3 DEF doMesaFunc, fpp0, fpa0p1, fpa1p2, fpa2p3, fpa0p2, fpa1p3, fpa3p4
  <2>4. fifoOutData(x, g) = {}
    BY <1>1, <1>3 DEF fifoOutData
  <2>5. Len(Chunks(x, g)) = 1 /\ Chunks(x, g)[1].a = Own
    BY <2>2 DEF Chunk
  <2>6. Sent(Chunks(x, g)) = {}
    BY <2>5 DEF Sent, Own
  <2> QED BY <2>3, <2>4, <2>5, <2>6, NoneRight, NoAnswer
<1> DEFINE others == {"Gen", "Getv", "GetBooleanv", "GetClipPlane", "GetInternalformat", "GetActiveUniform",
                      "GetActiveUniformName", "GetAttachedShaders"}
<1>4. x.f \in others => Chunks(x, g) = <<>> /\ processArgs(x, g) = HostAnswer(x)
  BY <1>0, AskingCalls
<1>5. CASE x.f = "Gen"
  <2>1. processArgs(x, g).ptr = At({1}, Out(0))
    BY <1>4, <1>5, ArgsOf DEF HostAnswer
  <2>2. doMesaFunc(x) = {1}
    BY <1>1, <1>5 DEF doMesaFunc, fpp0, fpa0p1, fpa1p2, fpa2p3, fpa0p2, fpa1p3, fpa3p4
  <2>3. fifoOutData(x, g) = {Copy(1, Out(0), x.n * 4)}
    BY <1>1, <1>5 DEF fifoOutData
  <2>4. GLWrites(x, 1, st) = x.n * 4 /\ Room(x, 1, st) = x.n * 4
    BY <1>1, <1>5 DEF GLWrites, Room
  <2>5. 4 * Words(x.n * 4) <= Room(x, 1, st)
    BY <1>0, <2>4, WholeWords
  <2>6. 1 % 4 = 1
    OBVIOUS
  <2> QED BY <1>4, <1>5, <2>1, <2>2, <2>3, <2>4, <2>5, <2>6, OneAnswer
<1>6. CASE x.f = "GetClipPlane"
  <2>1. processArgs(x, g).ptr = At({1}, Out(0))
    BY <1>4, <1>6, ArgsOf DEF HostAnswer
  <2>2. doMesaFunc(x) = {1}
    BY <1>1, <1>6 DEF doMesaFunc, fpp0, fpa0p1, fpa1p2, fpa2p3, fpa0p2, fpa1p3, fpa3p4
  <2>3. fifoOutData(x, g) = {Copy(1, Out(0), 32)}
    BY <1>1, <1>6 DEF fifoOutData
  <2>4. GLWrites(x, 1, st) = 32 /\ Room(x, 1, st) = 32
    BY <1>1, <1>6 DEF GLWrites, Room
  <2>5. 4 * Words(32) <= Room(x, 1, st)
    BY <2>4 DEF Words
  <2>6. 1 % 4 = 1
    OBVIOUS
  <2> QED BY <1>4, <1>6, <2>1, <2>2, <2>3, <2>4, <2>5, <2>6, OneAnswer
<1>7. CASE x.f = "GetInternalformat"
  <2>1. processArgs(x, g).ptr = At({0}, Out(0))
    BY <1>4, <1>7, ArgsOf DEF HostAnswer
  <2>2. doMesaFunc(x) = {4}
    BY <1>1, <1>7 DEF doMesaFunc, fpp0, fpa0p1, fpa1p2, fpa2p3, fpa0p2, fpa1p3, fpa3p4
  <2>3. fifoOutData(x, g) = {Copy(4, Out(0), x.n * 4)}
    BY <1>1, <1>7 DEF fifoOutData
  <2>4. GLWrites(x, 4, st) = x.n * 4 /\ Room(x, 4, st) = x.n * 4
    BY <1>1, <1>7 DEF GLWrites, Room
  <2>5. 4 * Words(x.n * 4) <= Room(x, 4, st)
    BY <1>0, <2>4, WholeWords
  <2>6. 4 % 4 = 0
    OBVIOUS
  <2> QED BY <1>4, <1>7, <2>1, <2>2, <2>3, <2>4, <2>5, <2>6, OneAnswer
<1>8. CASE x.f = "Getv"
  <2> DEFINE cb == x.n * SizeOf(x.t)
             off == ALIGNED(4)
  <2>0. x.c \in 1 .. 4 /\ x.t \in {"f", "i", "d", "i64"}
    BY <1>0, <1>8 DEF AskingShapeOf
  <2>1. processArgs(x, g).ptr = At({x.c % 4}, Out(off))
    BY <1>4, <1>8, ArgsOf DEF HostAnswer
  <2>2. doMesaFunc(x) = {x.c}
    BY <1>1, <1>8 DEF doMesaFunc, fpp0, fpa0p1, fpa1p2, fpa2p3, fpa0p2, fpa1p3, fpa3p4
  <2>3. fifoOutData(x, g) = {Copy(x.c, Out(off), cb)}
    BY <1>1, <1>8 DEF fifoOutData
  <2>4. GLWrites(x, x.c, st) = cb /\ Room(x, x.c, st) = cb
    BY <1>1, <1>8 DEF GLWrites, Room
  <2>5. 4 * Words(cb) = cb /\ cb \in Nat
    <3>1. SizeOf(x.t) \in {4, 8}
      BY <2>0 DEF SizeOf
    <3> QED BY <1>0, <3>1, WholeWords
  <2> HIDE DEF cb, off
  <2>6. 4 * Words(cb) <= Room(x, x.c, st) /\ x.c \in Nat
    BY <2>0, <2>4, <2>5
  <2> QED BY <1>4, <1>8, <2>1, <2>2, <2>3, <2>4, <2>6, OneAnswer
<1>9. CASE x.f = "GetBooleanv"
  <2> DEFINE off == ALIGNED(4)
  <2>0. x.n \in {1, 4} /\ x.t = "ub"
    BY <1>0, <1>9 DEF AskingShapeOf
  <2>1. processArgs(x, g).ptr = At({1}, Out(off))
    BY <1>4, <1>9, ArgsOf DEF HostAnswer
  <2>2. doMesaFunc(x) = {1}
    BY <1>1, <1>9 DEF doMesaFunc, fpp0, fpa0p1, fpa1p2, fpa2p3, fpa0p2, fpa1p3, fpa3p4
  <2>3. fifoOutData(x, g) = {Copy(1, Out(off), x.n)}
    BY <1>1, <1>9 DEF fifoOutData
  <2>4. GLWrites(x, 1, st) = x.n /\ Room(x, 1, st) = 32
    BY <1>1, <1>9, <2>0 DEF GLWrites, Room, SizeOf
  <2>5. 4 * Words(x.n) <= Room(x, 1, st)
    BY <2>0, <2>4 DEF Words
  <2>6. 1 % 4 = 1
    OBVIOUS
  <2> HIDE DEF off
  <2> QED BY <1>4, <1>9, <2>1, <2>2, <2>3, <2>4, <2>5, <2>6, OneAnswer
<1>10. CASE x.f = "GetActiveUniform"
  <2> DEFINE ptr == processArgs(x, g).ptr
             cb == Least(x.n + 1, x.c)
  <2>1. ptr = Both(At({3}, Out(0)), Both(At({0}, Out(8)), Both(At({1}, Out(16)), At({2}, Out(24)))))
    BY <1>4, <1>10, ArgsOf DEF HostAnswer
  <2>2. doMesaFunc(x) = {3, 4, 5, 6}
    BY <1>1, <1>10 DEF doMesaFunc, fpp0, fpa0p1, fpa1p2, fpa2p3, fpa0p2, fpa1p3, fpa3p4
  <2>3. fifoOutData(x, g) = {Copy(3, Out(0), 4), Copy(4, Out(8), 4), Copy(5, Out(16), 4), Copy(6, Out(24), cb)}
    BY <1>1, <1>10 DEF fifoOutData
  <2>4. \A a \in 3 .. 6 : GLWrites(x, a, st) = (IF a = 6 THEN cb ELSE 4) /\ Room(x, a, st) = (IF a = 6 THEN x.c ELSE 4)
    BY <1>1, <1>10 DEF GLWrites, Room
  <2>5. 4 * Words(cb) <= x.c
    <3>1. x \in glGetActiveUniform /\ x.c \in Nat
      BY <1>0, <1>10 DEF AskingShapeOf
    <3>2. ~(4 * Words(cb) > x.c)
      BY <3>1 DEF WrongAnswers
    <3>3. cb \in Nat
      BY <1>0, <3>1 DEF Least
    <3>4. 4 * Words(cb) \in Nat
      <4> HIDE DEF cb
      <4> QED BY <3>3 DEF Words
    <3> HIDE DEF cb
    <3> QED BY <3>1, <3>2, <3>4
  <2> HIDE DEF cb, ptr
  <2>6. DOMAIN ptr = 0 .. 3 /\ ptr[3] = Out(0) /\ ptr[0] = Out(8) /\ ptr[1] = Out(16) /\ ptr[2] = Out(24)
    BY <2>1 DEF Both, At
  <2>7. 4 * Words(4) = 4
    BY DEF Words
  <2>8. CopyRight(Copy(3, Out(0), 4), x, g, st)
    BY <2>2, <2>4, <2>6, <2>7 DEF CopyRight, Copy, Out, ptr
  <2>9. CopyRight(Copy(4, Out(8), 4), x, g, st)
    BY <2>2, <2>4, <2>6, <2>7 DEF CopyRight, Copy, Out, ptr
  <2>10. CopyRight(Copy(5, Out(16), 4), x, g, st)
    BY <2>2, <2>4, <2>6, <2>7 DEF CopyRight, Copy, Out, ptr
  <2>11. CopyRight(Copy(6, Out(24), cb), x, g, st)
    BY <2>2, <2>4, <2>5, <2>6 DEF CopyRight, Copy, Out, ptr
  <2>12. CopiesRight(x, g, st)
    BY <2>3, <2>8, <2>9, <2>10, <2>11 DEF CopiesRight
  <2>13. \A a \in doMesaFunc(x) : \E cp \in fifoOutData(x, g) : cp.a = a
    BY <2>2, <2>3 DEF Copy
  <2> QED BY <1>4, <1>10, <2>12, <2>13, AskedRight
<1>11. CASE x.f = "GetActiveUniformName"
  <2> DEFINE ptr == processArgs(x, g).ptr
             cb == Least(x.n + 1, x.c)
  <2>1. ptr = Both(At({3}, Out(0)), At({0}, Out(8)))
    BY <1>4, <1>11, ArgsOf DEF HostAnswer
  <2>2. doMesaFunc(x) = {3, 4}
    BY <1>1, <1>11 DEF doMesaFunc, fpp0, fpa0p1, fpa1p2, fpa2p3, fpa0p2, fpa1p3, fpa3p4
  <2>3. fifoOutData(x, g) = {Copy(3, Out(0), 4), Copy(4, Out(8), cb)}
    BY <1>1, <1>11 DEF fifoOutData
  <2>4. \A a \in 3 .. 4 : GLWrites(x, a, st) = (IF a = 4 THEN cb ELSE 4) /\ Room(x, a, st) = (IF a = 4 THEN x.c ELSE 4)
    BY <1>1, <1>11 DEF GLWrites, Room
  <2>5. 4 * Words(cb) <= x.c
    <3>1. x \in glGetActiveUniformName /\ x.c \in Nat
      BY <1>0, <1>11 DEF AskingShapeOf
    <3>2. ~(4 * Words(cb) > x.c)
      BY <3>1 DEF WrongAnswers
    <3>3. cb \in Nat
      BY <1>0, <3>1 DEF Least
    <3>4. 4 * Words(cb) \in Nat
      <4> HIDE DEF cb
      <4> QED BY <3>3 DEF Words
    <3> HIDE DEF cb
    <3> QED BY <3>1, <3>2, <3>4
  <2> HIDE DEF cb, ptr
  <2>6. DOMAIN ptr = {0, 3} /\ ptr[3] = Out(0) /\ ptr[0] = Out(8)
    BY <2>1 DEF Both, At
  <2>7. 4 * Words(4) = 4
    BY DEF Words
  <2>8. CopyRight(Copy(3, Out(0), 4), x, g, st)
    BY <2>2, <2>4, <2>6, <2>7 DEF CopyRight, Copy, Out, ptr
  <2>9. CopyRight(Copy(4, Out(8), cb), x, g, st)
    BY <2>2, <2>4, <2>5, <2>6 DEF CopyRight, Copy, Out, ptr
  <2>10. CopiesRight(x, g, st)
    BY <2>3, <2>8, <2>9 DEF CopiesRight
  <2>11. \A a \in doMesaFunc(x) : \E cp \in fifoOutData(x, g) : cp.a = a
    BY <2>2, <2>3 DEF Copy
  <2> QED BY <1>4, <1>11, <2>10, <2>11, AskedRight
<1>12. CASE x.f = "GetAttachedShaders"
  <2> DEFINE ptr == processArgs(x, g).ptr
             cb == x.n * 4
  <2>1. ptr = Both(At({2}, Out(0)), At({3}, Out(8)))
    BY <1>4, <1>12, ArgsOf DEF HostAnswer
  <2>2. doMesaFunc(x) = {2, 3}
    BY <1>1, <1>12 DEF doMesaFunc, fpp0, fpa0p1, fpa1p2, fpa2p3, fpa0p2, fpa1p3, fpa3p4
  <2>3. fifoOutData(x, g) = {Copy(2, Out(0), 4), Copy(3, Out(8), cb)}
    BY <1>1, <1>12 DEF fifoOutData
  <2>4. \A a \in 2 .. 3 : GLWrites(x, a, st) = (IF a = 3 THEN cb ELSE 4) /\ Room(x, a, st) = (IF a = 3 THEN cb ELSE 4)
    BY <1>1, <1>12 DEF GLWrites, Room
  <2>5. 4 * Words(cb) = cb /\ cb \in Nat
    BY <1>0, WholeWords
  <2> HIDE DEF cb, ptr
  <2>6. DOMAIN ptr = {2, 3} /\ ptr[2] = Out(0) /\ ptr[3] = Out(8)
    BY <2>1 DEF Both, At
  <2>7. 4 * Words(4) = 4
    BY DEF Words
  <2>8. CopyRight(Copy(2, Out(0), 4), x, g, st)
    BY <2>2, <2>4, <2>6, <2>7 DEF CopyRight, Copy, Out, ptr
  <2>9. CopyRight(Copy(3, Out(8), cb), x, g, st)
    BY <2>2, <2>4, <2>5, <2>6 DEF CopyRight, Copy, Out, ptr
  <2>10. CopiesRight(x, g, st)
    BY <2>3, <2>8, <2>9 DEF CopiesRight
  <2>11. \A a \in doMesaFunc(x) : \E cp \in fifoOutData(x, g) : cp.a = a
    BY <2>2, <2>3 DEF Copy
  <2> QED BY <1>4, <1>12, <2>10, <2>11, AskedRight
<1> QED BY <1>0, <1>2, <1>3, <1>5, <1>6, <1>7, <1>8, <1>9, <1>10, <1>11, <1>12 DEF AskingShapeOf

-----------------------------------------------------------------------------
(* ---- Pixels: by records that agree, the areas and sizes agree. ---------- *)

\* What the records hold when nothing sets a row length for reading, and an
\* OpenGL that misses no more than parameters set to 0.
Records ==
  {r \in PixelState : r.unpackWidth \in {0} \cup RowLengths /\ r.unpackHeight \in {0} \cup RowLengths /\ r.packWidth = 0}
Agrees(s, r) ==
  s.unpack = r.unpack /\ s.pack = r.pack /\ s.packWidth = 0 /\ s.unpackWidth \in {0, r.unpackWidth}

LEMMA PixelSize4 == ASSUME NEW t \in Pixels PROVE PixelSize(t) \in 1 .. 4
BY DEF Pixels, PixelSize, szgldata, SizeOf

\* From row to row, at least the row.
LEMMA StrideOf ==
  ASSUME NEW width, NEW rowLength, NEW size, NEW b \in Nat,
         b = (IF rowLength = 0 THEN width ELSE rowLength) * size
  PROVE  /\ Stride(width, rowLength, size) \in Nat
         /\ b % 4 = 0 => Stride(width, rowLength, size) = b
         /\ Stride(width, rowLength, size) + b <= ALIGNED(2 * b)
<1>1. Stride(width, rowLength, size) = ((b + 4 - 1) \div 4) * 4
  BY DEF Stride, Alignment
<1>2. PICK q \in Nat, r \in 0 .. 3 : b = 4 * q + r
  <2>1. b \div 4 \in Nat /\ b % 4 \in 0 .. 3 /\ b = 4 * (b \div 4) + (b % 4)
    OBVIOUS
  <2> QED BY <2>1
<1>3. Stride(width, rowLength, size) = IF r = 0 THEN 4 * q ELSE 4 * q + 4
  <2>1. (b + 4 - 1) \div 4 = IF r = 0 THEN q ELSE q + 1
    BY <1>2
  <2> QED BY <1>1, <2>1
<1>4. b % 4 = r
  BY <1>2
<1>5. ALIGNED(2 * b) = IF r = 0 THEN 8 * q ELSE 8 * q + 8
  <2>1. 2 * b = 8 * q + 2 * r /\ 2 * b \in Nat
    BY <1>2
  <2>2. (2 * b) % 8 = 2 * r /\ (2 * b) \div 8 = q
    BY <1>2, <2>1
  <2> DEFINE c == 2 * b
  <2>3. ALIGNED(c) = IF c % 8 # 0 THEN ((c \div 8) + 1) * 8 ELSE c
    BY DEF ALIGNED
  <2> HIDE DEF c
  <2>4. c % 8 = 2 * r /\ c \div 8 = q /\ c = 8 * q + 2 * r
    BY <2>1, <2>2 DEF c
  <2>5. ALIGNED(c) = IF r = 0 THEN 8 * q ELSE 8 * q + 8
    BY <1>2, <2>3, <2>4
  <2> QED BY <2>5 DEF c
<1> QED BY <1>2, <1>3, <1>4, <1>5

\* What a call that no row length cuts says of each.
LEMMA NotCut ==
  ASSUME NEW x, x.n \in Nat, ~ Cuts(x), NEW r \in RowLengths \ {0}
  PROVE  /\ r \in Nat /\ (r * PixelSize(x.t)) % 4 = 0
         /\ x.c = 3 => r >= 2
         /\ r >= x.n + (IF x.f = "TexSubImage" THEN 1 ELSE 0)
<1>1. r \in Nat
  BY PixelAssumption
<1>2. ~(r < x.n + (IF x.f = "TexSubImage" THEN XOffset ELSE 0)) /\ ~(x.c = 3 /\ r < Rows)
      /\ (r * PixelSize(x.t)) % Alignment = 0
  BY DEF Cuts
<1> QED BY <1>1, <1>2 DEF XOffset, Rows, Alignment

\* Rows of an image, and their bytes.
ImageRow(x, g) == IF g.unpackWidth = 0 THEN x.n ELSE g.unpackWidth
ImageRows(x, g) ==
  CASE x.c = 1 -> 1
    [] x.c = 2 -> Rows
    [] OTHER -> IF g.unpackHeight = 0 THEN Rows ELSE g.unpackHeight

LEMMA MoreRows == ASSUME NEW k \in Nat, NEW m \in Nat, m >= 2 PROVE k * m >= 2 * k /\ k * m \in Nat
<1>1. k * m = 2 * k + k * (m - 2) /\ m - 2 \in Nat
  OBVIOUS
<1>2. k * (m - 2) \in Nat
  BY <1>1
<1> QED BY <1>1, <1>2

LEMMA ImageFacts ==
  ASSUME NEW x, x.n \in Nat, x.c \in 1 .. 3, x.t \in Pixels, ~ Cuts(x), NEW g \in Records
  PROVE  \E k \in Nat :
           /\ k = ImageRow(x, g) * PixelSize(x.t) /\ k >= x.n * PixelSize(x.t)
           /\ g.unpackWidth # 0 => k % 4 = 0
           /\ (g.unpackWidth # 0 /\ x.f = "TexSubImage") => k >= x.n * PixelSize(x.t) + PixelSize(x.t)
           /\ x.c = 1 => ImageBytes(x, g) = k
           /\ x.c # 1 => ImageBytes(x, g) >= 2 * k
           /\ ImageBytes(x, g) \in Nat
<1> DEFINE ps == PixelSize(x.t)
           row == ImageRow(x, g)
           rows == ImageRows(x, g)
           k == row * ps
<1>1. ps \in 1 .. 4
  BY PixelSize4
<1>2. g \in PixelState /\ g.unpackWidth \in {0} \cup RowLengths /\ g.unpackHeight \in {0} \cup RowLengths
  BY DEF Records
<1>4. row \in Nat /\ row >= x.n
  <2>1. g.unpackWidth # 0 => g.unpackWidth \in Nat /\ g.unpackWidth >= x.n
    BY <1>2, NotCut
  <2> QED BY <2>1 DEF ImageRow
<1>5. g.unpackWidth # 0 => (row * ps) % 4 = 0 /\ (x.f = "TexSubImage" => row >= x.n + 1)
  <2>1. g.unpackWidth # 0 =>
          (g.unpackWidth * ps) % 4 = 0 /\ g.unpackWidth >= x.n + (IF x.f = "TexSubImage" THEN 1 ELSE 0)
    BY <1>2, NotCut
  <2> QED BY <2>1 DEF ImageRow
<1>6. rows \in Nat /\ (x.c = 1 => rows = 1) /\ (x.c # 1 => rows >= 2)
  <2>1. x.c = 3 /\ g.unpackHeight # 0 => g.unpackHeight \in Nat /\ g.unpackHeight >= 2
    BY <1>2, NotCut
  <2> QED BY <2>1 DEF ImageRows, Rows
<1>7. ImageBytes(x, g) = row * rows * ps
  BY DEF ImageBytes, ImageRow, ImageRows
<1>8. k \in Nat /\ k >= x.n * ps /\ (row >= x.n + 1 => k >= x.n * ps + ps)
  <2> HIDE DEF ps, row
  <2> QED BY <1>1, <1>4
<1>9. ImageBytes(x, g) = k * rows
  <2> HIDE DEF ps, row, rows
  <2>1. row * rows * ps = (row * ps) * rows
    <3>1. ps = 1 \/ ps = 2 \/ ps = 3 \/ ps = 4
      BY <1>1
    <3>2. \A m, r \in Nat : m * r * 1 = (m * 1) * r /\ m * r * 2 = (m * 2) * r /\ m * r * 3 = (m * 3) * r /\ m * r * 4 = (m * 4) * r
      OBVIOUS
    <3> QED BY <1>4, <1>6, <3>1, <3>2
  <2> QED BY <1>7, <2>1
<1> HIDE DEF k, rows
<1>10. x.c = 1 => ImageBytes(x, g) = k
  BY <1>6, <1>8, <1>9
<1>11. x.c # 1 => ImageBytes(x, g) >= 2 * k
  BY <1>6, <1>8, <1>9, MoreRows
<1>12. ImageBytes(x, g) \in Nat
  BY <1>2, ImageNat
<1> QED BY <1>5, <1>8, <1>10, <1>11, <1>12 DEF k

\* OpenGL stays inside an image that guest and host agree about.
LEMMA ImageFits ==
  ASSUME NEW x, x.n \in Nat, x.c \in 1 .. 3, x.t \in Pixels, ~ Cuts(x), NEW g \in Records,
         NEW w \in {0, g.unpackWidth}, x.c > 1 => (x.n * PixelSize(x.t)) % 4 = 0
  PROVE  /\ GLImage(x, w) \in Nat
         /\ GLImage(x, w) + (IF x.f = "TexSubImage" /\ g.unpackWidth # 0 THEN PixelSize(x.t) ELSE 0) <= ImageBytes(x, g)
<1> DEFINE ps == PixelSize(x.t)
           m == x.n * ps
           stride == Stride(x.n, w, ps)
<1>1. PICK k \in Nat :
         /\ k = ImageRow(x, g) * ps /\ k >= m
         /\ g.unpackWidth # 0 => k % 4 = 0
         /\ (g.unpackWidth # 0 /\ x.f = "TexSubImage") => k >= m + ps
         /\ x.c = 1 => ImageBytes(x, g) = k
         /\ x.c # 1 => ImageBytes(x, g) >= 2 * k
         /\ ImageBytes(x, g) \in Nat
  BY ImageFacts
<1>2. ps \in 1 .. 4 /\ m \in Nat
  BY PixelSize4
<1>3. GLImage(x, w) = (IF x.c = 1 THEN 0 ELSE stride) + m
  <2>1. (Rows - 1) * stride = stride
    <3>1. stride \in Int
      <4>1. ((IF w = 0 THEN x.n ELSE w) * ps + Alignment - 1) \div Alignment \in Int
        <5>1. w \in Nat
          BY DEF Records, PixelState
        <5>2. (IF w = 0 THEN x.n ELSE w) * ps \in Nat
          <6> HIDE DEF ps
          <6> QED BY <1>2, <5>1
        <5> QED BY <5>2 DEF Alignment
      <4> QED BY <4>1 DEF Stride, Alignment
    <3> HIDE DEF stride
    <3> QED BY <3>1 DEF Rows
  <2> QED BY <2>1 DEF GLImage
<1>4. x.c # 1 => stride \in Nat /\ stride <= k /\ (w # 0 => stride = k) /\ (w = 0 => stride = m)
  <2>1. CASE w = 0
    <3>1. x.c # 1 => m % 4 = 0
      BY DEF ps, m
    <3>2. stride \in Nat /\ (m % 4 = 0 => stride = m)
      <4>1. m = (IF w = 0 THEN x.n ELSE w) * ps
        BY <2>1
      <4> HIDE DEF m, ps
      <4> QED BY <1>2, <4>1, StrideOf
    <3> HIDE DEF m, ps, stride
    <3> QED BY <1>1, <1>2, <2>1, <3>1, <3>2
  <2>2. CASE w # 0
    <3>1. k = (IF w = 0 THEN x.n ELSE w) * ps
      BY <1>1, <2>2 DEF ImageRow
    <3>2. k % 4 = 0
      BY <1>1, <2>2
    <3>3. stride = k
      <4> HIDE DEF m, ps
      <4> QED BY <3>1, <3>2, StrideOf
    <3> HIDE DEF m, ps, stride
    <3> QED BY <2>2, <3>3
  <2> QED BY <2>1, <2>2
<1> HIDE DEF m, ps, stride
<1>5. GLImage(x, w) \in Nat
  BY <1>2, <1>3, <1>4
<1>6. CASE x.c = 1
  BY <1>1, <1>2, <1>3, <1>5, <1>6 DEF ps
<1>7. CASE x.c # 1
  BY <1>1, <1>2, <1>3, <1>4, <1>5, <1>7 DEF ps
<1> QED BY <1>6, <1>7

\* An image drawn in rows that OpenGL pads: rounded up, it is long enough.
LEMMA DrawnFits ==
  ASSUME NEW x, x.n \in Nat, x.c = 2, x.t \in Pixels, ~ Cuts(x), NEW g \in Records, NEW w \in {0, g.unpackWidth}
  PROVE  GLImage(x, w) <= ALIGNED(ImageBytes(x, g)) /\ ImageBytes(x, g) \in Nat
<1> DEFINE ps == PixelSize(x.t)
           m == x.n * ps
           stride == Stride(x.n, w, ps)
           b == ImageBytes(x, g)
<1>1. PICK k \in Nat :
         /\ k = ImageRow(x, g) * ps /\ k >= m
         /\ g.unpackWidth # 0 => k % 4 = 0
         /\ b >= 2 * k /\ b \in Nat
  BY ImageFacts
<1>2. ps \in 1 .. 4 /\ m \in Nat
  BY PixelSize4
<1>3. CASE w = 0
  <2>1. stride \in Nat /\ stride + m <= ALIGNED(2 * m)
    <3>1. m = (IF w = 0 THEN x.n ELSE w) * ps
      BY <1>3
    <3> HIDE DEF m, ps
    <3> QED BY <1>2, <3>1, StrideOf
  <2>2. GLImage(x, w) = stride + m
    <3>1. (Rows - 1) * stride = stride
      <4> HIDE DEF stride
      <4> QED BY <2>1 DEF Rows
    <3> QED BY <3>1 DEF GLImage
  <2> HIDE DEF m, ps, stride, b
  <2>3. 2 * m <= b
    BY <1>1, <1>2
  <2>4. ALIGNED(2 * m) <= ALIGNED(b)
    <3>0. 2 * m \in Nat /\ b \in Nat
      BY <1>1, <1>2
    <3>1. PICK p \in Nat : ALIGNED(2 * m) = 8 * p /\ 2 * m <= 8 * p /\ 8 * p < (2 * m) + 8
      BY <3>0, AlignedFacts
    <3>2. PICK q \in Nat : ALIGNED(b) = 8 * q /\ b <= 8 * q /\ 8 * q < b + 8
      BY <3>0, AlignedFacts
    <3> QED BY <2>3, <3>0, <3>1, <3>2
  <2>5. ALIGNED(2 * m) \in Nat /\ ALIGNED(b) \in Nat
    BY <1>1, <1>2, AlignedNat
  <2>6. GLImage(x, w) <= ALIGNED(b) /\ b \in Nat
    BY <1>1, <1>2, <2>1, <2>2, <2>4, <2>5
  <2> QED BY <2>6 DEF b
<1>4. CASE w # 0
  <2>1. k = (IF w = 0 THEN x.n ELSE w) * ps /\ k % 4 = 0
    BY <1>1, <1>4 DEF ImageRow
  <2>2. stride = k
    <3> HIDE DEF m, ps
    <3> QED BY <2>1, StrideOf
  <2>3. GLImage(x, w) = stride + m
    <3>1. (Rows - 1) * stride = stride
      <4> HIDE DEF stride
      <4> QED BY <2>2 DEF Rows
    <3> QED BY <3>1 DEF GLImage
  <2> HIDE DEF m, ps, stride, b
  <2>4. b <= ALIGNED(b) /\ ALIGNED(b) \in Nat
    BY <1>1, AlignedNat
  <2>5. GLImage(x, w) <= ALIGNED(b) /\ b \in Nat
    BY <1>1, <1>2, <2>2, <2>3, <2>4
  <2> QED BY <2>5 DEF b
<1> QED BY <1>3, <1>4

\* The argument of a transfer, and what sends and what reads.
LEMMA TransferTakes ==
  ASSUME NEW x \in PixelTransfers
  PROVE  doMesaFunc(x) = {PixelArg(x)} /\ PixelArg(x) \in 0 .. 10 /\ PixelArg(x) < Own
<1>1. x.f \in PixelFunctions /\ x.f \in PixelNames
  BY PixelCallsOf, KindNames
<1>2. x.f \notin VectorFunctions /\ x.f # "TexCoord"
  BY <1>1, KindNames DEF VectorNames, PixelNames, SendNames, ReadNames
<1>3. x.f \notin fpp0 /\ x.f # "Rect" /\ x.f \notin fpa0p1 /\ x.f \notin fpa1p2
  BY <1>1 DEF fpp0, fpa0p1, fpa1p2, PixelNames, SendNames, ReadNames
<1>4. x.f \notin fpa2p3 /\ x.f \notin fpa0p2 /\ x.f \notin fpa1p3 /\ x.f \notin fpa3p4
  BY <1>1 DEF fpa2p3, fpa0p2, fpa1p3, fpa3p4, PixelNames, SendNames, ReadNames
<1>5. x.f \notin {"ProgramNamedParameter", "Varyings", "ColorTable", "ClearBufferSubData", "ClearTexSubImage",
                  "Map1", "Map2", "DrawIndirect", "Getv", "GetActiveUniform", "GetActiveUniformName"}
  BY <1>1 DEF PixelNames, SendNames, ReadNames
<1>6. doMesaFunc(x) = {PixelArg(x)}
  BY <1>1, <1>2, <1>3, <1>4, <1>5 DEF doMesaFunc
<1>7. PixelArg(x) \in 0 .. 10
  <2>1. PixelShapeOf(x)
    BY PixelShape
  <2>2. CASE x.f \in {"TexImage", "TexSubImage", "CompressedTexImage", "CompressedTexSubImage"}
    <3>1. x.c \in 1 .. 3
      BY <2>1, <2>2 DEF PixelShapeOf
    <3> QED BY <2>2, <3>1 DEF PixelArg
  <2>3. CASE x.f \notin {"TexImage", "TexSubImage", "CompressedTexImage", "CompressedTexSubImage"}
    BY <1>1, <2>3 DEF PixelArg, PixelNames, SendNames, ReadNames
  <2> QED BY <2>2, <2>3
<1> QED BY <1>6, <1>7 DEF Own

LEMMA TransferKinds ==
  ASSUME NEW x \in PixelTransfers
  PROVE  /\ x.f \in SendNames => x \in Sends /\ x.f \in SendFunctions /\ x.f \notin ReadFunctions
         /\ x.f \in ReadNames => x \in Reads /\ x.f \in ReadFunctions /\ x.f \notin SendFunctions
         /\ x.f \in {"DrawPixels", "PolygonStipple"} => x.f \notin SendFunctions /\ x.f \notin ReadFunctions
<1>1. x \in Sends => x.f \in SendFunctions /\ x.f \in SendNames
  BY OfKind, TransferNames DEF SendFunctions
<1>2. x \in Reads => x.f \in ReadFunctions /\ x.f \in ReadNames
  BY OfKind, TransferNames DEF ReadFunctions
<1>3. x \in FifoPixels => x.f \in {"DrawPixels", "PolygonStipple"}
  BY OfFamily DEF FifoPixels, glDrawPixels, glPolygonStipple
<1>4. x \in Sends \/ x \in Reads \/ x \in FifoPixels
  BY DEF PixelTransfers
<1> QED BY <1>1, <1>2, <1>3, <1>4, TransferNames DEF SendNames, ReadNames

\* The pointer of a transfer: an offset, none, or a place in the texture area, with
\* room for what OpenGL reads.
PlaceRight(x, g, s) ==
  processArgs(x, g).ptr[PixelArg(x) % 4] \in
    IF IsOffset(x, s) THEN {Given}
    ELSE IF x.n = 0 THEN {Null}
    ELSE IF x.f \in SendFunctions
      THEN {p \in {Area(PixelsCopied(x, g).back)} : GLUnpacks(x, s) <= PixelsCopied(x, g).len}
    ELSE {Area(ALIGNED(x.n)), AreaFront(0), AreaFront(ALIGNED(1))}

\* A transfer through the texture area: one pointer, and no data.
LEMMA PlacedAside ==
  ASSUME NEW x \in PixelTransfers, NEW g, NEW st, Chunks(x, g) = <<>>, NEW slots, NEW p,
         PixelArg(x) % 4 \in slots, processArgs(x, g).ptr = At(slots, p), p[1] # "data"
  PROVE  PointersRight(x, g, st) /\ processArgs(x, g).ptr[PixelArg(x) % 4] = p
<1>1. Sent(<<>>) = {} /\ Len(<<>>) \in Nat
  BY DEF Sent
<1>2. PixelArg(x) % 4 \in DOMAIN processArgs(x, g).ptr /\ processArgs(x, g).ptr[PixelArg(x) % 4] = p
  BY AtPtr
<1>3. \A a \in doMesaFunc(x) : a % 4 \in DOMAIN processArgs(x, g).ptr /\ processArgs(x, g).ptr[a % 4][1] # "data"
  BY <1>2, TransferTakes
<1> QED BY <1>1, <1>2, <1>3, NoneRight

LEMMA NotData ==
  /\ Given[1] # "data" /\ Null[1] # "data"
  /\ \A off : Area(off)[1] # "data" /\ AreaFront(off)[1] # "data"
BY DEF Given, Null, Area, AreaFront

LEMMA ValidSize == ASSUME NEW size \in Nat, size <= FbtSize PROVE SZFBT_VALID(size) = size
BY PixelAssumption DEF SZFBT_VALID

\* Textures and bitmaps.
LEMMA ImagesRight ==
  ASSUME NEW x \in PixelTransfers, x \notin WrongPixels, x.f \in {"TexImage", "TexSubImage", "Bitmap"},
         NEW g \in Records, NEW s, Agrees(s, g)
  PROVE  PointersRight(x, g, s) /\ PlaceRight(x, g, s)
<1> DEFINE size == ImageBytes(x, g)
           slots == IF x.c = 1 /\ x.f # "Bitmap" THEN {2, 3} ELSE {PixelArg(x) % 4}
           p == IF Unpacks(x, g) THEN Given ELSE IF x.n = 0 THEN Null ELSE Area(ALIGNED(SZFBT_VALID(size)))
<1>1. /\ x.n \in Nat /\ x.c \in 1 .. 3 /\ x.t \in Pixels /\ (x.f = "Bitmap" => x.c = 2 /\ x.t = "ub")
      /\ x.f = "TexImage" => x \in glTexImage
      /\ x.f = "TexSubImage" => x \in glTexSubImage
      /\ x.f = "Bitmap" => x \in glBitmap
  BY PixelShape DEF PixelShapeOf, Pixels
<1>2. x.f \in SendFunctions /\ x.f \notin ReadFunctions
  BY TransferKinds DEF SendNames
<1>3. Chunks(x, g) = <<>>
  BY PixelCallsOf DEF PixelChunks
<1>4. processArgs(x, g).ptr = At(slots, p)
  <2>1. processArgs(x, g) = HostTexImage(x, g)
    BY PixelCallsOf DEF HostPixels, Buffers
  <2> QED BY <2>1, ArgsOf DEF HostTexImage
<1>5. PixelArg(x) % 4 \in slots
  <2>1. CASE x.c = 1 /\ x.f # "Bitmap"
    <3>1. PixelArg(x) \in {6, 7}
      BY <1>1, <2>1 DEF PixelArg
    <3> QED BY <2>1, <3>1
  <2>2. CASE ~(x.c = 1 /\ x.f # "Bitmap")
    BY <2>2
  <2> QED BY <2>1, <2>2
<1>6. p[1] # "data"
  BY NotData
<1>7. Unpacks(x, s) = Unpacks(x, g) /\ IsOffset(x, s) = Unpacks(x, g)
  BY <1>2 DEF Unpacks, Agrees, IsOffset
<1> HIDE DEF slots, p, size
<1>0. x \in PixelTransfers
  OBVIOUS
<1>8. PointersRight(x, g, s) /\ processArgs(x, g).ptr[PixelArg(x) % 4] = p
  BY ONLY <1>0, <1>3, <1>4, <1>5, <1>6, PlacedAside
<1> USE DEF size
<1>9. CASE Unpacks(x, g) \/ x.n = 0
  BY <1>7, <1>8, <1>9 DEF PlaceRight, p
<1>10. CASE ~(Unpacks(x, g) \/ x.n = 0)
  <2> DEFINE skip == IF x.f = "TexSubImage" /\ g.unpackWidth # 0 THEN PixelSize(x.t) ELSE 0
  <2>1. size \in Nat /\ size <= FbtSize
    <3>1. size \in Nat
      BY <1>1, ImageNat DEF Records
    <3>2. ~ Overflows(x)
      BY <1>1 DEF WrongPixels
    <3>3. size = ImageBytes(x, [InitClientPixels EXCEPT !.unpackWidth = g.unpackWidth, !.unpackHeight = g.unpackHeight])
      BY DEF ImageBytes, InitClientPixels
    <3>4. ~(size > FbtSize)
      <4>1. g.unpackWidth \in {0} \cup RowLengths /\ g.unpackHeight \in {0} \cup RowLengths
        BY DEF Records
      <4> HIDE DEF size
      <4> QED BY <3>2, <3>3, <4>1 DEF Overflows
    <3> HIDE DEF size
    <3> QED BY <3>1, <3>4, PixelAssumption
  <2>2. PixelsCopied(x, g) = FBTMMCPY(ALIGNED(size), size - skip)
    <3>1. CASE x.f = "TexSubImage"
      <4>1. XOffset * PixelSize(x.t) = PixelSize(x.t)
        BY PixelSizes DEF XOffset
      <4> QED BY <1>10, <3>1, <4>1 DEF PixelsCopied
    <3>2. CASE x.f # "TexSubImage"
      <4>1. size - skip = size
        <5> HIDE DEF size
        <5> QED BY <2>1, <3>2
      <4> QED BY <1>10, <3>2, <4>1 DEF PixelsCopied
    <3> QED BY <3>1, <3>2
  <2>3. GLUnpacks(x, s) \in Nat /\ GLUnpacks(x, s) + skip <= size
    <3>1. CASE x.f = "Bitmap"
      <4>1. GLUnpacks(x, s) = 5
        BY <3>1 DEF GLUnpacks, Rows, Alignment
      <4>2. ImageRow(x, g) \in {x.n} \cup RowLengths /\ ImageRow(x, g) # 0 /\ ImageRow(x, g) \in Nat
        BY <1>1, <1>10 DEF ImageRow, Records, PixelState
      <4>3. ~(ImageRow(x, g) * Rows < Alignment + 1)
        BY <1>1, <3>1, <4>2 DEF WrongPixels
      <4>4. size = ImageRow(x, g) * Rows * PixelSize(x.t) /\ PixelSize(x.t) = 1
        BY <1>1, <3>1 DEF ImageBytes, ImageRow, PixelSize, szgldata, SizeOf
      <4> HIDE DEF size
      <4> QED BY <3>1, <4>1, <4>2, <4>3, <4>4 DEF Rows, Alignment
    <3>2. CASE x.f # "Bitmap"
      <4>1. x \in glTexImage \cup glTexSubImage
        BY <1>1, <3>2
      <4>2. ~ Cuts(x) /\ (x.c > 1 => (x.n * PixelSize(x.t)) % Alignment = 0)
        BY <4>1 DEF WrongPixels
      <4>3. s.unpackWidth \in {0, g.unpackWidth}
        BY DEF Agrees
      <4>4. GLUnpacks(x, s) = GLImage(x, s.unpackWidth)
        BY <3>2 DEF GLUnpacks
      <4>5. x.c > 1 => (x.n * PixelSize(x.t)) % 4 = 0
        BY <4>2 DEF Alignment
      <4> QED BY <1>1, <4>2, <4>3, <4>4, <4>5, ImageFits
    <3> QED BY <3>1, <3>2
  <2>4. skip \in Nat
    BY PixelSizes
  <2> HIDE DEF size, skip
  <2>5. size - skip \in Nat /\ size - skip <= FbtSize /\ GLUnpacks(x, s) <= size - skip
    BY <2>1, <2>3, <2>4, PixelAssumption
  <2>6. PixelsCopied(x, g).back = ALIGNED(size) /\ PixelsCopied(x, g).len = size - skip
    BY <2>2, <2>5 DEF FBTMMCPY
  <2>7. p = Area(ALIGNED(size))
    BY <1>10, <2>1, ValidSize DEF p, size
  <2> QED BY <1>2, <1>7, <1>8, <1>10, <2>5, <2>6, <2>7 DEF PlaceRight
<1> QED BY <1>8, <1>9, <1>10

\* Bytes as they are.
LEMMA BytesRight ==
  ASSUME NEW x \in PixelTransfers, x \notin WrongPixels,
         x.f \in {"CompressedTexImage", "CompressedTexSubImage", "BufferData", "BufferSubData"},
         NEW g, NEW s, Agrees(s, g)
  PROVE  PointersRight(x, g, s) /\ PlaceRight(x, g, s)
<1>0. x \in PixelTransfers
  OBVIOUS
<1>1. x.n \in Nat /\ x \in Sends /\ x.f \in SendFunctions /\ x.f \notin ReadFunctions
  BY PixelShape, TransferKinds DEF PixelShapeOf, SendNames
<1>2. x.n <= FbtSize
  <2>1. ~(x.n > FbtSize)
    BY <1>1 DEF WrongPixels
  <2> QED BY <1>1, <2>1, PixelAssumption
<1>3. Chunks(x, g) = <<>>
  BY PixelCallsOf DEF PixelChunks
<1>4. GLUnpacks(x, s) = x.n
  BY DEF GLUnpacks
<1>5. ~ Unpacks(x, g) /\ x.n # 0 => PixelsCopied(x, g).back = ALIGNED(x.n) /\ PixelsCopied(x, g).len = x.n
  <2>1. ~ Unpacks(x, g) /\ x.n # 0 => PixelsCopied(x, g) = FBTMMCPY(ALIGNED(x.n), x.n)
    BY DEF PixelsCopied
  <2> QED BY <1>2, <2>1 DEF FBTMMCPY
<1>6. CASE x.f \in {"CompressedTexImage", "CompressedTexSubImage"}
  <2> DEFINE slots == {PixelArg(x) % 4}
             p == IF Unpacks(x, g) THEN Given ELSE Area(ALIGNED(SZFBT_VALID(x.n)))
  <2>1. processArgs(x, g).ptr = At(slots, p)
    <3>1. processArgs(x, g) = HostCompressedTexImage(x, g)
      BY <1>6, PixelCallsOf DEF HostPixels, Buffers
    <3> QED BY <3>1, ArgsOf DEF HostCompressedTexImage
  <2>2. PixelArg(x) % 4 \in slots /\ p[1] # "data"
    BY NotData
  <2>3. Unpacks(x, s) = Unpacks(x, g) /\ IsOffset(x, s) = Unpacks(x, g) /\ x.n # 0
    BY <1>1, <1>6, PixelShape DEF Unpacks, Agrees, IsOffset, PixelShapeOf
  <2> HIDE DEF slots, p
  <2>4. PointersRight(x, g, s) /\ processArgs(x, g).ptr[PixelArg(x) % 4] = p
    BY ONLY <1>0, <1>3, <2>1, <2>2, PlacedAside
  <2>5. p = IF Unpacks(x, g) THEN Given ELSE Area(ALIGNED(x.n))
    BY <1>1, <1>2, ValidSize DEF p
  <2> QED BY <1>1, <1>4, <1>5, <2>3, <2>4, <2>5 DEF PlaceRight
<1>7. CASE x.f \in {"BufferData", "BufferSubData"}
  <2> DEFINE p == IF x.n = 0 THEN Null ELSE Area(ALIGNED(SZFBT_VALID(x.n)))
             arg == IF x.f = "BufferData" THEN 2 ELSE 3
             first == IF x.f = "BufferData" THEN {1} ELSE {1, 2}
  <2>1. processArgs(x, g).ptr = Both(At(first, Given), At({arg}, p))
    <3>1. processArgs(x, g) = HostBufferData(x)
      BY <1>7, PixelCallsOf DEF HostPixels, Buffers
    <3>2. HostBufferData(x).ptr = IF x.f = "BufferData" THEN Both(At({1}, Given), At({2}, p))
                                  ELSE Both(At({1, 2}, Given), At({3}, p))
      BY ArgsOf DEF HostBufferData
    <3> HIDE DEF p
    <3> QED BY <1>7, <3>1, <3>2
  <2>2. PixelArg(x) = arg /\ arg % 4 = arg /\ arg \notin first
    BY <1>7 DEF PixelArg
  <2>3. ~ Unpacks(x, g) /\ ~ IsOffset(x, s)
    BY <1>1, <1>7 DEF Unpacks, IsOffset, Buffers
  <2>4. p[1] # "data"
    BY NotData
  <2> HIDE DEF p, arg, first
  <2>5. arg \in DOMAIN processArgs(x, g).ptr /\ processArgs(x, g).ptr[arg] = p
    BY <2>1, <2>2 DEF Both, At
  <2>6. PointersRight(x, g, s)
    <3>1. Sent(<<>>) = {} /\ Len(<<>>) \in Nat
      BY DEF Sent
    <3>2. \A a \in doMesaFunc(x) : a % 4 \in DOMAIN processArgs(x, g).ptr /\ processArgs(x, g).ptr[a % 4][1] # "data"
      BY <2>2, <2>4, <2>5, TransferTakes
    <3> QED BY <1>3, <3>1, <3>2, NoneRight
  <2>7. p = IF x.n = 0 THEN Null ELSE Area(ALIGNED(x.n))
    BY <1>1, <1>2, ValidSize DEF p
  <2>8. processArgs(x, g).ptr[PixelArg(x) % 4] = p
    BY <2>2, <2>5
  <2> QED BY <1>1, <1>4, <1>5, <2>3, <2>6, <2>7, <2>8 DEF PlaceRight
<1> QED BY <1>6, <1>7

\* Pixels in the FIFO.
LEMMA DrawingRight ==
  ASSUME NEW x \in PixelTransfers, x \notin WrongPixels, x.f \in {"DrawPixels", "PolygonStipple"},
         NEW g \in Records, NEW s, Agrees(s, g)
  PROVE  PointersRight(x, g, s)
<1> DEFINE a == PixelArg(x)
           size == IF x.f = "DrawPixels" THEN ImageBytes(x, g) ELSE StippleBytes(g)
<1>1. /\ x.n \in Nat /\ x.c = 2 /\ x.t \in Pixels
      /\ x.f = "DrawPixels" => x \in glDrawPixels
      /\ x.f = "PolygonStipple" => x \in glPolygonStipple /\ x.n = 32
  BY PixelShape DEF PixelShapeOf, Pixels
<1>2. doMesaFunc(x) = {a} /\ a \in {0, 4} /\ a < Own
  BY TransferTakes DEF PixelArg
<1>3. processArgs(x, g) = HostDrawPixels(x, g)
  BY PixelCallsOf DEF HostPixels, Buffers
<1>4. a % 4 = 0 /\ a \in Nat
  BY <1>2
<1>5. CASE Unpacks(x, g)
  <2>1. Chunks(x, g) = <<>>
    BY <1>5, PixelCallsOf DEF PixelChunks
  <2>2. processArgs(x, g).ptr = At({0}, Given)
    BY <1>3, <1>5, ArgsOf DEF HostDrawPixels
  <2>3. a % 4 \in {0} /\ Given[1] # "data"
    BY <1>4, NotData
  <2>4. x \in PixelTransfers
    OBVIOUS
  <2> QED BY ONLY <2>1, <2>2, <2>3, <2>4, PlacedAside
<1>6. CASE ~ Unpacks(x, g)
  <2>1. Chunks(x, g) = <<Chunk(a, ALIGNED(size))>>
    <3>1. PixelChunks(x, g) = <<Chunk(a, ALIGNED(size))>>
      BY <1>6 DEF PixelChunks, PixelArg
    <3> QED BY <3>1, PixelCallsOf
  <2>2. processArgs(x, g).ptr = At({0}, Data(0))
    BY <1>3, <1>6, ArgsOf DEF HostDrawPixels
  <2>3. GLReads(x, a, s) = GLUnpacks(x, s)
    <3>1. /\ x.f \in PixelFunctions
          /\ x.f \notin VectorFunctions \cup ArrayFunctions \cup ValueFunctions \cup ClearFunctions
      BY PixelCallsOf
    <3> QED BY <3>1 DEF GLReads
  <2>4. GLUnpacks(x, s) <= ALIGNED(size) /\ size \in Nat
    <3>1. CASE x.f = "DrawPixels"
      <4>1. ~ Cuts(x)
        BY <1>1, <3>1 DEF WrongPixels
      <4>2. s.unpackWidth \in {0, g.unpackWidth}
        BY DEF Agrees
      <4>3. GLUnpacks(x, s) = GLImage(x, s.unpackWidth)
        BY <3>1 DEF GLUnpacks
      <4> QED BY <1>1, <3>1, <4>1, <4>2, <4>3, DrawnFits
    <3>2. CASE x.f = "PolygonStipple"
      <4>1. GLUnpacks(x, s) = 128
        BY <3>2 DEF GLUnpacks
      <4>2. g.unpackWidth \in {0} \cup RowLengths
        BY DEF Records
      <4>3. \A r \in RowLengths \ {0} : ~(r < 4) /\ r \in Nat
        BY <1>1, <3>2, PixelAssumption DEF WrongPixels
      <4>4. g.unpackWidth = 0 \/ (g.unpackWidth \in Nat /\ g.unpackWidth >= 4)
        BY <4>2, <4>3
      <4>5. StippleBytes(g) \in Nat /\ StippleBytes(g) >= 128
        BY <4>4 DEF StippleBytes
      <4>6. size = StippleBytes(g)
        BY <3>2
      <4> HIDE DEF size
      <4>7. size <= ALIGNED(size) /\ ALIGNED(size) \in Nat
        BY <4>5, <4>6, AlignedNat
      <4> QED BY <4>1, <4>5, <4>6, <4>7
    <3> QED BY <3>1, <3>2
  <2> HIDE DEF a, size
  <2>5. a % 4 \in DOMAIN processArgs(x, g).ptr /\ processArgs(x, g).ptr[a % 4] = Data(0)
    BY <1>4, <2>2, AtPtr
  <2>6. GLReads(x, a, s) <= ALIGNED(size) /\ ALIGNED(size) \in Nat
    BY <2>3, <2>4, AlignedNat
  <2> QED BY <1>2, <1>4, <2>1, <2>5, <2>6, OneRight
<1> QED BY <1>5, <1>6

\* Reads.
LEMMA ReadsRight ==
  ASSUME NEW x \in PixelTransfers, x \notin WrongPixels, x.f \in ReadNames,
         NEW g \in Records, NEW s, Agrees(s, g)
  PROVE  PointersRight(x, g, s) /\ PlaceRight(x, g, s) /\ CopiesRight(x, g, s)
<1>0. x \in PixelTransfers
  OBVIOUS
<1>1. /\ x.n \in Nat \ {0} /\ x.f \in ReadFunctions /\ x.f \notin SendFunctions
      /\ x.f \in {"ReadPixels", "GetTexImage"} => x.c = 2 /\ x.t \in Pixels /\ x \in glReadPixels \cup glGetTexImage
      /\ x.f = "GetBufferSubData" => x \in glGetBufferSubData
  <2>1. PixelShapeOf(x) /\ x.f \in ReadFunctions /\ x.f \notin SendFunctions
    BY PixelShape, TransferKinds
  <2> QED BY <2>1 DEF PixelShapeOf, ReadNames
<1>2. x.f \notin VectorFunctions \cup ArrayFunctions /\ x.f \notin {"Gen", "GetInternalformat", "AreResident",
        "GetClipPlane", "Getv", "GetBooleanv", "GetActiveUniform", "GetActiveUniformName", "GetAttachedShaders",
        "GetInfoLog"}
  BY PixelCallsOf DEF ReadNames
<1>3. fifoOutData(x, g) = PixelsRead(x, g)
  BY <1>1, <1>2 DEF fifoOutData
<1>4. \A a : GLWrites(x, a, s) = GLPacks(x, s)
  BY <1>1, <1>2 DEF GLWrites
<1>5. Chunks(x, g) = <<>>
  BY PixelCallsOf DEF PixelChunks, ReadNames
<1>6. g.packWidth = 0 /\ s.packWidth = 0 /\ g.pack = s.pack
  BY DEF Records, Agrees
<1>7. IsOffset(x, s) = Packs(x, g)
  BY <1>1, <1>6 DEF IsOffset, Packs
<1>8. doMesaFunc(x) = {PixelArg(x)} /\ PixelArg(x) \in 0 .. 10
  BY TransferTakes
<1>9. CASE x.f = "GetBufferSubData"
  <2> DEFINE p == IF x.n = 0 THEN Null ELSE Area(ALIGNED(SZFBT_VALID(x.n)))
             from == Area(ALIGNED(x.n))
  <2>1. processArgs(x, g).ptr = Both(At({1, 2}, Given), At({3}, p))
    <3>1. processArgs(x, g) = HostBufferData(x)
      BY <1>9, PixelCallsOf DEF HostPixels, Buffers
    <3> QED BY <1>9, <3>1, ArgsOf DEF HostBufferData
  <2>2. p = from
    <3>1. ~(x.n > FbtSize)
      BY <1>1, <1>9 DEF WrongPixels
    <3>2. x.n <= FbtSize
      BY <1>1, <3>1, PixelAssumption
    <3> QED BY <1>1, <3>2, ValidSize
  <2>3. ~ Packs(x, g) /\ PixelArg(x) = 3
    BY <1>9 DEF Packs, Buffers, PixelArg
  <2>4. PixelsRead(x, g) = {Copy(3, from, x.n)}
    BY <1>9, <2>3 DEF PixelsRead
  <2>5. GLPacks(x, s) = x.n
    BY <1>9 DEF GLPacks
  <2>6. from[1] = "area"
    BY DEF Area
  <2> HIDE DEF p, from
  <2>7. 3 \in DOMAIN processArgs(x, g).ptr /\ processArgs(x, g).ptr[3] = from
    BY <2>1, <2>2 DEF Both, At
  <2>8. 3 % 4 = 3
    OBVIOUS
  <2>9. CopyRight(Copy(3, from, x.n), x, g, s)
    <3>1. 3 \in doMesaFunc(x) /\ 3 % 4 \in DOMAIN processArgs(x, g).ptr /\ processArgs(x, g).ptr[3 % 4] = from
      BY <1>8, <2>3, <2>7, <2>8
    <3>2. x.n = GLWrites(x, 3, s)
      BY <1>4, <2>5
    <3> QED BY <2>6, <3>1, <3>2 DEF CopyRight, Copy
  <2>10. CopiesRight(x, g, s)
    BY <1>3, <2>4, <2>9 DEF CopiesRight
  <2>11. PointersRight(x, g, s)
    <3>1. \A a \in doMesaFunc(x) : \E cp \in fifoOutData(x, g) : cp.a = a
      BY <1>3, <1>8, <2>3, <2>4 DEF Copy
    <3> QED BY <1>5, <2>10, <3>1, AskedRight
  <2>12. PlaceRight(x, g, s)
    <3>1. processArgs(x, g).ptr[PixelArg(x) % 4] = Area(ALIGNED(x.n))
      BY <2>3, <2>7, <2>8 DEF from
    <3> QED BY <1>1, <1>7, <2>3, <3>1 DEF PlaceRight
  <2> QED BY <2>10, <2>11, <2>12
<1>10. CASE x.f # "GetBufferSubData"
  <2> DEFINE front == IF x.f = "ReadPixels" THEN AreaFront(0) ELSE AreaFront(ALIGNED(1))
             p == IF Packs(x, g) THEN Given ELSE front
             slots == {PixelArg(x) % 4}
             cb == IF x.f = "GetCompressedTexImage" THEN x.n ELSE x.n * 2 * PixelSize(x.t)
  <2>1. processArgs(x, g).ptr = At(slots, p)
    <3>1. processArgs(x, g) = HostReadPixels(x, g)
      BY <1>10, PixelCallsOf DEF HostPixels, Buffers, ReadNames
    <3> QED BY <3>1, ArgsOf DEF HostReadPixels
  <2>2. PixelArg(x) % 4 \in slots /\ p[1] # "data" /\ front[1] = "front"
    BY NotData DEF AreaFront
  <2>3. ~ Packs(x, g) => PixelsRead(x, g) = {Copy(PixelArg(x), front, cb)}
    <3>1. CASE x.f = "ReadPixels"
      BY <1>6, <3>1 DEF PixelsRead, PixelArg, Rows
    <3>2. CASE x.f = "GetTexImage"
      BY <3>2 DEF PixelsRead, PixelArg, Rows
    <3>3. CASE x.f = "GetCompressedTexImage"
      BY <3>3 DEF PixelsRead, PixelArg
    <3> QED BY <1>10, <3>1, <3>2, <3>3 DEF ReadNames
  <2>4. GLPacks(x, s) = cb
    <3>1. CASE x.f \in {"ReadPixels", "GetTexImage"}
      <4> DEFINE ps == PixelSize(x.t)
                 m == x.n * ps
                 stride == Stride(x.n, 0, ps)
      <4>1. x.c = 2 /\ ps \in 1 .. 4 /\ m \in Nat
        BY <1>1, <3>1, PixelSize4
      <4>2. m % 4 = 0
        BY <1>1, <3>1, <4>1 DEF WrongPixels, Alignment
      <4>3. stride = m
        <5>1. m = (IF 0 = 0 THEN x.n ELSE 0) * ps
          OBVIOUS
        <5> HIDE DEF m, ps
        <5> QED BY <4>1, <4>2, <5>1, StrideOf
      <4>4. GLImage(x, 0) = stride + m
        <5>1. (Rows - 1) * stride = stride
          <6> HIDE DEF stride, m
          <6> QED BY <4>1, <4>3 DEF Rows
        <5> QED BY <4>1, <5>1 DEF GLImage
      <4>5. m + m = x.n * 2 * ps
        <5> HIDE DEF ps
        <5> QED BY <1>1, <4>1 DEF m
      <4>6. GLPacks(x, s) = GLImage(x, 0)
        BY <1>6, <3>1 DEF GLPacks
      <4>7. cb = x.n * 2 * ps
        BY <3>1
      <4> HIDE DEF m, ps, stride, cb
      <4> QED BY <4>3, <4>4, <4>5, <4>6, <4>7
    <3>2. CASE x.f = "GetCompressedTexImage"
      BY <3>2 DEF GLPacks
    <3> QED BY <1>10, <3>1, <3>2 DEF ReadNames
  <2>5. p = IF Packs(x, g) THEN Given ELSE front
    OBVIOUS
  <2> HIDE DEF p, slots, cb, front
  <2>6. PointersRight(x, g, s) /\ processArgs(x, g).ptr[PixelArg(x) % 4] = p
    BY ONLY <1>0, <1>5, <2>1, <2>2, PlacedAside
  <2>7. PlaceRight(x, g, s)
    BY <1>1, <1>7, <2>5, <2>6 DEF PlaceRight, front
  <2>8. CopiesRight(x, g, s)
    <3>1. CASE Packs(x, g)
      <4>1. fifoOutData(x, g) = {}
        BY <1>3, <3>1 DEF PixelsRead
      <4> QED BY <4>1, NoAnswer
    <3>2. CASE ~ Packs(x, g)
      <4>1. PixelArg(x) % 4 \in DOMAIN processArgs(x, g).ptr /\ processArgs(x, g).ptr[PixelArg(x) % 4] = front
        BY <2>1, <2>2, <2>5, <3>2, AtPtr
      <4>2. cb = GLWrites(x, PixelArg(x), s) /\ PixelArg(x) \in doMesaFunc(x)
        BY <1>4, <1>8, <2>4
      <4>3. CopyRight(Copy(PixelArg(x), front, cb), x, g, s)
        BY <2>2, <4>1, <4>2 DEF CopyRight, Copy
      <4> QED BY <1>3, <2>3, <3>2, <4>3 DEF CopiesRight
    <3> QED BY <3>1, <3>2
  <2> QED BY <2>6, <2>7, <2>8
<1> QED BY <1>9, <1>10

-----------------------------------------------------------------------------
(* ---- Every call the two sides agree about. ------------------------------ *)

AnswerNames == (AskingNames \ {"GetLocation", "DebugMessageInsert", "GetString"}) \cup ReadNames

\* Only these functions answer.
LEMMA NoAnswerOf == ASSUME NEW x, NEW g, x.f \notin AnswerNames PROVE fifoOutData(x, g) = {}
BY TransferNames DEF fifoOutData, AnswerNames, AskingNames

LEMMA CallRight ==
  ASSUME NEW x, x \in Agreed \/ x = Flush, NEW g \in Records, NEW st, Agrees(st, g)
  PROVE  /\ ~ IsList(x) => PointersRight(x, g, st)
         /\ x.f \in SendFunctions \cup ReadFunctions => PlaceRight(x, g, st)
         /\ CopiesRight(x, g, st)
<1>1. x \in Agreed => x \in AllCalls /\ x \notin OutOfStep /\ x \notin WrongPointers /\ x \notin WrongAnswers /\ x \notin WrongPixels
  BY DEF Agreed
<1>2. CASE x \in PixelTransfers
  <2>1. x \notin WrongPixels /\ x.f \in PixelNames
    <3>1. x # Flush
      BY <1>2, PixelShape DEF PixelShapeOf, Flush, Call, SendNames, ReadNames
    <3>2. x.f \in PixelNames
      BY <1>2, PixelShape DEF PixelShapeOf, PixelNames, SendNames, ReadNames
    <3> QED BY <1>1, <3>1, <3>2
  <2>2. CASE x.f \in {"TexImage", "TexSubImage", "Bitmap"}
    <3>1. PointersRight(x, g, st) /\ PlaceRight(x, g, st)
      BY <1>2, <2>1, <2>2, ImagesRight
    <3>2. CopiesRight(x, g, st)
      BY <2>2, NoAnswerOf, NoAnswer DEF AnswerNames, AskingNames, ReadNames
    <3> QED BY <3>1, <3>2
  <2>3. CASE x.f \in {"CompressedTexImage", "CompressedTexSubImage", "BufferData", "BufferSubData"}
    <3>1. PointersRight(x, g, st) /\ PlaceRight(x, g, st)
      BY <1>2, <2>1, <2>3, BytesRight
    <3>2. CopiesRight(x, g, st)
      BY <2>3, NoAnswerOf, NoAnswer DEF AnswerNames, AskingNames, ReadNames
    <3> QED BY <3>1, <3>2
  <2>4. CASE x.f \in {"DrawPixels", "PolygonStipple"}
    <3>1. PointersRight(x, g, st)
      BY <1>2, <2>1, <2>4, DrawingRight
    <3>2. CopiesRight(x, g, st)
      BY <2>4, NoAnswerOf, NoAnswer DEF AnswerNames, AskingNames, ReadNames
    <3>3. x.f \notin SendFunctions \cup ReadFunctions
      BY <1>2, <2>4, TransferKinds
    <3> QED BY <3>1, <3>2, <3>3
  <2>5. CASE x.f \in ReadNames
    BY <1>2, <2>1, <2>5, ReadsRight
  <2> QED BY <2>1, <2>2, <2>3, <2>4, <2>5 DEF PixelNames, SendNames
<1>3. CASE x \notin PixelTransfers
  <2>1. x.f \notin SendFunctions \cup ReadFunctions
    <3>1. x.f \in SendFunctions \cup ReadFunctions => x.f \in PixelNames
      BY TransferNames DEF PixelNames
    <3>2. x = Flush => x.f = "Flush"
      BY DEF Flush, Call
    <3> QED BY <1>1, <1>3, <3>1, <3>2, TransferByName DEF PixelNames, SendNames, ReadNames
  <2>2. CASE x \in Asking
    <3>1. x # Flush
      BY <2>2, AskingShape DEF AskingShapeOf, Flush, Call
    <3> QED BY <1>1, <2>1, <2>2, <3>1, AskingRight
  <2>3. CASE x \in Settings \/ x = Flush
    <3>1. x.f \notin AnswerNames
      <4>1. x.f \in SettingNames \cup {"Flush"}
        BY <2>3, SettingShape DEF SettingShapeOf, SettingNames, Flush, Call
      <4> QED BY <4>1 DEF SettingNames, AnswerNames, AskingNames, ReadNames
    <3> QED BY <2>1, <2>3, <3>1, SettingsRight, NoAnswerOf, NoAnswer
  <2>4. CASE x \in Vectors
    <3>1. x.f \notin AnswerNames /\ x # Flush
      BY <2>4, VectorShape DEF VectorNames, AnswerNames, AskingNames, ReadNames, Flush, Call
    <3> QED BY <1>1, <2>1, <2>4, <3>1, VectorsRight, NoAnswerOf, NoAnswer
  <2>5. CASE x \in Arrays
    <3>1. x.f \notin AnswerNames /\ x # Flush
      <4>1. x.f \in ArrayNames /\ (x.f = "AreResident" => x \in glAreResident)
        BY <2>5, ArrayShape DEF ArrayShapeOf, ArrayNames
      <4>2. x # Flush
        BY <4>1 DEF ArrayNames, Flush, Call
      <4>3. x.f # "AreResident"
        BY <1>1, <4>1, <4>2 DEF WrongAnswers
      <4> QED BY <4>1, <4>2, <4>3 DEF ArrayNames, AnswerNames, AskingNames, ReadNames
    <3> QED BY <1>1, <2>1, <2>5, <3>1, ArraysRight, NoAnswerOf, NoAnswer
  <2>6. CASE x \in Values
    <3>1. x.f \in ValueNames
      BY <2>6, ValueShape DEF ValueShapeOf, ValueNames, ClearNames
    <3>2. x.f \notin AnswerNames /\ x # Flush
      BY <3>1 DEF ValueNames, ClearNames, AnswerNames, AskingNames, ReadNames, Flush, Call
    <3> QED BY <1>1, <2>1, <2>6, <3>2, ValuesRight, NoAnswerOf, NoAnswer
  <2>7. CASE x \in Strings
    <3>1. x.f \in StringNames
      BY <2>7, StringShape DEF StringShapeOf, StringNames
    <3>2. x.f \notin AnswerNames /\ x # Flush
      BY <3>1 DEF StringNames, AnswerNames, AskingNames, ReadNames, Flush, Call
    <3> QED BY <1>1, <2>1, <2>7, <3>2, StringsRight, NoAnswerOf, NoAnswer
  <2> QED BY <1>1, <1>3, <2>2, <2>3, <2>4, <2>5, <2>6, <2>7 DEF AllCalls
<1> QED BY <1>2, <1>3

\* A record that the host keeps, and OpenGL's own, agree after each of these calls
\* when they did before.
LEMMA NotedRecords ==
  ASSUME NEW x, x \in Agreed \/ x = Flush, NEW r \in Records, NEW s \in PixelState, Agrees(s, r)
  PROVE  Noted(x, r) \in Records /\ Agrees(GLNoted(x, s), Noted(x, r))
<1>1. /\ r \in PixelState /\ r.packWidth = 0
      /\ r.unpackWidth \in {0} \cup RowLengths /\ r.unpackHeight \in {0} \cup RowLengths
      /\ s.unpack = r.unpack /\ s.pack = r.pack /\ s.packWidth = 0 /\ s.unpackWidth \in {0, r.unpackWidth}
  BY DEF Records, Agrees
<1>2. x \in Agreed => x \in AllCalls /\ x \notin WrongPixels
  BY DEF Agreed
<1>3. CASE x.f \notin {"PixelStorei", "PixelStoref", "BindBuffer", "DeleteBuffers"}
  BY <1>3 DEF Noted, GLNoted
<1>4. CASE x.f \in {"PixelStorei", "PixelStoref", "BindBuffer", "DeleteBuffers"}
  <2>1. x \in Settings /\ x \notin WrongPixels /\ SettingShapeOf(x)
    <3>1. x # Flush
      BY <1>4 DEF Flush, Call
    <3> QED BY <1>2, <1>4, <3>1, NotSetting, SettingShape
  <2>2. Noted(x, r) \in PixelState
    BY <1>1, <1>2, NotedCalls
  <2>3. CASE x.f = "PixelStorei"
    <3>1. x.t \in {"unpackWidth", "unpackHeight", "packWidth"} /\ x.n \in RowLengths /\ (x.t = "packWidth" => x.n = 0)
      BY <2>1, <2>3 DEF SettingShapeOf, WrongPixels
    <3>2. Noted(x, r) = [r EXCEPT ![x.t] = x.n] /\ GLNoted(x, s) = [s EXCEPT ![x.t] = x.n]
      BY <2>3 DEF Noted, GLNoted
    <3>3. CASE x.t = "unpackWidth"
      BY <1>1, <2>2, <3>1, <3>2, <3>3 DEF Records, Agrees, PixelState
    <3>4. CASE x.t = "unpackHeight"
      BY <1>1, <2>2, <3>1, <3>2, <3>4 DEF Records, Agrees, PixelState
    <3>5. CASE x.t = "packWidth"
      BY <1>1, <2>2, <3>1, <3>2, <3>5 DEF Records, Agrees, PixelState
    <3> QED BY <3>1, <3>3, <3>4, <3>5
  <2>4. CASE x.f = "PixelStoref"
    <3> DEFINE y == [x EXCEPT !.f = "PixelStorei"]
    <3>1. x.t \in {"unpackWidth", "packWidth"} /\ x.n = 0
      BY <2>1, <2>4 DEF SettingShapeOf, WrongPixels
    <3>2. y.f = "PixelStorei" /\ y.t = x.t /\ y.n = x.n
      <4>1. x \in glPixelStoref
        BY <2>1, <2>4 DEF SettingShapeOf
      <4>2. \E t, n : x = [f |-> "PixelStoref", c |-> 0, t |-> t, n |-> n]
        BY <4>1 DEF glPixelStoref, Family, Call
      <4> QED BY <4>2
    <3>3. Noted(x, r) = r /\ GLNoted(x, s) = Noted(y, s)
      BY <2>4 DEF Noted, GLNoted
    <3> HIDE DEF y
    <3>4. Noted(y, s) = [s EXCEPT ![x.t] = 0]
      BY <3>1, <3>2 DEF Noted
    <3>5. CASE x.t = "unpackWidth"
      BY <1>1, <3>3, <3>4, <3>5 DEF Agrees, PixelState
    <3>6. CASE x.t = "packWidth"
      BY <1>1, <3>3, <3>4, <3>6 DEF Agrees, PixelState
    <3> QED BY <3>1, <3>5, <3>6
  <2>5. CASE x.f = "BindBuffer"
    <3>1. x.t \in {"unpack", "pack"}
      BY <2>1, <2>5 DEF SettingShapeOf
    <3>2. Noted(x, r) = [r EXCEPT ![x.t] = x.n] /\ GLNoted(x, s) = [s EXCEPT ![x.t] = x.n]
      BY <2>5 DEF Noted, GLNoted
    <3>3. CASE x.t = "unpack"
      BY <1>1, <2>2, <3>2, <3>3 DEF Records, Agrees, PixelState
    <3>4. CASE x.t = "pack"
      BY <1>1, <2>2, <3>2, <3>4 DEF Records, Agrees, PixelState
    <3> QED BY <3>1, <3>3, <3>4
  <2>6. CASE x.f = "DeleteBuffers"
    <3>1. /\ Noted(x, r) = [r EXCEPT !.unpack = IF r.unpack = x.n THEN 0 ELSE r.unpack,
                                     !.pack = IF r.pack = x.n THEN 0 ELSE r.pack]
          /\ GLNoted(x, s) = [s EXCEPT !.unpack = IF s.unpack = x.n THEN 0 ELSE s.unpack,
                                       !.pack = IF s.pack = x.n THEN 0 ELSE s.pack]
      BY <2>6 DEF Noted, GLNoted
    <3> QED BY <1>1, <2>2, <3>1 DEF Records, Agrees, PixelState
  <2> QED BY <1>4, <2>3, <2>4, <2>5, <2>6
<1> QED BY <1>3, <1>4

\* Every pointer argument has a number.
LEMMA TakesNat ==
  ASSUME NEW x, x \in AllCalls \/ x = Flush PROVE doMesaFunc(x) \subseteq Nat
<1>1. ArrayArg(x) \in Nat
  BY DEF ArrayArg
<1>2. CASE x \in PixelTransfers
  BY <1>2, TransferTakes
<1>3. CASE x \notin PixelTransfers
  <2>1. x.f \notin PixelFunctions
    <3>1. x = Flush => x.f \notin PixelNames
      BY DEF Flush, Call, PixelNames, SendNames, ReadNames
    <3> QED BY <1>3, <3>1, KindNames, TransferByName
  <2>2. x.c \in Nat
    <3>1. x \in Vectors => x.c \in Nat
      BY VectorShape
    <3>2. x \in Arrays => x.c \in Nat
      BY ArrayShape DEF ArrayShapeOf
    <3>3. x \in Values => x.c \in Nat
      BY ValueShape DEF ValueShapeOf
    <3>4. x \in Strings => x.c \in Nat
      BY StringShape DEF StringShapeOf
    <3>5. x \in Asking => x.c \in Nat
      BY AskingShape DEF AskingShapeOf
    <3>6. x \in Settings => x.c \in Nat
      BY OfFamily DEF Settings, glPixelStorei, glPixelStoref, glBindPixelBuffer, glDeletePixelBuffer
    <3>7. x = Flush => x.c \in Nat
      BY DEF Flush, Call
    <3> QED BY <1>3, <3>1, <3>2, <3>3, <3>4, <3>5, <3>6, <3>7 DEF AllCalls
  <2> QED BY <1>1, <2>1, <2>2 DEF doMesaFunc
<1> QED BY <1>2, <1>3

\* The chunks of a call are numbered from 1.
LEMMA ChunksNumbered ==
  ASSUME NEW x, x \in AllCalls \/ x = Flush, ~ IsList(x), NEW g
  PROVE  DOMAIN Chunks(x, g) = 1 .. Len(Chunks(x, g))
<1>1. /\ DOMAIN <<>> = 1 .. Len(<<>>)
      /\ \A a : DOMAIN <<a>> = 1 .. Len(<<a>>)
      /\ \A a, b : DOMAIN <<a, b>> = 1 .. Len(<<a, b>>)
  OBVIOUS
<1>2. CASE x \in Vectors
  BY <1>1, <1>2, VectorCalls DEF VectorChunks
<1>3. CASE x \in Arrays \cup glAreResident
  BY <1>1, <1>3, ArrayCalls DEF ArrayChunks
<1>4. CASE x \in Values
  BY <1>1, <1>4, ValueCalls DEF ValueChunks
<1>5. CASE x \in Strings
  BY <1>1, <1>5, StringCalls, StringShape DEF StringShapeOf, IsList, NameChunks, IndexedNameChunks, ProgramChunks
<1>6. CASE x \in Asking \ glAreResident
  BY <1>1, <1>6, AskingCalls DEF NameChunks
<1>7. CASE x \in PixelTransfers
  BY <1>1, <1>7, PixelCallsOf DEF PixelChunks
<1>8. CASE x \in Settings \/ x = Flush
  BY <1>1, <1>8, SettingCalls
<1> QED BY <1>2, <1>3, <1>4, <1>5, <1>6, <1>7, <1>8 DEF AllCalls

-----------------------------------------------------------------------------
(* ---- What OpenGL is given, what it answers, and the lists of strings. --- *)

\* A pointer into the data of a call that starts at word `at'.
Moved(at, p) == IF p[1] = "data" THEN <<"data", (4 * at) + p[2]>> ELSE p

\* The call OpenGL ran last was given what processArgs sets for it, by the record
\* the guest used, and not what parg[] held before.
RanInv ==
  /\ ran.x \in Made /\ ran.pix \in Records /\ Even(ran.at) /\ Agrees(ran.store, ran.pix)
  /\ ran.x.f \in SendFunctions /\ ran.x.n # 0 => ran.area = PixelsCopied(ran.x, ran.pix)
  /\ DOMAIN ran.ptr = doMesaFunc(ran.x)
  /\ LET ptr == processArgs(ran.x, ran.pix).ptr
     IN  \A a \in doMesaFunc(ran.x) : a % 4 \in DOMAIN ptr => ran.ptr[a] = Moved(ran.at, ptr[a % 4])

\* The texture area holds the pixels of the call the guest waits for; a queued
\* call has none there.
DataInv ==
  /\ hpix \in Records /\ Agrees(store, hpix)
  /\ \A k \in 1 .. Len(queue) : queue[k].x.f \in SendFunctions => queue[k].x.n = 0
  /\ \A e \in Entries : trap = <<e>> /\ e.x.f \in SendFunctions /\ e.x.n # 0 => area = PixelsCopied(e.x, e.pix)
  /\ RanInv

LEMMA MadeCalls ==
  ASSUME Calls \subseteq Agreed, NEW x \in Made
  PROVE  (x \in Agreed \/ x = Flush) /\ (x \in AllCalls \/ x = Flush)
BY DEF Made, Agreed

LEMMA FlushSendsNothing == Flush.f \notin SendFunctions /\ doMesaFunc(Flush) = {}
<1>1. Flush.f = "Flush"
  BY DEF Flush, Call
<1>2. Flush.f \notin VectorFunctions \cup PixelFunctions \cup SendFunctions
  BY <1>1, KindNames, TransferNames DEF VectorNames, PixelNames, SendNames, ReadNames
<1> QED
  BY <1>1, <1>2 DEF doMesaFunc, fpp0, fpa0p1, fpa1p2, fpa2p3, fpa0p2, fpa1p3, fpa3p4

LEMMA DataInit == ASSUME Init PROVE DataInv
<1>1. InitClientPixels \in Records /\ Agrees(InitClientPixels, InitClientPixels)
  BY StartEven DEF Records, Agrees, InitClientPixels
<1>2. hpix = InitClientPixels /\ store = InitClientPixels /\ queue = <<>> /\ trap = <<>>
  BY DEF Init
<1>3. /\ ran.x = Flush /\ ran.at = DataStart /\ ran.pix = InitClientPixels /\ ran.store = InitClientPixels
      /\ ran.ptr = <<>>
  BY DEF Init, NoCall
<1>4. DOMAIN ran.ptr = {}
  BY <1>3
<1>5. RanInv
  BY <1>1, <1>3, <1>4, FlushSendsNothing, StartEven DEF RanInv, Made
<1>6. \A e : trap # <<e>>
  BY <1>2
<1>7. 1 .. Len(queue) = {}
  BY <1>2
<1> QED BY <1>1, <1>2, <1>5, <1>6, <1>7 DEF DataInv

\* The host runs the call it is at.
LEMMA DataRun ==
  ASSUME Calls \subseteq Agreed, DataInv, store \in PixelState, Even(j),
         NEW e \in Entries, e.at = j, e.pix = hpix, Run(e),
         e.x.f \in SendFunctions /\ e.x.n # 0 => area = PixelsCopied(e.x, e.pix)
  PROVE  RanInv' /\ hpix' \in Records /\ Agrees(store', hpix')
<1>1. /\ e.x \in Made /\ (e.x \in Agreed \/ e.x = Flush) /\ (e.x \in AllCalls \/ e.x = Flush)
      /\ hpix \in Records /\ Agrees(store, hpix)
  BY MadeCalls DEF Entries, DataInv
<1>2. hpix' \in Records /\ Agrees(store', hpix')
  <2>1. hpix' = Noted(e.x, hpix) /\ store' = GLNoted(e.x, store)
    BY DEF Run, HostNoted
  <2> QED BY <1>1, <2>1, NotedRecords
<1> DEFINE ptr == processArgs(e.x, hpix).ptr
           given == [k \in 0 .. 3 |-> IF k \in DOMAIN ptr
                       THEN IF ptr[k][1] = "data" THEN <<"data", (4 * j) + ptr[k][2]>> ELSE ptr[k]
                       ELSE parg[k]]
<1>3. ran' = [x |-> e.x, at |-> e.at, pix |-> e.pix, store |-> store, area |-> area,
              end |-> j + Words(processArgs(e.x, hpix).cb), ptr |-> [a \in doMesaFunc(e.x) |-> given[a % 4]]]
  BY DEF Run
<1>4. /\ ran'.x = e.x /\ ran'.at = j /\ ran'.pix = hpix /\ ran'.store = store /\ ran'.area = area
      /\ ran'.ptr = [a \in doMesaFunc(e.x) |-> given[a % 4]]
  BY <1>3
<1>5. processArgs(ran'.x, ran'.pix).ptr = ptr
  BY <1>4
<1>6. ASSUME NEW a \in doMesaFunc(e.x), a % 4 \in DOMAIN ptr PROVE ran'.ptr[a] = Moved(j, ptr[a % 4])
  <2>1. a % 4 \in 0 .. 3
    <3>1. a \in Nat
      BY <1>1, TakesNat
    <3> QED BY <3>1
  <2>2. ran'.ptr[a] = given[a % 4]
    BY <1>4
  <2>3. given[a % 4] = IF ptr[a % 4][1] = "data" THEN <<"data", (4 * j) + ptr[a % 4][2]>> ELSE ptr[a % 4]
    BY <1>6, <2>1
  <2> HIDE DEF given, ptr
  <2> QED BY <2>2, <2>3 DEF Moved
<1>7. DOMAIN ran'.ptr = doMesaFunc(e.x)
  BY <1>4
<1> HIDE DEF given, ptr
<1>8. RanInv'
  BY <1>1, <1>4, <1>5, <1>6, <1>7 DEF RanInv
<1> QED BY <1>2, <1>8

\* Where the host is: at the first call on its way.
LEMMA AtHead ==
  ASSUME StepInv, trap # <<>>, queue # <<>>
  PROVE  Head(queue) \in Entries /\ Head(queue) = queue[1] /\ 1 \in 1 .. Len(queue)
         /\ Head(queue).at = j /\ Head(queue).pix = hpix
<1>1. queue \in Seq(Entries) /\ Pending = Append(queue, trap[1])
  BY DEF StepInv, Pending
<1>2. Pending # <<>> /\ Pending[1] = Head(queue)
  BY <1>1
<1>3. Head(queue) \in Entries /\ Head(queue) = queue[1] /\ 1 \in 1 .. Len(queue)
  BY <1>1
<1> QED BY <1>2, <1>3 DEF StepInv, Chained

LEMMA AtTrap ==
  ASSUME StepInv, queue = <<>>, NEW e \in Entries, trap = <<e>> PROVE e.at = j /\ e.pix = hpix
<1>1. trap # <<>> /\ trap[1] = e
  OBVIOUS
<1>2. Pending = Append(<<>>, e)
  BY <1>1 DEF Pending
<1>3. Pending # <<>> /\ Pending[1] = e
  BY <1>2
<1> QED BY <1>3 DEF StepInv, Chained

LEMMA DataNext ==
  ASSUME Calls \subseteq Agreed, StepInv, TypeInv, DataInv, [Next]_vars PROVE DataInv'
<1>0. queue \in Seq(Entries) /\ store \in PixelState /\ Even(j)
  BY DEF StepInv, TypeInv
<1>1. ASSUME trap = <<>>, NEW x \in Calls, QueueCall(x) PROVE DataInv'
  <2>1. /\ queue' = Append(queue, Entry(x)) /\ trap' = <<>> /\ UNCHANGED <<ran, hpix, store>>
        /\ (x.f \in SendFunctions => x.n = 0)
    BY <1>1 DEF QueueCall, MayQueue
  <2>2. PICK d : d = Entry(x) /\ d.x = x
    <3>1. Entry(x).x = x
      BY DEF Entry
    <3> QED BY <3>1
  <2>3. ASSUME NEW k \in 1 .. Len(queue') PROVE queue'[k].x.f \in SendFunctions => queue'[k].x.n = 0
    <3>1. Len(queue') = Len(queue) + 1 /\ Len(queue) \in Nat /\ queue'[Len(queue) + 1] = d
          /\ \A i \in 1 .. Len(queue) : queue'[i] = queue[i]
      BY <1>0, <2>1, <2>2
    <3>2. CASE k = Len(queue) + 1
      BY <2>1, <2>2, <3>1, <3>2
    <3>3. CASE k # Len(queue) + 1
      <4>1. k \in 1 .. Len(queue)
        BY <3>1, <3>3
      <4> QED BY <3>1, <4>1 DEF DataInv
    <3> QED BY <3>2, <3>3
  <2>4. \A e : trap' # <<e>>
    BY <2>1
  <2> QED BY <2>1, <2>3, <2>4 DEF DataInv, RanInv
<1>2. ASSUME trap = <<>>, NEW x \in Calls, TrapCall(x) PROVE DataInv'
  <2>1. trap' = <<Entry(x)>> /\ UNCHANGED <<queue, ran, hpix, store>>
        /\ (x.f \in SendFunctions => area' = PixelsCopied(x, gpix))
    BY <1>2 DEF TrapCall, Makes
  <2>2. ASSUME NEW e \in Entries, trap' = <<e>>, e.x.f \in SendFunctions PROVE area' = PixelsCopied(e.x, e.pix)
    <3>1. e = Entry(x)
      BY <2>1, <2>2
    <3>2. e.x = x /\ e.pix = gpix
      BY <3>1 DEF Entry
    <3> QED BY <2>1, <2>2, <3>2
  <2> QED BY <2>1, <2>2 DEF DataInv, RanInv
<1>3. CASE TrapFlush
  <2>1. trap' = <<Entry(Flush)>> /\ UNCHANGED <<queue, ran, hpix, store, area>>
    BY <1>3 DEF TrapFlush
  <2>2. ASSUME NEW e \in Entries, trap' = <<e>> PROVE e.x.f \notin SendFunctions
    <3>1. e = Entry(Flush)
      BY <2>1, <2>2
    <3>2. e.x = Flush
      BY <3>1 DEF Entry
    <3> QED BY <3>2, FlushSendsNothing
  <2> QED BY <2>1, <2>2 DEF DataInv, RanInv
<1>4. CASE processFifo
  <2>1. trap # <<>> /\ queue # <<>> /\ Run(Head(queue)) /\ queue' = Tail(queue) /\ UNCHANGED <<trap, area>>
    BY <1>4 DEF processFifo
  <2>2. PICK e \in Entries : e = Head(queue) /\ e = queue[1] /\ e.at = j /\ e.pix = hpix
    BY <2>1, AtHead
  <2>3. e.x.f \in SendFunctions => e.x.n = 0
    BY <2>1, <2>2, AtHead DEF DataInv
  <2>4. RanInv' /\ hpix' \in Records /\ Agrees(store', hpix')
    BY <1>0, <2>1, <2>2, <2>3, DataRun
  <2>5. ASSUME NEW k \in 1 .. Len(queue') PROVE queue'[k].x.f \in SendFunctions => queue'[k].x.n = 0
    <3>1. k + 1 \in 1 .. Len(queue) /\ queue'[k] = queue[k + 1]
      BY <1>0, <2>1
    <3> QED BY <3>1 DEF DataInv
  <2>6. \A d \in Entries : trap' = <<d>> /\ d.x.f \in SendFunctions /\ d.x.n # 0 => area' = PixelsCopied(d.x, d.pix)
    BY <2>1 DEF DataInv
  <2> QED BY <2>4, <2>5, <2>6 DEF DataInv
<1>5. CASE EndTrap
  <2>1. trap # <<>> /\ queue = <<>> /\ queue' = <<>> /\ trap' = <<>>
    BY <1>5 DEF EndTrap
  <2>2. PICK e \in Entries : trap = <<e>> /\ trap[1] = e
    BY <2>1 DEF StepInv
  <2>3. e.at = j /\ e.pix = hpix
    BY <2>1, <2>2, AtTrap
  <2>4. RanInv' /\ hpix' \in Records /\ Agrees(store', hpix')
    <3>1. CASE e.x = Flush
      <4>1. UNCHANGED <<ran, hpix, store>>
        BY <1>5, <2>2, <3>1 DEF EndTrap
      <4> QED BY <4>1 DEF DataInv, RanInv
    <3>2. CASE e.x # Flush
      <4>1. Run(e)
        BY <1>5, <2>2, <3>2 DEF EndTrap
      <4>2. e.x.f \in SendFunctions /\ e.x.n # 0 => area = PixelsCopied(e.x, e.pix)
        BY <2>2 DEF DataInv
      <4> QED BY <1>0, <2>3, <4>1, <4>2, DataRun
    <3> QED BY <3>1, <3>2
  <2>5. (\A d : trap' # <<d>>) /\ 1 .. Len(queue') = {}
    BY <2>1
  <2> QED BY <2>4, <2>5 DEF DataInv
<1>6. CASE UNCHANGED vars
  BY <1>6 DEF vars, DataInv, RanInv
<1> QED BY <1>1, <1>2, <1>3, <1>4, <1>5, <1>6 DEF Next

\* What holds along the way when the application makes only calls the two sides
\* agree about.
LEMMA DataHolds ==
  ASSUME Calls \subseteq Agreed PROVE Spec => [](StepInv /\ DataInv)
<1>0. Calls \cap OutOfStep = {}
  BY DEF Agreed
<1>1. Init => StepInv /\ TypeInv /\ DataInv
  BY StepInit, TypeInit, DataInit
<1>2. StepInv /\ TypeInv /\ DataInv /\ [Next]_vars => (StepInv /\ TypeInv /\ DataInv)'
  BY <1>0, StepNext, TypeNext, DataNext
<1> HIDE DEF StepInv, TypeInv, DataInv, Init, Next, vars
<1> QED BY <1>1, <1>2, PTL DEF Spec

\* As long as the application makes only calls the two sides agree about, OpenGL is
\* given the data each call brought, where it lies, and never a pointer left over
\* from an earlier call.
THEOREM PointersOwn == ASSUME Calls \subseteq Agreed PROVE Spec => []OwnPointers
<1>1. StepInv /\ DataInv => OwnPointers
  <2> SUFFICES ASSUME DataInv PROVE OwnPointers
    OBVIOUS
  <2> DEFINE x == ran.x
             s == Chunks(x, ran.pix)
             ptr == processArgs(x, ran.pix).ptr
             sent == {k \in DOMAIN s : s[k].a < Own}
  <2>1. /\ (x \in Agreed \/ x = Flush) /\ (x \in AllCalls \/ x = Flush)
        /\ ran.pix \in Records /\ Agrees(ran.store, ran.pix)
    BY MadeCalls DEF DataInv, RanInv
  <2>2. SUFFICES ASSUME ~ IsList(x)
                 PROVE  /\ \A k \in sent :
                             /\ s[k].a \in DOMAIN ran.ptr
                             /\ ran.ptr[s[k].a] = <<"data", 4 * PlacedAt(ran.at, s, k - 1)>>
                             /\ GLReads(x, s[k].a, ran.store) <= s[k].cb
                        /\ \A a \in DOMAIN ran.ptr : ran.ptr[a][1] = "data" => \E k \in sent : s[k].a = a
                        /\ x.f \in SendFunctions \cup ReadFunctions =>
                             ran.ptr[PixelArg(x)] \in
                               IF IsOffset(x, ran.store) THEN {Given}
                               ELSE IF x.n = 0 THEN {Null}
                               ELSE IF x.f \in SendFunctions
                                 THEN {p \in {Area(ran.area.back)} : GLUnpacks(x, ran.store) <= ran.area.len}
                               ELSE {Area(ALIGNED(x.n)), AreaFront(0), AreaFront(ALIGNED(1))}
    BY DEF OwnPointers
  <2>3. PointersRight(x, ran.pix, ran.store)
    BY <2>1, <2>2, CallRight
  <2>4. DOMAIN s = 1 .. Len(s)
    BY <2>1, <2>2, ChunksNumbered
  <2>5. sent = Sent(s)
    BY <2>4 DEF Sent
  <2>6. DOMAIN ran.ptr = doMesaFunc(x) /\ \A a \in doMesaFunc(x) : a % 4 \in DOMAIN ptr => ran.ptr[a] = Moved(ran.at, ptr[a % 4])
    BY DEF DataInv, RanInv
  <2>7. Even(ran.at)
    BY DEF DataInv, RanInv
  <2>8. /\ \A a \in doMesaFunc(x) : a % 4 \in DOMAIN ptr
        /\ \A k \in Sent(s) : ChunkRight(x, s, ptr, ran.store, k)
        /\ \A a \in doMesaFunc(x) : ptr[a % 4][1] = "data" => \E k \in Sent(s) : s[k].a = a
    BY <2>3 DEF PointersRight
  <2>9. x.f \in SendFunctions \cup ReadFunctions => PlaceRight(x, ran.pix, ran.store) /\ x \in PixelTransfers
    <3>1. x.f \in SendFunctions \cup ReadFunctions => PlaceRight(x, ran.pix, ran.store)
      BY <2>1, CallRight
    <3>2. x.f \in SendFunctions \cup ReadFunctions => x.f \in PixelNames
      BY TransferNames DEF PixelNames
    <3>3. Flush.f \notin PixelNames
      BY DEF Flush, Call, PixelNames, SendNames, ReadNames
    <3> QED BY <2>1, <3>1, <3>2, <3>3, TransferByName
  <2>10. x.f \in SendFunctions /\ x.n # 0 => ran.area = PixelsCopied(x, ran.pix)
    BY DEF DataInv, RanInv
  <2> HIDE DEF x, s, ptr, sent
  <2>11. ASSUME NEW k \in sent
         PROVE  /\ s[k].a \in DOMAIN ran.ptr
                /\ ran.ptr[s[k].a] = <<"data", 4 * PlacedAt(ran.at, s, k - 1)>>
                /\ GLReads(x, s[k].a, ran.store) <= s[k].cb
    <3>1. ChunkRight(x, s, ptr, ran.store, k)
      BY <2>5, <2>8
    <3>2. PICK off \in Nat : ptr[s[k].a % 4] = Data(off) /\ \A at : Even(at) => 4 * PlacedAt(at, s, k - 1) = (4 * at) + off
      BY <3>1 DEF ChunkRight
    <3>3. s[k].a \in doMesaFunc(x) /\ s[k].a % 4 \in DOMAIN ptr /\ GLReads(x, s[k].a, ran.store) <= s[k].cb
      BY <3>1 DEF ChunkRight
    <3>4. ran.ptr[s[k].a] = Moved(ran.at, Data(off))
      BY <2>6, <3>2, <3>3
    <3>5. Moved(ran.at, Data(off)) = <<"data", (4 * ran.at) + off>>
      BY DEF Moved, Data
    <3>6. 4 * PlacedAt(ran.at, s, k - 1) = (4 * ran.at) + off
      BY <2>7, <3>2
    <3> QED BY <2>6, <3>3, <3>4, <3>5, <3>6
  <2>12. ASSUME NEW a \in DOMAIN ran.ptr, ran.ptr[a][1] = "data" PROVE \E k \in sent : s[k].a = a
    <3>1. ran.ptr[a] = Moved(ran.at, ptr[a % 4]) /\ a \in doMesaFunc(x)
      BY <2>6, <2>8
    <3>2. ptr[a % 4][1] = "data"
      BY <2>12, <3>1 DEF Moved
    <3> QED BY <2>5, <2>8, <3>1, <3>2
  <2>13. ASSUME x.f \in SendFunctions \cup ReadFunctions
         PROVE  ran.ptr[PixelArg(x)] \in
                  IF IsOffset(x, ran.store) THEN {Given}
                  ELSE IF x.n = 0 THEN {Null}
                  ELSE IF x.f \in SendFunctions
                    THEN {p \in {Area(ran.area.back)} : GLUnpacks(x, ran.store) <= ran.area.len}
                  ELSE {Area(ALIGNED(x.n)), AreaFront(0), AreaFront(ALIGNED(1))}
    <3>1. PixelArg(x) \in doMesaFunc(x) /\ PixelArg(x) % 4 \in DOMAIN ptr
      BY <2>8, <2>9, <2>13, TransferTakes
    <3>2. ptr[PixelArg(x) % 4] \in
            IF IsOffset(x, ran.store) THEN {Given}
            ELSE IF x.n = 0 THEN {Null}
            ELSE IF x.f \in SendFunctions
              THEN {p \in {Area(ran.area.back)} : GLUnpacks(x, ran.store) <= ran.area.len}
            ELSE {Area(ALIGNED(x.n)), AreaFront(0), AreaFront(ALIGNED(1))}
      BY <2>9, <2>10, <2>13 DEF PlaceRight, ptr
    <3>3. ptr[PixelArg(x) % 4][1] # "data"
      BY <3>2, NotData
    <3>4. ran.ptr[PixelArg(x)] = ptr[PixelArg(x) % 4]
      BY <2>6, <3>1, <3>3 DEF Moved
    <3> QED BY <3>2, <3>4
  <2> QED BY <2>11, <2>12, <2>13
<1> HIDE DEF StepInv, DataInv, OwnPointers
<1> QED BY <1>1, DataHolds, PTL

\* And each answer is copied from where OpenGL was told to write it, all of it, and
\* within the caller's memory.
THEOREM AnswersRight == ASSUME Calls \subseteq Agreed PROVE Spec => []AnswerRight
<1>1. StepInv /\ DataInv => AnswerRight
  <2> SUFFICES ASSUME DataInv, NEW cp \in fifoOutData(ran.x, ran.pix)
               PROVE  /\ cp.a \in DOMAIN ran.ptr
                      /\ ran.ptr[cp.a] = cp.from
                      /\ cp.cb = GLWrites(ran.x, cp.a, ran.store)
                      /\ cp.from[1] = "out" => 4 * Words(cp.cb) <= Room(ran.x, cp.a, ran.store)
    BY DEF AnswerRight
  <2>1. /\ (ran.x \in Agreed \/ ran.x = Flush)
        /\ ran.pix \in Records /\ Agrees(ran.store, ran.pix)
    BY MadeCalls DEF DataInv, RanInv
  <2>2. CopyRight(cp, ran.x, ran.pix, ran.store)
    BY <2>1, CallRight DEF CopiesRight
  <2> DEFINE ptr == processArgs(ran.x, ran.pix).ptr
  <2>3. DOMAIN ran.ptr = doMesaFunc(ran.x)
        /\ \A a \in doMesaFunc(ran.x) : a % 4 \in DOMAIN ptr => ran.ptr[a] = Moved(ran.at, ptr[a % 4])
    BY DEF DataInv, RanInv
  <2>4. cp.a \in doMesaFunc(ran.x) /\ cp.a % 4 \in DOMAIN ptr /\ ptr[cp.a % 4] = cp.from /\ cp.from[1] # "data"
    BY <2>2 DEF CopyRight
  <2> HIDE DEF ptr
  <2>5. ran.ptr[cp.a] = cp.from
    BY <2>3, <2>4 DEF Moved
  <2> QED BY <2>2, <2>3, <2>4, <2>5 DEF CopyRight
<1> HIDE DEF StepInv, DataInv, AnswerRight
<1> QED BY <1>1, DataHolds, PTL

\* Bytes from the start of a call's data to chunk k.
OffsetOf(at, s, k) == 4 * (PlacedAt(at, s, k - 1) - at)

LEMMA OffsetsOn ==
  ASSUME NEW at, Even(at), NEW s, Sized(s)
  PROVE  /\ OffsetOf(at, s, 1) = 0
         /\ \A k \in 1 .. Len(s) : OffsetOf(at, s, k + 1) = OffsetOf(at, s, k) + ALIGNED(s[k].cb)
<1>0. Even(at) /\ Sized(s)
  OBVIOUS
<1>a. /\ PlacedAt(at, s, 0) = at
      /\ \A k \in 0 .. Len(s) : Even(PlacedAt(at, s, k))
      /\ \A k \in 1 .. Len(s) : PlacedAt(at, s, k) = PlacedAt(at, s, k - 1) + Taken(s[k].cb)
  BY ONLY <1>0, PlacedOn
<1>1. /\ PlacedAt(at, s, 0) = at /\ at \in Nat
      /\ \A k \in 0 .. Len(s) : PlacedAt(at, s, k) \in Nat
      /\ \A k \in 1 .. Len(s) : PlacedAt(at, s, k) = PlacedAt(at, s, k - 1) + Taken(s[k].cb)
  BY <1>0, <1>a DEF Even
<1>2. OffsetOf(at, s, 1) = 0
  BY <1>1 DEF OffsetOf
<1>3. ASSUME NEW k \in 1 .. Len(s) PROVE OffsetOf(at, s, k + 1) = OffsetOf(at, s, k) + ALIGNED(s[k].cb)
  <2>1. k - 1 \in 0 .. Len(s) /\ k \in 0 .. Len(s) /\ s[k].cb \in Nat /\ (k + 1) - 1 = k
    BY DEF Sized
  <2>2. PICK p \in Nat : p = PlacedAt(at, s, k - 1)
    BY <1>1, <2>1
  <2>3. PICK w \in Nat : w = Taken(s[k].cb) /\ ALIGNED(s[k].cb) = 4 * w
    BY <2>1, TakenNat
  <2>4. PlacedAt(at, s, k) = p + w
    BY <1>1, <2>2, <2>3
  <2>5. OffsetOf(at, s, k + 1) = 4 * ((p + w) - at) /\ OffsetOf(at, s, k) = 4 * (p - at)
    BY <2>1, <2>2, <2>4 DEF OffsetOf
  <2> QED BY <1>1, <2>3, <2>5
<1> QED BY <1>2, <1>3

\* A list inside the data, whose entries lead to whole strings that it does not cover.
ListRight(x, s, at, list, st) ==
  /\ list + (8 * x.c) <= OffsetOf(at, s, Len(s) + 1)
  /\ \A k \in DOMAIN s : s[k].a >= String(1) =>
       /\ StringAt(x, s[k].a - 100) = OffsetOf(at, s, k)
       /\ GLReads(x, s[k].a, st) <= s[k].cb
       /\ \/ OffsetOf(at, s, k) + GLReads(x, s[k].a, st) <= list
          \/ list + (8 * x.c) <= OffsetOf(at, s, k)

\* One string and the list, two strings and the list, and the lengths, a string with
\* a terminator and the list.
LEMMA ListOfOne ==
  ASSUME NEW x, x.c = 1, NEW at, Even(at), NEW st, NEW reads \in Nat, \A a : GLReads(x, a, st) = reads,
         NEW cb \in Nat, NEW db \in Nat, NEW s,
         Len(s) = 2, DOMAIN s = 1 .. 2, s[1] = Chunk(String(1), cb), s[2] = Chunk(2, db),
         StringAt(x, 1) = 0, NEW list \in Nat, reads <= cb, reads <= list, list + 8 <= ALIGNED(cb) + ALIGNED(db)
  PROVE  ListRight(x, s, at, list, st)
<1>1. s[1].a = 101 /\ s[1].cb = cb /\ s[2].a = 2 /\ s[2].cb = db
  BY DEF Chunk, String
<1>2. Sized(s)
  BY <1>1 DEF Sized
<1>a. Even(at) /\ Len(s) = 2
  OBVIOUS
<1>3. OffsetOf(at, s, 1) = 0 /\ \A k \in 1 .. 2 : OffsetOf(at, s, k + 1) = OffsetOf(at, s, k) + ALIGNED(s[k].cb)
  BY ONLY <1>2, <1>a, OffsetsOn
<1>4. OffsetOf(at, s, 1 + 1) = OffsetOf(at, s, 1) + ALIGNED(s[1].cb)
      /\ OffsetOf(at, s, 2 + 1) = OffsetOf(at, s, 2) + ALIGNED(s[2].cb)
  BY <1>3
<1>5. ALIGNED(cb) \in Nat /\ ALIGNED(db) \in Nat
  BY AlignedNat
<1>6. OffsetOf(at, s, 2) = ALIGNED(cb) /\ OffsetOf(at, s, 3) = ALIGNED(cb) + ALIGNED(db)
  BY <1>1, <1>3, <1>4, <1>5
<1>7. \A k \in 1 .. 2 : k = 1 \/ k = 2
  OBVIOUS
<1> QED BY <1>1, <1>3, <1>6, <1>7 DEF ListRight, String

LEMMA ListOfTwo ==
  ASSUME NEW x, x.c = 2, NEW at, Even(at), NEW st, NEW reads \in Nat, \A a : GLReads(x, a, st) = reads,
         NEW cb \in Nat, NEW db \in Nat, NEW s,
         Len(s) = 3, DOMAIN s = 1 .. 3, s[1] = Chunk(String(1), cb), s[2] = Chunk(String(2), cb), s[3] = Chunk(2, db),
         StringAt(x, 1) = 0, StringAt(x, 2) = ALIGNED(cb), NEW list \in Nat, reads <= cb,
         ALIGNED(cb) + reads <= list, list + 16 <= (2 * ALIGNED(cb)) + ALIGNED(db)
  PROVE  ListRight(x, s, at, list, st)
<1>1. s[1].a = 101 /\ s[1].cb = cb /\ s[2].a = 102 /\ s[2].cb = cb /\ s[3].a = 2 /\ s[3].cb = db
  BY DEF Chunk, String
<1>2. Sized(s)
  BY <1>1 DEF Sized
<1>a. Even(at) /\ Len(s) = 3
  OBVIOUS
<1>3. OffsetOf(at, s, 1) = 0 /\ \A k \in 1 .. 3 : OffsetOf(at, s, k + 1) = OffsetOf(at, s, k) + ALIGNED(s[k].cb)
  BY ONLY <1>2, <1>a, OffsetsOn
<1>4. OffsetOf(at, s, 1 + 1) = OffsetOf(at, s, 1) + ALIGNED(s[1].cb)
      /\ OffsetOf(at, s, 2 + 1) = OffsetOf(at, s, 2) + ALIGNED(s[2].cb)
      /\ OffsetOf(at, s, 3 + 1) = OffsetOf(at, s, 3) + ALIGNED(s[3].cb)
  BY <1>3
<1>5. ALIGNED(cb) \in Nat /\ ALIGNED(db) \in Nat
  BY AlignedNat
<1>6. OffsetOf(at, s, 2) = ALIGNED(cb) /\ OffsetOf(at, s, 3) = 2 * ALIGNED(cb)
      /\ OffsetOf(at, s, 4) = (2 * ALIGNED(cb)) + ALIGNED(db)
  BY <1>1, <1>3, <1>4, <1>5
<1>7. \A k \in 1 .. 3 : k = 1 \/ k = 2 \/ k = 3
  OBVIOUS
<1> QED BY <1>1, <1>3, <1>5, <1>6, <1>7 DEF ListRight, String

LEMMA ListWithLengths ==
  ASSUME NEW x, x.c = 1, NEW at, Even(at), NEW st, NEW reads \in Nat, \A a : GLReads(x, a, st) = reads,
         NEW fb \in Nat, NEW cb \in Nat, NEW tb \in Nat, NEW db \in Nat, NEW s,
         Len(s) = 4, DOMAIN s = 1 .. 4,
         s[1] = Chunk(3, fb), s[2] = Chunk(String(1), cb), s[3] = Chunk(Own, tb), s[4] = Chunk(2, db),
         StringAt(x, 1) = ALIGNED(fb), NEW list \in Nat, reads <= cb, ALIGNED(fb) + reads <= list,
         list + 8 <= ALIGNED(fb) + ALIGNED(cb) + ALIGNED(tb) + ALIGNED(db)
  PROVE  ListRight(x, s, at, list, st)
<1>1. /\ s[1].a = 3 /\ s[1].cb = fb /\ s[2].a = 101 /\ s[2].cb = cb
      /\ s[3].a = 99 /\ s[3].cb = tb /\ s[4].a = 2 /\ s[4].cb = db
  BY DEF Chunk, String, Own
<1>2. Sized(s)
  BY <1>1 DEF Sized
<1>a. Even(at) /\ Len(s) = 4
  OBVIOUS
<1>3. OffsetOf(at, s, 1) = 0 /\ \A k \in 1 .. 4 : OffsetOf(at, s, k + 1) = OffsetOf(at, s, k) + ALIGNED(s[k].cb)
  BY ONLY <1>2, <1>a, OffsetsOn
<1>4. OffsetOf(at, s, 1 + 1) = OffsetOf(at, s, 1) + ALIGNED(s[1].cb)
      /\ OffsetOf(at, s, 2 + 1) = OffsetOf(at, s, 2) + ALIGNED(s[2].cb)
      /\ OffsetOf(at, s, 3 + 1) = OffsetOf(at, s, 3) + ALIGNED(s[3].cb)
      /\ OffsetOf(at, s, 4 + 1) = OffsetOf(at, s, 4) + ALIGNED(s[4].cb)
  BY <1>3
<1>5. ALIGNED(fb) \in Nat /\ ALIGNED(cb) \in Nat /\ ALIGNED(tb) \in Nat /\ ALIGNED(db) \in Nat
  BY AlignedNat
<1>6. OffsetOf(at, s, 2) = ALIGNED(fb) /\ OffsetOf(at, s, 5) = ALIGNED(fb) + ALIGNED(cb) + ALIGNED(tb) + ALIGNED(db)
  BY <1>1, <1>3, <1>4, <1>5
<1>7. \A k \in 1 .. 4 : k = 1 \/ k = 2 \/ k = 3 \/ k = 4
  OBVIOUS
<1> QED BY <1>1, <1>6, <1>7 DEF ListRight, String

\* The lists the two sides agree about: one varying, whose name's length leaves a
\* remainder that strlen(varys[i] + 1) does not lose; one or two strings.
LEMMA ListShape ==
  ASSUME NEW x \in Agreed, IsList(x)
  PROVE  /\ x \in Strings /\ x.n \in Nat \ {0} /\ x.t \in {"b", "i"} /\ x.c \in 1 .. 2
         /\ x.f = "Varyings" => x.c = 1 /\ x.n % 8 >= 2 /\ x.t = "b"
         /\ x.t = "i" => x.c = 1
         /\ x.f = "ShaderSourceARB" => x.c = 1
<1>1. x \in AllCalls /\ x \notin OutOfStep /\ x \notin WrongPointers
  BY DEF Agreed
<1>2. x \in Strings
  <2>1. x.f \in {"Varyings", "ShaderSource", "ShaderSourceARB"}
    BY DEF IsList
  <2>2. x \in Vectors => x.f \in VectorNames
    BY VectorShape
  <2>3. x \in Arrays => x.f \in ArrayNames
    BY ArrayShape DEF ArrayShapeOf, ArrayNames
  <2>4. x \in Values => x.f \in ValueNames
    BY ValueShape DEF ValueShapeOf, ValueNames, ClearNames
  <2>5. x \in Asking => x.f \in AskingNames
    BY AskingShape DEF AskingShapeOf, AskingNames
  <2>6. x \in Settings => x.f \in SettingNames
    BY SettingShape DEF SettingShapeOf, SettingNames
  <2>7. x \in PixelTransfers => x.f \in PixelNames
    BY PixelShape DEF PixelShapeOf, PixelNames, SendNames, ReadNames
  <2> QED
    BY <1>1, <2>1, <2>2, <2>3, <2>4, <2>5, <2>6, <2>7 DEF AllCalls, VectorNames, ArrayNames, ValueNames, ClearNames,
       AskingNames, SettingNames, PixelNames, SendNames, ReadNames
<1>3. StringShapeOf(x)
  BY <1>2, StringShape
<1>4. CASE x.f = "Varyings"
  BY <1>1, <1>2, <1>3, <1>4 DEF StringShapeOf, OutOfStep, WrongPointers
<1>5. CASE x.f = "ShaderSource"
  BY <1>1, <1>2, <1>3, <1>5 DEF StringShapeOf, WrongPointers
<1>6. CASE x.f = "ShaderSourceARB"
  BY <1>1, <1>2, <1>3, <1>6 DEF StringShapeOf, OutOfStep
<1> QED BY <1>4, <1>5, <1>6 DEF IsList

\* Two chunks between a first and a last one.
LEMMA FourOf ==
  ASSUME NEW a, NEW F, NEW c, NEW d, NEW texts, texts = [k \in 1 .. 2 |-> IF k % 2 = 1 THEN F[k] ELSE c],
         NEW s, s = (<<a>> \o texts) \o <<d>>
  PROVE  Len(s) = 4 /\ DOMAIN s = 1 .. 4 /\ s[1] = a /\ s[2] = F[1] /\ s[3] = c /\ s[4] = d
<1>1. Len(texts) = 2 /\ texts[1] = F[1] /\ texts[2] = c
  <2>1. 1 % 2 = 1 /\ 2 % 2 = 0
    OBVIOUS
  <2> QED BY <2>1
<1>2. Len(<<a>> \o texts) = 3 /\ (<<a>> \o texts)[1] = a /\ (<<a>> \o texts)[2] = texts[1]
      /\ (<<a>> \o texts)[3] = texts[2]
  BY <1>1
<1>3. Len(s) = 4 /\ DOMAIN s = 1 .. 4 /\ s[4] = d
  BY <1>1
<1>4. s[1] = a /\ s[2] = texts[1] /\ s[3] = texts[2]
  BY <1>1
<1> QED BY <1>1, <1>3, <1>4

LEMMA ListsRight ==
  ASSUME NEW x \in Agreed, IsList(x), NEW g, NEW h, NEW at, Even(at), NEW st
  PROVE  ListRight(x, Chunks(x, g), at, processArgs(x, h).ptr[2][2], st)
<1> DEFINE s == Chunks(x, g)
           list == processArgs(x, h).ptr[2][2]
           name == ALIGNED(x.n + 1)
<1>0. /\ x \in Strings /\ x.n \in Nat \ {0} /\ x.t \in {"b", "i"} /\ x.c \in 1 .. 2
      /\ x.f = "Varyings" => x.c = 1 /\ x.n % 8 >= 2 /\ x.t = "b"
      /\ x.t = "i" => x.c = 1
      /\ x.f = "ShaderSourceARB" => x.c = 1
  BY ListShape
<1>a. ALIGNED(1) = 8 /\ ALIGNED(4) = 8 /\ ALIGNED(8) = 8 /\ ALIGNED(16) = 16
  BY DEF ALIGNED
<1>b. Even(at)
  OBVIOUS
<1>c. name \in Nat /\ x.n + 1 \in Nat /\ x.n + 1 <= name /\ ALIGNED(name) = name
  BY <1>0, AlignedNat, AlignedTwice
<1>d. /\ x.f \notin VectorFunctions \cup ArrayFunctions \cup ValueFunctions \cup ClearFunctions \cup PixelFunctions
  BY <1>0, StringCalls
<1>1. CASE x.f = "Varyings"
  <2> DEFINE cb == ALIGNED(x.n - 1)
  <2>1. cb = name /\ cb \in Nat
    <3>1. cb = name
      BY <1>0, <1>1, VaryingLength
    <3> QED BY <1>c, <3>1
  <2>2. s = [i \in 1 .. 1 |-> Chunk(String(i), cb)] \o <<Chunk(2, ALIGNED(4))>>
    <3>1. s = VaryingsChunks(x)
      BY <1>0, <1>1, StringCalls
    <3>2. x.c = 1 /\ x.c * 4 = 4
      BY <1>0, <1>1
    <3> QED BY <3>1, <3>2 DEF VaryingsChunks
  <2>3. list = name
    <3>1. processArgs(x, h) = HostVaryings(x)
      BY <1>0, <1>1, StringCalls
    <3>2. x.c * ALIGNED(x.n + 1) = name
      <4>1. x.c = 1
        BY <1>0, <1>1
      <4> HIDE DEF name
      <4>2. 1 * name = name
        BY <1>c
      <4> QED BY <4>1, <4>2 DEF name
    <3>3. processArgs(x, h).ptr = At({2}, Data(name))
      BY <3>1, <3>2, ArgsOf DEF HostVaryings
    <3> QED BY <3>3 DEF At, Data
  <2>4. StringAt(x, 1) = 0
    <3>1. StringAt(x, 1) = (1 - 1) * name
      BY <1>0, <1>1 DEF StringAt
    <3> HIDE DEF name
    <3> QED BY <1>c, <3>1
  <2>5. \A a : GLReads(x, a, st) = x.n + 1
    BY <1>1, <1>d DEF GLReads
  <2> HIDE DEF cb
  <2>6. Len(s) = 2 /\ DOMAIN s = 1 .. 2 /\ s[1] = Chunk(String(1), cb) /\ s[2] = Chunk(2, 8)
    BY <1>a, <2>2
  <2>7. x.c = 1 /\ 8 \in Nat /\ name + 8 <= ALIGNED(cb) + ALIGNED(8)
    BY <1>0, <1>1, <1>a, <1>c, <2>1
  <2> HIDE DEF s, list, name
  <2>8. ListRight(x, s, at, list, st)
    BY ONLY <1>b, <1>c, <2>1, <2>3, <2>4, <2>5, <2>6, <2>7, ListOfOne
  <2> QED BY <2>8 DEF s, list
<1>2. CASE x.f \in {"ShaderSource", "ShaderSourceARB"}
  <2>1. s = ShaderSourceChunks(x) /\ processArgs(x, h) = HostShaderSource(x)
    BY <1>0, <1>2, StringCalls
  <2>2. (IF x.f = "ShaderSource" THEN x.c * ALIGNED(1) ELSE ALIGNED(x.c * 4)) = 8 * x.c
    <3>1. CASE x.c = 1
      BY <1>a, <3>1
    <3>2. CASE x.c = 2
      BY <1>0, <1>2, <1>a, <3>2
    <3> QED BY <1>0, <3>1, <3>2
  <2>3. CASE x.t = "b"
    <3>1. s = [i \in 1 .. x.c |-> Chunk(String(i), name)] \o <<Chunk(2, 8 * x.c)>>
      BY <2>1, <2>2, <2>3 DEF ShaderSourceChunks
    <3>2. list = x.c * name
      <4>1. processArgs(x, h).ptr = Both(At({2}, Data(x.c * ALIGNED(x.n + 1))), At({3}, Null))
        BY <2>1, <2>3, ArgsOf DEF HostShaderSource
      <4>2. processArgs(x, h).ptr[2] = Data(x.c * ALIGNED(x.n + 1))
        BY <4>1 DEF Both, At
      <4> QED BY <4>2 DEF Data
    <3>3. StringAt(x, 1) = 0 /\ StringAt(x, 2) = name
      BY <1>2, <2>3 DEF StringAt
    <3>4. \A a : GLReads(x, a, st) = x.n + 1
      BY <1>2, <1>d, <2>3 DEF GLReads
    <3>5. CASE x.c = 1
      <4> HIDE DEF name
      <4>1. Len(s) = 2 /\ DOMAIN s = 1 .. 2 /\ s[1] = Chunk(String(1), name) /\ s[2] = Chunk(2, 8)
        BY <3>1, <3>5
      <4>2. x.c = 1 /\ 8 \in Nat /\ name + 8 <= ALIGNED(name) + ALIGNED(8) /\ list = name
        BY <1>a, <1>c, <3>2, <3>5
      <4> HIDE DEF s, list
      <4>3. ListRight(x, s, at, list, st)
        BY ONLY <1>b, <1>c, <3>3, <3>4, <4>1, <4>2, ListOfOne
      <4> QED BY <4>3 DEF s, list
    <3>6. CASE x.c = 2
      <4> HIDE DEF name
      <4>1. Len(s) = 3 /\ DOMAIN s = 1 .. 3 /\ s[1] = Chunk(String(1), name) /\ s[2] = Chunk(String(2), name)
            /\ s[3] = Chunk(2, 16)
        BY <3>1, <3>6
      <4>2. x.c = 2 /\ 16 \in Nat /\ list \in Nat /\ StringAt(x, 2) = ALIGNED(name)
            /\ ALIGNED(name) + (x.n + 1) <= list /\ list + 16 <= (2 * ALIGNED(name)) + ALIGNED(16)
        BY <1>0, <1>a, <1>c, <3>2, <3>3, <3>6
      <4> HIDE DEF s, list
      <4>3. ListRight(x, s, at, list, st)
        BY ONLY <1>b, <1>c, <3>3, <3>4, <4>1, <4>2, ListOfTwo
      <4> QED BY <4>3 DEF s, list
    <3> QED BY <1>0, <3>5, <3>6
  <2>4. CASE x.t = "i"
    <3> DEFINE cb == ALIGNED(x.n)
    <3>0. x.c = 1 /\ cb \in Nat /\ x.n <= cb /\ ALIGNED(cb) = cb /\ x.n \in Nat
      BY <1>0, <2>4, AlignedNat, AlignedTwice
    <3>1. s = (<<Chunk(3, 8)>> \o [k \in 1 .. 2 |-> IF k % 2 = 1 THEN Chunk(String((k + 1) \div 2), cb) ELSE Chunk(Own, 8)])
              \o <<Chunk(2, 8)>>
      <4>1. x.c * 4 = 4 /\ 2 * x.c = 2 /\ 8 * x.c = 8
        BY <3>0
      <4> QED BY <1>a, <2>1, <2>2, <2>4, <4>1 DEF ShaderSourceChunks
    <3>2. list = cb + 8
      <4>1. processArgs(x, h).ptr = Both(At({2}, Data(x.c * (ALIGNED(x.n) + ALIGNED(1)))), At({3}, Data(0)))
        BY <2>1, <2>4, ArgsOf DEF HostShaderSource
      <4>2. processArgs(x, h).ptr[2] = Data(x.c * (ALIGNED(x.n) + ALIGNED(1)))
        BY <4>1 DEF Both, At
      <4>3. x.c * (ALIGNED(x.n) + ALIGNED(1)) = cb + 8
        <5> HIDE DEF cb
        <5>1. 1 * (cb + 8) = cb + 8
          BY <3>0
        <5> QED BY <1>a, <3>0, <5>1 DEF cb
      <4> QED BY <4>2, <4>3 DEF Data
    <3>3. StringAt(x, 1) = 8
      BY <1>2, <1>a, <2>4, <3>0 DEF StringAt
    <3>4. \A a : GLReads(x, a, st) = x.n
      BY <1>2, <1>d, <2>4 DEF GLReads
    <3> HIDE DEF cb
    <3>5. Len(s) = 4 /\ DOMAIN s = 1 .. 4 /\ s[1] = Chunk(3, 8) /\ s[2] = Chunk(String(1), cb)
          /\ s[3] = Chunk(Own, 8) /\ s[4] = Chunk(2, 8)
      <4>1. (1 + 1) \div 2 = 1
        OBVIOUS
      <4> HIDE DEF s
      <4> QED BY <3>1, <4>1, FourOf
    <3>6. list \in Nat /\ 8 \in Nat /\ StringAt(x, 1) = ALIGNED(8) /\ ALIGNED(8) + x.n <= list
          /\ list + 8 <= ALIGNED(8) + ALIGNED(cb) + ALIGNED(8) + ALIGNED(8)
      BY <1>a, <3>0, <3>2, <3>3
    <3> HIDE DEF s, list
    <3>7. ListRight(x, s, at, list, st)
      BY ONLY <1>b, <3>0, <3>4, <3>5, <3>6, ListWithLengths
    <3> QED BY <3>7 DEF s, list
  <2> QED BY <1>0, <2>3, <2>4
<1> QED BY <1>1, <1>2 DEF IsList

\* And the list of strings that the host builds leads to every string, whole, inside
\* the data of its call.
THEOREM ListsWhole == ASSUME Calls \subseteq Agreed PROVE Spec => []StringsWhole
<1>1. StepInv /\ DataInv => StringsWhole
  <2> SUFFICES ASSUME DataInv, IsList(ran.x) PROVE StringsWhole
    BY DEF StringsWhole
  <2> DEFINE x == ran.x
             s == Chunks(x, ran.pix)
             list == processArgs(x, hpix).ptr[2][2]
             texts == {k \in DOMAIN s : s[k].a >= String(1)}
  <2>1. x \in Agreed /\ Even(ran.at)
    <3>1. ~ IsList(Flush)
      BY DEF IsList, Flush, Call
    <3> QED BY <3>1, MadeCalls DEF DataInv, RanInv
  <2>2. ListRight(x, s, ran.at, list, ran.store)
    BY <2>1, ListsRight
  <2>3. 4 * (DataEnd(ran) - ran.at) = OffsetOf(ran.at, s, Len(s) + 1)
    <3>1. DataEnd(ran) = PlacedAt(ran.at, s, Len(s))
      BY DEF DataEnd
    <3>2. (Len(s) + 1) - 1 = Len(s)
      <4>1. ran.pix \in PixelState /\ x \in AllCalls
        BY <2>1 DEF DataInv, RanInv, Records, Agreed
      <4>2. SizedCall(x, ran.pix)
        BY <4>1, CallsSized
      <4> QED BY <4>2 DEF SizedCall, Sized
    <3> QED BY <3>1, <3>2 DEF OffsetOf
  <2>4. \A k : OffsetOf(ran.at, s, k) = 4 * (PlacedAt(ran.at, s, k - 1) - ran.at)
    BY DEF OffsetOf
  <2>5. StringsWhole <=>
          (IsList(x) =>
            /\ list + (8 * x.c) <= 4 * (DataEnd(ran) - ran.at)
            /\ \A k \in texts :
                 /\ StringAt(x, s[k].a - 100) = 4 * (PlacedAt(ran.at, s, k - 1) - ran.at)
                 /\ GLReads(x, s[k].a, ran.store) <= s[k].cb
                 /\ \/ 4 * (PlacedAt(ran.at, s, k - 1) - ran.at) + GLReads(x, s[k].a, ran.store) <= list
                    \/ list + (8 * x.c) <= 4 * (PlacedAt(ran.at, s, k - 1) - ran.at))
    BY DEF StringsWhole
  <2>6. \A k \in texts : k \in DOMAIN s /\ s[k].a >= String(1)
    OBVIOUS
  <2> HIDE DEF s, list, texts, x
  <2> QED BY <2>2, <2>3, <2>4, <2>5, <2>6 DEF ListRight
<1> HIDE DEF StepInv, DataInv, StringsWhole
<1> QED BY <1>1, DataHolds, PTL
=============================================================================
