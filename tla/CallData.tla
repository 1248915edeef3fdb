------------------------------ MODULE CallData ------------------------------
(***************************************************************************)
(* The data that travels with an OpenGL call, and the answer that travels  *)
(* back.  A call with a pointer argument is put together three times: the  *)
(* guest's wrapper copies what the pointer leads to into the data area     *)
(* (fifoAddData in wrapgl32.c), the host's processArgs says how much data  *)
(* the call has brought and where each pointer leads now (datacb and       *)
(* parg[], mesapt_mm.c), and doMesaFunc picks the entries of parg[] that   *)
(* go to OpenGL (mesagl_impl.c).  Nothing marks where one call's data ends *)
(* and the next one's begins, and parg[] is never cleared: the three must  *)
(* agree on every function, count, component type and name length.         *)
(*                                                                         *)
(* A call is [f, c, t, n]: the function without its number, type and       *)
(* vendor suffix, the number of components, the component type, and a      *)
(* count: of vectors, of names, of values of a parameter (szglname), or    *)
(* the length of a string.  In the families of vertex attributes n = 0 is  *)
(* the function that takes its components as arguments.                    *)
(***************************************************************************)
EXTENDS PixelCalls

CONSTANTS
  Counts,     \* of vectors, names and values
  Lengths,    \* of strings
  Calls,      \* the calls the application makes
  MaxWeight   \* bound: weight of the calls it makes in all

VARIABLES
  queue,      \* calls in the FIFO, each with the place of its data
  data0,      \* mdata[0], where the next data word goes
  trap,       \* <<>>, or what the guest waits for the host to do
  j,          \* the host's place in the data area (processFifo)
  parg,       \* parg[]: pointers for OpenGL, kept from call to call
  ran,        \* the call OpenGL ran last, with the pointers it was given
  made,       \* weight of the calls made so far
  area,       \* what the guest copied to the texture area last
  gpix,       \* the guest's record of the pixel store and the pixel buffers
  hpix,       \* the host's
  store       \* OpenGL's own

vars == <<queue, data0, trap, j, parg, ran, made, area, gpix, hpix, store>>
-----------------------------------------------------------------------------
DataStart == ALIGNED(1) \div 4
-----------------------------------------------------------------------------
(* ---- The functions of the wrapper that bring data or wait for an answer. *)

Signed == {"b", "d", "f", "i", "s"}
Unsigned == {"ub", "ui", "us"}
Coord == {"d", "f", "i", "s"}

glColor3 == Family("Color", {3}, Signed \cup Unsigned, 0 .. 1)
glColor4 == Family("Color", {4}, Signed \cup Unsigned, 0 .. 1)
glSecondaryColor == Family("SecondaryColor", {3}, Signed \cup Unsigned, 0 .. 1)
glNormal == Family("Normal", {3}, Signed, 0 .. 1)
glVertex == Family("Vertex", 2 .. 4, Coord, 0 .. 1)
glRasterPos == Family("RasterPos", 2 .. 4, Coord, 0 .. 1)
glTexCoord12 == Family("TexCoord", 1 .. 2, Coord, 0 .. 1)
glTexCoord34 == Family("TexCoord", 3 .. 4, Coord, 0 .. 1)
glMultiTexCoord12 == Family("MultiTexCoord", 1 .. 2, Coord, 0 .. 1)
glMultiTexCoord34 == Family("MultiTexCoord", 3 .. 4, Coord, 0 .. 1)
glEvalCoord == Family("EvalCoord", 1 .. 2, {"d", "f"}, 0 .. 1)
glFogCoord == Family("FogCoord", {1}, {"d", "f"}, 0 .. 1)
glIndex == Family("Index", {1}, Coord \cup {"ub"}, 0 .. 1)
glEdgeFlag == Family("EdgeFlag", {1}, {"ui"}, 0 .. 1)
glVertexAttrib12 == Family("VertexAttrib", 1 .. 2, {"d", "f", "s"}, 0 .. 1)
glVertexAttrib3 == Family("VertexAttrib", {3}, {"d", "f", "s"}, 0 .. 1)
glVertexAttrib4 == Family("VertexAttrib", {4}, Signed \cup Unsigned, 0 .. 1)
glVertexAttribs == Family("VertexAttribs", 1 .. 4, {"d", "f", "s"}, {1, 3})

glUniform12 == Family("Uniform", 1 .. 2, {"d", "f", "i", "ui"}, Counts)
glUniform34 == Family("Uniform", 3 .. 4, {"d", "f", "i", "ui"}, Counts)
glUniformMatrix == Family("UniformMatrix", {4, 6, 8, 9, 12, 16}, {"d", "f"}, Counts)
glLoadMatrix == Family("LoadMatrix", {16}, {"d", "f"}, {1})
glClipPlane == Family("ClipPlane", {4}, {"d"}, {1})
glIndexed == Family("Indexed", {4}, {"f", "i"}, {1})
glProgramParameter == Family("ProgramParameter", {4}, {"d", "f"}, {1})
glProgramParameters == Family("ProgramParameters", {4}, {"d", "f"}, Counts)
glRect == Family("Rect", {1}, Coord, {2})

glDelete == Family("Delete", {1}, {"ui"}, Counts)
glBind == Family("Bind", {1}, {"ui"}, Counts)
glAreResident == Family("AreResident", {1}, {"ui"}, Counts)
glRequestResidentPrograms == Family("RequestResident", {1}, {"ui"}, Counts)
glPrioritizeTextures == Family("PrioritizeTextures", {1}, {"ui"}, Counts)
glCallLists == Family("CallLists", {1}, {"ub", "us", "ui"}, Counts)
glWeight == Family("Weight", {1}, Signed \cup Unsigned, Counts)
glPixelMap == Family("PixelMap", {1}, {"f", "ui", "us"}, Counts)
glColorTable == Family("ColorTable", {1, 3, 4}, {"ub", "us565", "f"}, Counts)
glMap1 == Family("Map1", {3, 4}, {"d", "f"}, Counts)
glMap2 == Family("Map2", {3, 4}, {"d", "f"}, Counts)
glDrawIndirect == {Call("DrawIndirect", c, "ui", 1) : c \in 4 .. 5}

glParameter1 == Family("Parameter1", {1}, {"f", "i"}, {1, 3, 4})
glParameter2 == Family("Parameter2", {1}, {"f", "i", "d"}, {1, 3, 4})
glColorTableParameter == Family("ColorTableParameter", {1}, {"f", "i"}, {1, 4})
glClearBuffer == Family("ClearBuffer", {1, 4}, {"f", "i", "ui"}, {1})
glClearBufferData == Family("ClearBufferData", {1, 2, 4}, {"ub", "f"}, 0 .. 1)
glClearBufferSubData == Family("ClearBufferSubData", {1, 2, 4}, {"ub", "f"}, 0 .. 1)
glClearTexImage == Family("ClearTexImage", {1, 3, 4}, {"ub", "us565", "f"}, 0 .. 1)
glClearTexSubImage == Family("ClearTexSubImage", {1, 3, 4}, {"ub", "us565", "f"}, 0 .. 1)

glBindLocation == Family("BindLocation", {2}, {"b"}, Lengths)
glBindFragDataLocationIndexed == Family("BindIndexed", {3}, {"b"}, Lengths)
glGetLocation == Family("GetLocation", {1}, {"b"}, Lengths)
glProgramString == Family("ProgramString", {1}, {"b"}, Lengths)
glProgramNamedParameter == Family("ProgramNamedParameter", {0, 4}, {"d", "f"}, Lengths)
glDebugMessageInsert == Family("DebugMessageInsert", {1}, {"b"}, Lengths)
glTransformFeedbackVaryings == Family("Varyings", Counts, {"b"}, Lengths)
\* c strings of n bytes; type "i": with their lengths.
glShaderSource == Family("ShaderSource", Counts, {"b", "i"}, Lengths)
glShaderSourceARB == Family("ShaderSourceARB", Counts, {"b", "i"}, Lengths)

glGen == Family("Gen", {1}, {"ui"}, Counts)
\* c is the argument that takes the answer.
glGetv == Family("Getv", 1 .. 4, {"f", "i"}, {1, 3, 4, 16})
  \cup Family("Getv", 1 .. 2, {"d"}, {1, 4, 16}) \cup Family("Getv", {2}, {"i64"}, {1})
glGetBooleanv == Family("GetBooleanv", {1}, {"ub"}, {1, 4})
glGetClipPlane == Family("GetClipPlane", {4}, {"d"}, {1})
glGetInternalformat == Family("GetInternalformat", {1}, {"i"}, Counts)
\* A name of n bytes for a caller with room for c.
glGetActiveUniform == Family("GetActiveUniform", {4, 9, 32}, {"b"}, Lengths)
glGetActiveUniformName == Family("GetActiveUniformName", {4, 9, 32}, {"b"}, Lengths)
glGetAttachedShaders == Family("GetAttachedShaders", {1}, {"i"}, Counts)
glGetInfoLog == Family("GetInfoLog", {32}, {"b"}, Lengths)
glGetString == {Call("GetString", 1, "i", 1)}

Vectors == glColor3 \cup glColor4 \cup glSecondaryColor \cup glNormal \cup glVertex
  \cup glRasterPos \cup glTexCoord12 \cup glTexCoord34 \cup glMultiTexCoord12
  \cup glMultiTexCoord34 \cup glEvalCoord \cup glFogCoord \cup glIndex \cup glEdgeFlag
  \cup glVertexAttrib12 \cup glVertexAttrib3 \cup glVertexAttrib4

Arrays == glVertexAttribs \cup glUniform12 \cup glUniform34 \cup glUniformMatrix
  \cup glLoadMatrix \cup glClipPlane \cup glIndexed \cup glProgramParameter
  \cup glProgramParameters \cup glRect \cup glDelete \cup glBind
  \cup glRequestResidentPrograms \cup glPrioritizeTextures \cup glCallLists
  \cup glWeight \cup glPixelMap \cup glColorTable \cup glMap1 \cup glMap2 \cup glDrawIndirect

Values == glParameter1 \cup glParameter2 \cup glColorTableParameter \cup glClearBuffer
  \cup glClearBufferData \cup glClearBufferSubData \cup glClearTexImage \cup glClearTexSubImage

Strings == glBindLocation \cup glBindFragDataLocationIndexed \cup glProgramString
  \cup glProgramNamedParameter \cup glTransformFeedbackVaryings
  \cup glShaderSource \cup glShaderSourceARB

\* These write the trap register; the others queue when there is room.
Asking == glAreResident \cup glGetLocation \cup glDebugMessageInsert \cup glGen \cup glGetv
  \cup glGetBooleanv \cup glGetClipPlane \cup glGetInternalformat \cup glGetActiveUniform
  \cup glGetActiveUniformName \cup glGetAttachedShaders \cup glGetInfoLog \cup glGetString

AllCalls == Vectors \cup Arrays \cup Values \cup Strings \cup Asking \cup Settings \cup PixelTransfers

ASSUME CallsAssumption ==
  /\ Counts \subseteq Nat \ {0} /\ Lengths \subseteq Nat \ {0}
  /\ Calls \subseteq AllCalls /\ MaxWeight \in Nat

\* The functions of a kind.
FunctionsOf(calls) == {x.f : x \in calls}
VectorFunctions == FunctionsOf(Vectors)
ArrayFunctions == FunctionsOf(Arrays \cup glAreResident)
ValueFunctions == FunctionsOf(Values)
ClearFunctions == FunctionsOf(glClearBufferData \cup glClearBufferSubData \cup glClearTexImage \cup glClearTexSubImage)
AskingFunctions == FunctionsOf(Asking)
PixelFunctions == FunctionsOf(PixelTransfers)
SettingFunctions == FunctionsOf(Settings)
SendFunctions == FunctionsOf(Sends)
ReadFunctions == FunctionsOf(Reads)
AllFunctions == FunctionsOf(AllCalls)
-----------------------------------------------------------------------------
(* ---- The guest: what each function gives to fifoAddData. --------------- *)

VectorArg(f) == IF f \in {"MultiTexCoord", "VertexAttrib"} THEN 1 ELSE 0

VectorChunks(x) ==
  IF x.n = 0 THEN <<>> ELSE <<Chunk(VectorArg(x.f), ALIGNED(x.c * SizeOf(x.t)))>>

\* The array argument of a function.
ArrayArg(x) ==
  CASE x.f = "LoadMatrix" -> 0
    [] x.f \in {"ClipPlane", "Indexed", "Delete", "RequestResident", "AreResident", "Weight",
                "PrioritizeTextures"} -> 1
    [] x.f \in {"Uniform", "VertexAttribs", "ProgramParameter", "Bind", "CallLists", "PixelMap"} -> 2
    [] x.f \in {"UniformMatrix", "ProgramParameters"} -> 3
    [] x.f = "ColorTable" -> 5
    [] x.f = "Map1" -> IF x.t = "d" THEN 7 ELSE 5
    [] x.f = "Map2" -> IF x.t = "d" THEN 13 ELSE 9
    [] x.f = "DrawIndirect" -> IF x.c = 4 THEN 1 ELSE 2
    [] OTHER -> 0

\* The bytes of that array.
ArrayBytes(x) == x.n * szgldata(x.c, x.t)

\* Rounded up to eight bytes by the wrapper itself; fifoAddData rounds anyway.
RoundedArrays == {"Uniform", "UniformMatrix", "Weight", "PixelMap", "ColorTable", "Map1", "Map2"}

ArrayChunks(x) ==
  CASE x.f = "Rect" -> <<Chunk(0, ALIGNED(SizeOf(x.t))), Chunk(1, ALIGNED(SizeOf(x.t)))>>
    [] x.f = "PrioritizeTextures" -> <<Chunk(1, ALIGNED(x.n * 4)), Chunk(2, ALIGNED(x.n * 4))>>
    [] OTHER -> <<Chunk(ArrayArg(x), IF x.f \in RoundedArrays /\ x.t # "d"
                                       THEN ALIGNED(ArrayBytes(x)) ELSE ArrayBytes(x))>>

ParameterArg(f) == IF f = "Parameter1" THEN 1 ELSE 2

ClearArg(f) ==
  CASE f \in {"ClearBufferData", "ClearTexImage"} -> 4
    [] f = "ClearBufferSubData" -> 6
    [] f = "ClearTexSubImage" -> 10
    [] OTHER -> 2

ValueChunks(x) ==
  CASE x.f \in {"Parameter1", "Parameter2", "ColorTableParameter"} ->
         <<Chunk(ParameterArg(x.f), ALIGNED(x.n * SizeOf(x.t)))>>
    [] x.f = "ClearBuffer" -> <<Chunk(2, x.c * 4)>>
    [] x.f \in {"ClearBufferData", "ClearBufferSubData"} /\ x.n # 0 -> <<Chunk(ClearArg(x.f), ALIGNED(1))>>
    [] x.f \in {"ClearTexImage", "ClearTexSubImage"} /\ x.n # 0 ->
         <<Chunk(ClearArg(x.f), ALIGNED(szgldata(x.c, x.t)))>>
    [] OTHER -> <<>>

\* The name's length is that of argument 3, the bytes are those at argument 2.
IndexedNameChunks(x) == <<Chunk(2, ALIGNED(x.n + 1))>>

ProgramChunks(x) ==
  CASE x.f = "ProgramString" -> <<Chunk(3, ALIGNED(x.n)), Chunk(Own, ALIGNED(1))>>
    [] x.c = 0 -> <<Chunk(2, ALIGNED(x.n))>>
    [] OTHER -> <<Chunk(2, ALIGNED(x.n)), Chunk(3, 4 * SizeOf(x.t))>>

\* strlen(varys[i] + 1) is one less than the name's length.
VaryingsChunks(x) ==
  [i \in 1 .. x.c |-> Chunk(String(i), ALIGNED(x.n - 1))] \o <<Chunk(2, ALIGNED(x.c * 4))>>

\* With lengths, each string is followed by a terminator of its own.
ShaderSourceChunks(x) ==
  LET text == IF x.t = "i"
                THEN <<Chunk(3, ALIGNED(x.c * 4))>>
                     \o [k \in 1 .. 2 * x.c |-> IF k % 2 = 1 THEN Chunk(String((k + 1) \div 2), ALIGNED(x.n))
                                                 ELSE Chunk(Own, ALIGNED(1))]
                ELSE [i \in 1 .. x.c |-> Chunk(String(i), ALIGNED(x.n + 1))]
  IN  text \o <<Chunk(2, IF x.f = "ShaderSource" THEN x.c * ALIGNED(1) ELSE ALIGNED(x.c * 4))>>

NameChunks(x) == <<Chunk(IF x.f = "BindLocation" THEN 2 ELSE 1, ALIGNED(x.n + 1))>>

\* By the guest's record of the pixel store.
Chunks(x, g) ==
  CASE x.f \in VectorFunctions -> VectorChunks(x)
    [] x.f \in ArrayFunctions -> ArrayChunks(x)
    [] x.f \in ValueFunctions -> ValueChunks(x)
    [] x.f \in {"BindLocation", "GetLocation"} -> NameChunks(x)
    [] x.f = "BindIndexed" -> IndexedNameChunks(x)
    [] x.f \in {"ProgramString", "ProgramNamedParameter"} -> ProgramChunks(x)
    [] x.f = "Varyings" -> VaryingsChunks(x)
    [] x.f \in {"ShaderSource", "ShaderSourceARB"} -> ShaderSourceChunks(x)
    [] x.f \in PixelFunctions -> PixelChunks(x, g)
    [] x.f = "DeleteBuffers" -> <<Chunk(1, x.n * 4)>>
    [] x.f = "DebugMessageInsert" -> <<Chunk(Own, x.n)>>
    [] x.f = "GetString" -> <<Chunk(Own, 4)>>
    [] OTHER -> <<>>

\* The next call's data starts at once.
WrongFifoAddData(at, cb) == at + Words(cb)

\* mdata[0] after fifoAddData: the next even word.
fifoAddData(at, cb) ==
  LET end == at + Words(cb) IN IF end % 2 = 1 THEN end + 1 ELSE end

\* mdata[0] after the first k chunks of a call whose data starts at word `at'.
PlacedAt(at, chunks, k) ==
  LET place[i \in 0 .. Len(chunks)] ==
        IF i = 0 THEN at ELSE fifoAddData(place[i - 1], chunks[i].cb)
  IN  place[k]
-----------------------------------------------------------------------------
(* ---- The host: processArgs.  datacb, and the entries of parg[] it sets. - *)

\* Three words are taken for three components, not the padded four.
WrongHostVector(x) ==
  LET cb == IF x.c * SizeOf(x.t) <= 8 THEN ALIGNED(1)
            ELSE IF x.t = "d" THEN x.c * 8
            ELSE IF x.c = 3 THEN 3 * 4 ELSE 4 * 4
  IN  IF x.n = 0 THEN IF x.f = "Color" /\ x.t = "ub" THEN Args(0, At({0}, <<"colour", 0>>)) ELSE Nothing
      ELSE CASE x.f = "TexCoord" /\ x.c = 1 -> Nothing
             [] x.f = "Index" /\ x.t = "ub" -> Args(ALIGNED(1), At({0}, Data(0)))
             [] OTHER -> Args(cb, At({0, 1}, Data(0)))

\* One case for everything up to eight bytes, one for each larger size.  There
\* is none for TexCoord1.  The colours given as bytes become a vector in a
\* variable of the host.
HostVector(x) ==
  LET cb == IF x.c * SizeOf(x.t) <= 8 THEN ALIGNED(1)
            ELSE IF x.t = "d" THEN x.c * 8
            ELSE IF x.c = 3 THEN ALIGNED(3 * 4) ELSE 4 * 4
  IN  IF x.n = 0 THEN IF x.f = "Color" /\ x.t = "ub" THEN Args(0, At({0}, <<"colour", 0>>)) ELSE Nothing
      ELSE CASE x.f = "TexCoord" /\ x.c = 1 -> Nothing
             [] x.f = "Index" /\ x.t = "ub" -> Args(ALIGNED(1), At({0}, Data(0)))
             [] OTHER -> Args(cb, At({0, 1}, Data(0)))

\* Uniforms, and the matrices that share a case with a vector of four.
HostUniform(x) ==
  LET b == x.c * x.n * SizeOf(x.t)
      cb == IF x.t # "d" /\ x.c \in {1, 3, 9} THEN ALIGNED(b) ELSE b
  IN  Args(cb, At(IF x.c < 4 THEN {2} ELSE IF x.c = 4 THEN {2, 3} ELSE {3}, Data(0)))

HostArray(x) ==
  LET sz == SizeOf(x.t) IN
  CASE x.f = "LoadMatrix" -> Args(16 * sz, At({0}, Data(0)))
    [] x.f = "ClipPlane" -> Args(4 * 8, At({1}, Data(0)))
    [] x.f = "Indexed" -> Args(4 * 4, At({1}, Data(0)))
    [] x.f = "ProgramParameter" -> Args(4 * sz, At({2}, Data(0)))
    [] x.f = "ProgramParameters" -> Args(4 * x.n * sz, At({3}, Data(0)))
    [] x.f = "Delete" -> Args(ALIGNED(x.n * 4), At({1}, Data(0)))
    [] x.f = "Bind" -> Args(ALIGNED(x.n * 4), At({2}, Data(0)))
    [] x.f = "CallLists" -> Args(ALIGNED(x.n * sz), At({2}, Data(0)))
    [] x.f = "Weight" -> Args(IF x.t = "d" THEN x.n * 8 ELSE ALIGNED(x.n * sz), At({1}, Data(0)))
    [] x.f = "PixelMap" -> Args(ALIGNED(x.n * sz), At({2}, Data(0)))
    [] x.f = "ColorTable" -> Args(ALIGNED(x.n * szgldata(x.c, x.t)), At({1}, Data(0)))
    [] x.f = "DrawIndirect" -> Args(ALIGNED(x.c * 4), At({1}, Data(0)))
    [] x.f = "PrioritizeTextures" ->
         Args(2 * ALIGNED(x.n * 4), Both(At({1}, Data(0)), At({2}, Data(ALIGNED(x.n * 4)))))
    [] x.f = "AreResident" -> Args(ALIGNED(x.n * 4), Both(At({1}, Data(0)), At({2}, Out(0))))
    [] OTHER -> Nothing

HostRect(x) ==
  LET corner == IF x.t = "d" THEN 8 ELSE ALIGNED(SizeOf(x.t))
  IN  Args(2 * corner, Both(At({0}, Data(0)), At({1}, Data(corner))))

HostMap(x) ==
  LET b == x.c * x.n * SizeOf(x.t)
  IN  Args(IF x.t = "d" THEN b ELSE ALIGNED(b), At(IF x.f = "Map1" THEN {1, 3} ELSE {1}, Data(0)))

HostParameter(x) ==
  IF x.f = "ColorTableParameter" THEN Nothing
  ELSE Args(ALIGNED(x.n * SizeOf(x.t)), At({ParameterArg(x.f)}, Data(0)))

HostClearBuffer(x) == Args(x.c * 4, At({2}, Data(0)))

\* The buffers and textures a call may clear to zero, without data.
HostClearData(x) ==
  LET slot == IF x.f \in {"ClearBufferData", "ClearTexImage"} THEN 0 ELSE 2
      cb == IF x.f \in {"ClearTexImage", "ClearTexSubImage"} THEN ALIGNED(szgldata(x.c, x.t)) ELSE ALIGNED(1)
  IN  IF x.n = 0 THEN Args(0, At({slot}, Null)) ELSE Args(cb, At({slot}, Data(0)))

\* strlen of what the host finds: in step, of the name just sent.
HostName(x) ==
  Args(ALIGNED(x.n + 1),
       At({CASE x.f = "BindLocation" -> 2 [] x.f = "BindIndexed" -> 3 [] OTHER -> 1}, Data(0)))

HostProgram(x) ==
  CASE x.f = "ProgramString" -> Args(ALIGNED(1) + ALIGNED(x.n), At({3}, Data(0)))
    [] x.c = 0 -> Args(ALIGNED(x.n), At({2}, Data(0)))
    [] OTHER -> Args(ALIGNED(x.n) + 4 * SizeOf(x.t), Both(At({2}, Data(0)), At({3}, Data(ALIGNED(x.n)))))

HostVaryings(x) ==
  LET offs == x.c * ALIGNED(x.n + 1) IN Args(offs + ALIGNED(x.c * 4), At({2}, Data(offs)))

\* The list of strings goes behind offs bytes, which leaves out the lengths.
HostShaderSource(x) ==
  IF x.t = "i"
    THEN LET offs == x.c * (ALIGNED(x.n) + ALIGNED(1))
         IN  Args(offs + x.c * ALIGNED(1) + ALIGNED(x.c * 4), Both(At({2}, Data(offs)), At({3}, Data(0))))
    ELSE LET offs == x.c * ALIGNED(x.n + 1)
         IN  Args(offs + x.c * ALIGNED(1), Both(At({2}, Data(offs)), At({3}, Null)))

\* The second string is taken to follow the first without its terminator.
WrongStringAt(x, i) ==
  CASE x.f = "Varyings" -> (i - 1) * ALIGNED(x.n + 1)
    [] x.t = "i" -> IF i = 1 THEN ALIGNED(x.c * 4) ELSE ALIGNED(x.n)
    [] OTHER -> IF i = 1 THEN 0 ELSE ALIGNED(x.n)

\* Where the host's list of strings says string i is.
StringAt(x, i) ==
  CASE x.f = "Varyings" -> (i - 1) * ALIGNED(x.n + 1)
    [] x.t = "i" -> IF i = 1 THEN ALIGNED(x.c * 4) ELSE ALIGNED(x.n)
    [] OTHER -> IF i = 1 THEN 0 ELSE ALIGNED(x.n + 1)

HostAnswer(x) ==
  CASE x.f \in {"Gen", "GetClipPlane"} -> Args(0, At({1}, Out(0)))
    [] x.f = "GetInternalformat" -> Args(0, At({0}, Out(0)))
    [] x.f = "Getv" -> Args(0, At({x.c % 4}, Out(ALIGNED(4))))
    [] x.f = "GetBooleanv" -> Args(0, At({1}, Out(ALIGNED(4))))
    [] x.f = "GetActiveUniform" ->
         Args(0, Both(At({3}, Out(0)), Both(At({0}, Out(8)), Both(At({1}, Out(16)), At({2}, Out(24))))))
    [] x.f = "GetActiveUniformName" -> Args(0, Both(At({3}, Out(0)), At({0}, Out(8))))
    [] x.f \in {"GetAttachedShaders", "GetInfoLog"} -> Args(0, Both(At({2}, Out(0)), At({3}, Out(8))))
    [] x.f = "DebugMessageInsert" -> Args(ALIGNED(x.n), <<>>)
    [] x.f = "GetString" -> Args(ALIGNED(4), <<>>)
    [] OTHER -> Nothing

\* By the host's record of the pixel store.
processArgs(x, h) ==
  CASE x.f \in VectorFunctions -> HostVector(x)
    [] x.f \in {"Uniform", "UniformMatrix"} -> HostUniform(x)
    [] x.f = "Rect" -> HostRect(x)
    [] x.f \in {"Map1", "Map2"} -> HostMap(x)
    [] x.f \in ArrayFunctions \ {"Uniform", "UniformMatrix", "Rect", "Map1", "Map2"} -> HostArray(x)
    [] x.f \in {"Parameter1", "Parameter2", "ColorTableParameter"} -> HostParameter(x)
    [] x.f = "ClearBuffer" -> HostClearBuffer(x)
    [] x.f \in ClearFunctions -> HostClearData(x)
    [] x.f \in {"BindLocation", "BindIndexed", "GetLocation"} -> HostName(x)
    [] x.f \in {"ProgramString", "ProgramNamedParameter"} -> HostProgram(x)
    [] x.f = "Varyings" -> HostVaryings(x)
    [] x.f \in {"ShaderSource", "ShaderSourceARB"} -> HostShaderSource(x)
    [] x.f \in PixelFunctions -> HostPixels(x, h)
    [] x.f = "DeleteBuffers" -> Args(ALIGNED(x.n * 4), At({1}, Data(0)))
    [] OTHER -> HostAnswer(x)
-----------------------------------------------------------------------------
(* ---- The host: doMesaFunc.  The arguments it takes from parg[]. -------- *)

\* By prototype: fpp0 is a pointer as argument 0, fpa0p1 one after argument 0...
fpp0 == {"Color", "SecondaryColor", "Normal", "Vertex", "RasterPos", "TexCoord", "EvalCoord",
         "FogCoord", "Index", "EdgeFlag", "LoadMatrix"}
fpa0p1 == {"DeleteBuffers", "ClipPlane", "Indexed", "Delete", "RequestResident", "Weight", "MultiTexCoord",
           "VertexAttrib", "Parameter1", "GetLocation", "Gen", "GetClipPlane", "GetBooleanv"}
fpa1p2 == {"BindLocation", "Bind", "CallLists", "ClearBuffer", "Uniform", "VertexAttribs",
           "ProgramParameter", "PixelMap", "Parameter2"}
fpa2p3 == {"BindIndexed", "ProgramParameters", "ProgramString", "UniformMatrix"}
fpa0p2 == {"AreResident", "PrioritizeTextures"}
fpa1p3 == {"GetAttachedShaders", "GetInfoLog", "ShaderSource", "ShaderSourceARB"}
fpa3p4 == {"ClearBufferData", "ClearTexImage", "GetInternalformat"}

\* With a pointer in the place of argument a, doMesaFunc passes parg[a % 4].
doMesaFunc(x) ==
  IF x.f \in VectorFunctions /\ x.n = 0 THEN IF x.f = "Color" /\ x.t = "ub" THEN {0} ELSE {}
  ELSE IF x.f = "TexCoord" /\ x.c = 1 THEN {}
  ELSE CASE x.f \in fpp0 -> {0}
         [] x.f \in PixelFunctions -> {PixelArg(x)}
         [] x.f = "Rect" -> {0, 1}
         [] x.f \in fpa0p1 -> {1}
         [] x.f \in fpa1p2 -> {2}
         [] x.f \in fpa2p3 -> {3}
         [] x.f \in fpa0p2 -> {1, 2}
         [] x.f \in fpa1p3 -> {2, 3}
         [] x.f = "ProgramNamedParameter" -> IF x.c = 0 THEN {2} ELSE {2, 3}
         [] x.f = "Varyings" -> {2}
         [] x.f \in fpa3p4 -> {4}
         [] x.f = "ColorTable" -> {5}
         [] x.f = "ClearBufferSubData" -> {6}
         [] x.f = "ClearTexSubImage" -> {10}
         [] x.f \in {"Map1", "Map2", "DrawIndirect"} -> {ArrayArg(x)}
         [] x.f = "Getv" -> {x.c}
         [] x.f = "GetActiveUniform" -> {3, 4, 5, 6}
         [] x.f = "GetActiveUniformName" -> {3, 4}
         [] OTHER -> {}
-----------------------------------------------------------------------------
(* ---- The guest again: what it copies from the answer (fifoOutData). ---- *)

\* The name's terminator is copied whatever room the caller has.
WrongFifoOutData(x, g) ==
  CASE x.f = "GetActiveUniform" ->
         {Copy(3, Out(0), 4), Copy(4, Out(8), 4), Copy(5, Out(16), 4), Copy(6, Out(24), x.n + 1)}
    [] x.f = "GetActiveUniformName" -> {Copy(3, Out(0), 4), Copy(4, Out(8), x.n + 1)}
    [] OTHER -> {}

fifoOutData(x, g) ==
  CASE x.f = "Gen" -> {Copy(1, Out(0), x.n * 4)}
    [] x.f = "GetInternalformat" -> {Copy(4, Out(0), x.n * 4)}
    [] x.f = "AreResident" -> {Copy(2, Out(0), x.n * 4)}
    [] x.f = "GetClipPlane" -> {Copy(1, Out(0), 32)}
    [] x.f = "Getv" -> {Copy(x.c, Out(ALIGNED(4)), x.n * SizeOf(x.t))}
    [] x.f = "GetBooleanv" -> {Copy(1, Out(ALIGNED(4)), x.n)}
    [] x.f = "GetActiveUniform" ->
         {Copy(3, Out(0), 4), Copy(4, Out(8), 4), Copy(5, Out(16), 4),
          Copy(6, Out(24), Least(x.n + 1, x.c))}
    [] x.f = "GetActiveUniformName" -> {Copy(3, Out(0), 4), Copy(4, Out(8), Least(x.n + 1, x.c))}
    [] x.f = "GetAttachedShaders" -> {Copy(2, Out(0), 4), Copy(3, Out(8), x.n * 4)}
    [] x.f = "GetInfoLog" -> {Copy(3, Out(0), Least(x.n, x.c))}
    [] x.f \in ReadFunctions -> PixelsRead(x, g)
    [] OTHER -> {}
-----------------------------------------------------------------------------
(* ---- Where the sides differ. -------------------------------------------- *)

(* Calls whose data or answer the two sides, or the host's two tables, do not  *)
(* agree about.  Each violates a property below when the application makes it. *)

\* Bytes are left behind or taken from the next call: no case in processArgs; a
\* word less than was sent; names of 8k or 8k + 1 letters; a list of pointers
\* that the host takes to be longer than it is.
OutOfStep ==
  {x \in glTexCoord12 : x.c = 1 /\ x.n = 1} \cup glVertexAttribs \cup glRequestResidentPrograms
  \cup glColorTableParameter \cup {x \in glClearBuffer : x.c = 1}
  \cup {x \in glTransformFeedbackVaryings : x.n % 8 < 2}
  \cup {x \in glShaderSourceARB : x.c > 1}

\* In step, but the pointer doMesaFunc takes is not set, less was sent than OpenGL
\* reads, or the host's list does not lead to the strings.
WrongPointers ==
  {x \in glDrawIndirect : x.c = 5} \cup {x \in glRect : x.t = "d"}
  \cup glBindFragDataLocationIndexed
  \cup {x \in glClearBufferData \cup glClearBufferSubData : x.n = 1 /\ szgldata(x.c, x.t) > 8}
  \cup {x \in glTransformFeedbackVaryings : x.c > 1}
  \cup {x \in glShaderSource : x.c > 2 \/ (x.c > 1 /\ x.t = "i")}

\* Copied from the wrong place, or past the caller's memory.
WrongAnswers ==
  glAreResident \cup glGetInfoLog
  \cup {x \in glGetActiveUniform \cup glGetActiveUniformName : 4 * Words(Least(x.n + 1, x.c)) > x.c}

\* Some row length or image height that the application sets is too short for x,
\* a sub-image with the pixels it skips.
Cuts(x) ==
  \E r \in RowLengths \ {0} :
    \/ r < x.n + (IF x.f = "TexSubImage" THEN XOffset ELSE 0)
    \/ x.c = 3 /\ r < Rows
    \/ (r * PixelSize(x.t)) % Alignment # 0

\* With some row length and height, the image is longer than the texture area.
Overflows(x) ==
  \E w, h \in {0} \cup RowLengths :
    ImageBytes(x, [InitClientPixels EXCEPT !.unpackWidth = w, !.unpackHeight = h]) > FbtSize

\* Rows that OpenGL pads, which neither side counts; a row length for reading,
\* where OpenGL leaves the rest of each row alone and the guest copies it; a
\* parameter set as a float, which neither side notes; images wider than the row
\* length, and whatever is longer than the texture area.
WrongPixels ==
  {x \in glTexImage \cup glTexSubImage \cup glReadPixels \cup glGetTexImage :
     x.c > 1 /\ (x.n * PixelSize(x.t)) % Alignment # 0}
  \cup {x \in glBitmap : \E r \in {x.n} \cup RowLengths : r # 0 /\ r * Rows < Alignment + 1}
  \cup {x \in glPixelStorei : x.t = "packWidth" /\ x.n # 0}
  \cup {x \in glPixelStoref : x.n # 0}
  \cup {x \in glTexImage \cup glTexSubImage : Cuts(x)} \cup {x \in glDrawPixels : Cuts(x)}
  \cup {x \in glTexImage \cup glTexSubImage \cup glBitmap : Overflows(x)}
  \cup {x \in glPolygonStipple : \E r \in RowLengths \ {0} : r < 4}
  \cup {x \in Sends \cup glGetBufferSubData : x.n > FbtSize}

Agreed == AllCalls \ (OutOfStep \cup WrongPointers \cup WrongAnswers \cup WrongPixels)
-----------------------------------------------------------------------------
(* ---- Behaviour. --------------------------------------------------------- *)

\* The flush register, which brings no call of its own.
Flush == Call("Flush", 0, "b", 0)

\* A call, the word where its data starts, and the record the guest used.
Entry(x) == [x |-> x, at |-> data0, pix |-> gpix]
DataEnd(e) == LET chunks == Chunks(e.x, e.pix) IN PlacedAt(e.at, chunks, Len(chunks))

NoCall == [x |-> Flush, at |-> DataStart, pix |-> InitClientPixels, store |-> InitClientPixels,
           area |-> FBTMMCPY(0, 0), ptr |-> <<>>, end |-> DataStart]

Init ==
  /\ queue = <<>> /\ data0 = DataStart /\ trap = <<>> /\ j = DataStart
  /\ parg = [k \in 0 .. 3 |-> Null]
  /\ ran = NoCall
  /\ made = 0
  /\ area = FBTMMCPY(0, 0)
  /\ gpix = InitClientPixels /\ hpix = InitClientPixels /\ store = InitClientPixels

\* For the bound: two calls that only change records count as one.
Weight(x) == IF x.f \in SettingFunctions THEN 1 ELSE 2

\* The wrapper's function before and after its FIFO entry or trap.
Makes(x) ==
  /\ data0' = DataEnd(Entry(x))
  /\ area' = IF x.f \in SendFunctions THEN PixelsCopied(x, gpix) ELSE area
  /\ gpix' = GuestNoted(x, gpix)
  /\ made' = made + Weight(x)

\* Functions that may queue send pixels in the FIFO only.
WrongMayQueue(x) == x.f \notin AskingFunctions /\ x.f \notin ReadFunctions

\* glBufferData without data may queue, too.
MayQueue(x) ==
  /\ x.f \notin AskingFunctions
  /\ x.f \notin ReadFunctions
  /\ x.f \in SendFunctions => x.f = "BufferData" /\ x.n = 0

\* FIFO_GLFUNC finds room in the FIFO.
QueueCall(x) ==
  /\ MayQueue(x)
  /\ queue' = Append(queue, Entry(x))
  /\ Makes(x)
  /\ UNCHANGED <<trap, j, parg, ran, hpix, store>>

\* No room, or a call that may not queue: the trap register.
TrapCall(x) ==
  /\ trap' = <<Entry(x)>>
  /\ Makes(x)
  /\ UNCHANGED <<queue, j, parg, ran, hpix, store>>

\* FIFO_FLUSH.
TrapFlush ==
  /\ trap = <<>> /\ queue # <<>>
  /\ trap' = <<Entry(Flush)>>
  /\ UNCHANGED <<queue, data0, j, parg, ran, made, area, gpix, hpix, store>>

\* processArgs, doMesaFunc with the pointers it takes, then processFRet.
Run(e) ==
  LET args == processArgs(e.x, hpix)
      Absolute(p) == IF p[1] = "data" THEN <<"data", (4 * j) + p[2]>> ELSE p
      given == [k \in 0 .. 3 |-> IF k \in DOMAIN args.ptr THEN Absolute(args.ptr[k]) ELSE parg[k]]
  IN  /\ parg' = given
      /\ ran' = [x |-> e.x, at |-> e.at, pix |-> e.pix, store |-> store, area |-> area,
                 end |-> j + Words(args.cb),
                 ptr |-> [a \in doMesaFunc(e.x) |-> given[a % 4]]]
      /\ store' = GLNoted(e.x, store)
      /\ hpix' = HostNoted(e.x, hpix)

processFifo ==
  /\ trap # <<>> /\ queue # <<>>
  /\ Run(Head(queue))
  /\ j' = j + Words(processArgs(Head(queue).x, hpix).cb)
  /\ queue' = Tail(queue)
  /\ UNCHANGED <<data0, trap, made, area, gpix>>

\* The rest of the trap; both sides start over at the front of the data area.
EndTrap ==
  /\ trap # <<>> /\ queue = <<>>
  /\ IF trap[1].x = Flush THEN UNCHANGED <<parg, ran, hpix, store>> ELSE Run(trap[1])
  /\ data0' = DataStart /\ j' = DataStart
  /\ trap' = <<>>
  /\ UNCHANGED <<queue, made, area, gpix>>

Next ==
  \/ /\ trap = <<>> /\ made < MaxWeight
     /\ \E x \in Calls : made + Weight(x) <= MaxWeight /\ (QueueCall(x) \/ TrapCall(x))
  \/ TrapFlush
  \/ processFifo
  \/ EndTrap

Spec == Init /\ [][Next]_vars
-----------------------------------------------------------------------------
(* ---- Properties. -------------------------------------------------------- *)

IsEntry(e) == (e.x = Flush \/ e.x.f \in AllFunctions) /\ e.at \in Nat

\* Every call's data starts on an even word, so that the host's doubles and
\* pointers in it are aligned.
TypeOK ==
  /\ \A k \in DOMAIN queue : IsEntry(queue[k]) /\ queue[k].at % 2 = 0
  /\ data0 \in Nat /\ data0 % 2 = 0
  /\ Len(trap) <= 1 /\ \A k \in DOMAIN trap : IsEntry(trap[k])
  /\ j \in Nat
  /\ \A k \in 0 .. 3 : parg[k][1] \in {"data", "out", "area", "front", "arg", "colour", "null"} /\ parg[k][2] \in Nat
  /\ made \in 0 .. MaxWeight
  /\ area.back \in Nat /\ area.len \in 0 .. FbtSize
  /\ {gpix, hpix, store} \subseteq PixelState

\* Guest and host stay in step: before each call the host stands where the guest
\* put that call's data (at the end of all data for the flush), and after it
\* where that data ends ("FIFO data leak" otherwise).
InStep ==
  /\ trap # <<>> => j = IF queue # <<>> THEN Head(queue).at ELSE trap[1].at
  /\ ran.end = DataEnd(ran)

\* A list of strings, which the host rewrites.
IsList(x) == x.f \in {"Varyings", "ShaderSource", "ShaderSourceARB"}

\* What OpenGL reads behind pointer argument a, by its own pixel store s.
GLReads(x, a, s) ==
  CASE x.f \in VectorFunctions -> x.c * SizeOf(x.t)
    [] x.f = "Rect" -> 2 * SizeOf(x.t)
    [] x.f \in ArrayFunctions \ {"Rect"} -> ArrayBytes(x)
    [] x.f \in {"Parameter1", "Parameter2", "ColorTableParameter"} -> x.n * SizeOf(x.t)
    [] x.f \in ClearFunctions \cup {"ClearBuffer"} -> szgldata(x.c, x.t)
    [] x.f \in {"BindLocation", "BindIndexed", "GetLocation"} -> x.n + 1
    [] x.f = "ProgramNamedParameter" /\ a = 3 -> 4 * SizeOf(x.t)
    [] x.f = "ShaderSource" /\ x.t = "b" -> x.n + 1
    [] x.f = "ShaderSourceARB" /\ x.t = "b" -> x.n + 1
    [] x.f = "Varyings" -> x.n + 1
    [] x.f = "DeleteBuffers" -> x.n * 4
    [] x.f \in PixelFunctions -> GLUnpacks(x, s)
    [] OTHER -> x.n

\* The pointer is an offset into a buffer object.
IsOffset(x, s) ==
  \/ x.f \in SendFunctions /\ Unpacks(x, s)
  \/ x.f \in ReadFunctions /\ Packs(x, s)

\* What OpenGL is given for each pointer argument is the data this very call
\* brought for that argument, all of it, and never a pointer left in parg[] by
\* an earlier call; an offset into a buffer object is passed on as it is.
OwnPointers ==
  LET x == ran.x
      chunks == Chunks(x, ran.pix)
      sent == {k \in DOMAIN chunks : chunks[k].a < Own}
  IN  ~ IsList(x) =>
        /\ \A k \in sent :
             /\ chunks[k].a \in DOMAIN ran.ptr
             /\ ran.ptr[chunks[k].a] = <<"data", 4 * PlacedAt(ran.at, chunks, k - 1)>>
             /\ GLReads(x, chunks[k].a, ran.store) <= chunks[k].cb
        /\ \A a \in DOMAIN ran.ptr :
             ran.ptr[a][1] = "data" => \E k \in sent : chunks[k].a = a
        /\ x.f \in SendFunctions \cup ReadFunctions =>
             ran.ptr[PixelArg(x)] \in
               IF IsOffset(x, ran.store) THEN {Given}
               ELSE IF x.n = 0 THEN {Null}
               ELSE IF x.f \in SendFunctions
                 THEN {p \in {Area(ran.area.back)} : GLUnpacks(x, ran.store) <= ran.area.len}
               ELSE {Area(ALIGNED(x.n)), AreaFront(0), AreaFront(ALIGNED(1))}

\* The list of strings the host builds in the data area leads to the strings
\* sent, and lies inside this call's data but on none of their bytes.
StringsWhole ==
  LET x == ran.x
      chunks == Chunks(x, ran.pix)
      Off(k) == 4 * (PlacedAt(ran.at, chunks, k - 1) - ran.at)
      list == processArgs(x, hpix).ptr[2][2]
      texts == {k \in DOMAIN chunks : chunks[k].a >= String(1)}
  IN  IsList(x) =>
        /\ list + (8 * x.c) <= 4 * (DataEnd(ran) - ran.at)
        /\ \A k \in texts :
             /\ StringAt(x, chunks[k].a - 100) = Off(k)
             /\ GLReads(x, chunks[k].a, ran.store) <= chunks[k].cb
             /\ Off(k) + GLReads(x, chunks[k].a, ran.store) <= list \/ list + (8 * x.c) <= Off(k)

\* What OpenGL writes for pointer argument a.
GLWrites(x, a, s) ==
  CASE x.f = "AreResident" -> x.n
    [] x.f = "GetClipPlane" -> 32
    [] x.f \in {"Getv", "GetBooleanv"} -> x.n * SizeOf(x.t)
    [] x.f = "GetActiveUniform" -> IF a = 6 THEN Least(x.n + 1, x.c) ELSE 4
    [] x.f = "GetActiveUniformName" -> IF a = 4 THEN Least(x.n + 1, x.c) ELSE 4
    [] x.f = "GetAttachedShaders" /\ a = 2 -> 4
    [] x.f = "GetInfoLog" -> Least(x.n + 1, x.c)
    [] x.f \in ReadFunctions -> GLPacks(x, s)
    [] OTHER -> x.n * 4

\* The caller's memory for it; glGetBooleanv copies by way of 32 bytes of its own.
Room(x, a, s) ==
  CASE x.f = "GetBooleanv" -> 32
    [] x.f = "GetActiveUniform" /\ a = 6 -> x.c
    [] x.f = "GetActiveUniformName" /\ a = 4 -> x.c
    [] OTHER -> GLWrites(x, a, s)

\* Each answer is copied from where OpenGL was told to write it, all of it and
\* no more, and, in whole words as fifoOutData copies, not past the caller's memory.
AnswerRight ==
  \A cp \in fifoOutData(ran.x, ran.pix) :
    /\ cp.a \in DOMAIN ran.ptr
    /\ ran.ptr[cp.a] = cp.from
    /\ cp.cb = GLWrites(ran.x, cp.a, ran.store)
    /\ cp.from[1] = "out" => 4 * Words(cp.cb) <= Room(ran.x, cp.a, ran.store)
=============================================================================
