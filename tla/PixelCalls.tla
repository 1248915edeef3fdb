---------------------------- MODULE PixelCalls ----------------------------
(***************************************************************************)
(* Pixels and buffer contents, which mostly travel in the texture area     *)
(* (fbtm) and not in the FIFO: the guest copies them to the end of the     *)
(* area and writes the trap register, the host computes the same size and  *)
(* gives OpenGL the place.  The size depends on pixel store parameters and *)
(* on buffers bound for packing and unpacking, of which guest, host and    *)
(* OpenGL each keep their own record.                                      *)
(*                                                                         *)
(* In a call [f, c, t, n], c is the number of dimensions, t the pixel, n   *)
(* the width of an image of Rows rows, or a number of bytes.  n = 0 is a   *)
(* null pointer.                                                           *)
(***************************************************************************)
EXTENDS DataSizes

CONSTANTS
  FbtSize,      \* MGLFBT_SIZE, bytes in the texture area
  Widths,       \* of images
  Sizes,        \* of compressed images and of buffers, in bytes
  RowLengths    \* that the application sets: row lengths and image heights

ASSUME PixelAssumption ==
  /\ FbtSize \in Nat /\ RowLengths \subseteq Nat
  /\ Widths \subseteq Nat \ {0} /\ Sizes \subseteq Nat \ {0}

Rows == 2           \* rows of every image
XOffset == 1        \* where every glTexSubImage goes
Alignment == 4      \* OpenGL's row alignment, which neither side looks at
Pixels == {"ub", "us565", "rgb", "f"}

PixelSize(t) == IF t = "rgb" THEN szgldata(3, "ub") ELSE szgldata(1, t)

\* Row length and image height for unpacking, row length for packing, buffers
\* bound for the two.
PixelState == [unpackWidth : Nat, unpackHeight : Nat, packWidth : Nat, unpack : Nat, pack : Nat]
InitClientPixels ==
  [unpackWidth |-> 0, unpackHeight |-> 0, packWidth |-> 0, unpack |-> 0, pack |-> 0]
-----------------------------------------------------------------------------
(* ---- The calls. --------------------------------------------------------- *)

glPixelStorei == Family("PixelStorei", {0}, {"unpackWidth", "unpackHeight", "packWidth"}, RowLengths)
glPixelStoref == Family("PixelStoref", {0}, {"unpackWidth", "packWidth"}, RowLengths)
glBindPixelBuffer == Family("BindBuffer", {0}, {"unpack", "pack"}, 0 .. 1)
\* Of the buffer bound for pixels.
glDeletePixelBuffer == Family("DeleteBuffers", {1}, {"ui"}, {1})

glTexImage == Family("TexImage", 1 .. 3, Pixels, {0} \cup Widths)
glTexSubImage == Family("TexSubImage", 1 .. 3, Pixels, Widths)
glCompressedTexImage == Family("CompressedTexImage", 1 .. 3, {"ub"}, Sizes)
glCompressedTexSubImage == Family("CompressedTexSubImage", 1 .. 3, {"ub"}, Sizes)
glBitmap == Family("Bitmap", {2}, {"ub"}, {0} \cup Widths)
glDrawPixels == Family("DrawPixels", {2}, Pixels, Widths)
glPolygonStipple == Family("PolygonStipple", {2}, {"ub"}, {32})
glBufferData == Family("BufferData", {1}, {"ub"}, {0} \cup Sizes)
glBufferSubData == Family("BufferSubData", {1}, {"ub"}, Sizes)
glReadPixels == Family("ReadPixels", {2}, Pixels, Widths)
glGetTexImage == Family("GetTexImage", {2}, Pixels, Widths)
glGetCompressedTexImage == Family("GetCompressedTexImage", {2}, {"ub"}, Sizes)
glGetBufferSubData == Family("GetBufferSubData", {1}, {"ub"}, Sizes)

\* What these functions do reaches the records.
Settings == glPixelStorei \cup glPixelStoref \cup glBindPixelBuffer \cup glDeletePixelBuffer

\* Data in the FIFO.
FifoPixels == glDrawPixels \cup glPolygonStipple

\* Data in the texture area, sent and read back.
Sends == glTexImage \cup glTexSubImage \cup glCompressedTexImage \cup glCompressedTexSubImage
  \cup glBitmap \cup glBufferData \cup glBufferSubData
Reads == glReadPixels \cup glGetTexImage \cup glGetCompressedTexImage \cup glGetBufferSubData

PixelTransfers == FifoPixels \cup Sends \cup Reads

\* The argument that points to the pixels.
PixelArg(x) ==
  CASE x.f = "TexImage" -> 6 + x.c
    [] x.f = "TexSubImage" -> 4 + (2 * x.c)
    [] x.f = "CompressedTexImage" -> 5 + x.c
    [] x.f = "CompressedTexSubImage" -> 4 + (2 * x.c)
    [] x.f \in {"Bitmap", "ReadPixels"} -> 6
    [] x.f \in {"DrawPixels", "GetTexImage"} -> 4
    [] x.f \in {"BufferData", "GetCompressedTexImage"} -> 2
    [] x.f \in {"BufferSubData", "GetBufferSubData"} -> 3
    [] OTHER -> 0

\* Buffer contents have no pixel store and no unpack buffer.
Buffers == {"BufferData", "BufferSubData", "GetBufferSubData"}
Unpacks(x, r) == r.unpack # 0 /\ x.f \notin Buffers
Packs(x, r) == r.pack # 0 /\ x.f \notin Buffers
-----------------------------------------------------------------------------
(* ---- The records. ------------------------------------------------------- *)

\* Who keeps a record sees glPixelStorei, glBindBuffer and glDeleteBuffers.
Noted(x, r) ==
  CASE x.f = "PixelStorei" -> [r EXCEPT ![x.t] = x.n]
    [] x.f = "BindBuffer" -> [r EXCEPT ![x.t] = x.n]
    [] x.f = "DeleteBuffers" ->
         [r EXCEPT !.unpack = IF @ = x.n THEN 0 ELSE @, !.pack = IF @ = x.n THEN 0 ELSE @]
    [] OTHER -> r

GuestNoted(x, g) == Noted(x, g)
HostNoted(x, h) == Noted(x, h)

\* OpenGL's own state: it sees glPixelStoref too.
GLNoted(x, s) == Noted(IF x.f = "PixelStoref" THEN [x EXCEPT !.f = "PixelStorei"] ELSE x, s)
-----------------------------------------------------------------------------
(* ---- The guest. --------------------------------------------------------- *)

\* Bytes of an image, by a record of the pixel store.
ImageBytes(x, r) ==
  LET row == IF r.unpackWidth = 0 THEN x.n ELSE r.unpackWidth
      rows == CASE x.c = 1 -> 1
                [] x.c = 2 -> Rows
                [] OTHER -> IF r.unpackHeight = 0 THEN Rows ELSE r.unpackHeight
  IN  row * rows * PixelSize(x.t)

StippleBytes(r) == (IF r.unpackWidth = 0 THEN 32 ELSE r.unpackWidth) * 32

PixelChunks(x, g) ==
  IF Unpacks(x, g) THEN <<>>
  ELSE CASE x.f = "DrawPixels" -> <<Chunk(4, ALIGNED(ImageBytes(x, g)))>>
         [] x.f = "PolygonStipple" -> <<Chunk(0, ALIGNED(StippleBytes(g)))>>
         [] OTHER -> <<>>

\* What the guest leaves in the texture area: len bytes, `back' before its end.
\* FBTMMCPY copies nothing that is longer than the area.
FBTMMCPY(back, len) == [back |-> back, len |-> IF len <= FbtSize THEN len ELSE 0]

\* A sub-image's pointer is taken to lie XOffset pixels inside its rows.
PixelsCopied(x, g) ==
  IF x.n = 0 \/ Unpacks(x, g) THEN FBTMMCPY(0, 0)
  ELSE CASE x.f = "TexSubImage" ->
              LET size == ImageBytes(x, g)
                  skip == IF g.unpackWidth # 0 THEN XOffset * PixelSize(x.t) ELSE 0
              IN  FBTMMCPY(ALIGNED(size), size - skip)
         [] x.f \in {"TexImage", "Bitmap"} -> FBTMMCPY(ALIGNED(ImageBytes(x, g)), ImageBytes(x, g))
         [] OTHER -> FBTMMCPY(ALIGNED(x.n), x.n)

\* What it takes from the area after a read.
PixelsRead(x, g) ==
  IF Packs(x, g) THEN {}
  ELSE CASE x.f = "ReadPixels" ->
              {Copy(6, AreaFront(0), (IF g.packWidth = 0 THEN x.n ELSE g.packWidth) * Rows * PixelSize(x.t))}
         [] x.f = "GetTexImage" -> {Copy(4, AreaFront(ALIGNED(1)), x.n * Rows * PixelSize(x.t))}
         [] x.f = "GetCompressedTexImage" -> {Copy(2, AreaFront(ALIGNED(1)), x.n)}
         [] OTHER -> {Copy(3, Area(ALIGNED(x.n)), x.n)}
-----------------------------------------------------------------------------
(* ---- The host. ---------------------------------------------------------- *)

SZFBT_VALID(size) == IF size > FbtSize THEN FbtSize ELSE size

HostDrawPixels(x, h) ==
  LET size == IF x.f = "DrawPixels" THEN ImageBytes(x, h) ELSE StippleBytes(h)
  IN  IF Unpacks(x, h) THEN Args(0, At({0}, Given)) ELSE Args(ALIGNED(size), At({0}, Data(0)))

\* Entries 2 and 3 are set for both functions of one dimension.
HostTexImage(x, h) ==
  LET slots == IF x.c = 1 /\ x.f # "Bitmap" THEN {2, 3} ELSE {PixelArg(x) % 4}
  IN  Args(0, At(slots, IF Unpacks(x, h) THEN Given
                        ELSE IF x.n = 0 THEN Null
                        ELSE Area(ALIGNED(SZFBT_VALID(ImageBytes(x, h))))))

HostCompressedTexImage(x, h) ==
  Args(0, At({PixelArg(x) % 4},
             IF Unpacks(x, h) THEN Given ELSE Area(ALIGNED(SZFBT_VALID(x.n)))))

\* parg[1] and, for a part of a buffer, parg[2] hold the offset and the size.
HostBufferData(x) ==
  LET place == IF x.n = 0 THEN Null ELSE Area(ALIGNED(SZFBT_VALID(x.n)))
  IN  Args(0, IF x.f = "BufferData" THEN Both(At({1}, Given), At({2}, place))
              ELSE Both(At({1, 2}, Given), At({3}, place)))

\* The size of a texture goes to the front of the area, the texture behind it.
HostReadPixels(x, h) ==
  Args(0, At({PixelArg(x) % 4},
             IF Packs(x, h) THEN Given
             ELSE IF x.f = "ReadPixels" THEN AreaFront(0) ELSE AreaFront(ALIGNED(1))))

HostPixels(x, h) ==
  CASE x.f \in {"DrawPixels", "PolygonStipple"} -> HostDrawPixels(x, h)
    [] x.f \in {"TexImage", "TexSubImage", "Bitmap"} -> HostTexImage(x, h)
    [] x.f \in {"CompressedTexImage", "CompressedTexSubImage"} -> HostCompressedTexImage(x, h)
    [] x.f \in Buffers -> HostBufferData(x)
    [] OTHER -> HostReadPixels(x, h)
-----------------------------------------------------------------------------
(* ---- OpenGL. ------------------------------------------------------------ *)

\* From one row to the next.
Stride(width, rowLength, size) ==
  LET b == (IF rowLength = 0 THEN width ELSE rowLength) * size
  IN  ((b + Alignment - 1) \div Alignment) * Alignment

GLImage(x, rowLength) ==
  (IF x.c = 1 THEN 0 ELSE (Rows - 1) * Stride(x.n, rowLength, PixelSize(x.t)))
  + (x.n * PixelSize(x.t))

\* Bytes read behind the pointer, by OpenGL's own pixel store.
GLUnpacks(x, s) ==
  CASE x.f \in {"TexImage", "TexSubImage", "DrawPixels"} -> GLImage(x, s.unpackWidth)
    [] x.f = "Bitmap" -> ((Rows - 1) * Alignment) + 1
    [] x.f = "PolygonStipple" -> 32 * 4
    [] OTHER -> x.n

\* Bytes written.
GLPacks(x, s) ==
  IF x.f \in {"ReadPixels", "GetTexImage"} THEN GLImage(x, s.packWidth) ELSE x.n
=============================================================================
