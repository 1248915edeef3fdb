----------------------------- MODULE DataSizes -----------------------------
(***************************************************************************)
(* What the guest's wrapper and the host compute alike about the data of a *)
(* call, and the words in which CallData and PixelCalls describe a call,   *)
(* the data it brings and the pointers the host makes of it.               *)
(***************************************************************************)
EXTENDS Naturals, Sequences

ALIGNED(x) == IF x % 8 # 0 THEN ((x \div 8) + 1) * 8 ELSE x

\* Data words of cb bytes, in fifoAddData and in processFifo.
Words(cb) == IF cb % 4 # 0 THEN (cb \div 4) + 1 ELSE cb \div 4

Least(m, n) == IF m < n THEN m ELSE n

\* sizeof a component, and sztype of its OpenGL name.
SizeOf(t) ==
  CASE t \in {"b", "ub"} -> 1
    [] t \in {"s", "us", "us565"} -> 2
    [] t \in {"d", "i64"} -> 8
    [] OTHER -> 4

\* A pixel of c components; a packed type holds all of them.
szgldata(c, t) == IF t = "us565" THEN SizeOf(t) ELSE c * SizeOf(t)
-----------------------------------------------------------------------------
Call(f, c, t, n) == [f |-> f, c |-> c, t |-> t, n |-> n]
Family(f, C, T, N) == {Call(f, c, t, n) : c \in C, t \in T, n \in N}

\* Data of a call: cb bytes, copied from where argument a points.
Chunk(a, cb) == [a |-> a, cb |-> cb]

\* Bytes that no argument points at: the wrapper's own, and string i of a list.
Own == 99
String(i) == 100 + i

\* Pointers: into the call's data, into the answer pages, into the texture area
\* (so many bytes before its end, or after its beginning), the application's own
\* value, or none.
Data(off) == <<"data", off>>
Out(off) == <<"out", off>>
Area(back) == <<"area", back>>
AreaFront(off) == <<"front", off>>
Given == <<"arg", 0>>
Null == <<"null", 0>>

\* processArgs' effect: the data the call brings, and pointers for some of 0 .. 3.
Args(cb, ptr) == [cb |-> cb, ptr |-> ptr]
Nothing == Args(0, <<>>)
At(slots, p) == [k \in slots |-> p]
Both(f, g) == [k \in DOMAIN f \cup DOMAIN g |-> IF k \in DOMAIN f THEN f[k] ELSE g[k]]

\* An answer: the guest copies cb bytes from where the host's pointer leads.
Copy(a, from, cb) == [a |-> a, from |-> from, cb |-> cb]
=============================================================================
