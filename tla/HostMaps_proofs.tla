--------------------------- MODULE HostMaps_proofs ---------------------------
(***************************************************************************)
(* Proofs about HostMaps, for any number of buffers and mappings and any   *)
(* sizes and places, as far as the code is right about them.               *)
(***************************************************************************)
EXTENDS HostMaps, SequenceTheorems, WellFoundedInduction, TLAPS

-----------------------------------------------------------------------------
(* Arithmetic. *)

LEMMA PageTypes ==
  ASSUME NEW a \in Int
  PROVE  /\ PageFloor(a) \in Int /\ PageOffset(a) \in Nat
         /\ PageFloor(a) <= a /\ a < PageFloor(a) + PageSize
         /\ a \in Nat => PageFloor(a) \in Nat
<1>1. a % PageSize \in 0 .. (PageSize - 1)
  BY SizeAssumption
<1>2. a = PageSize * (a \div PageSize) + (a % PageSize) /\ a \div PageSize \in Int
  BY SizeAssumption
<1>3. a \in Nat => PageSize * (a \div PageSize) >= 0
  BY SizeAssumption
<1> QED BY <1>1, <1>2, <1>3, SizeAssumption DEF PageFloor, PageOffset

\* ALIGNBO rounds up.
LEMMA AlignedUp ==
  ASSUME NEW n \in Nat
  PROVE  ALIGNBO(n) \in Nat /\ n <= ALIGNBO(n)
<1>1. BoAlign \in Nat \ {0}
  BY SizeAssumption
<1>2. n \div BoAlign \in Nat /\ n % BoAlign \in 0 .. (BoAlign - 1)
      /\ n = BoAlign * (n \div BoAlign) + (n % BoAlign)
  BY <1>1, SMT
<1>3. \A q \in Nat : (q + 1) * BoAlign = BoAlign * q + BoAlign /\ (q + 1) * BoAlign \in Nat
  BY <1>1, SMT
<1> QED
  BY <1>1, <1>2, <1>3 DEF ALIGNBO

\* The values of a list of integers, and one integer more, have a least and a
\* greatest among them.
LEMMA Bounded ==
  ASSUME NEW n \in Nat, NEW f \in [1 .. n -> Int], NEW c \in Int
  PROVE  /\ \E m \in Int : (m = c \/ \E k \in 1 .. n : m = f[k]) /\ m <= c /\ \A k \in 1 .. n : m <= f[k]
         /\ \E m \in Int : (m = c \/ \E k \in 1 .. n : m = f[k]) /\ m >= c /\ \A k \in 1 .. n : m >= f[k]
<1> DEFINE S(i) == {f[k] : k \in 1 .. i} \cup {c}
           Good(i) == (\E m \in S(i) : \A y \in S(i) : m <= y) /\ (\E m \in S(i) : \A y \in S(i) : m >= y)
           Bad == {i \in 0 .. n : ~Good(i)}
<1>0. Bad \subseteq Nat /\ (n \in Bad <=> ~Good(n))
  <2> HIDE DEF Good
  <2> QED BY SMT
<1>1. SUFFICES ASSUME Bad # {} PROVE FALSE
  <2>1. Good(n)
    BY <1>0, <1>1
  <2>2. PICK lo \in S(n) : \A y \in S(n) : lo <= y
    BY <2>1
  <2>3. PICK hi \in S(n) : \A y \in S(n) : hi >= y
    BY <2>1
  <2>4. S(n) \subseteq Int /\ c \in S(n) /\ (\A k \in 1 .. n : f[k] \in S(n))
        /\ \A y \in S(n) : y = c \/ \E k \in 1 .. n : y = f[k]
    OBVIOUS
  <2> HIDE DEF S
  <2> QED BY <2>2, <2>3, <2>4
<1> DEFINE B == Bad
<1>6. B \subseteq Nat /\ B # {}
  BY <1>0, <1>1
<1>2. PICK i \in B : \A j \in B : ~(<<j, i>> \in OpToRel(<, Nat))
  <2> HIDE DEF B
  <2> QED BY <1>6, NatLessThanWellFounded, WFMin
<1>3. i \in 0 .. n /\ ~Good(i)
  <2> HIDE DEF Good
  <2> QED BY <1>2, Zenon
<1>4. CASE i = 0
  <2>1. S(0) = {c}
    OBVIOUS
  <2> QED BY <1>4, <2>1
<1>5. CASE i # 0
  <2>0. i \in 0 .. n
    BY <1>3, Zenon
  <2>1. i - 1 \in Nat /\ i - 1 \in 0 .. n /\ i - 1 < i /\ i \in Nat
    <3> HIDE DEF Good
    <3> QED BY <2>0, <1>5
  <2>2. <<i - 1, i>> \in OpToRel(<, Nat)
    BY <2>1, Zenon DEF OpToRel
  <2>3. Good(i - 1)
    <3> HIDE DEF Good
    <3> QED BY <1>2, <2>1, <2>2, Zenon
  <2>4. S(i) = S(i - 1) \cup {f[i]} /\ f[i] \in Int /\ S(i - 1) \subseteq Int
    BY <2>0, <1>5
  <2> HIDE DEF S
  <2>5. PICK lo \in S(i - 1) : \A y \in S(i - 1) : lo <= y
    BY <2>3
  <2>6. PICK hi \in S(i - 1) : \A y \in S(i - 1) : hi >= y
    BY <2>3
  <2>7. \E m \in S(i) : \A y \in S(i) : m <= y
    BY <2>4, <2>5
  <2>8. \E m \in S(i) : \A y \in S(i) : m >= y
    BY <2>4, <2>6
  <2> QED BY <2>7, <2>8
<1> QED BY <1>3, <1>4, <1>5

LEMMA EntryTypes ==
  ASSUME NEW e \in MapBo
  PROVE  /\ e.idx \in Buffers /\ e.tgt \in Targets /\ e.ocpy \in BOOLEAN /\ e.write \in BOOLEAN
         /\ e.hva \in Nat /\ e.gpa \in Int /\ e.mused \in Nat /\ e.mapsz \in Nat
         /\ e.ocpy \/ e.gpa \in 0 .. (MbufoSize - 1)
BY DEF MapBo

\* The stretch the mappings of a list cover has ends.
LEMMA StretchTypes ==
  ASSUME NEW list \in Seq(MapBo)
  PROVE  /\ Lowest(list) \in Int /\ Lowest(list) <= MbufoSize - 1
         /\ Highest(list) \in Int /\ Highest(list) >= 0
         /\ \A k \in DOMAIN list : /\ Lowest(list) <= PageFloor(list[k].gpa)
                                   /\ Highest(list) >= PageFloor(list[k].gpa + list[k].mapsz
                                                                 + PageOffset(list[k].hva))
         /\ Lowest(list) = MbufoSize - 1 \/ \E k \in DOMAIN list : Lowest(list) = PageFloor(list[k].gpa)
         /\ \/ Highest(list) = 0
            \/ \E k \in DOMAIN list : Highest(list) = PageFloor(list[k].gpa + list[k].mapsz
                                                              + PageOffset(list[k].hva))
<1>1. DOMAIN list = 1 .. Len(list) /\ Len(list) \in Nat
  OBVIOUS
<1>2. \A k \in 1 .. Len(list) : list[k] \in MapBo
  OBVIOUS
<1>3. ASSUME NEW k \in 1 .. Len(list)
      PROVE  /\ PageFloor(list[k].gpa) \in Int
             /\ PageFloor(list[k].gpa + list[k].mapsz + PageOffset(list[k].hva)) \in Int
  <2>0. list[k] \in MapBo
    BY <1>2
  <2>1. list[k].gpa \in Int /\ list[k].mapsz \in Nat /\ list[k].hva \in Nat /\ list[k].hva \in Int
    BY <2>0, EntryTypes
  <2>2. PageOffset(list[k].hva) \in Nat
    BY <2>1, PageTypes, Zenon
  <2>3. list[k].gpa + list[k].mapsz + PageOffset(list[k].hva) \in Int
    BY <2>1, <2>2
  <2> QED
    BY <2>1, <2>3, PageTypes
<1> DEFINE f == [k \in 1 .. Len(list) |-> PageFloor(list[k].gpa)]
           g == [k \in 1 .. Len(list) |-> PageFloor(list[k].gpa + list[k].mapsz + PageOffset(list[k].hva))]
           S == {PageFloor(list[k].gpa) : k \in DOMAIN list} \cup {MbufoSize - 1}
           T == {PageFloor(list[k].gpa + list[k].mapsz + PageOffset(list[k].hva)) : k \in DOMAIN list} \cup {0}
<1>4. f \in [1 .. Len(list) -> Int] /\ g \in [1 .. Len(list) -> Int]
  BY <1>3
<1>5. S = {f[k] : k \in 1 .. Len(list)} \cup {MbufoSize - 1} /\ T = {g[k] : k \in 1 .. Len(list)} \cup {0}
  BY <1>1
<1>6. MbufoSize - 1 \in Int /\ 0 \in Int
  BY SizeAssumption
<1>7. S \subseteq Int /\ T \subseteq Int
  BY <1>4, <1>5, <1>6
<1>8. \E m \in S : \A y \in S : m <= y
  <2> HIDE DEF f, g, S, T
  <2>1. PICK m \in Int : (m = MbufoSize - 1 \/ \E k \in 1 .. Len(list) : m = f[k]) /\ m <= MbufoSize - 1
                        /\ \A k \in 1 .. Len(list) : m <= f[k]
    BY <1>1, <1>4, <1>6, Bounded
  <2> QED BY <2>1, <1>5
<1>9. \E m \in T : \A y \in T : m >= y
  <2> HIDE DEF f, g, S, T
  <2>1. PICK m \in Int : (m = 0 \/ \E k \in 1 .. Len(list) : m = g[k]) /\ m >= 0
                        /\ \A k \in 1 .. Len(list) : m >= g[k]
    BY <1>1, <1>4, <1>6, Bounded
  <2> QED BY <2>1, <1>5
<1>10. Min(S) \in S /\ \A y \in S : Min(S) <= y
  <2> HIDE DEF S
  <2> QED BY <1>8 DEF Min
<1>11. Max(T) \in T /\ \A y \in T : Max(T) >= y
  <2> HIDE DEF T
  <2> QED BY <1>9 DEF Max
<1>12. Lowest(list) = Min(S) /\ Highest(list) = Max(T)
  BY Zenon DEF Lowest, Highest
<1>13. MbufoSize - 1 \in S /\ 0 \in T
  OBVIOUS
<1>14. \A k \in DOMAIN list : /\ PageFloor(list[k].gpa) \in S
                              /\ PageFloor(list[k].gpa + list[k].mapsz + PageOffset(list[k].hva)) \in T
  OBVIOUS
<1>15. /\ \A y \in S : y = MbufoSize - 1 \/ \E k \in DOMAIN list : y = PageFloor(list[k].gpa)
       /\ \A y \in T : y = 0 \/ \E k \in DOMAIN list : y = PageFloor(list[k].gpa + list[k].mapsz
                                                                     + PageOffset(list[k].hva))
  OBVIOUS
<1> HIDE DEF f, g, S, T
<1>16. /\ Lowest(list) = MbufoSize - 1 \/ \E k \in DOMAIN list : Lowest(list) = PageFloor(list[k].gpa)
       /\ \/ Highest(list) = 0
          \/ \E k \in DOMAIN list : Highest(list) = PageFloor(list[k].gpa + list[k].mapsz
                                                            + PageOffset(list[k].hva))
  BY <1>10, <1>11, <1>12, <1>15, Zenon
<1> QED
  BY <1>7, <1>10, <1>11, <1>12, <1>13, <1>14, <1>16

\* The place chosen for a mapping is in the window.
LEMMA PlaceInWindow ==
  ASSUME NEW list \in Seq(MapBo), NEW hva \in Hvas, NEW size \in Sizes
  PROVE  MapBufObjGpa(list, hva, size) \in 0 .. (MbufoSize - 1)
<1> DEFINE natural == hva % MbufoSize
           need == ALIGNBO(size) + PageOffset(hva)
           lo == Lowest(list)
           hi == Highest(list)
<1>1. hva \in Nat /\ size \in Nat /\ MbufoSize \in Nat \ {0}
  BY SizeAssumption
<1>2. natural \in 0 .. (MbufoSize - 1)
  BY <1>1
<1>3. ALIGNBO(size) \in Nat /\ PageOffset(hva) \in Nat
  BY <1>1, AlignedUp, PageTypes
<1>4. need \in Nat
  BY <1>3
<1>5. lo \in Int /\ lo <= MbufoSize - 1 /\ hi \in Int /\ hi >= 0
  BY StretchTypes
<1>6. MapBufObjGpa(list, hva, size) \in {natural, 0}
      \/ (lo > need /\ MapBufObjGpa(list, hva, size) = lo - need)
      \/ (hi + need < MbufoSize /\ MapBufObjGpa(list, hva, size) = hi)
  <2> HIDE DEF natural, need, lo, hi
  <2>1. MapBufObjGpa(list, hva, size) =
          IF list = <<>> \/ natural + need < lo \/ natural >= hi THEN natural
          ELSE IF lo > need THEN lo - need
          ELSE IF hi + need < MbufoSize THEN hi
          ELSE 0
    BY DEF MapBufObjGpa, natural, need, lo, hi
  <2> QED BY <2>1
<1> HIDE DEF natural, need, lo, hi
<1> QED BY <1>1, <1>2, <1>4, <1>5, <1>6

-----------------------------------------------------------------------------
(* The list, seen as the set of its entries. *)

EntriesOf(list) == {list[k] : k \in DOMAIN list}

Entries == EntriesOf(pbufo)

Others(b) == {e \in Entries : e.idx # b}

\* No buffer is in the list twice.
OnceEach(list) == \A j, k \in DOMAIN list : list[j].idx = list[k].idx => j = k

LEMMA Removed ==
  ASSUME NEW S, NEW s \in Seq(S), NEW i \in 1 .. Len(s)
  PROVE  /\ RemoveAt(s, i) \in Seq(S) /\ Len(RemoveAt(s, i)) = Len(s) - 1
         /\ \A k \in 1 .. (Len(s) - 1) : RemoveAt(s, i)[k] = IF k < i THEN s[k] ELSE s[k + 1]
<1>1. Len(s) \in Nat /\ i \in Nat /\ \A k \in 1 .. Len(s) : s[k] \in S
  OBVIOUS
<1> DEFINE l == SubSeq(s, 1, i - 1)
           r == SubSeq(s, i + 1, Len(s))
<1>2. l \in Seq(S) /\ Len(l) = i - 1 /\ \A k \in 1 .. (i - 1) : l[k] = s[k]
  <2>1. \A k \in 1 .. (i - 1) : s[k] \in S
    BY <1>1
  <2>2. l \in Seq(S) /\ Len(l) = (IF 1 <= i - 1 THEN (i - 1) - 1 + 1 ELSE 0)
        /\ \A k \in 1 .. ((i - 1) - 1 + 1) : l[k] = s[1 + k - 1]
    BY <2>1, <1>1, SubSeqProperties
  <2> HIDE DEF l
  <2> QED BY <2>2, <1>1
<1>3. r \in Seq(S) /\ Len(r) = Len(s) - i /\ \A k \in 1 .. (Len(s) - i) : r[k] = s[i + k]
  <2>1. \A k \in (i + 1) .. Len(s) : s[k] \in S
    BY <1>1
  <2>2. r \in Seq(S) /\ Len(r) = (IF i + 1 <= Len(s) THEN Len(s) - (i + 1) + 1 ELSE 0)
        /\ \A k \in 1 .. (Len(s) - (i + 1) + 1) : r[k] = s[(i + 1) + k - 1]
    BY <2>1, <1>1, SubSeqProperties
  <2> HIDE DEF r
  <2> QED BY <2>2, <1>1
<1>4. RemoveAt(s, i) = l \o r
  BY DEF RemoveAt
<1> HIDE DEF l, r
<1>5. /\ l \o r \in Seq(S)
      /\ Len(l \o r) = Len(l) + Len(r)
      /\ \A k \in 1 .. (Len(l) + Len(r)) : (l \o r)[k] = IF k <= Len(l) THEN l[k] ELSE r[k - Len(l)]
  BY <1>2, <1>3, ConcatProperties
<1>6. ASSUME NEW k \in 1 .. (Len(s) - 1)
      PROVE  RemoveAt(s, i)[k] = IF k < i THEN s[k] ELSE s[k + 1]
  <2>1. CASE k < i
    <3>1. RemoveAt(s, i)[k] = l[k]
      BY <1>1, <1>2, <1>3, <1>4, <1>5, <2>1
    <3> QED BY <3>1, <1>2, <2>1, <1>1
  <2>2. CASE ~(k < i)
    <3>1. RemoveAt(s, i)[k] = r[k - (i - 1)]
      BY <1>1, <1>2, <1>3, <1>4, <1>5, <2>2
    <3>2. k - (i - 1) \in 1 .. (Len(s) - i) /\ i + (k - (i - 1)) = k + 1
      BY <2>2, <1>1
    <3> QED BY <3>1, <3>2, <1>3, <2>2
  <2> QED BY <2>1, <2>2
<1> QED BY <1>1, <1>2, <1>3, <1>4, <1>5, <1>6

\* LookupBufObj finds the entry of a buffer that has one, and else the free
\* place at the end.
LEMMA Found ==
  ASSUME pbufo \in Seq(MapBo), NEW b
  PROVE  /\ Place(b) \in 1 .. (Len(pbufo) + 1)
         /\ Place(b) <= Len(pbufo) => pbufo[Place(b)].idx = b
         /\ Place(b) > Len(pbufo) => \A k \in 1 .. Len(pbufo) : pbufo[k].idx # b
<1> DEFINE S == {k \in DOMAIN pbufo : pbufo[k].idx = b}
<1>1. DOMAIN pbufo = 1 .. Len(pbufo) /\ Len(pbufo) \in Nat
  OBVIOUS
<1>2. Place(b) = IF S = {} THEN Len(pbufo) + 1 ELSE Min(S)
  BY DEF Place
<1>3. CASE S = {}
  BY <1>1, <1>2, <1>3
<1>4. CASE S # {}
  <2>1. S \subseteq 1 .. Len(pbufo)
    BY <1>1
  <2> HIDE DEF S
  <2>2. S \subseteq Nat
    BY <2>1, <1>1
  <2>3. PICK s \in S : \A r \in S : ~(<<r, s>> \in OpToRel(<, Nat))
    BY <2>2, <1>4, NatLessThanWellFounded, WFMin
  <2>4. ASSUME NEW r \in S PROVE s <= r
    <3>1. r \in Nat /\ s \in Nat
      BY <2>2
    <3>2. r < s => <<r, s>> \in OpToRel(<, Nat)
      BY <3>1, Zenon DEF OpToRel
    <3>3. ~(r < s)
      BY <2>3, <3>2, Zenon
    <3> QED BY <3>1, <3>3
  <2>5. Min(S) \in S
    BY <2>4 DEF Min
  <2>6. Place(b) \in S
    BY <1>2, <1>4, <2>5
  <2> QED BY <2>1, <2>6, <1>1 DEF S
<1> QED BY <1>3, <1>4

LEMMA OneEntryEach ==
  ASSUME OnceEach(pbufo)
  PROVE  \A x, y \in Entries : x.idx = y.idx => x = y
BY DEF OnceEach, Entries, EntriesOf

\* A buffer is in the list if it has an entry.
LEMMA InList ==
  ASSUME pbufo \in Seq(MapBo), NEW b
  PROVE  /\ Place(b) \in 1 .. (Len(pbufo) + 1)
         /\ Place(b) <= Len(pbufo) => pbufo[Place(b)] \in Entries /\ pbufo[Place(b)].idx = b
         /\ Place(b) > Len(pbufo) => \A x \in Entries : x.idx # b
<1>1. DOMAIN pbufo = 1 .. Len(pbufo) /\ Len(pbufo) \in Nat
  OBVIOUS
<1> QED BY <1>1, Found DEF Entries, EntriesOf

\* An entry put into its place replaces the buffer's old one.
LEMMA EntryPut ==
  ASSUME pbufo \in Seq(MapBo), OnceEach(pbufo), NEW b, NEW e \in MapBo, e.idx = b
  PROVE  /\ Put(Place(b), e) \in Seq(MapBo) /\ OnceEach(Put(Place(b), e))
         /\ EntriesOf(Put(Place(b), e)) = Others(b) \cup {e}
<1> DEFINE k == Place(b)
           new == Put(k, e)
<1>1. DOMAIN pbufo = 1 .. Len(pbufo) /\ Len(pbufo) \in Nat /\ \A i \in 1 .. Len(pbufo) : pbufo[i] \in MapBo
  OBVIOUS
<1>2. k \in 1 .. (Len(pbufo) + 1)
      /\ (k <= Len(pbufo) => pbufo[k].idx = b)
      /\ (k > Len(pbufo) => \A i \in 1 .. Len(pbufo) : pbufo[i].idx # b)
  BY Found
<1>3. \A i, j \in 1 .. Len(pbufo) : pbufo[i].idx = pbufo[j].idx => i = j
  BY <1>1 DEF OnceEach
<1> DEFINE n == IF k <= Len(pbufo) THEN Len(pbufo) ELSE Len(pbufo) + 1
<1>4. new \in Seq(MapBo) /\ Len(new) = n /\ new[k] = e /\ k \in 1 .. n /\ n \in Nat
      /\ \A i \in 1 .. n : i # k => i \in 1 .. Len(pbufo) /\ new[i] = pbufo[i]
  <2>1. CASE k <= Len(pbufo)
    <3>1. new = [pbufo EXCEPT ![k] = e]
      BY <2>1 DEF Put
    <3> HIDE DEF k, new
    <3>2. new \in Seq(MapBo) /\ Len(new) = Len(pbufo) /\ new[k] = e /\ \A i \in 1 .. Len(pbufo) : i # k => new[i] = pbufo[i]
      BY <2>1, <3>1, <1>1, <1>2
    <3> QED BY <2>1, <3>2, <1>1, <1>2
  <2>2. CASE ~(k <= Len(pbufo))
    <3>1. new = Append(pbufo, e)
      BY <2>2 DEF Put
    <3>2. k = Len(pbufo) + 1
      BY <2>2, <1>1, <1>2
    <3> HIDE DEF k, new
    <3>3. new \in Seq(MapBo) /\ Len(new) = Len(pbufo) + 1 /\ new[k] = e /\ \A i \in 1 .. Len(pbufo) : new[i] = pbufo[i]
      BY <3>1, <3>2, <1>1
    <3> QED BY <2>2, <3>2, <3>3, <1>1
  <2> QED BY <2>1, <2>2
<1>5. DOMAIN new = 1 .. n
  <2> HIDE DEF new, n
  <2> QED BY <1>4
<1>6. \A i \in 1 .. n : i # k => new[i].idx # b
  <2> HIDE DEF new, k
  <2>1. ASSUME NEW i \in 1 .. n, i # k PROVE pbufo[i].idx # b
    <3>1. i \in 1 .. Len(pbufo)
      BY <1>4, <2>1
    <3> QED BY <3>1, <2>1, <1>1, <1>2, <1>3
  <2> QED BY <1>4, <2>1
<1>7. OnceEach(new)
  <2> HIDE DEF new, k, n
  <2>1. \A i, j \in 1 .. n : new[i].idx = new[j].idx => i = j
    BY <1>3, <1>4, <1>6
  <2> QED BY <1>5, <2>1 DEF OnceEach
<1>8. EntriesOf(new) = Others(b) \cup {e}
  <2> HIDE DEF new, k
  <2>1. ASSUME NEW x \in EntriesOf(new) PROVE x \in Others(b) \cup {e}
    <3>1. PICK i \in 1 .. n : x = new[i]
      BY <1>5 DEF EntriesOf
    <3>2. CASE i = k
      BY <3>1, <3>2, <1>4
    <3>3. CASE i # k
      <4>1. i \in 1 .. Len(pbufo) /\ x = pbufo[i] /\ x.idx # b
        BY <3>1, <3>3, <1>4, <1>6
      <4> QED BY <4>1, <1>1 DEF Others, Entries, EntriesOf
    <3> QED BY <3>2, <3>3
  <2>2. e \in EntriesOf(new)
    BY <1>4, <1>5 DEF EntriesOf
  <2>3. ASSUME NEW x \in Others(b) PROVE x \in EntriesOf(new)
    <3>1. PICK i \in 1 .. Len(pbufo) : x = pbufo[i] /\ x.idx # b
      BY <1>1 DEF Others, Entries, EntriesOf
    <3>2. i # k
      BY <3>1, <1>1, <1>2
    <3>3. i \in 1 .. n
      BY <1>1
    <3>4. x = new[i]
      BY <3>1, <3>2, <3>3, <1>4
    <3> QED BY <3>3, <3>4, <1>5 DEF EntriesOf
  <2> QED BY <2>1, <2>2, <2>3
<1> QED BY <1>4, <1>7, <1>8

\* A buffer freed is out of the list; the others stay.
LEMMA EntryFreed ==
  ASSUME pbufo \in Seq(MapBo), OnceEach(pbufo), NEW b
  PROVE  /\ Freed(b) \in Seq(MapBo) /\ OnceEach(Freed(b))
         /\ EntriesOf(Freed(b)) = Others(b)
<1> DEFINE k == Place(b)
           new == Freed(b)
<1>1. DOMAIN pbufo = 1 .. Len(pbufo) /\ Len(pbufo) \in Nat
  OBVIOUS
<1>2. k \in 1 .. (Len(pbufo) + 1)
      /\ (k <= Len(pbufo) => pbufo[k].idx = b)
      /\ (k > Len(pbufo) => \A i \in 1 .. Len(pbufo) : pbufo[i].idx # b)
  BY Found
<1>3. \A i, j \in 1 .. Len(pbufo) : pbufo[i].idx = pbufo[j].idx => i = j
  BY <1>1 DEF OnceEach
<1>4. CASE ~(k <= Len(pbufo))
  <2>1. new = pbufo
    BY <1>4 DEF Freed
  <2>2. \A i \in 1 .. Len(pbufo) : pbufo[i].idx # b
    BY <1>1, <1>2, <1>4
  <2>3. Others(b) = Entries
    BY <1>1, <2>2 DEF Others, Entries, EntriesOf
  <2> QED BY <2>1, <2>3 DEF Entries
<1>5. CASE k <= Len(pbufo)
  <2>1. new = RemoveAt(pbufo, k)
    BY <1>5 DEF Freed
  <2>2. k \in 1 .. Len(pbufo)
    BY <1>1, <1>2, <1>5
  <2> HIDE DEF k, new
  <2> DEFINE n == Len(pbufo) - 1
  <2>3. new \in Seq(MapBo) /\ Len(new) = n /\ \A i \in 1 .. n : new[i] = IF i < k THEN pbufo[i] ELSE pbufo[i + 1]
    BY <2>1, <2>2, Removed
  <2>4. DOMAIN new = 1 .. n
    BY <2>3
  <2>5. ASSUME NEW i \in 1 .. n, NEW j \in 1 .. n, new[i].idx = new[j].idx PROVE i = j
    <3>1. \A m \in 1 .. n : m \in 1 .. Len(pbufo) /\ m + 1 \in 1 .. Len(pbufo)
      BY <1>1
    <3>2. CASE i < k /\ j < k
      BY <2>3, <2>5, <3>1, <3>2, <1>3
    <3>3. CASE i < k /\ ~(j < k)
      <4>1. pbufo[i].idx = pbufo[j + 1].idx
        BY <2>3, <2>5, <3>3
      <4>2. i = j + 1
        BY <3>1, <4>1, <1>3
      <4> QED BY <3>3, <4>2, <2>2
    <3>4. CASE ~(i < k) /\ j < k
      <4>1. pbufo[i + 1].idx = pbufo[j].idx
        BY <2>3, <2>5, <3>4
      <4>2. i + 1 = j
        BY <3>1, <4>1, <1>3
      <4> QED BY <3>4, <4>2, <2>2
    <3>5. CASE ~(i < k) /\ ~(j < k)
      <4>1. pbufo[i + 1].idx = pbufo[j + 1].idx
        BY <2>3, <2>5, <3>5
      <4>2. i + 1 = j + 1
        BY <3>1, <4>1, <1>3
      <4> QED BY <4>2
    <3> QED BY <3>2, <3>3, <3>4, <3>5
  <2>6. OnceEach(new)
    <3>1. \A i, j \in 1 .. n : new[i].idx = new[j].idx => i = j
      BY <2>5
    <3> HIDE DEF n
    <3> QED BY <2>4, <3>1 DEF OnceEach
  <2>7. ASSUME NEW x \in EntriesOf(new) PROVE x \in Others(b)
    <3>1. PICK i \in 1 .. n : x = new[i]
      BY <2>4 DEF EntriesOf
    <3>2. PICK j \in 1 .. Len(pbufo) : x = pbufo[j] /\ j # k
      <4>1. CASE i < k
        BY <4>1, <3>1, <2>3, <1>1
      <4>2. CASE ~(i < k)
        <5>1. i + 1 \in 1 .. Len(pbufo) /\ i + 1 # k /\ x = pbufo[i + 1]
          BY <4>2, <3>1, <2>2, <2>3, <1>1
        <5> QED BY <5>1
      <4> QED BY <4>1, <4>2
    <3>3. x.idx # b
      BY <3>2, <1>2, <1>3, <1>5, <2>2
    <3> QED BY <3>2, <3>3, <1>1 DEF Others, Entries, EntriesOf
  <2>8. ASSUME NEW x \in Others(b) PROVE x \in EntriesOf(new)
    <3>1. PICK i \in 1 .. Len(pbufo) : x = pbufo[i] /\ x.idx # b
      BY <1>1 DEF Others, Entries, EntriesOf
    <3>2. i # k
      BY <3>1, <1>2, <1>5
    <3>3. \E j \in 1 .. n : x = new[j]
      <4>1. CASE i < k
        <5>1. i \in 1 .. n
          BY <4>1, <2>2, <1>1
        <5> QED BY <5>1, <4>1, <3>1, <2>3
      <4>2. CASE ~(i < k)
        <5>1. i - 1 \in 1 .. n /\ ~(i - 1 < k) /\ (i - 1) + 1 = i
          BY <4>2, <3>2, <2>2, <1>1
        <5> QED BY <5>1, <3>1, <2>3
      <4> QED BY <4>1, <4>2
    <3> HIDE DEF n
    <3> QED BY <3>3, <2>4 DEF EntriesOf
  <2> QED BY <2>3, <2>6, <2>7, <2>8 DEF new
<1> QED BY <1>4, <1>5

-----------------------------------------------------------------------------
(* What the three operations on the list do to its entries. *)

Listing == pbufo \in Seq(MapBo) /\ OnceEach(pbufo)

\* The entry of buffer b for a mapping through target t.
MappingEntry(e, b, t, hva, size) ==
  /\ e.idx = b /\ e.tgt = t /\ e.hva = hva /\ e.mapsz = size /\ e.mused = szUsedBuf
  /\ e.ocpy <=> (Place(b) <= Len(pbufo) /\ pbufo[Place(b)].ocpy) \/ ~ZeroCopy(t)
  /\ e.gpa = IF ZeroCopy(t) THEN MapBufObjGpa(SubSeq(pbufo, 1, Place(b) - 1), hva, size)
             ELSE FbtAddress + FbtSize - SZFBT_VALID(szUsedBuf, hva)

LEMMA MapStep ==
  ASSUME TypeOK, OnceEach(pbufo),
         NEW t \in Targets, NEW hva \in Hvas, NEW size \in Sizes, NEW write \in BOOLEAN,
         MapBuffer(t, hva, size, write)
  PROVE  \E b \in Buffers, e \in MapBo :
           /\ b = bound[t] /\ context /\ ptr[b] = NoPtr
           /\ MappingEntry(e, b, t, hva, size)
           /\ Listing' /\ Entries' = Others(b) \cup {e} /\ pbufo' = Put(Place(b), e)
           /\ \/ /\ ZeroCopy(t) /\ AddRegion(RegionOf(e))
                 /\ szUsedBuf' = SZFBT_VALID(szUsedBuf, hva)
                 /\ ptr' = [ptr EXCEPT ![b] = [via |-> "kvm", at |-> e.gpa]]
              \/ /\ ~ZeroCopy(t) /\ UNCHANGED <<kept, kvm>>
                 /\ szUsedBuf' = SZFBT_VALID(szUsedBuf, hva) + ALIGNBO(size)
                 /\ ptr' = [ptr EXCEPT ![b] = [via |-> "fbtm", at |-> FbtSize - szUsedBuf']]
           /\ maps < MaxMaps /\ maps' = maps + 1
           /\ UNCHANGED <<setting, context, bound, BufIdx>>
<1>1. PICK b \in Buffers : b = bound[t]
  BY DEF TypeOK, MapBuffer
<1> DEFINE k == Place(b)
           used == SZFBT_VALID(szUsedBuf, hva)
           gpa == IF ZeroCopy(t) THEN MapBufObjGpa(SubSeq(pbufo, 1, k - 1), hva, size)
                  ELSE FbtAddress + FbtSize - used
           copied == k <= Len(pbufo) /\ pbufo[k].ocpy
           new == [idx |-> b, tgt |-> t, ocpy |-> copied \/ ~ZeroCopy(t), hva |-> hva, gpa |-> gpa,
                   mused |-> szUsedBuf, mapsz |-> size, write |-> write]
<1>2. /\ pbufo \in Seq(MapBo) /\ szUsedBuf \in Nat
      /\ hva \in Nat /\ size \in Nat /\ MbufoSize \in Nat /\ FbtSize \in Nat /\ FbtAddress \in Nat
  BY SizeAssumption DEF TypeOK
<1>3. k \in 1 .. (Len(pbufo) + 1) /\ Len(pbufo) \in Nat
  BY <1>2, Found
<1>4. ZeroCopy(t) => gpa \in 0 .. (MbufoSize - 1)
  <2>1. \A i \in 1 .. (k - 1) : pbufo[i] \in MapBo
    BY <1>2, <1>3
  <2>2. 1 \in Int /\ k - 1 \in Int
    BY <1>3
  <2> HIDE DEF k
  <2>3. SubSeq(pbufo, 1, k - 1) \in Seq(MapBo)
    BY <2>1, <2>2, SubSeqProperties
  <2>4. MapBufObjGpa(SubSeq(pbufo, 1, k - 1), hva, size) \in 0 .. (MbufoSize - 1)
    BY <2>3, PlaceInWindow
  <2> QED BY <2>4
<1>5. used \in Nat
  BY <1>2 DEF SZFBT_VALID
<1>6. gpa \in Int
  <2>1. 0 .. (MbufoSize - 1) \subseteq Int /\ FbtAddress + FbtSize - used \in Int
    BY <1>2, <1>5
  <2> HIDE DEF used
  <2> QED BY <1>4, <2>1
<1>8. new \in MapBo
  <2> HIDE DEF gpa, k, used, copied
  <2>1. (copied \/ ~ZeroCopy(t)) \in BOOLEAN
    OBVIOUS
  <2> DEFINE ocpy == copied \/ ~ZeroCopy(t)
  <2>2. ocpy \in BOOLEAN /\ (ocpy \/ gpa \in 0 .. (MbufoSize - 1))
    BY <1>4
  <2> HIDE DEF ocpy
  <2>3. [idx |-> b, tgt |-> t, ocpy |-> ocpy, hva |-> hva, gpa |-> gpa,
         mused |-> szUsedBuf, mapsz |-> size, write |-> write] \in MapBo
    BY <1>1, <1>2, <1>6, <2>2 DEF MapBo
  <2> QED BY <2>3 DEF ocpy
<1>9. /\ context /\ ptr[b] = NoPtr /\ pbufo' = Put(k, new)
      /\ \/ /\ ZeroCopy(t) /\ AddRegion(RegionOf(new))
            /\ szUsedBuf' = used
            /\ ptr' = [ptr EXCEPT ![b] = [via |-> "kvm", at |-> gpa]]
         \/ /\ ~ZeroCopy(t) /\ UNCHANGED <<kept, kvm>>
            /\ szUsedBuf' = used + ALIGNBO(size)
            /\ ptr' = [ptr EXCEPT ![b] = [via |-> "fbtm", at |-> FbtSize - szUsedBuf']]
      /\ maps < MaxMaps /\ maps' = maps + 1
      /\ UNCHANGED <<setting, context, bound, BufIdx>>
  BY <1>1, Zenon DEF MapBuffer
<1>10. MappingEntry(new, b, t, hva, size) /\ new.idx = b /\ new.gpa = gpa
  <2>1. /\ new.idx = b /\ new.tgt = t /\ new.hva = hva /\ new.mapsz = size /\ new.mused = szUsedBuf
        /\ new.ocpy = (copied \/ ~ZeroCopy(t)) /\ new.gpa = gpa
    OBVIOUS
  <2>2. new.ocpy <=> copied \/ ~ZeroCopy(t)
    BY <2>1
  <2> QED BY <2>1, <2>2 DEF MappingEntry
<1> HIDE DEF new
<1>11. Put(k, new) \in Seq(MapBo) /\ OnceEach(Put(k, new)) /\ EntriesOf(Put(k, new)) = Others(b) \cup {new}
  BY <1>2, <1>8, <1>10, EntryPut
<1>12. Listing' /\ Entries' = Others(b) \cup {new}
  BY <1>9, <1>11 DEF Listing, Entries
<1>13. WITNESS b \in Buffers
<1>14. WITNESS new \in MapBo
<1> QED
  BY <1>1, <1>9, <1>10, <1>12

LEMMA FlushStep ==
  ASSUME Listing, NEW t \in Targets, FlushMappedBufferRange(t)
  PROVE  \E e \in Entries : LET f == [e EXCEPT !.tgt = t] IN
           /\ context /\ e \in MapBo /\ e.idx \in Buffers /\ f \in MapBo
           /\ FlushesElsewhere \/ ZeroCopy(t) = ZeroCopy(e.tgt)
           /\ Listing' /\ Entries' = Others(e.idx) \cup {f} /\ Len(pbufo') = Len(pbufo)
           /\ UNCHANGED <<setting, context, bound, BufIdx, szUsedBuf, kept, kvm, ptr, maps>>
<1> DEFINE k == Place(bound[t])
           e == pbufo[k]
           f == [e EXCEPT !.tgt = t]
<1>1. pbufo \in Seq(MapBo) /\ OnceEach(pbufo)
  BY DEF Listing
<1>2. /\ context /\ k <= Len(pbufo)
      /\ FlushesElsewhere \/ ZeroCopy(t) = ZeroCopy(e.tgt)
      /\ pbufo' = [pbufo EXCEPT ![k].tgt = t]
      /\ UNCHANGED <<setting, context, bound, BufIdx, szUsedBuf, kept, kvm, ptr, maps>>
  BY Zenon DEF FlushMappedBufferRange
<1>3. k \in 1 .. (Len(pbufo) + 1) /\ (k <= Len(pbufo) => e \in Entries /\ e.idx = bound[t])
  BY <1>1, InList
<1>4. e \in Entries /\ e.idx = bound[t] /\ Place(e.idx) = k
  BY <1>2, <1>3
<1>5. e \in MapBo
  <2> HIDE DEF k
  <2>1. k \in 1 .. Len(pbufo)
    BY <1>1, <1>2, <1>3
  <2> QED BY <1>1, <2>1
<1>6. f \in MapBo /\ f.idx = e.idx
  <2> HIDE DEF k, e
  <2> QED BY <1>5 DEF MapBo
<1>7. pbufo' = Put(k, f)
  BY <1>2 DEF Put
<1> HIDE DEF k, f
<1>8. /\ Put(k, f) \in Seq(MapBo) /\ OnceEach(Put(k, f))
      /\ EntriesOf(Put(k, f)) = Others(e.idx) \cup {f}
  <2> HIDE DEF e
  <2> QED BY <1>1, <1>4, <1>6, EntryPut
<1>9. Len(pbufo') = Len(pbufo)
  BY <1>1, <1>2
<1>10. e.idx \in Buffers
  BY <1>5, EntryTypes
<1>11. Listing' /\ Entries' = Others(e.idx) \cup {f}
  BY <1>7, <1>8 DEF Listing, Entries
<1> HIDE DEF e
<1>12. \E x \in Entries : x = e
  BY <1>4
<1> QED
  BY <1>2, <1>5, <1>6, <1>9, <1>10, <1>11, <1>12 DEF f

LEMMA UnmapStep ==
  ASSUME Listing, NEW t \in Targets, UnmapBuffer(t)
  PROVE  \E e \in Entries :
           /\ context /\ e \in MapBo /\ e.idx \in Buffers /\ e.idx = bound[t] /\ ptr[e.idx] # NoPtr
           /\ Listing' /\ Entries' = Others(e.idx)
           /\ szUsedBuf' = IF Entries' = {} THEN 0 ELSE Unstaged(e)
           /\ IF ZeroCopy(e.tgt) THEN RemoveRegion(RegionOf(e), e.idx) ELSE UNCHANGED <<kept, kvm>>
           /\ ptr' = [ptr EXCEPT ![e.idx] = NoPtr]
           /\ UNCHANGED <<setting, context, bound, BufIdx, maps>>
<1> DEFINE b == bound[t]
           k == Place(b)
           e == pbufo[k]
<1>1. pbufo \in Seq(MapBo) /\ OnceEach(pbufo)
  BY DEF Listing
<1>2. /\ context /\ k <= Len(pbufo) /\ ptr[b] # NoPtr
      /\ pbufo' = Freed(b)
      /\ IF ZeroCopy(e.tgt) THEN RemoveRegion(RegionOf(e), b) ELSE UNCHANGED <<kept, kvm>>
      /\ szUsedBuf' = IF Freed(b) = <<>> THEN 0 ELSE Unstaged(e)
      /\ ptr' = [ptr EXCEPT ![b] = NoPtr]
      /\ UNCHANGED <<setting, context, bound, BufIdx, maps>>
  BY Zenon DEF UnmapBuffer
<1>3. k \in 1 .. (Len(pbufo) + 1) /\ (k <= Len(pbufo) => e \in Entries /\ e.idx = b)
  BY <1>1, InList
<1>4. e \in Entries /\ e.idx = b
  BY <1>2, <1>3
<1>5. e \in MapBo
  <2> HIDE DEF k
  <2>1. k \in 1 .. Len(pbufo)
    BY <1>1, <1>2, <1>3
  <2> QED BY <1>1, <2>1
<1>6. e.idx \in Buffers
  BY <1>5, EntryTypes
<1>7. /\ Freed(b) \in Seq(MapBo) /\ OnceEach(Freed(b))
      /\ EntriesOf(Freed(b)) = Others(b)
  BY <1>1, EntryFreed
<1>8. EntriesOf(Freed(b)) = {} <=> Freed(b) = <<>>
  <2> DEFINE l == Freed(b)
  <2>2. l \in Seq(MapBo)
    BY <1>7
  <2> HIDE DEF l
  <2>3. DOMAIN l = 1 .. Len(l) /\ Len(l) \in Nat /\ (l = <<>> <=> Len(l) = 0)
    BY <2>2
  <2>5. l = <<>> => EntriesOf(l) = {}
    BY <2>3 DEF EntriesOf
  <2>6. l # <<>> => l[1] \in EntriesOf(l)
    BY <2>3 DEF EntriesOf
  <2>4. EntriesOf(l) = {} <=> l = <<>>
    BY <2>5, <2>6
  <2> QED BY <2>4 DEF l
<1>9. Listing' /\ Entries' = Others(b)
  BY <1>2, <1>7 DEF Listing, Entries
<1>10. szUsedBuf' = IF Entries' = {} THEN 0 ELSE Unstaged(e)
  BY <1>2, <1>8 DEF Entries
<1> HIDE DEF e, k, b
<1>11. \E x \in Entries : x = e
  BY <1>4
<1>12. b = e.idx /\ e.idx = bound[t]
  BY <1>4 DEF b
<1>13. /\ ptr[e.idx] # NoPtr /\ Entries' = Others(e.idx)
       /\ IF ZeroCopy(e.tgt) THEN RemoveRegion(RegionOf(e), e.idx) ELSE UNCHANGED <<kept, kvm>>
       /\ ptr' = [ptr EXCEPT ![e.idx] = NoPtr]
  BY <1>2, <1>9, <1>12
<1> QED
  BY <1>2, <1>5, <1>6, <1>9, <1>10, <1>11, <1>12, <1>13

-----------------------------------------------------------------------------
(* Types. *)

LEMMA RegionTypes ==
  ASSUME NEW e \in MapBo
  PROVE  RegionOf(e) \in Region
<1>1. e.gpa \in Int /\ e.hva \in Nat /\ e.hva \in Int /\ e.mapsz \in Nat /\ e.write \in BOOLEAN
  BY EntryTypes
<1>2. e.gpa % MbufoSize \in Nat /\ e.gpa % MbufoSize \in Int
  BY <1>1, SizeAssumption
<1>3. PageFloor(e.gpa % MbufoSize) \in Nat
  BY <1>2, PageTypes
<1>4. PageOffset(e.hva) \in Nat /\ PageFloor(e.hva) \in Nat
  BY <1>1, PageTypes
<1>5. e.mapsz + PageOffset(e.hva) \in Nat
  BY <1>1, <1>4
<1> QED
  BY <1>1, <1>3, <1>4, <1>5 DEF RegionOf, Region

LEMMA RemovedTypes ==
  ASSUME TypeOK
  PROVE  /\ WithoutKept \subseteq Region /\ \A r : KvmRemoved(r) \subseteq Region
         /\ NotKept \in [standing : BOOLEAN, region : Region, idx : Buffers \cup {NoBuffer}]
BY DEF TypeOK, WithoutKept, KvmRemoved, NotKept

LEMMA AddTypes ==
  ASSUME TypeOK, NEW r \in Region, AddRegion(r)
  PROVE  /\ kvm' \subseteq Region
         /\ kept' \in [standing : BOOLEAN, region : Region, idx : Buffers \cup {NoBuffer}]
<1>1. kvm \subseteq Region /\ kept \in [standing : BOOLEAN, region : Region, idx : Buffers \cup {NoBuffer}]
  BY DEF TypeOK
<1>2. kept' = NotKept \/ kept' = kept
  BY DEF AddRegion
<1>3. kvm' = kvm \/ kvm' = WithoutKept \cup {r} \/ kvm' = kvm \cup {r}
  BY DEF AddRegion, Replaced
<1> QED
  BY <1>1, <1>2, <1>3, RemovedTypes

LEMMA RemoveTypes ==
  ASSUME TypeOK, NEW r \in Region, NEW b \in Buffers, RemoveRegion(r, b)
  PROVE  /\ kvm' \subseteq Region
         /\ kept' \in [standing : BOOLEAN, region : Region, idx : Buffers \cup {NoBuffer}]
<1>1. kvm \subseteq Region /\ kept \in [standing : BOOLEAN, region : Region, idx : Buffers \cup {NoBuffer}]
  BY DEF TypeOK
<1>2. kept' = [standing |-> TRUE, region |-> r, idx |-> b] \/ kept' = kept
  BY DEF RemoveRegion
<1>3. kvm' = WithoutKept \/ kvm' = KvmRemoved(r)
  BY DEF RemoveRegion
<1>4. WithoutKept \subseteq Region /\ KvmRemoved(r) \subseteq Region
  BY RemovedTypes
<1>5. [standing |-> TRUE, region |-> r, idx |-> b] \in [standing : BOOLEAN, region : Region, idx : Buffers \cup {NoBuffer}]
  OBVIOUS
<1> QED
  BY <1>1, <1>2, <1>3, <1>4, <1>5, Zenon

KeptRecord == [standing : BOOLEAN, region : Region, idx : Buffers \cup {NoBuffer}]

TypeInv == TypeOK /\ OnceEach(pbufo)

LEMMA TypeInit == Init => TypeInv
<1> SUFFICES ASSUME Init PROVE TypeInv
  OBVIOUS
<1>1. NoRegion \in Region
  BY DEF NoRegion, Region
<1>2. kept \in KeptRecord
  BY <1>1 DEF Init, KeptRecord
<1>3. ptr \in [Buffers -> [via : {"none", "kvm", "fbtm"}, at : Int]]
  BY DEF Init, NoPtr
<1>4. setting \in Setting /\ maps \in 0 .. MaxMaps
  BY NameAssumption, SizeAssumption DEF Init
<1>5. pbufo \in Seq(MapBo) /\ OnceEach(pbufo)
  BY DEF Init, OnceEach
<1> QED
  BY <1>2, <1>3, <1>4, <1>5 DEF Init, TypeInv, TypeOK, KeptRecord

\* Each action keeps the types.
LEMMA TypeMap ==
  ASSUME TypeInv,
         NEW t \in Targets, NEW hva \in Hvas, NEW size \in Sizes, NEW write \in BOOLEAN,
         MapBuffer(t, hva, size, write)
  PROVE  TypeInv'
<1>1. PICK b \in Buffers, e \in MapBo :
           /\ Listing'
           /\ \/ /\ ZeroCopy(t) /\ AddRegion(RegionOf(e))
                 /\ szUsedBuf' = SZFBT_VALID(szUsedBuf, hva)
                 /\ ptr' = [ptr EXCEPT ![b] = [via |-> "kvm", at |-> e.gpa]]
              \/ /\ ~ZeroCopy(t) /\ UNCHANGED <<kept, kvm>>
                 /\ szUsedBuf' = SZFBT_VALID(szUsedBuf, hva) + ALIGNBO(size)
                 /\ ptr' = [ptr EXCEPT ![b] = [via |-> "fbtm", at |-> FbtSize - szUsedBuf']]
           /\ maps < MaxMaps /\ maps' = maps + 1
           /\ UNCHANGED <<setting, context, bound, BufIdx>>
  BY MapStep DEF TypeInv
<1>2. /\ setting \in Setting /\ context \in BOOLEAN /\ bound \in [Targets -> Buffers \cup {NoBuffer}]
      /\ BufIdx \in Buffers \cup {NoBuffer} /\ szUsedBuf \in Nat /\ kvm \subseteq Region /\ kept \in KeptRecord
      /\ ptr \in [Buffers -> [via : {"none", "kvm", "fbtm"}, at : Int]] /\ maps \in 0 .. MaxMaps
      /\ FbtSize \in Nat /\ size \in Nat /\ MaxMaps \in Nat
  BY SizeAssumption DEF TypeInv, TypeOK, KeptRecord
<1>3. SZFBT_VALID(szUsedBuf, hva) \in Nat /\ ALIGNBO(size) \in Nat
  BY <1>2, AlignedUp DEF SZFBT_VALID
<1>4. szUsedBuf' \in Nat
  BY <1>1, <1>3
<1>5. e.gpa \in Int /\ FbtSize - szUsedBuf' \in Int
  BY <1>2, <1>4, EntryTypes
<1>6. ptr' \in [Buffers -> [via : {"none", "kvm", "fbtm"}, at : Int]]
  BY <1>1, <1>2, <1>5
<1>7. kvm' \subseteq Region /\ kept' \in KeptRecord
  <2>1. RegionOf(e) \in Region
    BY RegionTypes
  <2> DEFINE r == RegionOf(e)
  <2>2. r \in Region /\ (AddRegion(r) \/ UNCHANGED <<kept, kvm>>)
    BY <1>1, <2>1
  <2> HIDE DEF r
  <2>3. CASE AddRegion(r)
    BY <2>2, <2>3, AddTypes DEF TypeInv, KeptRecord
  <2>4. CASE UNCHANGED <<kept, kvm>>
    BY <2>4, <1>2
  <2> QED BY <2>2, <2>3, <2>4
<1>8. pbufo' \in Seq(MapBo) /\ OnceEach(pbufo')
  BY <1>1 DEF Listing
<1>9. maps' \in 0 .. MaxMaps
  BY <1>1, <1>2
<1> QED
  BY <1>1, <1>2, <1>4, <1>6, <1>7, <1>8, <1>9 DEF TypeInv, TypeOK, KeptRecord

LEMMA TypeUnmap ==
  ASSUME TypeInv, NEW t \in Targets, UnmapBuffer(t)
  PROVE  TypeInv'
<1>1. PICK e \in Entries :
           /\ e \in MapBo /\ e.idx \in Buffers
           /\ Listing'
           /\ szUsedBuf' = IF Entries' = {} THEN 0 ELSE Unstaged(e)
           /\ IF ZeroCopy(e.tgt) THEN RemoveRegion(RegionOf(e), e.idx) ELSE UNCHANGED <<kept, kvm>>
           /\ ptr' = [ptr EXCEPT ![e.idx] = NoPtr]
           /\ UNCHANGED <<setting, context, bound, BufIdx, maps>>
  BY UnmapStep DEF TypeInv, TypeOK, Listing
<1>2. /\ setting \in Setting /\ context \in BOOLEAN /\ bound \in [Targets -> Buffers \cup {NoBuffer}]
      /\ BufIdx \in Buffers \cup {NoBuffer} /\ szUsedBuf \in Nat /\ kvm \subseteq Region /\ kept \in KeptRecord
      /\ ptr \in [Buffers -> [via : {"none", "kvm", "fbtm"}, at : Int]] /\ maps \in 0 .. MaxMaps
  BY DEF TypeInv, TypeOK, KeptRecord
<1>3. e.mused \in Nat /\ e.mapsz \in Nat
  BY <1>1, EntryTypes
<1>4. Unstaged(e) \in Nat
  <2>1. ALIGNBO(e.mapsz) \in Nat
    BY <1>3, AlignedUp
  <2> QED BY <1>2, <1>3, <2>1 DEF Unstaged
<1>5. szUsedBuf' \in Nat
  BY <1>1, <1>4
<1>6. ptr' \in [Buffers -> [via : {"none", "kvm", "fbtm"}, at : Int]]
  BY <1>1, <1>2 DEF NoPtr
<1>7. kvm' \subseteq Region /\ kept' \in KeptRecord
  <2> DEFINE r == RegionOf(e)
             b == e.idx
  <2>1. r \in Region /\ b \in Buffers
    BY <1>1, RegionTypes
  <2>2. RemoveRegion(r, b) \/ UNCHANGED <<kept, kvm>>
    BY <1>1
  <2> HIDE DEF r, b
  <2>3. CASE RemoveRegion(r, b)
    BY <2>1, <2>3, RemoveTypes DEF TypeInv, KeptRecord
  <2>4. CASE UNCHANGED <<kept, kvm>>
    BY <2>4, <1>2
  <2> QED BY <2>2, <2>3, <2>4
<1>8. pbufo' \in Seq(MapBo) /\ OnceEach(pbufo')
  BY <1>1 DEF Listing
<1> QED
  BY <1>1, <1>2, <1>5, <1>6, <1>7, <1>8 DEF TypeInv, TypeOK, KeptRecord

LEMMA TypeNext == TypeInv /\ [Next]_vars => TypeInv'
<1> SUFFICES ASSUME TypeInv, [Next]_vars PROVE TypeInv'
  OBVIOUS
<1>1. /\ setting \in Setting /\ context \in BOOLEAN /\ bound \in [Targets -> Buffers \cup {NoBuffer}]
      /\ BufIdx \in Buffers \cup {NoBuffer} /\ szUsedBuf \in Nat /\ kvm \subseteq Region /\ kept \in KeptRecord
      /\ ptr \in [Buffers -> [via : {"none", "kvm", "fbtm"}, at : Int]] /\ maps \in 0 .. MaxMaps
      /\ pbufo \in Seq(MapBo) /\ OnceEach(pbufo) /\ Listing
  BY DEF TypeInv, TypeOK, KeptRecord, Listing
<1>2. WithoutKept \subseteq Region /\ NotKept \in KeptRecord
  BY RemovedTypes DEF TypeInv, KeptRecord
<1>3. [t \in Targets |-> NoBuffer] \in [Targets -> Buffers \cup {NoBuffer}]
      /\ [b \in Buffers |-> NoPtr] \in [Buffers -> [via : {"none", "kvm", "fbtm"}, at : Int]]
  BY DEF NoPtr
<1>4. ASSUME DeleteContext PROVE TypeInv'
  BY <1>1, <1>2, <1>3, <1>4 DEF DeleteContext, TypeInv, TypeOK, KeptRecord
<1>5. ASSUME CreateContext PROVE TypeInv'
  <2>1. <<>> \in Seq(MapBo) /\ OnceEach(<<>>)
    BY DEF OnceEach
  <2>2. UNCHANGED <<setting, bound, BufIdx, ptr, maps>> /\ context' = TRUE /\ szUsedBuf' = 0 /\ pbufo' = <<>>
        /\ kept' = NotKept /\ kvm' = WithoutKept
    BY <1>5 DEF CreateContext
  <2> QED BY <1>1, <1>2, <2>1, <2>2 DEF TypeInv, TypeOK, KeptRecord
<1>6. ASSUME NEW t \in Targets, NEW b \in Buffers \cup {NoBuffer}, BindBuffer(t, b) PROVE TypeInv'
  BY <1>1, <1>6 DEF BindBuffer, TypeInv, TypeOK, KeptRecord
<1>7. ASSUME NEW t \in Targets, FlushMappedBufferRange(t) PROVE TypeInv'
  <2>1. Listing' /\ UNCHANGED <<setting, context, bound, BufIdx, szUsedBuf, kept, kvm, ptr, maps>>
    BY <1>1, <1>7, FlushStep
  <2> QED BY <1>1, <2>1 DEF TypeInv, TypeOK, KeptRecord, Listing
<1>8. ASSUME NEW b \in Buffers, DeleteBuffer(b) PROVE TypeInv'
  <2>1. kept' \in KeptRecord /\ kvm' \subseteq Region
    BY <1>1, <1>2, <1>8 DEF DeleteBuffer
  <2>2. bound' \in [Targets -> Buffers \cup {NoBuffer}]
    BY <1>1, <1>8 DEF DeleteBuffer
  <2>3. ptr' \in [Buffers -> [via : {"none", "kvm", "fbtm"}, at : Int]]
    BY <1>1, <1>8 DEF DeleteBuffer, NoPtr
  <2>4. UNCHANGED <<setting, context, BufIdx, pbufo, szUsedBuf, maps>>
    BY <1>8 DEF DeleteBuffer
  <2> QED BY <1>1, <2>1, <2>2, <2>3, <2>4 DEF TypeInv, TypeOK, KeptRecord
<1>9. ASSUME UNCHANGED vars PROVE TypeInv'
  BY <1>1, <1>9 DEF vars, TypeInv, TypeOK, KeptRecord
<1> QED
  BY <1>4, <1>5, <1>6, <1>7, <1>8, <1>9, TypeMap, TypeUnmap DEF Next

LEMMA TypeAlways == Spec => []TypeInv
  BY TypeInit, TypeNext, PTL DEF Spec

\* The state is always of its type: in particular every zero-copy mapping is
\* placed inside the window, whatever was mapped before it, and the staging
\* never falls below nothing.
THEOREM MapsTyped == Spec => []TypeOK
<1>1. TypeInv => TypeOK
  BY DEF TypeInv
<1> QED
  BY <1>1, TypeAlways, PTL

-----------------------------------------------------------------------------
(* An application that unmaps a buffer before it deletes it: the list holds *)
(* exactly the buffers it has mapped.                                       *)

UnmapsFirst == ~DeletesMapped

Mapped(b) == ptr[b] # NoPtr

Listed ==
  /\ context => \A b \in Buffers : Mapped(b) <=> \E e \in Entries : e.idx = b
  /\ ~context => \A b \in Buffers : ~Mapped(b)
  /\ context /\ Entries = {} => szUsedBuf = 0
  /\ \A e \in Entries : e.mapsz > 0

ListInv == TypeInv /\ Listed

\* A member of the set of entries is an entry.
LEMMA EntryIsMapBo ==
  ASSUME TypeInv, NEW e \in Entries
  PROVE  e \in MapBo
<1>1. pbufo \in Seq(MapBo)
  BY DEF TypeInv, TypeOK
<1> QED
  BY <1>1 DEF Entries, EntriesOf

\* The step that maps, when the application has the buffer unmapped: an entry is
\* added and none is replaced.
LEMMA MapAdds ==
  ASSUME ListInv, NEW t \in Targets, NEW hva \in Hvas, NEW size \in Sizes, NEW write \in BOOLEAN,
         MapBuffer(t, hva, size, write)
  PROVE  \E b \in Buffers, e \in MapBo :
           /\ context /\ (\A x \in Entries : x.idx # b) /\ Place(b) = Len(pbufo) + 1
           /\ e.idx = b /\ e.tgt = t /\ e.hva = hva /\ e.mapsz = size /\ e.mused = szUsedBuf
           /\ e.ocpy <=> ~ZeroCopy(t)
           /\ e.gpa = IF ZeroCopy(t) THEN MapBufObjGpa(pbufo, hva, size)
                      ELSE FbtAddress + FbtSize - SZFBT_VALID(szUsedBuf, hva)
           /\ Entries' = Entries \cup {e} /\ pbufo' = Append(pbufo, e)
           /\ \/ /\ ZeroCopy(t) /\ AddRegion(RegionOf(e))
                 /\ szUsedBuf' = SZFBT_VALID(szUsedBuf, hva)
                 /\ ptr' = [ptr EXCEPT ![b] = [via |-> "kvm", at |-> e.gpa]]
              \/ /\ ~ZeroCopy(t) /\ UNCHANGED <<kept, kvm>>
                 /\ szUsedBuf' = SZFBT_VALID(szUsedBuf, hva) + ALIGNBO(size)
                 /\ ptr' = [ptr EXCEPT ![b] = [via |-> "fbtm", at |-> FbtSize - szUsedBuf']]
           /\ UNCHANGED <<setting, context>>
<1>1. PICK b \in Buffers, e \in MapBo :
           /\ b = bound[t] /\ context /\ ptr[b] = NoPtr
           /\ MappingEntry(e, b, t, hva, size)
           /\ Listing' /\ Entries' = Others(b) \cup {e} /\ pbufo' = Put(Place(b), e)
           /\ \/ /\ ZeroCopy(t) /\ AddRegion(RegionOf(e))
                 /\ szUsedBuf' = SZFBT_VALID(szUsedBuf, hva)
                 /\ ptr' = [ptr EXCEPT ![b] = [via |-> "kvm", at |-> e.gpa]]
              \/ /\ ~ZeroCopy(t) /\ UNCHANGED <<kept, kvm>>
                 /\ szUsedBuf' = SZFBT_VALID(szUsedBuf, hva) + ALIGNBO(size)
                 /\ ptr' = [ptr EXCEPT ![b] = [via |-> "fbtm", at |-> FbtSize - szUsedBuf']]
           /\ UNCHANGED <<setting, context, bound, BufIdx>>
  <2>1. TypeOK /\ OnceEach(pbufo)
    BY DEF ListInv, TypeInv
  <2> QED BY <2>1, MapStep
<1>2. pbufo \in Seq(MapBo) /\ Len(pbufo) \in Nat
  BY DEF ListInv, TypeInv, TypeOK
<1>3. \A x \in Entries : x.idx # b
  BY <1>1 DEF ListInv, Listed, Mapped
<1>4. Place(b) = Len(pbufo) + 1
  <2>1. Place(b) \in 1 .. (Len(pbufo) + 1) /\ (Place(b) <= Len(pbufo) => pbufo[Place(b)] \in Entries /\ pbufo[Place(b)].idx = b)
    BY <1>2, InList
  <2> QED BY <1>2, <1>3, <2>1
<1>5. SubSeq(pbufo, 1, Place(b) - 1) = pbufo
  <2>1. Place(b) - 1 = Len(pbufo)
    BY <1>2, <1>4
  <2> QED BY <1>2, <2>1, SubSeqFull
<1>6. ~(Place(b) <= Len(pbufo))
  BY <1>2, <1>4
<1>7. /\ e.idx = b /\ e.tgt = t /\ e.hva = hva /\ e.mapsz = size /\ e.mused = szUsedBuf
      /\ e.ocpy <=> ~ZeroCopy(t)
      /\ e.gpa = IF ZeroCopy(t) THEN MapBufObjGpa(pbufo, hva, size)
                 ELSE FbtAddress + FbtSize - SZFBT_VALID(szUsedBuf, hva)
  BY <1>1, <1>5, <1>6 DEF MappingEntry
<1>8. Others(b) = Entries
  BY <1>3 DEF Others
<1>9. pbufo' = Append(pbufo, e)
  BY <1>1, <1>6 DEF Put
<1> QED
  BY <1>1, <1>3, <1>4, <1>7, <1>8, <1>9

LEMMA ListedInit == Init => ListInv
<1> SUFFICES ASSUME Init PROVE ListInv
  OBVIOUS
<1>1. Entries = {}
  BY DEF Init, Entries, EntriesOf
<1> QED
  BY <1>1, TypeInit DEF Init, ListInv, Listed, Mapped

LEMMA ListedNext == UnmapsFirst /\ ListInv /\ [Next]_vars => Listed'
<1> SUFFICES ASSUME UnmapsFirst, ListInv, [Next]_vars PROVE Listed'
  OBVIOUS
<1>1. /\ context => \A b \in Buffers : ptr[b] # NoPtr <=> \E e \in Entries : e.idx = b
      /\ ~context => \A b \in Buffers : ptr[b] = NoPtr
      /\ context /\ Entries = {} => szUsedBuf = 0
      /\ \A e \in Entries : e.mapsz > 0
      /\ ptr \in [Buffers -> [via : {"none", "kvm", "fbtm"}, at : Int]] /\ Listing /\ TypeInv /\ TypeOK
  BY DEF ListInv, Listed, Mapped, TypeInv, TypeOK, Listing
<1>2. pbufo' = pbufo => Entries' = Entries
  BY DEF Entries
<1>3. \A x, y \in Entries : x.idx = y.idx => x = y
  BY <1>1, OneEntryEach DEF Listing
<1>4. ASSUME DeleteContext PROVE Listed'
  <2>1. UNCHANGED pbufo /\ context' = FALSE /\ ptr' = [b \in Buffers |-> NoPtr]
    BY <1>4 DEF DeleteContext
  <2> QED BY <2>1, <1>1, <1>2 DEF Listed, Mapped
<1>5. ASSUME CreateContext PROVE Listed'
  <2>1. pbufo' = <<>> /\ context' = TRUE /\ ptr' = ptr /\ szUsedBuf' = 0 /\ ~context
    BY <1>5 DEF CreateContext
  <2>2. Entries' = {}
    BY <2>1 DEF Entries, EntriesOf
  <2> QED BY <2>1, <2>2, <1>1 DEF Listed, Mapped
<1>6. ASSUME NEW t \in Targets, NEW b \in Buffers \cup {NoBuffer}, BindBuffer(t, b) PROVE Listed'
  BY <1>1, <1>2, <1>6 DEF BindBuffer, Listed, Mapped
<1>7. ASSUME NEW t \in Targets, NEW hva \in Hvas, NEW size \in Sizes, NEW write \in BOOLEAN,
             MapBuffer(t, hva, size, write)
      PROVE  Listed'
  <2>1. PICK b \in Buffers, e \in MapBo :
           /\ context /\ (\A x \in Entries : x.idx # b)
           /\ e.idx = b /\ e.mapsz = size
           /\ Entries' = Entries \cup {e}
           /\ \/ ptr' = [ptr EXCEPT ![b] = [via |-> "kvm", at |-> e.gpa]]
              \/ ptr' = [ptr EXCEPT ![b] = [via |-> "fbtm", at |-> FbtSize - szUsedBuf']]
           /\ UNCHANGED <<setting, context>>
    BY <1>7, MapAdds
  <2>2. size > 0
    BY SizeAssumption
  <2>3. ptr'[b] # NoPtr /\ \A c \in Buffers \ {b} : ptr'[c] = ptr[c]
    BY <2>1, <1>1 DEF NoPtr
  <2>4. \A c \in Buffers : ptr'[c] # NoPtr <=> \E x \in Entries' : x.idx = c
    BY <2>1, <2>3, <1>1
  <2>5. Entries' # {} /\ \A x \in Entries' : x.mapsz > 0
    BY <2>1, <2>2, <1>1
  <2> QED BY <2>1, <2>4, <2>5, <1>1 DEF Listed, Mapped
<1>8. ASSUME NEW t \in Targets, FlushMappedBufferRange(t) PROVE Listed'
  <2>1. PICK e \in Entries :
           /\ e \in MapBo /\ context
           /\ Entries' = Others(e.idx) \cup {[e EXCEPT !.tgt = t]}
           /\ UNCHANGED <<setting, context, bound, BufIdx, szUsedBuf, kept, kvm, ptr, maps>>
    BY <1>1, <1>8, FlushStep
  <2> DEFINE f == [e EXCEPT !.tgt = t]
  <2>2. f.idx = e.idx /\ f.mapsz = e.mapsz
    BY <2>1 DEF MapBo
  <2>3. Entries' = {x \in Entries : x.idx # e.idx} \cup {f}
    BY <2>1 DEF Others
  <2> HIDE DEF f
  <2>4. \A b \in Buffers : (\E x \in Entries' : x.idx = b) <=> (\E x \in Entries : x.idx = b)
    BY <2>1, <2>2, <2>3
  <2>5. Entries' # {} /\ \A x \in Entries' : x.mapsz > 0
    BY <2>1, <2>2, <2>3, <1>1
  <2> QED BY <2>1, <2>4, <2>5, <1>1 DEF Listed, Mapped
<1>9. ASSUME NEW t \in Targets, UnmapBuffer(t) PROVE Listed'
  <2>1. PICK e \in Entries :
           /\ context /\ e.idx \in Buffers
           /\ Entries' = Others(e.idx)
           /\ szUsedBuf' = IF Entries' = {} THEN 0 ELSE Unstaged(e)
           /\ ptr' = [ptr EXCEPT ![e.idx] = NoPtr]
           /\ UNCHANGED <<setting, context, bound, BufIdx, maps>>
    BY <1>1, <1>9, UnmapStep
  <2>2. ptr'[e.idx] = NoPtr /\ \A c \in Buffers \ {e.idx} : ptr'[c] = ptr[c]
    BY <2>1, <1>1
  <2>3. Entries' = {x \in Entries : x.idx # e.idx}
    BY <2>1 DEF Others
  <2>4. \A c \in Buffers : ptr'[c] # NoPtr <=> \E x \in Entries' : x.idx = c
    BY <2>1, <2>2, <2>3, <1>1
  <2> QED BY <2>1, <2>3, <2>4, <1>1 DEF Listed, Mapped
<1>10. ASSUME NEW b \in Buffers, DeleteBuffer(b) PROVE Listed'
  <2>1. ptr[b] = NoPtr /\ ptr' = [ptr EXCEPT ![b] = NoPtr] /\ UNCHANGED <<context, pbufo, szUsedBuf>>
    BY <1>10 DEF DeleteBuffer, UnmapsFirst
  <2>2. ptr' = ptr
    BY <2>1, <1>1
  <2> QED BY <2>1, <2>2, <1>1, <1>2 DEF Listed, Mapped
<1>11. ASSUME UNCHANGED vars PROVE Listed'
  BY <1>1, <1>2, <1>11 DEF vars, Listed, Mapped
<1> QED
  BY <1>4, <1>5, <1>6, <1>7, <1>8, <1>9, <1>10, <1>11 DEF Next

LEMMA ListAlways == UnmapsFirst /\ Spec => []ListInv
<1>1. Init => ListInv
  BY ListedInit
<1>2. UnmapsFirst /\ ListInv /\ [Next]_vars => ListInv'
  BY ListedNext, TypeNext DEF ListInv
<1> SUFFICES ASSUME UnmapsFirst PROVE Spec => []ListInv
  OBVIOUS
<1>3. ListInv /\ [Next]_vars => ListInv'
  BY <1>2
<1> HIDE DEF ListInv
<1> QED
  BY <1>1, <1>3, PTL DEF Spec

\* If the application unmaps a buffer before it deletes it, all staging is free
\* again as soon as nothing is mapped, in whatever order the buffers went.
THEOREM StagingFreedAlways == UnmapsFirst /\ Spec => []StagingFreed
<1>1. ListInv => StagingFreed
  <2> SUFFICES ASSUME ListInv, \A b \in Buffers : ptr[b] = NoPtr, context PROVE szUsedBuf = 0
    BY DEF StagingFreed
  <2>1. Entries = {}
    <3>1. ASSUME NEW e \in Entries PROVE FALSE
      <4>1. e.idx \in Buffers
        BY EntryIsMapBo, EntryTypes DEF ListInv
      <4> QED BY <4>1 DEF ListInv, Listed, Mapped
    <3> QED BY <3>1
  <2> QED BY <2>1 DEF ListInv, Listed
<1> SUFFICES ASSUME UnmapsFirst PROVE Spec => []StagingFreed
  OBVIOUS
<1>2. Spec => []ListInv
  BY ListAlways
<1> HIDE DEF ListInv, StagingFreed
<1> QED
  BY <1>1, <1>2, PTL

-----------------------------------------------------------------------------
(* Staging: each one-copy mapping takes the area below those made before it, *)
(* and areas are given back from below only, or all together.                *)

FlushesInPlace == ~FlushesElsewhere

\* The application never has more staging in use than the texture area holds.
StagingFits == szUsedBuf <= FbtSize

\* The area of f lies nearer to the end of the texture area than that of e.
Above(f, e) == f.mused + ALIGNBO(f.mapsz) <= e.mused

\* A one-copy mapping is where its share of the staging begins and ends.
InStaging(e) ==
  /\ e.gpa = FbtAddress + FbtSize - e.mused
  /\ e.mused + ALIGNBO(e.mapsz) <= szUsedBuf
  /\ ptr[e.idx].at = AreaStart(e)

KindKept == \A e \in Entries : e.ocpy <=> ~ZeroCopy(e.tgt)

Staged ==
  context =>
    /\ KindKept
    /\ \A e \in Entries : e.ocpy => InStaging(e)
    /\ \A e, f \in Entries : e.ocpy /\ f.ocpy /\ e # f => Above(e, f) \/ Above(f, e)

LEMMA StagedMap ==
  ASSUME ListInv, Staged, StagingFits,
         NEW t \in Targets, NEW hva \in Hvas, NEW size \in Sizes, NEW write \in BOOLEAN,
         MapBuffer(t, hva, size, write)
  PROVE  Staged'
<1>1. PICK b \in Buffers, e \in MapBo :
           /\ context /\ (\A x \in Entries : x.idx # b)
           /\ e.idx = b /\ e.tgt = t /\ e.hva = hva /\ e.mapsz = size /\ e.mused = szUsedBuf
           /\ e.ocpy <=> ~ZeroCopy(t)
           /\ e.gpa = IF ZeroCopy(t) THEN MapBufObjGpa(pbufo, hva, size)
                      ELSE FbtAddress + FbtSize - SZFBT_VALID(szUsedBuf, hva)
           /\ Entries' = Entries \cup {e}
           /\ \/ /\ ZeroCopy(t) /\ AddRegion(RegionOf(e))
                 /\ szUsedBuf' = SZFBT_VALID(szUsedBuf, hva)
                 /\ ptr' = [ptr EXCEPT ![b] = [via |-> "kvm", at |-> e.gpa]]
              \/ /\ ~ZeroCopy(t) /\ UNCHANGED <<kept, kvm>>
                 /\ szUsedBuf' = SZFBT_VALID(szUsedBuf, hva) + ALIGNBO(size)
                 /\ ptr' = [ptr EXCEPT ![b] = [via |-> "fbtm", at |-> FbtSize - szUsedBuf']]
           /\ UNCHANGED <<setting, context>>
  BY MapAdds
<1>2. /\ szUsedBuf \in Nat /\ FbtSize \in Nat /\ FbtAddress \in Nat /\ size \in Nat
      /\ ptr \in [Buffers -> [via : {"none", "kvm", "fbtm"}, at : Int]]
  BY SizeAssumption DEF ListInv, TypeInv, TypeOK
<1>3. SZFBT_VALID(szUsedBuf, hva) = szUsedBuf
  BY <1>2 DEF SZFBT_VALID, StagingFits
<1>4. ALIGNBO(size) \in Nat
  BY <1>2, AlignedUp
<1>5. \A x \in Entries : x \in MapBo /\ x.idx \in Buffers /\ x.mused \in Nat /\ ALIGNBO(x.mapsz) \in Nat
  BY EntryIsMapBo, EntryTypes, AlignedUp DEF ListInv
<1>6. \A x : ZeroCopy(x)' <=> ZeroCopy(x)
  BY <1>1 DEF ZeroCopy
<1>7. szUsedBuf' \in Nat /\ szUsedBuf' >= szUsedBuf
  BY <1>1, <1>2, <1>3, <1>4
<1>8. \A x \in Entries : ptr'[x.idx] = ptr[x.idx]
  BY <1>1, <1>2, <1>5
<1>9. ASSUME NEW x \in Entries, x.ocpy PROVE InStaging(x)'
  <2>1. /\ x.gpa = FbtAddress + FbtSize - x.mused
        /\ x.mused + ALIGNBO(x.mapsz) <= szUsedBuf
        /\ ptr[x.idx].at = AreaStart(x)
    BY <1>1, <1>9 DEF Staged, InStaging
  <2>2. x.mused + ALIGNBO(x.mapsz) <= szUsedBuf'
    BY <2>1, <1>2, <1>5, <1>7
  <2> QED BY <2>1, <2>2, <1>8 DEF InStaging
<1>10. ASSUME e.ocpy PROVE InStaging(e)'
  <2>1. ~ZeroCopy(t)
    BY <1>1, <1>10
  <2>2. e.gpa = FbtAddress + FbtSize - szUsedBuf /\ szUsedBuf' = szUsedBuf + ALIGNBO(size)
        /\ ptr'[b].at = FbtSize - szUsedBuf'
    BY <2>1, <1>1, <1>2, <1>3
  <2>3. AreaStart(e) = FbtSize - szUsedBuf'
    BY <2>2, <1>1, <1>2, <1>4 DEF AreaStart
  <2>4. e.mused + ALIGNBO(e.mapsz) <= szUsedBuf'
    BY <2>2, <1>1, <1>2, <1>4
  <2> QED BY <2>2, <2>3, <2>4, <1>1 DEF InStaging
<1>11. ASSUME NEW x \in Entries, x.ocpy PROVE Above(x, e)
  <2>1. x.mused + ALIGNBO(x.mapsz) <= szUsedBuf
    BY <1>1, <1>11 DEF Staged, InStaging
  <2> QED BY <2>1, <1>1 DEF Above
<1>12. ASSUME NEW x \in Entries', NEW y \in Entries', x.ocpy, y.ocpy, x # y PROVE Above(x, y) \/ Above(y, x)
  BY <1>1, <1>11, <1>12 DEF Staged
<1>13. KindKept'
  BY <1>1, <1>6 DEF KindKept, Staged
<1>14. \A x \in Entries' : x.ocpy => InStaging(x)'
  BY <1>1, <1>9, <1>10
<1> QED
  BY <1>12, <1>13, <1>14 DEF Staged

LEMMA StagedUnmap ==
  ASSUME ListInv, Staged, NEW t \in Targets, UnmapBuffer(t)
  PROVE  Staged'
<1>0. Listing
  BY DEF ListInv, TypeInv, TypeOK, Listing
<1>1. PICK e \in Entries :
           /\ context /\ e \in MapBo /\ e.idx \in Buffers
           /\ Entries' = Others(e.idx)
           /\ szUsedBuf' = IF Entries' = {} THEN 0 ELSE Unstaged(e)
           /\ ptr' = [ptr EXCEPT ![e.idx] = NoPtr]
           /\ UNCHANGED <<setting, context, bound, BufIdx, maps>>
  BY <1>0, UnmapStep
<1>2. szUsedBuf \in Nat /\ ptr \in [Buffers -> [via : {"none", "kvm", "fbtm"}, at : Int]]
  BY DEF ListInv, TypeInv, TypeOK
<1>3. \A x \in Entries : /\ x.idx \in Buffers /\ x.mused \in Nat /\ ALIGNBO(x.mapsz) \in Nat
                         /\ ALIGNBO(x.mapsz) > 0
  <2> SUFFICES ASSUME NEW x \in Entries
               PROVE /\ x.idx \in Buffers /\ x.mused \in Nat /\ ALIGNBO(x.mapsz) \in Nat
                     /\ ALIGNBO(x.mapsz) > 0
    OBVIOUS
  <2>1. x \in MapBo
    BY EntryIsMapBo DEF ListInv
  <2>2. x.idx \in Buffers /\ x.mused \in Nat /\ x.mapsz \in Nat
    BY <2>1, EntryTypes
  <2>3. x.mapsz > 0
    BY DEF ListInv, Listed
  <2>4. ALIGNBO(x.mapsz) \in Nat /\ x.mapsz <= ALIGNBO(x.mapsz)
    BY <2>2, AlignedUp
  <2> QED BY <2>2, <2>3, <2>4
<1>4. Entries' \subseteq Entries /\ \A x \in Entries' : x.idx # e.idx
  BY <1>1 DEF Others
<1>5. \A x : ZeroCopy(x)' <=> ZeroCopy(x)
  BY <1>1 DEF ZeroCopy
<1>6. KindKept'
  BY <1>1, <1>4, <1>5 DEF KindKept, Staged
<1>7. ASSUME NEW x \in Entries', x.ocpy PROVE InStaging(x)'
  <2>1. /\ x.gpa = FbtAddress + FbtSize - x.mused
        /\ x.mused + ALIGNBO(x.mapsz) <= szUsedBuf
        /\ ptr[x.idx].at = AreaStart(x)
    BY <1>1, <1>4, <1>7 DEF Staged, InStaging
  <2>2. ptr'[x.idx] = ptr[x.idx]
    BY <1>1, <1>2, <1>3, <1>4
  <2>3. szUsedBuf' = Unstaged(e)
    BY <1>1
  <2>4. x.mused + ALIGNBO(x.mapsz) <= szUsedBuf'
    <3>1. CASE ~ZeroCopy(e.tgt) /\ szUsedBuf = e.mused + ALIGNBO(e.mapsz)
      <4>1. szUsedBuf' = e.mused
        BY <2>3, <3>1, <1>2, <1>3 DEF Unstaged
      <4>2. e.ocpy /\ x # e
        BY <3>1, <1>1, <1>4 DEF Staged, KindKept
      <4>3. Above(x, e) \/ Above(e, x)
        BY <4>2, <1>1, <1>4, <1>7 DEF Staged
      <4>4. ~Above(e, x)
        <5>1. x.mused \in Nat /\ ALIGNBO(x.mapsz) \in Nat /\ ALIGNBO(x.mapsz) > 0
          BY <1>3, <1>4
        <5> QED BY <5>1, <2>1, <3>1, <1>2, <1>3 DEF Above
      <4> QED BY <4>1, <4>3, <4>4 DEF Above
    <3>2. CASE ~(~ZeroCopy(e.tgt) /\ szUsedBuf = e.mused + ALIGNBO(e.mapsz))
      BY <2>1, <2>3, <3>2 DEF Unstaged
    <3> QED BY <3>1, <3>2
  <2> QED BY <2>1, <2>2, <2>4 DEF InStaging
<1>8. \A x, y \in Entries' : x.ocpy /\ y.ocpy /\ x # y => Above(x, y) \/ Above(y, x)
  BY <1>1, <1>4 DEF Staged
<1> QED
  BY <1>6, <1>7, <1>8 DEF Staged

\* A flush moves a mapping to another target of the same kind.
LEMMA KindFlush ==
  ASSUME FlushesInPlace, ListInv, KindKept, NEW t \in Targets, FlushMappedBufferRange(t)
  PROVE  /\ KindKept' /\ context /\ UNCHANGED <<setting, context, szUsedBuf, kept, kvm, ptr>>
         /\ \A x \in Entries' : \E y \in Entries : x = [y EXCEPT !.tgt = x.tgt] /\ y \in MapBo /\ x \in MapBo
         /\ \A y \in Entries : \E x \in Entries' : x = [y EXCEPT !.tgt = x.tgt]
<1>0. Listing
  BY DEF ListInv, TypeInv, TypeOK, Listing
<1>1. PICK e \in Entries :
           /\ context /\ e \in MapBo /\ e.idx \in Buffers /\ [e EXCEPT !.tgt = t] \in MapBo
           /\ FlushesElsewhere \/ ZeroCopy(t) = ZeroCopy(e.tgt)
           /\ Listing' /\ Entries' = Others(e.idx) \cup {[e EXCEPT !.tgt = t]}
           /\ UNCHANGED <<setting, context, bound, BufIdx, szUsedBuf, kept, kvm, ptr, maps>>
  BY <1>0, FlushStep
<1> DEFINE f == [e EXCEPT !.tgt = t]
<1>2. f.tgt = t /\ f.ocpy = e.ocpy /\ f = [e EXCEPT !.tgt = f.tgt]
  BY <1>1 DEF MapBo
<1>3. \A x : ZeroCopy(x)' <=> ZeroCopy(x)
  BY <1>1 DEF ZeroCopy
<1>4. Entries' = Others(e.idx) \cup {f} /\ Others(e.idx) \subseteq Entries /\ f \in MapBo
      /\ \A y \in Entries : y \in Others(e.idx) \/ y = e
  <2>1. \A x, y \in Entries : x.idx = y.idx => x = y
    BY <1>0, OneEntryEach DEF Listing
  <2> QED BY <1>1, <2>1 DEF Others
<1>5. \A y \in Entries : y \in MapBo /\ y = [y EXCEPT !.tgt = y.tgt]
  <2>1. \A y \in Entries : y \in MapBo
    BY EntryIsMapBo DEF ListInv
  <2> QED BY <2>1 DEF MapBo
<1> HIDE DEF f
<1>6. KindKept'
  <2>1. ZeroCopy(t) <=> ZeroCopy(e.tgt)
    BY <1>1 DEF FlushesInPlace
  <2>2. f.ocpy <=> ~ZeroCopy(f.tgt)
    BY <1>1, <1>2, <2>1 DEF KindKept
  <2> QED BY <1>3, <1>4, <2>2 DEF KindKept
<1>7. \A x \in Entries' : \E y \in Entries : x = [y EXCEPT !.tgt = x.tgt] /\ y \in MapBo /\ x \in MapBo
  BY <1>1, <1>2, <1>4, <1>5
<1>8. \A y \in Entries : \E x \in Entries' : x = [y EXCEPT !.tgt = x.tgt]
  BY <1>1, <1>2, <1>4, <1>5
<1> QED
  BY <1>1, <1>6, <1>7, <1>8

LEMMA StagedFlush ==
  ASSUME FlushesInPlace, ListInv, Staged, NEW t \in Targets, FlushMappedBufferRange(t)
  PROVE  Staged'
<1>0. context
  BY Zenon DEF FlushMappedBufferRange
<1>1. /\ KindKept' /\ UNCHANGED <<setting, context, szUsedBuf, kept, kvm, ptr>>
      /\ \A x \in Entries' : \E y \in Entries : x = [y EXCEPT !.tgt = x.tgt] /\ y \in MapBo /\ x \in MapBo
  BY <1>0, KindFlush DEF Staged
<1>2. \A y \in MapBo : \A v : LET x == [y EXCEPT !.tgt = v] IN
        x.idx = y.idx /\ x.ocpy = y.ocpy /\ x.gpa = y.gpa /\ x.mused = y.mused /\ x.mapsz = y.mapsz
  BY DEF MapBo
<1>3. \A x \in Entries' : \E y \in Entries :
        /\ x = [y EXCEPT !.tgt = x.tgt]
        /\ x.idx = y.idx /\ x.ocpy = y.ocpy /\ x.gpa = y.gpa /\ x.mused = y.mused /\ x.mapsz = y.mapsz
  <2> SUFFICES ASSUME NEW x \in Entries'
               PROVE \E y \in Entries :
        /\ x = [y EXCEPT !.tgt = x.tgt]
        /\ x.idx = y.idx /\ x.ocpy = y.ocpy /\ x.gpa = y.gpa /\ x.mused = y.mused /\ x.mapsz = y.mapsz
    OBVIOUS
  <2>1. PICK y \in Entries : x = [y EXCEPT !.tgt = x.tgt] /\ y \in MapBo
    BY <1>1
  <2> DEFINE v == x.tgt
  <2>2. x = [y EXCEPT !.tgt = v]
    BY <2>1
  <2> HIDE DEF v
  <2>3. x.idx = y.idx /\ x.ocpy = y.ocpy /\ x.gpa = y.gpa /\ x.mused = y.mused /\ x.mapsz = y.mapsz
    BY <2>1, <2>2, <1>2
  <2> QED BY <2>1, <2>3
<1>4. ASSUME NEW x \in Entries', x.ocpy PROVE InStaging(x)'
  <2>1. PICK y \in Entries : x.idx = y.idx /\ x.ocpy = y.ocpy /\ x.gpa = y.gpa /\ x.mused = y.mused /\ x.mapsz = y.mapsz
    BY <1>3
  <2>2. InStaging(y)
    BY <1>0, <1>4, <2>1 DEF Staged
  <2> QED BY <1>1, <2>1, <2>2 DEF InStaging, AreaStart
<1>5. ASSUME NEW x \in Entries', NEW y \in Entries', x.ocpy, y.ocpy, x # y PROVE Above(x, y) \/ Above(y, x)
  <2>0. Listing' /\ \A u, v \in Entries' : u.idx = v.idx => u = v
    <3>1. Listing
      BY DEF ListInv, TypeInv, TypeOK, Listing
    <3>2. OnceEach(pbufo')
      BY <3>1, FlushStep DEF Listing
    <3>3. \A u, v \in EntriesOf(pbufo') : u.idx = v.idx => u = v
      BY <3>2 DEF OnceEach, EntriesOf
    <3> QED BY <3>1, <3>3, FlushStep DEF Entries
  <2>1. PICK u \in Entries : x.idx = u.idx /\ x.ocpy = u.ocpy /\ x.mused = u.mused /\ x.mapsz = u.mapsz
    BY <1>3
  <2>2. PICK v \in Entries : y.idx = v.idx /\ y.ocpy = v.ocpy /\ y.mused = v.mused /\ y.mapsz = v.mapsz
    BY <1>3
  <2>3. u # v
    BY <1>5, <2>0, <2>1, <2>2
  <2>4. Above(u, v) \/ Above(v, u)
    BY <1>0, <1>5, <2>1, <2>2, <2>3 DEF Staged
  <2> QED BY <2>1, <2>2, <2>4 DEF Above
<1> QED
  BY <1>1, <1>4, <1>5 DEF Staged

LEMMA StagedNext ==
  UnmapsFirst /\ FlushesInPlace /\ StagingFits /\ ListInv /\ Staged /\ [Next]_vars => Staged'
<1> SUFFICES ASSUME UnmapsFirst, FlushesInPlace, StagingFits, ListInv, Staged, [Next]_vars PROVE Staged'
  OBVIOUS
<1>1. pbufo' = pbufo => Entries' = Entries
  BY DEF Entries
<1>2. ASSUME UNCHANGED <<setting, context, pbufo, szUsedBuf, ptr>> PROVE Staged'
  <2>1. Entries' = Entries /\ \A x : ZeroCopy(x)' <=> ZeroCopy(x)
    BY <1>1, <1>2 DEF ZeroCopy
  <2>2. KindKept => KindKept'
    BY <2>1 DEF KindKept
  <2>3. \A x : InStaging(x) => InStaging(x)'
    BY <1>2 DEF InStaging
  <2> QED BY <1>2, <2>1, <2>2, <2>3 DEF Staged
<1>3. ASSUME DeleteContext PROVE Staged'
  BY <1>3 DEF DeleteContext, Staged
<1>4. ASSUME CreateContext PROVE Staged'
  <2>1. Entries' = {}
    BY <1>4 DEF CreateContext, Entries, EntriesOf
  <2> QED BY <2>1 DEF Staged, KindKept
<1>5. ASSUME NEW t \in Targets, NEW b \in Buffers \cup {NoBuffer}, BindBuffer(t, b) PROVE Staged'
  BY <1>2, <1>5 DEF BindBuffer
<1>6. ASSUME NEW b \in Buffers, DeleteBuffer(b) PROVE Staged'
  <2>1. ptr[b] = NoPtr /\ ptr' = [ptr EXCEPT ![b] = NoPtr] /\ UNCHANGED <<setting, context, pbufo, szUsedBuf>>
    BY <1>6 DEF DeleteBuffer, UnmapsFirst
  <2>2. ptr' = ptr
    BY <2>1 DEF ListInv, TypeInv, TypeOK
  <2> QED BY <1>2, <2>1, <2>2
<1>7. ASSUME UNCHANGED vars PROVE Staged'
  BY <1>2, <1>7 DEF vars
<1> QED
  BY <1>3, <1>4, <1>5, <1>6, <1>7, StagedMap, StagedUnmap, StagedFlush DEF Next

\* The areas of two mappings of which one is above the other do not meet.
LEMMA AreasApart ==
  ASSUME ListInv, NEW e \in Entries, NEW f \in Entries, InStaging(e), InStaging(f), Above(e, f)
  PROVE  Area(e) \cap Area(f) = {}
<1>1. /\ FbtAddress \in Nat /\ FbtSize \in Nat
      /\ e.mused \in Nat /\ ALIGNBO(e.mapsz) \in Nat /\ f.mused \in Nat /\ ALIGNBO(f.mapsz) \in Nat
  BY SizeAssumption, EntryIsMapBo, EntryTypes, AlignedUp DEF ListInv
<1>2. AreaStart(e) = FbtSize - e.mused - ALIGNBO(e.mapsz) /\ AreaStart(f) = FbtSize - f.mused - ALIGNBO(f.mapsz)
  BY <1>1 DEF InStaging, AreaStart
<1>3. e.mused + ALIGNBO(e.mapsz) <= f.mused
  BY DEF Above
<1> QED
  BY <1>1, <1>2, <1>3 DEF Area

LEMMA StagedOwn == ListInv /\ Staged => OwnArea
<1> SUFFICES ASSUME ListInv, Staged, NEW k \in OneCopy
             PROVE  /\ ptr[pbufo[k].idx].at = AreaStart(pbufo[k])
                    /\ \A j \in OneCopy : j # k => Area(pbufo[j]) \cap Area(pbufo[k]) = {}
  BY DEF OwnArea
<1>1. \A i \in OneCopy : i \in DOMAIN pbufo /\ pbufo[i] \in Entries /\ pbufo[i].ocpy /\ ptr[pbufo[i].idx] # NoPtr
  BY DEF OneCopy, Entries, EntriesOf
<1>2. context
  <2>1. pbufo[k].idx \in Buffers
    BY <1>1, EntryIsMapBo, EntryTypes DEF ListInv
  <2> QED BY <1>1, <2>1 DEF ListInv, Listed, Mapped
<1>3. \A i \in OneCopy : InStaging(pbufo[i])
  BY <1>1, <1>2 DEF Staged
<1>4. ASSUME NEW j \in OneCopy, j # k PROVE Area(pbufo[j]) \cap Area(pbufo[k]) = {}
  <2>1. pbufo[j] # pbufo[k]
    BY <1>1, <1>4 DEF ListInv, TypeInv, OnceEach
  <2>2. Above(pbufo[j], pbufo[k]) \/ Above(pbufo[k], pbufo[j])
    BY <1>1, <1>2, <2>1 DEF Staged
  <2>3. Area(pbufo[j]) \cap Area(pbufo[k]) = {} \/ Area(pbufo[k]) \cap Area(pbufo[j]) = {}
    BY <1>1, <1>3, <2>2, AreasApart
  <2> QED BY <2>3
<1> QED
  BY <1>3, <1>4 DEF InStaging

\* One-copy mappings have an area of the texture area each, which guest and host
\* take to be at the same place, for any number of mappings unmapped in any order:
\* as long as the staging in use fits in the texture area, the application unmaps
\* buffers before it deletes them and flushes them through a target of the same kind.
THEOREM OwnAreaAlways ==
  UnmapsFirst /\ FlushesInPlace /\ Spec /\ []StagingFits => []OwnArea
<1> SUFFICES ASSUME UnmapsFirst, FlushesInPlace PROVE Spec /\ []StagingFits => []OwnArea
  OBVIOUS
<1>1. Init => Staged
  BY DEF Init, Staged
<1>2. StagingFits /\ ListInv /\ Staged /\ [Next]_vars => Staged'
  BY StagedNext
<1>3. Spec => []ListInv
  BY ListAlways
<1>4. ListInv /\ Staged => OwnArea
  BY StagedOwn
<1> HIDE DEF ListInv, Staged, OwnArea, StagingFits
<1> QED
  BY <1>1, <1>2, <1>3, <1>4, PTL DEF Spec

-----------------------------------------------------------------------------
(* Page boundaries. *)

Whole(a) == a % PageSize = 0

LEMMA WholeTimes ==
  ASSUME NEW P \in Nat \ {0}, NEW q \in Int
  PROVE  (P * q) % P = 0
<1> DEFINE a == P * q
<1>1. a \in Int
  BY SMT
<1>2. a = P * (a \div P) + (a % P) /\ a \div P \in Int /\ a % P \in 0 .. (P - 1)
  <2> HIDE DEF a
  <2> QED BY <1>1, SMT
<1>3. PICK d \in Int : d = q - (a \div P)
  <2> HIDE DEF a
  <2> QED BY <1>2
<1>4. P * d = a % P
  <2>1. PICK c \in Int : c = a \div P
    BY <1>2
  <2>2. PICK r \in Int : r = a % P
    BY <1>2
  <2>3. P * q = P * c + r
    BY <1>2, <2>1, <2>2
  <2>4. d = q - c
    BY <1>3, <2>1
  <2>5. P * (q - c) = P * q - P * c
    BY <2>1, SMT
  <2>6. P * d = r
    BY <2>3, <2>4, <2>5
  <2> QED BY <2>2, <2>6
<1>5. \A i \in Int : (i >= 1 => P * i >= P) /\ (i <= -1 => P * i <= -P)
  BY SMT
<1>6. d = 0
  <2>1. PICK r \in 0 .. (P - 1) : r = a % P
    BY <1>2
  <2>2. P * d = r
    BY <1>4, <2>1
  <2> HIDE DEF a
  <2> QED BY <2>2, <1>3, <1>5
<1> QED
  BY <1>4, <1>6

LEMMA WholeMeans ==
  ASSUME NEW a \in Int
  PROVE  Whole(a) <=> \E q \in Int : a = PageSize * q
<1>1. PageSize \in Nat \ {0}
  BY SizeAssumption
<1>2. a = PageSize * (a \div PageSize) + (a % PageSize) /\ a \div PageSize \in Int
  BY <1>1
<1>3. Whole(a) => a = PageSize * (a \div PageSize)
  BY <1>1, <1>2 DEF Whole
<1>4. ASSUME NEW q \in Int, a = PageSize * q PROVE Whole(a)
  BY <1>1, <1>4, WholeTimes DEF Whole
<1> QED
  BY <1>2, <1>3, <1>4

LEMMA WholeSums ==
  ASSUME NEW a \in Int, NEW b \in Int, Whole(a), Whole(b)
  PROVE  Whole(a + b) /\ Whole(a - b)
<1>1. PICK q \in Int : a = PageSize * q
  BY WholeMeans
<1>2. PICK r \in Int : b = PageSize * r
  BY WholeMeans
<1>3. PageSize \in Nat
  BY SizeAssumption
<1>4. a + b = PageSize * (q + r) /\ a - b = PageSize * (q - r)
  BY <1>1, <1>2, <1>3, SMT
<1>5. q + r \in Int /\ q - r \in Int /\ a + b \in Int /\ a - b \in Int
  OBVIOUS
<1> QED
  BY <1>4, <1>5, WholeMeans


\* PageFloor(a) is the last page boundary that a has reached.
LEMMA WholeFloor ==
  ASSUME NEW a \in Int
  PROVE  /\ PageFloor(a) \in Int /\ Whole(PageFloor(a)) /\ PageFloor(a) <= a
         /\ \A b \in Int : Whole(b) /\ b <= a => b <= PageFloor(a)
<1>1. PageSize \in Nat \ {0}
  BY SizeAssumption
<1>2. PICK q \in Int : q = a \div PageSize
  BY <1>1
<1>3. a = PageSize * q + (a % PageSize) /\ a % PageSize \in 0 .. (PageSize - 1) /\ PageSize * q \in Int
  BY <1>1, <1>2
<1>4. PageFloor(a) = PageSize * q
  BY <1>3 DEF PageFloor
<1>5. ASSUME NEW b \in Int, Whole(b), b <= a PROVE b <= PageFloor(a)
  <2>1. PICK d \in Int : b = PageSize * d
    BY <1>5, WholeMeans
  <2>2. PageSize * d < PageSize * q + PageSize
    BY <1>1, <1>3, <1>5, <2>1
  <2>3. d >= q + 1 => PageSize * d >= PageSize * (q + 1)
    BY <1>1, SMT
  <2>4. PageSize * (q + 1) = PageSize * q + PageSize
    BY <1>1, SMT
  <2>5. d <= q
    BY <1>1, <2>2, <2>3, <2>4
  <2>6. PageSize * d <= PageSize * q
    BY <1>1, <2>5, SMT
  <2> QED BY <1>4, <2>1, <2>6
<1>6. Whole(PageFloor(a))
  BY <1>3, <1>4, WholeMeans
<1> QED
  BY <1>3, <1>4, <1>5, <1>6, PageTypes

\* What is at a page boundary has no offset, and nothing else has none.
LEMMA WholePage ==
  ASSUME NEW a \in Int, Whole(a)
  PROVE  PageFloor(a) = a /\ PageOffset(a) = 0
BY DEF Whole, PageFloor, PageOffset

LEMMA FloorSum ==
  ASSUME NEW a \in Int, NEW b \in Int
  PROVE  PageFloor(a) + PageFloor(b) <= PageFloor(a + b)
<1>1. /\ PageFloor(a) \in Int /\ Whole(PageFloor(a)) /\ PageFloor(a) <= a
      /\ PageFloor(b) \in Int /\ Whole(PageFloor(b)) /\ PageFloor(b) <= b
  BY WholeFloor
<1>2. Whole(PageFloor(a) + PageFloor(b))
  BY <1>1, WholeSums
<1>3. a + b \in Int /\ PageFloor(a) + PageFloor(b) \in Int /\ PageFloor(a) + PageFloor(b) <= a + b
  BY <1>1
<1> QED BY <1>2, <1>3, WholeFloor

\* From a page boundary on, the offset in the page is counted anew.
LEMMA OffsetFrom ==
  ASSUME NEW a \in Int, NEW b \in Int, Whole(a), b \in 0 .. (PageSize - 1)
  PROVE  PageFloor(a + b) = a /\ PageOffset(a + b) = b
<1>1. PageFloor(a + b) >= a
  BY WholeFloor
<1>2. PageSize \in Nat \ {0} /\ a + b \in Int
  BY SizeAssumption
<1>3. PageFloor(a + b) \in Int /\ Whole(PageFloor(a + b)) /\ PageFloor(a + b) <= a + b
  BY <1>2, WholeFloor
<1>4. PICK q \in Int : a = PageSize * q
  BY WholeMeans
<1>5. PICK d \in Int : PageFloor(a + b) = PageSize * d
  BY <1>3, WholeMeans
<1>6. PageSize * d < PageSize * q + PageSize /\ PageSize * d >= PageSize * q
  BY <1>1, <1>2, <1>3, <1>4, <1>5
<1>7. (d >= q + 1 => PageSize * d >= PageSize * (q + 1)) /\ PageSize * (q + 1) = PageSize * q + PageSize
  BY <1>2, SMT
<1>8. d <= q => PageSize * d <= PageSize * q
  BY <1>2, SMT
<1>9. PageSize * d = PageSize * q
  BY <1>2, <1>6, <1>7, <1>8
<1>10. PageFloor(a + b) = a
  BY <1>4, <1>5, <1>9
<1>11. PageFloor(a + b) = (a + b) - PageOffset(a + b) /\ PageOffset(a + b) \in Nat
  BY <1>2, PageTypes DEF PageFloor, PageOffset
<1> QED BY <1>2, <1>10, <1>11

\* The window is a number of pages: the natural place of an address has its offset.
LEMMA NaturalOffset ==
  ASSUME NEW h \in Nat
  PROVE  PageOffset(h % MbufoSize) = PageOffset(h) /\ h % MbufoSize \in 0 .. (MbufoSize - 1)
<1>1. MbufoSize \in Nat \ {0} /\ PageSize \in Nat \ {0} /\ Whole(MbufoSize) /\ MbufoSize \in Int
  BY SizeAssumption DEF Whole
<1>2. h = MbufoSize * (h \div MbufoSize) + (h % MbufoSize) /\ h \div MbufoSize \in Int
      /\ h % MbufoSize \in 0 .. (MbufoSize - 1)
  BY <1>1
<1>3. PICK k \in Int : MbufoSize = PageSize * k
  BY <1>1, WholeMeans
<1>4. PICK d \in Int : d = h \div MbufoSize
  BY <1>2
<1>5. MbufoSize * d = PageSize * (k * d) /\ k * d \in Int /\ MbufoSize * d \in Int
  BY <1>1, <1>3, SMT
<1>6. Whole(MbufoSize * d)
  BY <1>5, WholeMeans
<1> DEFINE x == h % MbufoSize
           c == MbufoSize * d
<1>7. x \in Int /\ c \in Int /\ h = c + x /\ Whole(c)
  BY <1>2, <1>4, <1>5, <1>6
<1> HIDE DEF x, c
<1>8. /\ PageFloor(x) \in Int /\ Whole(PageFloor(x)) /\ PageOffset(x) \in Nat
      /\ x = PageFloor(x) + PageOffset(x) /\ PageOffset(x) \in 0 .. (PageSize - 1)
  <2>1. PageFloor(x) \in Int /\ PageOffset(x) \in Nat /\ x < PageFloor(x) + PageSize /\ PageSize \in Nat
    BY <1>1, <1>7, PageTypes
  <2>2. PageFloor(x) = x - PageOffset(x)
    BY DEF PageFloor, PageOffset
  <2> QED BY <2>1, <2>2, <1>7, WholeFloor
<1>9. Whole(c + PageFloor(x)) /\ c + PageFloor(x) \in Int /\ h = (c + PageFloor(x)) + PageOffset(x)
  <2>1. Whole(c + PageFloor(x))
    BY <1>7, <1>8, WholeSums
  <2>2. \A u, v, w \in Int : h = u + (v + w) => h = (u + v) + w
    OBVIOUS
  <2> QED BY <2>1, <2>2, <1>7, <1>8
<1>10. PageOffset((c + PageFloor(x)) + PageOffset(x)) = PageOffset(x)
  BY <1>8, <1>9, OffsetFrom
<1> QED BY <1>2, <1>9, <1>10 DEF x

-----------------------------------------------------------------------------
(* Where MapBufObjGpa puts a mapping, next to those before it. *)

\* Of two regions one ends, but for a page that it does not fill, before the other.
Beside(r, s) == WholeEnd(r) <= s.ga \/ WholeEnd(s) <= r.ga

\* A region fills a page at least.
Filled(r) == PageFloor(r.size) > 0

LEMMA RegionPlace ==
  ASSUME NEW e \in MapBo, ~e.ocpy
  PROVE  /\ RegionOf(e).ga = PageFloor(e.gpa) /\ RegionOf(e).ha = PageFloor(e.hva)
         /\ RegionOf(e).size = e.mapsz + PageOffset(e.hva)
         /\ WholeEnd(RegionOf(e)) \in Int
         /\ WholeEnd(RegionOf(e)) = PageFloor(e.gpa) + PageFloor(e.mapsz + PageOffset(e.hva))
<1>1. /\ e.gpa \in 0 .. (MbufoSize - 1) /\ e.hva \in Int /\ e.mapsz \in Nat /\ MbufoSize \in Nat \ {0}
  BY EntryTypes, SizeAssumption
<1>2. e.gpa % MbufoSize = e.gpa
  BY <1>1
<1>3. /\ RegionOf(e).ga = PageFloor(e.gpa) /\ RegionOf(e).ha = PageFloor(e.hva)
      /\ RegionOf(e).size = e.mapsz + PageOffset(e.hva)
  BY <1>2 DEF RegionOf
<1>4. PageOffset(e.hva) \in Nat /\ PageFloor(e.gpa) \in Int
  BY <1>1, PageTypes
<1>5. PageFloor(e.mapsz + PageOffset(e.hva)) \in Int
  BY <1>1, <1>4, PageTypes
<1> QED
  BY <1>3, <1>4, <1>5 DEF WholeEnd

\* Two regions that lie beside each other do not begin at the same place.
LEMMA BesideDiffer ==
  ASSUME NEW r \in Region, NEW s \in Region, Filled(r), Filled(s), Beside(r, s)
  PROVE  r.ga # s.ga /\ r # s
<1>1. r.ga \in Nat /\ s.ga \in Nat /\ r.size \in Int /\ s.size \in Int
  BY DEF Region
<1>2. PageFloor(r.size) \in Int /\ PageFloor(s.size) \in Int
  BY <1>1, PageTypes
<1> QED BY <1>1, <1>2 DEF Filled, Beside, WholeEnd

\* A mapping that has found a place lies beside every one before it in the list,
\* however many these are and wherever they are.
LEMMA PlacedBeside ==
  ASSUME NEW list \in Seq(MapBo), NEW hva \in Hvas, NEW size \in Sizes, HasPlace(list, hva, size),
         NEW e \in MapBo, ~e.ocpy, e.hva = hva, e.mapsz = size, e.gpa = MapBufObjGpa(list, hva, size),
         NEW k \in DOMAIN list, ~list[k].ocpy
  PROVE  Beside(RegionOf(list[k]), RegionOf(e))
<1> DEFINE f == list[k]
           x == hva % MbufoSize
           need == ALIGNBO(size) + PageOffset(hva)
           lo == Lowest(list)
           hi == Highest(list)
           p == e.gpa
           n == size + PageOffset(hva)
           m == f.mapsz + PageOffset(f.hva)
<1>1. /\ hva \in Nat /\ hva \in Int /\ size \in Nat /\ MbufoSize \in Nat \ {0} /\ x \in Int
      /\ f \in MapBo /\ p \in Int
  BY SizeAssumption, EntryTypes, ElementOfSeq
<1>2. n \in Int /\ need \in Int /\ n <= need
  <2>1. ALIGNBO(size) \in Nat /\ size <= ALIGNBO(size) /\ PageOffset(hva) \in Nat
    BY <1>1, AlignedUp, PageTypes
  <2> QED BY <2>1, <1>1
<1>3. f.gpa \in Int /\ m \in Int
  <2>1. f.gpa \in Int /\ f.mapsz \in Nat /\ f.hva \in Int
    BY <1>1, EntryTypes
  <2>2. PageOffset(f.hva) \in Nat
    BY <2>1, PageTypes
  <2> QED BY <2>1, <2>2
<1>4. lo \in Int /\ lo <= PageFloor(f.gpa) /\ hi \in Int /\ hi >= PageFloor(f.gpa + m)
  <2>1. lo \in Int /\ lo <= PageFloor(f.gpa) /\ hi \in Int
        /\ hi >= PageFloor(f.gpa + f.mapsz + PageOffset(f.hva))
    BY StretchTypes
  <2>2. f.gpa + f.mapsz + PageOffset(f.hva) = f.gpa + m
    <3>1. f.gpa \in Int /\ f.mapsz \in Nat /\ f.hva \in Int
      BY <1>1, EntryTypes
    <3>2. PageOffset(f.hva) \in Nat
      BY <3>1, PageTypes
    <3> QED BY <3>1, <3>2
  <2> QED BY <2>1, <2>2
<1>5. Whole(hi)
  <2>1. hi = 0 \/ \E j \in DOMAIN list : hi = PageFloor(list[j].gpa + list[j].mapsz + PageOffset(list[j].hva))
    BY StretchTypes
  <2>2. Whole(0)
    BY SizeAssumption DEF Whole
  <2>3. ASSUME NEW j \in DOMAIN list
        PROVE  Whole(PageFloor(list[j].gpa + list[j].mapsz + PageOffset(list[j].hva)))
    <3>1. list[j] \in MapBo
      BY ElementOfSeq
    <3>2. list[j].gpa \in Int /\ list[j].mapsz \in Nat /\ list[j].hva \in Int
      BY <3>1, EntryTypes
    <3>3. PageOffset(list[j].hva) \in Nat
      BY <3>2, PageTypes
    <3>4. list[j].gpa + list[j].mapsz + PageOffset(list[j].hva) \in Int
      BY <3>2, <3>3
    <3> QED BY <3>4, WholeFloor
  <2> QED BY <2>1, <2>2, <2>3
<1>6. list # <<>>
  OBVIOUS
<1>7. p = (IF list = <<>> \/ x + need < lo \/ x >= hi THEN x
           ELSE IF lo > need THEN lo - need
           ELSE IF hi + need < MbufoSize THEN hi
           ELSE 0)
  BY Zenon DEF MapBufObjGpa
<1>8. x + need < lo \/ x >= hi \/ lo > need \/ hi + need < MbufoSize
  BY <1>6, Zenon DEF HasPlace
<1>9. /\ PageFloor(p) \in Int /\ PageFloor(p) <= p /\ (hi <= p => hi <= PageFloor(p))
      /\ PageFloor(n) \in Int /\ PageFloor(n) <= n
      /\ PageFloor(f.gpa) \in Int /\ PageFloor(m) \in Int
      /\ PageFloor(f.gpa + m) \in Int /\ PageFloor(f.gpa) + PageFloor(m) <= PageFloor(f.gpa + m)
  <2> HIDE DEF hi, p, n, m, f
  <2>1. f.gpa + m \in Int
    BY <1>3
  <2> QED BY <2>1, <1>1, <1>2, <1>3, <1>4, <1>5, WholeFloor, FloorSum
<1>10. /\ RegionOf(f).ga = PageFloor(f.gpa) /\ WholeEnd(RegionOf(f)) = PageFloor(f.gpa) + PageFloor(m)
       /\ RegionOf(e).ga = PageFloor(p) /\ WholeEnd(RegionOf(e)) = PageFloor(p) + PageFloor(n)
  BY <1>1, RegionPlace
<1> HIDE DEF hi, lo, p, n, m, f, x, need
<1>11. p + n <= lo \/ hi <= p
  BY <1>1, <1>2, <1>4, <1>6, <1>7, <1>8
<1>12. PageFloor(p) + PageFloor(n) <= PageFloor(f.gpa) \/ PageFloor(f.gpa) + PageFloor(m) <= PageFloor(p)
  BY <1>1, <1>2, <1>4, <1>9, <1>11
<1>13. Beside(RegionOf(f), RegionOf(e))
  BY <1>10, <1>12 DEF Beside
<1> QED BY <1>13 DEF f

-----------------------------------------------------------------------------
(* The regions standing: those of the zero-copy mappings, and the kept one. *)

UnmapsAll == ~EndsMapped

\* What the regions need of the application.
Orderly == UnmapsFirst /\ UnmapsAll /\ FlushesInPlace

\* The mappings that have a region.
Live == {e \in Entries : ~e.ocpy}

LiveRegions == {RegionOf(e) : e \in Live}

\* A mapping fills a page at least.  Of two smaller ones, on one page, KVM would
\* remove both for either.
FullPages == \A h \in Hvas, n \in Sizes : PageOffset(h) + n >= PageSize

\* No region begins in the pages that another one fills.
Separate == \A e, f \in Live : e # f => Beside(RegionOf(e), RegionOf(f))

KeptBeside ==
  kept.standing =>
    /\ setting.keep /\ kept.region \in Region /\ Filled(kept.region)
    /\ \A e \in Live : Beside(RegionOf(e), kept.region)

KvmInv ==
  /\ ~context => Entries = {}
  /\ KindKept
  /\ kvm = LiveRegions \cup (IF kept.standing THEN {kept.region} ELSE {})
  /\ \A e \in Live : Filled(RegionOf(e))
  /\ Separate
  /\ KeptBeside

LEMMA LiveRegion ==
  ASSUME ListInv, KvmInv, NEW e \in Live
  PROVE  e \in MapBo /\ e \in Entries /\ RegionOf(e) \in Region /\ Filled(RegionOf(e))
BY EntryIsMapBo, RegionTypes DEF Live, ListInv, KvmInv

\* Removing a region leaves those that begin elsewhere.
LEMMA KvmKeeps ==
  ASSUME NEW r, NEW s \in kvm, s.ga # r.ga
  PROVE  s \in KvmRemoved(r)
BY DEF KvmRemoved

\* What stands beside a mapping's region is left when that is removed, and the
\* other way round.
LEMMA BesideKept ==
  ASSUME NEW r \in Region, NEW s \in Region, Filled(r), Filled(s), Beside(r, s)
  PROVE  /\ s \in kvm => s \in KvmRemoved(r)
         /\ r \in kvm => r \in KvmRemoved(s)
BY BesideDiffer, KvmKeeps

LEMMA WithoutKeptIs ==
  ASSUME ListInv, KvmInv
  PROVE  WithoutKept = LiveRegions
<1>1. kvm = LiveRegions \cup (IF kept.standing THEN {kept.region} ELSE {})
  BY DEF KvmInv
<1>2. CASE ~kept.standing
  BY <1>1, <1>2 DEF WithoutKept
<1>3. CASE kept.standing
  <2>1. WithoutKept = KvmRemoved(kept.region)
    BY <1>3 DEF WithoutKept
  <2>2. kvm = LiveRegions \cup {kept.region}
    BY <1>1, <1>3
  <2>3. ASSUME NEW s \in LiveRegions PROVE s \in KvmRemoved(kept.region)
    <3>1. PICK e \in Live : s = RegionOf(e)
      BY DEF LiveRegions
    <3>2. s \in Region /\ Filled(s)
      BY <3>1, LiveRegion
    <3>3. Beside(s, kept.region) /\ kept.region \in Region /\ Filled(kept.region)
      BY <3>1, <1>3 DEF KvmInv, KeptBeside
    <3> QED BY <2>2, <3>2, <3>3, BesideKept
  <2>4. kept.region \notin KvmRemoved(kept.region)
    BY DEF KvmRemoved
  <2>5. KvmRemoved(kept.region) \subseteq kvm
    BY DEF KvmRemoved
  <2> QED BY <2>1, <2>2, <2>3, <2>4, <2>5
<1> QED
  BY <1>2, <1>3

LEMMA NotKeptIs ==
  ASSUME TypeInv
  PROVE  NotKept.standing = FALSE /\ NotKept.region = kept.region
BY DEF TypeInv, TypeOK, NotKept

\* A new mapping's region fills a page and lies beside those of the others.
LEMMA MapBeside ==
  ASSUME FullPages, RoomFound', ListInv,
         NEW t \in Targets, NEW hva \in Hvas, NEW size \in Sizes, NEW e \in MapBo,
         ZeroCopy(t), e.hva = hva, e.mapsz = size, ~e.ocpy, e.gpa = MapBufObjGpa(pbufo, hva, size),
         pbufo' = Append(pbufo, e)
  PROVE  Filled(RegionOf(e)) /\ \A f \in Live : Beside(RegionOf(f), RegionOf(e))
<1>1. pbufo \in Seq(MapBo) /\ Len(pbufo) \in Nat
  BY DEF ListInv, TypeInv, TypeOK
<1>2. Filled(RegionOf(e))
  <2>1. hva \in Int /\ size \in Nat /\ PageSize \in Nat
    BY SizeAssumption
  <2>2. PageOffset(hva) \in Nat /\ PageOffset(hva) + size >= PageSize
    BY <2>1, PageTypes DEF FullPages
  <2> DEFINE n == size + PageOffset(hva)
  <2>3. n \in Int /\ n >= PageSize
    BY <2>1, <2>2
  <2> HIDE DEF n
  <2>4. PageFloor(n) \in Int /\ n < PageFloor(n) + PageSize
    BY <2>3, PageTypes
  <2>5. PageFloor(n) > 0
    BY <2>1, <2>3, <2>4
  <2> QED BY <2>5 DEF Filled, RegionOf, n
<1>3. HasPlace(pbufo, hva, size)
  <2> DEFINE k == Len(pbufo) + 1
             l == Append(pbufo, e)
  <2>1. l \in Seq(MapBo) /\ k \in DOMAIN l /\ l[k] = e /\ k - 1 = Len(pbufo)
    BY <1>1
  <2>2. SubSeq(l, 1, k - 1) = pbufo
    <3>1. Len(SubSeq(l, 1, Len(pbufo))) = Len(pbufo)
          /\ \A i \in 1 .. Len(pbufo) : SubSeq(l, 1, Len(pbufo))[i] = pbufo[i]
      BY <1>1
    <3>2. SubSeq(l, 1, Len(pbufo)) \in Seq(MapBo)
      BY <1>1
    <3>3. SubSeq(l, 1, Len(pbufo)) = pbufo
      <4> HIDE DEF l
      <4> QED BY <1>1, <3>1, <3>2, SeqEqual
    <3> QED BY <2>1, <3>3
  <2>3. \A i \in DOMAIN l : ~l[i].ocpy => HasPlace(SubSeq(l, 1, i - 1), l[i].hva, l[i].mapsz)
    BY DEF RoomFound, HasPlace, Lowest, Highest
  <2> HIDE DEF k, l
  <2> QED BY <2>1, <2>2, <2>3
<1>4. ASSUME NEW f \in Live PROVE Beside(RegionOf(f), RegionOf(e))
  <2>1. PICK k \in DOMAIN pbufo : f = pbufo[k]
    BY DEF Live, Entries, EntriesOf
  <2> QED BY <1>1, <1>3, <2>1, PlacedBeside DEF Live
<1> QED BY <1>2, <1>4

LEMMA KvmMap ==
  ASSUME FullPages, RoomFound', ListInv, KvmInv,
         NEW t \in Targets, NEW hva \in Hvas, NEW size \in Sizes, NEW write \in BOOLEAN,
         MapBuffer(t, hva, size, write)
  PROVE  KvmInv'
<1>1. PICK b \in Buffers, e \in MapBo :
           /\ context
           /\ e.tgt = t /\ e.hva = hva /\ e.mapsz = size /\ (e.ocpy <=> ~ZeroCopy(t))
           /\ e.gpa = IF ZeroCopy(t) THEN MapBufObjGpa(pbufo, hva, size)
                      ELSE FbtAddress + FbtSize - SZFBT_VALID(szUsedBuf, hva)
           /\ Entries' = Entries \cup {e} /\ pbufo' = Append(pbufo, e)
           /\ \/ ZeroCopy(t) /\ AddRegion(RegionOf(e))
              \/ ~ZeroCopy(t) /\ UNCHANGED <<kept, kvm>>
           /\ UNCHANGED <<setting, context>>
  BY MapAdds
<1>2. \A x : ZeroCopy(x)' <=> ZeroCopy(x)
  BY <1>1 DEF ZeroCopy
<1>3. KindKept'
  BY <1>1, <1>2 DEF KindKept, KvmInv
<1>4. CASE ~ZeroCopy(t)
  <2>1. Live' = Live
    BY <1>1, <1>4 DEF Live
  <2>2. LiveRegions' = LiveRegions
    BY <2>1 DEF LiveRegions
  <2>3. UNCHANGED <<kept, kvm, setting, context>> /\ context
    BY <1>1, <1>4
  <2>4. KeptBeside' /\ Separate' /\ \A x \in Live' : Filled(RegionOf(x))
    BY <2>1, <2>3 DEF KeptBeside, Separate, KvmInv
  <2> QED BY <1>3, <2>2, <2>3, <2>4 DEF KvmInv
<1>5. CASE ZeroCopy(t)
  <2> DEFINE r == RegionOf(e)
  <2>0. Filled(r) /\ \A f \in Live : Beside(RegionOf(f), r)
    BY <1>1, <1>5, MapBeside
  <2>1. Live' = Live \cup {e}
    BY <1>1, <1>5 DEF Live
  <2>2. LiveRegions' = LiveRegions \cup {r}
    BY <2>1 DEF LiveRegions
  <2>3. AddRegion(r)
    BY <1>1, <1>5
  <2>4. Separate' /\ \A x \in Live' : Filled(RegionOf(x))
    <3>1. \A f \in Live : Beside(r, RegionOf(f))
      BY <2>0 DEF Beside
    <3> QED BY <2>0, <2>1, <3>1 DEF Separate, KvmInv
  <2> HIDE DEF r
  <2>5. WithoutKept = LiveRegions /\ ~NotKept.standing
    BY WithoutKeptIs, NotKeptIs DEF ListInv
  <2>6. kvm = LiveRegions \cup (IF kept.standing THEN {kept.region} ELSE {})
    BY DEF KvmInv
  <2>7. CASE setting.keep
    <3>1. kept' = NotKept /\ kvm' = Replaced(r)
      BY <2>3, <2>7 DEF AddRegion
    <3>2. Replaced(r) = LiveRegions \cup {r}
      BY <2>5, <2>6 DEF Replaced, IsKept
    <3> QED BY <3>1, <3>2, <2>2, <2>4, <2>5, <1>1, <1>3 DEF KvmInv, KeptBeside
  <2>8. CASE ~setting.keep
    <3>1. kept' = kept /\ kvm' = kvm \cup {r}
      BY <2>3, <2>8 DEF AddRegion
    <3>2. ~kept.standing
      BY <2>8 DEF KvmInv, KeptBeside
    <3> QED BY <3>1, <3>2, <2>2, <2>4, <2>6, <1>1, <1>3 DEF KvmInv, KeptBeside
  <2> QED BY <2>7, <2>8
<1> QED
  BY <1>4, <1>5

LEMMA KvmUnmap ==
  ASSUME ListInv, KvmInv, NEW t \in Targets, UnmapBuffer(t)
  PROVE  KvmInv'
<1>0. Listing
  BY DEF ListInv, TypeInv, TypeOK, Listing
<1>1. PICK e \in Entries :
           /\ context /\ e \in MapBo /\ e.idx \in Buffers
           /\ Listing' /\ Entries' = Others(e.idx)
           /\ IF ZeroCopy(e.tgt) THEN RemoveRegion(RegionOf(e), e.idx) ELSE UNCHANGED <<kept, kvm>>
           /\ UNCHANGED <<setting, context, bound, BufIdx, maps>>
  BY <1>0, UnmapStep
<1>2. \A x : ZeroCopy(x)' <=> ZeroCopy(x)
  BY <1>1 DEF ZeroCopy
<1>3. Entries' = Entries \ {e}
  <2>1. \A x, y \in Entries : x.idx = y.idx => x = y
    BY <1>0, OneEntryEach DEF Listing
  <2> QED BY <1>1, <2>1 DEF Others
<1>4. KindKept'
  BY <1>1, <1>2, <1>3 DEF KindKept, KvmInv
<1>5. e.ocpy <=> ~ZeroCopy(e.tgt)
  BY DEF KvmInv, KindKept
<1>6. Live' = Live \ {e}
  BY <1>3 DEF Live
<1>9. Separate' /\ \A x \in Live' : Filled(RegionOf(x))
  BY <1>6 DEF Separate, KvmInv
<1>7. CASE ~ZeroCopy(e.tgt)
  <2>1. Live' = Live
    BY <1>5, <1>6, <1>7 DEF Live
  <2>2. LiveRegions' = LiveRegions
    BY <2>1 DEF LiveRegions
  <2>3. UNCHANGED <<kept, kvm, setting, context>> /\ context
    BY <1>1, <1>7
  <2>4. KeptBeside'
    BY <2>1, <2>3 DEF KeptBeside, KvmInv
  <2> QED BY <1>4, <1>9, <2>2, <2>3, <2>4 DEF KvmInv
<1>8. CASE ZeroCopy(e.tgt)
  <2> DEFINE r == RegionOf(e)
             b == e.idx
  <2>1. e \in Live /\ r \in LiveRegions /\ r \in Region /\ Filled(r)
    BY <1>5, <1>8, LiveRegion DEF Live, LiveRegions
  <2>2. \A f \in Live \ {e} : Beside(RegionOf(f), r)
    BY <2>1 DEF KvmInv, Separate
  <2>3. \A f \in Live \ {e} : RegionOf(f) # r /\ RegionOf(f).ga # r.ga
    <3> HIDE DEF r
    <3> QED BY <2>1, <2>2, LiveRegion, BesideDiffer
  <2>4. LiveRegions' = LiveRegions \ {r}
    <3>1. LiveRegions' = {RegionOf(f) : f \in Live \ {e}}
      BY <1>6 DEF LiveRegions
    <3>2. LiveRegions = {RegionOf(f) : f \in Live}
      BY DEF LiveRegions
    <3> QED BY <2>1, <2>3, <3>1, <3>2
  <2>5. RemoveRegion(r, b)
    BY <1>1, <1>8
  <2>6. WithoutKept = LiveRegions
    BY WithoutKeptIs
  <2>7. CASE setting.keep
    <3>1. kept' = [standing |-> TRUE, region |-> r, idx |-> b] /\ kvm' = WithoutKept
      BY <2>5, <2>7 DEF RemoveRegion
    <3> HIDE DEF r, b
    <3>2. kept'.standing = TRUE /\ kept'.region = r
      BY <3>1
    <3>3. KeptBeside'
      BY <3>2, <2>1, <2>2, <2>7, <1>1, <1>6 DEF KeptBeside
    <3>4. kvm' = LiveRegions' \cup {r}
      BY <3>1, <2>1, <2>4, <2>6
    <3> QED BY <3>2, <3>3, <3>4, <1>1, <1>4, <1>9 DEF KvmInv
  <2>8. CASE ~setting.keep
    <3>1. kept' = kept /\ kvm' = KvmRemoved(r)
      BY <2>5, <2>8 DEF RemoveRegion
    <3>2. ~kept.standing /\ kvm = LiveRegions
      BY <2>8 DEF KvmInv, KeptBeside
    <3>3. KvmRemoved(r) = LiveRegions \ {r}
      <4>1. ASSUME NEW s \in LiveRegions, s # r PROVE s \in KvmRemoved(r)
        <5>1. PICK f \in Live : s = RegionOf(f)
          BY DEF LiveRegions
        <5>2. f # e
          BY <4>1, <5>1
        <5>3. s.ga # r.ga
          BY <2>3, <5>1, <5>2
        <5> HIDE DEF r
        <5> QED BY <3>2, <5>3, KvmKeeps
      <4>2. r \notin KvmRemoved(r) /\ KvmRemoved(r) \subseteq kvm
        BY DEF KvmRemoved
      <4> HIDE DEF r
      <4> QED BY <4>1, <4>2, <3>2
    <3> HIDE DEF r
    <3> QED BY <3>1, <3>2, <3>3, <2>4, <1>1, <1>4, <1>9 DEF KvmInv, KeptBeside
  <2> QED BY <2>7, <2>8
<1> QED
  BY <1>7, <1>8

LEMMA KvmFlush ==
  ASSUME FlushesInPlace, ListInv, KvmInv, NEW t \in Targets, FlushMappedBufferRange(t)
  PROVE  KvmInv'
<1>1. /\ KindKept' /\ context /\ UNCHANGED <<setting, context, szUsedBuf, kept, kvm, ptr>>
      /\ \A x \in Entries' : \E y \in Entries : x = [y EXCEPT !.tgt = x.tgt] /\ y \in MapBo /\ x \in MapBo
      /\ \A y \in Entries : \E x \in Entries' : x = [y EXCEPT !.tgt = x.tgt]
  BY KindFlush DEF KvmInv
<1>2. ASSUME NEW y \in MapBo, NEW v
      PROVE  LET x == [y EXCEPT !.tgt = v] IN
             x.ocpy = y.ocpy /\ x.idx = y.idx /\ RegionOf(x) = RegionOf(y)
  BY DEF MapBo, RegionOf
<1>3. \A y \in Entries : y \in MapBo
  BY EntryIsMapBo DEF ListInv
<1>4. ASSUME NEW x \in Live' PROVE \E y \in Live : RegionOf(x) = RegionOf(y) /\ x.idx = y.idx
  <2>1. PICK y \in Entries : x = [y EXCEPT !.tgt = x.tgt]
    BY <1>1 DEF Live
  <2> DEFINE v == x.tgt
  <2>2. x = [y EXCEPT !.tgt = v]
    BY <2>1
  <2> HIDE DEF v
  <2>3. x.ocpy = y.ocpy /\ RegionOf(x) = RegionOf(y) /\ x.idx = y.idx
    BY <2>2, <1>2, <1>3
  <2> QED BY <2>3 DEF Live
<1>5. ASSUME NEW y \in Live PROVE \E x \in Live' : RegionOf(x) = RegionOf(y)
  <2>0. y \in Entries /\ y \in MapBo
    BY <1>3 DEF Live
  <2>1. PICK x \in Entries' : x = [y EXCEPT !.tgt = x.tgt]
    BY <1>1, <2>0
  <2> DEFINE v == x.tgt
  <2>2. x = [y EXCEPT !.tgt = v]
    BY <2>1
  <2> HIDE DEF v
  <2>3. x.ocpy = y.ocpy /\ RegionOf(x) = RegionOf(y)
    BY <2>0, <2>2, <1>2
  <2> QED BY <2>3 DEF Live
<1>6. LiveRegions' = LiveRegions
  <2>1. LiveRegions' \subseteq LiveRegions
    BY <1>4 DEF LiveRegions
  <2>2. LiveRegions \subseteq LiveRegions'
    BY <1>5 DEF LiveRegions
  <2> QED BY <2>1, <2>2
<1>7. KeptBeside'
  <2> SUFFICES ASSUME kept'.standing
               PROVE  /\ setting'.keep /\ kept'.region \in Region /\ Filled(kept'.region)
                      /\ \A x \in Live' : Beside(RegionOf(x), kept'.region)
    BY DEF KeptBeside
  <2>1. kept' = kept /\ setting' = setting
    BY <1>1
  <2>2. /\ setting.keep /\ kept.region \in Region /\ Filled(kept.region)
        /\ \A y \in Live : Beside(RegionOf(y), kept.region)
    BY <2>1 DEF KvmInv, KeptBeside
  <2>3. ASSUME NEW x \in Live' PROVE Beside(RegionOf(x), kept'.region)
    <3>1. PICK y \in Live : RegionOf(x) = RegionOf(y)
      BY <1>4
    <3> QED BY <3>1, <2>1, <2>2
  <2> QED BY <2>1, <2>2, <2>3
<1>8. \A x \in Live' : Filled(RegionOf(x))
  BY <1>4 DEF KvmInv
<1>9. Separate'
  <2>1. OnceEach(pbufo')
    BY FlushStep DEF Listing, ListInv, TypeInv, TypeOK
  <2>2. \A u, v \in Entries' : u.idx = v.idx => u = v
    BY <2>1 DEF OnceEach, EntriesOf, Entries
  <2>3. ASSUME NEW x \in Live', NEW z \in Live', x # z PROVE Beside(RegionOf(x), RegionOf(z))
    <3>1. x \in Entries' /\ z \in Entries'
      BY DEF Live
    <3>2. PICK u \in Live : RegionOf(x) = RegionOf(u) /\ x.idx = u.idx
      BY <1>4
    <3>3. PICK v \in Live : RegionOf(z) = RegionOf(v) /\ z.idx = v.idx
      BY <1>4
    <3>4. u # v
      BY <2>2, <2>3, <3>1, <3>2, <3>3
    <3> QED BY <3>2, <3>3, <3>4 DEF KvmInv, Separate
  <2> QED BY <2>3 DEF Separate
<1> QED
  BY <1>1, <1>6, <1>7, <1>8, <1>9 DEF KvmInv

\* Forgetting and removing the kept region leaves those of the mappings.
LEMMA KvmDropKept ==
  ASSUME ListInv, KvmInv, kept' = NotKept, kvm' = WithoutKept, Entries' = Entries,
         UNCHANGED setting, ~context' => Entries = {}
  PROVE  KvmInv'
<1>1. WithoutKept = LiveRegions /\ ~NotKept.standing
  BY WithoutKeptIs, NotKeptIs DEF ListInv
<1>2. Live' = Live
  BY DEF Live
<1>3. LiveRegions' = LiveRegions
  BY <1>2 DEF LiveRegions
<1>4. KindKept'
  BY DEF KvmInv, KindKept, ZeroCopy
<1> QED
  BY <1>1, <1>2, <1>3, <1>4 DEF KvmInv, KeptBeside, Separate

LEMMA KvmSame ==
  ASSUME KvmInv, UNCHANGED <<setting, context, pbufo, kept, kvm>>
  PROVE  KvmInv'
<1>1. Entries' = Entries
  BY DEF Entries
<1>2. Live' = Live
  BY <1>1 DEF Live
<1>3. LiveRegions' = LiveRegions
  BY <1>2 DEF LiveRegions
<1>4. KindKept'
  BY <1>1 DEF KvmInv, KindKept, ZeroCopy
<1>5. KeptBeside'
  BY <1>2 DEF KvmInv, KeptBeside
<1> QED
  BY <1>1, <1>2, <1>3, <1>4, <1>5 DEF KvmInv, Separate

\* Nothing in the list when nothing is mapped.
LEMMA NothingListed ==
  ASSUME ListInv, context, \A b \in Buffers : ptr[b] = NoPtr
  PROVE  Entries = {}
<1>1. ASSUME NEW e \in Entries PROVE FALSE
  <2>1. e.idx \in Buffers
    BY EntryIsMapBo, EntryTypes DEF ListInv
  <2> QED BY <2>1 DEF ListInv, Listed, Mapped
<1> QED BY <1>1

LEMMA KvmNext ==
  Orderly /\ FullPages /\ RoomFound' /\ ListInv /\ KvmInv /\ [Next]_vars => KvmInv'
<1> SUFFICES ASSUME UnmapsFirst, UnmapsAll, FlushesInPlace, FullPages, RoomFound', ListInv, KvmInv, [Next]_vars
             PROVE  KvmInv'
  BY DEF Orderly
<1>1. pbufo' = pbufo => Entries' = Entries
  BY DEF Entries
<1>2. ASSUME DeleteContext PROVE KvmInv'
  <2>1. /\ context /\ (\A b \in Buffers : ptr[b] = NoPtr)
        /\ kept' = NotKept /\ kvm' = WithoutKept /\ UNCHANGED <<setting, pbufo>>
    BY <1>2 DEF DeleteContext, UnmapsAll
  <2> QED BY <2>1, <1>1, NothingListed, KvmDropKept
<1>3. ASSUME CreateContext PROVE KvmInv'
  <2>1. ~context /\ context' = TRUE /\ pbufo' = <<>> /\ kept' = NotKept /\ kvm' = WithoutKept /\ setting' = setting
    BY <1>3 DEF CreateContext
  <2>2. Entries' = {} /\ Entries = {}
    BY <2>1 DEF Entries, EntriesOf, KvmInv
  <2> QED BY <2>1, <2>2, KvmDropKept
<1>4. ASSUME NEW t \in Targets, NEW b \in Buffers \cup {NoBuffer}, BindBuffer(t, b) PROVE KvmInv'
  BY <1>4, KvmSame DEF BindBuffer
<1>5. ASSUME NEW b \in Buffers, DeleteBuffer(b) PROVE KvmInv'
  <2>1. /\ UNCHANGED <<setting, context, pbufo>>
        /\ kept' = (IF kept.idx = b THEN NotKept ELSE kept)
        /\ kvm' = (IF kept.idx = b THEN WithoutKept ELSE kvm)
    BY <1>5 DEF DeleteBuffer
  <2>2. CASE kept.idx = b
    <3>1. ~context' => Entries = {}
      BY <2>1 DEF KvmInv
    <3> QED BY <2>1, <2>2, <3>1, <1>1, KvmDropKept
  <2>3. CASE kept.idx # b
    BY <2>1, <2>3, KvmSame
  <2> QED BY <2>2, <2>3
<1>6. ASSUME UNCHANGED vars PROVE KvmInv'
  BY <1>6, KvmSame DEF vars
<1> QED
  BY <1>2, <1>3, <1>4, <1>5, <1>6, KvmMap, KvmUnmap, KvmFlush DEF Next

LEMMA KvmInit == Init => KvmInv
<1> SUFFICES ASSUME Init PROVE KvmInv
  OBVIOUS
<1>1. Entries = {}
  BY DEF Init, Entries, EntriesOf
<1>2. Live = {} /\ LiveRegions = {}
  BY <1>1 DEF LiveRegions, Live
<1> QED
  BY <1>1, <1>2 DEF Init, KvmInv, KindKept, KeptBeside, Separate

LEMMA AccountedFrom == ListInv /\ KvmInv => RegionsAccounted
<1> SUFFICES ASSUME ListInv, KvmInv PROVE RegionsAccounted
  OBVIOUS
<1> DEFINE live == {k \in DOMAIN pbufo : ~pbufo[k].ocpy}
<1>1. \A k \in live : pbufo[k] \in Live
  BY DEF Live, Entries, EntriesOf
<1>2. {RegionOf(pbufo[k]) : k \in live} = LiveRegions
  BY DEF LiveRegions, Live, Entries, EntriesOf
<1>3. ASSUME NEW j \in live, NEW k \in live, RegionOf(pbufo[j]) = RegionOf(pbufo[k]) PROVE j = k
  <2>1. pbufo[j] = pbufo[k]
    <3>1. SUFFICES ASSUME pbufo[j] # pbufo[k] PROVE FALSE
      OBVIOUS
    <3>2. Beside(RegionOf(pbufo[j]), RegionOf(pbufo[k]))
      BY <1>1, <3>1 DEF KvmInv, Separate
    <3> QED BY <1>1, <1>3, <3>2, LiveRegion, BesideDiffer
  <2> QED BY <2>1 DEF ListInv, TypeInv, OnceEach
<1>4. ASSUME kept.standing, NEW k \in live PROVE RegionOf(pbufo[k]) # kept.region
  <2>1. /\ Beside(RegionOf(pbufo[k]), kept.region)
        /\ kept.region \in Region /\ Filled(kept.region)
    BY <1>1, <1>4 DEF KvmInv, KeptBeside
  <2> QED BY <1>1, <2>1, LiveRegion, BesideDiffer
<1>5. kvm = LiveRegions \cup (IF kept.standing THEN {kept.region} ELSE {})
  BY DEF KvmInv
<1> QED
  BY <1>2, <1>3, <1>4, <1>5 DEF RegionsAccounted

LEMMA MeetFrom == KvmInv => MeetInPartPages
<1> SUFFICES ASSUME KvmInv, NEW r \in kvm, NEW s \in kvm, r # s PROVE Beside(r, s)
  BY DEF MeetInPartPages, Beside
<1>1. kvm = LiveRegions \cup (IF kept.standing THEN {kept.region} ELSE {})
  BY DEF KvmInv
<1>2. \A x, y \in LiveRegions : x # y => Beside(x, y)
  BY DEF LiveRegions, KvmInv, Separate
<1>3. kept.standing => \A x \in LiveRegions : Beside(x, kept.region) /\ Beside(kept.region, x)
  BY DEF LiveRegions, KvmInv, KeptBeside, Beside
<1>4. r \in LiveRegions \/ (kept.standing /\ r = kept.region)
  BY <1>1
<1>5. s \in LiveRegions \/ (kept.standing /\ s = kept.region)
  BY <1>1
<1> QED
  BY <1>2, <1>3, <1>4, <1>5

LEMMA KvmAlways ==
  Orderly /\ FullPages /\ Spec /\ []RoomFound => [](ListInv /\ KvmInv)
<1> SUFFICES ASSUME Orderly, FullPages PROVE Spec /\ []RoomFound => [](ListInv /\ KvmInv)
  OBVIOUS
<1>1. Init => KvmInv
  BY KvmInit
<1>2. RoomFound' /\ ListInv /\ KvmInv /\ [Next]_vars => KvmInv'
  BY KvmNext
<1>3. Spec => []ListInv
  BY ListAlways DEF Orderly
<1> HIDE DEF ListInv, KvmInv, RoomFound
<1> QED
  BY <1>1, <1>2, <1>3, PTL DEF Spec

\* However buffers are mapped, unmapped, flushed and deleted and contexts come and
\* go, the regions standing are those of the zero-copy mappings, each of its own,
\* and the kept one, in every mode: for any number of mappings at any addresses and
\* of any sizes, if each of them fills a page and the window has room for them.
THEOREM RegionsAccountedAlways ==
  Orderly /\ FullPages /\ Spec /\ []RoomFound => []RegionsAccounted
<1> SUFFICES ASSUME Orderly, FullPages PROVE Spec /\ []RoomFound => []RegionsAccounted
  OBVIOUS
<1>1. Spec /\ []RoomFound => [](ListInv /\ KvmInv)
  BY KvmAlways
<1>2. ListInv /\ KvmInv => RegionsAccounted
  BY AccountedFrom
<1> HIDE DEF ListInv, KvmInv, RoomFound, RegionsAccounted
<1> QED
  BY <1>1, <1>2, PTL

\* Under the same conditions no two regions standing, the kept one included, meet
\* but in the last page of one of them, which it does not fill, wherever
\* MapBufObjGpa moved them.
THEOREM MeetInPartPagesAlways ==
  Orderly /\ FullPages /\ Spec /\ []RoomFound => []MeetInPartPages
<1> SUFFICES ASSUME Orderly, FullPages PROVE Spec /\ []RoomFound => []MeetInPartPages
  OBVIOUS
<1>1. Spec /\ []RoomFound => [](ListInv /\ KvmInv)
  BY KvmAlways
<1>2. KvmInv => MeetInPartPages
  BY MeetFrom
<1> HIDE DEF ListInv, KvmInv, RoomFound, MeetInPartPages
<1> QED
  BY <1>1, <1>2, PTL

\* A mapping ends where a page ends.
EndsWithPage == \A h \in Hvas, n \in Sizes : Whole(n + PageOffset(h))

\* So do the regions.
Ends == \A r \in kvm : Whole(r.size)

LEMMA EndsNext == EndsWithPage /\ ListInv /\ KvmInv /\ Ends /\ [Next]_vars => Ends'
<1> SUFFICES ASSUME EndsWithPage, ListInv, KvmInv, Ends, [Next]_vars PROVE Ends'
  OBVIOUS
<1>1. ASSUME kvm' \subseteq kvm PROVE Ends'
  BY <1>1 DEF Ends
<1>2. WithoutKept \subseteq kvm /\ \A r : KvmRemoved(r) \subseteq kvm
  BY DEF WithoutKept, KvmRemoved
<1>3. ASSUME DeleteContext \/ CreateContext PROVE Ends'
  BY <1>1, <1>2, <1>3 DEF DeleteContext, CreateContext
<1>4. ASSUME NEW t \in Targets, NEW b \in Buffers \cup {NoBuffer}, BindBuffer(t, b) PROVE Ends'
  BY <1>1, <1>4 DEF BindBuffer
<1>5. ASSUME NEW t \in Targets, NEW hva \in Hvas, NEW size \in Sizes, NEW write \in BOOLEAN,
             MapBuffer(t, hva, size, write)
      PROVE  Ends'
  <2>1. PICK b \in Buffers, e \in MapBo :
           /\ e.hva = hva /\ e.mapsz = size
           /\ AddRegion(RegionOf(e)) \/ UNCHANGED <<kept, kvm>>
    BY <1>5, MapAdds
  <2>2. CASE UNCHANGED <<kept, kvm>>
    BY <1>1, <2>2
  <2>3. CASE AddRegion(RegionOf(e))
    <3>1. kvm' \subseteq kvm \cup {RegionOf(e)}
      BY <1>2, <2>3 DEF AddRegion, Replaced
    <3>2. Whole(RegionOf(e).size)
      BY <2>1 DEF EndsWithPage, RegionOf
    <3> QED BY <3>1, <3>2 DEF Ends
  <2> QED BY <2>1, <2>2, <2>3
<1>6. ASSUME NEW t \in Targets, FlushMappedBufferRange(t) PROVE Ends'
  BY <1>1, <1>6 DEF FlushMappedBufferRange
<1>7. ASSUME NEW t \in Targets, UnmapBuffer(t) PROVE Ends'
  <2>1. kvm' = kvm \/ kvm' = WithoutKept \/ \E r : kvm' = KvmRemoved(r)
    BY <1>7 DEF UnmapBuffer, RemoveRegion
  <2> QED BY <1>1, <1>2, <2>1
<1>8. ASSUME NEW b \in Buffers, DeleteBuffer(b) PROVE Ends'
  BY <1>1, <1>2, <1>8 DEF DeleteBuffer
<1>9. ASSUME UNCHANGED vars PROVE Ends'
  BY <1>1, <1>9 DEF vars
<1> QED
  BY <1>3, <1>4, <1>5, <1>6, <1>7, <1>8, <1>9 DEF Next

LEMMA DisjointFrom == TypeOK /\ MeetInPartPages /\ Ends => RegionsDisjoint
<1> SUFFICES ASSUME TypeOK, MeetInPartPages, Ends, NEW r \in kvm, NEW s \in kvm, r # s
             PROVE  Pages(r) \cap Pages(s) = {}
  BY DEF RegionsDisjoint
<1>1. ASSUME NEW q \in kvm
      PROVE  q.ga \in Nat /\ q.size \in Nat /\ WholeEnd(q) = q.ga + q.size
             /\ Pages(q) = q.ga .. (q.ga + q.size - 1)
  <2>1. q.ga \in Nat /\ q.size \in Nat /\ q.size \in Int
    BY DEF TypeOK, Region
  <2>2. Whole(q.size) /\ q.size % PageSize = 0
    BY DEF Ends, Whole
  <2>3. PageFloor(q.size) = q.size
    BY <2>1, <2>2, WholePage
  <2> QED BY <2>1, <2>2, <2>3 DEF WholeEnd, Pages
<1>2. WholeEnd(r) <= s.ga \/ WholeEnd(s) <= r.ga
  BY DEF MeetInPartPages
<1>3. r.ga \in Nat /\ r.size \in Nat /\ s.ga \in Nat /\ s.size \in Nat
      /\ (r.ga + r.size <= s.ga \/ s.ga + s.size <= r.ga)
      /\ Pages(r) = r.ga .. (r.ga + r.size - 1) /\ Pages(s) = s.ga .. (s.ga + s.size - 1)
  BY <1>1, <1>2
<1> QED BY <1>3

\* Where every mapping ends with a page, no two of the regions that KVM has standing
\* meet at all.  Where one does not they may, in that page.
THEOREM RegionsDisjointAlways ==
  Orderly /\ FullPages /\ EndsWithPage /\ Spec /\ []RoomFound => []RegionsDisjoint
<1> SUFFICES ASSUME Orderly, FullPages, EndsWithPage PROVE Spec /\ []RoomFound => []RegionsDisjoint
  OBVIOUS
<1>1. Spec /\ []RoomFound => [](ListInv /\ KvmInv)
  BY KvmAlways
<1>2. Init => Ends
  BY DEF Init, Ends
<1>3. (ListInv /\ KvmInv) /\ Ends /\ [Next]_vars => Ends'
  BY EndsNext
<1>4. ListInv /\ KvmInv /\ Ends => RegionsDisjoint
  BY MeetFrom, DisjointFrom DEF ListInv, TypeInv
<1> HIDE DEF ListInv, KvmInv, RoomFound, Ends, RegionsDisjoint
<1> QED
  BY <1>1, <1>2, <1>3, <1>4, PTL DEF Spec

-----------------------------------------------------------------------------
(* Where the application's pointers lead. *)

\* The natural places of mappings leave the end of the window free.
ClearOfEnd ==
  \A h \in Hvas, n \in Sizes : (h % MbufoSize) + (ALIGNBO(n) + PageOffset(h)) < MbufoSize - 1

\* Where zero copy is mixed with one copy, mappings keep clear of the end.
EndClear == setting.accelAll \/ ClearOfEnd

\* The application has a zero-copy mapping at its place in the window, and this has
\* the offset of the host address where KeepsOffset says so.
Pointed ==
  \A e \in Entries :
    /\ ~e.ocpy => /\ ptr[e.idx] = [via |-> "kvm", at |-> e.gpa]
                  /\ KeepsOffset(e) => PageOffset(e.gpa) = PageOffset(e.hva)
    /\ e.ocpy => ptr[e.idx].via = "fbtm"

\* A mapping of whole alignment units at a page boundary is put at one: not so at
\* the end of the window, which is none, when only one-copy mappings are before it.
LEMMA PlacedWhole ==
  ASSUME NEW list \in Seq(MapBo), NEW hva \in Hvas, NEW size \in Sizes,
         ClearOfEnd \/ \A k \in DOMAIN list : ~list[k].ocpy,
         PageOffset(hva) = 0, PageOffset(ALIGNBO(size)) = 0
  PROVE  PageOffset(MapBufObjGpa(list, hva, size)) = 0
<1> DEFINE x == hva % MbufoSize
           need == ALIGNBO(size) + PageOffset(hva)
           lo == Lowest(list)
           hi == Highest(list)
<1>1. /\ hva \in Nat /\ hva \in Int /\ size \in Nat /\ MbufoSize \in Nat \ {0} /\ x \in Int
      /\ ALIGNBO(size) \in Int
  BY SizeAssumption, AlignedUp
<1>2. need = ALIGNBO(size) /\ need \in Int /\ Whole(need)
  BY <1>1 DEF PageOffset, Whole
<1>3. PageOffset(x) = 0
  BY <1>1, NaturalOffset
<1>4. \A a \in Int : Whole(a) => PageOffset(a) = 0
  BY WholePage
<1>5. /\ \A k \in DOMAIN list : PageFloor(list[k].gpa) \in Int /\ Whole(PageFloor(list[k].gpa))
      /\ \A k \in DOMAIN list : Whole(PageFloor(list[k].gpa + list[k].mapsz + PageOffset(list[k].hva)))
  <2> SUFFICES ASSUME NEW j \in DOMAIN list
               PROVE  /\ PageFloor(list[j].gpa) \in Int /\ Whole(PageFloor(list[j].gpa))
                      /\ Whole(PageFloor(list[j].gpa + list[j].mapsz + PageOffset(list[j].hva)))
    OBVIOUS
  <2>1. list[j] \in MapBo
    BY ElementOfSeq
  <2>2. list[j].gpa \in Int /\ list[j].mapsz \in Nat /\ list[j].hva \in Int
    BY <2>1, EntryTypes
  <2>3. PageOffset(list[j].hva) \in Nat
    BY <2>2, PageTypes
  <2>4. list[j].gpa + list[j].mapsz + PageOffset(list[j].hva) \in Int
    BY <2>2, <2>3
  <2> QED BY <2>2, <2>4, WholeFloor
<1>6. Whole(0)
  BY SizeAssumption DEF Whole
<1>7. hi \in Int /\ Whole(hi)
  BY <1>5, <1>6, StretchTypes
<1>8. lo \in Int /\ (Whole(lo) \/ lo = MbufoSize - 1)
  BY <1>5, StretchTypes
<1> DEFINE p == MapBufObjGpa(list, hva, size)
<1>12. p = x \/ ((list # <<>> /\ ~(x + need < lo)) /\ p \in {lo - need, hi, 0})
  <2>1. p = (IF list = <<>> \/ x + need < lo \/ x >= hi THEN x
             ELSE IF lo > need THEN lo - need
             ELSE IF hi + need < MbufoSize THEN hi
             ELSE 0)
    BY Zenon DEF MapBufObjGpa
  <2> HIDE DEF p, lo, hi, x, need
  <2> QED BY <2>1
<1>13. ASSUME Whole(lo) PROVE PageOffset(lo - need) = 0 /\ PageOffset(hi) = 0 /\ PageOffset(0) = 0
  <2> HIDE DEF lo, hi, need
  <2>0. lo \in Int /\ need \in Int /\ Whole(lo) /\ Whole(need)
    BY <1>2, <1>8, <1>13
  <2>1. Whole(lo - need) /\ lo - need \in Int
    BY <2>0, WholeSums
  <2> QED BY <2>1, <1>4, <1>6, <1>7
<1>9. CASE ClearOfEnd
  <2>1. x + need < MbufoSize - 1
    BY <1>9 DEF ClearOfEnd
  <2>2. Whole(lo) \/ x + need < lo
    BY <1>8, <2>1
  <2> HIDE DEF p, lo, hi, x, need
  <2>3. PageOffset(p) = 0
    BY <1>3, <1>12, <1>13, <2>2
  <2> QED BY <2>3 DEF p
<1>10. CASE list # <<>> /\ \A k \in DOMAIN list : ~list[k].ocpy
  <2>1. Len(list) \in Nat \ {0} /\ DOMAIN list = 1 .. Len(list)
    <3>1. Len(list) \in Nat /\ Len(list) # 0 /\ DOMAIN list = 1 .. Len(list)
      BY <1>10, EmptySeq
    <3> QED BY <3>1
  <2>2. 1 \in DOMAIN list /\ list[1] \in MapBo /\ ~list[1].ocpy
    BY <1>10, <2>1, ElementOfSeq
  <2>3. list[1].gpa \in 0 .. (MbufoSize - 1)
    BY <2>2, EntryTypes
  <2>4. PageFloor(list[1].gpa) \in Int /\ PageFloor(list[1].gpa) <= MbufoSize - 1
    <3> DEFINE g == list[1].gpa
    <3>1. g \in Int /\ g <= MbufoSize - 1
      BY <1>1, <2>3
    <3> HIDE DEF g
    <3>2. PageFloor(g) \in Int /\ PageFloor(g) <= g
      BY <3>1, PageTypes
    <3>3. PageFloor(g) <= MbufoSize - 1
      BY <1>1, <3>1, <3>2
    <3> QED BY <3>2, <3>3 DEF g
  <2>5. lo <= PageFloor(list[1].gpa)
    BY <2>2, StretchTypes
  <2>6. lo = MbufoSize - 1 => lo = PageFloor(list[1].gpa)
    <3> HIDE DEF lo
    <3> QED BY <1>1, <1>8, <2>4, <2>5
  <2>7. Whole(lo)
    BY <1>5, <1>8, <2>2, <2>6
  <2> HIDE DEF p, lo, hi, x, need
  <2>8. PageOffset(p) = 0
    BY <1>3, <1>12, <1>13, <2>7
  <2> QED BY <2>8 DEF p
<1>11. CASE list = <<>>
  BY <1>3, <1>11 DEF MapBufObjGpa
<1> QED
  BY <1>9, <1>10, <1>11

\* The offset of a new mapping's place.
LEMMA PlacedOffset ==
  ASSUME NEW list \in Seq(MapBo), NEW hva \in Hvas, NEW size \in Sizes,
         ClearOfEnd \/ \A k \in DOMAIN list : ~list[k].ocpy,
         NEW e, e.hva = hva, e.mapsz = size, e.gpa = MapBufObjGpa(list, hva, size), KeepsOffset(e)
  PROVE  PageOffset(e.gpa) = PageOffset(e.hva)
<1>1. CASE e.gpa = e.hva % MbufoSize
  BY <1>1, NaturalOffset, SizeAssumption
<1>2. CASE PageOffset(e.hva) = 0 /\ PageOffset(ALIGNBO(e.mapsz)) = 0
  BY <1>2, PlacedWhole
<1> QED
  BY <1>1, <1>2 DEF KeepsOffset

LEMMA PointedMap ==
  ASSUME ListInv, KindKept, EndClear, Pointed,
         NEW t \in Targets, NEW hva \in Hvas, NEW size \in Sizes, NEW write \in BOOLEAN,
         MapBuffer(t, hva, size, write)
  PROVE  Pointed'
<1>1. PICK b \in Buffers, e \in MapBo :
           /\ context /\ (\A x \in Entries : x.idx # b)
           /\ e.idx = b /\ e.hva = hva /\ e.mapsz = size
           /\ e.ocpy <=> ~ZeroCopy(t)
           /\ e.gpa = IF ZeroCopy(t) THEN MapBufObjGpa(pbufo, hva, size)
                      ELSE FbtAddress + FbtSize - SZFBT_VALID(szUsedBuf, hva)
           /\ Entries' = Entries \cup {e}
           /\ \/ /\ ZeroCopy(t)
                 /\ ptr' = [ptr EXCEPT ![b] = [via |-> "kvm", at |-> e.gpa]]
              \/ /\ ~ZeroCopy(t)
                 /\ ptr' = [ptr EXCEPT ![b] = [via |-> "fbtm", at |-> FbtSize - szUsedBuf']]
  BY MapAdds
<1>2. pbufo \in Seq(MapBo) /\ ptr \in [Buffers -> [via : {"none", "kvm", "fbtm"}, at : Int]]
  BY DEF ListInv, TypeInv, TypeOK
<1>3. \A x \in Entries : x.idx \in Buffers /\ x.idx # b
  BY <1>1, EntryIsMapBo, EntryTypes DEF ListInv
<1>4. \A x \in Entries : ptr'[x.idx] = ptr[x.idx]
  BY <1>1, <1>2, <1>3
<1>5. ptr'[b] = IF ZeroCopy(t) THEN [via |-> "kvm", at |-> e.gpa]
                ELSE [via |-> "fbtm", at |-> FbtSize - szUsedBuf']
  BY <1>1, <1>2
<1>6. ClearOfEnd \/ \A k \in DOMAIN pbufo : ~pbufo[k].ocpy
  <2>1. \A k \in DOMAIN pbufo : pbufo[k] \in Entries
    BY DEF Entries, EntriesOf
  <2> QED BY <2>1 DEF EndClear, KindKept, ZeroCopy
<1>7. ASSUME ZeroCopy(t), KeepsOffset(e) PROVE PageOffset(e.gpa) = PageOffset(e.hva)
  BY <1>1, <1>2, <1>6, <1>7, PlacedOffset
<1>8. ASSUME NEW x \in Entries
      PROVE  /\ ~x.ocpy => /\ ptr'[x.idx] = [via |-> "kvm", at |-> x.gpa]
                           /\ KeepsOffset(x) => PageOffset(x.gpa) = PageOffset(x.hva)
             /\ x.ocpy => ptr'[x.idx].via = "fbtm"
  BY <1>4 DEF Pointed
<1>9. /\ ~e.ocpy => /\ ptr'[e.idx] = [via |-> "kvm", at |-> e.gpa]
                    /\ KeepsOffset(e) => PageOffset(e.gpa) = PageOffset(e.hva)
      /\ e.ocpy => ptr'[e.idx].via = "fbtm"
  BY <1>1, <1>5, <1>7
<1> QED
  BY <1>1, <1>8, <1>9 DEF Pointed

LEMMA PointedUnmap ==
  ASSUME ListInv, Pointed, NEW t \in Targets, UnmapBuffer(t)
  PROVE  Pointed'
<1>0. Listing
  BY DEF ListInv, TypeInv, TypeOK, Listing
<1>1. PICK e \in Entries :
           /\ e.idx \in Buffers /\ Entries' = Others(e.idx) /\ ptr' = [ptr EXCEPT ![e.idx] = NoPtr]
  BY <1>0, UnmapStep
<1>2. Entries' \subseteq Entries /\ \A x \in Entries' : x.idx # e.idx
  BY <1>1 DEF Others
<1>3. \A x \in Entries' : ptr'[x.idx] = ptr[x.idx]
  <2>1. ptr \in [Buffers -> [via : {"none", "kvm", "fbtm"}, at : Int]]
    BY DEF ListInv, TypeInv, TypeOK
  <2>2. \A x \in Entries : x.idx \in Buffers
    BY EntryIsMapBo, EntryTypes DEF ListInv
  <2> QED BY <2>1, <2>2, <1>1, <1>2
<1> QED
  BY <1>2, <1>3 DEF Pointed

LEMMA PointedFlush ==
  ASSUME FlushesInPlace, ListInv, KindKept, Pointed, NEW t \in Targets, FlushMappedBufferRange(t)
  PROVE  Pointed'
<1>1. /\ UNCHANGED ptr
      /\ \A x \in Entries' : \E y \in Entries : x = [y EXCEPT !.tgt = x.tgt] /\ y \in MapBo /\ x \in MapBo
  BY KindFlush
<1>2. ASSUME NEW y \in MapBo, NEW v
      PROVE  LET x == [y EXCEPT !.tgt = v] IN
             x.idx = y.idx /\ x.ocpy = y.ocpy /\ x.gpa = y.gpa /\ x.hva = y.hva /\ x.mapsz = y.mapsz
  BY DEF MapBo
<1>3. ASSUME NEW x \in Entries'
      PROVE  /\ ~x.ocpy => /\ ptr'[x.idx] = [via |-> "kvm", at |-> x.gpa]
                           /\ KeepsOffset(x) => PageOffset(x.gpa) = PageOffset(x.hva)
             /\ x.ocpy => ptr'[x.idx].via = "fbtm"
  <2>1. PICK y \in Entries : x = [y EXCEPT !.tgt = x.tgt] /\ y \in MapBo
    BY <1>1
  <2> DEFINE v == x.tgt
  <2>2. x = [y EXCEPT !.tgt = v]
    BY <2>1
  <2> HIDE DEF v
  <2>3. x.idx = y.idx /\ x.ocpy = y.ocpy /\ x.gpa = y.gpa /\ x.hva = y.hva /\ x.mapsz = y.mapsz
    BY <2>1, <2>2, <1>2
  <2>4. /\ ~y.ocpy => /\ ptr[y.idx] = [via |-> "kvm", at |-> y.gpa]
                      /\ KeepsOffset(y) => PageOffset(y.gpa) = PageOffset(y.hva)
        /\ y.ocpy => ptr[y.idx].via = "fbtm"
    BY DEF Pointed
  <2>5. KeepsOffset(x) <=> KeepsOffset(y)
    BY <2>3 DEF KeepsOffset
  <2> QED BY <2>3, <2>4, <2>5, <1>1
<1> QED
  BY <1>3 DEF Pointed

LEMMA PointedNext ==
  Orderly /\ ListInv /\ KvmInv /\ EndClear /\ Pointed /\ [Next]_vars => Pointed'
<1> SUFFICES ASSUME Orderly, ListInv, KvmInv, EndClear, Pointed, [Next]_vars PROVE Pointed'
  OBVIOUS
<1>0. UnmapsFirst /\ UnmapsAll /\ FlushesInPlace /\ KindKept
  BY DEF Orderly, KvmInv
<1>1. ASSUME Entries' = Entries, ptr' = ptr PROVE Pointed'
  BY <1>1 DEF Pointed
<1>2. ASSUME Entries' = {} PROVE Pointed'
  BY <1>2 DEF Pointed
<1>3. ASSUME DeleteContext PROVE Pointed'
  <2>1. context /\ (\A b \in Buffers : ptr[b] = NoPtr) /\ pbufo' = pbufo
    BY <1>0, <1>3 DEF DeleteContext, UnmapsAll
  <2>2. Entries' = {}
    BY <2>1, NothingListed DEF Entries
  <2> QED BY <2>2, <1>2
<1>4. ASSUME CreateContext PROVE Pointed'
  <2>1. Entries' = {}
    BY <1>4 DEF CreateContext, Entries, EntriesOf
  <2> QED BY <2>1, <1>2
<1>5. ASSUME NEW t \in Targets, NEW b \in Buffers \cup {NoBuffer}, BindBuffer(t, b) PROVE Pointed'
  BY <1>1, <1>5 DEF BindBuffer, Entries
<1>6. ASSUME NEW b \in Buffers, DeleteBuffer(b) PROVE Pointed'
  <2>1. ptr[b] = NoPtr /\ ptr' = [ptr EXCEPT ![b] = NoPtr] /\ pbufo' = pbufo
    BY <1>0, <1>6 DEF DeleteBuffer, UnmapsFirst
  <2>2. ptr' = ptr
    BY <2>1 DEF ListInv, TypeInv, TypeOK
  <2> QED BY <1>1, <2>1, <2>2 DEF Entries
<1>7. ASSUME UNCHANGED vars PROVE Pointed'
  BY <1>1, <1>7 DEF vars, Entries
<1> QED
  BY <1>0, <1>3, <1>4, <1>5, <1>6, <1>7, PointedMap, PointedUnmap, PointedFlush DEF Next

LEMMA PointerFrom == ListInv /\ KvmInv /\ Pointed => PointerRight
<1> SUFFICES ASSUME ListInv, KvmInv, Pointed, NEW k \in DOMAIN pbufo, ptr[pbufo[k].idx].via = "kvm"
             PROVE  LET e == pbufo[k] IN
                    /\ RegionOf(e) \in kvm /\ ptr[e.idx].at \in Pages(RegionOf(e))
                    /\ PageFloor(LeadsTo(e)) = PageFloor(e.hva)
                    /\ KeepsOffset(e) => LeadsTo(e) = e.hva
  BY DEF PointerRight
<1> DEFINE e == pbufo[k]
<1>0. e \in Entries /\ ptr[e.idx].via = "kvm"
  BY DEF Entries, EntriesOf
<1> HIDE DEF e
<1>1. /\ ~e.ocpy /\ ptr[e.idx].at = e.gpa
      /\ KeepsOffset(e) => PageOffset(e.gpa) = PageOffset(e.hva)
  <2>1. /\ ~e.ocpy => /\ ptr[e.idx] = [via |-> "kvm", at |-> e.gpa]
                      /\ KeepsOffset(e) => PageOffset(e.gpa) = PageOffset(e.hva)
        /\ e.ocpy => ptr[e.idx].via = "fbtm"
    BY <1>0 DEF Pointed
  <2>2. ~e.ocpy
    BY <1>0, <2>1
  <2> QED BY <2>1, <2>2
<1>2. e \in Live /\ e \in MapBo /\ Filled(RegionOf(e))
  BY <1>0, <1>1, LiveRegion DEF Live
<1>3. RegionOf(e) \in kvm
  BY <1>2 DEF KvmInv, LiveRegions
<1>4. e.gpa \in Int /\ e.hva \in Int /\ e.mapsz \in Nat /\ PageSize \in Nat \ {0}
  BY <1>2, EntryTypes, SizeAssumption
<1>5. /\ PageFloor(e.gpa) \in Int /\ PageOffset(e.gpa) \in 0 .. (PageSize - 1)
      /\ e.gpa = PageFloor(e.gpa) + PageOffset(e.gpa)
      /\ PageFloor(e.hva) \in Int /\ PageOffset(e.hva) \in 0 .. (PageSize - 1)
      /\ e.hva = PageFloor(e.hva) + PageOffset(e.hva)
  <2>1. ASSUME NEW a \in Int
        PROVE  /\ PageFloor(a) \in Int /\ PageOffset(a) \in 0 .. (PageSize - 1)
               /\ a = PageFloor(a) + PageOffset(a)
    <3>1. PageFloor(a) = a - PageOffset(a)
      BY DEF PageFloor, PageOffset
    <3>2. PageFloor(a) \in Int /\ PageOffset(a) \in Nat /\ a < PageFloor(a) + PageSize
      BY PageTypes
    <3> QED BY <3>1, <3>2, <1>4
  <2> QED BY <2>1, <1>4
<1>6. RegionOf(e).ga = PageFloor(e.gpa) /\ RegionOf(e).ha = PageFloor(e.hva)
  BY <1>1, <1>2, RegionPlace
<1>7. LeadsTo(e) = PageFloor(e.hva) + PageOffset(e.gpa)
  BY <1>1, <1>5, <1>6 DEF LeadsTo
<1>8. PageFloor(LeadsTo(e)) = PageFloor(e.hva)
  <2>1. Whole(PageFloor(e.hva))
    BY <1>4, WholeFloor
  <2> QED BY <1>5, <1>7, <2>1, OffsetFrom
<1>9. KeepsOffset(e) => LeadsTo(e) = e.hva
  BY <1>1, <1>5, <1>7
<1>10. ptr[e.idx].at \in Pages(RegionOf(e))
  <2> DEFINE r == RegionOf(e)
             n == IF r.size % PageSize = 0 THEN r.size ELSE PageFloor(r.size) + PageSize
  <2>1. r.size \in Int
    <3>1. r \in Region
      BY <1>2, RegionTypes
    <3> QED BY <3>1 DEF Region
  <2>2. PageFloor(r.size) > 0
    BY <1>2 DEF Filled
  <2>3. n \in Int /\ n >= PageSize
    <3> HIDE DEF r
    <3>1. PageFloor(r.size) \in Int /\ Whole(PageFloor(r.size)) /\ PageFloor(r.size) <= r.size
      BY <2>1, WholeFloor
    <3>2. PICK q \in Int : PageFloor(r.size) = PageSize * q
      BY <3>1, WholeMeans
    <3>3. PageSize * q > 0
      BY <2>2, <3>2
    <3>4. q >= 1
      <4>1. \A i \in Int : i <= 0 => PageSize * i <= 0
        BY <1>4, SMT
      <4>2. ~(q <= 0)
        <5>1. SUFFICES ASSUME q <= 0 PROVE FALSE
          OBVIOUS
        <5>2. PageSize * q <= 0 /\ PageSize * q \in Int
          BY <4>1, <5>1, <1>4, SMT
        <5> DEFINE c == PageSize * q
        <5>3. c <= 0 /\ c > 0 /\ c \in Int
          BY <3>3, <5>2
        <5> HIDE DEF c
        <5> QED BY <5>3
      <4> QED BY <4>2
    <3>5. PageSize * q >= PageSize
      BY <1>4, <3>4, SMT
    <3> QED BY <1>4, <2>1, <3>1, <3>2, <3>5
  <2>4. Pages(r) = r.ga .. (r.ga + n - 1)
    BY DEF Pages
  <2> HIDE DEF n
  <2> QED BY <1>1, <1>4, <1>5, <1>6, <2>3, <2>4
<1> QED
  BY <1>3, <1>8, <1>9, <1>10 DEF e

\* The pointer of a zero-copy mapping leads through the mapping's own region to the
\* page of the first byte OpenGL mapped, and to this byte itself unless the mapping
\* was moved and has an offset in its page or is not of whole pages: for any number
\* of mappings at any addresses and of any sizes, on the conditions of the theorems
\* about the regions, and that where zero copy is mixed with one copy no natural
\* place is at the end of the window.
THEOREM PointerRightAlways ==
  Orderly /\ FullPages /\ Spec /\ []RoomFound /\ []EndClear => []PointerRight
<1> SUFFICES ASSUME Orderly, FullPages PROVE Spec /\ []RoomFound /\ []EndClear => []PointerRight
  OBVIOUS
<1>1. Spec /\ []RoomFound => [](ListInv /\ KvmInv)
  BY KvmAlways
<1>2. Init => Pointed
  BY DEF Init, Pointed, Entries, EntriesOf
<1>3. (ListInv /\ KvmInv) /\ EndClear /\ Pointed /\ [Next]_vars => Pointed'
  BY PointedNext
<1>4. ListInv /\ KvmInv /\ Pointed => PointerRight
  BY PointerFrom
<1> HIDE DEF ListInv, KvmInv, RoomFound, EndClear, Pointed, PointerRight
<1> QED
  BY <1>1, <1>2, <1>3, <1>4, PTL DEF Spec
=============================================================================
