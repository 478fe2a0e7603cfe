---------------------------- MODULE LogRing_proofs ----------------------------
(***************************************************************************)
(* Theorems about the log ring and its flush, for every set of tasks and   *)
(* record sizes, every ring and datagram that hold a record, and every     *)
(* modulus of the counters.                                                *)
(***************************************************************************)
EXTENDS LogRing, SequenceTheorems, FiniteSetTheorems, WellFoundedInduction,
        TLAPS

Record == [id : 1..MaxLines, size : Sizes]

LEMMA RecordFields ==
  ASSUME NEW r \in Record
  PROVE  /\ r.size \in Sizes /\ r.size \in Nat
         /\ 0 < r.size /\ r.size <= RingSize /\ r.size <= PacketSize
         /\ r.id \in 1..MaxLines
<1>1. r.size \in Sizes /\ r.id \in 1..MaxLines
  BY DEF Record
<1>2. r.size \in 1..RingSize /\ r.size \in 1..PacketSize
  BY <1>1, SizesAssumption
<1> QED
  BY <1>1, <1>2, RoomAssumption

LEMMA SizeType ==
  ASSUME NEW n \in Sizes
  PROVE  n \in Nat /\ 0 < n /\ n <= RingSize /\ n <= PacketSize
<1>1. n \in 1..RingSize /\ n \in 1..PacketSize
  BY SizesAssumption
<1> QED
  BY <1>1, RoomAssumption

(* Induction over the natural numbers, and its twin, the least element *)
LEMMA LeastNat ==
  ASSUME NEW T \in SUBSET Nat, T # {}
  PROVE  \E n \in T : \A m \in T : n <= m
<1> DEFINE R == OpToRel(<, Nat)
<1>1. IsWellFoundedOn(R, Nat)
  BY NatLessThanWellFounded
<1>2. R = {p \in Nat \X Nat : p[1] < p[2]}
  BY DEF OpToRel
<1> HIDE DEF R
<1>3. PICK x \in T : \A y \in T : ~(<<y, x>> \in R)
  BY <1>1, WFMin
<1>4. ASSUME NEW y \in T PROVE x <= y
  <2>1. y < x => <<y, x>> \in R
    BY <1>2
  <2> QED
    BY <1>3, <2>1
<1> QED
  BY <1>4

LEMMA SetInduction ==
  ASSUME NEW P \in SUBSET Nat, 0 \in P, \A n \in P : n + 1 \in P
  PROVE  P = Nat
<1> DEFINE T == Nat \ P
<1>1. SUFFICES ASSUME T # {} PROVE FALSE
  OBVIOUS
<1>2. T \in SUBSET Nat
  OBVIOUS
<1>3. PICK x \in T : \A y \in T : x <= y
  BY <1>1, <1>2, LeastNat
<1>4. x \in Nat /\ x # 0 /\ x - 1 \in Nat /\ (x - 1) + 1 = x
  BY <1>3
<1>5. x - 1 \notin T
  BY <1>3, <1>4
<1> QED
  BY <1>3, <1>4, <1>5

(* Counting modulo W step by step, or in one go, is the same. *)
LEMMA DivMod ==
  ASSUME NEW W \in Nat \ {0}, NEW a \in Int
  PROVE  a = W * (a \div W) + (a % W) /\ a % W \in 0..(W - 1) /\ a \div W \in Int
OBVIOUS

LEMMA BelowModulus ==
  ASSUME NEW W \in Nat \ {0}, NEW q \in Int, NEW d \in Int,
         d = W * q, d < W, -W < d
  PROVE  q = 0
<1>1. q >= 1 => W * q >= W
  OBVIOUS
<1>2. q <= -1 => W * q <= -W
  OBVIOUS
<1> QED
  BY <1>1, <1>2

LEMMA RestUnique ==
  ASSUME NEW W \in Nat \ {0}, NEW q \in Int, NEW p \in Int,
         NEW r \in 0..(W - 1), NEW s \in 0..(W - 1), W * q + r = W * p + s
  PROVE  r = s
<1>1. W * (q - p) = W * q - W * p
  OBVIOUS
<1>2. W * (q - p) = s - r
  BY <1>1
<1>3. q - p = 0
  BY <1>2, BelowModulus
<1> QED
  BY <1>2, <1>3

LEMMA ModAdd ==
  ASSUME NEW W \in Nat \ {0}, NEW a \in Nat, NEW k \in Nat
  PROVE  ((a % W) + k) % W = (a + k) % W
<1> DEFINE r == a % W
           q == a \div W
           s == (r + k) % W
           p == (r + k) \div W
           t == (a + k) % W
           u == (a + k) \div W
<1>1. a = W * q + r /\ q \in Int /\ r \in Int
  BY DivMod
<1>2. r + k \in Int /\ a + k \in Int
  BY <1>1
<1>3. a + k = W * u + t /\ u \in Int /\ t \in 0..(W - 1)
  BY <1>2, DivMod
<1>4. r + k = W * p + s /\ p \in Int /\ s \in 0..(W - 1)
  <2> HIDE DEF r
  <2> QED
    BY <1>2, DivMod
<1> HIDE DEF r, q, s, p, t, u
<1>5. W * q + W * p = W * (q + p)
  BY <1>1, <1>4
<1>6. W * (q + p) + s = W * u + t /\ q + p \in Int
  BY <1>1, <1>3, <1>4, <1>5
<1>7. s = t
  BY <1>3, <1>4, <1>6, RestUnique
<1> QED
  BY <1>7 DEF s, t, r
-----------------------------------------------------------------------------
(* The bytes of records: the recursion has a solution, is a number, and    *)
(* adds up over two sequences.                                             *)
Sums(s, f) == \A i \in 0..Len(s) : f[i] = BytesUpTo(s, i, f)

LEMMA SumExists ==
  ASSUME NEW s \in Seq(Record)
  PROVE  \E f : f = [i \in 0..Len(s) |-> BytesUpTo(s, i, f)]
<1> DEFINE Part(k) == \E f : f = [i \in 0..k |-> BytesUpTo(s, i, f)]
           P == {k \in Nat : Part(k)}
<1>1. 0 \in P
  <2> DEFINE f == [i \in 0..0 |-> 0]
  <2>1. \A i \in 0..0 : f[i] = BytesUpTo(s, i, f)
    BY DEF BytesUpTo
  <2>2. f = [i \in 0..0 |-> f[i]]
    OBVIOUS
  <2>3. f = [i \in 0..0 |-> BytesUpTo(s, i, f)]
    BY <2>1, <2>2
  <2> HIDE DEF f
  <2> QED
    BY <2>3
<1>2. ASSUME NEW k \in P PROVE k + 1 \in P
  <2>1. PICK g : g = [i \in 0..k |-> BytesUpTo(s, i, g)]
    OBVIOUS
  <2> DEFINE f == [i \in 0..(k + 1) |-> IF i = k + 1 THEN BytesUpTo(s, i, g) ELSE g[i]]
  <2>2. \A i \in 0..k : f[i] = g[i]
    OBVIOUS
  <2>3. ASSUME NEW i \in 0..(k + 1) PROVE f[i] = BytesUpTo(s, i, f)
    <3>1. i # 0 => i - 1 \in 0..k
      OBVIOUS
    <3>2. BytesUpTo(s, i, f) = BytesUpTo(s, i, g)
      <4>1. i # 0 => f[i - 1] = g[i - 1]
        BY <2>2, <3>1
      <4> HIDE DEF f
      <4> QED
        BY <4>1 DEF BytesUpTo
    <3>3. CASE i = k + 1
      BY <3>2, <3>3
    <3>4. CASE i # k + 1
      <4>1. i \in 0..k
        BY <3>4
      <4>2. g[i] = BytesUpTo(s, i, g)
        BY <2>1, <4>1
      <4> QED
        BY <3>2, <3>4, <4>2
    <3> QED
      BY <3>3, <3>4
  <2>4. f = [i \in 0..(k + 1) |-> f[i]]
    OBVIOUS
  <2>5. f = [i \in 0..(k + 1) |-> BytesUpTo(s, i, f)]
    BY <2>3, <2>4
  <2> HIDE DEF f
  <2>6. Part(k + 1)
    BY <2>5
  <2> QED
    BY <2>6
<1>3. P = Nat
  <2> HIDE DEF P
  <2>1. P \in SUBSET Nat
    BY DEF P
  <2> QED
    BY <1>1, <1>2, <2>1, SetInduction
<1>4. Len(s) \in P
  BY <1>3, LenProperties
<1> QED
  BY <1>4

LEMMA BytesAre ==
  ASSUME NEW s \in Seq(Record)
  PROVE  \E f : Sums(s, f) /\ Bytes(s) = f[Len(s)]
<1> DEFINE f == CHOOSE upTo : upTo = [i \in 0..Len(s) |-> BytesUpTo(s, i, upTo)]
<1>1. f = [i \in 0..Len(s) |-> BytesUpTo(s, i, f)]
  BY SumExists
<1>2. Bytes(s) = f[Len(s)]
  BY DEF Bytes
<1> HIDE DEF f
<1>3. \A i \in 0..Len(s) : f[i] = BytesUpTo(s, i, f)
  BY <1>1
<1> QED
  BY <1>2, <1>3 DEF Sums

LEMMA SumType ==
  ASSUME NEW s \in Seq(Record), NEW f, Sums(s, f)
  PROVE  \A i \in 0..Len(s) : f[i] \in Nat
<1> DEFINE P == {i \in Nat : i <= Len(s) => f[i] \in Nat}
<1>0. Len(s) \in Nat
  BY LenProperties
<1>1. 0 \in P
  <2>1. 0 \in 0..Len(s)
    BY <1>0
  <2> QED
    BY <2>1 DEF Sums, BytesUpTo
<1>2. ASSUME NEW i \in P PROVE i + 1 \in P
  <2> SUFFICES ASSUME i + 1 <= Len(s) PROVE f[i + 1] \in Nat
    OBVIOUS
  <2>1. /\ i \in Nat /\ i + 1 \in 0..Len(s) /\ i + 1 # 0 /\ (i + 1) - 1 = i
        /\ f[i] \in Nat
    BY <1>0
  <2>2. f[i + 1] = f[i] + s[i + 1].size
    BY <2>1 DEF Sums, BytesUpTo
  <2>3. s[i + 1] \in Record
    <3>1. i + 1 \in 1..Len(s)
      BY <2>1
    <3> QED
      BY <3>1, ElementOfSeq
  <2> QED
    BY <2>1, <2>2, <2>3, RecordFields
<1>3. P = Nat
  <2> HIDE DEF P
  <2>1. P \in SUBSET Nat
    BY DEF P
  <2> QED
    BY <1>1, <1>2, <2>1, SetInduction
<1>4. ASSUME NEW i \in 0..Len(s) PROVE f[i] \in Nat
  <2>1. i \in P
    BY <1>3
  <2> QED
    BY <2>1
<1> QED
  BY <1>4

LEMMA JoinedItems ==
  ASSUME NEW s \in Seq(Record), NEW t \in Seq(Record)
  PROVE  /\ s \o t \in Seq(Record) /\ Len(s \o t) = Len(s) + Len(t)
         /\ Len(s) \in Nat /\ Len(t) \in Nat
         /\ \A i \in 1..Len(s) : (s \o t)[i] = s[i]
         /\ \A i \in 1..Len(t) : (s \o t)[Len(s) + i] = t[i]
<1>1. Len(s) \in Nat /\ Len(t) \in Nat
  BY LenProperties
<1>2. /\ s \o t \in Seq(Record) /\ Len(s \o t) = Len(s) + Len(t)
      /\ \A i \in 1..(Len(s) + Len(t)) :
           (s \o t)[i] = IF i <= Len(s) THEN s[i] ELSE t[i - Len(s)]
  BY ConcatProperties
<1>3. ASSUME NEW i \in 1..Len(s) PROVE (s \o t)[i] = s[i]
  BY <1>1, <1>2
<1>4. ASSUME NEW i \in 1..Len(t) PROVE (s \o t)[Len(s) + i] = t[i]
  <2>1. /\ Len(s) + i \in 1..(Len(s) + Len(t)) /\ ~(Len(s) + i <= Len(s))
        /\ (Len(s) + i) - Len(s) = i
    BY <1>1
  <2> QED
    BY <1>2, <2>1
<1> QED
  BY <1>1, <1>2, <1>3, <1>4

LEMMA SumFirst ==
  ASSUME NEW s \in Seq(Record), NEW t \in Seq(Record), NEW f, NEW h,
         Sums(s, f), Sums(s \o t, h)
  PROVE  h[Len(s)] = f[Len(s)]
<1> DEFINE P == {i \in Nat : i <= Len(s) => h[i] = f[i]}
           u == s \o t
<1>0. /\ Len(s) \in Nat /\ Len(t) \in Nat /\ Len(u) = Len(s) + Len(t)
      /\ \A i \in 1..Len(s) : u[i] = s[i]
  BY JoinedItems
<1> HIDE DEF u
<1>1. 0 \in P
  <2>1. 0 \in 0..Len(s) /\ 0 \in 0..Len(u)
    BY <1>0
  <2> QED
    BY <2>1 DEF Sums, BytesUpTo, u
<1>2. ASSUME NEW i \in P PROVE i + 1 \in P
  <2> SUFFICES ASSUME i + 1 <= Len(s) PROVE h[i + 1] = f[i + 1]
    OBVIOUS
  <2>1. /\ i \in Nat /\ i + 1 \in 0..Len(s) /\ i + 1 \in 0..Len(u) /\ i + 1 # 0
        /\ (i + 1) - 1 = i /\ h[i] = f[i]
    BY <1>0
  <2>2. u[i + 1] = s[i + 1]
    BY <1>0, <2>1
  <2>3. f[i + 1] = f[i] + s[i + 1].size
    BY <2>1 DEF Sums, BytesUpTo
  <2>4. h[i + 1] = h[i] + u[i + 1].size
    BY <2>1 DEF Sums, BytesUpTo, u
  <2> QED
    BY <2>1, <2>2, <2>3, <2>4
<1>3. P = Nat
  <2> HIDE DEF P
  <2>1. P \in SUBSET Nat
    BY DEF P
  <2> QED
    BY <1>1, <1>2, <2>1, SetInduction
<1>4. Len(s) \in P
  BY <1>0, <1>3
<1> QED
  BY <1>0, <1>4

Adds(s, t, f, g, h) == h[Len(s \o t)] = f[Len(s)] + g[Len(t)]

LEMMA SumSecond ==
  ASSUME NEW s \in Seq(Record), NEW t \in Seq(Record), NEW f, NEW g, NEW h,
         Sums(s, f), Sums(t, g), Sums(s \o t, h)
  PROVE  Adds(s, t, f, g, h)
<1> DEFINE n == Len(s)
           u == s \o t
           a == f[n]
           P == {i \in Nat : i <= Len(t) => h[n + i] = a + g[i]}
<1>0. /\ n \in Nat /\ Len(t) \in Nat /\ Len(u) = n + Len(t)
      /\ \A i \in 1..Len(t) : u[n + i] = t[i]
  BY JoinedItems
<1>1. a \in Nat /\ \A i \in 0..Len(t) : g[i] \in Nat
  BY <1>0, SumType
<1>2. h[n] = a
  BY SumFirst
<1> HIDE DEF u, n, a
<1>3. 0 \in P
  <2>1. 0 \in 0..Len(t) /\ n + 0 = n
    BY <1>0
  <2>2. g[0] = 0
    BY <2>1 DEF Sums, BytesUpTo
  <2> QED
    BY <1>1, <1>2, <2>1, <2>2
<1>4. ASSUME NEW i \in P PROVE i + 1 \in P
  <2> SUFFICES ASSUME i + 1 <= Len(t) PROVE h[n + (i + 1)] = a + g[i + 1]
    OBVIOUS
  <2> DEFINE j == n + (i + 1)
  <2>1. /\ i \in Nat /\ i \in 0..Len(t) /\ i + 1 \in 0..Len(t) /\ i + 1 # 0
        /\ i + 1 \in 1..Len(t) /\ (i + 1) - 1 = i
        /\ j \in 0..Len(u) /\ j # 0 /\ j - 1 = n + i
    BY <1>0
  <2>2. h[n + i] = a + g[i] /\ u[j] = t[i + 1]
    BY <1>0, <2>1
  <2> HIDE DEF j
  <2>3. g[i + 1] = g[i] + t[i + 1].size
    BY <2>1 DEF Sums, BytesUpTo
  <2>4. h[j] = h[n + i] + u[j].size
    BY <2>1 DEF Sums, BytesUpTo, u
  <2>5. t[i + 1] \in Record
    BY <2>1, ElementOfSeq
  <2>6. g[i] \in Nat /\ t[i + 1].size \in Nat
    BY <1>1, <2>1, <2>5, RecordFields
  <2>7. h[j] = a + g[i + 1]
    BY <1>1, <2>2, <2>3, <2>4, <2>6
  <2> QED
    BY <2>7 DEF j
<1>5. P = Nat
  <2> HIDE DEF P
  <2>1. P \in SUBSET Nat
    BY DEF P
  <2> QED
    BY <1>3, <1>4, <2>1, SetInduction
<1>6. Len(t) \in P
  BY <1>0, <1>5
<1>7. h[n + Len(t)] = a + g[Len(t)]
  <2>1. Len(t) <= Len(t)
    BY <1>0
  <2> QED
    BY <1>6, <2>1
<1>8. Len(s \o t) = n + Len(t)
  BY <1>0 DEF u
<1> QED
  BY <1>7, <1>8 DEF n, a, Adds

LEMMA BytesType ==
  ASSUME NEW s \in Seq(Record)
  PROVE  Bytes(s) \in Nat
<1>1. PICK f : Sums(s, f) /\ Bytes(s) = f[Len(s)]
  BY BytesAre
<1>2. Len(s) \in 0..Len(s)
  BY LenProperties
<1> QED
  BY <1>1, <1>2, SumType

LEMMA BytesConcat ==
  ASSUME NEW s \in Seq(Record), NEW t \in Seq(Record)
  PROVE  Bytes(s \o t) = Bytes(s) + Bytes(t)
<1>1. PICK f : Sums(s, f) /\ Bytes(s) = f[Len(s)]
  BY BytesAre
<1>2. PICK g : Sums(t, g) /\ Bytes(t) = g[Len(t)]
  BY BytesAre
<1>3. s \o t \in Seq(Record)
  BY JoinedItems
<1>4. PICK h : Sums(s \o t, h) /\ Bytes(s \o t) = h[Len(s \o t)]
  BY <1>3, BytesAre
<1>5. Adds(s, t, f, g, h)
  BY <1>1, <1>2, <1>4, SumSecond
<1> QED
  BY <1>1, <1>2, <1>4, <1>5 DEF Adds

LEMMA NoRecords == <<>> \in Seq(Record) /\ Len(<<>>) = 0
OBVIOUS

LEMMA BytesEmpty == Bytes(<<>>) = 0
<1>1. PICK f : Sums(<<>>, f) /\ Bytes(<<>>) = f[Len(<<>>)]
  BY BytesAre, NoRecords
<1>2. Len(<<>>) = 0 /\ 0 \in 0..0
  OBVIOUS
<1> QED
  BY <1>1, <1>2 DEF Sums, BytesUpTo

LEMMA BytesOne ==
  ASSUME NEW r \in Record
  PROVE  Bytes(<<r>>) = r.size
<1> DEFINE s == <<r>>
<1>1. s \in Seq(Record) /\ Len(s) = 1 /\ s[1] = r
  OBVIOUS
<1> HIDE DEF s
<1>2. PICK f : Sums(s, f) /\ Bytes(s) = f[Len(s)]
  BY <1>1, BytesAre
<1>3. 0 \in 0..Len(s) /\ 1 \in 0..Len(s) /\ 1 # 0 /\ 1 - 1 = 0
  BY <1>1
<1>4. f[0] = 0
  BY <1>2, <1>3 DEF Sums, BytesUpTo
<1>5. f[1] = f[0] + s[1].size
  BY <1>2, <1>3 DEF Sums, BytesUpTo
<1>6. r.size \in Nat
  BY RecordFields
<1> QED
  BY <1>1, <1>2, <1>4, <1>5, <1>6 DEF s

LEMMA BytesAppend ==
  ASSUME NEW s \in Seq(Record), NEW r \in Record
  PROVE  Append(s, r) \in Seq(Record) /\ Bytes(Append(s, r)) = Bytes(s) + r.size
<1> DEFINE t == <<r>>
<1>1. t \in Seq(Record) /\ Bytes(t) = r.size
  BY BytesOne
<1>2. Append(s, r) = s \o t
  BY AppendIsConcat
<1> HIDE DEF t
<1> QED
  BY <1>1, <1>2, BytesConcat, JoinedItems

(* Records taken from the front, and what they leave *)
LEMMA BytesCut ==
  ASSUME NEW s \in Seq(Record), NEW k \in 0..Len(s)
  PROVE  LET gone == SubSeq(s, 1, k)
             kept == SubSeq(s, k + 1, Len(s))
         IN  /\ gone \in Seq(Record) /\ Len(gone) = k
             /\ \A i \in 1..k : gone[i] = s[i]
             /\ kept \in Seq(Record) /\ Len(kept) = Len(s) - k
             /\ \A i \in 1..(Len(s) - k) : kept[i] = s[k + i]
             /\ Bytes(s) = Bytes(gone) + Bytes(kept)
<1> DEFINE n == Len(s)
           gone == SubSeq(s, 1, k)
           kept == SubSeq(s, k + 1, n)
<1>1. n \in Nat /\ k \in 0..n
  BY LenProperties
<1>2. \A i \in 1..k : s[i] \in Record
  BY <1>1, ElementOfSeq
<1>3. \A i \in k + 1..n : s[i] \in Record
  BY <1>1, ElementOfSeq
<1>4. /\ gone \in Seq(Record) /\ Len(gone) = k
      /\ \A i \in 1..k : gone[i] = s[i]
  <2>1. /\ gone \in Seq(Record) /\ Len(gone) = IF 1 <= k THEN k - 1 + 1 ELSE 0
        /\ \A i \in 1..(k - 1 + 1) : gone[i] = s[1 + i - 1]
    BY <1>1, <1>2, SubSeqProperties
  <2> HIDE DEF gone
  <2> QED
    BY <1>1, <2>1
<1>5. /\ kept \in Seq(Record) /\ Len(kept) = n - k
      /\ \A i \in 1..(n - k) : kept[i] = s[k + i]
  <2>1. /\ kept \in Seq(Record)
        /\ Len(kept) = IF k + 1 <= n THEN n - (k + 1) + 1 ELSE 0
        /\ \A i \in 1..(n - (k + 1) + 1) : kept[i] = s[(k + 1) + i - 1]
    BY <1>1, <1>3, SubSeqProperties
  <2> HIDE DEF kept, n
  <2>2. n - (k + 1) + 1 = n - k /\ \A i \in 1..(n - k) : (k + 1) + i - 1 = k + i
    BY <1>1
  <2> QED
    BY <1>1, <2>1, <2>2
<1>6. gone \o kept = s
  <2>1. 1 \in 1..n + 1 /\ k \in 1 - 1..n /\ n \in k..n
    BY <1>1
  <2>2. gone \o kept = SubSeq(s, 1, n)
    BY <2>1, ConcatAdjacentSubSeq
  <2> QED
    BY <2>2, SubSeqFull
<1>7. Bytes(s) = Bytes(gone) + Bytes(kept)
  <2> HIDE DEF gone, kept
  <2> QED
    BY <1>4, <1>5, <1>6, BytesConcat
<1> QED
  BY <1>4, <1>5, <1>7
-----------------------------------------------------------------------------
(* Out of the ring are the lines up to Out, and those in it follow one     *)
(* another up to the last one stored: what is lost is out of it, and       *)
(* nothing else is counted.                                                *)
Out  == stored - Len(ring)
Busy == {t \in Tasks : pending[t] # 0}

RingInv ==
  /\ ring \in Seq(Record)
  /\ used = Bytes(ring) /\ used <= RingSize
  /\ stored \in 0..MaxLines /\ Len(ring) <= stored
  /\ \A i \in 1..Len(ring) : ring[i].id = Out + i
  /\ lost \subseteq 1..Out
  /\ dropped = Cardinality(lost) % Wrap

(* The lines in the hands of their tasks have room within the bound. *)
BoundInv ==
  /\ pending \in [Tasks -> Sizes \cup {0}]
  /\ stored + Cardinality(Busy) <= MaxLines

FlushInv ==
  /\ phase \in {"idle", "open", "fill", "built"}
  /\ phase \in {"idle", "open"} => lines = <<>>
  /\ phase = "built" => lines # <<>>
  /\ left \in 0..2 /\ (phase # "idle" => left # 0)
  /\ inLog \in BOOLEAN /\ (inLog <=> phase \in {"open", "fill"})
  /\ hostKnown \in BOOLEAN /\ seq \in 0..(Wrap - 1) /\ hdr \in 0..(Wrap - 1)

(* Every line out of the ring went into a datagram already sent, is in the *)
(* one being filled, or is lost.                                           *)
DatagramInv ==
  /\ lines \in Seq(Record) /\ Bytes(lines) <= PacketSize
  /\ prevLast \in 0..Out
  /\ \A i, j \in 1..Len(lines) : i < j => lines[i].id < lines[j].id
  /\ \A i \in 1..Len(lines) : prevLast < lines[i].id /\ lines[i].id <= Out
  /\ \A n \in (prevLast + 1)..Out : n \in Ids(lines) \/ n \in lost

(* The dropped field is a count between the losses up to the datagram      *)
(* before and the losses up to the first line of this one; until it has a  *)
(* line that is every loss so far.                                         *)
Losses == IF lines = <<>> THEN Cardinality(lost) ELSE Missing(lines[1].id)

GapInv ==
  phase \in {"fill", "built"} =>
    \E d \in Nat : Missing(prevLast) <= d /\ d <= Losses /\ d % Wrap = hdr

IInv == RingInv /\ BoundInv /\ FlushInv /\ DatagramInv /\ GapInv

LEMMA LostType ==
  ASSUME RingInv
  PROVE  /\ IsFiniteSet(lost) /\ Cardinality(lost) \in Nat
         /\ Out \in 0..MaxLines /\ Len(ring) \in Nat /\ stored \in Nat
         /\ \A n \in lost : n \in Int /\ 1 <= n /\ n <= Out
<1>1. Len(ring) \in Nat /\ stored \in 0..MaxLines /\ Len(ring) <= stored
  BY LenProperties DEF RingInv
<1>2. Out \in 0..MaxLines
  BY <1>1, MaxLinesAssumption DEF Out
<1>3. lost \subseteq 1..Out
  BY DEF RingInv
<1>4. IsFiniteSet(1..Out)
  BY <1>2, FS_Interval
<1>5. IsFiniteSet(lost)
  BY <1>3, <1>4, FS_Subset
<1>6. Cardinality(lost) \in Nat
  BY <1>5, FS_CardinalityType
<1> QED
  BY <1>1, <1>2, <1>3, <1>5, <1>6

(* The losses before a line are as many or fewer than those before a later *)
(* one, and than all of them.                                              *)
LEMMA MissingGrows ==
  ASSUME IsFiniteSet(lost)
  PROVE  \A m, n : /\ Missing(m) \in Nat
                   /\ Missing(m) <= Cardinality(lost)
                   /\ (\A i \in lost : i < m => i < n) => Missing(m) <= Missing(n)
<1> SUFFICES ASSUME NEW m, NEW n
             PROVE  /\ Missing(m) \in Nat
                    /\ Missing(m) <= Cardinality(lost)
                    /\ (\A i \in lost : i < m => i < n) => Missing(m) <= Missing(n)
  OBVIOUS
<1> DEFINE A == {i \in lost : i < m}
           B == {i \in lost : i < n}
<1>1. A \in SUBSET lost /\ B \in SUBSET lost
  OBVIOUS
<1>2. (\A i \in lost : i < m => i < n) => A \in SUBSET B
  OBVIOUS
<1>3. Missing(m) = Cardinality(A) /\ Missing(n) = Cardinality(B)
  BY DEF Missing
<1> HIDE DEF A, B
<1>4. IsFiniteSet(A) /\ IsFiniteSet(B) /\ Cardinality(A) <= Cardinality(lost)
  BY <1>1, FS_Subset
<1>5. Cardinality(A) \in Nat
  BY <1>4, FS_CardinalityType
<1>6. A \in SUBSET B => Cardinality(A) <= Cardinality(B)
  BY <1>4, FS_Subset
<1> QED
  BY <1>2, <1>3, <1>4, <1>5, <1>6
-----------------------------------------------------------------------------
(* What a step leaves alone keeps its part of the invariant. *)
LEMMA RingKept == RingInv /\ UNCHANGED ringVars => RingInv'
BY DEF RingInv, Out, ringVars

LEMMA BoundKept == BoundInv /\ UNCHANGED <<pending, stored>> => BoundInv'
BY DEF BoundInv, Busy

LEMMA DatagramKept ==
  DatagramInv /\ UNCHANGED <<ring, stored, lost, lines, prevLast>> => DatagramInv'
BY DEF DatagramInv, Out, Ids

LEMMA GapKept ==
  ASSUME GapInv, UNCHANGED <<lost, lines, prevLast, hdr>>,
         phase' \in {"fill", "built"} => phase \in {"fill", "built"}
  PROVE  GapInv'
BY DEF GapInv, Losses, Missing

LEMMA NextCount == \A n \in 0..(Wrap - 1) : (n + 1) % Wrap \in 0..(Wrap - 1)
<1> TAKE n \in 0..(Wrap - 1)
<1>1. n + 1 \in Int
  BY WrapAssumption
<1> QED
  BY <1>1, WrapAssumption, DivMod

LEMMA InitHolds == Init => IInv
<1> SUFFICES ASSUME Init PROVE IInv
  OBVIOUS
<1>1. RingInv
  <2>1. 0 % Wrap = 0 /\ Cardinality({}) = 0
    BY WrapAssumption, FS_EmptySet
  <2> QED
    BY <2>1, NoRecords, BytesEmpty, RoomAssumption, MaxLinesAssumption
    DEF Init, RingInv
<1>2. BoundInv
  <2>1. Busy = {}
    BY DEF Init, Busy
  <2> QED
    BY <2>1, FS_EmptySet, MaxLinesAssumption DEF Init, BoundInv
<1>3. FlushInv
  <2>1. 0 \in 0..(Wrap - 1) /\ 0 \in 0..2
    BY WrapAssumption
  <2> QED
    BY <2>1 DEF Init, FlushInv
<1>4. DatagramInv
  BY NoRecords, BytesEmpty, RoomAssumption DEF Init, DatagramInv, Out
<1>5. GapInv
  BY DEF Init, GapInv
<1> QED
  BY <1>1, <1>2, <1>3, <1>4, <1>5 DEF IInv

(* Evicting every record would make room, so some least number does. *)
LEMMA EvictedIs ==
  ASSUME RingInv, NEW size \in Sizes
  PROVE  /\ Evicted(size) \in 0..Len(ring)
         /\ used - Bytes(SubSeq(ring, 1, Evicted(size))) + size <= RingSize
<1> DEFINE n == Len(ring)
           Room(k) == used - Bytes(SubSeq(ring, 1, k)) + size <= RingSize
           T == {k \in 0..n : Room(k)}
<1>1. /\ ring \in Seq(Record) /\ n \in Nat /\ used = Bytes(ring) /\ used \in Nat
      /\ size \in Nat /\ size <= RingSize /\ RingSize \in Nat
  BY LenProperties, BytesType, SizesAssumption, RoomAssumption DEF RingInv
<1>2. \A k \in 0..n : Bytes(SubSeq(ring, 1, k)) \in Nat
  BY <1>1, BytesCut, BytesType
<1>3. n \in T
  <2>1. SubSeq(ring, 1, n) = ring
    BY <1>1, SubSeqFull
  <2>2. used - used + size <= RingSize
    BY <1>1
  <2>3. Bytes(SubSeq(ring, 1, n)) = used
    BY <1>1, <2>1
  <2>4. Room(n) /\ n \in 0..n
    BY <1>1, <2>2, <2>3
  <2> HIDE DEF Room
  <2> QED
    BY <2>4
<1>4. PICK k \in T : \A j \in T : k <= j
  <2>1. T \in SUBSET Nat
    BY <1>1
  <2> HIDE DEF T
  <2> QED
    BY <1>3, <2>1, LeastNat
<1>5. ASSUME NEW j \in 0..(k - 1)
      PROVE  used - Bytes(SubSeq(ring, 1, j)) + size > RingSize
  <2>1. j \in 0..n /\ ~(k <= j)
    BY <1>1, <1>4
  <2>2. ~Room(j)
    BY <1>4, <2>1
  <2>3. Bytes(SubSeq(ring, 1, j)) \in Nat
    BY <1>2, <2>1
  <2> DEFINE b == Bytes(SubSeq(ring, 1, j))
  <2>4. ~(used - b + size <= RingSize) /\ b \in Nat
    BY <2>2, <2>3
  <2> HIDE DEF b
  <2>5. used - b + size > RingSize
    BY <1>1, <2>4
  <2> QED
    BY <2>5 DEF b
<1>6. k \in 0..n /\ Room(k)
  BY <1>4
<1>7. \E m \in 0..Len(ring) :
        /\ used - Bytes(SubSeq(ring, 1, m)) + size <= RingSize
        /\ \A j \in 0..(m - 1) : used - Bytes(SubSeq(ring, 1, j)) + size > RingSize
  BY <1>5, <1>6
<1> QED
  BY <1>7 DEF Evicted

LEMMA WriteHolds ==
  ASSUME IInv, NEW t \in Tasks, NEW size \in Sizes, Write(t, size)
  PROVE  IInv'
<1>1. /\ pending \in [Tasks -> Sizes \cup {0}] /\ pending[t] = 0
      /\ stored + Cardinality(Busy) < MaxLines
      /\ pending' = [pending EXCEPT ![t] = size]
      /\ UNCHANGED <<ringVars, flushVars, seq, inLog, hostKnown>>
  BY DEF IInv, BoundInv, Write, MayLog, Busy
<1>2. size # 0 /\ stored \in Nat
  BY SizesAssumption, RoomAssumption, MaxLinesAssumption DEF IInv, RingInv
<1>3. Busy' = Busy \cup {t} /\ t \notin Busy
  BY <1>1, <1>2 DEF Busy
<1>4. IsFiniteSet(Busy) /\ Cardinality(Busy) \in Nat
  <2>1. IsFiniteSet(Tasks) /\ Busy \in SUBSET Tasks
    BY CommAssumption DEF Busy
  <2> QED
    BY <2>1, FS_Subset, FS_CardinalityType
<1>5. Cardinality(Busy') = Cardinality(Busy) + 1
  BY <1>3, <1>4, FS_AddElement
<1>6. BoundInv'
  <2>1. pending' \in [Tasks -> Sizes \cup {0}]
    BY <1>1
  <2>2. stored' + Cardinality(Busy') <= MaxLines
    BY <1>1, <1>2, <1>4, <1>5, MaxLinesAssumption DEF ringVars
  <2> QED
    BY <2>1, <2>2 DEF BoundInv
<1>7. RingInv'
  BY <1>1, RingKept DEF IInv
<1>8. DatagramInv' /\ GapInv'
  BY <1>1, DatagramKept, GapKept DEF IInv, ringVars, flushVars
<1>9. FlushInv'
  BY <1>1 DEF IInv, FlushInv, flushVars
<1> QED
  BY <1>6, <1>7, <1>8, <1>9 DEF IInv

(* The lines evicted are the next ones after those already out. *)
LEMMA PushHolds ==
  ASSUME IInv, NEW t \in Tasks, Push(t)
  PROVE  IInv'
<1> DEFINE size == pending[t]
           k    == Evicted(size)
           n    == Len(ring)
           gone == SubSeq(ring, 1, k)
           kept == SubSeq(ring, k + 1, n)
           new  == [id |-> stored + 1, size |-> size]
<1>1. /\ size # 0 /\ ring' = Append(kept, new)
      /\ used' = used - Bytes(gone) + size
      /\ dropped' = (dropped + k) % Wrap
      /\ lost' = lost \cup Ids(gone)
      /\ stored' = stored + 1
      /\ pending' = [pending EXCEPT ![t] = 0]
      /\ UNCHANGED <<flushVars, seq, inLog, hostKnown>>
  BY DEF Push
<1>2. /\ ring \in Seq(Record) /\ used = Bytes(ring) /\ n <= stored
      /\ \A i \in 1..n : ring[i].id = Out + i
      /\ lost \subseteq 1..Out /\ dropped = Cardinality(lost) % Wrap
      /\ Out = stored - n
  BY DEF IInv, RingInv, Out
<1>3. /\ IsFiniteSet(lost) /\ Cardinality(lost) \in Nat
      /\ Out \in 0..MaxLines /\ n \in Nat /\ stored \in Nat
      /\ \A m \in lost : m \in Int /\ 1 <= m /\ m <= Out
  BY LostType DEF IInv
<1>4. size \in Sizes /\ size \in Nat
  <2>1. size \in Sizes
    BY <1>1 DEF IInv, BoundInv
  <2> QED
    BY <2>1, SizeType
<1>5. k \in 0..n /\ used - Bytes(gone) + size <= RingSize
  BY <1>4, EvictedIs DEF IInv
<1> HIDE DEF k, size
<1>6. /\ gone \in Seq(Record) /\ Len(gone) = k
      /\ \A i \in 1..k : gone[i] = ring[i]
      /\ kept \in Seq(Record) /\ Len(kept) = n - k
      /\ \A i \in 1..(n - k) : kept[i] = ring[k + i]
      /\ Bytes(ring) = Bytes(gone) + Bytes(kept)
  BY <1>2, <1>5, BytesCut
<1>7. Bytes(gone) \in Nat /\ Bytes(kept) \in Nat
  BY <1>6, BytesType
<1>8. /\ IsFiniteSet(Busy) /\ Cardinality(Busy) \in Nat /\ t \in Busy
      /\ stored + Cardinality(Busy) <= MaxLines
  <2>1. IsFiniteSet(Tasks) /\ Busy \in SUBSET Tasks /\ t \in Busy
    BY <1>1, CommAssumption DEF Busy, size
  <2> QED
    BY <2>1, FS_Subset, FS_CardinalityType DEF IInv, BoundInv
<1>9. Busy' = Busy \ {t}
  BY <1>1 DEF Busy, IInv, BoundInv
<1>10. Cardinality(Busy') = Cardinality(Busy) - 1
  BY <1>8, <1>9, FS_RemoveElement
<1>11. stored + 1 \in 1..MaxLines
  <2>1. Cardinality(Busy) # 0
    BY <1>8, FS_EmptySet
  <2> QED
    BY <1>3, <1>8, <2>1, MaxLinesAssumption
<1>12. new \in Record /\ new.size = size /\ new.id = stored + 1
  BY <1>4, <1>11 DEF Record
<1> HIDE DEF new, gone, kept
<1>13. /\ ring' \in Seq(Record) /\ Bytes(ring') = Bytes(kept) + size
       /\ Len(ring') = (n - k) + 1
       /\ \A i \in 1..(n - k) : ring'[i] = kept[i]
       /\ ring'[(n - k) + 1] = new
  BY <1>1, <1>6, <1>12, BytesAppend, AppendProperties
<1>14. Out' = Out + k /\ k \in Nat /\ Out' \in Nat
  <2>1. Out' = stored' - Len(ring')
    BY DEF Out
  <2>2. stored' = stored + 1 /\ Len(ring') = (n - k) + 1 /\ Out = stored - n
    BY <1>1, <1>2, <1>13
  <2> HIDE DEF n
  <2> QED
    BY <1>3, <1>5, <2>1, <2>2
<1>15. Ids(gone) = (Out + 1)..(Out + k)
  <2>1. DOMAIN gone = 1..k
    BY <1>6, LenProperties
  <2>2. \A i \in 1..k : gone[i].id = Out + i
    <3> TAKE i \in 1..k
    <3>1. i \in 1..n
      BY <1>3, <1>5
    <3>2. gone[i] = ring[i] /\ ring[i].id = Out + i
      BY <1>2, <1>6, <3>1
    <3> QED
      BY <3>2
  <2>3. Ids(gone) = {Out + i : i \in 1..k}
    BY <2>1, <2>2 DEF Ids
  <2>4. \A m \in (Out + 1)..(Out + k) : m - Out \in 1..k /\ Out + (m - Out) = m
    BY <1>3, <1>14
  <2>5. \A i \in 1..k : Out + i \in (Out + 1)..(Out + k)
    BY <1>3, <1>14
  <2> QED
    BY <2>3, <2>4, <2>5
<1>16. /\ IsFiniteSet(lost') /\ Cardinality(lost') = Cardinality(lost) + k
       /\ lost' \subseteq 1..Out'
  <2>1. /\ IsFiniteSet(Ids(gone)) /\ Cardinality(Ids(gone)) = k
    <3> DEFINE a == Out + 1
               b == Out + k
    <3>1. a \in Int /\ b \in Int /\ b - a + 1 = k /\ (a > b => k = 0)
      BY <1>3, <1>14
    <3>2. Ids(gone) = a..b
      BY <1>15
    <3> HIDE DEF a, b
    <3>3. IsFiniteSet(a..b) /\ Cardinality(a..b) = IF a > b THEN 0 ELSE b - a + 1
      BY <3>1, FS_Interval
    <3> QED
      BY <3>1, <3>2, <3>3
  <2>2. lost \cap Ids(gone) = {}
    BY <1>3, <1>14, <1>15
  <2>3. /\ IsFiniteSet(lost \cup Ids(gone))
        /\ Cardinality(lost \cup Ids(gone))
             = Cardinality(lost) + k - Cardinality(lost \cap Ids(gone))
    BY <1>3, <2>1, FS_Union
  <2>4. lost' \subseteq 1..Out'
    BY <1>1, <1>3, <1>14, <1>15
  <2>5. Cardinality(lost \cap Ids(gone)) = 0
    BY <2>2, FS_EmptySet
  <2> QED
    BY <1>1, <1>3, <1>14, <2>3, <2>4, <2>5
<1>17. RingInv'
  <2>1. used' = Bytes(ring') /\ used' <= RingSize
    BY <1>1, <1>2, <1>4, <1>5, <1>6, <1>7, <1>13, SMTT(60)
  <2>2. stored' \in 0..MaxLines /\ Len(ring') <= stored'
    BY <1>1, <1>2, <1>3, <1>5, <1>11, <1>13
  <2>3. ASSUME NEW i \in 1..Len(ring') PROVE ring'[i].id = Out' + i
    <3>1. CASE i \in 1..(n - k)
      <4>1. k + i \in 1..n /\ Out + (k + i) = (Out + k) + i
        BY <1>3, <1>14, <3>1
      <4>2. ring'[i] = ring[k + i]
        BY <1>6, <1>13, <3>1
      <4>3. ring[k + i].id = Out + (k + i)
        BY <1>2, <4>1
      <4> QED
        BY <1>14, <4>1, <4>2, <4>3
    <3>2. CASE i = (n - k) + 1
      <4>1. (Out + k) + i = stored + 1
        BY <1>2, <1>3, <1>14, <3>2
      <4> QED
        BY <1>12, <1>13, <1>14, <3>2, <4>1
    <3> QED
      BY <1>3, <1>13, <1>14, <3>1, <3>2
  <2>4. dropped' = Cardinality(lost') % Wrap
    <3> DEFINE c == Cardinality(lost)
    <3>1. c \in Nat /\ Cardinality(lost') = c + k /\ dropped' = ((c % Wrap) + k) % Wrap
      BY <1>1, <1>2, <1>3, <1>16
    <3> HIDE DEF c
    <3>2. ((c % Wrap) + k) % Wrap = (c + k) % Wrap
      BY <1>14, <3>1, WrapAssumption, ModAdd
    <3> QED
      BY <3>1, <3>2
  <2> QED
    BY <1>13, <1>16, <2>1, <2>2, <2>3, <2>4 DEF RingInv
<1>18. BoundInv'
  <2>1. pending' \in [Tasks -> Sizes \cup {0}]
    BY <1>1 DEF IInv, BoundInv
  <2> QED
    BY <1>1, <1>3, <1>8, <1>10, <2>1, MaxLinesAssumption DEF BoundInv
<1>19. FlushInv'
  BY <1>1 DEF IInv, FlushInv, flushVars
<1>20. DatagramInv'
  <2>1. /\ lines' = lines /\ prevLast' = prevLast /\ Ids(lines)' = Ids(lines)
        /\ prevLast \in 0..Out
    BY <1>1 DEF flushVars, IInv, DatagramInv, Ids
  <2>2. prevLast \in 0..Out'
    BY <1>3, <1>14, <2>1
  <2>3. \A i \in 1..Len(lines) : prevLast < lines[i].id /\ lines[i].id <= Out'
    <3> TAKE i \in 1..Len(lines)
    <3>1. lines[i] \in Record /\ prevLast < lines[i].id /\ lines[i].id <= Out
      BY ElementOfSeq DEF IInv, DatagramInv
    <3> QED
      BY <1>3, <1>14, <3>1, RecordFields, MaxLinesAssumption
  <2>4. \A m \in (prevLast + 1)..Out' : m \in Ids(lines) \/ m \in lost'
    <3> TAKE m \in (prevLast + 1)..Out'
    <3>1. m \in (prevLast + 1)..Out \/ m \in (Out + 1)..(Out + k)
      BY <1>3, <1>14, <2>1
    <3> QED
      BY <1>1, <1>15, <3>1 DEF IInv, DatagramInv
  <2> QED
    BY <2>1, <2>2, <2>3, <2>4 DEF IInv, DatagramInv
<1>21. GapInv'
  <2> SUFFICES ASSUME phase' \in {"fill", "built"}
               PROVE  \E d \in Nat : /\ Missing(prevLast)' <= d /\ d <= Losses'
                                     /\ d % Wrap = hdr'
    BY DEF GapInv
  <2>1. /\ phase' = phase /\ lines' = lines /\ prevLast' = prevLast /\ hdr' = hdr
    BY <1>1 DEF flushVars
  <2>2. ASSUME NEW m \in Int, m <= Out PROVE Missing(m)' = Missing(m)
    <3>1. {i \in lost' : i < m} = {i \in lost : i < m}
      BY <1>1, <1>3, <1>14, <1>15, <2>2
    <3> QED
      BY <3>1 DEF Missing
  <2>3. PICK d \in Nat : Missing(prevLast) <= d /\ d <= Losses /\ d % Wrap = hdr
    BY <2>1 DEF IInv, GapInv
  <2>4. Missing(prevLast)' = Missing(prevLast)
    <3>1. prevLast \in Int /\ prevLast <= Out
      BY <1>3 DEF IInv, DatagramInv
    <3>2. Missing(prevLast)' = Cardinality({i \in lost' : i < prevLast})
      BY <2>1 DEF Missing
    <3>3. {i \in lost' : i < prevLast} = {i \in lost : i < prevLast}
      BY <1>1, <1>3, <1>14, <1>15, <3>1
    <3> QED
      BY <3>2, <3>3 DEF Missing
  <2>5. d <= Losses'
    <3>1. CASE lines = <<>>
      <4>1. Losses = Cardinality(lost) /\ Losses' = Cardinality(lost')
        BY <2>1, <3>1 DEF Losses
      <4> QED
        BY <1>3, <1>14, <1>16, <2>3, <4>1
    <3>2. CASE lines # <<>>
      <4> DEFINE m == lines[1].id
      <4>1. m \in Int /\ m <= Out
        <5>1. lines \in Seq(Record) /\ 1 \in 1..Len(lines)
          BY <3>2, EmptySeq, LenProperties DEF IInv, DatagramInv
        <5> QED
          BY <5>1, ElementOfSeq, RecordFields, MaxLinesAssumption DEF IInv, DatagramInv
      <4>2. Losses = Missing(m) /\ Losses' = Cardinality({i \in lost' : i < m})
        BY <2>1, <3>2 DEF Losses, Missing
      <4> HIDE DEF m
      <4>3. {i \in lost' : i < m} = {i \in lost : i < m}
        BY <1>1, <1>3, <1>14, <1>15, <4>1
      <4> QED
        BY <2>3, <4>2, <4>3 DEF Missing
    <3> QED
      BY <3>1, <3>2
  <2> QED
    BY <2>1, <2>3, <2>4, <2>5
<1> QED
  BY <1>17, <1>18, <1>19, <1>20, <1>21 DEF IInv

(* The record that goes into the datagram is the next line out. *)
LEMMA PopHolds ==
  ASSUME IInv, Pop
  PROVE  IInv'
<1> DEFINE n == Len(ring)
           r == ring[1]
           m == Len(lines)
<1>1. /\ phase = "fill" /\ used # 0 /\ Bytes(lines) + r.size <= PacketSize
      /\ lines' = Append(lines, Head(ring)) /\ ring' = Tail(ring)
      /\ used' = used - Head(ring).size
      /\ UNCHANGED <<dropped, stored, lost, phase, left, hdr, prevLast, seq,
                     inLog, pending, hostKnown>>
  BY DEF Pop, Fits
<1>2. /\ ring \in Seq(Record) /\ used = Bytes(ring) /\ used <= RingSize
      /\ n <= stored /\ Out = stored - n
      /\ \A i \in 1..n : ring[i].id = Out + i
      /\ lost \subseteq 1..Out /\ dropped = Cardinality(lost) % Wrap
  BY DEF IInv, RingInv, Out
<1>3. /\ IsFiniteSet(lost) /\ Cardinality(lost) \in Nat
      /\ Out \in 0..MaxLines /\ n \in Nat /\ stored \in 0..MaxLines
      /\ \A i \in lost : i \in Int /\ 1 <= i /\ i <= Out
  BY LostType DEF IInv, RingInv
<1>4. ring # <<>>
  BY <1>1, <1>2, BytesEmpty
<1>5. 1 \in 1..n /\ Len(ring) # 0
  BY <1>2, <1>3, <1>4, EmptySeq
<1>6. r \in Record /\ Head(ring) = r /\ r.id = Out + 1
  BY <1>2, <1>4, <1>5, ElementOfSeq
<1>7. r.size \in Nat /\ r.size <= PacketSize
  BY <1>6, RecordFields
<1>8. /\ ring' \in Seq(Record) /\ Len(ring') = n - 1
      /\ \A i \in 1..(n - 1) : ring'[i] = ring[1 + i]
      /\ Bytes(ring) = r.size + Bytes(ring') /\ Bytes(ring') \in Nat
  <2> DEFINE gone == SubSeq(ring, 1, 1)
             kept == SubSeq(ring, 1 + 1, Len(ring))
  <2>1. /\ gone \in Seq(Record) /\ Len(gone) = 1 /\ gone[1] = r
        /\ kept \in Seq(Record) /\ Len(kept) = n - 1
        /\ \A i \in 1..(n - 1) : kept[i] = ring[1 + i]
        /\ Bytes(ring) = Bytes(gone) + Bytes(kept)
    <3>1. 1 \in 0..Len(ring)
      BY <1>3, <1>5
    <3>2. /\ gone \in Seq(Record) /\ Len(gone) = 1
          /\ \A i \in 1..1 : gone[i] = ring[i]
          /\ kept \in Seq(Record) /\ Len(kept) = n - 1
          /\ \A i \in 1..(n - 1) : kept[i] = ring[1 + i]
          /\ Bytes(ring) = Bytes(gone) + Bytes(kept)
      BY <1>2, <3>1, BytesCut
    <3> HIDE DEF gone, kept
    <3> QED
      BY <3>2
  <2>2. ring' = kept
    BY <1>1, <1>2, <1>4, TailIsSubSeq
  <2> HIDE DEF gone, kept, r
  <2>3. gone = <<r>>
    BY <2>1
  <2>4. Bytes(gone) = r.size /\ Bytes(kept) \in Nat
    BY <1>6, <2>1, <2>3, BytesOne, BytesType
  <2> QED
    BY <2>1, <2>2, <2>4
<1> HIDE DEF r
<1>9. Out' = Out + 1 /\ Out' \in 0..MaxLines
  <2>1. Out' = stored' - Len(ring')
    BY DEF Out
  <2>2. Out' = stored - (n - 1)
    BY <1>1, <1>8, <2>1
  <2> HIDE DEF n
  <2> QED
    BY <1>2, <1>3, <1>5, <2>2, MaxLinesAssumption
<1>10. RingInv'
  <2>1. used' = Bytes(ring') /\ used' <= RingSize
    BY <1>1, <1>2, <1>6, <1>7, <1>8, RoomAssumption
  <2>2. stored' \in 0..MaxLines /\ Len(ring') <= stored'
    BY <1>1, <1>2, <1>3, <1>8
  <2>3. ASSUME NEW i \in 1..Len(ring') PROVE ring'[i].id = Out' + i
    <3>1. i \in 1..(n - 1) /\ 1 + i \in 1..n /\ Out + (1 + i) = (Out + 1) + i
      BY <1>3, <1>8
    <3>2. ring'[i] = ring[1 + i] /\ ring[1 + i].id = Out + (1 + i)
      BY <1>2, <1>8, <3>1
    <3> QED
      BY <1>9, <3>1, <3>2
  <2>4. lost' \subseteq 1..Out'
    BY <1>1, <1>3, <1>9
  <2> QED
    BY <1>1, <1>2, <1>8, <2>1, <2>2, <2>3, <2>4 DEF RingInv
<1>11. BoundInv'
  BY <1>1, BoundKept DEF IInv
<1>12. /\ lines \in Seq(Record) /\ m \in Nat /\ prevLast \in 0..Out
       /\ \A i, j \in 1..m : i < j => lines[i].id < lines[j].id
       /\ \A i \in 1..m : prevLast < lines[i].id /\ lines[i].id <= Out
       /\ \A i \in (prevLast + 1)..Out : i \in Ids(lines) \/ i \in lost
  BY LenProperties DEF IInv, DatagramInv
<1>13. /\ lines' \in Seq(Record) /\ Bytes(lines') = Bytes(lines) + r.size
       /\ Len(lines') = m + 1 /\ lines'[m + 1] = r
       /\ \A i \in 1..m : lines'[i] = lines[i]
  BY <1>1, <1>6, <1>12, BytesAppend, AppendProperties
<1>14. \A i \in 1..m : lines[i].id \in Int
  BY <1>12, ElementOfSeq, RecordFields, MaxLinesAssumption
<1>15. \A i \in 1..(m + 1) : i \in 1..m \/ i = m + 1
  BY <1>12
<1>16. FlushInv'
  <2>1. lines' # <<>>
    BY <1>12, <1>13, EmptySeq
  <2> QED
    BY <1>1, <2>1 DEF IInv, FlushInv
<1> HIDE DEF m, n
<1>17. DatagramInv'
  <2>1. Bytes(lines') <= PacketSize /\ prevLast' \in 0..Out'
    BY <1>1, <1>3, <1>9, <1>12, <1>13
  <2>2. ASSUME NEW i \in 1..(m + 1), NEW j \in 1..(m + 1), i < j
        PROVE  lines'[i].id < lines'[j].id
    <3>1. i \in 1..m
      BY <1>12, <2>2
    <3>2. CASE j \in 1..m
      BY <1>12, <1>13, <2>2, <3>1, <3>2
    <3>3. CASE j = m + 1
      <4>1. lines'[i].id = lines[i].id /\ lines'[j].id = Out + 1
        BY <1>6, <1>13, <3>1, <3>3
      <4> QED
        BY <1>3, <1>12, <1>14, <3>1, <4>1
    <3> QED
      BY <1>15, <3>2, <3>3
  <2>3. ASSUME NEW i \in 1..(m + 1)
        PROVE  prevLast' < lines'[i].id /\ lines'[i].id <= Out'
    <3>1. CASE i \in 1..m
      BY <1>1, <1>3, <1>9, <1>12, <1>13, <1>14, <3>1
    <3>2. CASE i = m + 1
      BY <1>1, <1>3, <1>6, <1>9, <1>12, <1>13, <3>2
    <3> QED
      BY <1>15, <3>1, <3>2
  <2>4. Ids(lines') = Ids(lines) \cup {Out + 1}
    <3>1. DOMAIN lines = 1..m /\ DOMAIN lines' = 1..(m + 1)
      BY <1>12, <1>13, LenProperties DEF m
    <3>2. m + 1 \in 1..(m + 1) /\ \A i \in 1..m : i \in 1..(m + 1)
      BY <1>12
    <3> QED
      BY <1>6, <1>13, <1>15, <3>1, <3>2 DEF Ids
  <2>5. \A i \in (prevLast' + 1)..Out' : i \in Ids(lines') \/ i \in lost'
    <3> TAKE i \in (prevLast' + 1)..Out'
    <3>1. i \in (prevLast + 1)..Out \/ i = Out + 1
      BY <1>1, <1>3, <1>9, <1>12
    <3> QED
      BY <1>1, <1>12, <2>4, <3>1
  <2> QED
    BY <1>13, <2>1, <2>2, <2>3, <2>5 DEF DatagramInv
<1>18. GapInv'
  <2>1. PICK d \in Nat : Missing(prevLast) <= d /\ d <= Losses /\ d % Wrap = hdr
    BY <1>1 DEF IInv, GapInv
  <2>2. Missing(prevLast)' = Missing(prevLast)
    BY <1>1 DEF Missing
  <2>3. lines' # <<>>
    BY <1>12, <1>13, EmptySeq
  <2> DEFINE f == lines'[1].id
  <2>4. Losses' = Cardinality({i \in lost : i < f})
    BY <1>1, <2>3 DEF Losses, Missing
  <2>5. Losses' = Losses
    <3>1. CASE lines = <<>>
      <4>1. f = Out + 1
        BY <1>6, <1>12, <1>13, <3>1, EmptySeq DEF m
      <4>2. {i \in lost : i < f} = lost
        BY <1>3, <4>1
      <4> QED
        BY <2>4, <3>1, <4>2 DEF Losses
    <3>2. CASE lines # <<>>
      <4>1. 1 \in 1..m
        BY <1>12, <3>2, EmptySeq DEF m
      <4>2. f = lines[1].id
        BY <1>13, <4>1
      <4> QED
        BY <2>4, <3>2, <4>2 DEF Losses, Missing
    <3> QED
      BY <3>1, <3>2
  <2> QED
    BY <1>1, <2>1, <2>2, <2>5 DEF GapInv
<1> QED
  BY <1>10, <1>11, <1>16, <1>17, <1>18 DEF IInv

(* The other steps of the flush and of the host leave the ring alone. *)
LEMMA FlushStepHolds ==
  ASSUME IInv, Flush \/ Header \/ NothingToBuild \/ Close
  PROVE  IInv'
<1>1. UNCHANGED <<ringVars, lines, prevLast, pending>>
  BY DEF Flush, Header, NothingToBuild, Close, IInv, FlushInv
<1>2. RingInv' /\ BoundInv' /\ DatagramInv'
  BY <1>1, RingKept, BoundKept, DatagramKept DEF IInv, ringVars
<1>3. CASE Flush
  <2>1. FlushInv'
    BY <1>3 DEF Flush, IInv, FlushInv
  <2>2. GapInv'
    BY <1>3 DEF Flush, GapInv
  <2> QED
    BY <1>2, <2>1, <2>2 DEF IInv
<1>4. CASE Header
  <2>1. /\ IsFiniteSet(lost) /\ Cardinality(lost) \in Nat
        /\ dropped = Cardinality(lost) % Wrap
    BY LostType DEF IInv, RingInv
  <2>2. dropped \in 0..(Wrap - 1)
    BY <2>1, WrapAssumption, DivMod
  <2>3. FlushInv'
    BY <1>4, <2>2 DEF Header, IInv, FlushInv
  <2>4. GapInv'
    <3>1. /\ lines' = <<>> /\ hdr' = Cardinality(lost) % Wrap
          /\ lost' = lost /\ prevLast' = prevLast
      BY <1>4, <2>1 DEF Header, ringVars
    <3>2. Losses' = Cardinality(lost)
      BY <3>1 DEF Losses
    <3>3. Missing(prevLast)' = Missing(prevLast) /\ Missing(prevLast) <= Cardinality(lost)
      BY <2>1, <3>1, MissingGrows DEF Missing
    <3>4. Cardinality(lost) <= Cardinality(lost)
      BY <2>1
    <3> QED
      BY <2>1, <3>1, <3>2, <3>3, <3>4 DEF GapInv
  <2> QED
    BY <1>2, <2>3, <2>4 DEF IInv
<1>5. CASE NothingToBuild
  <2>1. FlushInv'
    BY <1>5 DEF NothingToBuild, IInv, FlushInv
  <2>2. GapInv'
    BY <1>5 DEF NothingToBuild, GapInv
  <2> QED
    BY <1>2, <2>1, <2>2 DEF IInv
<1>6. CASE Close
  <2>1. seq' \in 0..(Wrap - 1)
    BY <1>6, NextCount DEF Close, IInv, FlushInv
  <2>2. /\ phase = "fill" /\ inLog' = FALSE /\ lines' = lines
        /\ phase' = IF lines = <<>> THEN "idle" ELSE "built"
        /\ UNCHANGED <<left, hdr, hostKnown>>
    BY <1>6 DEF Close
  <2>3. FlushInv'
    <3>1. left' \in 0..2 /\ left' # 0 /\ hdr' \in 0..(Wrap - 1) /\ hostKnown' \in BOOLEAN
      BY <2>2 DEF IInv, FlushInv
    <3>2. phase' \in {"idle", "built"}
      BY <2>2
    <3>3. (phase' = "idle" => lines' = <<>>) /\ (phase' = "built" => lines' # <<>>)
      BY <2>2
    <3> QED
      BY <2>1, <2>2, <3>1, <3>2, <3>3 DEF FlushInv
  <2>4. GapInv'
    BY <1>1, <2>2, GapKept DEF IInv, ringVars
  <2> QED
    BY <1>2, <2>3, <2>4 DEF IInv
<1> QED
  BY <1>3, <1>4, <1>5, <1>6

(* The lines of a datagram that was sent, or was not, are out for good. *)
LEMMA SendHolds ==
  ASSUME IInv, Sent \/ SendFailed
  PROVE  IInv'
<1> DEFINE m == Len(lines)
<1>1. /\ phase = "built" /\ prevLast' = LastId /\ lines' = <<>>
      /\ phase' \in {"open", "idle"}
      /\ UNCHANGED <<ringVars, hdr, seq, pending, hostKnown>>
  BY DEF Sent, SendFailed
<1>2. /\ lines \in Seq(Record) /\ m \in Nat /\ prevLast \in 0..Out /\ lines # <<>>
      /\ \A i, j \in 1..m : i < j => lines[i].id < lines[j].id
      /\ \A i \in 1..m : prevLast < lines[i].id /\ lines[i].id <= Out
      /\ \A i \in (prevLast + 1)..Out : i \in Ids(lines) \/ i \in lost
  BY <1>1, LenProperties DEF IInv, DatagramInv, FlushInv
<1>3. m \in 1..m /\ LastId = lines[m].id
  BY <1>2, EmptySeq DEF LastId
<1>4. LastId \in Int /\ prevLast < LastId /\ LastId <= Out /\ Out \in 0..MaxLines
  BY <1>2, <1>3, ElementOfSeq, RecordFields, MaxLinesAssumption, LostType DEF IInv
<1>5. \A i \in Ids(lines) : i <= LastId
  <2> SUFFICES ASSUME NEW j \in 1..m PROVE lines[j].id <= LastId
    BY <1>2, LenProperties DEF Ids
  <2>1. lines[j].id \in Int
    BY <1>2, ElementOfSeq, RecordFields, MaxLinesAssumption
  <2>2. j = m \/ j < m
    BY <1>2
  <2> QED
    BY <1>2, <1>3, <1>4, <2>1, <2>2
<1>6. RingInv' /\ BoundInv' /\ Out' = Out /\ lost' = lost
  BY <1>1, RingKept, BoundKept DEF IInv, ringVars, Out
<1>7. DatagramInv'
  <2>1. \A i \in (LastId + 1)..Out : i \in lost
    <3> TAKE i \in (LastId + 1)..Out
    <3>1. i \in (prevLast + 1)..Out /\ ~(i <= LastId)
      BY <1>2, <1>4
    <3> QED
      BY <1>2, <1>5, <3>1
  <2>2. LastId \in 0..Out
    BY <1>2, <1>4
  <2> HIDE DEF m
  <2> QED
    BY <1>1, <1>6, <2>1, <2>2, NoRecords, BytesEmpty, RoomAssumption
    DEF DatagramInv
<1>8. FlushInv'
  <2>1. /\ left' \in 0..2 /\ (phase' # "idle" => left' # 0)
        /\ inLog' \in BOOLEAN /\ (inLog' <=> phase' \in {"open", "fill"})
    <3>1. left \in {1, 2} /\ ~inLog /\ inLog \in BOOLEAN
      BY <1>1 DEF IInv, FlushInv
    <3>2. CASE Sent
      <4>1. CASE left = 1
        <5>1. left' = 0 /\ phase' = "idle" /\ inLog' = inLog
          BY <3>2, <4>1 DEF Sent
        <5> QED
          BY <3>1, <5>1
      <4>2. CASE left = 2
        <5>1. left' = 1 /\ phase' = "open" /\ inLog' = TRUE
          BY <3>2, <4>2 DEF Sent
        <5> QED
          BY <5>1
      <4> QED
        BY <3>1, <4>1, <4>2
    <3>3. CASE SendFailed
      BY <3>1, <3>3 DEF SendFailed
    <3> QED
      BY <3>2, <3>3
  <2> QED
    BY <1>1, <2>1 DEF IInv, FlushInv
<1>9. GapInv'
  BY <1>1 DEF GapInv
<1> QED
  BY <1>6, <1>7, <1>8, <1>9 DEF IInv

LEMMA HostHolds ==
  ASSUME IInv, HostFound \/ HostForgotten \/ UNCHANGED vars
  PROVE  IInv'
<1>1. UNCHANGED <<ringVars, flushVars, seq, inLog, pending>> /\ hostKnown' \in BOOLEAN
  BY DEF HostFound, HostForgotten, vars, IInv, FlushInv
<1>2. RingInv' /\ BoundInv' /\ DatagramInv' /\ GapInv'
  BY <1>1, RingKept, BoundKept, DatagramKept, GapKept DEF IInv, ringVars, flushVars
<1>3. FlushInv'
  BY <1>1 DEF IInv, FlushInv, flushVars
<1> QED
  BY <1>2, <1>3 DEF IInv

LEMMA InvCorrect == Spec => []IInv
<1>1. IInv /\ [Next]_vars => IInv'
  BY PushHolds, WriteHolds, PopHolds, FlushStepHolds, SendHolds, HostHolds
  DEF Next, FlushNext
<1> QED
  BY InitHolds, <1>1, PTL DEF Spec

(* The fill counter is the size of what is stored, whatever the flush and  *)
(* the writers do between each other's steps, and neither the ring nor a   *)
(* datagram overflows.                                                     *)
THEOREM TypeCorrect == Spec => []TypeOK
<1>1. IInv => TypeOK
  <2> SUFFICES ASSUME IInv PROVE TypeOK
    OBVIOUS
  <2>1. /\ Cardinality(lost) \in Nat /\ Out \in 0..MaxLines
        /\ \A n \in lost : n \in Int /\ 1 <= n /\ n <= Out
    BY LostType DEF IInv
  <2>2. dropped \in 0..(Wrap - 1)
    <3> DEFINE c == Cardinality(lost)
    <3>1. c \in Int /\ dropped = c % Wrap
      BY <2>1 DEF IInv, RingInv
    <3> HIDE DEF c
    <3> QED
      BY <3>1, WrapAssumption, DivMod
  <2>3. lost \subseteq 1..MaxLines
    BY <2>1, MaxLinesAssumption
  <2>4. prevLast \in 0..MaxLines
    BY <2>1, MaxLinesAssumption DEF IInv, DatagramInv
  <2> QED
    BY <2>2, <2>3, <2>4
    DEF IInv, RingInv, BoundInv, FlushInv, DatagramInv, TypeOK, Record
<1> QED
  BY <1>1, InvCorrect, PTL

(* A datagram holds lines in the order they were stored, and what is       *)
(* missing from it was dropped for room.                                   *)
THEOREM OrderCorrect == Spec => []InOrderOrDropped
<1>1. IInv => InOrderOrDropped
  <2> SUFFICES ASSUME IInv, phase = "built"
               PROVE  /\ lines # <<>>
                      /\ \A i, j \in DOMAIN lines : i < j => lines[i].id < lines[j].id
                      /\ prevLast < Head(lines).id
                      /\ ((prevLast + 1)..LastId) \ Ids(lines) \subseteq lost
    BY DEF InOrderOrDropped
  <2>1. lines \in Seq(Record) /\ lines # <<>> /\ DOMAIN lines = 1..Len(lines)
    BY LenProperties DEF IInv, FlushInv, DatagramInv
  <2>2. 1 \in 1..Len(lines) /\ Len(lines) \in 1..Len(lines) /\ Head(lines) = lines[1]
    BY <2>1, EmptySeq
  <2>3. LastId \in Int /\ LastId <= Out /\ Out \in Int /\ prevLast \in Int
    BY <2>1, <2>2, ElementOfSeq, RecordFields, MaxLinesAssumption, LostType
    DEF IInv, DatagramInv, LastId
  <2>4. ((prevLast + 1)..LastId) \subseteq ((prevLast + 1)..Out)
    BY <2>3
  <2> QED
    BY <2>1, <2>2, <2>4 DEF IInv, DatagramInv
<1> QED
  BY <1>1, InvCorrect, PTL

(* The dropped field of a datagram announces every gap up to the line      *)
(* before it, and no loss after its first line.                            *)
THEOREM GapsCorrect == Spec => []GapsAnnounced
<1>1. IInv => GapsAnnounced
  <2> SUFFICES ASSUME IInv, phase = "built"
               PROVE  \E d \in Missing(prevLast)..Missing(Head(lines).id) :
                        d % Wrap = hdr
    BY DEF GapsAnnounced
  <2>1. lines \in Seq(Record) /\ lines # <<>>
    BY DEF IInv, FlushInv, DatagramInv
  <2>2. Losses = Missing(Head(lines).id)
    BY <2>1 DEF Losses
  <2>3. Missing(prevLast) \in Nat /\ Missing(Head(lines).id) \in Nat
    BY LostType, MissingGrows DEF IInv
  <2>4. PICK d \in Nat : Missing(prevLast) <= d /\ d <= Losses /\ d % Wrap = hdr
    BY DEF IInv, GapInv
  <2> QED
    BY <2>2, <2>3, <2>4
<1> QED
  BY <1>1, InvCorrect, PTL
=============================================================================
