---------------------------- MODULE DKTreeLemmas ----------------------------
(***************************************************************************)
(* What the operators of DKTree return, for every k and every vector, and  *)
(* that DKTree keeps its types, for every k >= 2, every initial matrix and *)
(* every choice of calls.                                                  *)
(* There is no induction rule to cite in these proofs: an induction on the *)
(* naturals is a contradiction from the least counterexample.              *)
(***************************************************************************)
EXTENDS DKTree, TLAPS, WellFoundedInduction, FiniteSetTheorems, SequenceTheorems

\* A non-empty set of naturals has a least element.
LEMMA LeastNatural ==
  ASSUME NEW S \in SUBSET Nat, S # {}
  PROVE  \E n \in S : \A m \in S : n <= m
<1> DEFINE less == OpToRel(<, Nat)
<1>1. \A m, n \in Nat : m < n => <<m, n>> \in less
  BY DEF OpToRel
<1>2. IsWellFoundedOn(less, Nat)
  BY NatLessThanWellFounded
<1> HIDE DEF less
<1>3. PICK n \in S : \A m \in S : ~ (<<m, n>> \in less)
  BY <1>2, WFMin
<1>4. \A m \in S : ~ (m < n)
  BY <1>1, <1>3
<1> QED
  BY <1>3, <1>4

-----------------------------------------------------------------------------
(* LongPow: the recursive definition has a solution, K^n up to every n.    *)

\* g is the table of the powers of K up to n.
IsPow(g, n) == /\ g \in [0..n -> Nat \ {0}]
               /\ g[0] = 1
               /\ \A i \in 1..n : g[i] = K * g[i - 1]

\* Multiplying by K keeps a number positive and never makes it smaller.
LEMMA ProductPositive == \A x \in Nat \ {0} : K * x \in Nat \ {0} /\ x <= K * x
  BY KAssumption

\* There is a table of powers of every length.
LEMMA PowUpTo == \A n \in Nat : \E g : IsPow(g, n)
<1> DEFINE S == {n \in Nat : ~ \E g : IsPow(g, n)}
<1> SUFFICES ASSUME S # {} PROVE FALSE
  OBVIOUS
<1>1. PICK n \in S : \A m \in S : n <= m
  BY LeastNatural
<1>2. n # 0
  <2>1. IsPow([i \in 0..0 |-> 1], 0)
    BY DEF IsPow
  <2> QED  BY <2>1
<1>3. n - 1 \in Nat /\ n - 1 \notin S
  BY <1>1, <1>2
<1>4. PICK g : IsPow(g, n - 1)
  BY <1>3
<1> DEFINE h == [i \in 0..n |-> IF i = n THEN K * g[n - 1] ELSE g[i]]
<1>5. IsPow(h, n)
  <2>1. g[n - 1] \in Nat \ {0}
    BY <1>3, <1>4 DEF IsPow
  <2>2. K * g[n - 1] \in Nat \ {0}
    BY <2>1, ProductPositive
  <2>3. h \in [0..n -> Nat \ {0}]
    BY <1>3, <1>4, <2>2 DEF IsPow
  <2>4. h[0] = 1
    BY <1>2, <1>4 DEF IsPow
  <2>5. ASSUME NEW i \in 1..n PROVE h[i] = K * h[i - 1]
    BY <1>3, <1>4 DEF IsPow
  <2> QED  BY <2>3, <2>4, <2>5 DEF IsPow
<1> QED
  BY <1>5

\* Two tables agree where both are defined.
LEMMA PowAgree ==
  ASSUME NEW m \in Nat, NEW n \in Nat, m <= n,
         NEW g, IsPow(g, m), NEW h, IsPow(h, n)
  PROVE  g[m] = h[m]
<1> DEFINE S == {i \in 0..m : g[i] # h[i]}
<1> SUFFICES ASSUME S # {} PROVE FALSE
  OBVIOUS
<1>1. PICK i \in S : \A j \in S : i <= j
  <2>1. S \in SUBSET Nat
    OBVIOUS
  <2> HIDE DEF S
  <2> QED  BY <2>1, LeastNatural
<1>2. i # 0
  BY DEF IsPow
<1>3. i \in 1..m /\ i \in 1..n /\ g[i - 1] = h[i - 1]
  <2>1. i \in 0..m /\ i - 1 \in 0..m
    BY <1>2
  <2>2. i - 1 \notin S
    BY <1>1, <2>1
  <2> QED  BY <1>2, <2>1, <2>2
<1>4. g[i] = K * g[i - 1] /\ h[i] = K * h[i - 1]
  BY <1>3 DEF IsPow
<1> QED
  BY <1>3, <1>4

\* LongPow satisfies its recursive definition.
LEMMA LongPowEquation == LongPow = [b \in Nat |-> IF b = 0 THEN 1 ELSE K * LongPow[b - 1]]
<1> DEFINE f == [n \in Nat |-> (CHOOSE g : IsPow(g, n))[n]]
<1>1. ASSUME NEW n \in Nat PROVE IsPow(CHOOSE g : IsPow(g, n), n)
  BY PowUpTo, Zenon
<1>2. f[0] = 1
  BY <1>1 DEF IsPow
<1>3. ASSUME NEW n \in Nat, n # 0 PROVE f[n] = K * f[n - 1]
  <2> DEFINE g == CHOOSE x : IsPow(x, n - 1)
             h == CHOOSE x : IsPow(x, n)
  <2>1. IsPow(g, n - 1) /\ IsPow(h, n) /\ n - 1 \in Nat
    BY <1>1, <1>3
  <2> HIDE DEF g, h
  <2>2. g[n - 1] = h[n - 1]
    BY <2>1, PowAgree, n - 1 <= n
  <2>3. h[n] = K * h[n - 1]
    <3>1. n \in 1..n
      BY <1>3
    <3> QED  BY <2>1, <3>1 DEF IsPow
  <2> QED
    BY <2>1, <2>2, <2>3 DEF g, h
<1>4. f = [b \in Nat |-> IF b = 0 THEN 1 ELSE K * f[b - 1]]
  <2>1. \A b \in Nat : f[b] = IF b = 0 THEN 1 ELSE K * f[b - 1]
    BY <1>2, <1>3
  <2>2. f = [b \in Nat |-> f[b]]
    OBVIOUS
  <2> HIDE DEF f
  <2> QED  BY <2>1, <2>2, Zenon
<1> HIDE DEF f
<1> QED
  BY <1>4, Zenon DEF LongPow

\* No power is 0, so Partition never divides by 0.
LEMMA LongPowPositive == \A n \in Nat : LongPow[n] \in Nat \ {0}
<1> DEFINE S == {n \in Nat : LongPow[n] \notin Nat \ {0}}
<1> SUFFICES ASSUME S # {} PROVE FALSE
  OBVIOUS
<1>1. PICK n \in S : \A m \in S : n <= m
  BY LeastNatural
<1>2. n # 0 
  BY LongPowEquation
<1>3. n - 1 \in Nat /\ LongPow[n - 1] \in Nat \ {0}
  BY <1>1, <1>2
<1>4. LongPow[n] = K * LongPow[n - 1]
  BY <1>2, LongPowEquation
<1> QED
  BY <1>3, <1>4, ProductPositive

\* A power is never smaller than the one before.
LEMMA LongPowGrows ==
  \A n \in Nat : LongPow[n] <= LongPow[n + 1] /\ LongPow[n + 1] = K * LongPow[n]
<1> SUFFICES ASSUME NEW n \in Nat
             PROVE  LongPow[n] <= LongPow[n + 1] /\ LongPow[n + 1] = K * LongPow[n]
  OBVIOUS
<1>1. LongPow[n + 1] = K * LongPow[n]
  <2>1. n + 1 \in Nat /\ n + 1 # 0 /\ (n + 1) - 1 = n
    OBVIOUS
  <2>2. LongPow[n + 1] = IF n + 1 = 0 THEN 1 ELSE K * LongPow[(n + 1) - 1]
    BY <2>1, LongPowEquation, Zenon
  <2> QED  BY <2>1, <2>2
<1> QED
  BY <1>1, LongPowPositive, ProductPositive
-----------------------------------------------------------------------------
(* Division.                                                               *)

\* Quotients and remainders of naturals are naturals.
LEMMA DivMod ==
  ASSUME NEW a \in Nat, NEW b \in Nat, b > 0
  PROVE  /\ a \div b \in Nat
         /\ a % b \in 0..(b - 1)
         /\ a \div b > 0 <=> a >= b
  OBVIOUS

\* Partition is a natural, and positive at every level above a positive one.
LEMMA PartitionType ==
  ASSUME matrixSize \in Nat, NEW it \in Nat
  PROVE  /\ Partition(it) \in Nat
         /\ Partition(it + 1) > 0 => Partition(it) > 0
<1>1. LongPow[it] \in Nat /\ LongPow[it] > 0 /\ LongPow[it + 1] \in Nat /\ LongPow[it + 1] > 0
  BY LongPowPositive
<1>2. LongPow[it] <= LongPow[it + 1]
  BY LongPowGrows
<1>3. Partition(it) \in Nat
  BY <1>1, DivMod DEF Partition
<1>4. Partition(it + 1) > 0 => matrixSize >= LongPow[it + 1]
  BY <1>1, DivMod DEF Partition
<1>5. matrixSize >= LongPow[it] => Partition(it) > 0
  BY <1>1, DivMod DEF Partition
<1> QED
  BY <1>1, <1>2, <1>3, <1>4, <1>5

\* An offset is a natural where calculateOffset does not throw.
LEMMA OffsetType ==
  ASSUME matrixSize \in Nat, NEW it \in Nat \ {0}, Partition(it) > 0,
         NEW row \in Nat, NEW column \in Nat
  PROVE  CalculateOffset(row, column, it) \in Nat
<1>1. /\ it - 1 \in Nat /\ (it - 1) + 1 = it
  OBVIOUS
<1>2. Partition(it) \in Nat /\ Partition(it - 1) \in Nat /\ Partition(it - 1) > 0
  BY <1>1, PartitionType
<1>3. ASSUME NEW x \in Nat PROVE OffsetOf(x, it) \in Nat
  <2>1. x % Partition(it - 1) \in Nat
    BY <1>2, DivMod
  <2> QED  BY <2>1, <1>2, DivMod DEF OffsetOf
<1>4. OffsetOf(row, it) \in Nat /\ OffsetOf(column, it) \in Nat
  BY <1>3
<1>5. \A x \in Nat : K * x \in Nat
  BY KAssumption
<1> QED
  BY <1>4, <1>5 DEF CalculateOffset
-----------------------------------------------------------------------------
(* Bit vectors and vectors.                                                *)

\* A block has at least four bits.
LEMMA BlockSize == BLOCK_SIZE \in Nat /\ BLOCK_SIZE >= 4
<1>1. \A k \in Nat : k >= 2 => k * k \in Nat /\ k * k >= 2 * k
  BY SMT
<1> QED  BY <1>1, KAssumption DEF BLOCK_SIZE

\* A function on 1..n is a sequence of length n.
LEMMA FunctionIsSeq ==
  ASSUME NEW S, NEW n \in Nat, NEW f \in [1..n -> S]
  PROVE  f \in Seq(S) /\ Len(f) = n
  OBVIOUS

\* A sequence of length n is a function on 1..n.
LEMMA SeqIsFunction ==
  ASSUME NEW S, NEW v \in Seq(S)
  PROVE  Len(v) \in Nat /\ v \in [1..Len(v) -> S]
  OBVIOUS

\* Setting a bit keeps the length of the vector.
LEMMA SetBitType ==
  ASSUME NEW bits \in Seq(BOOLEAN), NEW p, NEW b \in BOOLEAN
  PROVE  SetBit(bits, p, b) \in Seq(BOOLEAN) /\ Len(SetBit(bits, p, b)) = Len(bits)
<1>1. Len(bits) \in Nat /\ bits \in [1..Len(bits) -> BOOLEAN]
  BY SeqIsFunction
<1>2. SetBit(bits, p, b) \in [1..Len(bits) -> BOOLEAN]
  BY <1>1, Zenon DEF SetBit
<1> QED
  BY <1>1, <1>2, FunctionIsSeq, Zenon

\* rank1 counts at most the bits there are.
LEMMA Rank1Type ==
  ASSUME NEW bits \in Seq(BOOLEAN), NEW p
  PROVE  Rank1(bits, p) \in Nat /\ Rank1(bits, p) <= Len(bits)
<1> DEFINE ones == {i \in 1..Len(bits) : i <= p /\ bits[i]}
<1>1. IsFiniteSet(1..Len(bits)) /\ Cardinality(1..Len(bits)) = Len(bits)
  <2>1. Len(bits) \in Nat /\ 1 \in Int /\ Len(bits) \in Int
    OBVIOUS
  <2>2. /\ IsFiniteSet(1..Len(bits))
        /\ Cardinality(1..Len(bits)) = IF 1 > Len(bits) THEN 0 ELSE Len(bits) - 1 + 1
    BY <2>1, FS_Interval
  <2> QED  BY <2>1, <2>2
<1>2. ones \in SUBSET (1..Len(bits))
  OBVIOUS
<1>3. IsFiniteSet(ones) /\ Cardinality(ones) <= Cardinality(1..Len(bits))
  BY <1>1, <1>2, FS_Subset, Zenon
<1>4. Cardinality(ones) \in Nat
  BY <1>3, FS_CardinalityType
<1> QED
  BY <1>1, <1>3, <1>4 DEF Rank1

\* The block below a bit starts at a natural.
LEMMA ChildBlockType ==
  ASSUME ttree \in Seq(BOOLEAN), NEW p
  PROVE  ChildBlock(p) \in Nat
<1>1. Rank1(ttree, p + 1) \in Nat
  BY Rank1Type
<1>2. \A x, y \in Nat : x * y \in Nat
  OBVIOUS
<1> QED
  BY <1>1, <1>2, BlockSize DEF ChildBlock

\* Inserting a block makes the vector one block longer.
LEMMA InsertBlockType ==
  ASSUME NEW bits \in Seq(BOOLEAN), NEW p \in Int
  PROVE  /\ InsertBlock(bits, p) \in Seq(BOOLEAN)
         /\ Len(InsertBlock(bits, p)) = Len(bits) + BLOCK_SIZE
<1> DEFINE n == Len(bits) + BLOCK_SIZE
<1>1. n \in Nat
  BY BlockSize
<1>2. InsertBlock(bits, p) \in [1..n -> BOOLEAN]
  BY Zenon DEF InsertBlock
<1> QED
  BY <1>1, <1>2, FunctionIsSeq, Zenon

\* Erasing keeps the type of a vector.
LEMMA EraseType ==
  ASSUME NEW S, NEW v \in Seq(S), NEW p \in Int, NEW n \in Nat
  PROVE  Erase(v, p, n) \in Seq(S)
<1>1. CASE Len(v) - n >= 0
  BY <1>1 DEF Erase
<1>2. CASE Len(v) - n < 0
  <2>1. Erase(v, p, n) = <<>>
    BY <1>2 DEF Erase
  <2> QED  BY <2>1
<1> QED
  BY <1>1, <1>2

\* Deleting a block keeps the type of a bit vector.
LEMMA DeleteBlockType ==
  ASSUME NEW bits \in Seq(BOOLEAN), NEW p \in Int
  PROVE  DeleteBlock(bits, p) \in Seq(BOOLEAN)
  BY EraseType, BlockSize DEF DeleteBlock

\* A slice of a vector of vertices is a vector of vertices.
LEMMA SlicesType ==
  ASSUME NEW entries \in Seq(Nat), NEW offset
  PROVE  Slices(entries, offset) \subseteq Seq(Nat)
<1>1. ASSUME NEW r \in (1..Len(entries)) \X (1..Len(entries))
      PROVE  SubSeq(entries, r[1], r[2]) \in Seq(Nat)
  <2>1. r[1] \in 1..Len(entries) /\ r[2] \in 1..Len(entries)
    OBVIOUS
  <2> QED  BY <2>1
<1> SUFFICES ASSUME NEW x, x \in Slices(entries, offset) PROVE x \in Seq(Nat)
  OBVIOUS
<1>2. \E r \in (1..Len(entries)) \X (1..Len(entries)) : x = SubSeq(entries, r[1], r[2])
  BY Zenon DEF Slices
<1> QED
  BY <1>1, <1>2

\* The elements of a vector of vertices are vertices.
LEMMA ElementsType ==
  ASSUME NEW S, NEW v \in Seq(S)
  PROVE  Elements(v) \subseteq S /\ IsFiniteSet(Elements(v))
<1>1. v \in Surjection(1..Len(v), Elements(v))
  BY DEF Surjection, Elements
<1>2. IsFiniteSet(1..Len(v))
  BY FS_Interval
<1>3. IsFiniteSet(Elements(v))
  BY <1>1, <1>2, FS_Surjection, Zenon
<1> QED
  BY <1>3 DEF Elements

\* sortAndCheckVector gives a vector of the same vertices.
LEMMA SortedType ==
  ASSUME NEW v \in Seq(Nat), NEW w \in Sorted(Elements(v))
  PROVE  w \in Seq(Nat)
<1>1. Elements(v) \subseteq Nat /\ IsFiniteSet(Elements(v))
  BY ElementsType
<1>2. Cardinality(Elements(v)) \in Nat
  BY <1>1, FS_CardinalityType
<1> DEFINE S == Elements(v)
           nth(n) == CHOOSE a \in S : Cardinality({b \in S : b < a}) = n - 1
<1>3. w = [n \in 1..Cardinality(S) |-> nth(n)] /\ Elements(w) = S
  BY DEF Sorted
<1> HIDE DEF nth
<1>4. w = [i \in 1..Cardinality(S) |-> w[i]]
  BY <1>3
<1>5. w \in Seq({w[i] : i \in 1..Cardinality(S)}) /\ Len(w) = Cardinality(S)
  BY <1>2, <1>4
<1>6. w \in Seq(S)
  <2>1. {w[i] : i \in 1..Cardinality(S)} = S
    BY <1>3, <1>5 DEF Elements
  <2> QED
    BY <1>5, <2>1, Zenon
<1> QED
  BY <1>1, <1>6
-----------------------------------------------------------------------------
(* Ranks, one bit at a time.                                               *)

\* The empty prefix has no ones.
LEMMA RankZero ==
  ASSUME NEW bits \in Seq(BOOLEAN)
  PROVE  Rank1(bits, 0) = 0
<1>1. {i \in 1..Len(bits) : i <= 0 /\ bits[i]} = {}
  OBVIOUS
<1> QED
  BY <1>1, FS_EmptySet DEF Rank1

\* The rank goes up by one after each 1, and stays after each 0.
LEMMA RankNext ==
  ASSUME NEW bits \in Seq(BOOLEAN), NEW p \in Nat
  PROVE  Rank1(bits, p + 1) = Rank1(bits, p) + (IF Access(bits, p) THEN 1 ELSE 0)
<1> DEFINE ones(q) == {i \in 1..Len(bits) : i <= q /\ bits[i]}
<1>1. IsFiniteSet(ones(p))
  <2>1. IsFiniteSet(1..Len(bits)) /\ ones(p) \in SUBSET (1..Len(bits))
    BY FS_Interval
  <2> QED  BY <2>1, FS_Subset, Zenon
<1>2. Rank1(bits, p) = Cardinality(ones(p)) /\ Rank1(bits, p + 1) = Cardinality(ones(p + 1))
  BY DEF Rank1
<1>3. CASE Access(bits, p)
  <2>1. ones(p + 1) = ones(p) \cup {p + 1} /\ p + 1 \notin ones(p)
    BY <1>3 DEF Access
  <2> QED  BY <1>1, <1>2, <1>3, <2>1, FS_AddElement, FS_CardinalityType
<1>4. CASE ~Access(bits, p)
  <2>1. ones(p + 1) = ones(p)
    BY <1>4 DEF Access
  <2>2. Cardinality(ones(p)) \in Nat
    BY <1>1, FS_CardinalityType
  <2> HIDE DEF ones
  <2> QED  BY <1>2, <1>4, <2>1, <2>2
<1> QED
  BY <1>3, <1>4

\* From position a up to q the bits of u are those of v, s positions further on.
SameBits(u, a, q, v, s) == \A i \in a..(q - 1) : Access(u, i) <=> Access(v, i + s)

\* Where two vectors have the same bits their ranks grow by the same number.
LEMMA RankAgree ==
  ASSUME NEW u \in Seq(BOOLEAN), NEW v \in Seq(BOOLEAN),
         NEW a \in Nat, NEW q \in Nat, a <= q, NEW s \in Int, a + s \in Nat,
         SameBits(u, a, q, v, s)
  PROVE  Rank1(u, q) - Rank1(u, a) = Rank1(v, q + s) - Rank1(v, a + s)
<1> DEFINE grows(m) == Rank1(u, m) - Rank1(u, a) = Rank1(v, m + s) - Rank1(v, a + s)
           S == {m \in a..q : ~grows(m)}
<1>0. q \in a..q
  OBVIOUS
<1>1. ASSUME S # {} PROVE FALSE
  <2>1. PICK m \in S : \A j \in S : m <= j
    <3>1. S \in SUBSET Nat
      OBVIOUS
    <3> HIDE DEF S
    <3> QED  BY <1>1, <3>1, LeastNatural
  <2>2. m \in a..q /\ ~grows(m)
    OBVIOUS
  <2>3. m # a
    <3>1. Rank1(u, a) \in Nat /\ Rank1(v, a + s) \in Nat
      BY Rank1Type
    <3> QED  BY <2>2, <3>1
  <2>4. m - 1 \in a..(q - 1) /\ m - 1 \in a..q /\ ~(m <= m - 1)
    BY <2>2, <2>3
  <2>5. grows(m - 1)
    <3>1. m - 1 \notin S
      <4> HIDE DEF S
      <4> QED  BY <2>1, <2>4
    <3> HIDE DEF grows
    <3> QED  BY <2>4, <3>1
  <2>6. Access(u, m - 1) <=> Access(v, (m - 1) + s)
    BY <2>4 DEF SameBits
  <2>7. (m - 1) + 1 = m /\ ((m - 1) + s) + 1 = m + s /\ m - 1 \in Nat /\ (m - 1) + s \in Nat
    BY <2>4
  <2>8. Rank1(u, (m - 1) + 1) = Rank1(u, m - 1) + (IF Access(u, m - 1) THEN 1 ELSE 0)
    BY <2>7, RankNext
  <2>9. Rank1(v, ((m - 1) + s) + 1)
          = Rank1(v, (m - 1) + s) + (IF Access(v, (m - 1) + s) THEN 1 ELSE 0)
    BY <2>7, RankNext
  <2>10. /\ Rank1(u, a) \in Nat /\ Rank1(v, a + s) \in Nat
         /\ Rank1(u, m - 1) \in Nat /\ Rank1(v, (m - 1) + s) \in Nat
    BY Rank1Type
  <2> DEFINE ua == Rank1(u, a)
             va == Rank1(v, a + s)
             ub == Rank1(u, m - 1)
             vb == Rank1(v, (m - 1) + s)
             one == IF Access(v, (m - 1) + s) THEN 1 ELSE 0
  <2>11. Rank1(u, m) = ub + one /\ Rank1(v, m + s) = vb + one
    BY <2>6, <2>7, <2>8, <2>9, Zenon
  <2>12. one \in Nat /\ ub \in Nat /\ vb \in Nat /\ ua \in Nat /\ va \in Nat
    BY <2>10
  <2>13. ub - ua = vb - va
    BY <2>5
  <2> HIDE DEF grows, ua, va, ub, vb, one
  <2>14. Rank1(u, m) - ua = Rank1(v, m + s) - va
    BY <2>11, <2>12, <2>13
  <2> QED  BY <2>2, <2>14 DEF grows, ua, va
<1> HIDE DEF grows
<1>2. grows(q)
  BY <1>0, <1>1
<1> QED
  BY <1>2 DEF grows

\* The same, where the bits are at the same positions.
LEMMA RankAgreeInPlace ==
  ASSUME NEW u \in Seq(BOOLEAN), NEW v \in Seq(BOOLEAN),
         NEW a \in Nat, NEW q \in Nat, a <= q, SameBits(u, a, q, v, 0)
  PROVE  Rank1(u, q) - Rank1(u, a) = Rank1(v, q) - Rank1(v, a)
<1>1. a + 0 = a /\ q + 0 = q /\ a + 0 \in Nat /\ 0 \in Int
  OBVIOUS
<1>2. Rank1(u, q) - Rank1(u, a) = Rank1(v, q + 0) - Rank1(v, a + 0)
  BY <1>1, RankAgree
<1> QED
  BY <1>1, <1>2

\* Vectors that begin with the same bits have the same ranks there.
LEMMA RankOfPrefix ==
  ASSUME NEW u \in Seq(BOOLEAN), NEW v \in Seq(BOOLEAN), NEW n \in Nat,
         SameBits(u, 0, n, v, 0)
  PROVE  Rank1(u, n) = Rank1(v, n)
<1>1. Rank1(u, n) - Rank1(u, 0) = Rank1(v, n) - Rank1(v, 0)
  BY RankAgreeInPlace, 0 <= n, 0 \in Nat
<1>2. Rank1(u, n) \in Nat /\ Rank1(v, n) \in Nat
  BY Rank1Type
<1> QED
  BY <1>1, <1>2, RankZero

\* Zeros do not count.
LEMMA RankOfZeros ==
  ASSUME NEW bits \in Seq(BOOLEAN), NEW p \in Nat, NEW q \in Nat, p <= q,
         \A i \in p..(q - 1) : ~Access(bits, i)
  PROVE  Rank1(bits, q) = Rank1(bits, p)
<1> DEFINE none == <<>>
<1>1. none \in Seq(BOOLEAN) /\ Len(none) = 0
  OBVIOUS
<1>2. \A r \in Nat : Rank1(none, r) = 0
  <2> SUFFICES ASSUME NEW r \in Nat PROVE Rank1(none, r) = 0
    OBVIOUS
  <2>1. Rank1(none, r) \in Nat /\ Rank1(none, r) <= 0
    BY <1>1, Rank1Type
  <2> QED  BY <2>1
<1>3. SameBits(bits, p, q, none, 0)
  BY <1>1 DEF SameBits, Access
<1> HIDE DEF none
<1>4. Rank1(bits, q) - Rank1(bits, p) = Rank1(none, q) - Rank1(none, p)
  BY <1>1, <1>3, RankAgreeInPlace
<1>5. Rank1(bits, p) \in Nat /\ Rank1(bits, q) \in Nat
  BY Rank1Type
<1> QED
  BY <1>2, <1>4, <1>5

\* Ranks grow with the position, strictly after a 1.
LEMMA RankGrows ==
  ASSUME NEW bits \in Seq(BOOLEAN), NEW p \in Nat, NEW q \in Nat, p <= q
  PROVE  /\ Rank1(bits, p) <= Rank1(bits, q)
         /\ Access(bits, p) /\ p < q => Rank1(bits, p) < Rank1(bits, q)
<1>1. ASSUME NEW r \in Nat, NEW s \in Nat, r <= s
      PROVE  Rank1(bits, r) <= Rank1(bits, s)
  <2> DEFINE ones(x) == {i \in 1..Len(bits) : i <= x /\ bits[i]}
  <2>1. ones(r) \in SUBSET ones(s)
    BY <1>1
  <2>2. IsFiniteSet(ones(s))
    <3>1. IsFiniteSet(1..Len(bits)) /\ ones(s) \in SUBSET (1..Len(bits))
      BY FS_Interval
    <3> QED  BY <3>1, FS_Subset, Zenon
  <2>3. Cardinality(ones(r)) <= Cardinality(ones(s))
    BY <2>1, <2>2, FS_Subset, Zenon
  <2> QED  BY <2>3 DEF Rank1
<1>2. CASE Access(bits, p) /\ p < q
  <2>1. Rank1(bits, p + 1) = Rank1(bits, p) + 1
    BY <1>2, RankNext
  <2>2. Rank1(bits, p + 1) <= Rank1(bits, q)
    BY <1>1, <1>2
  <2>3. Rank1(bits, p) \in Nat /\ Rank1(bits, q) \in Nat
    BY Rank1Type
  <2> QED  BY <2>1, <2>2, <2>3
<1> QED
  BY <1>1, <1>2
-----------------------------------------------------------------------------
(* The bits, and the ranks, of a vector that was changed.                  *)

\* Setting a bit changes that bit.
LEMMA SetBitAccess ==
  ASSUME NEW bits \in Seq(BOOLEAN), NEW p \in 0..(Len(bits) - 1), NEW x \in BOOLEAN,
         NEW q \in Nat
  PROVE  Access(SetBit(bits, p, x), q) <=> IF q = p THEN x ELSE Access(bits, q)
<1>1. Len(SetBit(bits, p, x)) = Len(bits)
  BY SetBitType
<1>2. \A i \in 1..Len(bits) : SetBit(bits, p, x)[i] = IF i = p + 1 THEN x ELSE bits[i]
  BY DEF SetBit
<1> QED
  BY <1>1, <1>2 DEF Access

\* Inserting a block of zeros moves the bits behind it.
LEMMA InsertBlockAccess ==
  ASSUME NEW bits \in Seq(BOOLEAN), NEW p \in 0..Len(bits), NEW q \in Nat
  PROVE  Access(InsertBlock(bits, p), q) <=>
           \/ q < p /\ Access(bits, q)
           \/ q >= p + BLOCK_SIZE /\ Access(bits, q - BLOCK_SIZE)
<1>1. Len(InsertBlock(bits, p)) = Len(bits) + BLOCK_SIZE /\ BLOCK_SIZE \in Nat
  BY InsertBlockType, BlockSize
<1> DEFINE bit(i) == \/ i <= p /\ Access(bits, i - 1)
                     \/ i > p + BLOCK_SIZE /\ Access(bits, i - 1 - BLOCK_SIZE)
<1>2. \A i \in 1..(Len(bits) + BLOCK_SIZE) : InsertBlock(bits, p)[i] = bit(i)
  BY Zenon DEF InsertBlock
<1>3. q <= Len(bits) + BLOCK_SIZE - 1 =>
        (InsertBlock(bits, p)[q + 1] <=>
           \/ q < p /\ Access(bits, q)
           \/ q >= p + BLOCK_SIZE /\ Access(bits, q - BLOCK_SIZE))
  <2> HAVE q <= Len(bits) + BLOCK_SIZE - 1
  <2>1. q + 1 \in 1..(Len(bits) + BLOCK_SIZE)
    BY <1>1
  <2>2. q + 1 - 1 = q /\ q + 1 - 1 - BLOCK_SIZE = q - BLOCK_SIZE
    BY <1>1
  <2>3. InsertBlock(bits, p)[q + 1] = bit(q + 1)
    <3> HIDE DEF bit
    <3> QED  BY <1>2, <2>1
  <2>4. (q + 1 <= p <=> q < p) /\ (q + 1 > p + BLOCK_SIZE <=> q >= p + BLOCK_SIZE)
    BY <1>1
  <2>5. bit(q + 1) <=> \/ q < p /\ Access(bits, q)
                       \/ q >= p + BLOCK_SIZE /\ Access(bits, q - BLOCK_SIZE)
    BY <2>2, <2>4
  <2> HIDE DEF bit
  <2> QED  BY <2>3, <2>5
<1> HIDE DEF bit
<1>4. CASE q <= Len(bits) + BLOCK_SIZE - 1
  <2>1. Access(InsertBlock(bits, p), q) <=> InsertBlock(bits, p)[q + 1]
    BY <1>1, <1>4 DEF Access
  <2> QED  BY <1>3, <1>4, <2>1
<1>5. CASE ~(q <= Len(bits) + BLOCK_SIZE - 1)
  <2>1. ~Access(InsertBlock(bits, p), q)
    BY <1>1, <1>5 DEF Access
  <2>2. ~(q < p) /\ ~Access(bits, q - BLOCK_SIZE)
    BY <1>1, <1>5 DEF Access
  <2> QED  BY <2>1, <2>2
<1> QED
  BY <1>4, <1>5

\* Deleting a block moves the bits behind it.
LEMMA DeleteBlockAccess ==
  ASSUME NEW bits \in Seq(BOOLEAN), NEW p \in Nat, p + BLOCK_SIZE <= Len(bits),
         NEW q \in Nat
  PROVE  /\ Len(DeleteBlock(bits, p)) = Len(bits) - BLOCK_SIZE
         /\ Access(DeleteBlock(bits, p), q) <=>
              IF q < p THEN Access(bits, q) ELSE Access(bits, q + BLOCK_SIZE)
<1> DEFINE n == Len(bits) - BLOCK_SIZE
<1>1. n \in Nat /\ BLOCK_SIZE \in Nat /\ Len(bits) = n + BLOCK_SIZE /\ p <= n
  BY BlockSize
<1>2. DeleteBlock(bits, p) = [i \in 1..n |-> IF i <= p THEN bits[i] ELSE bits[i + BLOCK_SIZE]]
  BY DEF DeleteBlock, Erase
<1>3. Len(DeleteBlock(bits, p)) = n
  BY <1>1, <1>2
<1>4. \A i \in 1..n : DeleteBlock(bits, p)[i] = IF i <= p THEN bits[i] ELSE bits[i + BLOCK_SIZE]
  BY <1>2
<1> HIDE DEF n
<1>5. CASE q < n
  <2>1. q + 1 \in 1..n
    BY <1>1, <1>5
  <2>2. DeleteBlock(bits, p)[q + 1] = IF q + 1 <= p THEN bits[q + 1] ELSE bits[q + 1 + BLOCK_SIZE]
    BY <1>4, <2>1
  <2>3. q + 1 + BLOCK_SIZE = q + BLOCK_SIZE + 1
    BY <1>1
  <2> QED  BY <1>1, <1>3, <1>5, <2>2, <2>3 DEF Access, n
<1>6. CASE q >= n
  <2>1. ~Access(DeleteBlock(bits, p), q)
    BY <1>1, <1>3, <1>6 DEF Access
  <2>2. ~(q < p) /\ ~Access(bits, q + BLOCK_SIZE)
    BY <1>1, <1>6 DEF Access
  <2> QED  BY <1>3, <2>1, <2>2 DEF n
<1> QED
  BY <1>1, <1>5, <1>6

\* Setting a bit changes the ranks behind it by the difference.
LEMMA RankSetBit ==
  ASSUME NEW bits \in Seq(BOOLEAN), NEW p \in 0..(Len(bits) - 1), NEW x \in BOOLEAN,
         NEW q \in Nat, Access(bits, p) <=> ~x
  PROVE  Rank1(SetBit(bits, p, x), q) =
           Rank1(bits, q) + (IF p < q THEN IF x THEN 1 ELSE -1 ELSE 0)
<1> DEFINE w == SetBit(bits, p, x)
<1>1. w \in Seq(BOOLEAN)
  BY SetBitType
<1>2. \A r \in Nat : Access(w, r) <=> IF r = p THEN x ELSE Access(bits, r)
  BY SetBitAccess
<1>3. \A r \in Nat : Rank1(w, r) \in Nat /\ Rank1(bits, r) \in Nat
  BY <1>1, Rank1Type
<1> HIDE DEF w
<1>4. ASSUME NEW n \in 0..p PROVE Rank1(w, n) = Rank1(bits, n)
  <2>1. SameBits(w, 0, n, bits, 0)
    BY <1>2 DEF SameBits
  <2> QED  BY <1>1, <2>1, RankOfPrefix
<1>5. CASE q <= p
  BY <1>3, <1>4, <1>5 DEF w
<1>6. CASE p < q
  <2> DEFINE e == IF x THEN 1 ELSE -1
  <2>1. /\ Rank1(w, p + 1) = Rank1(w, p) + (IF Access(w, p) THEN 1 ELSE 0)
        /\ Rank1(bits, p + 1) = Rank1(bits, p) + (IF Access(bits, p) THEN 1 ELSE 0)
    BY <1>1, RankNext
  <2>2. Access(w, p) <=> x
    BY <1>2
  <2>3. Rank1(w, p) = Rank1(bits, p)
    BY <1>4
  <2>4. p + 1 <= q /\ p + 1 \in Nat /\ e \in Int
    BY <1>6
  <2>5. Rank1(w, p + 1) = Rank1(bits, p + 1) + e
    <3>1. Rank1(bits, p) \in Nat
      BY <1>3
    <3>2. CASE x
      BY <2>1, <2>2, <2>3, <3>1, <3>2
    <3>3. CASE ~x
      BY <2>1, <2>2, <2>3, <3>1, <3>3
    <3> QED  BY <3>2, <3>3
  <2>6. SameBits(w, p + 1, q, bits, 0)
    BY <1>2 DEF SameBits
  <2>7. Rank1(w, q) - Rank1(w, p + 1) = Rank1(bits, q) - Rank1(bits, p + 1)
    BY <1>1, <2>4, <2>6, RankAgreeInPlace
  <2>8. /\ Rank1(w, q) \in Nat /\ Rank1(bits, q) \in Nat
        /\ Rank1(w, p + 1) \in Nat /\ Rank1(bits, p + 1) \in Nat
    BY <1>1, Rank1Type
  <2> HIDE DEF e
  <2>9. Rank1(w, q) = Rank1(bits, q) + e
    BY <2>4, <2>5, <2>7, <2>8
  <2> QED  BY <1>6, <2>9 DEF e, w
<1> QED
  BY <1>5, <1>6

\* A block of zeros leaves the ranks before it, and those of the bits behind it.
LEMMA RankInsertBlock ==
  ASSUME NEW bits \in Seq(BOOLEAN), NEW p \in 0..Len(bits), NEW q \in Nat
  PROVE  /\ q <= p => Rank1(InsertBlock(bits, p), q) = Rank1(bits, q)
         /\ q >= p => Rank1(InsertBlock(bits, p), q + BLOCK_SIZE) = Rank1(bits, q)
<1> DEFINE w == InsertBlock(bits, p)
<1>1. w \in Seq(BOOLEAN) /\ BLOCK_SIZE \in Nat
  BY InsertBlockType, BlockSize
<1>2. \A r \in Nat : Access(w, r) <=> \/ r < p /\ Access(bits, r)
                                      \/ r >= p + BLOCK_SIZE /\ Access(bits, r - BLOCK_SIZE)
  BY InsertBlockAccess
<1>3. \A r \in Nat : Rank1(w, r) \in Nat /\ Rank1(bits, r) \in Nat
  BY <1>1, Rank1Type
<1> HIDE DEF w
<1>4. ASSUME NEW n \in 0..p PROVE Rank1(w, n) = Rank1(bits, n)
  <2>1. SameBits(w, 0, n, bits, 0)
    BY <1>1, <1>2 DEF SameBits
  <2> QED  BY <1>1, <2>1, RankOfPrefix
<1>5. ASSUME q >= p PROVE Rank1(w, q + BLOCK_SIZE) = Rank1(bits, q)
  <2> DEFINE a == p + BLOCK_SIZE
             r == q + BLOCK_SIZE
             s == -BLOCK_SIZE
  <2>1. /\ a \in Nat /\ r \in Nat /\ a <= r /\ s \in Int /\ a + s \in Nat /\ 0 \in Int
        /\ p <= a /\ a + s = p /\ r + s = q
    BY <1>1, <1>5
  <2>2. \A i \in p..(a - 1) : ~Access(w, i)
    BY <1>1, <1>2
  <2>3. Rank1(w, a) = Rank1(w, p)
    BY <1>1, <2>1, <2>2, RankOfZeros
  <2>4. SameBits(w, a, r, bits, s)
    <3> SUFFICES ASSUME NEW i \in a..(r - 1) PROVE Access(w, i) <=> Access(bits, i + s)
      BY DEF SameBits
    <3>1. i \in Nat /\ ~(i < p) /\ i >= p + BLOCK_SIZE /\ i + s = i - BLOCK_SIZE
      BY <1>1
    <3> QED  BY <1>2, <3>1
  <2> HIDE DEF a, r, s
  <2>5. Rank1(w, r) - Rank1(w, a) = Rank1(bits, r + s) - Rank1(bits, a + s)
    BY <1>1, <2>1, <2>4, RankAgree
  <2>6. Rank1(w, r) - Rank1(w, a) = Rank1(bits, q) - Rank1(bits, p)
    BY <2>1, <2>5, Zenon
  <2>7. Rank1(w, p) = Rank1(bits, p)
    BY <1>4
  <2>8. /\ Rank1(w, r) \in Nat /\ Rank1(w, a) \in Nat
        /\ Rank1(bits, q) \in Nat /\ Rank1(bits, p) \in Nat
    BY <1>3, <2>1
  <2>9. Rank1(w, r) = Rank1(bits, q)
    BY <2>3, <2>6, <2>7, <2>8
  <2> QED  BY <2>9 DEF r
<1> QED
  BY <1>4, <1>5 DEF w

\* Deleting a block of zeros leaves the ranks, too.
LEMMA RankDeleteBlock ==
  ASSUME NEW bits \in Seq(BOOLEAN), NEW p \in Nat, p + BLOCK_SIZE <= Len(bits),
         OnlyZeros(bits, p), NEW q \in Nat
  PROVE  /\ q <= p => Rank1(DeleteBlock(bits, p), q) = Rank1(bits, q)
         /\ q >= p => Rank1(DeleteBlock(bits, p), q) = Rank1(bits, q + BLOCK_SIZE)
<1> DEFINE w == DeleteBlock(bits, p)
<1>1. w \in Seq(BOOLEAN) /\ BLOCK_SIZE \in Nat
  BY DeleteBlockType, BlockSize
<1>2. \A r \in Nat : Access(w, r) <=> IF r < p THEN Access(bits, r) ELSE Access(bits, r + BLOCK_SIZE)
  BY DeleteBlockAccess
<1>3. \A r \in Nat : Rank1(w, r) \in Nat /\ Rank1(bits, r) \in Nat
  BY <1>1, Rank1Type
<1> HIDE DEF w
<1>4. ASSUME NEW n \in 0..p PROVE Rank1(w, n) = Rank1(bits, n)
  <2>1. SameBits(w, 0, n, bits, 0)
    BY <1>2 DEF SameBits
  <2> QED  BY <1>1, <2>1, RankOfPrefix
<1>5. ASSUME q >= p PROVE Rank1(w, q) = Rank1(bits, q + BLOCK_SIZE)
  <2>1. /\ p + BLOCK_SIZE \in Nat /\ q + BLOCK_SIZE \in Nat /\ p <= p + BLOCK_SIZE
        /\ p <= q /\ 0 \in Int /\ BLOCK_SIZE \in Int
    BY <1>1, <1>5
  <2>2. \A i \in p..(p + BLOCK_SIZE - 1) : ~Access(bits, i)
    <3> SUFFICES ASSUME NEW i \in p..(p + BLOCK_SIZE - 1) PROVE ~Access(bits, i)
      OBVIOUS
    <3>1. i - p \in 0..(BLOCK_SIZE - 1) /\ p + (i - p) = i
      BY <1>1
    <3> QED  BY <3>1 DEF OnlyZeros
  <2>3. Rank1(bits, p + BLOCK_SIZE) = Rank1(bits, p)
    BY <2>1, <2>2, RankOfZeros
  <2>4. SameBits(w, p, q, bits, BLOCK_SIZE)
    BY <1>2 DEF SameBits
  <2>5. Rank1(w, q) - Rank1(w, p)
          = Rank1(bits, q + BLOCK_SIZE) - Rank1(bits, p + BLOCK_SIZE)
    BY <1>1, <2>1, <2>4, RankAgree
  <2>6. Rank1(w, p) = Rank1(bits, p)
    BY <1>4
  <2> QED  BY <1>3, <2>1, <2>3, <2>5, <2>6
<1> QED
  BY <1>4, <1>5 DEF w
-----------------------------------------------------------------------------
(* The partitions of a matrix whose side is a power of k.                  *)

\* A product of naturals without its second factor.
LEMMA QuotientOfProduct ==
  ASSUME NEW a \in Nat, NEW b \in Nat, b > 0
  PROVE  (a * b) \div b = a
<1> DEFINE n == a * b
           q == n \div b
           r == n % b
<1>1. n \in Nat
  OBVIOUS
<1>2. q \in Int /\ r \in 0..(b - 1) /\ n = b * q + r
  <2> HIDE DEF n
  <2> QED  BY <1>1
<1> HIDE DEF q, r
<1>3. b * (a - q) = r
  BY <1>2
<1>4. a - q \in Int /\ b * (a - q) < b /\ b * (a - q) >= 0
  BY <1>2, <1>3
<1>5. ~(a - q >= 1)
  <2> SUFFICES ASSUME a - q >= 1 PROVE FALSE
    OBVIOUS
  <2>1. b * (a - q) >= b
    BY <1>4
  <2> QED  BY <1>2, <1>4, <2>1
<1>6. ~(a - q <= -1)
  <2> SUFFICES ASSUME a - q <= -1 PROVE FALSE
    OBVIOUS
  <2>1. b * (a - q) <= -b
    BY <1>4
  <2> QED  BY <1>2, <1>4, <2>1
<1> QED
  BY <1>2, <1>4, <1>5, <1>6 DEF q

\* The powers up to K^H divide it.
LEMMA PowProduct ==
  ASSUME NEW H \in Nat, NEW it \in 0..H
  PROVE  LongPow[H] = LongPow[H - it] * LongPow[it]
<1> DEFINE S == {i \in 0..H : LongPow[H] # LongPow[H - i] * LongPow[i]}
<1>1. ASSUME S # {} PROVE FALSE
  <2>1. PICK i \in S : \A j \in S : i <= j
    <3>1. S \in SUBSET Nat
      OBVIOUS
    <3> HIDE DEF S
    <3> QED  BY <1>1, <3>1, LeastNatural
  <2>2. i # 0
    BY LongPowEquation, LongPowPositive
  <2>3. i - 1 \in 0..H /\ ~(i <= i - 1) /\ i - 1 \in Nat /\ H - i \in Nat
        /\ (i - 1) + 1 = i /\ (H - i) + 1 = H - (i - 1)
    BY <2>2
  <2>4. i - 1 \notin S
    <3> HIDE DEF S
    <3> QED  BY <2>1, <2>3
  <2>5. LongPow[H] = LongPow[H - (i - 1)] * LongPow[i - 1]
    BY <2>3, <2>4
  <2>6. LongPow[H - (i - 1)] = K * LongPow[H - i] /\ LongPow[i] = K * LongPow[i - 1]
    <3>1. LongPow[(H - i) + 1] = K * LongPow[H - i]
      BY <2>3, LongPowGrows
    <3>2. LongPow[(i - 1) + 1] = K * LongPow[i - 1]
      BY <2>3, LongPowGrows
    <3> QED  BY <2>3, <3>1, <3>2
  <2>7. LongPow[H - i] \in Nat /\ LongPow[i - 1] \in Nat /\ K \in Nat
    BY <2>3, LongPowPositive, KAssumption
  <2>8. \A x, y, k \in Nat : (k * x) * y = x * (k * y)
    OBVIOUS
  <2>9. LongPow[H] = LongPow[H - i] * LongPow[i]
    BY <2>5, <2>6, <2>7, <2>8
  <2> QED  BY <2>9
<1>2. LongPow[H] = LongPow[H - it] * LongPow[it]
  BY <1>1
<1> QED
  BY <1>2

\* A larger power is at least K times as large.
LEMMA PowOrder ==
  ASSUME NEW i \in Nat, NEW j \in Nat, i < j
  PROVE  LongPow[j] >= K * LongPow[i]
<1>1. j - i \in Nat /\ j - (j - i) = i /\ j - i \in 0..j /\ j - i # 0 /\ (j - i) - 1 \in Nat
      /\ ((j - i) - 1) + 1 = j - i
  OBVIOUS
<1>2. LongPow[j] = LongPow[i] * LongPow[j - i]
  BY <1>1, PowProduct
<1>3. LongPow[j - i] = K * LongPow[(j - i) - 1]
  BY <1>1, LongPowGrows
<1>4. LongPow[(j - i) - 1] \in Nat \ {0} /\ LongPow[i] \in Nat \ {0} /\ K \in Nat
  BY <1>1, LongPowPositive, KAssumption
<1>5. \A x, y, k \in Nat : y >= 1 => x * (k * y) >= k * x
  <2> SUFFICES ASSUME NEW x \in Nat, NEW y \in Nat, NEW k \in Nat, y >= 1
               PROVE  x * (k * y) >= k * x
    OBVIOUS
  <2>1. x * (k * y) = (k * x) * y
    OBVIOUS
  <2>2. k * x \in Nat
    OBVIOUS
  <2>3. \A p \in Nat : p * y >= p
    OBVIOUS
  <2> QED  BY <2>1, <2>2, <2>3
<1> QED
  BY <1>2, <1>3, <1>4, <1>5

\* The matrix of side K^H has H levels of partitions, each a K-th of the one before.
LEMMA PartitionOfPower ==
  ASSUME NEW H \in Nat, matrixSize = LongPow[H], NEW it \in Nat
  PROVE  /\ it <= H => Partition(it) = LongPow[H - it]
         /\ it > H => Partition(it) = 0
<1>1. LongPow[it] \in Nat /\ LongPow[it] > 0 /\ LongPow[H] \in Nat \ {0}
  BY LongPowPositive
<1>2. CASE it <= H
  <2>1. it \in 0..H /\ H - it \in Nat
    BY <1>2
  <2>2. LongPow[H] = LongPow[H - it] * LongPow[it] /\ LongPow[H - it] \in Nat
    BY <2>1, PowProduct, LongPowPositive
  <2> QED  BY <1>1, <1>2, <2>2, QuotientOfProduct DEF Partition
<1>3. CASE it > H
  <2>1. LongPow[it] >= K * LongPow[H]
    BY <1>3, PowOrder
  <2>2. \A x \in Nat \ {0} : K * x > x
    BY KAssumption
  <2>3. K * LongPow[H] \in Nat
    BY <1>1, KAssumption
  <2>4. LongPow[H] < LongPow[it]
    BY <1>1, <2>1, <2>2, <2>3
  <2>5. LongPow[H] \div LongPow[it] = 0
    BY <1>1, <2>4, DivMod
  <2> QED  BY <1>3, <2>5 DEF Partition
<1> QED
  BY <1>2, <1>3

\* Above the last level partitions have a side above 1, at the last it is 1.
LEMMA PartitionSizes ==
  ASSUME NEW H \in Nat, matrixSize = LongPow[H], NEW it \in Nat
  PROVE  /\ Partition(it) \in Nat
         /\ Partition(it) > 1 <=> it < H
         /\ Partition(it) = 1 <=> it = H
         /\ Partition(it) = 0 <=> it > H
<1>1. CASE it < H
  <2>1. H - it \in Nat /\ 0 < H - it /\ Partition(it) = LongPow[H - it]
    BY <1>1, PartitionOfPower
  <2>2. LongPow[H - it] >= K * LongPow[0] /\ LongPow[0] = 1
    BY <2>1, PowOrder, LongPowEquation
  <2> QED  BY <1>1, <2>1, <2>2, LongPowPositive, KAssumption
<1>2. CASE it = H
  <2>1. Partition(it) = LongPow[H - it] /\ H - it = 0 /\ LongPow[0] = 1
    BY <1>2, PartitionOfPower, LongPowEquation
  <2> QED  BY <1>2, <2>1
<1>3. CASE it > H
  BY <1>3, PartitionOfPower
<1> QED
  BY <1>1, <1>2, <1>3

\* calculateOffset gives a position inside a block, whatever the vertices.
LEMMA OffsetInBlock ==
  ASSUME NEW H \in Nat, matrixSize = LongPow[H], NEW it \in 1..H,
         NEW row \in Nat, NEW column \in Nat
  PROVE  CalculateOffset(row, column, it) \in 0..(BLOCK_SIZE - 1)
<1> DEFINE p == Partition(it)
<1>1. p \in Nat /\ p > 0
  BY PartitionSizes
<1>2. Partition(it - 1) = K * p
  <2>1. /\ it - 1 \in Nat /\ it - 1 <= H /\ it \in Nat /\ it <= H
        /\ H - it \in Nat /\ H - (it - 1) = (H - it) + 1
    OBVIOUS
  <2>2. Partition(it - 1) = LongPow[H - (it - 1)] /\ p = LongPow[H - it]
    BY <2>1, PartitionOfPower
  <2>3. LongPow[(H - it) + 1] = K * LongPow[H - it]
    BY <2>1, LongPowGrows
  <2> QED  BY <2>1, <2>2, <2>3
<1> HIDE DEF p
<1>3. K * p \in Nat /\ K * p > 0
  BY <1>1, KAssumption
<1>4. ASSUME NEW x \in Nat PROVE OffsetOf(x, it) \in 0..(K - 1)
  <2> DEFINE r == x % (K * p)
             q == r \div p
  <2>1. r \in 0..(K * p - 1)
    BY <1>3, DivMod
  <2>2. OffsetOf(x, it) = q
    BY <1>2 DEF OffsetOf, p
  <2> HIDE DEF r
  <2>3. q \in Nat /\ p * q <= r
    <3>1. r \in Nat
      BY <1>3, <2>1
    <3>2. q \in Nat
      BY <1>1, <3>1, DivMod
    <3>3. r = p * q + (r % p) /\ r % p \in Nat
      BY <1>1, <3>1
    <3>4. p * q \in Nat
      BY <1>1, <3>2
    <3> HIDE DEF q
    <3> QED  BY <3>1, <3>2, <3>3, <3>4
  <2> HIDE DEF q
  <2>4. ~(q >= K)
    <3> SUFFICES ASSUME q >= K PROVE FALSE
      OBVIOUS
    <3>1. p * q >= p * K
      <4>1. q - K \in Nat /\ p * q = p * K + p * (q - K)
        BY <1>1, <2>3, KAssumption
      <4>2. p * (q - K) \in Nat /\ p * K \in Nat
        BY <1>1, <4>1, KAssumption
      <4> QED  BY <4>1, <4>2
    <3>2. p * K = K * p /\ p * q \in Nat
      BY <1>1, <2>3, KAssumption
    <3> QED  BY <1>3, <2>1, <2>3, <3>1, <3>2
  <2> QED  BY <2>2, <2>3, <2>4, KAssumption
<1>5. PICK i \in 0..(K - 1), j \in 0..(K - 1) : CalculateOffset(row, column, it) = K * i + j
  BY <1>4 DEF CalculateOffset
<1>6. K * i \in Nat /\ K * i <= K * (K - 1) /\ K * (K - 1) + K = K * K
  <2>1. i \in Nat /\ K - 1 - i \in Nat /\ K * (K - 1) = K * i + K * (K - 1 - i)
    BY KAssumption
  <2>2. K * i \in Nat /\ K * (K - 1 - i) \in Nat
    BY <2>1, KAssumption
  <2>3. K * (K - 1) + K = K * K
    BY KAssumption
  <2> QED  BY <2>1, <2>2, <2>3
<1>7. K * K \in Nat /\ K * (K - 1) \in Nat
  BY KAssumption
<1> QED
  BY <1>5, <1>6, <1>7, KAssumption DEF BLOCK_SIZE
-----------------------------------------------------------------------------
(* Frames.                                                                 *)

\* A new activation has the type of a frame.
LEMMA FrameType ==
  ASSUME NEW rs \in Seq(Nat), NEW cs \in Seq(Nat), NEW p \in Nat,
         NEW o \in Nat \cup {-1}
  PROVE  Frame(rs, cs, p, o) \in Frames /\ Frame(rs, cs, p, o).offset = o
  BY DEF Frame, Frames

\* The activation on top of a non-empty stack is a frame.
LEMMA TopType ==
  ASSUME frames \in Seq(Frames), frames # <<>>
  PROVE  /\ level \in Nat \ {0} /\ level = Len(frames)
         /\ top \in Frames
         /\ top.rows \in Seq(Nat) /\ top.columns \in Seq(Nat)
         /\ top.firstAt \in Nat /\ top.offset \in Nat \cup {-1}
         /\ top.only0s \in BOOLEAN
         /\ node \in Int
<1>1. level \in Nat \ {0} /\ level = Len(frames) /\ top = frames[Len(frames)]
  BY DEF level, top
<1>2. top \in Frames
  BY <1>1
<1> HIDE DEF level, top
<1>3. /\ top.rows \in Seq(Nat) /\ top.columns \in Seq(Nat)
      /\ top.firstAt \in Nat /\ top.offset \in Nat \cup {-1}
      /\ top.only0s \in BOOLEAN
  BY <1>2 DEF Frames
<1> QED
  BY <1>1, <1>2, <1>3 DEF node

\* Replacing a frame by a frame keeps the type of the stack.
LEMMA ReplaceFrame ==
  ASSUME NEW fs \in Seq(Frames), NEW i \in 1..Len(fs), NEW f \in Frames
  PROVE  /\ [fs EXCEPT ![i] = f] \in Seq(Frames)
         /\ Len([fs EXCEPT ![i] = f]) = Len(fs)
         /\ \A j \in 1..Len(fs) : [fs EXCEPT ![i] = f][j] = IF j = i THEN f ELSE fs[j]
  OBVIOUS

\* Pushing a frame on activations that are all at an offset.
LEMMA PushType ==
  ASSUME frames \in Seq(Frames), NEW f \in Frames,
         \A i \in 1..Len(frames) : frames[i].offset \in Nat
  PROVE  /\ Append(frames, f) \in Seq(Frames)
         /\ Append(frames, f) # <<>>
         /\ \A i \in 1..(Len(Append(frames, f)) - 1) : Append(frames, f)[i].offset \in Nat
         /\ f.offset \in Nat =>
              \A i \in 1..Len(Append(frames, f)) : Append(frames, f)[i].offset \in Nat
<1>1. Len(Append(frames, f)) = Len(frames) + 1 /\ Len(frames) \in Nat
  OBVIOUS
<1>2. \A i \in 1..Len(frames) : Append(frames, f)[i] = frames[i]
  OBVIOUS
<1>3. Append(frames, f) \in Seq(Frames) /\ Append(frames, f) # <<>>
  BY AppendProperties
<1>4. \A i \in 1..(Len(Append(frames, f)) - 1) : i \in 1..Len(frames)
  BY <1>1
<1>5. \A i \in 1..Len(Append(frames, f)) : i \in 1..Len(frames) \/ Append(frames, f)[i] = f
  BY <1>1
<1> QED
  BY <1>2, <1>3, <1>4, <1>5, Zenon

\* Returning from an activation leaves the others as they were.
LEMMA PopType ==
  ASSUME frames \in Seq(Frames), frames # <<>>
  PROVE  /\ Popped \in Seq(Frames) /\ Len(Popped) = level - 1
         /\ \A i \in 1..(level - 1) : Popped[i] = frames[i]
<1>1. level \in Nat \ {0} /\ level = Len(frames)
  BY TopType
<1>2. /\ SubSeq(frames, 1, level - 1) \in Seq(Frames)
      /\ Len(SubSeq(frames, 1, level - 1)) = level - 1
      /\ \A i \in 1..(level - 1) : SubSeq(frames, 1, level - 1)[i] = frames[i]
  <2> HIDE DEF level, Frames
  <2> QED  BY <1>1, SubSeqProperties
<1> QED
  BY <1>2 DEF Popped
-----------------------------------------------------------------------------
(* Types.                                                                  *)

\* The types, a matrix that is never empty, levels that count from 1, and
\* offsets that only deleteEdges counts down.
Typed == /\ TypeOK
         /\ matrixSize >= 1
         /\ pc \in {"traverse", "extend"} => iteration >= 1
         /\ pc \in {"remove", "prune", "find"} =>
              \A i \in 1..Len(frames) : frames[i].offset \in Nat

\* A call that returns gives its local variables back.
LEMMA FinishType ==
  ASSUME NEW r \in Replies, Finish(r),
         ttree' \in Seq(BOOLEAN), ltree' \in Seq(BOOLEAN),
         freeColumns' \in Seq(Nat), firstFreeColumn' \in Nat,
         matrixSize' \in Nat, matrixSize' >= 1
  PROVE  Typed'
<1>1. /\ pc' = "idle" /\ call' = NoCall /\ iteration' = 0 /\ position' = 0
      /\ frames' = <<>> /\ findings' = <<>> /\ reply' = r
  BY DEF Finish
<1>2. frames' \in Seq(Frames) /\ Len(frames') = 0
  BY <1>1
<1>3. call' \in Calls
  BY <1>1 DEF Calls
<1>4. \A i \in 1..(Len(frames') - 1) : frames'[i].offset \in Nat
  BY <1>2
<1>5. \A i \in 1..Len(frames') : frames'[i].offset \in Nat
  BY <1>2
<1> QED
  BY <1>1, <1>2, <1>3, <1>4, <1>5 DEF Typed, TypeOK

\* The results of the calls are replies.
LEMMA ReplyTypes ==
  ASSUME NEW c \in Calls
  PROVE  /\ [call |-> c] \in Replies
         /\ [call |-> c, throws |-> "invalid_argument"] \in Replies
         /\ \A b \in BOOLEAN : [call |-> c, edge |-> b] \in Replies
         /\ \A es \in Seq(Nat \X Nat) : [call |-> c, edges |-> es] \in Replies
         /\ \A v \in Nat : [call |-> c, vertex |-> v] \in Replies
  BY DEF Replies

\* calculateOffset does not throw where a partition is left.
LEMMA OffsetAt ==
  ASSUME Typed, NEW it \in Nat \ {0}, Partition(it) # 0,
         NEW row \in Nat, NEW column \in Nat
  PROVE  CalculateOffset(row, column, it) \in Nat
<1>1. matrixSize \in Nat
  BY DEF Typed, TypeOK
<1>2. Partition(it) \in Nat
  BY <1>1, PartitionType
<1>3. Partition(it) > 0
  BY <1>2
<1> QED
  BY <1>1, <1>3, OffsetType

\* A call that throws and changes nothing keeps the types.
LEMMA ThrowType ==
  ASSUME Typed, NEW c \in Calls, Throw(c), UNCHANGED <<matrix, bookkeeping>>
  PROVE  Typed'
  BY FinishType, ReplyTypes DEF Throw, Typed, TypeOK, matrix, bookkeeping

\* A new tree has the types.
LEMMA InitTyped == Init => Typed
<1> SUFFICES ASSUME Init PROVE Typed
  OBVIOUS
<1>1. matrixSize \in Nat /\ matrixSize >= 1 /\ firstFreeColumn \in Nat
  <2>1. CASE \E power \in Powers : New(power)
    BY <2>1, LongPowPositive, BoundsAssumption DEF New
  <2>2. CASE \E size \in Sizes : WithSize(size)
    BY <2>2, LongPowPositive, BoundsAssumption DEF WithSize
  <2> QED  BY <2>1, <2>2 DEF Init
<1>2. ttree \in Seq(BOOLEAN)
  <2>1. [i \in 1..BLOCK_SIZE |-> FALSE] \in [1..BLOCK_SIZE -> BOOLEAN]
    BY Zenon
  <2>2. BLOCK_SIZE \in Nat
    BY BlockSize
  <2> QED  BY <2>1, <2>2, FunctionIsSeq, Zenon DEF Init
<1>3. /\ pc = "idle" /\ call = NoCall /\ iteration = 0 /\ position = 0
      /\ frames = <<>> /\ findings = <<>> /\ freeColumns = <<>> /\ ltree = <<>>
      /\ reply = [call |-> NoCall]
  BY DEF Init, Idle, NoReply
<1>4. call \in Calls /\ reply \in Replies
  BY <1>3, ReplyTypes DEF Calls
<1>5. /\ frames \in Seq(Frames) /\ Len(frames) = 0
      /\ freeColumns \in Seq(Nat) /\ ltree \in Seq(BOOLEAN)
  BY <1>3
<1> QED
  BY <1>1, <1>2, <1>3, <1>4, <1>5 DEF Typed, TypeOK

\* addEdge and reportEdge start their descent with the types.
LEMMA StartTraverseTyped ==
  ASSUME Typed, NEW c \in EdgeCalls, StartTraverse(c)
  PROVE  Typed'
<1>1. c \in Calls /\ c.row \in Nat /\ c.column \in Nat
  BY DEF Calls, EdgeCalls
<1>2. CASE Throw(c) /\ UNCHANGED <<matrix, bookkeeping>>
  BY <1>1, <1>2, ThrowType
<1>3. CASE /\ Partition(1) > 0
           /\ Begin(c) /\ pc' = "traverse" /\ iteration' = 1
           /\ position' = CalculateOffset(c.row, c.column, 1)
           /\ UNCHANGED <<matrix, bookkeeping, frames, findings>>
  <2>1. position' \in Nat
    <3>1. matrixSize \in Nat /\ 1 \in Nat \ {0} /\ Partition(1) > 0
      BY <1>3 DEF Typed, TypeOK
    <3>2. CalculateOffset(c.row, c.column, 1) \in Nat
      BY <1>1, <3>1, OffsetType
    <3> QED  BY <1>3, <3>2
  <2>2. call' = c /\ reply' = NoReply /\ NoReply \in Replies
    BY <1>3, ReplyTypes DEF Begin, NoReply, Calls
  <2> QED
    BY <1>1, <1>3, <2>1, <2>2 DEF Typed, TypeOK, matrix, bookkeeping
<1> QED
  BY <1>2, <1>3 DEF StartTraverse

\* One level of the descent keeps the types.
LEMMA TraverseOneTyped ==
  ASSUME Typed, TraverseOne
  PROVE  Typed'
<1>1. /\ call \in Calls /\ call.row \in Nat /\ call.column \in Nat
      /\ call \in EdgeCalls /\ pc = "traverse"
  BY DEF Typed, TypeOK, EdgeCalls, TraverseOne
<1>2. CASE Partition(iteration + 1) = 0
  BY <1>1, <1>2, ThrowType DEF TraverseOne
<1>3. CASE Partition(iteration + 1) # 0
  <2>1. iteration + 1 \in Nat \ {0} /\ Partition(iteration + 1) > 0
    <3>1. matrixSize \in Nat /\ iteration + 1 \in Nat /\ iteration + 1 # 0
      BY DEF Typed, TypeOK
    <3>2. Partition(iteration + 1) \in Nat
      BY <3>1, PartitionType
    <3> QED  BY <1>3, <3>1, <3>2
  <2>2. CalculateOffset(call.row, call.column, iteration + 1) \in Nat
    BY <1>1, <2>1, OffsetType DEF Typed, TypeOK
  <2>3. ChildBlock(position) \in Nat
    BY ChildBlockType DEF Typed, TypeOK
  <2>4. position' \in Nat /\ iteration' \in Nat /\ iteration' >= 1
    BY <1>3, <2>1, <2>2, <2>3 DEF TraverseOne
  <2>5. /\ pc' = pc /\ call' = call /\ frames' = frames /\ findings' = findings
        /\ reply' = reply /\ UNCHANGED <<matrix, bookkeeping>>
    BY <1>3 DEF TraverseOne
  <2>6. /\ UNCHANGED <<ttree, ltree, matrixSize, freeColumns, firstFreeColumn>>
        /\ pc' = "traverse" /\ call' \in EdgeCalls
    BY <1>1, <2>5 DEF matrix, bookkeeping
  <2>7. findings' \in Seq(Nat \X Nat) /\ frames' \in Seq(Frames) /\ reply' \in Replies
    BY <2>5 DEF Typed, TypeOK
  <2> QED
    BY <1>1, <2>4, <2>5, <2>6, <2>7 DEF Typed, TypeOK
<1> QED
  BY <1>2, <1>3

\* The loops of addEdge keep the types.
LEMMA AddEdgeStepsTyped ==
  ASSUME Typed, AddEdgeInLTree \/ AddEdgeAtFirst0 \/ ExtendTTree \/ ExtendLTree
  PROVE  Typed'
<1>1. /\ call \in EdgeCalls /\ call.row \in Nat /\ call.column \in Nat /\ call \in Calls
      /\ pc \in {"traverse", "extend"} /\ iteration \in Nat \ {0}
  <2>1. pc \in {"traverse", "extend"}
    BY DEF AddEdgeInLTree, AtLTree, AddEdgeAtFirst0, AtFirst0, ExtendTTree, ExtendLTree
  <2>2. call \in EdgeCalls /\ call \in Calls /\ iteration \in Nat /\ iteration >= 1
    BY <2>1 DEF Typed, TypeOK
  <2> QED  BY <2>1, <2>2 DEF EdgeCalls
<1>2. /\ [call |-> call] \in Replies
      /\ [call |-> call, throws |-> "invalid_argument"] \in Replies
  BY <1>1, ReplyTypes
<1>3. ChildBlock(position) \in Nat /\ ChildBlock(position) - Len(ttree) \in Int
  BY ChildBlockType DEF Typed, TypeOK
<1>4. CASE AddEdgeInLTree
  <2>1. ltree' \in Seq(BOOLEAN)
    BY <1>4, SetBitType DEF AddEdgeInLTree, Typed, TypeOK
  <2> QED
    BY <1>2, <1>4, <2>1, FinishType DEF AddEdgeInLTree, Typed, TypeOK, bookkeeping
<1>5. CASE AddEdgeAtFirst0
  <2>1. ttree' \in Seq(BOOLEAN)
    BY <1>5, SetBitType DEF AddEdgeAtFirst0, Typed, TypeOK
  <2>2. /\ pc' = "extend" /\ iteration' = iteration + 1
        /\ UNCHANGED <<ltree, matrixSize, bookkeeping, call, position, frames, findings, reply>>
    BY <1>5 DEF AddEdgeAtFirst0
  <2>3. iteration' \in Nat /\ iteration' >= 1
    BY <1>1, <2>2
  <2> QED
    BY <1>1, <2>1, <2>2, <2>3 DEF Typed, TypeOK, bookkeeping
<1>6. CASE ExtendTTree
  <2>1. matrixSize \in Nat /\ Partition(iteration) > 0
    <3>1. Partition(iteration) > 1 /\ Partition(iteration) \in Nat
      BY <1>1, <1>6, PartitionType DEF ExtendTTree, Typed, TypeOK
    <3> QED  BY <3>1 DEF Typed, TypeOK
  <2>2. CalculateOffset(call.row, call.column, iteration) \in Nat
    BY <1>1, <2>1, OffsetType
  <2>3. InsertBlock(ttree, ChildBlock(position)) \in Seq(BOOLEAN)
    BY <1>3, InsertBlockType DEF Typed, TypeOK
  <2>4. ttree' \in Seq(BOOLEAN)
    BY <1>6, <2>3, SetBitType DEF ExtendTTree
  <2>5. position' \in Nat /\ iteration' \in Nat /\ iteration' >= 1
    BY <1>1, <1>3, <1>6, <2>2 DEF ExtendTTree
  <2> QED
    BY <1>6, <2>4, <2>5 DEF ExtendTTree, Typed, TypeOK, bookkeeping
<1>7. CASE ExtendLTree
  <2>1. InsertBlock(ltree, ChildBlock(position) - Len(ttree)) \in Seq(BOOLEAN)
    BY <1>3, InsertBlockType DEF Typed, TypeOK
  <2>2. ltree' \in Seq(BOOLEAN)
    BY <1>7, <2>1, SetBitType DEF ExtendLTree
  <2> QED
    BY <1>2, <1>7, <2>2, FinishType DEF ExtendLTree, Throw, Typed, TypeOK, bookkeeping
<1> QED
  BY <1>4, <1>5, <1>6, <1>7

\* reportEdge returns a truth value.
LEMMA ReportEdgeReturnsTyped ==
  ASSUME Typed, ReportEdgeReturns
  PROVE  Typed'
<1>1. call \in Calls
  BY DEF Typed, TypeOK
<1> DEFINE answer == AtLTree /\ Access(ltree, position - Len(ttree))
<1>2. answer \in BOOLEAN
  BY Zenon
<1>3. [call |-> call, edge |-> answer] \in Replies
  BY <1>1, <1>2, ReplyTypes
<1> QED
  BY <1>3, FinishType DEF ReportEdgeReturns, Typed, TypeOK, matrix, bookkeeping

\* removeEdge starts its descent with the types.
LEMMA RemoveEdgeTyped ==
  ASSUME Typed, NEW row \in Nat, NEW column \in Nat, RemoveEdge(row, column)
  PROVE  Typed'
<1> DEFINE c == EdgeCall("removeEdge", row, column)
<1>1. c \in EdgeCalls /\ c \in Calls
  BY DEF EdgeCall, EdgeCalls, Calls
<1>2. CASE Partition(1) = 0
  BY <1>1, <1>2, ThrowType DEF RemoveEdge
<1>3. CASE Partition(1) # 0
  <2>1. matrixSize \in Nat /\ 1 \in Nat \ {0} /\ Partition(1) > 0
    BY <1>3, PartitionType DEF Typed, TypeOK
  <2>2. CalculateOffset(row, column, 1) \in Nat
    BY <2>1, OffsetType
  <2>3. <<row>> \in Seq(Nat) /\ <<column>> \in Seq(Nat)
    OBVIOUS
  <2> DEFINE f == Frame(<<row>>, <<column>>, 0, CalculateOffset(row, column, 1))
  <2>4. f \in Frames
    BY <2>2, <2>3, FrameType
  <2>5. /\ call' = c /\ reply' = NoReply /\ NoReply \in Replies /\ pc' = "remove"
        /\ frames' = <<f>>
        /\ UNCHANGED <<matrix, bookkeeping, iteration, position, findings>>
    BY <1>3, ReplyTypes DEF RemoveEdge, Begin, NoReply, Calls
  <2> HIDE DEF f, c
  <2>6. frames' \in Seq(Frames) /\ frames' # <<>> /\ Len(frames') = 1
    BY <2>4, <2>5
  <2>7. f.offset \in Nat
    BY <2>2 DEF f, Frame
  <2>8. \A i \in 1..Len(frames') : frames'[i].offset \in Nat
    BY <2>5, <2>6, <2>7
  <2> QED
    BY <1>1, <2>5, <2>6, <2>8 DEF Typed, TypeOK, matrix, bookkeeping
<1> QED
  BY <1>2, <1>3

\* A step that only moves the activations, or the bits, keeps the types.
LEMMA FramesChange ==
  ASSUME Typed,
         ttree' \in Seq(BOOLEAN), ltree' \in Seq(BOOLEAN),
         UNCHANGED <<matrixSize, bookkeeping, call, position, reply>>,
         iteration' \in Nat,
         findings' \in Seq(Nat \X Nat),
         frames' \in Seq(Frames), frames' # <<>> \/ pc' = "prune",
         \A i \in 1..(Len(frames') - 1) : frames'[i].offset \in Nat,
         pc' \in {"remove", "prune", "find"} =>
           \A i \in 1..Len(frames') : frames'[i].offset \in Nat,
         pc' \in {"remove", "prune", "deleteRow", "deleteColumn", "find"},
         pc' \in {"remove", "prune"} => call \in EdgeCalls,
         pc' \in {"deleteRow", "deleteColumn"} => call \in DeleteCalls
  PROVE  Typed'
<1>1. /\ freeColumns' \in Seq(Nat) /\ firstFreeColumn' \in Nat
      /\ matrixSize' \in Nat /\ matrixSize' >= 1
      /\ call' \in Calls /\ call' = call /\ position' \in Nat /\ reply' \in Replies
  BY DEF Typed, TypeOK, bookkeeping
<1>2. /\ pc' \in {"idle", "traverse", "extend", "remove", "prune",
                  "collect", "deleteRow", "deleteColumn", "find"}
      /\ pc' \notin {"traverse", "extend", "collect", "idle"}
  OBVIOUS
<1>3. pc' \in {"traverse", "extend", "remove", "prune"} => call' \in EdgeCalls
  BY <1>1, <1>2
<1>4. pc' \in {"collect", "deleteRow", "deleteColumn"} => call' \in DeleteCalls
  BY <1>1, <1>2
<1> QED
  BY <1>1, <1>2, <1>3, <1>4 DEF Typed, TypeOK

\* deleteThisEdge calls itself with the types.
LEMMA RemoveDescendsTyped ==
  ASSUME Typed, RemoveDescends
  PROVE  Typed'
<1>1. /\ call \in Calls /\ call \in EdgeCalls /\ call.row \in Nat /\ call.column \in Nat
      /\ pc = "remove" /\ frames \in Seq(Frames) /\ frames # <<>>
  BY DEF Typed, TypeOK, EdgeCalls, RemoveDescends
<1>2. CASE Partition(level + 1) = 0
  BY <1>1, <1>2, ThrowType DEF RemoveDescends
<1>3. CASE Partition(level + 1) # 0
  <2>1. level + 1 \in Nat \ {0} /\ level \in Nat
    BY <1>1, TopType
  <2>3. CalculateOffset(call.row, call.column, level + 1) \in Nat
    BY <1>1, <1>3, <2>1, OffsetAt
  <2>4. ChildBlock(node) \in Nat
    BY ChildBlockType DEF Typed, TypeOK
  <2> DEFINE f == Frame(top.rows, top.columns, ChildBlock(node),
                        CalculateOffset(call.row, call.column, level + 1))
  <2>5. f \in Frames
    BY <1>1, <2>3, <2>4, TopType, FrameType
  <2>6. /\ frames' = Append(frames, f)
        /\ UNCHANGED <<pc, call, iteration, position, findings, reply>>
        /\ UNCHANGED <<matrix, bookkeeping>>
    BY <1>3 DEF RemoveDescends
  <2>7. \A i \in 1..Len(frames) : frames[i].offset \in Nat
    BY <1>1 DEF Typed
  <2> HIDE DEF f
  <2>8. f.offset \in Nat
    <3>1. top.rows \in Seq(Nat) /\ top.columns \in Seq(Nat)
      BY <1>1, TopType
    <3> QED  BY <2>3, <2>4, <3>1, FrameType DEF f
  <2>9. /\ frames' \in Seq(Frames) /\ frames' # <<>>
        /\ \A i \in 1..Len(frames') : frames'[i].offset \in Nat
        /\ \A i \in 1..(Len(frames') - 1) : frames'[i].offset \in Nat
    BY <1>1, <2>5, <2>6, <2>7, <2>8, PushType
  <2> QED
    BY <1>1, <2>6, <2>9, FramesChange DEF matrix, Typed, TypeOK
<1> QED
  BY <1>2, <1>3

\* deleteThisEdge returns without a change.
LEMMA RemoveStopsTyped ==
  ASSUME Typed, RemoveStops
  PROVE  Typed'
<1>1. [call |-> call] \in Replies
  BY ReplyTypes DEF Typed, TypeOK
<1> QED
  BY <1>1, FinishType DEF RemoveStops, Typed, TypeOK, matrix, bookkeeping

\* Returning to the calling activation leaves all activations at an offset.
LEMMA PoppedOffsets ==
  ASSUME Typed, frames # <<>>
  PROVE  /\ Popped \in Seq(Frames) /\ Len(Popped) = level - 1
         /\ level = Len(frames) /\ level \in Nat \ {0}
         /\ \A i \in 1..Len(Popped) : Popped[i] = frames[i] /\ Popped[i].offset \in Nat
<1>1. frames \in Seq(Frames) /\ \A i \in 1..(Len(frames) - 1) : frames[i].offset \in Nat
  BY DEF Typed, TypeOK
<1>2. level = Len(frames) /\ level \in Nat \ {0}
  BY <1>1, TopType
<1>3. /\ Popped \in Seq(Frames) /\ Len(Popped) = level - 1
      /\ \A i \in 1..(level - 1) : Popped[i] = frames[i]
  BY <1>1, PopType
<1> QED
  BY <1>1, <1>2, <1>3

\* deleteLTreeEdge keeps the types.
LEMMA RemoveInLTreeTyped ==
  ASSUME Typed, RemoveInLTree
  PROVE  Typed'
<1> DEFINE cleared == SetBit(ltree, LeafBlock + top.offset, FALSE)
<1>1. pc = "remove" /\ frames # <<>> /\ frames \in Seq(Frames) /\ call \in EdgeCalls
  BY DEF RemoveInLTree, Typed, TypeOK
<1>2. cleared \in Seq(BOOLEAN)
  BY SetBitType DEF Typed, TypeOK
<1>3. LeafBlock \in Int
  <2>1. top.firstAt \in Nat
    BY <1>1, TopType
  <2>2. Len(ttree) \in Nat
    BY DEF Typed, TypeOK
  <2> QED  BY <2>1, <2>2 DEF LeafBlock
<1>4. DeleteBlock(cleared, LeafBlock) \in Seq(BOOLEAN)
  BY <1>2, <1>3, DeleteBlockType
<1>5. UNCHANGED <<ttree, matrixSize, bookkeeping>>
  BY DEF RemoveInLTree
<1>6. CASE OnlyZeros(cleared, LeafBlock)
  <2>1. /\ ltree' = DeleteBlock(cleared, LeafBlock) /\ pc' = "prune" /\ frames' = Popped
        /\ UNCHANGED <<call, iteration, position, findings, reply>>
    BY <1>6 DEF RemoveInLTree
  <2>2. /\ frames' \in Seq(Frames)
        /\ \A i \in 1..Len(frames') : frames'[i].offset \in Nat
        /\ \A i \in 1..(Len(frames') - 1) : frames'[i].offset \in Nat
    BY <1>1, <2>1, PoppedOffsets
  <2> QED
    BY <1>1, <1>4, <1>5, <2>1, <2>2, FramesChange DEF Typed, TypeOK
<1>7. CASE ~OnlyZeros(cleared, LeafBlock)
  <2>1. ltree' = cleared /\ Finish([call |-> call])
    BY <1>7 DEF RemoveInLTree
  <2>2. [call |-> call] \in Replies
    BY ReplyTypes DEF Typed, TypeOK
  <2> QED
    BY <1>2, <1>5, <2>1, <2>2, FinishType DEF Typed, TypeOK, bookkeeping
<1> QED
  BY <1>6, <1>7

\* The way back of removeEdge keeps the types.
LEMMA PruneTyped ==
  ASSUME Typed, Prune
  PROVE  Typed'
<1> DEFINE cleared == SetBit(ttree, node, FALSE)
<1>1. pc = "prune" /\ frames \in Seq(Frames) /\ call \in EdgeCalls
  BY DEF Prune, Typed, TypeOK
<1>2. cleared \in Seq(BOOLEAN)
  BY SetBitType DEF Typed, TypeOK
<1>3. UNCHANGED <<ltree, matrixSize, bookkeeping>>
  BY DEF Prune
<1>4. CASE level > 1 /\ OnlyZeros(cleared, top.firstAt)
  <2>1. /\ ttree' = DeleteBlock(cleared, top.firstAt) /\ frames' = Popped
        /\ UNCHANGED <<pc, call, iteration, position, findings, reply>>
    BY <1>4 DEF Prune
  <2>2. frames # <<>>
    BY <1>1, <1>4 DEF level
  <2>3. /\ frames' \in Seq(Frames)
        /\ \A i \in 1..Len(frames') : frames'[i].offset \in Nat
        /\ \A i \in 1..(Len(frames') - 1) : frames'[i].offset \in Nat
    BY <2>1, <2>2, PoppedOffsets
  <2>4. ttree' \in Seq(BOOLEAN)
    <3>1. top.firstAt \in Int
      BY <1>1, <2>2, TopType
    <3> QED  BY <1>2, <2>1, <3>1, DeleteBlockType
  <2> QED
    BY <1>1, <1>3, <2>1, <2>3, <2>4, FramesChange DEF Typed, TypeOK
<1>5. CASE ~(level > 1 /\ OnlyZeros(cleared, top.firstAt))
  <2>1. ttree' = cleared /\ Finish([call |-> call])
    BY <1>5 DEF Prune
  <2>2. [call |-> call] \in Replies
    BY ReplyTypes DEF Typed, TypeOK
  <2> QED
    BY <1>2, <1>3, <2>1, <2>2, FinishType DEF Typed, TypeOK, bookkeeping
<1> QED
  BY <1>4, <1>5
-----------------------------------------------------------------------------
\* insertEntry keeps the types, also when the matrix grows.
LEMMA InsertEntryTyped ==
  ASSUME Typed, InsertEntry
  PROVE  Typed'
<1>1. [op |-> "insertEntry"] \in Calls
  BY DEF Calls, InsertCalls
<1>2. CASE freeColumns # <<>>
  <2>1. Head(freeColumns) \in Nat /\ Tail(freeColumns) \in Seq(Nat)
    BY <1>2, HeadTailProperties DEF Typed, TypeOK
  <2>2. /\ freeColumns' = Tail(freeColumns) /\ UNCHANGED <<matrix, firstFreeColumn>>
        /\ Finish([call |-> [op |-> "insertEntry"], vertex |-> Head(freeColumns)])
    BY <1>2 DEF InsertEntry
  <2>3. [call |-> [op |-> "insertEntry"], vertex |-> Head(freeColumns)] \in Replies
    BY <1>1, <2>1, ReplyTypes
  <2> QED
    BY <2>1, <2>2, <2>3, FinishType DEF Typed, TypeOK, matrix
<1>3. CASE freeColumns = <<>>
  <2>1. /\ firstFreeColumn' = firstFreeColumn + 1 /\ UNCHANGED freeColumns
        /\ Finish([call |-> [op |-> "insertEntry"], vertex |-> firstFreeColumn])
        /\ IncreaseMatrixSize \/ UNCHANGED matrix
    BY <1>3 DEF InsertEntry
  <2>2. [call |-> [op |-> "insertEntry"], vertex |-> firstFreeColumn] \in Replies
    BY <1>1, ReplyTypes DEF Typed, TypeOK
  <2>3. CASE UNCHANGED matrix
    BY <2>1, <2>2, <2>3, FinishType DEF Typed, TypeOK, matrix
  <2>4. CASE IncreaseMatrixSize
    <3>1. matrixSize' \in Nat /\ matrixSize' >= 1
      <4>1. matrixSize \in Nat \ {0} /\ matrixSize' = matrixSize * K
        BY <2>4 DEF IncreaseMatrixSize, Typed, TypeOK
      <4>2. K * matrixSize \in Nat \ {0} /\ matrixSize <= K * matrixSize
        BY <4>1, ProductPositive
      <4>3. matrixSize * K = K * matrixSize
        BY <4>1, KAssumption
      <4> QED  BY <4>1, <4>2, <4>3
    <3>2. InsertBlock(ttree, 0) \in Seq(BOOLEAN)
      BY InsertBlockType DEF Typed, TypeOK
    <3>3. ttree' \in Seq(BOOLEAN) /\ ltree' \in Seq(BOOLEAN)
      BY <2>4, <3>2, SetBitType DEF IncreaseMatrixSize, Typed, TypeOK
    <3>4. freeColumns' \in Seq(Nat) /\ firstFreeColumn' \in Nat
      BY <2>1 DEF Typed, TypeOK
    <3> QED
      BY <2>1, <2>2, <3>1, <3>3, <3>4, FinishType
  <2> QED  BY <2>1, <2>3, <2>4
<1> QED
  BY <1>2, <1>3
-----------------------------------------------------------------------------
\* A call whose first activation is pushed has the types.
LEMMA StartsTyped ==
  ASSUME Typed, NEW c \in Calls, Begin(c), NEW f \in Frames, frames' = <<f>>,
         UNCHANGED <<matrix, bookkeeping, position, findings>>,
         iteration' \in Nat,
         pc' \in {"collect", "deleteRow", "find"},
         pc' = "collect" => iteration' \in 1..Len(freeColumns),
         pc' \in {"collect", "deleteRow"} => c \in DeleteCalls,
         pc' = "find" => f.offset \in Nat
  PROVE  Typed'
<1>1. call' = c /\ reply' = NoReply /\ NoReply \in Replies
  BY ReplyTypes DEF Begin, NoReply, Calls
<1>2. frames' \in Seq(Frames) /\ frames' # <<>> /\ Len(frames') = 1
  OBVIOUS
<1>3. pc' = "find" => \A i \in 1..Len(frames') : frames'[i].offset \in Nat
  BY <1>2
<1> QED
  BY <1>1, <1>2, <1>3 DEF Typed, TypeOK, matrix, bookkeeping

\* deleteEntry starts with the types.
LEMMA DeleteEntryTyped ==
  ASSUME Typed, NEW a \in Nat, DeleteEntry(a)
  PROVE  Typed'
<1> DEFINE c == [op |-> "deleteEntry", a |-> a]
           others == [i \in 1..firstFreeColumn |-> i - 1]
           f == Frame(<<a>>, others, 0, BLOCK_SIZE - 1)
<1>1. c \in DeleteCalls /\ c \in Calls
  BY DEF DeleteCalls, Calls
<1>2. CASE Throw(c) /\ UNCHANGED <<matrix, bookkeeping>>
  BY <1>1, <1>2, ThrowType
<1>3. CASE /\ Begin(c)
           /\ pc' = IF freeColumns = <<>> THEN "deleteRow" ELSE "collect"
           /\ iteration' = Len(freeColumns)
           /\ frames' = <<f>>
           /\ UNCHANGED <<matrix, bookkeeping, position, findings>>
  <2>1. firstFreeColumn \in Nat /\ freeColumns \in Seq(Nat)
    BY DEF Typed, TypeOK
  <2>2. others \in Seq(Nat)
    <3>1. others \in [1..firstFreeColumn -> Nat]
      BY <2>1
    <3> QED  BY <2>1, <3>1, FunctionIsSeq
  <2>3. f \in Frames
    <3>1. <<a>> \in Seq(Nat) /\ BLOCK_SIZE - 1 \in Nat /\ 0 \in Nat
      BY BlockSize
    <3> HIDE DEF others
    <3> QED  BY <2>2, <3>1, FrameType
  <2>4. /\ iteration' \in Nat
        /\ pc' = "collect" => iteration' \in 1..Len(freeColumns)
    BY <1>3, <2>1
  <2> HIDE DEF f, c
  <2>5. pc' \in {"collect", "deleteRow"}
    BY <1>3
  <2> QED
    BY <1>1, <1>3, <2>3, <2>4, <2>5, StartsTyped
<1> QED
  BY <1>2, <1>3 DEF DeleteEntry

\* The loop that collects the other vertices keeps the types.
LEMMA CollectOthersTyped ==
  ASSUME Typed, CollectOthers
  PROVE  Typed'
<1>1. /\ frames \in Seq(Frames) /\ frames # <<>> /\ 1 \in 1..Len(frames)
      /\ call \in DeleteCalls /\ iteration \in 1..Len(freeColumns)
      /\ freeColumns \in Seq(Nat) /\ pc = "collect"
      /\ \A i \in 1..(Len(frames) - 1) : frames[i].offset \in Nat
  BY DEF Typed, TypeOK, CollectOthers
<1> DEFINE v == Erase(frames[1].columns, freeColumns[iteration], 1)
           f == [frames[1] EXCEPT !.columns = v]
<1>2. frames[1] \in Frames
  BY <1>1
<1>3. f \in Frames /\ f.offset = frames[1].offset
  <2>1. frames[1].columns \in Seq(Nat) /\ freeColumns[iteration] \in Int /\ 1 \in Nat
    BY <1>1, <1>2 DEF Frames
  <2>2. v \in Seq(Nat)
    BY <2>1, EraseType
  <2> HIDE DEF v
  <2> QED  BY <1>2, <2>2 DEF Frames
<1>4. frames' = [frames EXCEPT ![1] = f]
  BY DEF CollectOthers
<1> HIDE DEF f
<1>5. /\ frames' \in Seq(Frames) /\ Len(frames') = Len(frames)
      /\ \A j \in 1..Len(frames) : frames'[j] = IF j = 1 THEN f ELSE frames[j]
  BY <1>1, <1>3, <1>4, ReplaceFrame
<1>6. /\ frames' # <<>>
      /\ \A i \in 1..(Len(frames') - 1) : frames'[i].offset \in Nat
  <2>1. Len(frames') # 0
    BY <1>1, <1>5
  <2>2. \A i \in 1..(Len(frames') - 1) : frames'[i].offset = frames[i].offset
    BY <1>1, <1>3, <1>5
  <2> QED  BY <1>1, <1>5, <2>1, <2>2
<1>7. /\ iteration' = iteration - 1 /\ iteration' \in Nat
      /\ pc' = IF iteration = 1 THEN "deleteRow" ELSE "collect"
      /\ pc' = "collect" => iteration' \in 1..Len(freeColumns)
  BY <1>1 DEF CollectOthers
<1>8. UNCHANGED <<matrix, bookkeeping, call, position, findings, reply>>
  BY DEF CollectOthers
<1> QED
  BY <1>1, <1>5, <1>6, <1>7, <1>8 DEF Typed, TypeOK, matrix, bookkeeping

\* What holds at the start of a step of deleteEdges.
LEMMA DeletingTypes ==
  ASSUME Typed, Deleting
  PROVE  /\ frames \in Seq(Frames) /\ frames # <<>>
         /\ call \in DeleteCalls /\ call \in Calls /\ call.a \in Nat
         /\ pc \in {"deleteRow", "deleteColumn"}
         /\ level = Len(frames) /\ level \in Nat \ {0}
         /\ \A i \in 1..(level - 1) : frames[i].offset \in Nat
<1>1. /\ frames \in Seq(Frames) /\ frames # <<>> /\ call \in DeleteCalls
      /\ pc \in {"deleteRow", "deleteColumn"} /\ call \in Calls
      /\ \A i \in 1..(Len(frames) - 1) : frames[i].offset \in Nat
  BY DEF Typed, TypeOK, Deleting
<1>2. level = Len(frames) /\ level \in Nat \ {0}
  BY <1>1, TopType
<1> QED
  BY <1>1, <1>2 DEF DeleteCalls

\* Going on to the next offset keeps the types.
LEMMA NextOffsetTyped ==
  ASSUME Typed, AtTTreeOffset, NEW b \in BOOLEAN, NextOffset(b)
  PROVE  Typed'
<1>1. Deleting /\ top.offset >= 0
  BY DEF AtTTreeOffset
<1>2. /\ frames \in Seq(Frames) /\ frames # <<>> /\ call \in DeleteCalls
      /\ pc \in {"deleteRow", "deleteColumn"}
      /\ level = Len(frames) /\ level \in Nat \ {0}
      /\ \A i \in 1..(level - 1) : frames[i].offset \in Nat
  BY <1>1, DeletingTypes
<1> DEFINE f == [frames[level] EXCEPT !.offset = @ - 1, !.only0s = b]
<1>3. f \in Frames
  <2>1. frames[level] \in Frames /\ frames[level].offset >= 0
    BY <1>1, <1>2 DEF top
  <2>2. frames[level].offset - 1 \in Nat \cup {-1}
    BY <2>1 DEF Frames
  <2> QED  BY <2>1, <2>2 DEF Frames
<1>4. frames' = [frames EXCEPT ![level] = f]
  BY DEF NextOffset
<1>5. level \in 1..Len(frames)
  BY <1>2
<1> HIDE DEF f
<1>6. /\ frames' \in Seq(Frames) /\ Len(frames') = Len(frames)
      /\ \A j \in 1..Len(frames) : frames'[j] = IF j = level THEN f ELSE frames[j]
  BY <1>2, <1>3, <1>4, <1>5, ReplaceFrame
<1>7. frames' # <<>> /\ \A i \in 1..(Len(frames') - 1) : frames'[i].offset \in Nat
  BY <1>2, <1>6
<1>8. UNCHANGED <<matrix, bookkeeping, pc, call, iteration, position, findings, reply>>
  BY DEF NextOffset
<1> QED
  BY <1>2, <1>6, <1>7, <1>8, FramesChange DEF Typed, TypeOK, matrix

\* A slice of the rows and one of the columns are vectors of vertices.
LEMMA SlicesOfTop ==
  ASSUME frames \in Seq(Frames), frames # <<>>
  PROVE  RowSlices \subseteq Seq(Nat) /\ ColumnSlices \subseteq Seq(Nat)
<1>1. top.rows \in Seq(Nat) /\ top.columns \in Seq(Nat)
  BY TopType
<1> QED
  BY <1>1, SlicesType DEF RowSlices, ColumnSlices

\* The descent of deleteEdges keeps the types.
LEMMA DeleteDescendsTyped ==
  ASSUME Typed, DeleteDescends
  PROVE  Typed'
<1>1. Deleting /\ top.offset >= 0
  BY DEF DeleteDescends, AtTTreeOffset
<1>2. /\ frames \in Seq(Frames) /\ frames # <<>> /\ call \in DeleteCalls
      /\ pc \in {"deleteRow", "deleteColumn"}
      /\ level = Len(frames) /\ level \in Nat \ {0}
      /\ \A i \in 1..(level - 1) : frames[i].offset \in Nat
  BY <1>1, DeletingTypes
<1>3. PICK rs \in RowSlices, cs \in ColumnSlices :
        frames' = Append(frames, Frame(rs, cs, ChildBlock(node), BLOCK_SIZE - 1))
  BY DEF DeleteDescends
<1> DEFINE f == Frame(rs, cs, ChildBlock(node), BLOCK_SIZE - 1)
<1>4. f \in Frames
  <2>1. rs \in Seq(Nat) /\ cs \in Seq(Nat)
    BY <1>2, SlicesOfTop
  <2>2. ChildBlock(node) \in Nat
    BY ChildBlockType DEF Typed, TypeOK
  <2>3. BLOCK_SIZE - 1 \in Nat
    BY BlockSize
  <2> QED  BY <2>1, <2>2, <2>3, FrameType
<1>5. \A i \in 1..Len(frames) : frames[i].offset \in Nat
  <2>1. frames[level].offset \in Nat
    BY <1>1, <1>2, TopType DEF top
  <2> QED  BY <1>2, <2>1
<1> HIDE DEF f
<1>6. /\ frames' \in Seq(Frames) /\ frames' # <<>>
      /\ \A i \in 1..(Len(frames') - 1) : frames'[i].offset \in Nat
  BY <1>2, <1>3, <1>4, <1>5, PushType DEF f
<1>7. UNCHANGED <<matrix, bookkeeping, pc, call, iteration, position, findings, reply>>
  BY DEF DeleteDescends
<1> QED
  BY <1>2, <1>6, <1>7, FramesChange DEF Typed, TypeOK, matrix

\* sort() after push_back gives a vector of vertices.
LEMMA PushSortedType ==
  ASSUME NEW v \in Seq(Nat), NEW a \in Nat
  PROVE  PushSorted(v, a) \subseteq Seq(Nat)
<1> SUFFICES ASSUME NEW n \in 0..Len(v)
             PROVE  [i \in 1..(Len(v) + 1) |->
                       IF i <= n THEN v[i] ELSE IF i = n + 1 THEN a ELSE v[i - 1]] \in Seq(Nat)
  BY DEF PushSorted
<1>1. Len(v) \in Nat /\ \A i \in 1..Len(v) : v[i] \in Nat
  OBVIOUS
<1>2. \A i \in 1..(Len(v) + 1) :
        (IF i <= n THEN v[i] ELSE IF i = n + 1 THEN a ELSE v[i - 1]) \in Nat
  <2> SUFFICES ASSUME NEW i \in 1..(Len(v) + 1)
               PROVE  (IF i <= n THEN v[i] ELSE IF i = n + 1 THEN a ELSE v[i - 1]) \in Nat
    OBVIOUS
  <2>1. CASE i <= n
    BY <1>1, <2>1
  <2>2. CASE i = n + 1
    BY <1>1, <2>2
  <2>3. CASE i > n + 1
    <3>1. i - 1 \in 1..Len(v)
      BY <1>1, <2>3
    <3> QED  BY <1>1, <2>3, <3>1
  <2> QED  BY <1>1, <2>1, <2>2, <2>3
<1>3. [i \in 1..(Len(v) + 1) |->
         IF i <= n THEN v[i] ELSE IF i = n + 1 THEN a ELSE v[i - 1]] \in [1..(Len(v) + 1) -> Nat]
  BY <1>2
<1> QED
  BY <1>1, <1>3, FunctionIsSeq

\* Freeing a vertex keeps the types of the bookkeeping.
LEMMA FreeColumnType ==
  ASSUME Typed, NEW a \in Nat, FreeColumn(a)
  PROVE  freeColumns' \in Seq(Nat) /\ firstFreeColumn' \in Nat
<1>1. freeColumns \in Seq(Nat) /\ firstFreeColumn \in Nat
  BY DEF Typed, TypeOK
<1>2. CASE a = firstFreeColumn - 1
  BY <1>1, <1>2 DEF FreeColumn
<1>3. CASE a # firstFreeColumn - 1
  BY <1>1, <1>3, PushSortedType DEF FreeColumn
<1> QED
  BY <1>2, <1>3

\* The return of a whole pass of deleteEntry keeps the types.
LEMMA PassReturnsTyped ==
  ASSUME Typed, Deleting, PassReturns,
         ttree' \in Seq(BOOLEAN), ltree' \in Seq(BOOLEAN), UNCHANGED matrixSize
  PROVE  Typed'
<1>1. /\ frames \in Seq(Frames) /\ frames # <<>>
      /\ call \in DeleteCalls /\ call \in Calls /\ call.a \in Nat
      /\ pc \in {"deleteRow", "deleteColumn"}
  BY DeletingTypes
<1>2. CASE pc = "deleteRow"
  <2> DEFINE f == Frame(top.columns, top.rows, 0, BLOCK_SIZE - 1)
  <2>1. f \in Frames
    <3>1. top.rows \in Seq(Nat) /\ top.columns \in Seq(Nat)
      BY <1>1, TopType
    <3>2. BLOCK_SIZE - 1 \in Nat /\ 0 \in Nat
      BY BlockSize
    <3> QED  BY <3>1, <3>2, FrameType
  <2>2. /\ pc' = "deleteColumn" /\ frames' = <<f>>
        /\ UNCHANGED <<bookkeeping, call, iteration, position, findings, reply>>
    BY <1>2 DEF PassReturns
  <2> HIDE DEF f
  <2>3. /\ frames' \in Seq(Frames) /\ frames' # <<>>
        /\ \A i \in 1..(Len(frames') - 1) : frames'[i].offset \in Nat
    BY <2>1, <2>2
  <2> QED
    BY <1>1, <2>2, <2>3, FramesChange DEF Typed, TypeOK
<1>3. CASE pc = "deleteColumn"
  <2>1. FreeColumn(call.a) /\ Finish([call |-> call])
    BY <1>3 DEF PassReturns
  <2>2. [call |-> call] \in Replies
    BY <1>1, ReplyTypes
  <2>3. freeColumns' \in Seq(Nat) /\ firstFreeColumn' \in Nat
    BY <1>1, <2>1, FreeColumnType
  <2> QED
    BY <2>1, <2>2, <2>3, FinishType DEF Typed, TypeOK
<1> QED
  BY <1>1, <1>2, <1>3

\* The return to a calling activation of deleteEdges keeps the types.
LEMMA CallerContinuesTyped ==
  ASSUME Typed, Deleting, level # 1, NEW b \in BOOLEAN, CallerContinues(b),
         ttree' \in Seq(BOOLEAN), ltree' \in Seq(BOOLEAN), UNCHANGED matrixSize
  PROVE  Typed'
<1>1. /\ call \in DeleteCalls /\ pc \in {"deleteRow", "deleteColumn"} /\ frames # <<>>
  BY DeletingTypes
<1>2. /\ Popped \in Seq(Frames) /\ Len(Popped) = level - 1
      /\ level \in Nat \ {0}
      /\ \A i \in 1..Len(Popped) : Popped[i].offset \in Nat
  BY <1>1, PoppedOffsets
<1>3. level - 1 \in 1..Len(Popped)
  BY <1>2
<1> DEFINE f == [Popped[level - 1] EXCEPT !.offset = @ - 1, !.only0s = @ /\ ~b]
<1>4. f \in Frames
  <2>1. Popped[level - 1] \in Frames /\ Popped[level - 1].offset \in Nat
    BY <1>2, <1>3
  <2>2. Popped[level - 1].offset - 1 \in Nat \cup {-1}
    BY <2>1
  <2>3. (Popped[level - 1].only0s /\ ~b) \in BOOLEAN
    BY Zenon
  <2> QED  BY <2>1, <2>2, <2>3 DEF Frames
<1>5. frames' = [Popped EXCEPT ![level - 1] = f]
  BY DEF CallerContinues
<1> HIDE DEF f
<1>6. /\ frames' \in Seq(Frames) /\ Len(frames') = Len(Popped)
      /\ \A j \in 1..Len(Popped) : frames'[j] = IF j = level - 1 THEN f ELSE Popped[j]
  BY <1>2, <1>3, <1>4, <1>5, ReplaceFrame
<1>7. frames' # <<>> /\ \A i \in 1..(Len(frames') - 1) : frames'[i].offset \in Nat
  BY <1>2, <1>3, <1>6
<1>8. UNCHANGED <<bookkeeping, pc, call, iteration, position, findings, reply>>
  BY DEF CallerContinues
<1> QED
  BY <1>1, <1>6, <1>7, <1>8, FramesChange DEF Typed, TypeOK

\* The end of an activation of deleteEdges in ttree keeps the types.
LEMMA DeleteReturnsTyped ==
  ASSUME Typed, DeleteReturns
  PROVE  Typed'
<1>1. Deleting /\ UNCHANGED <<ltree, matrixSize>>
  BY DEF DeleteReturns
<1>2. ltree' \in Seq(BOOLEAN) /\ ttree \in Seq(BOOLEAN)
  BY <1>1 DEF Typed, TypeOK
<1>3. CASE level = 1
  BY <1>1, <1>2, <1>3, PassReturnsTyped DEF DeleteReturns
<1>4. CASE level # 1
  <2>1. ttree' \in Seq(BOOLEAN)
    <3>1. top.firstAt \in Int
      BY <1>1, DeletingTypes, TopType
    <3>2. DeleteBlock(ttree, top.firstAt) \in Seq(BOOLEAN)
      BY <1>2, <3>1, DeleteBlockType
    <3>3. SetBit(DeleteBlock(ttree, top.firstAt), CallerNode, FALSE) \in Seq(BOOLEAN)
      BY <3>2, SetBitType
    <3> QED  BY <1>2, <1>4, <3>3 DEF DeleteReturns
  <2>2. CallerContinues(~top.only0s) /\ (~top.only0s) \in BOOLEAN
    BY <1>4, Zenon DEF DeleteReturns
  <2> QED
    BY <1>1, <1>2, <1>4, <2>1, <2>2, CallerContinuesTyped
<1> QED
  BY <1>3, <1>4

\* deleteEdgesFromLTree keeps the types.
LEMMA DeleteInLTreeTyped ==
  ASSUME Typed, DeleteInLTree
  PROVE  Typed'
<1> DEFINE cleared == [i \in 1..Len(ltree) |->
                         ltree[i] /\ i - 1 - LeafBlock \notin LeafCells]
           only0s  == OnlyZeros(cleared, LeafBlock)
<1>1. /\ Deleting /\ UNCHANGED matrixSize /\ ttree \in Seq(BOOLEAN) /\ ltree \in Seq(BOOLEAN)
      /\ Len(ltree) \in Nat
  BY DEF DeleteInLTree, Typed, TypeOK
<1>2. /\ call \in Calls /\ frames \in Seq(Frames) /\ frames # <<>>
  BY <1>1, DeletingTypes
<1>3. CASE Partition(level) = 0
  <2>1. Throw(call) /\ UNCHANGED <<matrix, bookkeeping>>
    BY <1>3 DEF DeleteInLTree, matrix
  <2> QED  BY <1>2, <2>1, ThrowType
<1>4. CASE Partition(level) # 0
  <2>1. /\ ltree' = IF only0s THEN DeleteBlock(cleared, LeafBlock) ELSE cleared
        /\ IF level = 1
           THEN PassReturns /\ UNCHANGED ttree
           ELSE /\ ttree' = IF only0s THEN SetBit(ttree, CallerNode, FALSE) ELSE ttree
                /\ CallerContinues(~only0s)
    BY <1>4 DEF DeleteInLTree
  <2>2. cleared \in Seq(BOOLEAN)
    <3>1. cleared \in [1..Len(ltree) -> BOOLEAN]
      BY Zenon
    <3> HIDE DEF cleared
    <3> QED  BY <1>1, <3>1, FunctionIsSeq, Zenon
  <2>3. LeafBlock \in Int
    <3>1. top.firstAt \in Nat
      BY <1>2, TopType
    <3>2. Len(ttree) \in Nat
      BY <1>1
    <3> QED  BY <3>1, <3>2 DEF LeafBlock
  <2> HIDE DEF cleared
  <2>4. DeleteBlock(cleared, LeafBlock) \in Seq(BOOLEAN)
    BY <2>2, <2>3, DeleteBlockType
  <2>5. ltree' \in Seq(BOOLEAN)
    BY <2>1, <2>2, <2>4
  <2>6. CASE level = 1
    BY <1>1, <2>1, <2>5, <2>6, PassReturnsTyped
  <2>7. CASE level # 1
    <3>1. SetBit(ttree, CallerNode, FALSE) \in Seq(BOOLEAN)
      BY <1>1, SetBitType
    <3>2. ttree' \in Seq(BOOLEAN) /\ CallerContinues(~only0s)
      BY <1>1, <2>1, <2>7, <3>1
    <3>3. (~only0s) \in BOOLEAN
      BY Zenon
    <3> QED
      BY <1>1, <2>5, <2>7, <3>2, <3>3, CallerContinuesTyped
  <2> QED  BY <2>6, <2>7
<1> QED
  BY <1>3, <1>4
-----------------------------------------------------------------------------
\* reportAllEdges starts with the types.
LEMMA ReportAllEdgesTyped ==
  ASSUME Typed, NEW A \in Seq(Nat), NEW B \in Seq(Nat), ReportAllEdges(A, B)
  PROVE  Typed'
<1> DEFINE c == [op |-> "reportAllEdges", A |-> A, B |-> B]
<1>1. c \in Calls
  BY DEF FindCalls, Calls
<1>2. CASE Throw(c) /\ UNCHANGED <<matrix, bookkeeping>>
  BY <1>1, <1>2, ThrowType
<1>3. CASE /\ Begin(c) /\ pc' = "find"
           /\ \E rs \in Sorted(Elements(A)), cs \in Sorted(Elements(B)) :
                frames' = <<Frame(rs, cs, 0, 0)>>
           /\ UNCHANGED <<matrix, bookkeeping, iteration, position, findings>>
  <2>1. PICK rs \in Sorted(Elements(A)), cs \in Sorted(Elements(B)) :
          frames' = <<Frame(rs, cs, 0, 0)>>
    BY <1>3
  <2>2. rs \in Seq(Nat) /\ cs \in Seq(Nat)
    BY SortedType
  <2> DEFINE f == Frame(rs, cs, 0, 0)
  <2>3. f \in Frames /\ f.offset \in Nat
    BY <2>2 DEF Frame, Frames
  <2>4. frames' = <<f>> /\ pc' = "find" /\ iteration' \in Nat
    BY <1>3, <2>1 DEF Typed, TypeOK
  <2> HIDE DEF c, f
  <2> QED
    BY <1>1, <1>3, <2>3, <2>4, StartsTyped
<1> QED
  BY <1>2, <1>3 DEF ReportAllEdges

\* What holds at the start of a step of findAllEdges.
LEMMA FindTypes ==
  ASSUME Typed, pc = "find"
  PROVE  /\ frames \in Seq(Frames) /\ frames # <<>> /\ call \in Calls
         /\ level = Len(frames) /\ level \in Nat \ {0}
         /\ \A i \in 1..Len(frames) : frames[i].offset \in Nat
<1>1. /\ frames \in Seq(Frames) /\ frames # <<>> /\ call \in Calls
      /\ \A i \in 1..Len(frames) : frames[i].offset \in Nat
  BY DEF Typed, TypeOK
<1> QED
  BY <1>1, TopType

\* Going on to the next offset of findAllEdges keeps the types.
LEMMA FindSkipsTyped ==
  ASSUME Typed, FindSkips
  PROVE  Typed'
<1>1. pc = "find"
  BY DEF FindSkips, FindAtTTree
<1>2. /\ frames \in Seq(Frames) /\ frames # <<>>
      /\ level = Len(frames) /\ level \in Nat \ {0} /\ level \in 1..Len(frames)
      /\ \A i \in 1..Len(frames) : frames[i].offset \in Nat
  BY <1>1, FindTypes
<1> DEFINE f == [frames[level] EXCEPT !.offset = @ + 1]
<1>3. f \in Frames /\ f.offset \in Nat
  <2>1. frames[level] \in Frames /\ frames[level].offset + 1 \in Nat
    BY <1>2
  <2> QED  BY <2>1 DEF Frames
<1>4. frames' = [frames EXCEPT ![level] = f]
  BY DEF FindSkips
<1> HIDE DEF f
<1>5. /\ frames' \in Seq(Frames) /\ Len(frames') = Len(frames)
      /\ \A j \in 1..Len(frames) : frames'[j] = IF j = level THEN f ELSE frames[j]
  BY <1>2, <1>3, <1>4, ReplaceFrame
<1>6. /\ frames' # <<>> /\ \A i \in 1..Len(frames') : frames'[i].offset \in Nat
      /\ \A i \in 1..(Len(frames') - 1) : frames'[i].offset \in Nat
  BY <1>2, <1>3, <1>5
<1>7. UNCHANGED <<matrix, bookkeeping, pc, call, iteration, position, findings, reply>>
  BY DEF FindSkips
<1> QED
  BY <1>1, <1>5, <1>6, <1>7, FramesChange DEF Typed, TypeOK, matrix

\* The descent of findAllEdges keeps the types.
LEMMA FindDescendsTyped ==
  ASSUME Typed, FindDescends
  PROVE  Typed'
<1>1. pc = "find"
  BY DEF FindDescends, FindAtTTree
<1>2. /\ frames \in Seq(Frames) /\ frames # <<>>
      /\ \A i \in 1..Len(frames) : frames[i].offset \in Nat
  BY <1>1, FindTypes
<1>3. PICK rs \in RowSlices, cs \in ColumnSlices :
        frames' = Append(frames, Frame(rs, cs, ChildBlock(node), 0))
  BY DEF FindDescends
<1> DEFINE f == Frame(rs, cs, ChildBlock(node), 0)
<1>4. f \in Frames /\ f.offset \in Nat
  <2>1. rs \in Seq(Nat) /\ cs \in Seq(Nat)
    BY <1>2, SlicesOfTop
  <2>2. ChildBlock(node) \in Nat
    BY ChildBlockType DEF Typed, TypeOK
  <2> QED  BY <2>1, <2>2, FrameType
<1> HIDE DEF f
<1>5. /\ frames' \in Seq(Frames) /\ frames' # <<>>
      /\ \A i \in 1..(Len(frames') - 1) : frames'[i].offset \in Nat
      /\ \A i \in 1..Len(frames') : frames'[i].offset \in Nat
  BY <1>2, <1>3, <1>4, PushType DEF f
<1>6. UNCHANGED <<matrix, bookkeeping, pc, call, iteration, position, findings, reply>>
  BY DEF FindDescends
<1> QED
  BY <1>1, <1>5, <1>6, FramesChange DEF Typed, TypeOK, matrix

\* The return of an activation of findAllEdges keeps the types.
LEMMA FindReturnsTyped ==
  ASSUME Typed, pc = "find", NEW found \in Seq(Nat \X Nat), FindReturns(found)
  PROVE  Typed'
<1>1. /\ frames # <<>> /\ call \in Calls /\ findings \o found \in Seq(Nat \X Nat)
      /\ UNCHANGED <<matrix, bookkeeping>>
  BY FindTypes DEF Typed, TypeOK, FindReturns
<1>2. CASE level = 1
  <2>1. Finish([call |-> call, edges |-> findings \o found])
    BY <1>2 DEF FindReturns
  <2>2. [call |-> call, edges |-> findings \o found] \in Replies
    BY <1>1, ReplyTypes
  <2> QED
    BY <1>1, <2>1, <2>2, FinishType DEF Typed, TypeOK, matrix, bookkeeping
<1>3. CASE level # 1
  <2>1. /\ Popped \in Seq(Frames) /\ Len(Popped) = level - 1
        /\ level \in Nat \ {0}
        /\ \A i \in 1..Len(Popped) : Popped[i].offset \in Nat
    BY <1>1, PoppedOffsets
  <2>2. level - 1 \in 1..Len(Popped)
    BY <1>3, <2>1
  <2> DEFINE f == [Popped[level - 1] EXCEPT !.offset = @ + 1]
  <2>3. f \in Frames /\ f.offset \in Nat
    <3>1. Popped[level - 1] \in Frames /\ Popped[level - 1].offset + 1 \in Nat
      BY <2>1, <2>2
    <3> QED  BY <3>1 DEF Frames
  <2>4. /\ frames' = [Popped EXCEPT ![level - 1] = f]
        /\ findings' = findings \o found
        /\ UNCHANGED <<pc, call, iteration, position, reply>>
    BY <1>3 DEF FindReturns
  <2> HIDE DEF f
  <2>5. /\ frames' \in Seq(Frames) /\ Len(frames') = Len(Popped)
        /\ \A j \in 1..Len(Popped) : frames'[j] = IF j = level - 1 THEN f ELSE Popped[j]
    BY <2>1, <2>2, <2>3, <2>4, ReplaceFrame
  <2>6. /\ frames' # <<>> /\ \A i \in 1..Len(frames') : frames'[i].offset \in Nat
        /\ \A i \in 1..(Len(frames') - 1) : frames'[i].offset \in Nat
    BY <2>1, <2>2, <2>3, <2>5
  <2> QED
    BY <1>1, <2>4, <2>5, <2>6, FramesChange DEF Typed, TypeOK, matrix
<1> QED
  BY <1>2, <1>3

\* The loops of findEdgesInLTree meet finitely many cells.
LEMMA LeafEdgesType ==
  ASSUME Typed, frames # <<>>
  PROVE  LeafEdges \in SUBSET (Nat \X Nat) /\ IsFiniteSet(LeafEdges)
<1> DEFINE E == Elements(top.rows) \X Elements(top.columns)
<1>1. /\ Elements(top.rows) \subseteq Nat /\ IsFiniteSet(Elements(top.rows))
      /\ Elements(top.columns) \subseteq Nat /\ IsFiniteSet(Elements(top.columns))
  <2>1. top.rows \in Seq(Nat) /\ top.columns \in Seq(Nat)
    BY TopType DEF Typed, TypeOK
  <2> QED  BY <2>1, ElementsType
<1>2. IsFiniteSet(E)
  BY <1>1, FS_Product
<1>3. LeafEdges \in SUBSET E /\ E \subseteq Nat \X Nat
  BY <1>1 DEF LeafEdges
<1> QED
  BY <1>2, <1>3, FS_Subset

\* The list of a finite set of cells has them all, each of them once.
LEMMA ListedType ==
  ASSUME NEW S \in SUBSET (Nat \X Nat), IsFiniteSet(S), NEW w \in Listed(S)
  PROVE  /\ w \in Seq(S) /\ w \in Seq(Nat \X Nat) /\ Elements(w) = S
         /\ \A i, j \in 1..Len(w) : w[i] = w[j] => i = j
<1>1. Cardinality(S) \in Nat
  BY FS_CardinalityType
<1> DEFINE nth(n) == CHOOSE e \in S : Cardinality({f \in S : Before(f, e)}) = n - 1
<1>2. /\ w = [n \in 1..Cardinality(S) |-> nth(n)] /\ Elements(w) = S
      /\ \A i, j \in 1..Len(w) : i < j => Before(w[i], w[j])
  BY DEF Listed
<1> HIDE DEF nth
<1>3. w = [i \in 1..Cardinality(S) |-> w[i]]
  BY <1>2
<1>4. w \in Seq({w[i] : i \in 1..Cardinality(S)}) /\ Len(w) = Cardinality(S)
  BY <1>1, <1>3
<1>5. w \in Seq(S)
  <2>1. {w[i] : i \in 1..Cardinality(S)} = S
    BY <1>2, <1>4 DEF Elements
  <2> QED  BY <1>4, <2>1, Zenon
<1>6. \A i, j \in 1..Len(w) : w[i] = w[j] => i = j
  <2> SUFFICES ASSUME NEW i \in 1..Len(w), NEW j \in 1..Len(w), w[i] = w[j], i # j
               PROVE  FALSE
    OBVIOUS
  <2>1. i \in Nat /\ j \in Nat
    BY <1>1, <1>4
  <2>2. Before(w[i], w[j]) \/ Before(w[j], w[i])
    <3>1. i < j \/ j < i
      BY <2>1
    <3> QED  BY <1>2, <3>1, Zenon
  <2>3. Before(w[i], w[i])
    BY <2>2
  <2>4. w[i] \in Nat \X Nat
    BY <1>5
  <2> QED  BY <2>3, <2>4 DEF Before
<1>7. Seq(S) \subseteq Seq(Nat \X Nat)
  OBVIOUS
<1> QED
  BY <1>2, <1>5, <1>6, <1>7

\* findEdgesInLTree keeps the types.
LEMMA FindInLTreeTyped ==
  ASSUME Typed, FindInLTree
  PROVE  Typed'
<1>1. pc = "find"
  BY DEF FindInLTree
<1>2. /\ frames \in Seq(Frames) /\ frames # <<>> /\ call \in Calls
  BY <1>1, FindTypes
<1>3. CASE Partition(level) = 0
  BY <1>2, <1>3, ThrowType DEF FindInLTree
<1>4. CASE Partition(level) # 0
  <2>1. PICK found \in Listed(LeafEdges) : FindReturns(found)
    BY <1>4 DEF FindInLTree
  <2>2. LeafEdges \in SUBSET (Nat \X Nat) /\ IsFiniteSet(LeafEdges)
    BY <1>2, LeafEdgesType
  <2>3. found \in Seq(Nat \X Nat)
    BY <2>2, ListedType
  <2> QED  BY <1>1, <2>1, <2>3, FindReturnsTyped
<1> QED
  BY <1>3, <1>4
-----------------------------------------------------------------------------
\* Every call of a client starts with the types.
LEMMA CallTyped ==
  ASSUME Typed, Call
  PROVE  Typed'
<1>1. CASE InsertEntry
  BY <1>1, InsertEntryTyped
<1>2. CASE \E a \in Deletions : MayName(a) /\ DeleteEntry(a)
  BY <1>2, DeleteEntryTyped, BoundsAssumption
<1>3. ASSUME NEW e \in Arcs,
             AddEdge(e[1], e[2]) \/ RemoveEdge(e[1], e[2]) \/ ReportEdge(e[1], e[2])
      PROVE  Typed'
  <2>1. e[1] \in Nat /\ e[2] \in Nat
    BY BoundsAssumption
  <2>2. /\ EdgeCall("addEdge", e[1], e[2]) \in EdgeCalls
        /\ EdgeCall("reportEdge", e[1], e[2]) \in EdgeCalls
    BY <2>1 DEF EdgeCall, EdgeCalls
  <2>3. CASE AddEdge(e[1], e[2])
    BY <2>2, <2>3, StartTraverseTyped DEF AddEdge
  <2>4. CASE RemoveEdge(e[1], e[2])
    BY <2>1, <2>4, RemoveEdgeTyped
  <2>5. CASE ReportEdge(e[1], e[2])
    BY <2>2, <2>5, StartTraverseTyped DEF ReportEdge
  <2> QED  BY <1>3, <2>3, <2>4, <2>5
<1>4. ASSUME NEW q \in Queries, ReportAllEdges(q[1], q[2])
      PROVE  Typed'
  <2>1. q[1] \in Seq(Nat) /\ q[2] \in Seq(Nat)
    BY BoundsAssumption
  <2> QED  BY <1>4, <2>1, ReportAllEdgesTyped
<1> QED
  BY <1>1, <1>2, <1>3, <1>4 DEF Call

\* Every step of a running call keeps the types.
LEMMA StepTyped ==
  ASSUME Typed, Step
  PROVE  Typed'
<1>1. CASE TraverseOne
  BY <1>1, TraverseOneTyped
<1>2. CASE AddEdgeInLTree \/ AddEdgeAtFirst0 \/ ExtendTTree \/ ExtendLTree
  BY <1>2, AddEdgeStepsTyped
<1>3. CASE ReportEdgeReturns
  BY <1>3, ReportEdgeReturnsTyped
<1>4. CASE RemoveDescends \/ RemoveStops \/ RemoveInLTree \/ Prune
  BY <1>4, RemoveDescendsTyped, RemoveStopsTyped, RemoveInLTreeTyped, PruneTyped
<1>5. CASE CollectOthers
  BY <1>5, CollectOthersTyped
<1>6. CASE DeleteSkips
  <2>1. Deleting /\ AtTTreeOffset /\ NextOffset(top.only0s)
    BY <1>6 DEF DeleteSkips, AtTTreeOffset
  <2>2. top.only0s \in BOOLEAN
    BY <2>1, DeletingTypes, TopType
  <2> QED  BY <2>1, <2>2, NextOffsetTyped
<1>7. CASE DeleteKeeps
  BY <1>7, NextOffsetTyped DEF DeleteKeeps
<1>8. CASE DeleteDescends \/ DeleteReturns \/ DeleteInLTree
  BY <1>8, DeleteDescendsTyped, DeleteReturnsTyped, DeleteInLTreeTyped
<1>9. CASE FindSkips \/ FindDescends \/ FindInLTree
  BY <1>9, FindSkipsTyped, FindDescendsTyped, FindInLTreeTyped
<1>10. CASE FindDone
  <2>1. pc = "find" /\ FindReturns(<<>>) /\ <<>> \in Seq(Nat \X Nat)
    BY <1>10 DEF FindDone, FindAtTTree
  <2> QED  BY <2>1, FindReturnsTyped
<1> QED
  BY <1>1, <1>2, <1>3, <1>4, <1>5, <1>6, <1>7, <1>8, <1>9, <1>10 DEF Step

\* Typed is inductive.
LEMMA NextTyped == Typed /\ [Next]_vars => Typed'
<1> SUFFICES ASSUME Typed, [Next]_vars PROVE Typed'
  OBVIOUS
<1>1. CASE Call
  BY <1>1, CallTyped
<1>2. CASE Step
  BY <1>2, StepTyped
<1>3. CASE UNCHANGED vars
  BY <1>3 DEF vars, matrix, bookkeeping, locals, Typed, TypeOK
<1> QED
  BY <1>1, <1>2, <1>3 DEF Next

\* The types hold in every reachable state, as the inductive invariant Typed.
THEOREM AlwaysTyped == Spec => []Typed
  BY InitTyped, NextTyped, PTL DEF Spec

\* No call of the tree, in any order and of any length, takes a variable out
\* of its type: positions, levels and offsets stay natural numbers, and each
\* loop of DKTree.cpp runs on the call that started it.
THEOREM TypeCorrect == Spec => []TypeOK
<1>1. Typed => TypeOK
  BY DEF Typed
<1> QED
  BY <1>1, AlwaysTyped, PTL
=============================================================================
