---------------------------- MODULE TreeVectors ----------------------------
(***************************************************************************)
(* The B+tree implements the bit vector, for every size of its nodes, its  *)
(* leaves and its blocks: what its leaves spell is kept by every step of a *)
(* search, of the counters and of the balancing, and changed in a leaf by  *)
(* what the operation says.  LTree is the B+tree without the counters of   *)
(* ones, and has the same properties.                                      *)
(***************************************************************************)
EXTENDS LTree, TTreeProofs
-----------------------------------------------------------------------------
(* Sequences of bits, one after the other.                                 *)

\* A sequence of bits for each slot.
Strands == [Slots -> Strings]

ConcatStep(t, f, n) == [i \in 0..n |-> IF i = 0 THEN <<>> ELSE t[i - 1] \o f[i - 1]]

\* There is a table of the first 0, 1, ..., n strands, joined.
LEMMA ConcatTable ==
  ASSUME NEW f \in Strands, NEW n \in 0..(NodeSizeMax + 1)
  PROVE  \E s \in [0..n -> Strings] : s = ConcatStep(s, f, n)
<1> DEFINE S == {i \in 0..(NodeSizeMax + 1) :
                   \E s \in [0..i -> Strings] : s = ConcatStep(s, f, i)}
<1>1. 0 \in S
  <2>1. [i \in 0..0 |-> <<>>] = ConcatStep([i \in 0..0 |-> <<>>], f, 0)
    BY DEF ConcatStep
  <2>2. [i \in 0..0 |-> <<>>] \in [0..0 -> Strings]
    BY DEF Strings
  <2> QED  BY <2>1, <2>2, SizesAssumption
<1>2. ASSUME NEW i \in 0..NodeSizeMax, i \in S PROVE i + 1 \in S
  <2>1. PICK s \in [0..i -> Strings] : s = ConcatStep(s, f, i)
    BY <1>2
  <2> DEFINE t == [j \in 0..(i + 1) |-> IF j = i + 1 THEN s[i] \o f[i] ELSE s[j]]
  <2>2. f[i] \in Strings /\ s[i] \in Strings
    BY SizesAssumption DEF Strands, Slots
  <2>3. s[i] \o f[i] \in Strings
    BY <2>2, ConcatProperties DEF Strings
  <2>4. t \in [0..(i + 1) -> Strings]
    <3>1. ASSUME NEW j \in 0..(i + 1) PROVE t[j] \in Strings
      <4>1. CASE j = i + 1
        BY <2>3, <4>1
      <4>2. CASE j # i + 1
        BY <4>2
      <4> QED  BY <4>1, <4>2
    <3> QED  BY <3>1
  <2>5. ASSUME NEW j \in 0..(i + 1)
        PROVE  t[j] = IF j = 0 THEN <<>> ELSE t[j - 1] \o f[j - 1]
    <3>1. CASE j = i + 1
      <4>1. t[j] = s[i] \o f[i] /\ j # 0 /\ j - 1 = i
        BY <3>1
      <4>2. t[j - 1] = s[i]
        BY <4>1
      <4> HIDE DEF t
      <4> QED  BY <4>1, <4>2, Zenon
    <3>2. CASE j # i + 1
      <4>1. j \in 0..i /\ t[j] = s[j] /\ (j # 0 => t[j - 1] = s[j - 1])
        BY <3>2
      <4>2. s[j] = IF j = 0 THEN <<>> ELSE s[j - 1] \o f[j - 1]
        BY <2>1, <4>1 DEF ConcatStep
      <4> HIDE DEF t
      <4> QED  BY <4>1, <4>2, Zenon
    <3> QED  BY <3>1, <3>2
  <2>6. t = ConcatStep(t, f, i + 1)
    BY <2>5 DEF ConcatStep
  <2> HIDE DEF t
  <2> QED  BY <2>4, <2>6, SizesAssumption
<1> HIDE DEF S
<1>3. \A i \in 0..(NodeSizeMax + 1) : i \in S
  BY <1>1, <1>2, UpTo, SizesAssumption
<1> QED
  BY <1>3 DEF S

\* Two such tables agree where both are defined.
LEMMA ConcatTablesAgree ==
  ASSUME NEW f, NEW m \in Nat, NEW n \in Nat, m <= n,
         NEW s, s = ConcatStep(s, f, m), NEW t, t = ConcatStep(t, f, n)
  PROVE  s[m] = t[m]
<1> DEFINE S == {i \in 0..m : s[i] = t[i]}
<1>1. 0 \in S
  BY DEF ConcatStep
<1>2. ASSUME NEW i \in 0..(m - 1), i \in S PROVE i + 1 \in S
  <2>1. s[i + 1] = s[i] \o f[i]
    BY DEF ConcatStep
  <2>2. t[i + 1] = t[i] \o f[i]
    BY DEF ConcatStep
  <2>3. s[i + 1] = t[i + 1]
    BY <1>2, <2>1, <2>2, Zenon
  <2> QED  BY <2>3
<1> HIDE DEF S
<1>3. m \in S
  BY <1>1, <1>2, UpTo
<1> QED
  BY <1>3 DEF S

\* No strand joined is nothing; one more comes at the end.
LEMMA Concats ==
  ASSUME NEW f \in Strands
  PROVE  /\ Concat(f, 0) = <<>>
         /\ \A n \in 0..(NodeSizeMax + 1) : Concat(f, n) \in Strings
         /\ \A n \in Slots : Concat(f, n + 1) = Concat(f, n) \o f[n]
<1> DEFINE table(n) == CHOOSE s : s = [i \in 0..n |-> IF i = 0 THEN <<>>
                                                      ELSE s[i - 1] \o f[i - 1]]
<1>1. ASSUME NEW n \in 0..(NodeSizeMax + 1)
      PROVE  /\ table(n) = ConcatStep(table(n), f, n)
             /\ Concat(f, n) = table(n)[n]
             /\ Concat(f, n) \in Strings
  <2>1. PICK s \in [0..n -> Strings] : s = ConcatStep(s, f, n)
    BY ConcatTable
  <2>2. \E t : t = [i \in 0..n |-> IF i = 0 THEN <<>> ELSE t[i - 1] \o f[i - 1]]
    BY <2>1 DEF ConcatStep
  <2>3. table(n) = [i \in 0..n |-> IF i = 0 THEN <<>> ELSE table(n)[i - 1] \o f[i - 1]]
    BY <2>2, Zenon
  <2>4. Concat(f, n) = table(n)[n]
    BY Zenon DEF Concat
  <2> HIDE DEF table
  <2>5. table(n) = ConcatStep(table(n), f, n)
    BY <2>3 DEF ConcatStep
  <2>6. table(n)[n] = s[n]
    BY <2>1, <2>5, ConcatTablesAgree, SizesAssumption
  <2> QED  BY <2>1, <2>4, <2>5, <2>6, SizesAssumption
<1> HIDE DEF table
<1>2. Concat(f, 0) = <<>>
  <2>1. 0 \in 0..(NodeSizeMax + 1)
    BY SizesAssumption
  <2>2. PICK t : t = table(0)
    OBVIOUS
  <2>3. t = ConcatStep(t, f, 0) /\ Concat(f, 0) = t[0]
    BY <1>1, <2>1, <2>2
  <2> QED  BY <2>3 DEF ConcatStep
<1>3. ASSUME NEW n \in Slots PROVE Concat(f, n + 1) = Concat(f, n) \o f[n]
  <2>1. n \in 0..(NodeSizeMax + 1) /\ n + 1 \in 0..(NodeSizeMax + 1) /\ n \in Nat
    BY SizesAssumption DEF Slots
  <2>2. table(n)[n] = table(n + 1)[n]
    BY <1>1, <2>1, ConcatTablesAgree
  <2>3. PICK t : t = table(n + 1)
    OBVIOUS
  <2>4. t = ConcatStep(t, f, n + 1) /\ Concat(f, n + 1) = t[n + 1] /\ Concat(f, n) = t[n]
    BY <1>1, <2>1, <2>2, <2>3
  <2>5. t[n + 1] = t[n] \o f[n]
    BY <2>1, <2>4 DEF ConcatStep
  <2> QED  BY <2>4, <2>5, Zenon
<1> QED
  BY <1>1, <1>2, <1>3

\* Joining is associative, and nothing adds nothing.
LEMMA Joins ==
  /\ \A a, b \in Strings : a \o b \in Strings
  /\ \A a, b, c \in Strings : (a \o b) \o c = a \o (b \o c)
  /\ \A a \in Strings : a \o <<>> = a /\ <<>> \o a = a
  /\ <<>> \in Strings
  BY DEF Strings

\* Equal strands give equal sequences.
LEMMA SameConcat ==
  ASSUME NEW f \in Strands, NEW g \in Strands, NEW n \in 0..(NodeSizeMax + 1),
         \A i \in 0..(n - 1) : g[i] = f[i]
  PROVE  Concat(g, n) = Concat(f, n)
<1> DEFINE S == {i \in 0..n : Concat(g, i) = Concat(f, i)}
<1>1. 0 \in S
  BY Concats
<1>2. ASSUME NEW i \in 0..(n - 1), i \in S PROVE i + 1 \in S
  <2>1. i \in Slots
    BY SizesAssumption DEF Slots
  <2>2. Concat(g, i + 1) = Concat(g, i) \o g[i] /\ Concat(f, i + 1) = Concat(f, i) \o f[i]
    BY <2>1, Concats
  <2>3. g[i] = f[i] /\ Concat(g, i) = Concat(f, i)
    BY <1>2
  <2>4. Concat(g, i + 1) = Concat(f, i + 1)
    BY <2>2, <2>3, Zenon
  <2> QED  BY <2>4
<1> HIDE DEF S
<1>3. n \in S
  BY <1>1, <1>2, UpTo
<1> QED
  BY <1>3 DEF S

\* The strands from slot a on.
After(f, a) == [i \in Slots |-> IF i + a \in Slots THEN f[i + a] ELSE <<>>]

\* The first a strands, and those after them.
LEMMA CutConcat ==
  ASSUME NEW f \in Strands, NEW n \in 0..(NodeSizeMax + 1), NEW a \in 0..n
  PROVE  /\ After(f, a) \in Strands /\ Concat(After(f, a), n - a) \in Strings
         /\ Concat(f, a) \in Strings
         /\ Concat(f, n) = Concat(f, a) \o Concat(After(f, a), n - a)
<1> DEFINE g == After(f, a)
           S == {i \in 0..(n - a) : Concat(f, a + i) = Concat(f, a) \o Concat(g, i)}
<1>1. g \in Strands
  BY Joins DEF After, Strands
<1>2. a \in Nat /\ n - a \in Nat /\ n - a \in 0..(NodeSizeMax + 1)
      /\ a \in 0..(NodeSizeMax + 1)
  BY SizesAssumption
<1>3. 0 \in S
  <2>1. Concat(g, 0) = <<>> /\ Concat(f, a) \in Strings
    BY <1>1, <1>2, Concats
  <2> HIDE DEF g
  <2>2. Concat(f, a) = Concat(f, a) \o Concat(g, 0)
    BY <2>1, Joins, ZenonT(40)
  <2> QED  BY <1>2, <2>2
<1>4. ASSUME NEW i \in 0..(n - a - 1), i \in S PROVE i + 1 \in S
  <2>1. i \in Slots /\ a + i \in Slots /\ i \in 0..(NodeSizeMax + 1) /\ i + a = a + i
    BY <1>2, SizesAssumption DEF Slots
  <2>2. g[i] = f[a + i]
    BY <2>1 DEF After
  <2>3. Concat(f, a + i + 1) = Concat(f, a + i) \o f[a + i]
        /\ Concat(g, i + 1) = Concat(g, i) \o g[i]
    BY <1>1, <2>1, Concats
  <2>4. Concat(f, a) \in Strings /\ Concat(g, i) \in Strings /\ g[i] \in Strings
    BY <1>1, <1>2, <2>1, Concats DEF Strands
  <2>5. Concat(f, a + i) = Concat(f, a) \o Concat(g, i)
    BY <1>4
  <2>6. Concat(f, a + i + 1) = Concat(f, a) \o Concat(g, i + 1)
    <3> HIDE DEF g
    <3>1. Concat(f, a + i + 1) = (Concat(f, a) \o Concat(g, i)) \o g[i]
      BY <2>2, <2>3, <2>5, Zenon
    <3>2. (Concat(f, a) \o Concat(g, i)) \o g[i] = Concat(f, a) \o (Concat(g, i) \o g[i])
      BY <2>4, Joins, ZenonT(40)
    <3> QED  BY <2>3, <3>1, <3>2, Zenon
  <2>7. a + (i + 1) = a + i + 1 /\ i + 1 \in 0..(n - a)
    BY <1>2
  <2> QED  BY <2>6, <2>7
<1> HIDE DEF S
<1>5. n - a \in S
  BY <1>2, <1>3, <1>4, UpTo
<1>6. a + (n - a) = n
  BY <1>2
<1> HIDE DEF g
<1>7. Concat(f, n) = Concat(f, a) \o Concat(g, n - a)
  BY <1>5, <1>6 DEF S
<1> QED
  BY <1>1, <1>2, <1>7, Concats DEF g

\* One strand is itself.
LEMMA ConcatOfOne ==
  ASSUME NEW f \in Strands
  PROVE  f[0] \in Strings /\ Concat(f, 1) = f[0]
<1>1. 0 \in Slots /\ 0 + 1 = 1
  BY SizesAssumption DEF Slots
<1>2. Concat(f, 1) = <<>> \o f[0] /\ f[0] \in Strings
  BY <1>1, Concats DEF Strands
<1> QED
  BY <1>2, Joins, ZenonT(40)

\* The strands before slot a, the one there, and those after it.
LEMMA ConcatAround ==
  ASSUME NEW f \in Strands, NEW n \in 0..(NodeSizeMax + 1), NEW a \in 0..(n - 1),
         NEW m, m = a + 1
  PROVE  /\ Concat(f, a) \in Strings /\ f[a] \in Strings
         /\ After(f, m) \in Strands /\ Concat(After(f, m), n - m) \in Strings
         /\ Concat(f, n) = Concat(f, a) \o (f[a] \o Concat(After(f, m), n - m))
<1>1. /\ a \in Slots /\ m \in 0..n /\ a \in 0..(NodeSizeMax + 1) /\ a \in Nat
  BY SizesAssumption DEF Slots
<1>2. /\ Concat(f, a) \in Strings /\ f[a] \in Strings
      /\ Concat(f, m) = Concat(f, a) \o f[a]
  BY <1>1, Concats DEF Strands
<1>3. /\ After(f, m) \in Strands /\ Concat(After(f, m), n - m) \in Strings
      /\ Concat(f, n) = Concat(f, m) \o Concat(After(f, m), n - m)
  BY <1>1, CutConcat
<1>4. Concat(f, n) = (Concat(f, a) \o f[a]) \o Concat(After(f, m), n - m)
  BY <1>2, <1>3, Zenon
<1>5. (Concat(f, a) \o f[a]) \o Concat(After(f, m), n - m)
      = Concat(f, a) \o (f[a] \o Concat(After(f, m), n - m))
  BY <1>2, <1>3, Joins, ZenonT(40)
<1> QED
  BY <1>2, <1>3, <1>4, <1>5, Zenon

\* Two strands, one after the other.
LEMMA ConcatPair ==
  ASSUME NEW f \in Strands, NEW a \in Slots, NEW b \in Slots, b = a + 1, NEW e, e = b + 1
  PROVE  /\ Concat(f, a) \in Strings /\ f[a] \in Strings /\ f[b] \in Strings
         /\ Concat(f, e) = Concat(f, a) \o (f[a] \o f[b])
<1>1. /\ Concat(f, a) \in Strings /\ f[a] \in Strings /\ f[b] \in Strings
      /\ Concat(f, b) = Concat(f, a) \o f[a] /\ Concat(f, e) = Concat(f, b) \o f[b]
  <2>1. f[a] \in Strings /\ f[b] \in Strings /\ a \in 0..(NodeSizeMax + 1)
    BY SizesAssumption DEF Strands, Slots
  <2> QED  BY <2>1, Concats
<1>2. Concat(f, e) = (Concat(f, a) \o f[a]) \o f[b]
  BY <1>1, Zenon
<1>3. (Concat(f, a) \o f[a]) \o f[b] = Concat(f, a) \o (f[a] \o f[b])
  BY <1>1, Joins, ZenonT(40)
<1> QED
  BY <1>1, <1>2, <1>3, Zenon

\* What one strand gives to the next changes nothing.
LEMMA PairKept ==
  ASSUME NEW f \in Strands, NEW g \in Strands, NEW n \in 0..(NodeSizeMax + 1),
         NEW a \in Nat, NEW b, b = a + 1, b < n,
         \A i \in 0..(n - 1) : i # a /\ i # b => g[i] = f[i],
         g[a] \o g[b] = f[a] \o f[b]
  PROVE  Concat(g, n) = Concat(f, n)
<1> DEFINE e == b + 1
<1>1. /\ a \in 0..(n - 1) /\ a \in 0..(NodeSizeMax + 1) /\ e \in 0..n /\ a \in Slots /\ b \in Slots
      /\ n - e \in 0..(NodeSizeMax + 1) /\ e \in 0..(NodeSizeMax + 1)
  BY SizesAssumption DEF Slots
<1>2. Concat(g, a) = Concat(f, a)
  <2>1. \A i \in 0..(a - 1) : g[i] = f[i]
    OBVIOUS
  <2> QED  BY <1>1, <2>1, SameConcat
<1>3. Concat(After(g, e), n - e) = Concat(After(f, e), n - e)
  <2>1. After(f, e) \in Strands /\ After(g, e) \in Strands
    BY <1>1, CutConcat
  <2>2. ASSUME NEW i \in 0..(n - e - 1) PROVE After(g, e)[i] = After(f, e)[i]
    <3>1. i + e \in Slots /\ i \in Slots /\ i + e \in 0..(n - 1) /\ i + e # a /\ i + e # b
      BY <1>1, SizesAssumption DEF Slots
    <3>2. After(g, e)[i] = g[i + e] /\ After(f, e)[i] = f[i + e]
      BY <3>1 DEF After
    <3> QED  BY <3>1, <3>2
  <2> QED  BY <1>1, <2>1, <2>2, SameConcat
<1>4. ASSUME NEW k \in Strands
      PROVE  /\ Concat(k, a) \in Strings /\ Concat(After(k, e), n - e) \in Strings
             /\ Concat(k, n) = (Concat(k, a) \o (k[a] \o k[b])) \o Concat(After(k, e), n - e)
  <2>1. Concat(k, a) \in Strings /\ Concat(k, e) = Concat(k, a) \o (k[a] \o k[b])
    BY <1>1, ConcatPair, ZenonT(40)
  <2>2. /\ Concat(After(k, e), n - e) \in Strings
        /\ Concat(k, n) = Concat(k, e) \o Concat(After(k, e), n - e)
    BY <1>1, CutConcat
  <2> QED  BY <2>1, <2>2, Zenon
<1> HIDE DEF e
<1> QED
  BY <1>2, <1>3, <1>4, Zenon

\* x is u and then v.
IsJoin(x, u, v) == x = u \o v

\* A strand that is cut in two, the others moved up.
LEMMA PairOpened ==
  ASSUME NEW f \in Strands, NEW g \in Strands, NEW n \in Slots, NEW k, k = n + 1,
         NEW a \in 0..(n - 1), NEW b, b = a + 1,
         \A i \in 0..(a - 1) : g[i] = f[i], IsJoin(f[a], g[a], g[b]),
         \A i \in b..(n - 1) : g[i + 1] = f[i]
  PROVE  Concat(g, k) = Concat(f, n)
<1> DEFINE e == b + 1
<1>1. /\ a \in 0..(NodeSizeMax + 1) /\ n \in 0..(NodeSizeMax + 1) /\ k \in 0..(NodeSizeMax + 1)
      /\ a \in Slots /\ b \in Slots /\ e \in 0..k /\ b \in 0..n
      /\ n - b \in 0..(NodeSizeMax + 1) /\ k - e = n - b
  BY SizesAssumption DEF Slots
<1>2. Concat(g, a) = Concat(f, a)
  BY <1>1, SameConcat
<1>3. Concat(After(g, e), k - e) = Concat(After(f, b), n - b)
  <2>1. After(f, b) \in Strands /\ After(g, e) \in Strands
    BY <1>1, CutConcat
  <2>2. ASSUME NEW i \in 0..(n - b - 1) PROVE After(g, e)[i] = After(f, b)[i]
    <3>1. /\ i + e \in Slots /\ i + b \in Slots /\ i \in Slots
          /\ i + b \in b..(n - 1) /\ (i + b) + 1 = i + e
      BY <1>1, SizesAssumption DEF Slots
    <3>2. After(g, e)[i] = g[i + e] /\ After(f, b)[i] = f[i + b]
      BY <3>1 DEF After
    <3> QED  BY <3>1, <3>2
  <2> QED  BY <1>1, <2>1, <2>2, SameConcat
<1>4. /\ Concat(f, a) \in Strings /\ f[a] \in Strings /\ Concat(f, b) = Concat(f, a) \o f[a]
      /\ Concat(f, n) = Concat(f, b) \o Concat(After(f, b), n - b)
  BY <1>1, Concats, CutConcat DEF Strands
<1>5. Concat(g, k) = Concat(g, e) \o Concat(After(g, e), k - e)
  BY <1>1, CutConcat
<1>6. Concat(g, e) = Concat(g, a) \o (g[a] \o g[b])
  BY <1>1, ConcatPair, ZenonT(40)
<1> HIDE DEF e
<1> QED
  BY <1>2, <1>3, <1>4, <1>5, <1>6, Zenon DEF IsJoin

-----------------------------------------------------------------------------
(* What the nodes of a tree spell.                                         *)

\* What the children of node m spell, by their slots.
Strand(heap, c, m) ==
  [i \in Slots |-> IF i < Width(heap, m) THEN c[Kid(Row(heap, m), i)] ELSE <<>>]

Spelt(heap, c, m) ==
  IF IsLeaf(heap, m) THEN Bv(heap, m) ELSE Concat(Strand(heap, c, m), Width(heap, m))

\* The children of node m are in U.
KidsIn(heap, m, U) ==
  ~IsLeaf(heap, m) => \A i \in Slots : i < Width(heap, m) => Kid(Row(heap, m), i) \in U

\* Each node of U, which is closed under children, spells what its children do.
Spells(heap, U, c) ==
  c \in [U -> Strings] /\ \A m \in U : c[m] = Spelt(heap, c, m) /\ KidsIn(heap, m, U)

\* The same for the bits of a heap, as they are defined.
BitsStep(heap, f) ==
  [n \in DOMAIN heap |->
    IF heap[n].isLeaf THEN heap[n].bv
    ELSE Concat([i \in Slots |-> IF heap[n].entries[i].P = nullptr THEN <<>>
                                 ELSE f[heap[n].entries[i].P]], heap[n].size)]

BitsIn(heap) == CHOOSE f : f = BitsStep(heap, f)

\* What the leaves spell is BitsIn of the nodes.
LEMMA BitsOfNodes == BitsOf = BitsIn(node)
  BY Zenon DEF BitsOf, BitsIn, BitsStep

\* The same after a step.
LEMMA BitsOfNodesNext == BitsOf' = BitsIn(node')
  BY Zenon DEF BitsOf, BitsIn, BitsStep

\* A string for each slot.
LEMMA StrandType ==
  ASSUME NEW heap, NEW U, NEW c \in [U -> Strings], NEW m, ~IsLeaf(heap, m), KidsIn(heap, m, U)
  PROVE  Strand(heap, c, m) \in Strands
<1>1. ASSUME NEW i \in Slots
      PROVE  (IF i < Width(heap, m) THEN c[Kid(Row(heap, m), i)] ELSE <<>>) \in Strings
  <2>1. CASE i < Width(heap, m)
    BY <2>1 DEF KidsIn
  <2>2. CASE ~(i < Width(heap, m))
    BY <2>2, Joins
  <2> QED  BY <2>1, <2>2
<1> QED
  BY <1>1 DEF Strand, Strands

\* All nodes of a tree are below its root.
LEMMA BelowRoot ==
  ASSUME NEW heap, NEW T, NEW r, NEW h, Tree(heap, T, r, h),
         NEW U, r \in U, \A m \in U : KidsIn(heap, m, U)
  PROVE  T \subseteq U
<1>1. /\ \A m \in T : h[m] \in Nat /\ h[m] <= h[r]
      /\ h[r] \in Nat /\ r \in T
  <2>1. \A m \in T : h[m] \in Nat
    BY DEF Tree, Forest, Heap
  <2> QED  BY <2>1 DEF Tree, Lower
<1> DEFINE S == {k \in 0..h[r] : \A m \in T : h[m] + k = h[r] => m \in U}
<1>2. \A m \in T : m # r => /\ Up(heap, m) \in T /\ h[Up(heap, m)] = h[m] + 1
                            /\ (Up(heap, m) \in U => m \in U)
  <2>1. ASSUME NEW m \in T, m # r
        PROVE  /\ Up(heap, m) \in T /\ h[Up(heap, m)] = h[m] + 1
               /\ (Up(heap, m) \in U => m \in U)
    <3>1. /\ Up(heap, m) \in T /\ ~IsLeaf(heap, Up(heap, m))
          /\ Index(heap, m) \in Slots /\ Index(heap, m) < Width(heap, Up(heap, m))
          /\ Kid(Row(heap, Up(heap, m)), Index(heap, m)) = m /\ h[Up(heap, m)] = h[m] + 1
      BY <2>1, TreeUp
    <3>2. Up(heap, m) \in U => m \in U
      BY <3>1 DEF KidsIn
    <3> QED  BY <3>1, <3>2
  <2> QED  BY <2>1
<1>3. 0 \in S
  <2>1. ASSUME NEW m \in T, h[m] = h[r] PROVE m = r
    <3>1. SUFFICES ASSUME m # r PROVE FALSE
      OBVIOUS
    <3>2. Up(heap, m) \in T /\ h[Up(heap, m)] = h[m] + 1
      BY <1>2, <3>1
    <3> QED  BY <1>1, <2>1, <3>2
  <2>2. ASSUME NEW m \in T, h[m] + 0 = h[r] PROVE m \in U
    <3>1. h[m] = h[r]
      BY <1>1, <2>2
    <3> QED  BY <2>1, <3>1
  <2> QED  BY <1>1, <2>2
<1>4. ASSUME NEW k \in 0..(h[r] - 1), k \in S PROVE k + 1 \in S
  <2>1. ASSUME NEW m \in T, h[m] + (k + 1) = h[r] PROVE m \in U
    <3>1. CASE m = r
      BY <3>1
    <3>2. CASE m # r
      <4>1. Up(heap, m) \in T /\ h[Up(heap, m)] = h[m] + 1
        BY <1>2, <3>2
      <4>2. h[Up(heap, m)] + k = h[r]
        BY <1>1, <2>1, <4>1
      <4>3. Up(heap, m) \in U
        BY <1>4, <4>1, <4>2
      <4> QED  BY <1>2, <3>2, <4>3
    <3> QED  BY <3>1, <3>2
  <2> QED  BY <1>1, <2>1
<1> HIDE DEF S
<1>5. \A k \in 0..h[r] : k \in S
  BY <1>1, <1>3, <1>4, UpTo
<1>6. ASSUME NEW m \in T PROVE m \in U
  <2>1. h[r] - h[m] \in 0..h[r] /\ h[m] + (h[r] - h[m]) = h[r]
    BY <1>1
  <2> QED  BY <1>5, <2>1 DEF S
<1> QED
  BY <1>6

\* So the nodes of the tree spell what all of U do.
LEMMA SpellsTree ==
  ASSUME NEW heap, NEW T, NEW r, NEW h, Tree(heap, T, r, h),
         NEW U, NEW c, Spells(heap, U, c), r \in U
  PROVE  \E d : Spells(heap, T, d) /\ d[r] = c[r]
<1>1. T \subseteq U
  BY BelowRoot DEF Spells
<1>2. PICK d : d = [m \in T |-> c[m]]
  OBVIOUS
<1>3. d \in [T -> Strings] /\ d[r] = c[r]
  BY <1>1, <1>2 DEF Spells, Tree
<1>4. ASSUME NEW m \in T PROVE d[m] = Spelt(heap, d, m) /\ KidsIn(heap, m, T)
  <2>1. d[m] = c[m] /\ c[m] = Spelt(heap, c, m)
    BY <1>1, <1>2 DEF Spells
  <2>2. KidsIn(heap, m, T)
    BY TreeKid DEF KidsIn
  <2>3. CASE IsLeaf(heap, m)
    BY <2>1, <2>2, <2>3 DEF Spelt
  <2>4. CASE ~IsLeaf(heap, m)
    <3>1. \A i \in Slots : i < Width(heap, m) =>
                             d[Kid(Row(heap, m), i)] = c[Kid(Row(heap, m), i)]
      BY <1>2, <2>2, <2>4 DEF KidsIn
    <3>2. Strand(heap, d, m) = Strand(heap, c, m)
      BY <3>1 DEF Strand
    <3> QED  BY <2>1, <2>2, <2>4, <3>2 DEF Spelt
  <2> QED  BY <2>3, <2>4
<1> QED
  BY <1>3, <1>4 DEF Spells

\* Two ways to spell a tree are the same.
LEMMA OneSpelling ==
  ASSUME NEW heap, NEW T, NEW r, NEW h, Tree(heap, T, r, h),
         NEW c, Spells(heap, T, c),
         NEW f, \A m \in T : f[m] = Spelt(heap, f, m)
  PROVE  \A m \in T : f[m] = c[m]
<1>1. /\ \A m \in T : h[m] \in Nat /\ h[m] <= h[r] /\ (IsLeaf(heap, m) <=> h[m] = 0)
      /\ h[r] \in Nat /\ r \in T
  <2>1. \A m \in T : h[m] \in Nat /\ (IsLeaf(heap, m) <=> h[m] = 0)
    BY DEF Tree, Forest, Heap
  <2> QED  BY <2>1 DEF Tree, Lower
<1> DEFINE S == {k \in 0..h[r] : \A m \in T : h[m] = k => f[m] = c[m]}
<1>2. 0 \in S
  <2>1. ASSUME NEW m \in T, h[m] = 0 PROVE f[m] = c[m]
    <3>1. IsLeaf(heap, m)
      BY <1>1, <2>1
    <3>2. c[m] = Spelt(heap, c, m) /\ f[m] = Spelt(heap, f, m)
      BY DEF Spells
    <3> QED  BY <3>1, <3>2 DEF Spelt
  <2> QED  BY <1>1, <2>1
<1>3. ASSUME NEW k \in 0..(h[r] - 1), k \in S PROVE k + 1 \in S
  <2>1. ASSUME NEW m \in T, h[m] = k + 1 PROVE f[m] = c[m]
    <3>1. ~IsLeaf(heap, m)
      BY <1>1, <2>1
    <3>2. c[m] = Spelt(heap, c, m) /\ f[m] = Spelt(heap, f, m)
      BY DEF Spells
    <3>3. ASSUME NEW i \in Slots, i < Width(heap, m)
          PROVE  f[Kid(Row(heap, m), i)] = c[Kid(Row(heap, m), i)]
      <4>1. PICK d : d = Kid(Row(heap, m), i)
        OBVIOUS
      <4>2. d \in T /\ h[m] = h[d] + 1
        BY <3>1, <3>3, <4>1, TreeKid
      <4>3. h[d] = k
        BY <1>1, <2>1, <4>2
      <4> QED  BY <1>3, <4>1, <4>2, <4>3
    <3>4. Strand(heap, f, m) = Strand(heap, c, m)
      BY <3>3 DEF Strand
    <3> QED  BY <3>1, <3>2, <3>4 DEF Spelt
  <2> QED  BY <1>1, <2>1
<1> HIDE DEF S
<1>4. \A k \in 0..h[r] : k \in S
  BY <1>1, <1>2, <1>3, UpTo
<1>5. ASSUME NEW m \in T PROVE f[m] = c[m]
  <2>1. h[m] \in 0..h[r]
    BY <1>1
  <2> QED  BY <1>4, <2>1 DEF S
<1> QED
  BY <1>5

\* A node of a tree with a child in each slot in use, none in the others.
LEMMA StepIsSpelt ==
  ASSUME NEW heap, NEW T, NEW r, NEW h, Tree(heap, T, r, h), NEW m \in T, NEW f
  PROVE  BitsStep(heap, f)[m] = Spelt(heap, f, m)
<1>1. m \in DOMAIN heap /\ \A n \in T : n # nullptr
  BY ForestFields DEF Tree
<1>2. BitsStep(heap, f)[m]
      = IF IsLeaf(heap, m) THEN Bv(heap, m)
        ELSE Concat([i \in Slots |-> IF Kid(Row(heap, m), i) = nullptr THEN <<>>
                                     ELSE f[Kid(Row(heap, m), i)]], Width(heap, m))
  BY <1>1 DEF BitsStep, IsLeaf, Bv, Kid, Row, Width
<1>3. CASE IsLeaf(heap, m)
  BY <1>2, <1>3 DEF Spelt
<1>4. CASE ~IsLeaf(heap, m)
  <2>1. ASSUME NEW i \in Slots
        PROVE  Kid(Row(heap, m), i) = nullptr <=> ~(i < Width(heap, m))
    <3>1. CASE i < Width(heap, m)
      <4>1. Kid(Row(heap, m), i) \in T
        BY <1>4, <3>1, TreeKid
      <4> QED  BY <1>1, <3>1, <4>1
    <3>2. CASE ~(i < Width(heap, m))
      <4>1. Slot(Row(heap, m), i) = EmptyEntry
        BY <1>4, <3>2, TreeKid
      <4> QED  BY <3>2, <4>1 DEF Slot, Kid, EmptyEntry
    <3> QED  BY <3>1, <3>2
  <2>2. [i \in Slots |-> IF Kid(Row(heap, m), i) = nullptr THEN <<>>
                         ELSE f[Kid(Row(heap, m), i)]] = Strand(heap, f, m)
    BY <2>1 DEF Strand
  <2> QED  BY <1>2, <1>4, <2>2 DEF Spelt
<1> QED
  BY <1>3, <1>4

\* What a tree contains is what its root spells.
LEMMA SpeltBits ==
  ASSUME NEW heap, NEW T, NEW r, NEW h, Tree(heap, T, r, h), NEW c, Spells(heap, T, c)
  PROVE  BitsIn(heap)[r] = c[r]
<1>1. T \subseteq DOMAIN heap /\ r \in T /\ nullptr \notin T
      /\ \A m \in DOMAIN heap : m \notin T => Row(heap, m) \in NoChildren
  <2>1. \A n \in T : n # nullptr
    BY ForestFields DEF Tree
  <2> QED  BY <2>1 DEF Tree, Forest
<1> DEFINE nothing == [i \in Slots |-> <<>>]
           f == [m \in DOMAIN heap |->
                  IF m \in T THEN c[m]
                  ELSE IF heap[m].isLeaf THEN heap[m].bv ELSE Concat(nothing, heap[m].size)]
<1>2. \A m \in T : f[m] = c[m]
  BY <1>1
<1>3. ASSUME NEW m \in DOMAIN heap PROVE f[m] = BitsStep(heap, f)[m]
  <2>1. CASE m \in T
    <3>1. \A i \in Slots : i < Width(heap, m) /\ ~IsLeaf(heap, m) =>
                             f[Kid(Row(heap, m), i)] = c[Kid(Row(heap, m), i)]
      BY <1>2, <2>1 DEF Spells, KidsIn
    <3> HIDE DEF f
    <3>2. Spelt(heap, f, m) = Spelt(heap, c, m)
      <4>1. CASE IsLeaf(heap, m)
        BY <4>1 DEF Spelt
      <4>2. CASE ~IsLeaf(heap, m)
        <5>1. Strand(heap, f, m) = Strand(heap, c, m)
          BY <3>1, <4>2 DEF Strand
        <5> QED  BY <4>2, <5>1 DEF Spelt
      <4> QED  BY <4>1, <4>2
    <3>3. c[m] = Spelt(heap, c, m)
      BY <2>1 DEF Spells
    <3>4. BitsStep(heap, f)[m] = Spelt(heap, f, m)
      BY <2>1, StepIsSpelt
    <3> QED  BY <1>2, <2>1, <3>2, <3>3, <3>4
  <2>2. CASE m \notin T
    <3>1. \A i \in Slots : heap[m].entries[i].P = nullptr
      BY <1>1, <2>2 DEF Row, NoChildren
    <3>2. f[m] = IF heap[m].isLeaf THEN heap[m].bv ELSE Concat(nothing, heap[m].size)
      BY <2>2
    <3> HIDE DEF f
    <3>3. [i \in Slots |-> IF heap[m].entries[i].P = nullptr THEN <<>>
                           ELSE f[heap[m].entries[i].P]] = nothing
      BY <3>1
    <3> HIDE DEF nothing
    <3> QED  BY <3>2, <3>3 DEF BitsStep
  <2> QED  BY <2>1, <2>2
<1>4. f = BitsStep(heap, f)
  <2>1. PICK g : g = BitsStep(heap, f)
    OBVIOUS
  <2>2. g = [m \in DOMAIN heap |-> g[m]]
    BY <2>1 DEF BitsStep
  <2>3. f = [m \in DOMAIN heap |-> f[m]]
    OBVIOUS
  <2> HIDE DEF f
  <2> QED  BY <1>3, <2>1, <2>2, <2>3
<1> HIDE DEF f, nothing
<1>5. PICK b : b = BitsIn(heap)
  OBVIOUS
<1>6. b = BitsStep(heap, b)
  BY <1>4, <1>5, Zenon DEF BitsIn
<1>7. \A m \in T : b[m] = Spelt(heap, b, m)
  BY <1>6, StepIsSpelt
<1>8. \A m \in T : b[m] = c[m]
  BY <1>7, OneSpelling
<1> QED
  BY <1>1, <1>5, <1>8

-----------------------------------------------------------------------------
(* The bits before and after those of a node.                              *)

\* Nodes that spell the same up to some height are the same there.
LEMMA SpeltUpTo ==
  ASSUME NEW heap, NEW T, NEW r, NEW h, Tree(heap, T, r, h),
         NEW c, Spells(heap, T, c), NEW k \in Nat,
         NEW f, \A m \in T : h[m] <= k => f[m] = Spelt(heap, f, m)
  PROVE  \A m \in T : h[m] <= k => f[m] = c[m]
<1>1. \A m \in T : h[m] \in Nat /\ (IsLeaf(heap, m) <=> h[m] = 0)
  BY DEF Tree, Forest, Heap
<1> DEFINE S == {l \in 0..k : \A m \in T : h[m] = l => f[m] = c[m]}
<1>2. 0 \in S
  <2>1. ASSUME NEW m \in T, h[m] = 0 PROVE f[m] = c[m]
    <3>1. IsLeaf(heap, m) /\ h[m] <= k
      BY <1>1, <2>1
    <3>2. c[m] = Spelt(heap, c, m) /\ f[m] = Spelt(heap, f, m)
      BY <3>1 DEF Spells
    <3> QED  BY <3>1, <3>2 DEF Spelt
  <2> QED  BY <2>1
<1>3. ASSUME NEW l \in 0..(k - 1), l \in S PROVE l + 1 \in S
  <2>1. ASSUME NEW m \in T, h[m] = l + 1 PROVE f[m] = c[m]
    <3>1. ~IsLeaf(heap, m) /\ h[m] <= k
      BY <1>1, <2>1
    <3>2. c[m] = Spelt(heap, c, m) /\ f[m] = Spelt(heap, f, m)
      BY <3>1 DEF Spells
    <3>3. ASSUME NEW i \in Slots, i < Width(heap, m)
          PROVE  f[Kid(Row(heap, m), i)] = c[Kid(Row(heap, m), i)]
      <4>1. PICK d : d = Kid(Row(heap, m), i)
        OBVIOUS
      <4>2. d \in T /\ h[m] = h[d] + 1
        BY <3>1, <3>3, <4>1, TreeKid
      <4>3. h[d] = l
        BY <1>1, <2>1, <4>2
      <4> QED  BY <1>3, <4>1, <4>2, <4>3
    <3>4. Strand(heap, f, m) = Strand(heap, c, m)
      BY <3>3 DEF Strand
    <3> QED  BY <3>1, <3>2, <3>4 DEF Spelt
  <2> QED  BY <2>1
<1> HIDE DEF S
<1>4. \A l \in 0..k : l \in S
  BY <1>2, <1>3, UpTo
<1>5. ASSUME NEW m \in T, h[m] <= k PROVE f[m] = c[m]
  <2>1. h[m] \in 0..k
    BY <1>1, <1>5
  <2> QED  BY <1>4, <2>1 DEF S
<1> QED
  BY <1>5

\* Another strand in slot a, the others as they were.
LEMMA OtherStrand ==
  ASSUME NEW f \in Strands, NEW g \in Strands, NEW n \in 0..(NodeSizeMax + 1),
         NEW a \in 0..(n - 1), NEW m, m = a + 1,
         \A i \in 0..(n - 1) : i # a => g[i] = f[i]
  PROVE  Concat(g, n) = Concat(f, a) \o (g[a] \o Concat(After(f, m), n - m))
<1>1. /\ m \in 0..n /\ a \in 0..(NodeSizeMax + 1) /\ n - m \in 0..(NodeSizeMax + 1)
  BY SizesAssumption
<1>2. Concat(g, a) = Concat(f, a)
  <2>1. \A i \in 0..(a - 1) : g[i] = f[i]
    OBVIOUS
  <2> QED  BY <1>1, <2>1, SameConcat
<1>3. Concat(After(g, m), n - m) = Concat(After(f, m), n - m)
  <2>1. After(f, m) \in Strands /\ After(g, m) \in Strands
    BY <1>1, CutConcat
  <2>2. ASSUME NEW i \in 0..(n - m - 1) PROVE After(g, m)[i] = After(f, m)[i]
    <3>1. i + m \in Slots /\ i \in Slots /\ i + m \in 0..(n - 1) /\ i + m # a
      BY <1>1, SizesAssumption DEF Slots
    <3>2. After(g, m)[i] = g[i + m] /\ After(f, m)[i] = f[i + m]
      BY <3>1 DEF After
    <3> QED  BY <3>1, <3>2
  <2> QED  BY <1>1, <2>1, <2>2, SameConcat
<1>4. Concat(g, n) = Concat(g, a) \o (g[a] \o Concat(After(g, m), n - m))
  BY ConcatAround
<1> QED
  BY <1>2, <1>3, <1>4, Zenon

\* Strands of the lengths B with the numbers of ones O.
Weighs(f, n, B, O) == \A i \in 0..(n - 1) : Len(f[i]) = B[i] /\ CountOnes(f[i]) = O[i]

\* What strands together weigh is the sum of what each does.
LEMMA ConcatSums ==
  ASSUME NEW f \in Strands, NEW B \in Numbers, NEW O \in Numbers,
         NEW n \in 0..(NodeSizeMax + 1), Weighs(f, n, B, O)
  PROVE  Len(Concat(f, n)) = SumBelow(B, n) /\ CountOnes(Concat(f, n)) = SumBelow(O, n)
<1> DEFINE S == {i \in 0..n : /\ Len(Concat(f, i)) = SumBelow(B, i)
                              /\ CountOnes(Concat(f, i)) = SumBelow(O, i)}
<1>1. 0 \in S
  <2>1. Concat(f, 0) = <<>> /\ SumBelow(B, 0) = 0 /\ SumBelow(O, 0) = 0
    BY Concats, Sums
  <2>2. Len(<<>>) = 0 /\ <<>> \in Seq(BOOLEAN)
    OBVIOUS
  <2>3. CountOnes(<<>>) = 0
    <3>1. PICK e : e = <<>>
      OBVIOUS
    <3>2. CountOnes(e) \in 0..Len(e) /\ Len(e) = 0
      BY <2>2, <3>1, OnesType
    <3> QED  BY <3>1, <3>2
  <2> QED  BY <2>1, <2>2, <2>3
<1>2. ASSUME NEW i \in 0..(n - 1), i \in S PROVE i + 1 \in S
  <2>1. i \in Slots /\ i \in 0..(NodeSizeMax + 1)
    BY SizesAssumption DEF Slots
  <2>2. Concat(f, i + 1) = Concat(f, i) \o f[i] /\ Concat(f, i) \in Strings /\ f[i] \in Strings
    BY <2>1, Concats DEF Strands
  <2>3. /\ Len(Concat(f, i) \o f[i]) = Len(Concat(f, i)) + Len(f[i])
        /\ CountOnes(Concat(f, i) \o f[i]) = CountOnes(Concat(f, i)) + CountOnes(f[i])
    BY <2>2, Glued
  <2>4. SumBelow(B, i + 1) = SumBelow(B, i) + B[i] /\ SumBelow(O, i + 1) = SumBelow(O, i) + O[i]
    BY <2>1, Sums
  <2>5. Len(f[i]) = B[i] /\ CountOnes(f[i]) = O[i]
    BY DEF Weighs
  <2>6. Len(Concat(f, i + 1)) = SumBelow(B, i + 1) /\ CountOnes(Concat(f, i + 1)) = SumBelow(O, i + 1)
    BY <1>2, <2>2, <2>3, <2>4, <2>5, Zenon
  <2> QED  BY <2>6
<1> HIDE DEF S
<1>3. n \in S
  BY <1>1, <1>2, UpTo
<1> QED
  BY <1>3 DEF S

\* The strands of a node weigh what its entries say.
LEMMA StrandSums ==
  ASSUME NEW heap, NEW T, NEW r, NEW h, Tree(heap, T, r, h), AllExact(heap, T, r),
         NEW c, Spells(heap, T, c), NEW a \in T, ~IsLeaf(heap, a),
         \A i \in Slots : i < Width(heap, a) =>
            /\ Len(c[Kid(Row(heap, a), i)]) = Bits(heap, Kid(Row(heap, a), i))
            /\ CountOnes(c[Kid(Row(heap, a), i)]) = OnesAt(heap, Kid(Row(heap, a), i))
  PROVE  Weighs(Strand(heap, c, a), Width(heap, a), Bs(Row(heap, a)), Os(Row(heap, a)))
<1>1. Heap(heap) /\ a \in DOMAIN heap /\ Width(heap, a) \in 0..(NodeSizeMax + 1)
      /\ Row(heap, a) \in Rows
  BY ForestFields DEF Tree
<1>2. ASSUME NEW i \in 0..(Width(heap, a) - 1)
      PROVE  /\ Len(Strand(heap, c, a)[i]) = Bs(Row(heap, a))[i]
             /\ CountOnes(Strand(heap, c, a)[i]) = Os(Row(heap, a))[i]
  <2>1. i \in Slots /\ i < Width(heap, a)
    BY <1>1, SizesAssumption DEF Slots
  <2>2. PICK k : k = Kid(Row(heap, a), i)
    OBVIOUS
  <2>3. k \in T /\ k # r /\ Entry(heap, k) = Slot(Row(heap, a), i)
    BY <2>1, <2>2, TreeKid
  <2>4. Bits(heap, k) = Slot(Row(heap, a), i).b /\ OnesAt(heap, k) = Slot(Row(heap, a), i).o
    BY <2>3 DEF AllExact, Exact
  <2>5. Bs(Row(heap, a))[i] = Slot(Row(heap, a), i).b /\ Os(Row(heap, a))[i] = Slot(Row(heap, a), i).o
    BY <1>1, <2>1, RowFields
  <2>6. Strand(heap, c, a)[i] = c[k]
    BY <2>1, <2>2 DEF Strand
  <2>7. Len(c[k]) = Bits(heap, k) /\ CountOnes(c[k]) = OnesAt(heap, k)
    BY <2>1, <2>2
  <2> QED  BY <2>4, <2>5, <2>6, <2>7
<1> QED
  BY <1>2 DEF Weighs

\* What a node spells is as long as it is said to hold, and has as many ones.
LEMMA Weights ==
  ASSUME NEW heap, NEW T, NEW r, NEW h, Tree(heap, T, r, h), AllExact(heap, T, r),
         NEW c, Spells(heap, T, c)
  PROVE  \A m \in T : Len(c[m]) = Bits(heap, m) /\ CountOnes(c[m]) = OnesAt(heap, m)
<1>1. /\ \A m \in T : h[m] \in Nat /\ h[m] <= h[r] /\ (IsLeaf(heap, m) <=> h[m] = 0)
      /\ h[r] \in Nat /\ r \in T
  <2>1. \A m \in T : h[m] \in Nat /\ (IsLeaf(heap, m) <=> h[m] = 0)
    BY DEF Tree, Forest, Heap
  <2> QED  BY <2>1 DEF Tree, Lower
<1>2. \A m \in T : /\ Heap(heap) /\ m \in DOMAIN heap /\ Width(heap, m) \in 0..(NodeSizeMax + 1)
                   /\ Row(heap, m) \in Rows
  BY ForestFields DEF Tree
<1> DEFINE S == {k \in 0..h[r] : \A m \in T : h[m] = k =>
                   Len(c[m]) = Bits(heap, m) /\ CountOnes(c[m]) = OnesAt(heap, m)}
<1>3. 0 \in S
  <2>1. ASSUME NEW m \in T, h[m] = 0
        PROVE  Len(c[m]) = Bits(heap, m) /\ CountOnes(c[m]) = OnesAt(heap, m)
    <3>1. IsLeaf(heap, m)
      BY <1>1, <2>1
    <3>2. c[m] = Bv(heap, m)
      BY <3>1 DEF Spells, Spelt
    <3>3. Bits(heap, m) = Len(Bv(heap, m)) /\ OnesAt(heap, m) = CountOnes(Bv(heap, m))
      BY <1>2, <3>1, NamedAmounts
    <3> QED  BY <3>2, <3>3
  <2> QED  BY <1>1, <2>1
<1>4. ASSUME NEW k \in 0..(h[r] - 1), k \in S PROVE k + 1 \in S
  <2>1. ASSUME NEW m \in T, h[m] = k + 1
        PROVE  Len(c[m]) = Bits(heap, m) /\ CountOnes(c[m]) = OnesAt(heap, m)
    <3>1. ~IsLeaf(heap, m)
      BY <1>1, <2>1
    <3>2. c[m] = Concat(Strand(heap, c, m), Width(heap, m)) /\ KidsIn(heap, m, T)
      BY <3>1 DEF Spells, Spelt
    <3>3. ASSUME NEW i \in Slots, i < Width(heap, m), NEW d, d = Kid(Row(heap, m), i)
          PROVE  Len(c[d]) = Bits(heap, d) /\ CountOnes(c[d]) = OnesAt(heap, d)
      <4>1. d \in T /\ h[m] = h[d] + 1
        BY <3>1, <3>3, TreeKid
      <4>2. h[d] = k
        BY <1>1, <2>1, <4>1
      <4> QED  BY <1>4, <4>1, <4>2
    <3>4. Weighs(Strand(heap, c, m), Width(heap, m), Bs(Row(heap, m)), Os(Row(heap, m)))
      BY <3>1, <3>3, StrandSums
    <3>5. Strand(heap, c, m) \in Strands
      BY <3>1, <3>2, StrandType DEF Spells
    <3>6. Bs(Row(heap, m)) \in Numbers /\ Os(Row(heap, m)) \in Numbers
          /\ Width(heap, m) \in 0..(NodeSizeMax + 1)
      BY <1>2, NamedAmounts
    <3>7. /\ Len(Concat(Strand(heap, c, m), Width(heap, m))) = SumBelow(Bs(Row(heap, m)), Width(heap, m))
          /\ CountOnes(Concat(Strand(heap, c, m), Width(heap, m)))
             = SumBelow(Os(Row(heap, m)), Width(heap, m))
      BY <3>4, <3>5, <3>6, ConcatSums
    <3>8. Ends(Row(heap, m), Width(heap, m))
      BY <3>1, ForestRow DEF Tree
    <3>9. /\ SumBelow(Bs(Row(heap, m)), Width(heap, m)) = Total(Bs(Row(heap, m)))
          /\ SumBelow(Os(Row(heap, m)), Width(heap, m)) = Total(Os(Row(heap, m)))
      BY <1>2, <3>8, EndedSum
    <3>10. /\ Bits(heap, m) = Total(Bs(Row(heap, m)))
           /\ OnesAt(heap, m) = Total(Os(Row(heap, m)))
      BY <1>2, <3>1, NamedAmounts
    <3> QED  BY <3>2, <3>7, <3>9, <3>10, Zenon
  <2> QED  BY <1>1, <2>1
<1> HIDE DEF S
<1>5. \A k \in 0..h[r] : k \in S
  BY <1>1, <1>3, <1>4, UpTo
<1>6. ASSUME NEW m \in T
      PROVE  Len(c[m]) = Bits(heap, m) /\ CountOnes(c[m]) = OnesAt(heap, m)
  <2>1. h[m] \in 0..h[r]
    BY <1>1
  <2> QED  BY <1>5, <2>1 DEF S
<1> QED
  BY <1>6

\* Whatever node a spelt, the root would spell it between pre and post.
Hole(heap, T, r, a, pre, post) ==
  \A x \in Strings :
    \E d \in [T -> Strings] : /\ d[a] = x /\ d[r] = pre \o (x \o post)
                              /\ \A m \in T : m # a => d[m] = Spelt(heap, d, m)

\* There are b bits and o ones before those of node a.
Spot(heap, T, r, a, b, o) ==
  \E pre, post \in Strings :
    Hole(heap, T, r, a, pre, post) /\ Len(pre) = b /\ CountOnes(pre) = o

\* Where node k has something else, a node that is not its parent spells what it did.
LEMMA OtherwiseSpelt ==
  ASSUME NEW heap, NEW T, NEW r, NEW h, Tree(heap, T, r, h), NEW k \in T,
         NEW m \in T, k = r \/ m # Up(heap, k),
         NEW d, NEW e, \A n \in T : n # k => e[n] = d[n]
  PROVE  Spelt(heap, e, m) = Spelt(heap, d, m)
<1>1. CASE IsLeaf(heap, m)
  BY <1>1 DEF Spelt
<1>2. CASE ~IsLeaf(heap, m)
  <2>1. ASSUME NEW i \in Slots, i < Width(heap, m)
        PROVE  e[Kid(Row(heap, m), i)] = d[Kid(Row(heap, m), i)]
    <3>1. PICK n : n = Kid(Row(heap, m), i)
      OBVIOUS
    <3>2. n \in T /\ n # r /\ Up(heap, n) = m
      BY <1>2, <2>1, <3>1, TreeKid
    <3>3. n # k
      BY <3>2
    <3> QED  BY <3>1, <3>2, <3>3
  <2>2. Strand(heap, e, m) = Strand(heap, d, m)
    BY <2>1 DEF Strand
  <2> QED  BY <1>2, <2>2 DEF Spelt
<1> QED
  BY <1>1, <1>2

\* There is nothing before what the root spells.
LEMMA SpotOfRoot ==
  ASSUME NEW heap, NEW T, NEW r, NEW h, Tree(heap, T, r, h), NEW c, Spells(heap, T, c)
  PROVE  Spot(heap, T, r, r, 0, 0)
<1>1. r \in T /\ c \in [T -> Strings] /\ \A m \in T : c[m] = Spelt(heap, c, m)
  BY DEF Tree, Spells
<1>2. ASSUME NEW x \in Strings
      PROVE  \E d \in [T -> Strings] : /\ d[r] = x /\ d[r] = <<>> \o (x \o <<>>)
                                       /\ \A m \in T : m # r => d[m] = Spelt(heap, d, m)
  <2>1. PICK d : d = [c EXCEPT ![r] = x]
    OBVIOUS
  <2>2. d \in [T -> Strings] /\ d[r] = x /\ \A m \in T : m # r => d[m] = c[m]
    BY <1>1, <2>1
  <2>3. x = <<>> \o (x \o <<>>)
    <3>1. x \o <<>> = x /\ <<>> \o x = x
      BY Joins
    <3> QED  BY <3>1, Zenon
  <2>4. d[r] = <<>> \o (x \o <<>>)
    BY <2>2, <2>3, Zenon
  <2>5. ASSUME NEW m \in T, m # r PROVE d[m] = Spelt(heap, d, m)
    <3>1. Spelt(heap, d, m) = Spelt(heap, c, m)
      BY <1>1, <2>2, OtherwiseSpelt
    <3> QED  BY <1>1, <2>2, <2>5, <3>1
  <2> QED  BY <2>2, <2>4, <2>5
<1>3. Hole(heap, T, r, r, <<>>, <<>>)
  BY <1>2, Zenon DEF Hole
<1>4. PICK e : e = <<>>
  OBVIOUS
<1>5. e \in Strings /\ Len(e) = 0
  BY <1>4 DEF Strings
<1>6. CountOnes(e) = 0
  <2>1. CountOnes(e) \in 0..Len(e)
    BY <1>5, Glued
  <2> QED  BY <1>5, <2>1
<1> QED
  BY <1>3, <1>4, <1>5, <1>6, Zenon DEF Spot

\* A string between two others that is itself between two.
Regroups(a, b, x, d, e) == a \o ((b \o (x \o d)) \o e) = (a \o b) \o (x \o (d \o e))

\* What is in front of it comes together, and what is behind it.
LEMMA Between ==
  ASSUME NEW a \in Strings, NEW b \in Strings, NEW x \in Strings,
         NEW d \in Strings, NEW e \in Strings
  PROVE  Regroups(a, b, x, d, e)
<1>1. x \o d \in Strings /\ b \o (x \o d) \in Strings /\ d \o e \in Strings /\ a \o b \in Strings
      /\ x \o (d \o e) \in Strings
  BY Joins, ZenonT(40)
<1>2. (b \o (x \o d)) \o e = b \o ((x \o d) \o e)
  <2>1. PICK y \in Strings : y = x \o d
    BY <1>1, Zenon
  <2>2. (b \o y) \o e = b \o (y \o e)
    BY Joins, ZenonT(40)
  <2> QED  BY <2>1, <2>2, Zenon
<1>3. (x \o d) \o e = x \o (d \o e)
  BY Joins, ZenonT(40)
<1>4. a \o (b \o (x \o (d \o e))) = (a \o b) \o (x \o (d \o e))
  <2>1. PICK y \in Strings : y = x \o (d \o e)
    BY <1>1, Zenon
  <2>2. (a \o b) \o y = a \o (b \o y)
    BY Joins, ZenonT(40)
  <2> QED  BY <2>1, <2>2, Zenon
<1> QED
  BY <1>1, <1>2, <1>3, <1>4, Zenon DEF Regroups

\* Whatever strand g has in slot a where f has its own, P comes before it and Q after.
Frames(f, n, a, P, Q) ==
  /\ P \in Strings /\ Q \in Strings
  /\ \A g \in Strands : (\A i \in 0..(n - 1) : i # a => g[i] = f[i]) =>
                           Concat(g, n) = P \o (g[a] \o Q)

\* P are the strands before that slot.
LEMMA Framed ==
  ASSUME NEW f \in Strands, NEW n \in 0..(NodeSizeMax + 1), NEW a \in 0..(n - 1)
  PROVE  \E Q : Frames(f, n, a, Concat(f, a), Q)
<1>1. PICK m : m = a + 1
  OBVIOUS
<1>2. PICK Q : Q = Concat(After(f, m), n - m)
  OBVIOUS
<1>3. Concat(f, a) \in Strings /\ Q \in Strings
  BY <1>1, <1>2, ConcatAround
<1>4. ASSUME NEW g \in Strands, \A i \in 0..(n - 1) : i # a => g[i] = f[i]
      PROVE  Concat(g, n) = Concat(f, a) \o (g[a] \o Q)
  <2>1. Concat(g, n) = Concat(f, a) \o (g[a] \o Concat(After(f, m), n - m))
    BY <1>1, <1>4, OtherStrand, ZenonT(40)
  <2> QED  BY <1>2, <2>1, Zenon
<1> QED
  BY <1>3, <1>4, Zenon DEF Frames

\* In front of a child there is what is in front of its parent and what its elder
\* siblings spell.
LEMMA HoleOfKid ==
  ASSUME NEW heap, NEW T, NEW r, NEW h, Tree(heap, T, r, h), NEW c, Spells(heap, T, c),
         NEW a \in T, ~IsLeaf(heap, a), NEW i \in Slots, i < Width(heap, a),
         NEW k, k = Kid(Row(heap, a), i),
         NEW pre \in Strings, NEW post \in Strings, Hole(heap, T, r, a, pre, post),
         NEW P, NEW Q, Frames(Strand(heap, c, a), Width(heap, a), i, P, Q)
  PROVE  Hole(heap, T, r, k, pre \o P, Q \o post)
<1>1. Width(heap, a) \in 0..(NodeSizeMax + 1) /\ r \in T /\ KidsIn(heap, a, T)
      /\ c \in [T -> Strings]
  BY ForestFields DEF Tree, Spells
<1>2. PICK S : S = Strand(heap, c, a)
  OBVIOUS
<1>3. P \in Strings /\ Q \in Strings
  BY DEF Frames
<1>4. k \in T /\ k # r /\ k # a /\ Up(heap, k) = a /\ h[a] = h[k] + 1
  BY TreeKid
<1>5. \A m \in T : h[m] \in Nat
  BY DEF Tree, Forest, Heap
<1>6. ASSUME NEW x \in Strings
      PROVE  \E d \in [T -> Strings] :
               /\ d[k] = x /\ d[r] = (pre \o P) \o (x \o (Q \o post))
               /\ \A m \in T : m # k => d[m] = Spelt(heap, d, m)
  <2>1. PICK y \in Strings : y = P \o (x \o Q)
    <3>1. P \o (x \o Q) \in Strings
      BY <1>3, Joins, ZenonT(40)
    <3> QED  BY <3>1, Zenon
  <2>2. PICK e \in [T -> Strings] : /\ e[a] = y /\ e[r] = pre \o (y \o post)
                                    /\ \A m \in T : m # a => e[m] = Spelt(heap, e, m)
    BY DEF Hole
  <2>3. PICK d : d = [e EXCEPT ![k] = x]
    OBVIOUS
  <2>4. d \in [T -> Strings] /\ d[k] = x /\ \A m \in T : m # k => d[m] = e[m]
    BY <1>4, <2>3
  <2>5. d[r] = (pre \o P) \o (x \o (Q \o post))
    <3>1. d[r] = pre \o (y \o post)
      BY <1>1, <1>4, <2>2, <2>4, Zenon
    <3>2. Regroups(pre, P, x, Q, post)
      BY <1>3, Between
    <3> QED  BY <2>1, <3>1, <3>2, Zenon DEF Regroups
  <2>6. ASSUME NEW m \in T, m # k, m # a PROVE d[m] = Spelt(heap, d, m)
    <3>1. Spelt(heap, d, m) = Spelt(heap, e, m)
      BY <1>4, <2>4, <2>6, OtherwiseSpelt
    <3> QED  BY <2>2, <2>4, <2>6, <3>1
  <2>7. d[a] = Spelt(heap, d, a)
    <3>1. \A m \in T : h[m] <= h[k] => e[m] = c[m]
      <4>1. h[k] \in Nat /\ \A m \in T : h[m] <= h[k] => m # a
        BY <1>4, <1>5
      <4>2. \A m \in T : h[m] <= h[k] => e[m] = Spelt(heap, e, m)
        BY <2>2, <4>1
      <4> QED  BY <4>1, <4>2, SpeltUpTo
    <3>2. Strand(heap, d, a) \in Strands
      BY <1>1, <2>4, StrandType
    <3>3. ASSUME NEW j \in 0..(Width(heap, a) - 1), j # i
          PROVE  Strand(heap, d, a)[j] = S[j]
      <4>1. j \in Slots /\ j < Width(heap, a)
        BY <1>1, SizesAssumption DEF Slots
      <4>2. PICK q : q = Kid(Row(heap, a), j)
        OBVIOUS
      <4>3. q \in T /\ Index(heap, q) = j /\ h[a] = h[q] + 1
        BY <4>1, <4>2, TreeKid
      <4>4. Index(heap, k) = i
        BY TreeKid
      <4>5. q # k /\ h[q] <= h[k]
        BY <1>4, <1>5, <3>3, <4>3, <4>4
      <4>6. d[q] = c[q]
        BY <2>4, <3>1, <4>3, <4>5
      <4> QED  BY <1>2, <4>1, <4>2, <4>6 DEF Strand
    <3>4. Strand(heap, d, a)[i] = x
      BY <2>4 DEF Strand
    <3>5. Concat(Strand(heap, d, a), Width(heap, a))
          = P \o (Strand(heap, d, a)[i] \o Q)
      BY <1>2, <3>2, <3>3, Zenon DEF Frames
    <3>6. Concat(Strand(heap, d, a), Width(heap, a)) = y
      BY <2>1, <3>4, <3>5, Zenon
    <3> QED  BY <1>4, <2>2, <2>4, <3>6 DEF Spelt
  <2> QED  BY <2>4, <2>5, <2>6, <2>7, Zenon
<1> QED
  BY <1>3, <1>6, Zenon DEF Hole

\* One step down.
LEMMA SpotStep ==
  ASSUME NEW heap, NEW T, NEW r, NEW h, Tree(heap, T, r, h), AllExact(heap, T, r),
         NEW c, Spells(heap, T, c), NEW a \in T, ~IsLeaf(heap, a),
         NEW i \in Slots, i < Width(heap, a), NEW k, k = Kid(Row(heap, a), i),
         NEW b, NEW o, Spot(heap, T, r, a, b, o)
  PROVE  Spot(heap, T, r, k, b + SumBelow(Bs(Row(heap, a)), i), o + SumBelow(Os(Row(heap, a)), i))
<1>1. PICK pre \in Strings, post \in Strings :
        Hole(heap, T, r, a, pre, post) /\ Len(pre) = b /\ CountOnes(pre) = o
  BY DEF Spot
<1>2. PICK S : S = Strand(heap, c, a)
  OBVIOUS
<1>3. i \in 0..(Width(heap, a) - 1) /\ S \in Strands
  <2>1. KidsIn(heap, a, T) /\ c \in [T -> Strings] /\ Width(heap, a) \in Nat
    BY ForestFields DEF Tree, Spells
  <2> QED  BY <1>2, <2>1, StrandType DEF Slots
<1>4. PICK P : P = Concat(S, i)
  OBVIOUS
<1>5. PICK Q : Frames(S, Width(heap, a), i, P, Q)
  <2>1. Width(heap, a) \in 0..(NodeSizeMax + 1)
    BY ForestFields DEF Tree
  <2> QED  BY <1>3, <1>4, <2>1, Framed
<1>6. P \in Strings /\ Q \in Strings /\ Hole(heap, T, r, k, pre \o P, Q \o post)
  <2>1. P \in Strings /\ Q \in Strings
    BY <1>5 DEF Frames
  <2>2. Hole(heap, T, r, k, pre \o P, Q \o post)
    BY <1>1, <1>2, <1>5, HoleOfKid, Zenon
  <2> QED  BY <2>1, <2>2
<1>7. /\ Heap(heap) /\ a \in DOMAIN heap /\ Width(heap, a) \in 0..(NodeSizeMax + 1)
      /\ KidsIn(heap, a, T) /\ c \in [T -> Strings]
  BY ForestFields DEF Tree, Spells
<1>8. Len(P) = SumBelow(Bs(Row(heap, a)), i) /\ CountOnes(P) = SumBelow(Os(Row(heap, a)), i)
  <2>1. Weighs(S, Width(heap, a), Bs(Row(heap, a)), Os(Row(heap, a)))
    <3>1. \A j \in Slots : j < Width(heap, a) => Kid(Row(heap, a), j) \in T
      BY <1>7 DEF KidsIn
    <3>2. \A m \in T : Len(c[m]) = Bits(heap, m) /\ CountOnes(c[m]) = OnesAt(heap, m)
      BY Weights
    <3>3. \A j \in Slots : j < Width(heap, a) =>
            /\ Len(c[Kid(Row(heap, a), j)]) = Bits(heap, Kid(Row(heap, a), j))
            /\ CountOnes(c[Kid(Row(heap, a), j)]) = OnesAt(heap, Kid(Row(heap, a), j))
      BY <3>1, <3>2
    <3> QED  BY <1>2, <3>3, StrandSums
  <2>2. Weighs(S, i, Bs(Row(heap, a)), Os(Row(heap, a)))
    BY <1>7, <2>1 DEF Weighs, Slots
  <2>3. S \in Strands /\ Bs(Row(heap, a)) \in Numbers /\ Os(Row(heap, a)) \in Numbers
    BY <1>3, <1>7, NamedAmounts
  <2>4. i \in 0..(NodeSizeMax + 1)
    BY SizesAssumption DEF Slots
  <2> QED  BY <1>4, <2>2, <2>3, <2>4, ConcatSums
<1>9. PICK pp : pp = pre \o P
  OBVIOUS
<1>10. PICK qq : qq = Q \o post
  OBVIOUS
<1>11. /\ pp \in Strings /\ qq \in Strings
       /\ Len(pp) = Len(pre) + Len(P) /\ CountOnes(pp) = CountOnes(pre) + CountOnes(P)
  BY <1>6, <1>9, <1>10, Glued
<1> QED
  BY <1>1, <1>6, <1>8, <1>9, <1>10, <1>11, Zenon DEF Spot

\* The sums on a path are those of the bits before the node it leads to.
LEMMA PathSpot ==
  ASSUME NEW heap, NEW T, NEW r, NEW h, Tree(heap, T, r, h), AllExact(heap, T, r),
         NEW c, Spells(heap, T, c), NEW p, PathIn(heap, T, r, h, p)
  PROVE  Spot(heap, T, r, EndOf(heap, r, p), SumsOf(p).b, SumsOf(p).o)
<1>1. Len(p) \in Nat /\ (Len(p) = 0 <=> p = <<>>)
  BY DEF PathIn
<1> DEFINE S == {i \in 0..Len(p) : Spot(heap, T, r, StopAt(heap, r, p, i + 1),
                                        SumsAbove(p, i + 1).b, SumsAbove(p, i + 1).o)}
<1>2. 0 \in S
  <2>1. StopAt(heap, r, p, 0 + 1) = r /\ SumsAbove(p, 0 + 1).b = 0 /\ SumsAbove(p, 0 + 1).o = 0
    BY DEF StopAt, SumsAbove, NoDelta
  <2>2. Spot(heap, T, r, r, 0, 0)
    BY SpotOfRoot
  <2> QED  BY <1>1, <2>1, <2>2
<1>3. ASSUME NEW i \in 0..(Len(p) - 1), i \in S PROVE i + 1 \in S
  <2>1. PICK j : j = i + 1
    OBVIOUS
  <2>2. j \in 1..Len(p) /\ j + 1 # 1 /\ (j + 1) - 1 = j
    BY <1>1, <2>1
  <2>3. PICK m, x : m = StopAt(heap, r, p, j) /\ x = SumsAbove(p, j)
    OBVIOUS
  <2>4. Leads(heap, T, p[j], m, x)
    BY <2>2, <2>3 DEF PathIn
  <2>5. Spot(heap, T, r, m, x.b, x.o)
    BY <1>3, <2>1, <2>3
  <2>6. PICK e : e = p[j]
    OBVIOUS
  <2>7. /\ e.node = m /\ m \in T /\ ~IsLeaf(heap, m) /\ e.index \in Slots
        /\ e.index < Width(heap, m)
        /\ e.bitsBefore = x.b + SumBelow(Bs(Row(heap, m)), e.index)
        /\ e.onesBefore = x.o + SumBelow(Os(Row(heap, m)), e.index)
    BY <2>4, <2>6 DEF Leads
  <2>8. Spot(heap, T, r, Kid(Row(heap, m), e.index), e.bitsBefore, e.onesBefore)
    <3>1. PICK k : k = Kid(Row(heap, m), e.index)
      OBVIOUS
    <3>2. Spot(heap, T, r, k, x.b + SumBelow(Bs(Row(heap, m)), e.index),
                             x.o + SumBelow(Os(Row(heap, m)), e.index))
      BY <2>5, <2>7, <3>1, SpotStep
    <3> QED  BY <2>7, <3>1, <3>2
  <2>9. /\ StopAt(heap, r, p, j + 1) = Kid(Row(heap, m), e.index)
        /\ SumsAbove(p, j + 1).b = e.bitsBefore /\ SumsAbove(p, j + 1).o = e.onesBefore
    BY <2>2, <2>6, <2>7 DEF StopAt, SumsAbove
  <2>10. j \in S
    BY <2>2, <2>8, <2>9
  <2> QED  BY <2>1, <2>10
<1> HIDE DEF S
<1>4. Len(p) \in S
  <2>1. \A i \in 0..Len(p) : i \in S
    BY <1>1, <1>2, <1>3, UpTo
  <2> QED  BY <1>1, <2>1
<1>5. Spot(heap, T, r, StopAt(heap, r, p, Len(p) + 1), SumsAbove(p, Len(p) + 1).b,
           SumsAbove(p, Len(p) + 1).o)
  BY <1>4 DEF S
<1>6. CASE p = <<>>
  <2>1. Len(p) + 1 = 1 /\ EndOf(heap, r, p) = r /\ SumsOf(p) = NoDelta
    BY <1>1, <1>6 DEF EndOf, SumsOf
  <2>2. StopAt(heap, r, p, Len(p) + 1) = r /\ SumsAbove(p, Len(p) + 1) = NoDelta
    BY <2>1 DEF StopAt, SumsAbove
  <2> QED  BY <1>5, <2>1, <2>2
<1>7. CASE p # <<>>
  <2>1. Len(p) + 1 # 1 /\ (Len(p) + 1) - 1 = Len(p)
    BY <1>1, <1>7
  <2>2. StopAt(heap, r, p, Len(p) + 1) = EndOf(heap, r, p)
        /\ SumsAbove(p, Len(p) + 1) = SumsOf(p)
    BY <1>7, <2>1 DEF StopAt, SumsAbove, EndOf, SumsOf
  <2> QED  BY <1>5, <2>2
<1> QED
  BY <1>6, <1>7

-----------------------------------------------------------------------------
(* What the changes of the nodes make of what they spell.                  *)

\* The children of the nodes of a tree are in the tree.
LEMMA TreeKids ==
  ASSUME NEW heap, NEW T, NEW r, NEW h, Tree(heap, T, r, h)
  PROVE  \A m \in T : KidsIn(heap, m, T)
  BY TreeKid DEF KidsIn

\* What is spelt by every node of a tree is what the tree contains.
LEMMA TreeSpells ==
  ASSUME NEW heap, NEW T, NEW r, NEW h, Tree(heap, T, r, h),
         NEW d \in [T -> Strings], \A m \in T : d[m] = Spelt(heap, d, m)
  PROVE  Spells(heap, T, d) /\ BitsIn(heap)[r] = d[r]
<1>1. Spells(heap, T, d)
  BY TreeKids DEF Spells
<1> QED
  BY <1>1, SpeltBits

\* A node that keeps its bits and its children spells the same.
LEMMA SpeltSame ==
  ASSUME NEW heap, NEW H, NEW m, SameNode(heap, H, m), NEW c
  PROVE  /\ Spelt(H, c, m) = Spelt(heap, c, m)
         /\ Width(H, m) = Width(heap, m) /\ Strand(H, c, m) = Strand(heap, c, m)
         /\ IsLeaf(H, m) = IsLeaf(heap, m)
<1>1. /\ IsLeaf(H, m) = IsLeaf(heap, m) /\ Bv(H, m) = Bv(heap, m)
      /\ Width(H, m) = Width(heap, m)
      /\ \A i \in Slots : Kid(Row(H, m), i) = Kid(Row(heap, m), i)
  BY DEF SameNode, SameKids
<1>2. Strand(H, c, m) = Strand(heap, c, m)
  BY <1>1 DEF Strand
<1> QED
  BY <1>1, <1>2 DEF Spelt

\* The vector s is x, after pre and before post.
Surrounds(s, pre, x, post) == s = pre \o (x \o post)

\* Leaf a of H holds bv; the other nodes are what they were.
Rewritten(heap, H, T, a, bv) ==
  /\ IsLeaf(heap, a) /\ IsLeaf(H, a) /\ Bv(H, a) = bv
  /\ \A m \in T : m # a => SameNode(heap, H, m)

\* With other bits in a leaf the tree contains them where the old ones were.
LEMMA LeafSpells ==
  ASSUME NEW heap, NEW T, NEW r, NEW a \in T, NEW pre, NEW post, Hole(heap, T, r, a, pre, post),
         NEW bv \in Strings, NEW H, NEW h, Tree(H, T, r, h), Rewritten(heap, H, T, a, bv)
  PROVE  (\E d : Spells(H, T, d)) /\ Surrounds(BitsIn(H)[r], pre, bv, post)
<1>1. PICK d \in [T -> Strings] : /\ d[a] = bv /\ d[r] = pre \o (bv \o post)
                                  /\ \A m \in T : m # a => d[m] = Spelt(heap, d, m)
  BY DEF Hole
<1>2. ASSUME NEW m \in T PROVE d[m] = Spelt(H, d, m)
  <2>1. CASE m = a
    BY <1>1, <2>1 DEF Spelt, Rewritten
  <2>2. CASE m # a
    <3>1. SameNode(heap, H, m)
      BY <2>2 DEF Rewritten
    <3>2. Spelt(H, d, m) = Spelt(heap, d, m)
      BY <3>1, SpeltSame
    <3> QED  BY <1>1, <2>2, <3>2
  <2> QED  BY <2>1, <2>2
<1>3. Spells(H, T, d) /\ BitsIn(H)[r] = d[r]
  BY <1>2, TreeSpells
<1>4. Surrounds(BitsIn(H)[r], pre, bv, post)
  BY <1>1, <1>3, Zenon DEF Surrounds
<1> QED
  BY <1>3, <1>4, Zenon

\* Two pairs of strings that joined are the same.
SameJoin(x, y, u, v) == x \o y = u \o v

\* Two neighbours spell something else, but together the same.
LEMMA PairSpells ==
  ASSUME NEW A, NEW B, NEW T, NEW r, NEW h, Tree(A, T, r, h), Tree(B, T, r, h),
         NEW c, Spells(A, T, c), NEW p \in T, ~IsLeaf(A, p),
         NEW i \in Slots, NEW j \in Slots, j = i + 1, j < Width(A, p),
         NEW a, a = Kid(Row(A, p), i), NEW b, b = Kid(Row(A, p), j),
         \A m \in T : m # a /\ m # b => SameNode(A, B, m),
         NEW x \in Strings, x = Spelt(B, c, a), NEW y \in Strings, y = Spelt(B, c, b),
         SameJoin(x, y, c[a], c[b])
  PROVE  (\E d : Spells(B, T, d)) /\ BitsIn(B)[r] = c[r]
<1>1. c \in [T -> Strings] /\ \A m \in T : c[m] = Spelt(A, c, m) /\ KidsIn(A, m, T)
  BY DEF Spells
<1>2. i < Width(A, p) /\ i # j
  <2>1. Width(A, p) \in Nat
    BY ForestFields DEF Tree
  <2> QED  BY <2>1 DEF Slots
<1>3. /\ a \in T /\ a # r /\ a # p /\ Up(A, a) = p /\ Index(A, a) = i
      /\ b \in T /\ b # r /\ b # p /\ Up(A, b) = p /\ Index(A, b) = j
  BY <1>2, TreeKid
<1>4. a # b /\ SameNode(A, B, p)
  BY <1>2, <1>3
<1>5. /\ ~IsLeaf(B, p) /\ Width(B, p) = Width(A, p)
      /\ Kid(Row(B, p), i) = a /\ Kid(Row(B, p), j) = b
  BY <1>4 DEF SameNode, SameKids
<1>6. Up(B, a) = p /\ Up(B, b) = p
  BY <1>2, <1>5, TreeKid
<1>7. PICK d0 : d0 = [c EXCEPT ![a] = x]
  OBVIOUS
<1>8. PICK d : d = [d0 EXCEPT ![b] = y]
  OBVIOUS
<1>9. /\ d0 \in [T -> Strings] /\ \A m \in T : m # a => d0[m] = c[m]
      /\ d \in [T -> Strings] /\ \A m \in T : m # b => d[m] = d0[m]
      /\ d[a] = x /\ d[b] = y /\ r \in T
  BY <1>1, <1>3, <1>4, <1>7, <1>8 DEF Tree
<1>10. ASSUME NEW m \in T, m # p PROVE Spelt(B, d, m) = Spelt(B, c, m)
  <2>1. Spelt(B, d0, m) = Spelt(B, c, m)
    BY <1>3, <1>6, <1>9, <1>10, OtherwiseSpelt
  <2>2. Spelt(B, d, m) = Spelt(B, d0, m)
    BY <1>3, <1>6, <1>9, <1>10, OtherwiseSpelt
  <2> QED  BY <2>1, <2>2
<1>11. Spelt(B, d, p) = c[p]
  <2>1. PICK f : f = Strand(A, c, p)
    OBVIOUS
  <2>2. PICK g : g = Strand(B, d, p)
    OBVIOUS
  <2>3. f \in Strands /\ g \in Strands
    <3>1. KidsIn(B, p, T)
      BY TreeKids
    <3> QED  BY <1>1, <1>5, <1>9, <2>1, <2>2, <3>1, StrandType
  <2>4. g = Strand(A, d, p)
    BY <1>4, <2>2, SpeltSame
  <2>5. f[i] = c[a] /\ f[j] = c[b] /\ g[i] = x /\ g[j] = y
    BY <1>2, <1>9, <2>1, <2>4 DEF Strand
  <2>6. Width(A, p) \in 0..(NodeSizeMax + 1) /\ i \in Nat
    BY ForestFields DEF Tree, Slots
  <2>7. ASSUME NEW k \in 0..(Width(A, p) - 1), k # i, k # j PROVE g[k] = f[k]
    <3>1. k \in Slots /\ k < Width(A, p)
      BY <2>6, SizesAssumption DEF Slots
    <3>2. PICK q : q = Kid(Row(A, p), k)
      OBVIOUS
    <3>3. q \in T /\ Index(A, q) = k
      BY <3>1, <3>2, TreeKid
    <3>4. d[q] = c[q]
      BY <1>3, <1>9, <2>7, <3>3
    <3> QED  BY <2>1, <2>4, <3>1, <3>2, <3>4 DEF Strand
  <2>8. g[i] \o g[j] = f[i] \o f[j]
    BY <2>5, Zenon DEF SameJoin
  <2>9. Concat(g, Width(A, p)) = Concat(f, Width(A, p))
    BY <2>3, <2>6, <2>7, <2>8, PairKept, Zenon
  <2>10. c[p] = Concat(f, Width(A, p)) /\ Spelt(B, d, p) = Concat(g, Width(A, p))
    BY <1>1, <1>5, <2>1, <2>2 DEF Spelt
  <2> QED  BY <2>9, <2>10
<1>12. ASSUME NEW m \in T PROVE d[m] = Spelt(B, d, m)
  <2>1. CASE m = p
    BY <1>3, <1>9, <1>11, <2>1
  <2>2. CASE m = a
    BY <1>3, <1>9, <1>10, <2>2
  <2>3. CASE m = b
    BY <1>3, <1>9, <1>10, <2>3
  <2>4. CASE m # p /\ m # a /\ m # b
    <3>1. Spelt(B, c, m) = Spelt(A, c, m)
      BY <2>4, SpeltSame
    <3> QED  BY <1>1, <1>9, <1>10, <2>4, <3>1
  <2> QED  BY <2>1, <2>2, <2>3, <2>4
<1>13. Spells(B, T, d) /\ BitsIn(B)[r] = d[r]
  BY <1>9, <1>12, TreeSpells
<1>14. d[r] = c[r]
  BY <1>3, <1>9
<1> QED
  BY <1>13, <1>14

\* The first of k strands, and then the n of g; or those and then the last.
FirstThen(f, k, g, n) == Concat(f, k) = f[0] \o Concat(g, n)
ThenLast(f, k, g, n) == Concat(f, k) = Concat(g, n) \o f[n]

\* A sequence of strands by the first.
LEMMA FirstStrand ==
  ASSUME NEW f \in Strands, NEW g \in Strands, NEW n \in Slots,
         NEW k, k = n + 1, \A i \in 0..(n - 1) : g[i] = f[i + 1]
  PROVE  FirstThen(f, k, g, n)
<1>1. /\ k \in 0..(NodeSizeMax + 1) /\ 1 \in 0..k /\ k - 1 = n /\ n \in 0..(NodeSizeMax + 1)
  BY SizesAssumption DEF Slots
<1>2. Concat(f, k) = Concat(f, 1) \o Concat(After(f, 1), n) /\ After(f, 1) \in Strands
  BY <1>1, CutConcat
<1>3. Concat(f, 1) = f[0] /\ f[0] \in Strings
  BY ConcatOfOne
<1>4. ASSUME NEW i \in 0..(n - 1) PROVE After(f, 1)[i] = g[i]
  BY <1>1, SizesAssumption DEF After, Slots
<1>5. Concat(After(f, 1), n) = Concat(g, n)
  BY <1>1, <1>2, <1>4, SameConcat
<1> QED
  BY <1>2, <1>3, <1>5, Zenon DEF FirstThen

\* The same by the last.
LEMMA LastStrand ==
  ASSUME NEW f \in Strands, NEW g \in Strands, NEW n \in Slots,
         NEW k, k = n + 1, \A i \in 0..(n - 1) : g[i] = f[i]
  PROVE  ThenLast(f, k, g, n)
<1>1. n \in 0..(NodeSizeMax + 1)
  BY SizesAssumption DEF Slots
<1>2. Concat(f, k) = Concat(f, n) \o f[n] /\ f[n] \in Strings
  BY Concats DEF Strands
<1>3. Concat(f, n) = Concat(g, n)
  BY <1>1, SameConcat
<1> QED
  BY <1>2, <1>3, Zenon DEF ThenLast

\* What n has lost at its beginning, or its end, s has got.
LostFirst(a, b, x, y) ==
  \E e \in Strings : x \in Strings /\ y \in Strings /\ a = e \o x /\ y = b \o e
LostLast(a, b, x, y) ==
  \E e \in Strings : x \in Strings /\ y \in Strings /\ a = x \o e /\ y = e \o b

\* A child that has moved from n to s: what n has lost, and what s has got.
LEMMA MovedKidSpelt ==
  ASSUME NEW A, NEW B, NEW T, NEW r, NEW h, Tree(A, T, r, h), Tree(B, T, r, h),
         NEW c, Spells(A, T, c), NEW n \in T, ~IsLeaf(A, n), NEW s \in T, ~IsLeaf(A, s),
         NEW j, NEW k, MovedKid(A, B, T, n, s, j, k),
         NEW x, x = Spelt(B, c, n), NEW y, y = Spelt(B, c, s),
         \/ j = 0 /\ k = Width(A, s)
         \/ j = Width(A, n) - 1 /\ k = 0
  PROVE  /\ j = 0 /\ k = Width(A, s) => LostFirst(c[n], c[s], x, y)
         /\ j = Width(A, n) - 1 /\ k = 0 => LostLast(c[n], c[s], x, y)
<1>1. c \in [T -> Strings] /\ \A m \in T : c[m] = Spelt(A, c, m) /\ KidsIn(A, m, T)
  BY DEF Spells
<1>2. \A m \in T : KidsIn(B, m, T)
  BY TreeKids
<1>3. /\ ~IsLeaf(B, n) /\ ~IsLeaf(B, s) /\ Kid(Row(B, s), k) = Kid(Row(A, n), j)
      /\ Width(B, n) = Width(A, n) - 1 /\ Width(B, s) = Width(A, s) + 1
  BY DEF MovedKid
<1>4. /\ Width(A, n) \in 0..(NodeSizeMax + 1) /\ Width(A, s) \in 0..(NodeSizeMax + 1)
      /\ Width(B, n) \in 0..(NodeSizeMax + 1) /\ Width(B, s) \in 0..(NodeSizeMax + 1)
  BY ForestFields DEF Tree
<1>5. Width(B, n) \in Slots /\ Width(A, s) \in Slots /\ j \in Slots /\ k \in Slots
  BY <1>3, <1>4, SizesAssumption DEF Slots
<1>6. PICK f, g, u, v : /\ f = Strand(A, c, n) /\ g = Strand(B, c, n)
                        /\ u = Strand(A, c, s) /\ v = Strand(B, c, s)
  OBVIOUS
<1>7. f \in Strands /\ g \in Strands /\ u \in Strands /\ v \in Strands
  BY <1>1, <1>2, <1>3, <1>6, StrandType
<1>8. /\ c[n] = Concat(f, Width(A, n)) /\ x = Concat(g, Width(B, n))
      /\ c[s] = Concat(u, Width(A, s)) /\ y = Concat(v, Width(B, s))
  BY <1>1, <1>3, <1>6 DEF Spelt
<1>9. v[k] = f[j]
  BY <1>3, <1>4, <1>5, <1>6 DEF Strand, Slots
<1>10. ASSUME NEW i \in Slots
       PROVE  /\ i < j => Kid(Row(B, n), i) = Kid(Row(A, n), i)
              /\ j <= i /\ i < Width(B, n) => Kid(Row(B, n), i) = Kid(Row(A, n), i + 1)
              /\ i < k => Kid(Row(B, s), i) = Kid(Row(A, s), i)
              /\ k + 1 <= i /\ i < Width(B, s) => Kid(Row(B, s), i) = Kid(Row(A, s), i - 1)
  <2>1. /\ i \in Nat /\ j \in Nat /\ k \in Nat /\ 0 <= i /\ (i - 0) + 0 = i
        /\ (i - j) + (j + 1) = i + 1 /\ (i - (k + 1)) + k = i - 1
    BY <1>5 DEF Slots
  <2>2. /\ Carries(Row(B, n), 0, j, Row(A, n), 0)
        /\ Carries(Row(B, n), j, Width(B, n), Row(A, n), j + 1)
        /\ Carries(Row(B, s), 0, k, Row(A, s), 0)
        /\ Carries(Row(B, s), k + 1, Width(B, s), Row(A, s), k)
    BY DEF MovedKid
  <2>3. /\ i < j => Kid(Row(B, n), i) = Kid(Row(A, n), (i - 0) + 0)
        /\ j <= i /\ i < Width(B, n) => Kid(Row(B, n), i) = Kid(Row(A, n), (i - j) + (j + 1))
        /\ i < k => Kid(Row(B, s), i) = Kid(Row(A, s), (i - 0) + 0)
        /\ k + 1 <= i /\ i < Width(B, s) => Kid(Row(B, s), i) = Kid(Row(A, s), (i - (k + 1)) + k)
    BY <2>1, <2>2 DEF Carries
  <2> QED  BY <2>1, <2>3
<1>11. x \in Strings /\ y \in Strings /\ f[j] \in Strings
  BY <1>4, <1>5, <1>7, <1>8, Concats DEF Strands
<1>12. CASE j = 0 /\ k = Width(A, s)
  <2>1. \A i \in 0..(Width(B, n) - 1) : g[i] = f[i + 1]
    BY <1>3, <1>4, <1>6, <1>10, <1>12, SizesAssumption DEF Strand, Slots
  <2>2. c[n] = f[0] \o x
    <3>1. Width(A, n) = Width(B, n) + 1
      BY <1>3, <1>4
    <3>2. FirstThen(f, Width(A, n), g, Width(B, n))
      BY <1>5, <1>7, <2>1, <3>1, FirstStrand
    <3> QED  BY <1>8, <3>2, Zenon DEF FirstThen
  <2>3. \A i \in 0..(Width(A, s) - 1) : u[i] = v[i]
    BY <1>3, <1>4, <1>6, <1>10, <1>12, SizesAssumption DEF Strand, Slots
  <2>4. y = c[s] \o f[0]
    <3>1. ThenLast(v, Width(B, s), u, Width(A, s))
      BY <1>3, <1>5, <1>7, <2>3, LastStrand
    <3> QED  BY <1>8, <1>9, <1>12, <3>1, Zenon DEF ThenLast
  <2>5. j = Width(A, n) - 1 /\ k = 0 => c[n] = x \o f[0] /\ y = f[0] \o c[s]
    <3>1. SUFFICES ASSUME j = Width(A, n) - 1, k = 0
                   PROVE  c[n] = x \o f[0] /\ y = f[0] \o c[s]
      OBVIOUS
    <3>2. Width(B, n) = 0 /\ Width(A, s) = 0
      BY <1>3, <1>4, <1>12, <3>1
    <3>3. x = <<>> /\ c[s] = <<>>
      BY <1>7, <1>8, <3>2, Concats
    <3>4. <<>> \o f[0] = f[0] /\ f[0] \o <<>> = f[0]
      BY <1>11, <1>12, Joins
    <3> QED  BY <2>2, <2>4, <3>3, <3>4, Zenon
  <2> QED  BY <1>11, <1>12, <2>2, <2>4, <2>5, Zenon DEF LostFirst, LostLast
<1>13. CASE j = Width(A, n) - 1 /\ k = 0 /\ ~(j = 0 /\ k = Width(A, s))
  <2>1. \A i \in 0..(Width(B, n) - 1) : g[i] = f[i]
    BY <1>3, <1>4, <1>6, <1>10, <1>13, SizesAssumption DEF Strand, Slots
  <2>2. c[n] = x \o f[j]
    <3>1. Width(A, n) = Width(B, n) + 1 /\ Width(B, n) = j
      BY <1>3, <1>4, <1>13
    <3>2. ThenLast(f, Width(A, n), g, Width(B, n))
      BY <1>5, <1>7, <2>1, <3>1, LastStrand
    <3> QED  BY <1>8, <3>1, <3>2, Zenon DEF ThenLast
  <2>3. \A i \in 0..(Width(A, s) - 1) : u[i] = v[i + 1]
    <3>1. ASSUME NEW i \in 0..(Width(A, s) - 1) PROVE u[i] = v[i + 1]
      <4>1. i \in Slots /\ i + 1 \in Slots /\ i < Width(A, s) /\ i + 1 < Width(B, s)
            /\ (i + 1) - 1 = i /\ k + 1 <= i + 1
        BY <1>3, <1>4, <1>13, SizesAssumption DEF Slots
      <4>2. Kid(Row(B, s), i + 1) = Kid(Row(A, s), i)
        BY <1>10, <4>1
      <4> QED  BY <1>6, <4>1, <4>2 DEF Strand
    <3> QED  BY <3>1
  <2>4. y = f[j] \o c[s]
    <3>1. FirstThen(v, Width(B, s), u, Width(A, s))
      BY <1>3, <1>5, <1>7, <2>3, FirstStrand
    <3> QED  BY <1>8, <1>9, <1>13, <3>1, Zenon DEF FirstThen
  <2> QED  BY <1>11, <1>13, <2>2, <2>4, Zenon DEF LostFirst, LostLast
<1> QED
  BY <1>12, <1>13, Zenon

\* The tree of B contains what the tree of A does, when its nodes spell something.
Kept(A, T, r, B, U, q) ==
  (\E c : Spells(A, T, c)) => (\E d : Spells(B, U, d)) /\ BitsIn(B)[q] = BitsIn(A)[r]

\* The bits of n and s, when the first block of n has become the last of s,
\* or the last of n the first of s.
LEMMA MovedBlockSpelt ==
  ASSUME NEW b \in Strings, NEW a \in Strings, NEW k \in 0..Len(b)
  PROVE  /\ a \o Prefix(b, k) \in Strings /\ Suffix(b, k) \in Strings
         /\ (a \o Prefix(b, k)) \o Suffix(b, k) = a \o b
         /\ Suffix(b, k) \o a \in Strings /\ Prefix(b, k) \in Strings
         /\ Prefix(b, k) \o (Suffix(b, k) \o a) = b \o a
<1>1. PICK u, v : u = Prefix(b, k) /\ v = Suffix(b, k)
  OBVIOUS
<1>2. u \in Strings /\ v \in Strings
  BY <1>1, PrefixSuffix DEF Strings
<1>3. u \o v = b
  BY <1>1, PrefixSuffix, Zenon DEF Strings
<1>4. a \o u \in Strings /\ v \o a \in Strings
  BY <1>2, Joins, ZenonT(40)
<1>5. (a \o u) \o v = a \o b
  <2>1. (a \o u) \o v = a \o (u \o v)
    BY <1>2, Joins, ZenonT(40)
  <2> QED  BY <1>3, <2>1, Zenon
<1>6. u \o (v \o a) = b \o a
  <2>1. (u \o v) \o a = u \o (v \o a)
    BY <1>2, Joins, ZenonT(40)
  <2> QED  BY <1>3, <2>1, Zenon
<1> QED
  BY <1>1, <1>2, <1>4, <1>5, <1>6, Zenon

\* n has given s something: they spell the same together, s before n when left.
GivenAs(A, B, T, c, n, s, left) ==
  \E x, y \in Strings :
    /\ x = Spelt(B, c, n) /\ y = Spelt(B, c, s)
    /\ left => y \o x = c[s] \o c[n]
    /\ ~left => x \o y = c[n] \o c[s]
    /\ \A m \in T : m # n /\ m # s => SameNode(A, B, m)

\* What n and s spell together, n giving to the left or to the right.
LEMMA GivenSpelt ==
  ASSUME NEW A, NEW B, NEW T, NEW r, NEW h, Tree(A, T, r, h), Tree(B, T, r, h),
         NEW c, Spells(A, T, c), NEW n \in T, NEW s \in T, IsLeaf(A, s) = IsLeaf(A, n),
         NEW left \in BOOLEAN,
         IF left THEN GivenLeft(A, B, T, n, s) ELSE GivenRight(A, B, T, n, s)
  PROVE  GivenAs(A, B, T, c, n, s, left)
<1>1. c \in [T -> Strings] /\ \A m \in T : c[m] = Spelt(A, c, m)
  BY DEF Spells
<1>2. PICK x, y : x = Spelt(B, c, n) /\ y = Spelt(B, c, s)
  OBVIOUS
<1>3. CASE IsLeaf(A, n)
  <2>1. PICK b, a : b = Bv(A, n) /\ a = Bv(A, s)
    OBVIOUS
  <2>2. c[n] = b /\ c[s] = a /\ b \in Strings /\ a \in Strings
    BY <1>1, <1>3, <2>1 DEF Spelt
  <2>3. CASE left
    <3>1. HoldsBlock(b) /\ MovedBits(A, B, T, n, s, Suffix(b, BlockSize), a \o Prefix(b, BlockSize))
      BY <1>3, <2>1, <2>3 DEF GivenLeft
    <3>2. BlockSize \in 0..Len(b)
      BY <2>2, <3>1, SizesAssumption DEF HoldsBlock, Strings
    <3>3. /\ \A m \in T : m # n /\ m # s => SameNode(A, B, m)
          /\ x = Suffix(b, BlockSize) /\ y = a \o Prefix(b, BlockSize)
      BY <1>2, <3>1 DEF MovedBits, Spelt
    <3>4. x \in Strings /\ y \in Strings /\ y \o x = a \o b
      BY <2>2, <3>2, <3>3, MovedBlockSpelt, Zenon
    <3> QED  BY <1>2, <2>2, <2>3, <3>3, <3>4, Zenon DEF GivenAs
  <2>4. CASE ~left
    <3>0. PICK k : k = Len(b) - BlockSize
      OBVIOUS
    <3>1. HoldsBlock(b) /\ MovedBits(A, B, T, n, s, Prefix(b, k), Suffix(b, k) \o a)
      BY <1>3, <2>1, <2>4, <3>0 DEF GivenRight
    <3>2. k \in 0..Len(b)
      BY <2>2, <3>0, <3>1, SizesAssumption DEF HoldsBlock, Strings
    <3>3. /\ \A m \in T : m # n /\ m # s => SameNode(A, B, m)
          /\ x = Prefix(b, k) /\ y = Suffix(b, k) \o a
      BY <1>2, <3>1 DEF MovedBits, Spelt
    <3>4. x \in Strings /\ y \in Strings /\ x \o y = b \o a
      BY <2>2, <3>2, <3>3, MovedBlockSpelt, Zenon
    <3> QED  BY <1>2, <2>2, <2>4, <3>3, <3>4, Zenon DEF GivenAs
  <2> QED  BY <2>3, <2>4
<1>4. CASE ~IsLeaf(A, n)
  <2>1. c[n] \in Strings /\ c[s] \in Strings
    BY <1>1
  <2>2. CASE left
    <3>1. MovedKid(A, B, T, n, s, 0, Width(A, s))
      BY <1>4, <2>2 DEF GivenLeft
    <3>2. PICK e \in Strings : x \in Strings /\ y \in Strings /\ c[n] = e \o x /\ y = c[s] \o e
      <4>1. LostFirst(c[n], c[s], x, y)
        BY <1>2, <1>4, <3>1, MovedKidSpelt
      <4> QED  BY <4>1, Zenon DEF LostFirst
    <3>3. (c[s] \o e) \o x = c[s] \o (e \o x)
      BY <2>1, <3>2, Joins, ZenonT(40)
    <3>4. y \o x = c[s] \o c[n]
      BY <3>2, <3>3, Zenon
    <3>5. \A m \in T : m # n /\ m # s => SameNode(A, B, m)
      BY <3>1 DEF MovedKid
    <3> QED  BY <1>2, <2>2, <3>2, <3>4, <3>5, Zenon DEF GivenAs
  <2>3. CASE ~left
    <3>1. MovedKid(A, B, T, n, s, Width(A, n) - 1, 0)
      BY <1>4, <2>3 DEF GivenRight
    <3>2. PICK e \in Strings : x \in Strings /\ y \in Strings /\ c[n] = x \o e /\ y = e \o c[s]
      <4>1. LostLast(c[n], c[s], x, y)
        BY <1>2, <1>4, <3>1, MovedKidSpelt
      <4> QED  BY <4>1, Zenon DEF LostLast
    <3>3. (x \o e) \o c[s] = x \o (e \o c[s])
      BY <2>1, <3>2, Joins, ZenonT(40)
    <3>4. x \o y = c[n] \o c[s]
      BY <3>2, <3>3, Zenon
    <3>5. \A m \in T : m # n /\ m # s => SameNode(A, B, m)
      BY <3>1 DEF MovedKid
    <3> QED  BY <1>2, <2>3, <3>2, <3>4, <3>5, Zenon DEF GivenAs
  <2> QED  BY <2>2, <2>3
<1> QED
  BY <1>3, <1>4

\* moveLeft keeps what the tree contains.
LEMMA LeftKept ==
  ASSUME NEW A, NEW T, NEW r, NEW h, Tree(A, T, r, h), NEW n \in T, n # r,
         NEW i \in Slots, i = Index(A, n) - 1, NEW s, s = Kid(Row(A, Up(A, n)), i),
         CanMove(A, n, s), NEW B, B = MoveLeft(A, n), Tree(B, T, r, h)
  PROVE  Kept(A, T, r, B, T, r)
<1>1. PICK p, j : p = Up(A, n) /\ j = Index(A, n)
  OBVIOUS
<1>2. /\ p \in T /\ ~IsLeaf(A, p) /\ j \in Slots /\ j < Width(A, p) /\ Kid(Row(A, p), j) = n
  BY <1>1, TreeUp
<1>3. Width(A, p) \in Nat /\ j = i + 1 /\ i < Width(A, p) /\ i # j
  <2>1. Width(A, p) \in Nat
    BY <1>2, ForestFields DEF Tree
  <2> QED  BY <1>1, <1>2, <2>1 DEF Slots
<1>4. PICK R, N : R = {r} /\ N = {}
  OBVIOUS
<1>5. Neighbours(A, T, R, N, n, s) /\ s \in T /\ Index(A, s) = i /\ IsLeaf(A, s) = IsLeaf(A, n)
  BY <1>1, <1>3, <1>4, TreeSide
<1>6. GivenLeft(A, B, T, n, s)
  <2>1. Forest(A, T, R, N, h) /\ AllWhole(A, T)
    BY <1>4 DEF Tree
  <2>2. Index(A, s) = Index(A, n) - 1
    BY <1>5
  <2> QED  BY <1>5, <2>1, <2>2, MoveLeftForest
<1>7. ASSUME NEW c, Spells(A, T, c) PROVE (\E d : Spells(B, T, d)) /\ BitsIn(B)[r] = c[r]
  <2>1. PICK x, y \in Strings : /\ x = Spelt(B, c, n) /\ y = Spelt(B, c, s)
                                /\ SameJoin(y, x, c[s], c[n])
                                /\ \A m \in T : m # n /\ m # s => SameNode(A, B, m)
    <3>1. GivenAs(A, B, T, c, n, s, TRUE)
      BY <1>5, <1>6, <1>7, GivenSpelt
    <3> QED  BY <3>1, Zenon DEF GivenAs, SameJoin
  <2>2. s = Kid(Row(A, p), i)
    BY <1>1
  <2> QED  BY <1>2, <1>3, <1>7, <2>1, <2>2, PairSpells
<1>8. ASSUME NEW c, Spells(A, T, c)
      PROVE  (\E d : Spells(B, T, d)) /\ BitsIn(B)[r] = BitsIn(A)[r]
  <2>1. BitsIn(A)[r] = c[r]
    BY <1>8, SpeltBits
  <2> QED  BY <1>7, <1>8, <2>1
<1> QED
  BY <1>8, Zenon DEF Kept

\* moveRight does too.
LEMMA RightKept ==
  ASSUME NEW A, NEW T, NEW r, NEW h, Tree(A, T, r, h), NEW n \in T, n # r,
         NEW j \in Slots, j = Index(A, n) + 1, j < Width(A, Up(A, n)),
         NEW s, s = Kid(Row(A, Up(A, n)), j),
         CanMove(A, n, s), NEW B, B = MoveRight(A, n), Tree(B, T, r, h)
  PROVE  Kept(A, T, r, B, T, r)
<1>1. PICK p, i : p = Up(A, n) /\ i = Index(A, n)
  OBVIOUS
<1>2. /\ p \in T /\ ~IsLeaf(A, p) /\ i \in Slots /\ i < Width(A, p) /\ Kid(Row(A, p), i) = n
  BY <1>1, TreeUp
<1>3. j = i + 1 /\ i # j /\ j < Width(A, p)
  BY <1>1, <1>2 DEF Slots
<1>4. PICK R, N : R = {r} /\ N = {}
  OBVIOUS
<1>5. Neighbours(A, T, R, N, n, s) /\ s \in T /\ Index(A, s) = j /\ IsLeaf(A, s) = IsLeaf(A, n)
      /\ s # n
  BY <1>1, <1>3, <1>4, TreeSide
<1>6. GivenRight(A, B, T, n, s)
  <2>1. Forest(A, T, R, N, h) /\ AllWhole(A, T)
    BY <1>4 DEF Tree
  <2>2. Index(A, s) = Index(A, n) + 1
    BY <1>5
  <2> QED  BY <1>5, <2>1, <2>2, MoveRightForest
<1>7. ASSUME NEW c, Spells(A, T, c) PROVE (\E d : Spells(B, T, d)) /\ BitsIn(B)[r] = c[r]
  <2>1. PICK x, y \in Strings : /\ x = Spelt(B, c, n) /\ y = Spelt(B, c, s)
                                /\ SameJoin(x, y, c[n], c[s])
                                /\ \A m \in T : m # n /\ m # s => SameNode(A, B, m)
    <3>1. GivenAs(A, B, T, c, n, s, FALSE)
      BY <1>5, <1>6, <1>7, GivenSpelt
    <3> QED  BY <3>1, Zenon DEF GivenAs, SameJoin
  <2>2. s = Kid(Row(A, p), j)
    BY <1>1
  <2> QED  BY <1>2, <1>3, <1>7, <2>1, <2>2, PairSpells
<1>8. ASSUME NEW c, Spells(A, T, c)
      PROVE  (\E d : Spells(B, T, d)) /\ BitsIn(B)[r] = BitsIn(A)[r]
  <2>1. BitsIn(A)[r] = c[r]
    BY <1>8, SpeltBits
  <2> QED  BY <1>7, <1>8, <2>1
<1> QED
  BY <1>8, Zenon DEF Kept


\* A node that spells something has strings in its slots.
LEMMA SpeltType ==
  ASSUME NEW heap, NEW T, NEW r, NEW h, Tree(heap, T, r, h), NEW m \in T,
         NEW d \in [T -> Strings]
  PROVE  Spelt(heap, d, m) \in Strings
<1>1. /\ m \in DOMAIN heap /\ Heap(heap) /\ Width(heap, m) \in 0..(NodeSizeMax + 1)
      /\ Bv(heap, m) \in Strings
  <2>1. m \in DOMAIN heap /\ Heap(heap) /\ Width(heap, m) \in 0..(NodeSizeMax + 1)
    BY ForestFields DEF Tree
  <2> QED  BY <2>1, NamedAmounts DEF Strings
<1>2. CASE IsLeaf(heap, m)
  BY <1>1, <1>2 DEF Spelt
<1>3. CASE ~IsLeaf(heap, m)
  <2>1. PICK f : f = Strand(heap, d, m)
    OBVIOUS
  <2>2. f \in Strands
    <3>1. KidsIn(heap, m, T)
      BY TreeKids
    <3> QED  BY <1>3, <2>1, <3>1, StrandType
  <2>3. Concat(f, Width(heap, m)) \in Strings
    BY <1>1, <2>2, Concats
  <2> QED  BY <1>3, <2>1, <2>3 DEF Spelt
<1> QED
  BY <1>2, <1>3

\* A node that is cut in two spells what its parts do.
LEMMA PartedNode ==
  ASSUME NEW A, NEW T, NEW r, NEW h, Tree(A, T, r, h),
         NEW B, NEW U, NEW q, NEW g, Tree(B, U, q, g),
         NEW n \in T, n \in U, NEW s \in U, Together(A, B, n, s),
         NEW c \in [T -> Strings], NEW d \in [U -> Strings],
         \A m \in T : m # n => m \in U /\ d[m] = c[m]
  PROVE  IsJoin(Spelt(A, c, n), Spelt(B, d, n), Spelt(B, d, s))
<1>1. CASE IsLeaf(B, n)
  <2>1. IsLeaf(A, n) /\ IsLeaf(B, s) /\ Bv(A, n) = Bv(B, n) \o Bv(B, s)
    BY <1>1, Zenon DEF Together
  <2> QED  BY <1>1, <2>1, Zenon DEF Spelt, IsJoin
<1>2. CASE ~IsLeaf(B, n)
  <2>1. PICK w, u, v : w = Width(A, n) /\ u = Width(B, n) /\ v = Width(B, s)
    OBVIOUS
  <2>2. /\ ~IsLeaf(A, n) /\ ~IsLeaf(B, s) /\ w = u + v
        /\ KidsJoined(Row(A, n), Row(B, n), u, Row(B, s), v)
    BY <1>2, <2>1 DEF Together
  <2>3. w \in 0..(NodeSizeMax + 1) /\ u \in 0..(NodeSizeMax + 1) /\ v \in 0..(NodeSizeMax + 1)
    BY <2>1, ForestFields DEF Tree
  <2>4. PICK f, a, b : f = Strand(A, c, n) /\ a = Strand(B, d, n) /\ b = Strand(B, d, s)
    OBVIOUS
  <2>5. f \in Strands /\ a \in Strands /\ b \in Strands
    <3>1. KidsIn(A, n, T) /\ KidsIn(B, n, U) /\ KidsIn(B, s, U)
      BY TreeKids
    <3> QED  BY <1>2, <2>2, <2>4, <3>1, StrandType
  <2>6. ASSUME NEW i \in Slots, i < w PROVE f[i] = d[Kid(Row(A, n), i)]
    <3>1. PICK k : k = Kid(Row(A, n), i)
      OBVIOUS
    <3>2. k \in T /\ k # n
      <4>1. ~IsLeaf(A, n) /\ i < Width(A, n)
        BY <2>1, <2>2, <2>6
      <4> QED  BY <3>1, <4>1, TreeKid
    <3>3. f[i] = c[k]
      BY <2>1, <2>4, <2>6, <3>1 DEF Strand
    <3> QED  BY <3>1, <3>2, <3>3
  <2>7. ASSUME NEW i \in 0..(u - 1) PROVE a[i] = f[i]
    <3>1. i \in Slots /\ i < u /\ i < w
      BY <2>2, <2>3, SizesAssumption DEF Slots
    <3>2. Kid(Row(A, n), i) = Kid(Row(B, n), i)
      BY <2>2, <3>1 DEF KidsJoined
    <3>3. a[i] = d[Kid(Row(B, n), i)]
      BY <2>1, <2>4, <3>1 DEF Strand
    <3> QED  BY <2>6, <3>1, <3>2, <3>3
  <2>8. PICK e : e = After(f, u)
    OBVIOUS
  <2>9. ASSUME NEW i \in 0..(v - 1) PROVE b[i] = e[i]
    <3>1. i \in Slots /\ i < v /\ u + i < w /\ i + u = u + i
      BY <2>2, <2>3, SizesAssumption DEF Slots
    <3>2. u + i \in Slots /\ Kid(Row(A, n), u + i) = Kid(Row(B, s), i)
      BY <2>2, <3>1 DEF KidsJoined
    <3>3. b[i] = d[Kid(Row(B, s), i)]
      BY <2>1, <2>4, <3>1 DEF Strand
    <3>4. f[u + i] = d[Kid(Row(A, n), u + i)]
      BY <2>6, <3>1, <3>2
    <3>5. e[i] = f[u + i]
      BY <2>8, <3>1, <3>2 DEF After
    <3> QED  BY <3>2, <3>3, <3>4, <3>5
  <2>10. e \in Strands /\ Concat(f, w) = Concat(f, u) \o Concat(e, v)
    <3>1. u \in 0..w /\ w - u = v
      BY <2>2, <2>3
    <3>2. e \in Strands /\ Concat(f, w) = Concat(f, u) \o Concat(e, w - u)
      BY <2>3, <2>5, <2>8, <3>1, CutConcat, Zenon
    <3> QED  BY <3>1, <3>2, Zenon
  <2>11. Concat(a, u) = Concat(f, u)
    BY <2>3, <2>5, <2>7, SameConcat
  <2>12. Concat(b, v) = Concat(e, v)
    BY <2>3, <2>5, <2>9, <2>10, SameConcat, Zenon
  <2>13. /\ Spelt(A, c, n) = Concat(f, w) /\ Spelt(B, d, n) = Concat(a, u)
         /\ Spelt(B, d, s) = Concat(b, v)
    BY <1>2, <2>1, <2>2, <2>4 DEF Spelt
  <2> QED  BY <2>10, <2>11, <2>12, <2>13, Zenon DEF IsJoin
<1> QED
  BY <1>1, <1>2

\* Its parent spells the same before and after.
LEMMA PartedParent ==
  ASSUME NEW A, NEW T, NEW r, NEW h, Tree(A, T, r, h),
         NEW B, NEW U, NEW q, NEW g, Tree(B, U, q, g),
         NEW p \in T, p \in U, NEW n \in T, NEW s \in U, NEW i,
         Opened(A, B, p, i, s), Kid(Row(A, p), i) = n,
         NEW c \in [T -> Strings], NEW d \in [U -> Strings],
         \A m \in T : m # n => d[m] = c[m], IsJoin(c[n], d[n], d[s])
  PROVE  Spelt(B, d, p) = Spelt(A, c, p)
<1>1. PICK w, k, j : w = Width(A, p) /\ k = Width(B, p) /\ j = i + 1
  OBVIOUS
<1>2. /\ ~IsLeaf(A, p) /\ ~IsLeaf(B, p) /\ i \in Slots /\ i < w /\ k = w + 1
      /\ j \in Slots /\ Kid(Row(B, p), j) = s
      /\ \A m \in Slots :
           /\ m <= i => Kid(Row(B, p), m) = Kid(Row(A, p), m)
           /\ i < m /\ m < w => m + 1 \in Slots /\ Kid(Row(B, p), m + 1) = Kid(Row(A, p), m)
  BY <1>1 DEF Opened
<1>3. w \in Slots /\ k \in 0..(NodeSizeMax + 1) /\ i \in 0..(w - 1) /\ w \in 0..(NodeSizeMax + 1)
  <2>1. w \in 0..(NodeSizeMax + 1) /\ k \in 0..(NodeSizeMax + 1)
    BY <1>1, ForestFields DEF Tree
  <2> QED  BY <1>2, <2>1, SizesAssumption DEF Slots
<1>4. PICK f, e : f = Strand(A, c, p) /\ e = Strand(B, d, p)
  OBVIOUS
<1>5. f \in Strands /\ e \in Strands
  <2>1. KidsIn(A, p, T) /\ KidsIn(B, p, U)
    BY TreeKids
  <2> QED  BY <1>2, <1>4, <2>1, StrandType
<1>6. ASSUME NEW m \in Slots, m < w, m # i PROVE f[m] = d[Kid(Row(A, p), m)]
  <2>1. PICK x : x = Kid(Row(A, p), m)
    OBVIOUS
  <2>2. x \in T /\ Index(A, x) = m
    BY <1>1, <1>2, <1>6, <2>1, TreeKid
  <2>3. Index(A, n) = i
    BY <1>1, <1>2, TreeKid
  <2>4. f[m] = c[x]
    BY <1>1, <1>4, <1>6, <2>1 DEF Strand
  <2> QED  BY <1>6, <2>1, <2>2, <2>3, <2>4
<1>7. f[i] = c[n] /\ e[i] = d[n] /\ e[j] = d[s]
  <2>1. i < k /\ j < k /\ i <= i
    BY <1>1, <1>2, <1>3 DEF Slots
  <2> QED  BY <1>1, <1>2, <1>4, <2>1 DEF Strand
<1>8. ASSUME NEW m \in 0..(i - 1) PROVE e[m] = f[m]
  <2>1. m \in Slots /\ m <= i /\ m # i /\ m < w /\ m < k
    BY <1>2, <1>3, SizesAssumption DEF Slots
  <2>2. e[m] = d[Kid(Row(B, p), m)]
    BY <1>1, <1>4, <2>1 DEF Strand
  <2> QED  BY <1>2, <1>6, <2>1, <2>2
<1>9. ASSUME NEW m \in j..(w - 1) PROVE e[m + 1] = f[m]
  <2>1. m \in Slots /\ i < m /\ m # i /\ m < w /\ m + 1 < k
    BY <1>1, <1>2, <1>3, SizesAssumption DEF Slots
  <2>2. m + 1 \in Slots /\ Kid(Row(B, p), m + 1) = Kid(Row(A, p), m)
    BY <1>2, <2>1
  <2>3. e[m + 1] = d[Kid(Row(B, p), m + 1)]
    BY <1>1, <1>4, <2>1, <2>2 DEF Strand
  <2> QED  BY <1>6, <2>1, <2>2, <2>3
<1>10. IsJoin(f[i], e[i], e[j])
  BY <1>7
<1>11. Concat(e, k) = Concat(f, w)
  <2>1. j = i + 1 /\ k = w + 1 /\ w \in Slots /\ i \in 0..(w - 1)
    BY <1>1, <1>2, <1>3
  <2>2. \A m \in 0..(i - 1) : e[m] = f[m]
    BY <1>8
  <2>3. \A m \in j..(w - 1) : e[m + 1] = f[m]
    BY <1>9
  <2> QED  BY <1>5, <1>10, <2>1, <2>2, <2>3, PairOpened
<1> QED
  BY <1>1, <1>2, <1>4, <1>11 DEF Spelt


\* What an allocated sibling of n holds, n held before.
LEMMA SplitKept ==
  ASSUME NEW A, NEW T, NEW r, NEW h, Tree(A, T, r, h),
         NEW s, s \notin T, NEW B, NEW U, U = T \cup {s}, NEW g, Tree(B, U, r, g),
         NEW p \in T, NEW n \in T, NEW i, Parted(A, B, T, p, i, n, s)
  PROVE  Kept(A, T, r, B, U, r)
<1>1. /\ \A m \in T : m # n /\ m # p => SameNode(A, B, m)
      /\ Together(A, B, n, s) /\ Opened(A, B, p, i, s) /\ Kid(Row(A, p), i) = n
  BY DEF Parted
<1>2. n # r /\ Up(A, n) = p /\ n # p /\ n \in U /\ s \in U /\ p \in U /\ s # n /\ s # p /\ r \in T
  <2>1. ~IsLeaf(A, p) /\ i \in Slots /\ i < Width(A, p)
    BY <1>1 DEF Opened
  <2> QED  BY <1>1, <2>1, TreeKid DEF Tree
<1>3. Up(B, n) = p /\ Up(B, s) = p
  <2>1. PICK j : j = i + 1
    OBVIOUS
  <2>2. /\ ~IsLeaf(B, p) /\ i \in Slots /\ j \in Slots /\ i < Width(A, p)
        /\ Width(B, p) = Width(A, p) + 1 /\ Kid(Row(B, p), j) = s
        /\ i <= i => Kid(Row(B, p), i) = Kid(Row(A, p), i)
    BY <1>1, <2>1 DEF Opened
  <2>3. i < Width(B, p) /\ j < Width(B, p) /\ i <= i
    <3>1. Width(A, p) \in Nat
      BY ForestFields DEF Tree
    <3> QED  BY <2>1, <2>2, <3>1 DEF Slots
  <2>4. Kid(Row(B, p), i) = n
    BY <1>1, <2>2, <2>3
  <2>5. Up(B, n) = p
    BY <1>2, <2>2, <2>3, <2>4, TreeKid
  <2>6. Up(B, s) = p
    BY <1>2, <2>2, <2>3, TreeKid
  <2> QED  BY <2>5, <2>6
<1>4. ASSUME NEW c, Spells(A, T, c) PROVE (\E d : Spells(B, U, d)) /\ BitsIn(B)[r] = c[r]
  <2>1. c \in [T -> Strings] /\ \A m \in T : c[m] = Spelt(A, c, m)
    BY <1>4 DEF Spells
  <2>2. PICK d0 : d0 = [m \in U |-> IF m = s THEN <<>> ELSE c[m]]
    OBVIOUS
  <2>3. d0 \in [U -> Strings] /\ \A m \in T : d0[m] = c[m]
    <3>1. PICK e \in Strings : e = <<>>
      BY Joins
    <3> QED  BY <1>2, <2>1, <2>2, <3>1
  <2>4. PICK x, y : x = Spelt(B, d0, n) /\ y = Spelt(B, d0, s)
    OBVIOUS
  <2>5. x \in Strings /\ y \in Strings
    BY <1>2, <2>3, <2>4, SpeltType
  <2>6. IsJoin(c[n], x, y)
    <3>1. IsJoin(Spelt(A, c, n), Spelt(B, d0, n), Spelt(B, d0, s))
      BY <1>1, <1>2, <2>1, <2>3, PartedNode
    <3> QED  BY <2>1, <2>4, <3>1
  <2>7. PICK d1 : d1 = [d0 EXCEPT ![n] = x]
    OBVIOUS
  <2>8. PICK d : d = [d1 EXCEPT ![s] = y]
    OBVIOUS
  <2>9. /\ d1 \in [U -> Strings] /\ \A m \in U : m # n => d1[m] = d0[m]
        /\ d \in [U -> Strings] /\ \A m \in U : m # s => d[m] = d1[m]
        /\ d[n] = x /\ d[s] = y /\ \A m \in T : m # n => d[m] = c[m]
    BY <1>2, <2>3, <2>5, <2>7, <2>8
  <2>10. ASSUME NEW m \in U, m # p PROVE Spelt(B, d, m) = Spelt(B, d0, m)
    <3>1. Spelt(B, d1, m) = Spelt(B, d0, m)
      BY <1>2, <1>3, <2>9, <2>10, OtherwiseSpelt
    <3>2. Spelt(B, d, m) = Spelt(B, d1, m)
      BY <1>2, <1>3, <2>9, <2>10, OtherwiseSpelt
    <3> QED  BY <3>1, <3>2
  <2>11. Spelt(B, d, p) = Spelt(A, c, p)
    BY <1>1, <1>2, <2>1, <2>6, <2>9, PartedParent
  <2>12. ASSUME NEW m \in U PROVE d[m] = Spelt(B, d, m)
    <3>1. CASE m = n
      BY <1>2, <2>4, <2>9, <2>10, <3>1
    <3>2. CASE m = s
      BY <1>2, <2>4, <2>9, <2>10, <3>2
    <3>3. CASE m = p
      BY <1>2, <2>1, <2>9, <2>11, <3>3
    <3>4. CASE m # n /\ m # s /\ m # p
      <4>1. m \in T /\ SameNode(A, B, m)
        BY <1>1, <3>4
      <4>2. Spelt(B, d, m) = Spelt(A, d, m)
        BY <4>1, SpeltSame
      <4>3. Spelt(A, d, m) = Spelt(A, c, m)
        BY <1>2, <2>9, <3>4, <4>1, OtherwiseSpelt
      <4> QED  BY <2>1, <2>9, <3>4, <4>1, <4>2, <4>3
    <3> QED  BY <3>1, <3>2, <3>3, <3>4
  <2>13. Spells(B, U, d) /\ BitsIn(B)[r] = d[r]
    BY <2>9, <2>12, TreeSpells
  <2> QED  BY <1>2, <2>9, <2>13
<1>5. ASSUME NEW c, Spells(A, T, c)
      PROVE  (\E d : Spells(B, U, d)) /\ BitsIn(B)[r] = BitsIn(A)[r]
  <2>1. BitsIn(A)[r] = c[r]
    BY <1>5, SpeltBits
  <2> QED  BY <1>4, <1>5, <2>1
<1> QED
  BY <1>5, Zenon DEF Kept

\* What s has held, n holds after a merge.
LEMMA MergeKept ==
  ASSUME NEW A, NEW T, NEW r, NEW h, Tree(A, T, r, h),
         NEW s, s \notin T, NEW B, NEW U, U = T \cup {s}, NEW g, Tree(B, U, r, g),
         NEW p \in T, NEW n \in T, NEW i, Parted(A, B, T, p, i, n, s)
  PROVE  Kept(B, U, r, A, T, r)
<1>1. /\ \A m \in T : m # n /\ m # p => SameNode(A, B, m)
      /\ Together(A, B, n, s) /\ Opened(A, B, p, i, s) /\ Kid(Row(A, p), i) = n
  BY DEF Parted
<1>2. n # r /\ Up(A, n) = p /\ n # p /\ n \in U /\ s \in U /\ p \in U /\ s # n /\ s # p /\ r \in T
  <2>1. ~IsLeaf(A, p) /\ i \in Slots /\ i < Width(A, p)
    BY <1>1 DEF Opened
  <2> QED  BY <1>1, <2>1, TreeKid DEF Tree
<1>3. ASSUME NEW d, Spells(B, U, d) PROVE (\E c : Spells(A, T, c)) /\ BitsIn(A)[r] = d[r]
  <2>1. d \in [U -> Strings] /\ \A m \in U : d[m] = Spelt(B, d, m)
    BY <1>3 DEF Spells
  <2>2. PICK x \in Strings : IsJoin(x, d[n], d[s])
    <3>1. d[n] \in Strings /\ d[s] \in Strings
      BY <1>2, <2>1
    <3> QED  BY <3>1, Joins, Zenon DEF IsJoin
  <2>3. PICK c : c = [m \in T |-> IF m = n THEN x ELSE d[m]]
    OBVIOUS
  <2>4. c \in [T -> Strings] /\ c[n] = x /\ \A m \in T : m # n => d[m] = c[m]
    BY <2>1, <2>2, <2>3
  <2>5. Spelt(A, c, n) = x
    <3>1. IsJoin(Spelt(A, c, n), Spelt(B, d, n), Spelt(B, d, s))
      BY <1>1, <1>2, <2>1, <2>4, PartedNode
    <3>2. IsJoin(Spelt(A, c, n), d[n], d[s])
      BY <1>2, <2>1, <3>1
    <3> QED  BY <2>2, <3>2, Zenon DEF IsJoin
  <2>6. Spelt(B, d, p) = Spelt(A, c, p)
    BY <1>1, <1>2, <2>1, <2>2, <2>4, PartedParent
  <2>7. ASSUME NEW m \in T PROVE c[m] = Spelt(A, c, m)
    <3>1. CASE m = n
      BY <2>4, <2>5, <3>1
    <3>2. CASE m = p
      BY <1>2, <2>1, <2>4, <2>6, <3>2
    <3>3. CASE m # n /\ m # p
      <4>1. SameNode(A, B, m)
        BY <1>1, <3>3
      <4>2. Spelt(B, d, m) = Spelt(A, d, m)
        BY <4>1, SpeltSame
      <4>3. Spelt(A, d, m) = Spelt(A, c, m)
        BY <1>2, <2>4, <3>3, OtherwiseSpelt
      <4> QED  BY <1>2, <2>1, <2>4, <3>3, <4>2, <4>3
    <3> QED  BY <3>1, <3>2, <3>3
  <2>8. Spells(A, T, c) /\ BitsIn(A)[r] = c[r]
    BY <2>4, <2>7, TreeSpells
  <2> QED  BY <1>2, <2>4, <2>8
<1>4. ASSUME NEW d, Spells(B, U, d)
      PROVE  (\E c : Spells(A, T, c)) /\ BitsIn(A)[r] = BitsIn(B)[r]
  <2>1. BitsIn(B)[r] = d[r]
    BY <1>4, SpeltBits
  <2> QED  BY <1>3, <1>4, <2>1
<1> QED
  BY <1>4, Zenon DEF Kept


\* Two nodes below a new root hold what one root held.
LEMMA SplitRootKept ==
  ASSUME NEW A, NEW T, NEW r, NEW h, Tree(A, T, r, h),
         NEW s, s \notin T, NEW top, top \notin T, top # s,
         NEW B, NEW U, U = T \cup {s, top}, NEW g, Tree(B, U, top, g),
         Pairs(B, top, r, s), Together(A, B, r, s), \A m \in T : m # r => SameNode(A, B, m)
  PROVE  Kept(A, T, r, B, U, top)
<1>1. r \in T /\ r \in U /\ s \in U /\ top \in U /\ r # s /\ r # top
  BY DEF Tree
<1>2. PICK i, j : i = 0 /\ j = 1
  OBVIOUS
<1>3. /\ ~IsLeaf(B, top) /\ Width(B, top) = 2
      /\ Kid(Row(B, top), i) = r /\ Kid(Row(B, top), j) = s
      /\ i \in Slots /\ j \in Slots /\ i < Width(B, top) /\ j < Width(B, top) /\ j = i + 1
  BY <1>2, SizesAssumption DEF Pairs, Slots
<1>4. Up(B, r) = top /\ Up(B, s) = top
  BY <1>1, <1>3, TreeKid
<1>5. ASSUME NEW c, Spells(A, T, c) PROVE (\E d : Spells(B, U, d)) /\ BitsIn(B)[top] = c[r]
  <2>1. c \in [T -> Strings] /\ \A m \in T : c[m] = Spelt(A, c, m)
    BY <1>5 DEF Spells
  <2>2. PICK d0 : d0 = [m \in U |-> IF m \in T THEN c[m] ELSE c[r]]
    OBVIOUS
  <2>3. d0 \in [U -> Strings] /\ (\A m \in T : d0[m] = c[m]) /\ d0[top] = c[r]
    BY <1>1, <2>1, <2>2
  <2>4. PICK x, y : x = Spelt(B, d0, r) /\ y = Spelt(B, d0, s)
    OBVIOUS
  <2>5. x \in Strings /\ y \in Strings
    BY <1>1, <2>3, <2>4, SpeltType
  <2>6. IsJoin(c[r], x, y)
    <3>1. IsJoin(Spelt(A, c, r), Spelt(B, d0, r), Spelt(B, d0, s))
      BY <1>1, <2>1, <2>3, PartedNode
    <3> QED  BY <1>1, <2>1, <2>4, <3>1
  <2>7. PICK d1 : d1 = [d0 EXCEPT ![r] = x]
    OBVIOUS
  <2>8. PICK d : d = [d1 EXCEPT ![s] = y]
    OBVIOUS
  <2>9. /\ d1 \in [U -> Strings] /\ \A m \in U : m # r => d1[m] = d0[m]
        /\ d \in [U -> Strings] /\ \A m \in U : m # s => d[m] = d1[m]
        /\ d[r] = x /\ d[s] = y /\ d[top] = c[r] /\ \A m \in T : m # r => d[m] = c[m]
    BY <1>1, <2>3, <2>5, <2>7, <2>8
  <2>10. ASSUME NEW m \in U, m # top PROVE Spelt(B, d, m) = Spelt(B, d0, m)
    <3>1. Spelt(B, d1, m) = Spelt(B, d0, m)
      BY <1>1, <1>4, <2>9, <2>10, OtherwiseSpelt
    <3>2. Spelt(B, d, m) = Spelt(B, d1, m)
      BY <1>1, <1>4, <2>9, <2>10, OtherwiseSpelt
    <3> QED  BY <3>1, <3>2
  <2>11. Spelt(B, d, top) = c[r]
    <3>1. PICK f : f = Strand(B, d, top)
      OBVIOUS
    <3>2. f \in Strands
      <4>1. KidsIn(B, top, U)
        BY <1>1, TreeKids
      <4> QED  BY <1>3, <2>9, <3>1, <4>1, StrandType
    <3>3. f[i] = x /\ f[j] = y
      BY <1>3, <2>9, <3>1 DEF Strand
    <3>4. PICK e : e = 2
      OBVIOUS
    <3>5. Concat(f, e) = Concat(f, i) \o (f[i] \o f[j])
      <4>1. e = j + 1
        BY <1>2, <3>4
      <4> QED  BY <1>3, <3>2, <4>1, ConcatPair, Zenon
    <3>6. Concat(f, i) = <<>>
      BY <1>2, <3>2, Concats
    <3>7. <<>> \o c[r] = c[r]
      <4>1. c[r] \in Strings
        BY <1>1, <2>1
      <4> QED  BY <4>1, Joins, ZenonT(40)
    <3>8. Concat(f, e) = c[r]
      BY <2>6, <3>3, <3>5, <3>6, <3>7, Zenon DEF IsJoin
    <3> QED  BY <1>3, <3>1, <3>4, <3>8 DEF Spelt
  <2>12. ASSUME NEW m \in U PROVE d[m] = Spelt(B, d, m)
    <3>1. CASE m = r
      BY <1>1, <2>4, <2>9, <2>10, <3>1
    <3>2. CASE m = s
      BY <1>1, <2>4, <2>9, <2>10, <3>2
    <3>3. CASE m = top
      BY <2>9, <2>11, <3>3
    <3>4. CASE m # r /\ m # s /\ m # top
      <4>1. m \in T /\ SameNode(A, B, m)
        BY <3>4
      <4>2. Spelt(B, d, m) = Spelt(A, d, m)
        BY <4>1, SpeltSame
      <4>3. Spelt(A, d, m) = Spelt(A, c, m)
        BY <1>1, <2>9, <3>4, <4>1, OtherwiseSpelt
      <4> QED  BY <2>1, <2>9, <3>4, <4>1, <4>2, <4>3
    <3> QED  BY <3>1, <3>2, <3>3, <3>4
  <2>13. Spells(B, U, d) /\ BitsIn(B)[top] = d[top]
    BY <2>9, <2>12, TreeSpells
  <2> QED  BY <2>9, <2>13
<1>6. ASSUME NEW c, Spells(A, T, c)
      PROVE  (\E d : Spells(B, U, d)) /\ BitsIn(B)[top] = BitsIn(A)[r]
  <2>1. BitsIn(A)[r] = c[r]
    BY <1>6, SpeltBits
  <2> QED  BY <1>5, <1>6, <2>1
<1> QED
  BY <1>6, Zenon DEF Kept

\* The only child of a root holds what the root did.
LEMMA MergeRootKept ==
  ASSUME NEW A, NEW T, NEW r, NEW h, Tree(A, T, r, h), ~IsLeaf(A, r), Width(A, r) = 1,
         NEW k, k = Kid(Row(A, r), 0),
         NEW B, NEW U, U = T \ {r}, NEW g, Tree(B, U, k, g), \A m \in U : SameNode(A, B, m)
  PROVE  Kept(A, T, r, B, U, k)
<1>1. PICK i : i = 0
  OBVIOUS
<1>2. r \in T /\ k \in U /\ i \in Slots /\ i < Width(A, r) /\ k = Kid(Row(A, r), i)
  BY <1>1, SizesAssumption DEF Tree, Slots
<1>3. ASSUME NEW c, Spells(A, T, c) PROVE (\E d : Spells(B, U, d)) /\ BitsIn(B)[k] = c[r]
  <2>1. c \in [T -> Strings] /\ \A m \in T : c[m] = Spelt(A, c, m)
    BY <1>3 DEF Spells
  <2>2. PICK d : d = [m \in U |-> c[m]]
    OBVIOUS
  <2>3. d \in [U -> Strings] /\ \A m \in T : m # r => d[m] = c[m]
    BY <2>1, <2>2
  <2>4. ASSUME NEW m \in U PROVE d[m] = Spelt(B, d, m)
    <3>1. Spelt(B, d, m) = Spelt(A, d, m)
      BY SpeltSame
    <3>2. Spelt(A, d, m) = Spelt(A, c, m)
      BY <1>2, <2>3, OtherwiseSpelt
    <3> QED  BY <2>1, <2>3, <3>1, <3>2
  <2>5. c[r] = c[k]
    <3>1. PICK f : f = Strand(A, c, r)
      OBVIOUS
    <3>2. f \in Strands
      <4>1. KidsIn(A, r, T)
        BY <1>2, TreeKids
      <4> QED  BY <2>1, <3>1, <4>1, StrandType
    <3>3. f[i] = c[k]
      BY <1>2, <3>1 DEF Strand
    <3>4. Concat(f, 1) = f[0]
      BY <3>2, ConcatOfOne
    <3>5. Spelt(A, c, r) = Concat(f, 1)
      BY <3>1 DEF Spelt
    <3> QED  BY <1>1, <1>2, <2>1, <3>3, <3>4, <3>5
  <2>6. Spells(B, U, d) /\ BitsIn(B)[k] = d[k]
    BY <2>3, <2>4, TreeSpells
  <2> QED  BY <1>2, <2>3, <2>5, <2>6
<1>4. ASSUME NEW c, Spells(A, T, c)
      PROVE  (\E d : Spells(B, U, d)) /\ BitsIn(B)[k] = BitsIn(A)[r]
  <2>1. BitsIn(A)[r] = c[r]
    BY <1>4, SpeltBits
  <2> QED  BY <1>3, <1>4, <2>1
<1> QED
  BY <1>4, Zenon DEF Kept

\* Nodes that keep their bits and their children hold what they did.
LEMMA SameKept ==
  ASSUME NEW A, NEW T, NEW r, NEW h, Tree(A, T, r, h),
         NEW B, NEW g, Tree(B, T, r, g), \A m \in T : SameNode(A, B, m)
  PROVE  Kept(A, T, r, B, T, r)
<1>1. ASSUME NEW c, Spells(A, T, c)
      PROVE  (\E d : Spells(B, T, d)) /\ BitsIn(B)[r] = BitsIn(A)[r]
  <2>1. c \in [T -> Strings] /\ \A m \in T : c[m] = Spelt(A, c, m)
    BY <1>1 DEF Spells
  <2>2. ASSUME NEW m \in T PROVE c[m] = Spelt(B, c, m)
    <3>1. Spelt(B, c, m) = Spelt(A, c, m)
      BY SpeltSame
    <3> QED  BY <2>1, <3>1
  <2>3. Spells(B, T, c) /\ BitsIn(B)[r] = c[r]
    BY <2>1, <2>2, TreeSpells
  <2>4. BitsIn(A)[r] = c[r]
    BY <1>1, SpeltBits
  <2> QED  BY <2>3, <2>4
<1> QED
  BY <1>1, Zenon DEF Kept


-----------------------------------------------------------------------------
(* Where a position of the vector is in a leaf.                            *)

\* The bits of two strings joined.
BitsJoined(s, a, b) ==
  /\ s \in Strings /\ Len(s) = Len(a) + Len(b) /\ Len(a) \in Nat /\ Len(b) \in Nat
  /\ \A i \in 1..Len(a) : s[i] = a[i]
  /\ \A i \in 1..Len(b) : s[Len(a) + i] = b[i]

\* They are those of the one, and then those of the other.
LEMMA JoinedAt ==
  ASSUME NEW a \in Strings, NEW b \in Strings, NEW s, IsJoin(s, a, b)
  PROVE  BitsJoined(s, a, b)
<1>1. PICK m \in Nat, n \in Nat : m = Len(a) /\ n = Len(b)
  BY LenProperties DEF Strings
<1>2. /\ a \o b \in Seq(BOOLEAN) /\ Len(a \o b) = Len(a) + Len(b)
      /\ \A i \in 1..Len(a) + Len(b) : (a \o b)[i] = IF i <= Len(a) THEN a[i] ELSE b[i - Len(a)]
  BY ConcatProperties DEF Strings
<1>3. s = a \o b
  BY DEF IsJoin
<1>4. /\ s \in Seq(BOOLEAN) /\ Len(s) = Len(a) + Len(b)
      /\ \A i \in 1..Len(a) + Len(b) : s[i] = IF i <= Len(a) THEN a[i] ELSE b[i - Len(a)]
  BY <1>2, <1>3, Zenon
<1>5. /\ Len(s) = m + n
      /\ \A i \in 1..(m + n) : s[i] = IF i <= m THEN a[i] ELSE b[i - m]
  BY <1>1, <1>4, Zenon
<1>6. ASSUME NEW i \in 1..m PROVE s[i] = a[i]
  BY ONLY <1>5, m \in Nat, n \in Nat, i \in 1..m
<1>7. ASSUME NEW i \in 1..n PROVE s[m + i] = b[i]
  <2>1. PICK j \in 1..(m + n) : j = m + i /\ ~(j <= m) /\ j - m = i
    BY ONLY m \in Nat, n \in Nat, i \in 1..n
  <2>2. s[j] = b[j - m]
    BY ONLY <1>5, <2>1, j \in 1..(m + n)
  <2> QED  BY <2>1, <2>2, Zenon
<1> QED
  BY <1>1, <1>4, <1>6, <1>7, Zenon DEF BitsJoined, Strings

\* A sequence is cut in one way where its first part ends.
LEMMA OneCut ==
  ASSUME NEW a \in Strings, NEW b \in Strings, NEW c \in Strings, NEW d \in Strings,
         SameJoin(a, b, c, d), Len(a) = Len(c)
  PROVE  a = c /\ b = d
<1>1. PICK s : IsJoin(s, a, b) /\ IsJoin(s, c, d)
  BY Zenon DEF IsJoin, SameJoin
<1>2. BitsJoined(s, a, b) /\ BitsJoined(s, c, d)
  BY <1>1, JoinedAt
<1>3. Len(b) = Len(d)
  BY <1>2 DEF BitsJoined
<1>4. PICK m \in Nat, n \in Nat : m = Len(a) /\ n = Len(b) /\ m = Len(c) /\ n = Len(d)
  <2>1. Len(a) \in Nat /\ Len(b) \in Nat /\ Len(c) \in Nat /\ Len(d) \in Nat
    BY LenProperties DEF Strings
  <2> QED  BY <1>3, <2>1
<1>5. a = c
  <2>1. ASSUME NEW i \in 1..m PROVE a[i] = c[i]
    BY <1>2, <1>4, Zenon DEF BitsJoined
  <2> QED  BY <1>4, <2>1, SeqEqual DEF Strings
<1>6. b = d
  <2>1. ASSUME NEW i \in 1..n PROVE b[i] = d[i]
    BY <1>2, <1>4, Zenon DEF BitsJoined
  <2> QED  BY <1>4, <2>1, SeqEqual DEF Strings
<1> QED
  BY <1>5, <1>6

\* A vector is as long as its parts.
LEMMA Surrounded ==
  ASSUME NEW pre \in Strings, NEW x \in Strings, NEW post \in Strings,
         NEW s, Surrounds(s, pre, x, post)
  PROVE  /\ s \in Strings /\ Len(s) = Len(pre) + Len(x) + Len(post)
         /\ CountOnes(s) = CountOnes(pre) + CountOnes(x) + CountOnes(post)
         /\ Len(pre) \in Nat /\ Len(x) \in Nat /\ Len(post) \in Nat /\ Len(s) \in Nat
<1>1. PICK y : IsJoin(y, x, post)
  BY DEF IsJoin
<1>2. /\ y \in Strings /\ Len(y) = Len(x) + Len(post)
      /\ CountOnes(y) = CountOnes(x) + CountOnes(post)
      /\ Len(x) \in Nat /\ Len(post) \in Nat /\ CountOnes(x) \in Nat /\ CountOnes(post) \in Nat
  <2>1. /\ Len(x) \in Nat /\ Len(post) \in Nat
        /\ CountOnes(x) \in 0..Len(x) /\ CountOnes(post) \in 0..Len(post)
    BY Glued
  <2>2. /\ y \in Strings /\ Len(y) = Len(x) + Len(post)
        /\ CountOnes(y) = CountOnes(x) + CountOnes(post)
    BY <1>1, Glued DEF IsJoin
  <2> QED  BY <2>1, <2>2
<1>3. IsJoin(s, pre, y)
  BY <1>1, Zenon DEF IsJoin, Surrounds
<1>4. /\ s \in Strings /\ Len(s) = Len(pre) + Len(y)
      /\ CountOnes(s) = CountOnes(pre) + CountOnes(y)
  BY <1>2, <1>3, Glued DEF IsJoin
<1>5. Len(pre) \in Nat /\ CountOnes(pre) \in Nat
  <2>1. Len(pre) \in Nat /\ CountOnes(pre) \in 0..Len(pre)
    BY Glued
  <2> QED  BY <2>1
<1> QED
  BY <1>2, <1>4, <1>5

\* What is before a position in x, and from it on.
LEMMA CutInside ==
  ASSUME NEW pre \in Strings, NEW x \in Strings, NEW post \in Strings,
         NEW s, Surrounds(s, pre, x, post),
         NEW k \in 0..Len(x), NEW n, n = Len(pre) + k
  PROVE  /\ n \in 0..Len(s)
         /\ IsJoin(Prefix(s, n), pre, Prefix(x, k))
         /\ IsJoin(Suffix(s, n), Suffix(x, k), post)
<1>1. /\ s \in Strings /\ Len(s) = Len(pre) + Len(x) + Len(post)
      /\ Len(pre) \in Nat /\ Len(x) \in Nat /\ Len(post) \in Nat
  BY Surrounded
<1>2. n \in 0..Len(s)
  BY <1>1
<1>3. PICK u, v : u = Prefix(x, k) /\ v = Suffix(x, k)
  OBVIOUS
<1>4. u \in Strings /\ v \in Strings /\ Len(u) = k /\ IsJoin(x, u, v)
  BY <1>3, PrefixSuffix DEF Strings, IsJoin
<1>5. PICK a, b : IsJoin(a, pre, u) /\ IsJoin(b, v, post)
  BY DEF IsJoin
<1>6. a \in Strings /\ b \in Strings /\ Len(a) = n
  <2>1. a \in Strings /\ Len(a) = Len(pre) + Len(u)
    BY <1>4, <1>5, Glued DEF IsJoin
  <2>2. b \in Strings
    BY <1>4, <1>5, Glued DEF IsJoin
  <2> QED  BY <1>4, <2>1, <2>2
<1>7. IsJoin(s, a, b)
  <2>1. s = pre \o ((u \o v) \o post)
    BY <1>4, Zenon DEF IsJoin, Surrounds
  <2>2. (u \o v) \o post = u \o (v \o post)
    BY <1>4, Joins, ZenonT(40)
  <2>3. v \o post \in Strings
    BY <1>5, <1>6, Zenon DEF IsJoin
  <2>4. (pre \o u) \o (v \o post) = pre \o (u \o (v \o post))
    BY <1>4, <2>3, Joins, ZenonT(40)
  <2> QED  BY <1>5, <2>1, <2>2, <2>4, Zenon DEF IsJoin
<1>8. PICK p, q : p = Prefix(s, n) /\ q = Suffix(s, n)
  OBVIOUS
<1>9. p \in Strings /\ q \in Strings /\ Len(p) = n /\ IsJoin(s, p, q)
  BY <1>1, <1>2, <1>8, PrefixSuffix DEF Strings, IsJoin
<1>10. SameJoin(p, q, a, b)
  BY <1>7, <1>9, Zenon DEF IsJoin, SameJoin
<1>11. p = a /\ q = b
  BY <1>6, <1>9, <1>10, OneCut
<1> QED
  BY <1>2, <1>3, <1>5, <1>8, <1>11, Zenon

\* A bit of x is one of the vector, and setting it there sets it in the vector.
LEMMA BitInside ==
  ASSUME NEW pre \in Strings, NEW x \in Strings, NEW post \in Strings,
         NEW s, Surrounds(s, pre, x, post),
         NEW k \in 1..Len(x), NEW n, n = Len(pre) + k, NEW v \in BOOLEAN,
         NEW t, Surrounds(t, pre, [x EXCEPT ![k] = v], post)
  PROVE  n \in 1..Len(s) /\ s[n] = x[k] /\ t = [s EXCEPT ![n] = v]
<1>1. PICK w : w = [x EXCEPT ![k] = v]
  OBVIOUS
<1>2. w \in Strings /\ Len(w) = Len(x)
  BY <1>1, ExceptSeq DEF Strings
<1>3. \A i \in 1..Len(x) : w[i] = IF i = k THEN v ELSE x[i]
  <2>1. DOMAIN x = 1..Len(x)
    BY LenProperties DEF Strings
  <2> QED  BY <1>1, <2>1
<1>4. PICK y, z : IsJoin(y, x, post) /\ IsJoin(z, w, post)
  BY DEF IsJoin
<1>5. PICK l \in Nat, m \in Nat, r \in Nat : l = Len(pre) /\ m = Len(x) /\ r = Len(post)
  BY LenProperties DEF Strings
<1>6. BitsJoined(y, x, post) /\ BitsJoined(z, w, post)
  BY <1>2, <1>4, JoinedAt
<1>7. y \in Strings /\ z \in Strings /\ Len(y) = m + r /\ Len(z) = m + r
  BY <1>2, <1>5, <1>6, Zenon DEF BitsJoined
<1>8. IsJoin(s, pre, y) /\ IsJoin(t, pre, z)
  BY <1>1, <1>4, Zenon DEF IsJoin, Surrounds
<1>9. BitsJoined(s, pre, y) /\ BitsJoined(t, pre, z)
  BY <1>7, <1>8, JoinedAt
<1>10. s \in Strings /\ t \in Strings /\ Len(s) = l + (m + r) /\ Len(t) = l + (m + r)
  BY <1>5, <1>7, <1>9, Zenon DEF BitsJoined
<1>11. n \in 1..Len(s) /\ n \in Int /\ n = l + k /\ k \in 1..(m + r) /\ k \in 1..m
  BY <1>5, <1>10
<1>12. s[n] = x[k]
  <2>1. s[l + k] = y[k]
    BY <1>5, <1>7, <1>9, <1>11, Zenon DEF BitsJoined
  <2>2. y[k] = x[k]
    BY <1>5, <1>6, <1>11, Zenon DEF BitsJoined
  <2> QED  BY <1>11, <2>1, <2>2, Zenon
<1>13. PICK e : e = [s EXCEPT ![n] = v]
  OBVIOUS
<1>14. e \in Strings /\ Len(e) = Len(s) /\ \A i \in 1..Len(s) : e[i] = IF i = n THEN v ELSE s[i]
  <2>1. DOMAIN s = 1..Len(s)
    BY <1>10, LenProperties DEF Strings
  <2>2. \A i \in 1..Len(s) : e[i] = IF i = n THEN v ELSE s[i]
    BY <1>13, <2>1
  <2> QED  BY <1>10, <1>11, <1>13, <2>2, ExceptSeq DEF Strings
<1>15. ASSUME NEW i \in 1..Len(t) PROVE t[i] = e[i]
  <2>1. CASE i <= l
    <3>1. i # n /\ i \in 1..l /\ i \in 1..Len(s)
      BY <1>10, <1>11, <2>1
    <3>2. t[i] = pre[i] /\ s[i] = pre[i]
      BY <1>5, <1>9, <3>1, Zenon DEF BitsJoined
    <3> QED  BY <1>14, <3>1, <3>2
  <2>2. CASE ~(i <= l)
    <3>1. PICK j \in 1..(m + r) : j = i - l /\ l + j = i
      BY <1>10, <2>2
    <3>2. t[i] = z[j] /\ s[i] = y[j]
      BY <1>5, <1>7, <1>9, <3>1, Zenon DEF BitsJoined
    <3>3. CASE j = k
      <4>1. z[j] = v
        <5>1. z[j] = w[j]
          BY <1>2, <1>5, <1>6, <1>11, <3>3, Zenon DEF BitsJoined
        <5> QED  BY <1>3, <3>3, <5>1
      <4>2. i = n
        BY <1>11, <3>1, <3>3
      <4>3. i \in 1..Len(s)
        BY <1>10
      <4> QED  BY <1>14, <3>2, <4>1, <4>2, <4>3
    <3>4. CASE j # k
      <4>1. z[j] = y[j]
        <5>1. CASE j <= m
          <6>1. j \in 1..m
            BY <5>1
          <6>2. z[j] = w[j] /\ y[j] = x[j]
            BY <1>2, <1>5, <1>6, <6>1, Zenon DEF BitsJoined
          <6> QED  BY <1>3, <1>5, <3>4, <6>1, <6>2
        <5>2. CASE ~(j <= m)
          <6>1. PICK o \in 1..r : j = m + o
            BY <5>2
          <6>2. z[m + o] = post[o] /\ y[m + o] = post[o]
            BY <1>2, <1>5, <1>6, <6>1, Zenon DEF BitsJoined
          <6> QED  BY <6>1, <6>2, Zenon
        <5> QED  BY <5>1, <5>2
      <4>2. i # n
        BY <1>11, <3>1, <3>4
      <4>3. i \in 1..Len(s)
        BY <1>10
      <4> QED  BY <1>14, <3>2, <4>1, <4>2, <4>3
    <3> QED  BY <3>3, <3>4
  <2> QED  BY <2>1, <2>2
<1>16. t = e
  BY <1>10, <1>14, <1>15, SeqEqual DEF Strings
<1> QED
  BY <1>11, <1>12, <1>13, <1>16

\* The ones before a position in x.
LEMMA OnesInside ==
  ASSUME CountsOnes,
         NEW pre \in Strings, NEW x \in Strings, NEW post \in Strings,
         NEW s, Surrounds(s, pre, x, post),
         NEW k \in 0..Len(x), NEW n, n = Len(pre) + k
  PROVE  Vector!OnesBefore(s, n) = CountOnes(pre) + CountOnes(Prefix(x, k))
<1>1. n \in 0..Len(s) /\ IsJoin(Prefix(s, n), pre, Prefix(x, k)) /\ s \in Strings
  BY CutInside, Surrounded
<1>2. Prefix(x, k) \in Strings
  BY PrefixSuffix DEF Strings
<1>3. PICK p, u : p = Prefix(s, n) /\ u = Prefix(x, k)
  OBVIOUS
<1>4. CountOnes(p) = CountOnes(pre) + CountOnes(u)
  BY <1>1, <1>2, <1>3, Glued DEF IsJoin
<1>5. Len(s) \in Nat /\ DOMAIN s = 1..Len(s)
  BY <1>1, LenProperties DEF Strings
<1>6. Len(p) = n /\ DOMAIN p = 1..n /\ \A i \in 1..n : p[i] = s[i]
  <2>1. p \in Strings /\ Len(p) = n
    BY <1>1, <1>3, PrefixSuffix DEF Strings
  <2>2. DOMAIN p = 1..n
    BY <2>1, LenProperties DEF Strings
  <2>3. n \in Int /\ \A i \in 1..n : s[i] \in BOOLEAN
    BY <1>1, <1>5, ElementOfSeq DEF Strings
  <2>4. ASSUME NEW i \in 1..n PROVE p[i] = s[i]
    <3>1. \A j \in 1..n - 1 + 1 : SubSeq(s, 1, n)[j] = s[1 + j - 1]
      BY <2>3, SubSeqProperties
    <3>2. i \in 1..n - 1 + 1 /\ 1 + i - 1 = i
      BY <2>3
    <3> QED  BY <1>3, <3>1, <3>2 DEF Prefix
  <2> QED  BY <2>1, <2>2, <2>4
<1>7. {i \in DOMAIN s : i <= n /\ s[i]} = Ones(p)
  BY <1>1, <1>5, <1>6 DEF Ones
<1>8. CountOnes(p) = Cardinality(Ones(p))
  BY DEF CountOnes, Ones
<1>9. PICK S : S = Ones(p)
  OBVIOUS
<1>10. Vector!Cardinality(S) = Cardinality(S)
  BY Zenon DEF Vector!Cardinality, Cardinality
<1> QED
  BY <1>3, <1>4, <1>7, <1>8, <1>9, <1>10 DEF Vector!OnesBefore

-----------------------------------------------------------------------------
(* What the tree contains, from step to step.                              *)

\* The nodes spell something; on the way down the bits before those of node `at` are
\* counted; and only a tree that counts its ones is asked for them.
Held == \E c : Spells(node, Live, c)
Located == pc = "down" => Spot(node, Live, root, at, before.b, before.o)
Asked == call.op = "rank1" => CountsOnes
Reading == Held /\ Located /\ Asked

\* A step the caller does not notice.
Silent == UNCHANGED <<Contents, reply>>

\* What the tree contains is what its nodes spell.
LEMMA HeldContents ==
  ASSUME NEW T, NEW h, Good(T, h), Held
  PROVE  /\ \E c : Spells(node, T, c)
         /\ Contents = BitsIn(node)[root] /\ Tree(node, T, root, h) /\ Live = T
<1>1. Live = T /\ Tree(node, T, root, h)
  BY GoodLive
<1>2. Contents = BitsIn(node)[root]
  BY BitsOfNodes DEF Contents
<1> QED
  BY <1>1, <1>2 DEF Held

\* The nodes of the tree after a step, and what it contains then.
LEMMA NextContents ==
  ASSUME NEW U, NEW g, Tree(node', U, root', g)
  PROVE  Live' = U /\ Contents' = BitsIn(node')[root'] /\ (Held' <=> \E d : Spells(node', U, d))
<1>1. Live' = LiveIn(node', root')
  BY DEF Live, LiveIn, ChildrenOf
<1>2. LiveIn(node', root') = U
  BY TreeIsLive
<1>3. Contents' = BitsIn(node')[root']
  BY BitsOfNodesNext DEF Contents
<1>4. Live' = U
  BY <1>1, <1>2
<1> QED
  BY <1>3, <1>4 DEF Held

\* A change of the nodes that keeps what they spell.
LEMMA KeptContents ==
  ASSUME NEW T, NEW h, Good(T, h), Held,
         NEW U, NEW g, Tree(node', U, root', g), Kept(node, T, root, node', U, root')
  PROVE  Held' /\ Contents' = Contents /\ Live' = U
<1>1. (\E c : Spells(node, T, c)) /\ Contents = BitsIn(node)[root]
  BY HeldContents
<1>2. (\E d : Spells(node', U, d)) /\ BitsIn(node')[root'] = BitsIn(node)[root]
  BY <1>1, Zenon DEF Kept
<1>3. Live' = U /\ Contents' = BitsIn(node')[root'] /\ (Held' <=> \E d : Spells(node', U, d))
  BY NextContents
<1> QED
  BY <1>1, <1>2, <1>3, Zenon

\* A step that leaves the nodes alone.
LEMMA StillContents ==
  ASSUME NEW T, NEW h, Good(T, h), Held, UNCHANGED <<node, root>>
  PROVE  /\ Held' /\ Contents' = Contents /\ Live' = T
         /\ Tree(node, T, root, h) /\ \E c : Spells(node, T, c)
<1>1. (\E c : Spells(node, T, c)) /\ Contents = BitsIn(node)[root] /\ Tree(node, T, root, h)
  BY HeldContents
<1>2. Tree(node', T, root', h)
  BY <1>1
<1>3. /\ Live' = T /\ Contents' = BitsIn(node')[root']
      /\ Held' <=> \E d : Spells(node', T, d)
  BY <1>2, NextContents
<1> QED
  BY <1>1, <1>3

\* A call returns: there is nothing to be located.
LEMMA ReturnReads ==
  ASSUME Held', Return
  PROVE  Reading'
<1>1. pc' # "down" /\ call'.op # "rank1"
  BY DEF Return, NoCall
<1> QED
  BY <1>1 DEF Reading, Located, Asked

\* A call that goes on, not downwards.
LEMMA GoesOnReads ==
  ASSUME Held', Asked, call' = call, pc' # "down"
  PROVE  Reading'
  BY DEF Reading, Located, Asked

-----------------------------------------------------------------------------
(* The steps that a caller does not notice.                                *)

\* A call begins: at the root nothing is before it.
LEMMA BeginQuiet ==
  ASSUME NEW T, NEW h, Good(T, h), Reading, NEW c \in Calls, Ask(c)
  PROVE  Reading' /\ Silent
<1>1. /\ pc = "idle" /\ call' = c /\ UNCHANGED <<node, root, before, reply>>
      /\ pc' = "down" => at' = root
      /\ Accepts(c)
  BY DEF Ask, Begin
<1>2. before = NoDelta
  BY <1>1 DEF Good, Typed
<1>3. /\ Held' /\ Contents' = Contents /\ Live' = T
      /\ Tree(node, T, root, h) /\ \E d : Spells(node, T, d)
  BY <1>1, StillContents DEF Reading
<1>4. Spot(node, T, root, root, 0, 0)
  BY <1>3, SpotOfRoot
<1>5. before'.b = 0 /\ before'.o = 0
  BY <1>1, <1>2 DEF NoDelta
<1>6. Located'
  BY <1>1, <1>3, <1>4, <1>5 DEF Located
<1>7. Asked'
  BY <1>1 DEF Asked, Accepts
<1> QED
  BY <1>1, <1>3, <1>6, <1>7 DEF Reading, Silent

\* So does every operation.
LEMMA StartQuiet ==
  ASSUME NEW T, NEW h, Good(T, h), Reading, Start
  PROVE  Reading' /\ Silent
<1>1. PICK c \in Calls : Ask(c)
  <2>1. pc = "idle"
    BY DEF Start, insertBlock, deleteBlock, setBit, access, rank1, Ask, Begin
  <2>2. bits(node[root]) \in Nat
    BY <2>1, SteadyTree DEF Holds, Bits
  <2>3. BlockPositions \subseteq Nat /\ Probes \subseteq Nat
    BY <2>2, UseAssumption DEF BlockPositions
  <2>4. CASE insertBlock
    BY <2>3, <2>4 DEF insertBlock, Calls
  <2>5. CASE deleteBlock
    BY <2>3, <2>5 DEF deleteBlock, Calls
  <2>6. CASE setBit
    BY <2>3, <2>6 DEF setBit, Calls
  <2>7. CASE access
    BY <2>3, <2>7 DEF access, Calls
  <2>8. CASE rank1
    BY <2>3, <2>8 DEF rank1, Calls
  <2> QED  BY <2>4, <2>5, <2>6, <2>7, <2>8 DEF Start
<1> QED
  BY <1>1, BeginQuiet

\* One iteration up the path; when it is empty the search is at the root.
LEMMA GoUpQuiet ==
  ASSUME NEW T, NEW h, Good(T, h), Reading, GoUp
  PROVE  Reading' /\ Silent
<1>1. /\ pc = "up" /\ UNCHANGED <<node, root, call, before, reply>>
      /\ pc' = "down" => Len(path) = 1 /\ at' = Top.node
  BY DEF GoUp
<1>2. /\ Held' /\ Contents' = Contents /\ Live' = T
      /\ Tree(node, T, root, h) /\ \E d : Spells(node, T, d)
  BY <1>1, StillContents DEF Reading
<1>3. PathIn(node, T, root, h, path) /\ before = NoDelta
  BY <1>1, SteadyTree DEF Good, Route, GoingUp
<1>4. ASSUME pc' = "down" PROVE at' = root
  <2>1. 1 \in 1..Len(path) /\ Top = path[1]
    BY <1>1, <1>4 DEF Top
  <2>2. Leads(node, T, path[1], StopAt(node, root, path, 1), SumsAbove(path, 1))
    BY <1>3, <2>1 DEF PathIn
  <2>3. path[1].node = root
    BY <2>2 DEF Leads, StopAt
  <2> QED  BY <1>1, <1>4, <2>1, <2>3
<1>5. Spot(node, T, root, root, 0, 0)
  BY <1>2, SpotOfRoot
<1>6. before'.b = 0 /\ before'.o = 0
  BY <1>1, <1>3 DEF NoDelta
<1>7. Located'
  BY <1>1, <1>2, <1>4, <1>5, <1>6 DEF Located
<1> QED
  BY <1>1, <1>2, <1>7 DEF Reading, Silent, Asked

\* The search turns down at the end of the path, whose sums it takes.
LEMMA TurnDownQuiet ==
  ASSUME NEW T, NEW h, Good(T, h), Reading, TurnDown
  PROVE  Reading' /\ Silent
<1>1. /\ pc = "up" /\ UNCHANGED <<node, root, path, call, reply>>
      /\ at' = node[Top.node].entries[Top.index].P
      /\ before' = [b |-> Top.bitsBefore, o |-> Top.onesBefore]
  BY DEF TurnDown
<1>2. /\ Held' /\ Contents' = Contents /\ Live' = T
      /\ Tree(node, T, root, h) /\ \E d : Spells(node, T, d)
  BY <1>1, StillContents DEF Reading
<1>3. PathIn(node, T, root, h, path) /\ path # <<>> /\ AllExact(node, T, root)
  BY <1>1, SteadyTree DEF Good, Route, GoingUp
<1>4. at' = EndOf(node, root, path) /\ before' = SumsOf(path)
  BY <1>1, <1>3 DEF EndOf, SumsOf, Top, Kid, Row
<1>5. Spot(node, T, root, EndOf(node, root, path), SumsOf(path).b, SumsOf(path).o)
  BY <1>2, <1>3, PathSpot
<1>6. Located'
  BY <1>1, <1>2, <1>4, <1>5 DEF Located
<1> QED
  BY <1>1, <1>2, <1>6 DEF Reading, Silent, Asked

\* One iteration down the tree, past the elder siblings of a child.
LEMMA DescendQuiet ==
  ASSUME NEW T, NEW h, Good(T, h), Reading, Descend
  PROVE  Reading' /\ Silent
<1>1. pc = "down" /\ ~IsLeaf(node, at) /\ UNCHANGED <<node, root, pc, call, reply>>
  BY DEF Descend, IsLeaf
<1>2. /\ Held' /\ Contents' = Contents /\ Live' = T
      /\ Tree(node, T, root, h) /\ \E d : Spells(node, T, d)
  BY <1>1, StillContents DEF Reading
<1>3. at \in T /\ AllExact(node, T, root)
  BY <1>1, SteadyTree DEF Good, Route, GoingDown
<1>4. PICK i \in Slots :
        /\ i \in 0..(node[at].size - 1)
        /\ before' = [b |-> before.b + BitsBelow(node[at], i),
                      o |-> before.o + OnesBelow(node[at], i)]
        /\ at' = node[at].entries[i].P
  BY DEF Descend, FindChild
<1>5. Width(node, at) \in 0..(NodeSizeMax + 1)
  <2>1. PICK R, N : Forest(node, T, R, N, h)
    BY <1>2 DEF Tree
  <2> QED  BY <1>3, <2>1, ForestFields
<1>6. i < Width(node, at) /\ at' = Kid(Row(node, at), i)
  BY <1>4, <1>5, SizesAssumption DEF Width, Kid, Row, Slots
<1>7. PICK k : k = Kid(Row(node, at), i)
  OBVIOUS
<1>8. /\ BitsBelow(node[at], i) = SumBelow(Bs(Row(node, at)), i)
      /\ OnesBelow(node[at], i) = SumBelow(Os(Row(node, at)), i)
  BY <1>1, <1>2, <1>3, <1>6, <1>7, ChildSums
<1>9. Spot(node, T, root, at, before.b, before.o)
  BY <1>1, <1>2, GoodLive DEF Reading, Located
<1>10. Spot(node, T, root, k, before.b + SumBelow(Bs(Row(node, at)), i),
                              before.o + SumBelow(Os(Row(node, at)), i))
  BY <1>1, <1>2, <1>3, <1>6, <1>7, <1>9, SpotStep
<1>11. Located'
  BY <1>1, <1>2, <1>4, <1>6, <1>7, <1>8, <1>10 DEF Located
<1> QED
  BY <1>1, <1>2, <1>11 DEF Reading, Silent, Asked


\* One iteration of updateCounters changes counters only.
LEMMA UpdateCountersQuiet ==
  ASSUME NEW T, NEW h, Good(T, h), Reading, UpdateCounters
  PROVE  Reading' /\ Silent
<1>1. /\ pc = "count" /\ HasParent(at) /\ UNCHANGED <<root, pc, call, reply>>
      /\ node' = AddToEntry(node, Up(node, at), Index(node, at), delta.b, delta.o)
  BY DEF UpdateCounters, Up, Index
<1>2. /\ Tree(node, T, root, h) /\ NaturalRows(node, T) /\ at \in T /\ delta \in Changes
      /\ Counting(node, T, root, at, delta) /\ at # root
  BY <1>1, CountFacts
<1>3. PICK H : H = CountUp(node, at, delta)
  OBVIOUS
<1>4. Tree(H, T, root, h) /\ \A m \in T : SameNode(node, H, m)
  BY <1>2, <1>3, CountTree
<1>5. node' = H
  BY <1>1, <1>3 DEF CountUp
<1>6. Kept(node, T, root, H, T, root)
  BY <1>2, <1>4, SameKept
<1>7. Tree(node', T, root', h) /\ Kept(node, T, root, node', T, root')
  BY <1>1, <1>4, <1>5, <1>6
<1>8. Held' /\ Contents' = Contents
  BY <1>7, KeptContents DEF Reading
<1> QED
  BY <1>1, <1>8, GoesOnReads DEF Reading, Silent

\* The counters are up to date.
LEMMA CountedQuiet ==
  ASSUME NEW T, NEW h, Good(T, h), Reading, BlockCounted \/ BitCounted
  PROVE  Reading' /\ Silent
<1>1. UNCHANGED <<node, root, reply>>
  BY DEF BlockCounted, BitCounted
<1>2. Held' /\ Contents' = Contents
  BY <1>1, StillContents DEF Reading
<1>3. CASE BlockCounted
  <2>1. call' = call /\ pc' # "down"
    BY <1>3 DEF BlockCounted
  <2> QED  BY <1>1, <1>2, <2>1, GoesOnReads DEF Reading, Silent
<1>4. CASE BitCounted
  <2>1. Return
    BY <1>4 DEF BitCounted
  <2> QED  BY <1>1, <1>2, <2>1, ReturnReads DEF Silent
<1> QED
  BY <1>3, <1>4

\* A node that fits ends the check.
LEMMA FitsQuiet ==
  ASSUME NEW T, NEW h, Good(T, h), Reading, FitsAbove \/ FitsBelow
  PROVE  Reading' /\ Silent
<1>1. UNCHANGED <<node, root, reply>> /\ Return
  BY DEF FitsAbove, FitsBelow, ReturnRoot
<1>2. Held' /\ Contents' = Contents
  BY <1>1, StillContents DEF Reading
<1> QED
  BY <1>1, <1>2, ReturnReads DEF Silent

\* A tree that is restored, with another root or the same.
LEMMA RestoredQuiet ==
  ASSUME NEW T, NEW h, Good(T, h), Reading, NEW r, ReturnRoot(r),
         NEW U, NEW g, Restored(node', U, r, g), Kept(node, T, root, node', U, r)
  PROVE  Reading' /\ Silent
<1>1. root' = r /\ reply' = reply /\ Return
  BY DEF ReturnRoot
<1>2. Tree(node', U, root', g) /\ Kept(node, T, root, node', U, root')
  BY <1>1 DEF Restored
<1>3. Held' /\ Contents' = Contents
  BY <1>2, KeptContents DEF Reading
<1> QED
  BY <1>1, <1>3, ReturnReads DEF Silent

\* Spilling and stealing: a node gives to its sibling.
LEMMA GivesQuiet ==
  ASSUME NEW T, NEW h, Good(T, h), Reading,
         SpillLeft \/ SpillRight \/ StealFromLeft \/ StealFromRight
  PROVE  Reading' /\ Silent
<1>1. Tree(node, T, root, h)
  BY GoodLive
<1>2. Restored(node', T, root, h) /\ ReturnRoot(root)
  BY SpillLeftRestores, SpillRightRestores, StealFromLeftRestores, StealFromRightRestores
<1>3. Tree(node', T, root, h)
  BY <1>2 DEF Restored
<1>4. Kept(node, T, root, node', T, root)
  <2>1. (\E n, i : GivesLeft(T, n, i)) \/ (\E n, j : GivesRight(T, n, j))
    BY SpillLeftRestores, SpillRightRestores, StealFromLeftRestores, StealFromRightRestores
  <2>2. CASE \E n, i : GivesLeft(T, n, i)
    <3>1. PICK n, i : GivesLeft(T, n, i)
      BY <2>2
    <3>2. PICK s : s = Kid(Row(node, Up(node, n)), i)
      OBVIOUS
    <3>3. /\ n \in T /\ n # root /\ i \in Slots /\ i = Index(node, n) - 1
          /\ CanMove(node, n, s) /\ node' = MoveLeft(node, n)
      BY <3>1, <3>2 DEF GivesLeft
    <3> QED  BY <1>1, <1>3, <3>2, <3>3, LeftKept
  <2>3. CASE \E n, j : GivesRight(T, n, j)
    <3>1. PICK n, j : GivesRight(T, n, j)
      BY <2>3
    <3>2. PICK s : s = Kid(Row(node, Up(node, n)), j)
      OBVIOUS
    <3>3. /\ n \in T /\ n # root /\ j \in Slots /\ j = Index(node, n) + 1
          /\ j < Width(node, Up(node, n))
          /\ CanMove(node, n, s) /\ node' = MoveRight(node, n)
      BY <3>1, <3>2 DEF GivesRight
    <3> QED  BY <1>1, <1>3, <3>2, <3>3, RightKept
  <2> QED  BY <2>1, <2>2, <2>3
<1> QED
  BY <1>2, <1>4, RestoredQuiet

\* A root is split, or gives way to its only child.
LEMMA RootQuiet ==
  ASSUME NEW T, NEW h, Good(T, h), Reading, SplitRoot \/ MergeRoot
  PROVE  Reading' /\ Silent
<1>1. Tree(node, T, root, h)
  BY GoodLive
<1>2. CASE SplitRoot
  <2>1. PICK new, top, U, g :
          /\ U = T \cup {new, top} /\ Restored(node', U, top, g) /\ ReturnRoot(top)
          /\ RootParted(node, node', T, root, new, top)
    BY <1>2, SplitRootRestores
  <2>2. /\ new \notin T /\ top \notin T /\ top # new
        /\ Pairs(node', top, root, new) /\ Together(node, node', root, new)
        /\ \A m \in T : m # root => SameNode(node, node', m)
    BY <2>1 DEF RootParted
  <2>3. Tree(node', U, top, g)
    BY <2>1 DEF Restored
  <2>4. Kept(node, T, root, node', U, top)
    BY <1>1, <2>1, <2>2, <2>3, SplitRootKept
  <2> QED  BY <2>1, <2>4, RestoredQuiet
<1>3. CASE MergeRoot
  <2>1. PICK c, U : /\ c = Kid(Row(node, root), 0) /\ U = T \ {root}
                    /\ Restored(node', U, c, h) /\ ReturnRoot(c)
                    /\ ~IsLeaf(node, root) /\ Width(node, root) = 1
                    /\ \A m \in U : SameNode(node, node', m)
    BY <1>3, MergeRootRestores
  <2>2. Tree(node', U, c, h)
    BY <2>1 DEF Restored
  <2>3. Kept(node, T, root, node', U, c)
    BY <1>1, <2>1, <2>2, MergeRootKept
  <2> QED  BY <2>1, <2>3, RestoredQuiet
<1> QED
  BY <1>2, <1>3

\* Another node is split, or two are merged, and the check goes on above.
LEMMA PartsQuiet ==
  ASSUME NEW T, NEW h, Good(T, h), Reading, Split \/ MergeNodes
  PROVE  Reading' /\ Silent
<1>1. Tree(node, T, root, h)
  BY GoodLive
<1>2. pc' = pc /\ pc # "down" /\ UNCHANGED <<root, call, reply>>
  BY DEF Split, MergeNodes, TooLarge, TooSmall
<1>3. \E U, g : Tree(node', U, root, g) /\ Kept(node, T, root, node', U, root)
  <2>1. CASE Split
    <3>1. PICK new, U, g, i :
            /\ U = T \cup {new} /\ new \notin T /\ at \in T /\ at' \in T
            /\ Tree(node', U, root, g) /\ Parted(node, node', T, at', i, at, new)
      BY <2>1, SplitLeaves
    <3>2. Kept(node, T, root, node', U, root)
      BY <1>1, <3>1, SplitKept
    <3> QED  BY <3>1, <3>2
  <2>2. CASE MergeNodes
    <3>1. PICK U, n, s, i :
            /\ U = T \ {s} /\ s \in T /\ n \in U /\ at' \in U
            /\ Tree(node', U, root, h) /\ Parted(node', node, U, at', i, n, s)
      BY <2>2, MergeLeaves
    <3>2. T = U \cup {s} /\ s \notin U
      BY <3>1
    <3>3. Kept(node, T, root, node', U, root)
      BY <1>1, <3>1, <3>2, MergeKept
    <3> QED  BY <3>1, <3>3
  <2> QED  BY <2>1, <2>2
<1>4. PICK U, g : Tree(node', U, root', g) /\ Kept(node, T, root, node', U, root')
  BY <1>2, <1>3
<1>5. Held' /\ Contents' = Contents
  BY <1>4, KeptContents DEF Reading
<1> QED
  BY <1>2, <1>5, GoesOnReads DEF Reading, Silent


-----------------------------------------------------------------------------
(* The steps in a leaf are those of the bit vector.                        *)

\* The bits of the leaf the search has reached are between pre and post, and so would
\* any others be.
Lies(T, pre, post) ==
  /\ pre \in Strings /\ post \in Strings /\ Hole(node, T, root, at, pre, post)
  /\ Len(pre) = before.b /\ CountOnes(pre) = before.o
  /\ Surrounds(Contents, pre, Bv(node, at), post)

\* There are such pre and post.
LEMMA LeafLies ==
  ASSUME NEW T, NEW h, Good(T, h), Reading, pc = "down", IsLeaf(node, at)
  PROVE  \E pre, post : Lies(T, pre, post)
<1>1. Contents = BitsIn(node)[root] /\ Tree(node, T, root, h) /\ Live = T
  BY HeldContents DEF Reading
<1>2. at \in T /\ Bv(node, at) \in Strings
  BY AtTheLeaf
<1>3. Spot(node, T, root, at, before.b, before.o)
  BY <1>1 DEF Reading, Located
<1>4. PICK pre \in Strings, post \in Strings :
        Hole(node, T, root, at, pre, post) /\ Len(pre) = before.b /\ CountOnes(pre) = before.o
  BY <1>3, Zenon DEF Spot
<1>5. \A m \in T : m # at => SameNode(node, node, m)
  BY DEF SameNode, SameKids
<1>6. PICK bv \in Strings : bv = Bv(node, at)
  BY <1>2
<1>7. Rewritten(node, node, T, at, bv)
  BY <1>5, <1>6 DEF Rewritten
<1>8. Surrounds(BitsIn(node)[root], pre, bv, post)
  BY <1>1, <1>2, <1>4, <1>7, LeafSpells
<1> QED
  BY <1>1, <1>4, <1>6, <1>8, Zenon DEF Lies

\* Other bits in the leaf are between the same.
LEMMA LeafWritten ==
  ASSUME NEW T, NEW h, Good(T, h), Reading, pc = "down", IsLeaf(node, at),
         UNCHANGED <<root, path>>, NEW bv \in Strings, Whole(Len(bv)), NEW d \in Changes,
         Exceeds(bv, Bv(node, at), d.b, d.o), node' = WithBits(node, at, bv),
         NEW pre, NEW post, Lies(T, pre, post), pc' # "down", call' \in {call, NoCall}
  PROVE  Reading' /\ Surrounds(Contents', pre, bv, post)
<1>1. /\ Tree(node', T, root, h) /\ IsLeaf(node', at)
      /\ Bv(node', at) = bv /\ \A m \in T : m # at => SameNode(node, node', m)
  BY LeafChanged
<1>2. at \in T
  BY AtTheLeaf
<1>3. Hole(node, T, root, at, pre, post)
  BY DEF Lies
<1>4. (\E e : Spells(node', T, e)) /\ Surrounds(BitsIn(node')[root], pre, bv, post)
  <2>1. Rewritten(node, node', T, at, bv)
    BY <1>1 DEF Rewritten
  <2> QED  BY <1>1, <1>2, <1>3, <2>1, LeafSpells
<1>5. /\ Live' = T /\ Contents' = BitsIn(node')[root']
      /\ Held' <=> \E e : Spells(node', T, e)
  <2>1. Tree(node', T, root', h)
    BY <1>1
  <2> QED  BY <2>1, NextContents
<1>6. Held' /\ Contents' = BitsIn(node')[root]
  BY <1>4, <1>5
<1>7. Surrounds(Contents', pre, bv, post)
  BY <1>4, <1>6, Zenon
<1>8. Asked'
  BY DEF Reading, Asked, NoCall
<1> QED
  BY <1>6, <1>7, <1>8 DEF Reading, Located

\* Where a position is in the vector, and where it is in the leaf.
LEMMA LeafPlace ==
  ASSUME NEW T, NEW h, Good(T, h), Reading, NEW op, AtLeaf(op), NEW pre, NEW post,
         Lies(T, pre, post), NEW bv, bv = Bv(node, at), NEW k, k = call.n - before.b
  PROVE  /\ bv \in Strings /\ Surrounds(Contents, pre, bv, post) /\ k \in 0..Len(bv)
         /\ pre \in Strings /\ post \in Strings /\ Contents \in Strings
         /\ call.n = Len(pre) + k /\ call.n \in 0..Len(Contents) /\ call \in Calls
         /\ k + Needed(op) <= Len(bv) /\ k + Needed(op) \in Int
         /\ Len(bv) \in Nat /\ Len(pre) \in Nat /\ Len(post) \in Nat
         /\ Len(Contents) = Len(pre) + Len(bv) + Len(post)
         /\ pc = "down" /\ IsLeaf(node, at) /\ node[at].bv = bv /\ call.op = op
         /\ Whole(Len(bv)) /\ (op \in BlockOps => Whole(k) /\ Whole(call.n))
<1>1. /\ pc = "down" /\ IsLeaf(node, at) /\ call.op = op /\ node[at].bv = bv
      /\ bv \in Strings /\ Whole(Len(bv)) /\ Len(bv) \in Nat /\ k \in 0..Len(bv)
      /\ Suits(op, k, Len(bv))
  BY LeafFacts
<1>2. /\ pre \in Strings /\ post \in Strings /\ Surrounds(Contents, pre, bv, post)
      /\ Len(pre) = before.b
  BY DEF Lies
<1>3. /\ Contents \in Strings /\ Len(Contents) = Len(pre) + Len(bv) + Len(post)
      /\ Len(pre) \in Nat /\ Len(post) \in Nat /\ Len(Contents) \in Nat
  BY <1>1, <1>2, Surrounded
<1>4. call \in Calls /\ call.n \in Nat /\ Whole(before.b) /\ before.b \in Nat
  <2>1. call \in Calls
    BY <1>1, AtTheLeaf
  <2>2. Whole(before.b)
    BY <1>1 DEF Good, Route, GoingDown
  <2>3. before.b \in Nat
    BY <1>2, <1>3
  <2> QED  BY <2>1, <2>2, <2>3 DEF Calls
<1>5. call.n = Len(pre) + k
  BY <1>2, <1>4
<1>6. call.n \in 0..Len(Contents)
  BY <1>1, <1>3, <1>5
<1>7. k + Needed(op) <= Len(bv) /\ (op \in BlockOps => Whole(k)) /\ Needed(op) \in Int
  BY <1>1, SizesAssumption DEF Suits, Needed
<1>8. ASSUME op \in BlockOps PROVE Whole(call.n)
  <2>1. PICK x \in Int, y \in Int : x = before.b /\ y = k /\ Whole(x) /\ Whole(y)
    BY <1>1, <1>4, <1>7, <1>8
  <2>2. Whole(x + y)
    BY <2>1, WholeSums
  <2>3. call.n = x + y
    BY <1>4, <2>1
  <2> QED  BY <2>2, <2>3
<1>9. k + Needed(op) \in Int
  BY <1>1, <1>7
<1> QED
  BY <1>1, <1>2, <1>3, <1>4, <1>5, <1>6, <1>7, <1>8, <1>9


\* Three strings, one after the other.
IsJoin3(x, a, b, c) == x = a \o b \o c

\* What is put between two parts of x is put between two parts of the vector.
LEMMA PutBetween ==
  ASSUME NEW pre \in Strings, NEW p \in Strings, NEW z \in Strings, NEW q \in Strings,
         NEW post \in Strings, NEW x, IsJoin3(x, p, z, q), NEW t, Surrounds(t, pre, x, post),
         NEW a, IsJoin(a, pre, p), NEW b, IsJoin(b, q, post)
  PROVE  IsJoin3(t, a, z, b)
<1>1. t = pre \o (((p \o z) \o q) \o post)
  BY Zenon DEF Surrounds, IsJoin3
<1>2. (p \o z) \o q = p \o (z \o q)
  BY Joins, ZenonT(40)
<1>3. pre \o ((p \o (z \o q)) \o post) = (pre \o p) \o (z \o (q \o post))
  <2>1. Regroups(pre, p, z, q, post)
    BY Between
  <2> QED  BY <2>1, Zenon DEF Regroups
<1>4. a \in Strings /\ b \in Strings
  BY Joins, Zenon DEF IsJoin
<1>5. (a \o z) \o b = a \o (z \o b)
  BY <1>4, Joins, ZenonT(40)
<1> QED
  BY <1>1, <1>2, <1>3, <1>5, Zenon DEF IsJoin, IsJoin3

\* What is left of x without a stretch in it is left of the vector.
LEMMA LeftBetween ==
  ASSUME NEW pre \in Strings, NEW p \in Strings, NEW q \in Strings,
         NEW post \in Strings, NEW x, IsJoin(x, p, q), NEW t, Surrounds(t, pre, x, post),
         NEW a, IsJoin(a, pre, p), NEW b, IsJoin(b, q, post)
  PROVE  IsJoin(t, a, b)
<1>1. t = pre \o ((p \o q) \o post)
  BY Zenon DEF Surrounds, IsJoin
<1>2. (p \o q) \o post = p \o (q \o post)
  BY Joins, ZenonT(40)
<1>3. q \o post \in Strings
  BY Joins, ZenonT(40)
<1>4. (pre \o p) \o (q \o post) = pre \o (p \o (q \o post))
  BY <1>3, Joins, ZenonT(40)
<1> QED
  BY <1>1, <1>2, <1>4, Zenon DEF IsJoin

\* insertBlock in the leaf inserts the block in the vector.
LEMMA InsertIs ==
  ASSUME NEW T, NEW h, Good(T, h), Reading, InsertInLeaf
  PROVE  Reading' /\ Vector!Next
<1>1. AtLeaf("insertBlock")
  BY DEF InsertInLeaf
<1>2. PICK pre, post : Lies(T, pre, post)
  BY <1>1, LeafLies, LeafFacts
<1>3. PICK bv, k, n, z : bv = Bv(node, at) /\ k = call.n - before.b /\ n = call.n
                         /\ z = [i \in 1..BlockSize |-> FALSE]
  OBVIOUS
<1>4. /\ bv \in Strings /\ Surrounds(Contents, pre, bv, post) /\ k \in 0..Len(bv)
      /\ pre \in Strings /\ post \in Strings /\ n = Len(pre) + k /\ n \in 0..Len(Contents)
      /\ pc = "down" /\ IsLeaf(node, at) /\ node[at].bv = bv /\ call.op = "insertBlock"
      /\ Whole(Len(bv)) /\ Whole(n) /\ Len(bv) \in Nat
  <2>1. "insertBlock" \in BlockOps
    BY DEF BlockOps
  <2> QED  BY <1>1, <1>2, <1>3, <2>1, LeafPlace
<1>5. PICK p, q : p = Prefix(bv, k) /\ q = Suffix(bv, k)
  OBVIOUS
<1>6. p \in Strings /\ q \in Strings /\ z \in Strings
  <2>1. p \in Strings /\ q \in Strings
    BY <1>4, <1>5, PrefixSuffix DEF Strings
  <2>2. z \in [1..BlockSize -> BOOLEAN] /\ BlockSize \in Nat
    BY <1>3, SizesAssumption
  <2> QED  BY <2>1, <2>2, SeqDef DEF Strings
<1>7. PICK new : new = p \o z \o q
  OBVIOUS
<1>8. new \in Strings /\ Exceeds(new, bv, BlockSize, 0)
  <2>1. new = Prefix(bv, k) \o z \o Suffix(bv, k)
    BY <1>5, <1>7, Zenon
  <2> QED  BY <1>3, <1>4, <2>1, InsertedBlock
<1>9. Whole(Len(new))
  <2>1. Len(new) = Len(bv) + BlockSize
    BY <1>8 DEF Exceeds
  <2> QED  BY <1>4, <2>1, WholeSums, SizesAssumption
<1>10. node' = WithBits(node, at, new)
  <2>1. node' = WithBits(node, at, Prefix(node[at].bv, k) \o z \o Suffix(node[at].bv, k))
    BY <1>3, Zenon DEF InsertInLeaf
  <2> QED  BY <1>4, <1>5, <1>7, <2>1, Zenon
<1>11. /\ UNCHANGED <<root, path>> /\ pc' # "down" /\ call' = call
       /\ reply' = [op |-> "insertBlock", n |-> n]
  BY <1>3, <1>4 DEF InsertInLeaf, Update
<1>12. PICK d \in Changes : d.b = BlockSize /\ d.o = 0
  <2>1. [b |-> BlockSize, o |-> 0] \in Changes
    BY SizesAssumption DEF Changes
  <2> QED  BY <2>1
<1>13. Reading' /\ Surrounds(Contents', pre, new, post)
  <2>1. Exceeds(new, Bv(node, at), d.b, d.o)
    BY <1>3, <1>8, <1>12
  <2> QED  BY <1>2, <1>4, <1>8, <1>9, <1>10, <1>11, <2>1, LeafWritten
<1>14. PICK a, b : a = Prefix(Contents, n) /\ b = Suffix(Contents, n)
  OBVIOUS
<1>15. IsJoin(a, pre, p) /\ IsJoin(b, q, post)
  BY <1>4, <1>5, <1>14, CutInside
<1>16. IsJoin3(new, p, z, q)
  BY <1>7, Zenon DEF IsJoin3
<1>17. IsJoin3(Contents', a, z, b)
  BY <1>4, <1>6, <1>13, <1>15, <1>16, PutBetween
<1>18. Vector!Insert(n)
  <2>1. n \in Vector!Blocks
    BY <1>4 DEF Vector!Blocks, Whole
  <2>2. Contents' = SubSeq(Contents, 1, n) \o [i \in 1..BlockSize |-> FALSE]
                    \o SubSeq(Contents, n + 1, Len(Contents))
    BY <1>3, <1>14, <1>17, Zenon DEF IsJoin3, Prefix, Suffix
  <2> QED  BY <1>11, <2>1, <2>2, Zenon DEF Vector!Insert
<1> QED
  BY <1>4, <1>13, <1>18, Zenon DEF Vector!Next


\* deleteBlock in the leaf deletes the block of the vector.
LEMMA DeleteIs ==
  ASSUME NEW T, NEW h, Good(T, h), Reading, DeleteInLeaf
  PROVE  Reading' /\ Vector!Next
<1>1. AtLeaf("deleteBlock")
  BY DEF DeleteInLeaf
<1>2. PICK pre, post : Lies(T, pre, post)
  BY <1>1, LeafLies, LeafFacts
<1>3. PICK bv, k, n : bv = Bv(node, at) /\ k = call.n - before.b /\ n = call.n
  OBVIOUS
<1>4. /\ bv \in Strings /\ Surrounds(Contents, pre, bv, post) /\ k \in 0..Len(bv)
      /\ pre \in Strings /\ post \in Strings /\ n = Len(pre) + k /\ n \in 0..Len(Contents)
      /\ pc = "down" /\ IsLeaf(node, at) /\ node[at].bv = bv /\ call.op = "deleteBlock"
      /\ Whole(Len(bv)) /\ Whole(n) /\ Len(bv) \in Nat /\ k + Needed("deleteBlock") <= Len(bv)
      /\ Len(pre) \in Nat /\ Len(post) \in Nat
      /\ Len(Contents) = Len(pre) + Len(bv) + Len(post)
  <2>1. "deleteBlock" \in BlockOps
    BY DEF BlockOps
  <2> QED  BY <1>1, <1>2, <1>3, <2>1, LeafPlace
<1>5. PICK e \in Nat, m \in Nat : /\ e = k + BlockSize /\ e \in 0..Len(bv) /\ k \in Nat
                                  /\ m = n + BlockSize /\ m = Len(pre) + e /\ n # Len(Contents)
  <2>1. Needed("deleteBlock") = BlockSize
    BY DEF Needed
  <2> QED  BY <1>4, <2>1, SizesAssumption
<1>6. PICK p, q : p = Prefix(bv, k) /\ q = Suffix(bv, e)
  OBVIOUS
<1>7. p \in Strings /\ q \in Strings
  BY <1>4, <1>5, <1>6, PrefixSuffix DEF Strings
<1>8. PICK new, dOnes : new = p \o q /\ dOnes = -CountOnes(SubSeq(bv, k + 1, e))
  OBVIOUS
<1>9. new \in Strings /\ Exceeds(new, bv, -BlockSize, dOnes) /\ dOnes \in Int
  <2>1. new = Prefix(bv, k) \o Suffix(bv, e)
    BY <1>6, <1>8, Zenon
  <2>2. /\ new \in Strings /\ Exceeds(new, bv, -BlockSize, -CountOnes(SubSeq(bv, k + 1, e)))
        /\ CountOnes(SubSeq(bv, k + 1, e)) \in 0..BlockSize
    BY <1>4, <1>5, <2>1, DeletedBlock
  <2> QED  BY <1>8, <2>2, SizesAssumption
<1>10. Whole(Len(new))
  <2>1. Len(new) = Len(bv) + (-BlockSize)
    BY <1>9 DEF Exceeds
  <2> QED  BY <1>4, <2>1, WholeSums, SizesAssumption
<1>11. node' = WithBits(node, at, new)
  <2>1. node' = WithBits(node, at, Prefix(node[at].bv, k) \o Suffix(node[at].bv, k + BlockSize))
    BY <1>3, Zenon DEF DeleteInLeaf
  <2> QED  BY <1>4, <1>5, <1>6, <1>8, <2>1, Zenon
<1>12. /\ UNCHANGED <<root, path>> /\ pc' # "down" /\ call' = call
       /\ reply' = [op |-> "deleteBlock", n |-> n]
  BY <1>3, <1>4 DEF DeleteInLeaf, Update
<1>13. PICK d \in Changes : d.b = -BlockSize /\ d.o = dOnes
  <2>1. [b |-> -BlockSize, o |-> dOnes] \in Changes
    BY <1>9, SizesAssumption DEF Changes
  <2> QED  BY <2>1
<1>14. Reading' /\ Surrounds(Contents', pre, new, post)
  <2>1. Exceeds(new, Bv(node, at), d.b, d.o)
    BY <1>3, <1>9, <1>13
  <2> QED  BY <1>2, <1>4, <1>9, <1>10, <1>11, <1>12, <2>1, LeafWritten
<1>15. PICK a, b : a = Prefix(Contents, n) /\ b = Suffix(Contents, m)
  OBVIOUS
<1>16. IsJoin(a, pre, p) /\ IsJoin(b, q, post)
  <2>1. IsJoin(a, pre, p)
    BY <1>4, <1>6, <1>15, CutInside
  <2>2. IsJoin(b, q, post)
    BY <1>4, <1>5, <1>6, <1>15, CutInside
  <2> QED  BY <2>1, <2>2
<1>17. IsJoin(new, p, q)
  BY <1>8, Zenon DEF IsJoin
<1>18. IsJoin(Contents', a, b)
  BY <1>4, <1>7, <1>14, <1>16, <1>17, LeftBetween
<1>19. Vector!Delete(n)
  <2>1. n \in Vector!Blocks \ {Len(Contents)}
    BY <1>4, <1>5 DEF Vector!Blocks, Whole
  <2>2. Contents' = SubSeq(Contents, 1, n) \o SubSeq(Contents, n + BlockSize + 1, Len(Contents))
    BY <1>5, <1>15, <1>18, Zenon DEF IsJoin, Prefix, Suffix
  <2> QED  BY <1>12, <2>1, <2>2, Zenon DEF Vector!Delete
<1> QED
  BY <1>4, <1>14, <1>19, Zenon DEF Vector!Next

\* setBit in the leaf sets the bit of the vector, and tells that it was another.
LEMMA SetIs ==
  ASSUME NEW T, NEW h, Good(T, h), Reading, SetInLeaf
  PROVE  Reading' /\ Vector!Next
<1>1. AtLeaf("setBit")
  BY DEF SetInLeaf
<1>2. PICK pre, post : Lies(T, pre, post)
  BY <1>1, LeafLies, LeafFacts
<1>3. PICK bv, k, n, v : bv = Bv(node, at) /\ k = call.n - before.b /\ n = call.n /\ v = call.b
  OBVIOUS
<1>4. /\ bv \in Strings /\ Surrounds(Contents, pre, bv, post) /\ k \in 0..Len(bv)
      /\ pre \in Strings /\ post \in Strings /\ n = Len(pre) + k /\ n \in 0..Len(Contents)
      /\ pc = "down" /\ IsLeaf(node, at) /\ node[at].bv = bv /\ call.op = "setBit"
      /\ call \in Calls /\ Contents \in Strings
      /\ Whole(Len(bv)) /\ Len(bv) \in Nat /\ k + Needed("setBit") <= Len(bv)
      /\ Len(pre) \in Nat /\ Len(post) \in Nat
      /\ Len(Contents) = Len(pre) + Len(bv) + Len(post)
  BY <1>1, <1>2, <1>3, LeafPlace
<1>5. PICK i \in Nat, j \in Nat : /\ i = k + 1 /\ i \in 1..Len(bv) /\ j = n + 1
                                  /\ j = Len(pre) + i /\ n \in 0..(Len(Contents) - 1)
  <2>1. Needed("setBit") = 1
    BY DEF Needed
  <2> QED  BY <1>4, <2>1
<1>6. v \in BOOLEAN
  BY <1>3, <1>4 DEF Calls
<1>7. PICK new : new = [bv EXCEPT ![i] = v]
  OBVIOUS
<1>8. /\ bv[i] # v /\ node' = WithBits(node, at, new)
      /\ reply' = [op |-> "setBit", n |-> n, b |-> v, result |-> TRUE]
  <2>1. node' = WithBits(node, at, [node[at].bv EXCEPT ![call.n - before.b + 1] = call.b])
    BY Zenon DEF SetInLeaf
  <2>2. node[at].bv[call.n - before.b + 1] # call.b
    BY Zenon DEF SetInLeaf
  <2>3. reply' = [op |-> call.op, n |-> call.n, b |-> call.b, result |-> TRUE]
    BY Zenon DEF SetInLeaf, SetReply
  <2>4. [node[at].bv EXCEPT ![call.n - before.b + 1] = call.b] = new
    BY <1>3, <1>4, <1>5, <1>7, Zenon
  <2>5. call.n - before.b + 1 = i /\ call.n = n /\ call.b = v /\ call.op = "setBit"
    BY <1>3, <1>4, <1>5, Zenon
  <2>6. node' = WithBits(node, at, new)
    BY <2>1, <2>4, Zenon
  <2>7. bv[i] # v
    BY <1>4, <2>2, <2>5, Zenon
  <2>8. reply' = [op |-> "setBit", n |-> n, b |-> v, result |-> TRUE]
    BY <2>3, <2>5, Zenon
  <2> QED  BY <2>6, <2>7, <2>8
<1>9. PICK dOnes : dOnes = IF CountsOnes THEN IF v THEN 1 ELSE -1 ELSE 0
  OBVIOUS
<1>10. new \in Strings /\ Len(new) = Len(bv) /\ CountOnes(new) = CountOnes(bv) + dOnes
  BY <1>4, <1>5, <1>6, <1>7, <1>8, <1>9, OnesOfChange DEF Strings
<1>11. /\ UNCHANGED <<root, path>> /\ pc' # "down" /\ call' \in {call, NoCall}
  BY DEF SetInLeaf, Update, Return
<1>12. PICK d \in Changes : d.b = 0 /\ d.o = dOnes
  <2>1. [b |-> 0, o |-> dOnes] \in Changes
    BY <1>9 DEF Changes
  <2> QED  BY <2>1
<1>13. Reading' /\ Surrounds(Contents', pre, new, post)
  <2>1. Exceeds(new, Bv(node, at), d.b, d.o)
    BY <1>3, <1>4, <1>10, <1>12 DEF Exceeds
  <2> QED  BY <1>2, <1>4, <1>8, <1>10, <1>11, <2>1, LeafWritten
<1>14. Surrounds(Contents', pre, [bv EXCEPT ![i] = v], post)
  BY <1>7, <1>13, Zenon
<1>15. Contents[j] = bv[i] /\ Contents' = [Contents EXCEPT ![j] = v]
  BY <1>4, <1>5, <1>6, <1>14, BitInside
<1>16. Vector!Set(n, v)
  <2>1. Contents[n + 1] # v /\ Contents' = [Contents EXCEPT ![n + 1] = v]
    BY <1>5, <1>8, <1>15, Zenon
  <2>2. TRUE = (Contents[n + 1] # v)
    BY <2>1
  <2>3. reply' = [op |-> "setBit", n |-> n, b |-> v, result |-> Contents[n + 1] # v]
    BY <1>8, <2>2
  <2> QED  BY <1>5, <2>1, <2>3, Zenon DEF Vector!Set
<1> QED
  BY <1>4, <1>6, <1>13, <1>16, Zenon DEF Vector!Next

\* Answers to access, to rank1, and to setBit of a bit that is as it should be, are those
\* of the vector.
LEMMA ReadIs ==
  ASSUME NEW T, NEW h, Good(T, h), Reading, AccessLeaf \/ RankLeaf \/ SetLeavesBit
  PROVE  Reading' /\ Vector!Next
<1>1. Return /\ UNCHANGED <<node, root>>
  BY DEF AccessLeaf, RankLeaf, SetLeavesBit, Answer
<1>2. Held' /\ Contents' = Contents
  BY <1>1, StillContents DEF Reading
<1>3. PICK op : AtLeaf(op) /\ op \in {"access", "setBit", "rank1"}
                /\ (op = "access" => AccessLeaf) /\ (op = "setBit" => SetLeavesBit)
                /\ (op = "rank1" => RankLeaf)
  <2>1. CASE AccessLeaf
    <3>1. AtLeaf("access")
      BY <2>1 DEF AccessLeaf
    <3> QED  BY <2>1, <3>1
  <2>2. CASE RankLeaf
    <3>1. AtLeaf("rank1")
      BY <2>2 DEF RankLeaf
    <3> QED  BY <2>2, <3>1
  <2>3. CASE SetLeavesBit
    <3>1. AtLeaf("setBit")
      BY <2>3 DEF SetLeavesBit
    <3> QED  BY <2>3, <3>1
  <2> QED  BY <2>1, <2>2, <2>3
<1>4. PICK pre, post : Lies(T, pre, post)
  BY <1>3, LeafLies, LeafFacts
<1>5. PICK bv, k, n, i, j : /\ bv = Bv(node, at) /\ k = call.n - before.b /\ n = call.n
                            /\ i = k + 1 /\ j = n + 1
  OBVIOUS
<1>6. /\ bv \in Strings /\ Surrounds(Contents, pre, bv, post) /\ k \in 0..Len(bv)
      /\ pre \in Strings /\ post \in Strings /\ n = Len(pre) + k /\ n \in 0..Len(Contents)
      /\ node[at].bv = bv /\ call.op = op /\ call \in Calls /\ Contents \in Strings
      /\ Len(bv) \in Nat /\ k + Needed(op) <= Len(bv)
      /\ Len(pre) \in Nat /\ Len(post) \in Nat
      /\ Len(Contents) = Len(pre) + Len(bv) + Len(post)
  BY <1>3, <1>4, <1>5, LeafPlace
<1>7. ASSUME op # "rank1"
      PROVE  /\ i \in 1..Len(bv) /\ j = Len(pre) + i /\ n \in 0..(Len(Contents) - 1)
             /\ Contents[j] = bv[i] /\ bv[i] \in BOOLEAN
  <2>1. Needed(op) = 1
    BY <1>3, <1>7 DEF Needed
  <2>2. i \in 1..Len(bv) /\ j = Len(pre) + i /\ n \in 0..(Len(Contents) - 1)
    BY <1>5, <1>6, <2>1
  <2>3. bv[i] \in BOOLEAN
    BY <1>6, <2>2, ElementOfSeq DEF Strings
  <2>4. PICK w : w = bv[i]
    OBVIOUS
  <2>5. PICK x : x = [bv EXCEPT ![i] = w]
    OBVIOUS
  <2>6. PICK t : t = pre \o ([bv EXCEPT ![i] = w] \o post)
    OBVIOUS
  <2>7. Surrounds(t, pre, [bv EXCEPT ![i] = w], post)
    BY <2>6, Zenon DEF Surrounds
  <2>8. w \in BOOLEAN
    BY <2>3, <2>4
  <2>9. Contents[j] = bv[i]
    BY <1>6, <2>2, <2>7, <2>8, BitInside
  <2> QED  BY <2>2, <2>3, <2>9
<1>8. CASE op = "access"
  <2>1. reply' = [op |-> "access", n |-> n, result |-> bv[i]]
    BY <1>3, <1>5, <1>6, <1>8 DEF AccessLeaf, Answer
  <2>2. Vector!Access(n)
    BY <1>2, <1>5, <1>7, <1>8, <2>1 DEF Vector!Access
  <2> QED  BY <1>1, <1>2, <1>6, <2>2, ReturnReads DEF Vector!Next
<1>9. CASE op = "setBit"
  <2>1. /\ call.b \in BOOLEAN /\ bv[i] = call.b
        /\ reply' = [op |-> "setBit", n |-> n, b |-> call.b, result |-> FALSE]
    BY <1>3, <1>5, <1>6, <1>9 DEF SetLeavesBit, SetReply, Calls
  <2>2. PICK v \in BOOLEAN : v = call.b
    BY <2>1
  <2>3. Contents[n + 1] = v /\ FALSE = (Contents[n + 1] # v)
    BY <1>5, <1>7, <1>9, <2>1, <2>2
  <2>4. Contents' = [Contents EXCEPT ![n + 1] = v]
    BY <1>2, <1>5, <1>6, <1>7, <1>9, <2>3 DEF Strings
  <2>5. reply' = [op |-> "setBit", n |-> n, b |-> v, result |-> Contents[n + 1] # v]
    BY <2>1, <2>2, <2>3
  <2>6. Vector!Set(n, v)
    BY <1>7, <1>9, <2>4, <2>5, Zenon DEF Vector!Set
  <2>7. Vector!Next
    BY <1>6, <2>6, Zenon DEF Vector!Next
  <2> QED  BY <1>1, <1>2, <2>7, ReturnReads
<1>10. CASE op = "rank1"
  <2>1. CountsOnes
    BY <1>6, <1>10 DEF Reading, Asked
  <2>2. Vector!OnesBefore(Contents, n) = CountOnes(pre) + CountOnes(Prefix(bv, k))
    BY <1>6, <2>1, OnesInside
  <2>3. CountOnes(pre) = before.o
    BY <1>4 DEF Lies
  <2>4. reply' = [op |-> "rank1", n |-> n, result |-> before.o + CountOnes(Prefix(bv, k))]
    BY <1>3, <1>5, <1>6, <1>10 DEF RankLeaf, Answer
  <2>5. reply' = [op |-> "rank1", n |-> n, result |-> Vector!OnesBefore(Contents, n)]
    BY <2>2, <2>3, <2>4, Zenon
  <2>6. Vector!Rank(n)
    BY <1>2, <1>6, <2>5, Zenon DEF Vector!Rank
  <2>7. Vector!Next
    BY <1>6, <2>6, Zenon DEF Vector!Next
  <2> QED  BY <1>1, <1>2, <2>7, ReturnReads
<1> QED
  BY <1>3, <1>8, <1>9, <1>10


-----------------------------------------------------------------------------
(* The refinement.                                                         *)

\* At first the vector is empty.
LEMMA InitIs ==
  ASSUME Init
  PROVE  IInv /\ Reading /\ Vector!Init
<1>1. IInv
  BY InitGood
<1>2. PICK T, h : Good(T, h)
  BY <1>1 DEF IInv
<1>3. Tree(node, T, root, h) /\ Live = T /\ root \in T
  BY <1>2, GoodLive
<1>4. node = [n \in {1} |-> LeafNode(<<>>, nullptr)] /\ root = 1 /\ pc = "idle" /\ call = NoCall
      /\ reply = NoCall
  BY DEF Init, New
<1>5. IsLeaf(node, root) /\ Bv(node, root) = <<>>
  BY <1>4 DEF IsLeaf, Bv, LeafNode
<1>6. T = {root}
  <2>1. node[1].entries = [i \in Slots |-> EmptyEntry] /\ DOMAIN node = {1}
    BY <1>4 DEF LeafNode
  <2>2. ChildrenOf(1) = {}
    BY <2>1 DEF ChildrenOf, EmptyEntry
  <2> QED  BY <1>3, <2>1, <2>2 DEF Live
<1>7. PICK e \in Strings : e = <<>>
  BY Joins
<1>8. PICK c : c = [m \in T |-> e]
  OBVIOUS
<1>9. Spells(node, T, c)
  <2>1. c \in [T -> Strings]
    BY <1>8
  <2>2. ASSUME NEW m \in T PROVE c[m] = Spelt(node, c, m) /\ KidsIn(node, m, T)
    BY <1>5, <1>6, <1>7, <1>8 DEF Spelt, KidsIn
  <2> QED  BY <2>1, <2>2 DEF Spells
<1>10. Reading
  <2>1. Held
    BY <1>3, <1>9 DEF Held
  <2> QED  BY <1>4, <2>1 DEF Reading, Located, Asked, NoCall
<1>11. Contents = <<>>
  <2>1. BitsIn(node)[root] = c[root]
    BY <1>3, <1>9, SpeltBits
  <2>2. Contents = BitsIn(node)[root]
    BY <1>2, <1>10, HeldContents DEF Reading
  <2> QED  BY <1>3, <1>7, <1>8, <2>1, <2>2
<1> QED
  BY <1>1, <1>4, <1>10, <1>11 DEF Vector!Init, NoCall

\* Every step is one of the vector, or none.
LEMMA NextIs ==
  ASSUME IInv, Reading, Next
  PROVE  Reading' /\ (Vector!Next \/ Silent)
<1>1. PICK T, h : Good(T, h)
  BY DEF IInv
<1>2. CASE Start
  BY <1>1, <1>2, StartQuiet
<1>3. CASE Search
  BY <1>1, <1>3, GoUpQuiet, TurnDownQuiet, DescendQuiet DEF Search
<1>4. CASE UseLeaf
  BY <1>1, <1>4, ReadIs, InsertIs, DeleteIs, SetIs DEF UseLeaf
<1>5. CASE Count
  BY <1>1, <1>5, UpdateCountersQuiet, CountedQuiet DEF Count
<1>6. CASE checkSizeUpper
  BY <1>1, <1>6, FitsQuiet, GivesQuiet, RootQuiet, PartsQuiet DEF checkSizeUpper
<1>7. CASE checkSizeLower
  BY <1>1, <1>7, FitsQuiet, GivesQuiet, RootQuiet, PartsQuiet DEF checkSizeLower
<1> QED
  BY <1>2, <1>3, <1>4, <1>5, <1>6, <1>7 DEF Next, Run

\* A step that changes nothing is none of the vector.
LEMMA StutterIs ==
  ASSUME IInv, Reading, UNCHANGED vars
  PROVE  Reading' /\ Silent
<1>1. PICK T, h : Good(T, h)
  BY DEF IInv
<1>2. UNCHANGED <<node, root>> /\ UNCHANGED <<pc, call, at, before>> /\ reply' = reply
  BY DEF vars
<1>3. Held' /\ Contents' = Contents /\ Live' = T
  BY <1>1, <1>2, StillContents DEF Reading
<1>4. Live = T
  BY <1>1, GoodLive
<1>5. Located' /\ Asked'
  BY <1>2, <1>3, <1>4 DEF Reading, Located, Asked
<1> QED
  BY <1>2, <1>3, <1>5 DEF Reading, Silent

\* The B+tree implements the bit vector: each operation acts in one step, where it reads
\* or changes its leaf, and neither the search for the leaf nor what is done to the
\* counters and the nodes afterwards, through all spills, steals, splits and merges, changes
\* what the vector is.
THEOREM TreeImplementsVector == Spec => ImplementsVector
<1>1. Init => IInv /\ Reading /\ Vector!Init
  BY InitIs
<1>2. IInv /\ Reading /\ [Next]_vars => IInv' /\ Reading' /\ [Vector!Next]_<<Contents, reply>>
  <2> SUFFICES ASSUME IInv, Reading, [Next]_vars
               PROVE  IInv' /\ Reading' /\ [Vector!Next]_<<Contents, reply>>
    OBVIOUS
  <2>1. CASE Next
    BY <2>1, NextGood, NextIs DEF Silent
  <2>2. CASE UNCHANGED vars
    BY <2>2, StutterGood, StutterIs DEF Silent
  <2> QED  BY <2>1, <2>2
<1>3. Spec => Vector!Init /\ [][Vector!Next]_<<Contents, reply>>
  BY <1>1, <1>2, PTL DEF Spec
<1> QED
  BY <1>3 DEF ImplementsVector, Vector!Spec
-----------------------------------------------------------------------------
(* LTree.                                                                  *)

\* Every step of LTree.cpp is one of the B+tree.
LEMMA StepOfTree == NextLtree => Next
<1>1. StartLtree => Start
  BY DEF StartLtree, insertBlockLtree, deleteBlockLtree, setBitLtree, accessLtree, Start
<1>2. findLeaf2 \/ findChild => Search
  BY DEF findLeaf2, findChild, Search
<1>3. accessBit \/ setLeafBit \/ insertBits \/ deleteBits => UseLeaf
  BY DEF accessBit, setLeafBit, insertBits, deleteBits, UseLeaf
<1>4. updateCountersLtree \/ countersUpdated => Count
  BY DEF updateCountersLtree, countersUpdated, Count
<1>5. checkSizeUpperLtree => checkSizeUpper
  BY DEF checkSizeUpperLtree, upperFits, trySpillInternal, trySpillLeaf, splitInternal,
         splitLeaf, checkSizeUpper
<1>6. checkSizeLowerLtree => checkSizeLower
  BY DEF checkSizeLowerLtree, lowerFits, tryStealInternal, tryStealLeaf, mergeInternal,
         mergeLeaf, checkSizeLower
<1> QED
  BY <1>1, <1>2, <1>3, <1>4, <1>5, <1>6 DEF NextLtree, RunLtree, Next, Run

\* LTree implements the B+tree.
THEOREM LTreeIsTree == SpecLtree => Spec
  BY StepOfTree, PTL DEF SpecLtree, InitLtree, Spec

\* The counters of bits of every entry are those of its child, but for the one
\* that updateCounters is about to reach.
THEOREM LTreeCountersCurrent == SpecLtree => []CountersCurrent
  BY LTreeIsTree, TreeCountersCurrent, PTL

\* No operation of LTree misses the bit or the block it is about: no block lies
\* across two leaves.
THEOREM LTreeLeafHoldsPosition == SpecLtree => []LeafHoldsPosition
  BY LTreeIsTree, TreeLeafHoldsPosition, PTL

\* LTree implements a vector of bits: what its leaves spell, from left to right,
\* changes as the operation that returns says, and access answers a bit of it.
THEOREM LTreeImplementsVector == SpecLtree => ImplementsVector
  BY LTreeIsTree, TreeImplementsVector, PTL
=============================================================================
