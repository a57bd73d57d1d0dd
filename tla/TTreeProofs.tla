----------------------------- MODULE TTreeProofs -----------------------------
(***************************************************************************)
(* The invariants of the B+tree, for every size of its nodes, its leaves   *)
(* and its blocks.                                                         *)
(***************************************************************************)
EXTENDS TTreeSplits

-----------------------------------------------------------------------------
(* A tree whose counters may be out of date.                               *)

\* T are the nodes of the tree below r, h their heights.
Tree(heap, T, r, h) ==
  /\ Forest(heap, T, {r}, {}, h) /\ Lower(h, T, h[r])
  /\ r \in T /\ Up(heap, r) = nullptr /\ AllWhole(heap, T)

\* Every entry counts what is below it.
AllExact(heap, T, r) == \A m \in T : m # r => Exact(heap, m)

NaturalRows(heap, T) == \A m \in T : ~IsLeaf(heap, m) => NaturalRow(Row(heap, m))

\* The only node without a parent is the root.
LEMMA TreeUp ==
  ASSUME NEW heap, NEW T, NEW r, NEW h, Tree(heap, T, r, h), NEW m \in T
  PROVE  /\ Up(heap, m) = nullptr <=> m = r
         /\ m # r => /\ Up(heap, m) \in T /\ ~IsLeaf(heap, Up(heap, m)) /\ Up(heap, m) # m
                     /\ Index(heap, m) \in Slots /\ Index(heap, m) < Width(heap, Up(heap, m))
                     /\ Kid(Row(heap, Up(heap, m)), Index(heap, m)) = m
                     /\ h[Up(heap, m)] = h[m] + 1
                     /\ Entry(heap, m) \in [b : Int, o : Int, P : Nat]
                     /\ Entry(heap, m).b \in Int /\ Entry(heap, m).o \in Int
<1>1. PICK R, N : R = {r} /\ N = {} /\ Forest(heap, T, R, N, h)
  BY DEF Tree
<1>2. CASE m = r
  BY <1>2 DEF Tree
<1>3. CASE m # r
  <2>1. m \in T \ R
    BY <1>1, <1>3
  <2>2. /\ Up(heap, m) \in T /\ ~IsLeaf(heap, Up(heap, m))
        /\ Index(heap, m) \in Slots /\ Index(heap, m) < Width(heap, Up(heap, m))
        /\ Kid(Row(heap, Up(heap, m)), Index(heap, m)) = m
        /\ h[Up(heap, m)] = h[m] + 1
        /\ Entry(heap, m) \in [b : Int, o : Int, P : Nat]
        /\ Entry(heap, m).b \in Int /\ Entry(heap, m).o \in Int
    BY <1>1, <2>1, EntryFields
  <2>3. Up(heap, m) # nullptr /\ h[m] \in Nat
    BY <1>1, <2>2, ForestFields
  <2>4. Up(heap, m) # m
    BY <2>2, <2>3
  <2> QED  BY <1>3, <2>2, <2>3, <2>4
<1> QED
  BY <1>2, <1>3

\* The children of a node.
LEMMA TreeKid ==
  ASSUME NEW heap, NEW T, NEW r, NEW h, Tree(heap, T, r, h),
         NEW n \in T, ~IsLeaf(heap, n), NEW i \in Slots
  PROVE  IF i < Width(heap, n)
         THEN LET c == Kid(Row(heap, n), i)
              IN  /\ c \in T /\ c # r /\ c # n /\ Up(heap, c) = n /\ Index(heap, c) = i
                  /\ h[n] = h[c] + 1 /\ Entry(heap, c) = Slot(Row(heap, n), i)
         ELSE Slot(Row(heap, n), i) = EmptyEntry
<1>1. PICK R, N : R = {r} /\ N = {} /\ Forest(heap, T, R, N, h) /\ n \in T \ N
  BY DEF Tree
<1>2. CASE i < Width(heap, n)
  <2>1. PICK c : c = Kid(Row(heap, n), i)
    OBVIOUS
  <2>2. /\ c \in T \ R /\ Up(heap, c) = n /\ Index(heap, c) = i
        /\ h[n] = h[c] + 1 /\ Entry(heap, c) = Slot(Row(heap, n), i)
    BY <1>1, <1>2, <2>1, KidsOf
  <2>3. h[c] \in Nat
    BY <1>1, <2>2, ForestFields
  <2>4. c # n
    BY <2>2, <2>3
  <2> QED  BY <1>1, <1>2, <2>1, <2>2, <2>4
<1>3. CASE ~(i < Width(heap, n))
  BY <1>1, <1>3, KidsOf
<1> QED
  BY <1>2, <1>3

\* The neighbours of a node that is not the root.
LEMMA TreeSide ==
  ASSUME NEW heap, NEW T, NEW r, NEW h, Tree(heap, T, r, h),
         NEW a \in T, a # r, NEW i \in Slots, i < Width(heap, Up(heap, a)),
         i # Index(heap, a), NEW s, s = Kid(Row(heap, Up(heap, a)), i),
         NEW R, R = {r}, NEW N, N = {}
  PROVE  /\ Neighbours(heap, T, R, N, a, s) /\ Neighbours(heap, T, R, N, s, a)
         /\ s \in T /\ s # r /\ s # a /\ Index(heap, s) = i /\ Up(heap, s) = Up(heap, a)
         /\ IsLeaf(heap, s) = IsLeaf(heap, a)
<1>1. Up(heap, a) \in T /\ ~IsLeaf(heap, Up(heap, a)) /\ h[Up(heap, a)] = h[a] + 1
  BY TreeUp
<1>2. s \in T /\ s # r /\ Index(heap, s) = i /\ Up(heap, s) = Up(heap, a)
      /\ h[Up(heap, a)] = h[s] + 1
  BY <1>1, TreeKid
<1>3. Forest(heap, T, R, N, h)
  BY DEF Tree
<1>4. h[a] \in Nat /\ h[s] \in Nat
  BY <1>2, <1>3, ForestFields
<1>5. h[a] = h[s]
  BY <1>1, <1>2, <1>4
<1>6. (IsLeaf(heap, s) <=> h[s] = 0) /\ (IsLeaf(heap, a) <=> h[a] = 0)
  BY <1>2, <1>3 DEF Forest
<1>7. IsLeaf(heap, s) \in BOOLEAN /\ IsLeaf(heap, a) \in BOOLEAN
  <2>1. ASSUME NEW m \in T PROVE IsLeaf(heap, m) \in BOOLEAN
    <3>1. heap[m] \in RoughNodes
      BY <1>3, ForestFields, NamedAmounts
    <3> QED  BY <3>1 DEF IsLeaf, RoughNodes
  <2> QED  BY <1>2, <2>1
<1>8. Neighbours(heap, T, R, N, a, s) /\ Neighbours(heap, T, R, N, s, a)
  BY <1>2 DEF Neighbours
<1> QED
  BY <1>2, <1>5, <1>6, <1>7, <1>8

\* The nodes reached from r.
LiveIn(heap, r) ==
  {r} \cup UNION {{heap[n].entries[i].P : i \in Slots} \ {nullptr} : n \in DOMAIN heap}

\* They are the nodes of the tree.
LEMMA TreeIsLive ==
  ASSUME NEW heap, NEW T, NEW r, NEW h, Tree(heap, T, r, h)
  PROVE  LiveIn(heap, r) = T
<1>1. /\ r \in T /\ T \subseteq DOMAIN heap /\ T \subseteq Nat \ {nullptr}
      /\ \A m \in DOMAIN heap : m \notin T \/ IsLeaf(heap, m) => Row(heap, m) \in NoChildren
  BY DEF Tree, Forest, Heap
<1>2. ASSUME NEW n \in DOMAIN heap, NEW i \in Slots, heap[n].entries[i].P # nullptr
      PROVE  heap[n].entries[i].P \in T
  <2>1. PICK c : c = Kid(Row(heap, n), i) /\ c = heap[n].entries[i].P
    BY DEF Kid, Row
  <2>2. Row(heap, n) \notin NoChildren
    <3>1. ASSUME Row(heap, n) \in NoChildren PROVE FALSE
      <4>1. Row(heap, n)[i].P = nullptr
        BY <3>1 DEF NoChildren
      <4> QED  BY <1>2, <2>1, <4>1 DEF Kid
    <3> QED  BY <3>1
  <2>3. n \in T /\ ~IsLeaf(heap, n)
    BY <1>1, <2>2
  <2>4. i < Width(heap, n)
    <3>1. Slot(Row(heap, n), i) # EmptyEntry
      <4>1. Slot(Row(heap, n), i).P # nullptr
        BY <1>2, <2>1 DEF Slot, Kid
      <4> QED  BY <4>1 DEF EmptyEntry
    <3> QED  BY <2>3, <3>1, TreeKid
  <2> QED  BY <2>1, <2>3, <2>4, TreeKid
<1>3. ASSUME NEW m \in T, m # r
      PROVE  \E n \in DOMAIN heap : m \in {heap[n].entries[i].P : i \in Slots} \ {nullptr}
  <2>1. PICK n \in T, i \in Slots : m = Kid(Row(heap, n), i)
    BY <1>3, TreeUp
  <2>2. m = heap[n].entries[i].P /\ n \in DOMAIN heap /\ m # nullptr
    BY <1>1, <2>1 DEF Kid, Row
  <2> QED  BY <2>2
<1>4. ASSUME NEW m \in LiveIn(heap, r) PROVE m \in T
  BY <1>1, <1>2 DEF LiveIn
<1>5. ASSUME NEW m \in T PROVE m \in LiveIn(heap, r)
  BY <1>3 DEF LiveIn
<1> QED
  BY <1>4, <1>5

\* A sum of whole numbers of blocks is whole.
LEMMA WholeSumBelow ==
  ASSUME NEW f \in Numbers, \A i \in Slots : Whole(f[i]), NEW n \in 0..(NodeSizeMax + 1)
  PROVE  Whole(SumBelow(f, n))
<1> DEFINE S == {i \in 0..(NodeSizeMax + 1) : Whole(SumBelow(f, i))}
<1>1. 0 \in S
  <2>1. Whole(SumBelow(f, 0))
    BY Sums, WholeSums
  <2> QED  BY <2>1, SizesAssumption
<1>2. ASSUME NEW i \in 0..NodeSizeMax, i \in S PROVE i + 1 \in S
  <2>1. i \in Slots /\ i \in 0..(NodeSizeMax + 1) /\ i + 1 \in 0..(NodeSizeMax + 1)
    BY SizesAssumption DEF Slots
  <2>2. SumBelow(f, i + 1) = SumBelow(f, i) + f[i]
    BY <2>1, Sums
  <2>3. SumBelow(f, i) \in Int /\ f[i] \in Int /\ Whole(SumBelow(f, i)) /\ Whole(f[i])
    BY <1>2, <2>1, Sums DEF Numbers
  <2>4. Whole(SumBelow(f, i) + f[i])
    BY <2>3, WholeSums
  <2> QED  BY <2>1, <2>2, <2>4
<1> HIDE DEF S
<1>3. n \in S
  BY <1>1, <1>2, UpTo, SizesAssumption
<1> QED
  BY <1>3 DEF S

\* What node m holds is a natural number of bits, of whole blocks, and of ones.
Holds(heap, m) == Bits(heap, m) \in Nat /\ Whole(Bits(heap, m)) /\ OnesAt(heap, m) \in Nat

WholeRow(row) == \A i \in Slots : Whole(Slot(row, i).b)

\* A node whose children do so does so.
LEMMA NaturalNode ==
  ASSUME NEW heap, Heap(heap), NEW m \in DOMAIN heap, ~IsLeaf(heap, m),
         NaturalRow(Row(heap, m)), WholeRow(Row(heap, m))
  PROVE  Holds(heap, m)
<1>1. PICK row \in Rows : row = Row(heap, m)
  BY NamedAmounts
<1>2. Bits(heap, m) = Total(Bs(row)) /\ OnesAt(heap, m) = Total(Os(row))
  BY <1>1, NamedAmounts
<1>3. Bs(row) \in [Slots -> Nat] /\ Os(row) \in [Slots -> Nat] /\ Bs(row) \in Numbers
  BY <1>1 DEF NaturalRow, Bs, Os, Numbers
<1>4. \A i \in Slots : Whole(Bs(row)[i])
  BY <1>1 DEF WholeRow, Bs, Slot
<1>5. NodeSizeMax + 1 \in 0..(NodeSizeMax + 1)
  BY SizesAssumption
<1>6. Total(Bs(row)) \in Nat /\ Total(Os(row)) \in Nat
  BY <1>3, <1>5, NaturalSums DEF Total
<1>7. Whole(Total(Bs(row)))
  BY <1>3, <1>4, <1>5, WholeSumBelow DEF Total
<1> QED
  BY <1>2, <1>6, <1>7 DEF Holds

\* When every counter is right, all of them are natural numbers.
LEMMA TreeNumbers ==
  ASSUME NEW heap, NEW T, NEW r, NEW h, Tree(heap, T, r, h), AllExact(heap, T, r)
  PROVE  NaturalRows(heap, T) /\ \A m \in T : Holds(heap, m)
<1>1. /\ Heap(heap) /\ T \subseteq DOMAIN heap /\ r \in T /\ h[r] \in Nat
      /\ \A m \in T : h[m] \in Nat /\ h[m] <= h[r] /\ (IsLeaf(heap, m) <=> h[m] = 0)
  <2>1. PICK R, N : R = {r} /\ N = {} /\ Forest(heap, T, R, N, h)
    BY DEF Tree
  <2>2. /\ Heap(heap) /\ T \subseteq DOMAIN heap
        /\ \A m \in T : IsLeaf(heap, m) <=> h[m] = 0
    BY <2>1 DEF Forest
  <2>3. \A m \in T : h[m] \in Nat
    BY <2>1, ForestFields
  <2> QED  BY <2>2, <2>3 DEF Tree, Lower
<1> DEFINE Good(m) == Holds(heap, m) /\ (~IsLeaf(heap, m) => NaturalRow(Row(heap, m)))
           S == {k \in 0..h[r] : \A m \in T : h[m] <= k => Good(m)}
<1>2. 0 \in S
  <2>1. ASSUME NEW m \in T, h[m] <= 0 PROVE Good(m)
    <3>1. IsLeaf(heap, m) /\ m \in DOMAIN heap
      BY <1>1, <2>1
    <3>2. /\ Bits(heap, m) = Len(Bv(heap, m)) /\ OnesAt(heap, m) = CountOnes(Bv(heap, m))
          /\ Bv(heap, m) \in Seq(BOOLEAN)
      BY <1>1, <3>1, NamedAmounts
    <3>3. Len(Bv(heap, m)) \in Nat /\ CountOnes(Bv(heap, m)) \in Nat
      BY <3>2, OnesType
    <3>4. Whole(Len(Bv(heap, m)))
      BY DEF Tree, AllWhole
    <3> QED  BY <3>1, <3>2, <3>3, <3>4 DEF Holds
  <2> HIDE DEF Good
  <2> QED  BY <1>1, <2>1
<1>3. ASSUME NEW k \in 0..(h[r] - 1), k \in S PROVE k + 1 \in S
  <2>1. ASSUME NEW m \in T, h[m] = k + 1 PROVE Good(m)
    <3>1. ~IsLeaf(heap, m) /\ m \in DOMAIN heap /\ Row(heap, m) \in Rows
      BY <1>1, <2>1, NamedAmounts
    <3>2. ASSUME NEW i \in Slots
          PROVE  /\ Slot(Row(heap, m), i) \in [b : Nat, o : Nat, P : Nat]
                 /\ Whole(Slot(Row(heap, m), i).b)
      <4>1. CASE i < Width(heap, m)
        <5>1. PICK c \in T : /\ c # r /\ h[m] = h[c] + 1
                             /\ Entry(heap, c) = Slot(Row(heap, m), i)
          BY <3>1, <4>1, TreeKid
        <5>2. Holds(heap, c)
          <6>1. h[c] <= k
            BY <1>1, <2>1, <5>1
          <6> QED  BY <1>3, <6>1
        <5>3. Exact(heap, c) /\ Slot(Row(heap, m), i) \in [b : Int, o : Int, P : Nat]
          BY <3>1, <5>1, RowFields DEF AllExact
        <5>4. PICK e \in [b : Int, o : Int, P : Nat] : e = Slot(Row(heap, m), i)
          BY <5>3
        <5>5. e.b \in Nat /\ e.o \in Nat /\ Whole(e.b)
          BY <5>1, <5>2, <5>3, <5>4 DEF Holds, Exact
        <5> QED  BY <5>4, <5>5
      <4>2. CASE ~(i < Width(heap, m))
        <5>1. Slot(Row(heap, m), i) = EmptyEntry
          BY <3>1, <4>2, TreeKid
        <5> QED  BY <5>1, WholeSums DEF EmptyEntry, nullptr
      <4> QED  BY <4>1, <4>2
    <3>3. NaturalRow(Row(heap, m))
      BY <3>1, <3>2 DEF NaturalRow, Rows, Slot
    <3>4. WholeRow(Row(heap, m))
      BY <3>2 DEF WholeRow
    <3> QED  BY <1>1, <3>1, <3>3, <3>4, NaturalNode
  <2>2. ASSUME NEW m \in T, h[m] <= k + 1 PROVE Good(m)
    <3> HIDE DEF Good
    <3>1. h[m] = k + 1 \/ h[m] <= k
      BY <1>1, <2>2
    <3> QED  BY <1>3, <2>1, <3>1
  <2> HIDE DEF Good
  <2> QED  BY <1>1, <2>2
<1> HIDE DEF S
<1>4. h[r] \in S
  BY <1>1, <1>2, <1>3, UpTo
<1>5. \A m \in T : Good(m)
  BY <1>1, <1>4 DEF S
<1> QED
  BY <1>5 DEF NaturalRows

-----------------------------------------------------------------------------
(* Sizes.                                                                  *)

MaxOf(heap, m) == IF IsLeaf(heap, m) THEN LeafSizeMax ELSE NodeSizeMax
MinOf(heap, m) == IF IsLeaf(heap, m) THEN leafSizeMin ELSE nodeSizeMin

\* The size of node m, up to `up` too large and `down` too small.
Fits(heap, r, m, up, down) ==
  /\ SizeOf(heap, m) <= MaxOf(heap, m) + up
  /\ m # r => SizeOf(heap, m) >= MinOf(heap, m) - down
  /\ m = r /\ ~IsLeaf(heap, m) => SizeOf(heap, m) >= 2 - down

AllFit(heap, T, r) == \A m \in T : Fits(heap, r, m, 0, 0)

\* All nodes fit, only node a may be too large or too small.
FitsBut(heap, T, r, a, up, down) ==
  /\ Fits(heap, r, a, up, down)
  /\ \A m \in T : m # a => Fits(heap, r, m, 0, 0)

\* The bounds leave room for a split and for a merge.
LEMMA Bounds ==
  ASSUME NEW heap, NEW m
  PROVE  /\ MaxOf(heap, m) \in Nat /\ MinOf(heap, m) \in Nat
         /\ 1 <= MinOf(heap, m) /\ MinOf(heap, m) <= MaxOf(heap, m)
         /\ MinOf(heap, m) + MinOf(heap, m) <= MaxOf(heap, m) + 1
         /\ (MaxOf(heap, m) + 1) \div 2 = MinOf(heap, m)
         /\ MaxOf(heap, m) + 1 - MinOf(heap, m) <= MaxOf(heap, m)
         /\ ~IsLeaf(heap, m) => 2 <= MinOf(heap, m) /\ MaxOf(heap, m) = NodeSizeMax
<1>1. ASSUME NEW k \in Nat, k >= 1
      PROVE  LET q == (k + 1) \div 2
             IN  /\ q \in Nat /\ 1 <= q /\ q <= k /\ q + q <= k + 1 /\ k + 1 - q <= k
                 /\ k >= 3 => 2 <= q
  BY <1>1
<1>2. CASE IsLeaf(heap, m)
  BY <1>1, <1>2, SizesAssumption DEF MaxOf, MinOf, leafSizeMin
<1>3. CASE ~IsLeaf(heap, m)
  BY <1>1, <1>3, SizesAssumption DEF MaxOf, MinOf, nodeSizeMin
<1> QED
  BY <1>2, <1>3

\* Sizes are natural numbers.
LEMMA SizeType ==
  ASSUME NEW heap, NEW T, NEW r, NEW h, Tree(heap, T, r, h), NEW m \in T
  PROVE  SizeOf(heap, m) \in Nat
<1>1. Heap(heap) /\ m \in DOMAIN heap
  BY DEF Tree, Forest
<1>2. Width(heap, m) \in Nat /\ Len(Bv(heap, m)) \in Nat
  BY <1>1, NamedAmounts, SizesAssumption
<1>3. Whole(Len(Bv(heap, m)))
  BY DEF Tree, AllWhole
<1>4. Blocks(Len(Bv(heap, m))) \in Nat
  BY <1>2, <1>3, Quotients
<1> QED
  BY <1>2, <1>4, SizeFields

\* A node of the same kind and size fits as before.
LEMMA SameFit ==
  ASSUME NEW heap, NEW H, NEW r, NEW m, NEW up, NEW down,
         IsLeaf(H, m) = IsLeaf(heap, m), SizeOf(H, m) = SizeOf(heap, m)
  PROVE  /\ Fits(H, r, m, up, down) <=> Fits(heap, r, m, up, down)
         /\ MaxOf(H, m) = MaxOf(heap, m) /\ MinOf(H, m) = MinOf(heap, m)
  BY DEF Fits, MaxOf, MinOf

-----------------------------------------------------------------------------
(* What spilling, stealing, splitting and merging leave: a tree again,     *)
(* with every counter right.                                               *)

Restored(heap, T, r, h) ==
  Tree(heap, T, r, h) /\ AllExact(heap, T, r) /\ AllFit(heap, T, r)

\* All nodes fit but perhaps n and s.
OthersFit(heap, T, r, n, s) == \A m \in T : m # n /\ m # s => Fits(heap, r, m, 0, 0)

\* With d more, node m has the size it should have.
InBounds(heap, m, d) ==
  MinOf(heap, m) <= SizeOf(heap, m) + d /\ SizeOf(heap, m) + d <= MaxOf(heap, m)

\* A counter that was right and kept its distance is right.
LEMMA ExactKept ==
  ASSUME NEW heap, NEW T, NEW R, NEW N, NEW h, Forest(heap, T, R, N, h),
         NEW H, NEW U, NEW S, NEW M, NEW g, Forest(H, U, S, M, g),
         NEW m, m \in T \ R, m \in U \ S, SameGap(heap, H, m), Exact(heap, m)
  PROVE  Exact(H, m)
<1>1. /\ Bits(heap, m) \in Int /\ OnesAt(heap, m) \in Int
      /\ Entry(heap, m).b \in Int /\ Entry(heap, m).o \in Int
  BY ForestFields, EntryFields
<1>2. /\ Bits(H, m) \in Int /\ OnesAt(H, m) \in Int
      /\ Entry(H, m).b \in Int /\ Entry(H, m).o \in Int
  BY ForestFields, EntryFields
<1> QED
  BY <1>1, <1>2 DEF SameGap, Exact

\* A child or a block has moved from n to s.
LEMMA MovedTree ==
  ASSUME NEW heap, NEW T, NEW r, NEW h, Tree(heap, T, r, h), AllExact(heap, T, r),
         NEW n \in T, NEW s \in T, n # r, s # r, n # s,
         NEW R, R = {r}, NEW N, N = {}, NEW H, Forest(H, T, R, N, h),
         Moved(heap, H, T, R, n, s), OthersFit(heap, T, r, n, s),
         InBounds(heap, n, -1), InBounds(heap, s, 1)
  PROVE  Restored(H, T, r, h)
<1>1. Forest(heap, T, R, N, h)
  BY DEF Tree
<1>2. /\ AllWhole(H, T) /\ SameRoots(heap, H, R)
      /\ \A m \in T : /\ IsLeaf(H, m) = IsLeaf(heap, m)
                      /\ m # n /\ m # s => SizeOf(H, m) = SizeOf(heap, m)
      /\ SizeOf(H, n) = SizeOf(heap, n) - 1 /\ SizeOf(H, s) = SizeOf(heap, s) + 1
      /\ \A m \in T \ R : SameGap(heap, H, m)
  BY DEF Moved
<1>3. Tree(H, T, r, h)
  BY <1>2 DEF Tree, SameRoots
<1>4. AllExact(H, T, r)
  <2>1. ASSUME NEW m \in T, m # r PROVE Exact(H, m)
    <3>1. m \in T \ R /\ Exact(heap, m) /\ SameGap(heap, H, m)
      BY <1>2, <2>1 DEF AllExact
    <3> QED  BY <1>1, <3>1, ExactKept
  <2> QED  BY <2>1 DEF AllExact
<1>5. ASSUME NEW m \in T PROVE Fits(H, r, m, 0, 0)
  <2>1. CASE m # n /\ m # s
    BY <1>2, <2>1, SameFit DEF OthersFit
  <2>2. CASE m = n
    <3>1. MaxOf(H, n) = MaxOf(heap, n) /\ MinOf(H, n) = MinOf(heap, n)
      BY <1>2 DEF MaxOf, MinOf
    <3>2. SizeOf(heap, n) \in Nat /\ MaxOf(heap, n) \in Nat /\ MinOf(heap, n) \in Nat
      BY SizeType, Bounds
    <3> QED  BY <1>2, <2>2, <3>1, <3>2 DEF InBounds, Fits
  <2>3. CASE m = s
    <3>1. MaxOf(H, s) = MaxOf(heap, s) /\ MinOf(H, s) = MinOf(heap, s)
      BY <1>2 DEF MaxOf, MinOf
    <3>2. SizeOf(heap, s) \in Nat /\ MaxOf(heap, s) \in Nat /\ MinOf(heap, s) \in Nat
      BY SizeType, Bounds
    <3> QED  BY <1>2, <2>3, <3>1, <3>2 DEF InBounds, Fits
  <2> QED  BY <2>1, <2>2, <2>3
<1> QED
  BY <1>3, <1>4, <1>5 DEF Restored, AllFit

\* n may give and s may take.
LEMMA MayMove ==
  ASSUME NEW heap, NEW T, NEW r, NEW h, Tree(heap, T, r, h), NEW n \in T, NEW s \in T,
         IsLeaf(heap, s) = IsLeaf(heap, n), InBounds(heap, n, -1), InBounds(heap, s, 1)
  PROVE  CanMove(heap, n, s)
<1>1. SizeOf(heap, n) \in Nat /\ SizeOf(heap, s) \in Nat
  BY SizeType
<1>2. 1 <= MinOf(heap, n) /\ MinOf(heap, n) \in Nat
      /\ (~IsLeaf(heap, s) => MaxOf(heap, s) = NodeSizeMax) /\ MaxOf(heap, s) \in Nat
  BY Bounds
<1> QED
  BY <1>1, <1>2 DEF InBounds, CanMove

\* moveLeft: n gives to the sibling before it.
LEMMA GiveLeft ==
  ASSUME NEW heap, NEW T, NEW r, NEW h, Tree(heap, T, r, h), AllExact(heap, T, r),
         NEW n \in T, n # r, NEW i \in Slots, i = Index(heap, n) - 1,
         NEW s, s = Kid(Row(heap, Up(heap, n)), i),
         OthersFit(heap, T, r, n, s), InBounds(heap, n, -1), InBounds(heap, s, 1)
  PROVE  Restored(MoveLeft(heap, n), T, r, h)
<1>1. PICK R, N : R = {r} /\ N = {} /\ Forest(heap, T, R, N, h) /\ AllWhole(heap, T)
  BY DEF Tree
<1>2. i < Width(heap, Up(heap, n)) /\ i # Index(heap, n)
  <2>1. Index(heap, n) \in Slots /\ Index(heap, n) < Width(heap, Up(heap, n))
        /\ Up(heap, n) \in T
    BY TreeUp
  <2>2. Width(heap, Up(heap, n)) \in 0..(NodeSizeMax + 1)
    BY <1>1, <2>1, ForestFields
  <2> QED  BY <2>1, <2>2, SizesAssumption DEF Slots
<1>3. /\ Neighbours(heap, T, R, N, n, s) /\ s \in T /\ s # r /\ s # n
      /\ Index(heap, s) = Index(heap, n) - 1 /\ IsLeaf(heap, s) = IsLeaf(heap, n)
  BY <1>1, <1>2, TreeSide
<1>4. CanMove(heap, n, s)
  BY <1>3, MayMove
<1>5. PICK H : H = MoveLeft(heap, n)
  OBVIOUS
<1>6. Forest(H, T, R, N, h) /\ Moved(heap, H, T, R, n, s)
  BY <1>1, <1>3, <1>4, <1>5, MoveLeftForest
<1> QED
  BY <1>1, <1>3, <1>5, <1>6, MovedTree

\* moveRight: n gives to the sibling after it.
LEMMA GiveRight ==
  ASSUME NEW heap, NEW T, NEW r, NEW h, Tree(heap, T, r, h), AllExact(heap, T, r),
         NEW n \in T, n # r, NEW i \in Slots, i = Index(heap, n) + 1,
         i < Width(heap, Up(heap, n)),
         NEW s, s = Kid(Row(heap, Up(heap, n)), i),
         OthersFit(heap, T, r, n, s), InBounds(heap, n, -1), InBounds(heap, s, 1)
  PROVE  Restored(MoveRight(heap, n), T, r, h)
<1>1. PICK R, N : R = {r} /\ N = {} /\ Forest(heap, T, R, N, h) /\ AllWhole(heap, T)
  BY DEF Tree
<1>2. i # Index(heap, n)
  <2>1. Index(heap, n) \in Slots
    BY TreeUp
  <2> QED  BY <2>1, SizesAssumption DEF Slots
<1>3. /\ Neighbours(heap, T, R, N, n, s) /\ s \in T /\ s # r /\ s # n
      /\ Index(heap, s) = Index(heap, n) + 1 /\ IsLeaf(heap, s) = IsLeaf(heap, n)
  BY <1>1, <1>2, TreeSide
<1>4. CanMove(heap, n, s)
  BY <1>3, MayMove
<1>5. PICK H : H = MoveRight(heap, n)
  OBVIOUS
<1>6. Forest(H, T, R, N, h) /\ Moved(heap, H, T, R, n, s)
  BY <1>1, <1>3, <1>4, <1>5, MoveRightForest
<1> QED
  BY <1>1, <1>3, <1>5, <1>6, MovedTree

\* n is one too large for its bounds.
Overfull(heap, n) == SizeOf(heap, n) = MaxOf(heap, n) + 1

\* The halves of an overfull node fit.
LEMMA HalvesFit ==
  ASSUME NEW heap, NEW n, NEW H, NEW new, NEW r, n # r, new # r, Overfull(heap, n),
         IsLeaf(H, n) = IsLeaf(heap, n), IsLeaf(H, new) = IsLeaf(heap, n),
         SizeOf(H, n) = SizeOf(heap, n) \div 2,
         SizeOf(H, n) + SizeOf(H, new) = SizeOf(heap, n), SizeOf(H, new) \in Int
  PROVE  Fits(H, r, n, 0, 0) /\ Fits(H, r, new, 0, 0)
<1>1. PICK max \in Nat, min \in Nat :
        /\ max = MaxOf(heap, n) /\ min = MinOf(heap, n) /\ min <= max
        /\ min + min <= max + 1 /\ (max + 1) \div 2 = min /\ max + 1 - min <= max
  BY Bounds
<1>2. /\ MaxOf(H, n) = max /\ MinOf(H, n) = min /\ MaxOf(H, new) = max /\ MinOf(H, new) = min
  BY <1>1 DEF MaxOf, MinOf
<1>3. PICK k \in Int : k = SizeOf(H, new)
  OBVIOUS
<1>4. SizeOf(H, n) = min
  BY <1>1 DEF Overfull
<1>5. min + k = max + 1
  BY <1>1, <1>3, <1>4 DEF Overfull
<1>6. k <= max /\ k >= min
  BY <1>1, <1>5
<1>7. Fits(H, r, n, 0, 0)
  BY <1>1, <1>2, <1>4 DEF Fits
<1>8. Fits(H, r, new, 0, 0)
  BY <1>1, <1>2, <1>3, <1>6 DEF Fits
<1> QED
  BY <1>7, <1>8

\* A split of a node that has a parent leaves only the parent too large.
LEMMA SplitTree ==
  ASSUME NEW heap, NEW T, NEW r, NEW h, Tree(heap, T, r, h), AllExact(heap, T, r),
         NEW n \in T, n # r, FitsBut(heap, T, r, n, 1, 0), Overfull(heap, n),
         NEW new, new = Unused(heap), NEW U, U = T \cup {new}, NEW g, g = Raised(h, new, h[n])
  PROVE  LET H == AddSibling(Halve(heap, n, new), n, new)
             p == Up(heap, n)
         IN  /\ Tree(H, U, r, g) /\ AllExact(H, U, r) /\ FitsBut(H, U, r, p, 1, 0)
             /\ p \in U /\ p \in T /\ new \notin T /\ Parted(heap, H, T, p, Index(heap, n), n, new)
<1>1. PICK R, N : /\ R = {r} /\ N = {} /\ Forest(heap, T, R, N, h) /\ AllWhole(heap, T)
                  /\ n \in T \ R /\ n \notin N
  BY DEF Tree
<1>2. new \in Nat \ {nullptr} /\ new \notin DOMAIN heap /\ new \notin T /\ new \notin N
      /\ Heap(heap) /\ T \subseteq DOMAIN heap
  BY <1>1, UnusedAddress DEF Forest
<1>3. PICK p \in T : /\ p = Up(heap, n) /\ ~IsLeaf(heap, p) /\ p # n /\ h[p] = h[n] + 1
  BY TreeUp
<1>4. Width(heap, p) <= NodeSizeMax /\ SizeOf(heap, p) \in Nat
  <2>1. SizeOf(heap, p) = Width(heap, p) /\ MaxOf(heap, p) = NodeSizeMax
    BY <1>3, SizeFields DEF MaxOf
  <2>2. Fits(heap, r, p, 0, 0)
    BY <1>3 DEF FitsBut
  <2> QED  BY <2>1, <2>2, SizeType, SizesAssumption DEF Fits
<1>5. PICK H : H = AddSibling(Halve(heap, n, new), n, new)
  OBVIOUS
<1>6. Forest(H, U, R, N, g) /\ SplitOff(heap, H, T, R, n, new)
  BY <1>1, <1>2, <1>3, <1>4, <1>5, AddSiblingForest
<1>7. /\ AllWhole(H, U)
      /\ \A m \in T : /\ IsLeaf(H, m) = IsLeaf(heap, m)
                      /\ m # n /\ m # p => SizeOf(H, m) = SizeOf(heap, m)
      /\ IsLeaf(H, new) = IsLeaf(heap, n)
      /\ SizeOf(H, p) = SizeOf(heap, p) + 1
      /\ SizeOf(H, n) = SizeOf(heap, n) \div 2
      /\ SizeOf(H, n) + SizeOf(H, new) = SizeOf(heap, n)
      /\ SameRoots(heap, H, R) /\ \A m \in T \ R : SameGap(heap, H, m)
      /\ Bits(H, new) = Entry(H, new).b /\ OnesAt(H, new) = Entry(H, new).o
  BY <1>3, <1>6 DEF SplitOff
<1>8. Tree(H, U, r, g)
  <2>1. h \in [Nat -> Nat] /\ \A m \in T : h[m] \in Nat /\ m \in Nat /\ h[m] <= h[r]
    <3>1. h \in [Nat -> Nat]
      BY <1>1 DEF Forest
    <3>2. ASSUME NEW m \in T PROVE h[m] \in Nat /\ m \in Nat
      BY <1>1, ForestFields
    <3> QED  BY <3>1, <3>2 DEF Tree, Lower
  <2>2. r \in T /\ r # new
    BY <1>2 DEF Tree
  <2>3. g[r] = h[r] /\ g[new] = h[n] /\ \A m \in T : g[m] = h[m]
    BY <1>2, <2>1, <2>2 DEF Raised
  <2>4. Lower(g, U, g[r])
    BY <2>1, <2>3 DEF Lower
  <2>5. r \in U /\ Up(H, r) = nullptr
    BY <1>1, <1>7, <2>2 DEF Tree, SameRoots
  <2> QED  BY <1>1, <1>6, <1>7, <2>4, <2>5 DEF Tree
<1>9. AllExact(H, U, r)
  <2>1. ASSUME NEW m \in T, m # r PROVE Exact(H, m)
    <3>1. m \in T \ R /\ m \in U \ R /\ Exact(heap, m) /\ SameGap(heap, H, m)
      BY <1>1, <1>7, <2>1 DEF AllExact
    <3> QED  BY <1>1, <1>6, <3>1, ExactKept
  <2>2. Exact(H, new)
    BY <1>7 DEF Exact
  <2> QED  BY <2>1, <2>2 DEF AllExact
<1>10. FitsBut(H, U, r, p, 1, 0)
  <2>1. new # r
    BY <1>2 DEF Tree
  <2>2. SizeOf(H, new) \in Int
    BY <1>8, SizeType
  <2>3. Fits(H, r, n, 0, 0) /\ Fits(H, r, new, 0, 0)
    BY <1>7, <2>1, <2>2, HalvesFit
  <2>4. ASSUME NEW m \in T, m # n, m # p PROVE Fits(H, r, m, 0, 0)
    BY <1>7, <2>4, SameFit DEF FitsBut
  <2>5. Fits(H, r, p, 1, 0)
    <3>1. Fits(heap, r, p, 0, 0)
      BY <1>3 DEF FitsBut
    <3>2. MaxOf(H, p) = MaxOf(heap, p) /\ MinOf(H, p) = MinOf(heap, p)
      BY <1>7 DEF MaxOf, MinOf
    <3>3. MaxOf(heap, p) \in Nat /\ MinOf(heap, p) \in Nat
      BY Bounds
    <3> QED  BY <1>4, <1>7, <3>1, <3>2, <3>3 DEF Fits
  <2> QED  BY <2>3, <2>4, <2>5 DEF FitsBut
<1>11. Parted(heap, H, T, p, Index(heap, n), n, new)
  BY <1>3, <1>6 DEF SplitOff
<1> QED
  BY <1>2, <1>3, <1>5, <1>8, <1>9, <1>10, <1>11

\* The old root is one node in `joined` and two, below a new root, in `parted`.
RootParted(joined, parted, T, r, new, top) ==
  /\ new \notin T /\ top \notin T /\ top # new
  /\ Pairs(parted, top, r, new) /\ Together(joined, parted, r, new)
  /\ \A m \in T : m # r => SameNode(joined, parted, m)

\* A split of the root leaves a tree that is one higher.
LEMMA SplitRootTree ==
  ASSUME NEW heap, NEW T, NEW r, NEW h, Tree(heap, T, r, h), AllExact(heap, T, r),
         FitsBut(heap, T, r, r, 1, 0), Overfull(heap, r),
         NEW new, new = Unused(heap), NEW top, top = Unused(Halve(heap, r, new)),
         NEW U, U = T \cup {new, top}, NEW k, k = h[r] + 1,
         NEW g, g = Raised(Raised(h, new, h[r]), top, k)
  PROVE  LET H == AddRoot(Halve(heap, r, new), r, new, top)
         IN  Restored(H, U, top, g) /\ RootParted(heap, H, T, r, new, top)
<1>1. PICK R, N : /\ R = {r} /\ N = {} /\ Forest(heap, T, R, N, h) /\ AllWhole(heap, T)
                  /\ r \in R /\ r \notin N /\ r \in T \ N
  BY DEF Tree
<1>2. new \in Nat \ {nullptr} /\ new \notin DOMAIN heap /\ new \notin T /\ new \notin N
      /\ Heap(heap) /\ T \subseteq DOMAIN heap
  BY <1>1, UnusedAddress DEF Forest
<1>3. /\ top \in Nat \ {nullptr} /\ top \notin DOMAIN heap /\ top # new
      /\ top \notin N /\ top \notin T
  <2>1. PICK X, V, S, f : /\ X = Halve(heap, r, new) /\ V = T \cup {new}
                          /\ S = R \cup {new} /\ f = Raised(h, new, h[r])
    OBVIOUS
  <2>2. Forest(X, V, S, N, f) /\ Halved(heap, X, T, R, r, new)
    BY <1>1, <1>2, <2>1, HalveForest
  <2>3. Heap(X) /\ DOMAIN X = DOMAIN heap \cup {new}
    BY <2>2 DEF Forest, Halved
  <2>4. top \in Nat \ {nullptr} /\ top \notin DOMAIN X
    BY <2>1, <2>3, UnusedAddress
  <2> QED  BY <1>1, <1>2, <2>3, <2>4
<1>4. PICK S : S = {top} /\ S = (R \ {r}) \cup {top}
  BY <1>1
<1>5. PICK H : H = AddRoot(Halve(heap, r, new), r, new, top)
  OBVIOUS
<1>6. h[r] \in Nat /\ k \in Nat
  <2>1. h[r] \in Nat
    BY <1>1, ForestFields
  <2> QED  BY <2>1
<1>7. Forest(H, U, S, N, g) /\ RootSplit(heap, H, T, R, r, new, top)
  <2>1. /\ Forest(heap, T, R, N, h) /\ r \in R /\ r \notin N /\ AllWhole(heap, T)
        /\ new \in Nat \ {nullptr} /\ new \notin DOMAIN heap /\ new \notin N
        /\ top \in Nat \ {nullptr} /\ top \notin DOMAIN heap /\ top # new /\ top \notin N
    BY <1>1, <1>2, <1>3
  <2>2. S = (R \ {r}) \cup {top} /\ k \in Nat
    BY <1>4, <1>6
  <2> QED  BY <2>1, <2>2, <1>5, SplitRootForest
<1>8. /\ AllWhole(H, U)
      /\ \A m \in T : /\ IsLeaf(H, m) = IsLeaf(heap, m)
                      /\ m # r => SizeOf(H, m) = SizeOf(heap, m)
      /\ IsLeaf(H, new) = IsLeaf(heap, r) /\ ~IsLeaf(H, top)
      /\ SizeOf(H, r) = SizeOf(heap, r) \div 2
      /\ SizeOf(H, r) + SizeOf(H, new) = SizeOf(heap, r)
      /\ SizeOf(H, top) = 2 /\ Up(H, top) = nullptr
      /\ \A m \in T \ R : SameGap(heap, H, m)
      /\ Exact(H, r) /\ Exact(H, new)
  BY <1>7 DEF RootSplit
<1>9. Tree(H, U, top, g)
  <2>1. h \in [Nat -> Nat] /\ \A m \in T : h[m] \in Nat /\ m \in Nat /\ h[m] <= h[r]
    <3>1. h \in [Nat -> Nat]
      BY <1>1 DEF Forest
    <3>2. ASSUME NEW m \in T PROVE h[m] \in Nat /\ m \in Nat
      BY <1>1, ForestFields
    <3> QED  BY <3>1, <3>2 DEF Tree, Lower
  <2>2. g[top] = k /\ g[new] = h[r] /\ \A m \in T : g[m] = h[m]
    BY <1>2, <1>3, <2>1 DEF Raised
  <2>3. ASSUME NEW m \in U PROVE g[m] <= g[top]
    <3>1. m \in T \/ m = new \/ m = top
      OBVIOUS
    <3>2. CASE m \in T
      BY <1>6, <2>1, <2>2, <3>2
    <3>3. CASE m = new \/ m = top
      BY <1>6, <2>2, <3>3
    <3> QED  BY <3>1, <3>2, <3>3
  <2>4. Lower(g, U, g[top])
    BY <2>3 DEF Lower
  <2>5. Forest(H, U, {top}, {}, g)
    BY <1>1, <1>4, <1>7
  <2> QED  BY <1>8, <2>4, <2>5 DEF Tree
<1>10. AllExact(H, U, top)
  <2>1. ASSUME NEW m \in T, m # r PROVE Exact(H, m)
    <3>1. m \in T \ R /\ m \in U \ S /\ Exact(heap, m) /\ SameGap(heap, H, m)
      BY <1>1, <1>3, <1>4, <1>8, <2>1 DEF AllExact
    <3> QED  BY <1>1, <1>7, <3>1, ExactKept
  <2> QED  BY <1>8, <2>1 DEF AllExact
<1>11. AllFit(H, U, top)
  <2>1. r # top /\ new # top
    BY <1>1, <1>3
  <2>2. SizeOf(H, new) \in Int
    BY <1>9, SizeType
  <2>3. Fits(H, top, r, 0, 0) /\ Fits(H, top, new, 0, 0)
    <3>1. IsLeaf(H, r) = IsLeaf(heap, r)
      BY <1>1, <1>8
    <3>2. /\ IsLeaf(H, new) = IsLeaf(heap, r) /\ SizeOf(H, r) = SizeOf(heap, r) \div 2
          /\ SizeOf(H, r) + SizeOf(H, new) = SizeOf(heap, r)
      BY <1>8
    <3> QED  BY <2>1, <2>2, <3>1, <3>2, HalvesFit
  <2>4. ASSUME NEW m \in T, m # r PROVE Fits(H, top, m, 0, 0)
    <3>1. Fits(heap, r, m, 0, 0) /\ m # top
      BY <1>3, <2>4 DEF FitsBut
    <3> QED  BY <1>8, <2>4, <3>1 DEF Fits, MaxOf, MinOf
  <2>5. Fits(H, top, top, 0, 0)
    BY <1>8, SizesAssumption DEF Fits, MaxOf
  <2> QED  BY <2>3, <2>4, <2>5 DEF AllFit
<1>12. RootParted(heap, H, T, r, new, top)
  BY <1>2, <1>3, <1>7 DEF RootSplit, RootParted
<1> QED
  BY <1>5, <1>9, <1>10, <1>11, <1>12 DEF Restored

\* Two nodes that have one less than the least for two.
Mergeable(heap, n, s) == SizeOf(heap, n) + SizeOf(heap, s) = MinOf(heap, n) + MinOf(heap, n) - 1

\* A merge leaves only the parent too small.
LEMMA MergeTree ==
  ASSUME NEW heap, NEW T, NEW r, NEW h, Tree(heap, T, r, h), AllExact(heap, T, r),
         NEW p \in T, ~IsLeaf(heap, p), NEW i \in Slots, NEW j \in Slots, j = i + 1,
         j < Width(heap, p), NEW n, n = Kid(Row(heap, p), i),
         NEW s, s = Kid(Row(heap, p), j), OthersFit(heap, T, r, n, s), Mergeable(heap, n, s),
         NEW U, U = T \ {s}
  PROVE  LET H == Merge(heap, p, i)
         IN  /\ Tree(H, U, r, h) /\ AllExact(H, U, r) /\ FitsBut(H, U, r, p, 0, 1)
             /\ p \in U /\ n \in U /\ s \in T /\ Parted(H, heap, U, p, i, n, s)
<1>1. PICK R, N : /\ R = {r} /\ N = {} /\ Forest(heap, T, R, N, h) /\ AllWhole(heap, T)
                  /\ p \in T \ N
  BY DEF Tree
<1>2. Width(heap, p) \in 0..(NodeSizeMax + 1) /\ i < Width(heap, p)
  <2>1. Width(heap, p) \in 0..(NodeSizeMax + 1)
    BY <1>1, ForestFields
  <2> QED  BY <2>1, SizesAssumption DEF Slots
<1>3. /\ n \in T /\ n # r /\ n # p /\ Up(heap, n) = p /\ Index(heap, n) = i
      /\ s \in T /\ s # r /\ s # p /\ Up(heap, s) = p /\ Index(heap, s) = j
  BY <1>2, TreeKid
<1>4. s # n /\ IsLeaf(heap, s) = IsLeaf(heap, n)
  <2>1. j # Index(heap, n)
    BY <1>3, SizesAssumption DEF Slots
  <2>2. PICK R0, N0 : R0 = {r} /\ N0 = {}
    OBVIOUS
  <2>3. j < Width(heap, Up(heap, n)) /\ s = Kid(Row(heap, Up(heap, n)), j)
    BY <1>3
  <2> QED  BY <1>3, <2>1, <2>2, <2>3, TreeSide
<1>5. /\ SizeOf(heap, n) \in Nat /\ SizeOf(heap, s) \in Nat
      /\ MinOf(heap, n) \in Nat /\ MaxOf(heap, n) \in Nat /\ 1 <= MinOf(heap, n)
      /\ MinOf(heap, n) + MinOf(heap, n) <= MaxOf(heap, n) + 1
  BY <1>3, SizeType, Bounds
<1>6. Exact(heap, s) /\ NaturalRow(Row(heap, s))
  <2>1. CASE ~IsLeaf(heap, s)
    BY <1>3, <2>1, TreeNumbers DEF AllExact, NaturalRows
  <2>2. CASE IsLeaf(heap, s)
    <3>1. Row(heap, s) \in NoChildren
      BY <1>1, <1>3, <2>2, ForestFields DEF Forest
    <3>2. NaturalRow(Row(heap, s))
      BY <3>1 DEF NaturalRow, NoChildren, nullptr
    <3> QED  BY <1>3, <3>2 DEF AllExact
  <2> QED  BY <2>1, <2>2
<1>7. ~IsLeaf(heap, n) => Within(Width(heap, n), Width(heap, s), NodeSizeMax + 1)
  <2>1. ASSUME ~IsLeaf(heap, n)
        PROVE  Within(Width(heap, n), Width(heap, s), NodeSizeMax + 1)
    <3>1. SizeOf(heap, n) = Width(heap, n) /\ SizeOf(heap, s) = Width(heap, s)
          /\ MaxOf(heap, n) = NodeSizeMax
      BY <1>4, <2>1, SizeFields DEF MaxOf
    <3> QED  BY <1>5, <3>1, SizesAssumption DEF Mergeable, Within
  <2> QED  BY <2>1
<1>8. PICK H : H = Merge(heap, p, i)
  OBVIOUS
<1>9. Forest(H, U, R, N, h) /\ Merged(heap, H, T, R, p, n, s)
  <2>1. n \notin N /\ s \notin N
    BY <1>1
  <2> QED  BY <1>1, <1>6, <1>7, <1>8, <2>1, MergeForest
<1>10. /\ AllWhole(H, U)
       /\ \A m \in U : /\ IsLeaf(H, m) = IsLeaf(heap, m)
                       /\ m # n /\ m # p => SizeOf(H, m) = SizeOf(heap, m)
       /\ SizeOf(H, p) = SizeOf(heap, p) - 1
       /\ SizeOf(H, n) = SizeOf(heap, n) + SizeOf(heap, s)
       /\ SameRoots(heap, H, R) /\ \A m \in T \ (R \cup {s}) : SameGap(heap, H, m)
  BY <1>9 DEF Merged
<1>11. p \in U /\ n \in U /\ r \in U
  BY <1>3, <1>4 DEF Tree
<1>12. Tree(H, U, r, h)
  <2>1. Lower(h, U, h[r])
    BY DEF Tree, Lower
  <2>2. Up(H, r) = nullptr
    BY <1>1, <1>10 DEF SameRoots, Tree
  <2>3. Forest(H, U, {r}, {}, h)
    BY <1>1, <1>9
  <2> QED  BY <1>10, <1>11, <2>1, <2>2, <2>3 DEF Tree
<1>13. AllExact(H, U, r)
  <2>1. ASSUME NEW m \in U, m # r PROVE Exact(H, m)
    <3>1. m \in T \ R /\ m \in U \ R /\ Exact(heap, m) /\ SameGap(heap, H, m)
      BY <1>1, <1>10, <2>1 DEF AllExact
    <3> QED  BY <1>1, <1>9, <3>1, ExactKept
  <2> QED  BY <2>1 DEF AllExact
<1>14. FitsBut(H, U, r, p, 0, 1)
  <2>1. ASSUME NEW m \in U, m # n, m # p PROVE Fits(H, r, m, 0, 0)
    BY <1>10, <2>1, SameFit DEF OthersFit
  <2>2. Fits(H, r, n, 0, 0)
    <3>1. MaxOf(H, n) = MaxOf(heap, n) /\ MinOf(H, n) = MinOf(heap, n)
      BY <1>10, <1>11 DEF MaxOf, MinOf
    <3>2. SizeOf(H, n) = MinOf(heap, n) + MinOf(heap, n) - 1
      BY <1>10 DEF Mergeable
    <3> QED  BY <1>3, <1>5, <3>1, <3>2 DEF Fits
  <2>3. Fits(H, r, p, 0, 1)
    <3>1. Fits(heap, r, p, 0, 0)
      BY <1>3 DEF OthersFit
    <3>2. MaxOf(H, p) = MaxOf(heap, p) /\ MinOf(H, p) = MinOf(heap, p)
          /\ IsLeaf(H, p) = IsLeaf(heap, p)
      BY <1>10, <1>11 DEF MaxOf, MinOf
    <3>3. MaxOf(heap, p) \in Nat /\ MinOf(heap, p) \in Nat /\ SizeOf(heap, p) \in Nat
      BY Bounds, SizeType
    <3> QED  BY <1>10, <3>1, <3>2, <3>3 DEF Fits
  <2> QED  BY <2>1, <2>2, <2>3 DEF FitsBut
<1>15. Parted(H, heap, U, p, i, n, s)
  BY <1>3, <1>9 DEF Merged
<1> QED
  BY <1>3, <1>8, <1>11, <1>12, <1>13, <1>14, <1>15

\* The only child of the root takes its place: the tree is one lower.
LEMMA MergeRootTree ==
  ASSUME NEW heap, NEW T, NEW r, NEW h, Tree(heap, T, r, h), AllExact(heap, T, r),
         FitsBut(heap, T, r, r, 0, 1), ~IsLeaf(heap, r), SizeOf(heap, r) < 2,
         NEW c, c = Kid(Row(heap, r), 0), NEW U, U = T \ {r}
  PROVE  LET H == Unrooted(heap, r, c)
         IN  /\ Restored(H, U, c, h) /\ Width(heap, r) = 1
             /\ \A m \in U : SameNode(heap, H, m)
<1>1. PICK R, N : /\ R = {r} /\ N = {} /\ Forest(heap, T, R, N, h) /\ AllWhole(heap, T)
                  /\ r \in R /\ r \in T /\ Lower(h, T, h[r])
  BY DEF Tree
<1>2. h[r] \in Nat
  BY <1>1, ForestFields
<1>3. Width(heap, r) = 1
  <2>1. SizeOf(heap, r) \in Nat /\ SizeOf(heap, r) = Width(heap, r)
    BY <1>1, SizeType, SizeFields
  <2>2. SizeOf(heap, r) >= 2 - 1
    BY DEF FitsBut, Fits
  <2> QED  BY <2>1, <2>2
<1>4. PICK S : S = {c} /\ S = (R \ {r}) \cup {c}
  BY <1>1
<1>5. PICK H : H = Unrooted(heap, r, c)
  OBVIOUS
<1>6. /\ Forest(H, U, S, N, h) /\ RootMerged(heap, H, U, S, r, c)
      /\ c \in T \ R /\ h[r] = h[c] + 1
  <2>1. PICK k \in Nat : k = h[r] /\ Lower(h, T, k)
    BY <1>1, <1>2
  <2>2. Forest(heap, T, R, N, h) /\ AllWhole(heap, T) /\ N = {} /\ r \in R
    BY <1>1
  <2>3. S = (R \ {r}) \cup {c}
    BY <1>4
  <2>4. Forest(Unrooted(heap, r, c), U, S, N, h)
    BY <1>3, <2>1, <2>2, <2>3, MergeRootForest
  <2>7. RootMerged(heap, Unrooted(heap, r, c), U, S, r, c)
    BY <1>3, <2>1, <2>2, <2>3, <2>4, MergeRootForest
  <2>5. 0 \in Slots /\ 0 < Width(heap, r)
    BY <1>3, SizesAssumption DEF Slots
  <2>6. c \in T /\ c # r /\ h[r] = h[c] + 1
    BY <1>1, <2>5, TreeKid
  <2> QED  BY <1>1, <1>5, <2>4, <2>6, <2>7
<1>7. /\ AllWhole(H, U)
      /\ \A m \in U : IsLeaf(H, m) = IsLeaf(heap, m) /\ SizeOf(H, m) = SizeOf(heap, m)
      /\ Up(H, c) = nullptr /\ \A m \in U \ S : SameGap(heap, H, m)
  BY <1>6 DEF RootMerged
<1>8. c \in U /\ c # r
  BY <1>1, <1>6
<1>9. Tree(H, U, c, h)
  <2>1. ASSUME NEW m \in U PROVE h[m] <= h[c]
    <3>1. Up(heap, m) \in T /\ h[Up(heap, m)] = h[m] + 1
      BY <2>1, TreeUp
    <3>2. h[Up(heap, m)] <= h[r] /\ h[m] \in Nat /\ h[c] \in Nat
      BY <1>1, <1>8, <3>1, ForestFields DEF Lower
    <3> QED  BY <1>6, <3>1, <3>2
  <2>2. Lower(h, U, h[c])
    BY <2>1 DEF Lower
  <2>3. Forest(H, U, {c}, {}, h)
    BY <1>1, <1>4, <1>6
  <2> QED  BY <1>7, <1>8, <2>2, <2>3 DEF Tree
<1>10. AllExact(H, U, c)
  <2>1. ASSUME NEW m \in U, m # c PROVE Exact(H, m)
    <3>1. m \in T \ R /\ m \in U \ S /\ Exact(heap, m) /\ SameGap(heap, H, m)
      BY <1>1, <1>4, <1>7, <2>1 DEF AllExact
    <3> QED  BY <1>1, <1>6, <3>1, ExactKept
  <2> QED  BY <2>1 DEF AllExact
<1>11. AllFit(H, U, c)
  <2>1. ASSUME NEW m \in U PROVE Fits(H, c, m, 0, 0)
    <3>1. Fits(heap, r, m, 0, 0) /\ m # r
      BY DEF FitsBut
    <3>2. /\ MaxOf(H, m) = MaxOf(heap, m) /\ MinOf(H, m) = MinOf(heap, m)
          /\ IsLeaf(H, m) = IsLeaf(heap, m) /\ SizeOf(H, m) = SizeOf(heap, m)
      BY <1>7 DEF MaxOf, MinOf
    <3>3. SizeOf(heap, m) \in Nat /\ MinOf(heap, m) \in Nat /\ MaxOf(heap, m) \in Nat
          /\ (~IsLeaf(heap, m) => 2 <= MinOf(heap, m))
      BY SizeType, Bounds
    <3> QED  BY <3>1, <3>2, <3>3 DEF Fits
  <2> QED  BY <2>1 DEF AllFit
<1>12. \A m \in U : SameNode(heap, H, m)
  BY <1>6 DEF RootMerged
<1> QED
  BY <1>3, <1>5, <1>9, <1>10, <1>11, <1>12 DEF Restored

-----------------------------------------------------------------------------
(* The counters while a leaf has changed and updateCounters goes up.       *)

Changes == [b : Int, o : Int]

\* What m holds is d more than its entry says.
Behind(heap, m, d) == /\ Bits(heap, m) = Entry(heap, m).b + d.b
                      /\ OnesAt(heap, m) = Entry(heap, m).o + d.o

\* All counters are right but that of node a.
Counting(heap, T, r, a, d) ==
  \A m \in T : m # r => IF m = a THEN Behind(heap, m, d) ELSE Exact(heap, m)

\* The nodes keep their kind and their sizes.
SameSizes(heap, H, T) ==
  \A m \in T : IsLeaf(H, m) = IsLeaf(heap, m) /\ SizeOf(H, m) = SizeOf(heap, m)

SameRow(heap, H, m) == Row(H, m) = Row(heap, m) /\ Width(H, m) = Width(heap, m)

\* With the root every counter is right.
LEMMA Counted ==
  ASSUME NEW heap, NEW T, NEW r, NEW d, Counting(heap, T, r, r, d)
  PROVE  AllExact(heap, T, r)
  BY DEF Counting, AllExact

\* Natural rows hold natural numbers of bits and ones.
LEMMA NaturalBits ==
  ASSUME NEW heap, NEW T, NEW r, NEW h, Tree(heap, T, r, h), NaturalRows(heap, T), NEW m \in T
  PROVE  Bits(heap, m) \in Nat /\ OnesAt(heap, m) \in Nat
<1>1. Heap(heap) /\ m \in DOMAIN heap
  BY DEF Tree, Forest
<1>2. CASE IsLeaf(heap, m)
  <2>1. PICK bv \in Seq(BOOLEAN) : bv = Bv(heap, m)
    BY <1>1, NamedAmounts
  <2>2. Bits(heap, m) = Len(bv) /\ OnesAt(heap, m) = CountOnes(bv)
    BY <1>1, <1>2, <2>1, NamedAmounts
  <2>3. Len(bv) \in Nat /\ CountOnes(bv) \in 0..Len(bv)
    BY <2>1, OnesType
  <2> QED  BY <2>2, <2>3
<1>3. CASE ~IsLeaf(heap, m)
  <2>1. PICK row \in Rows : row = Row(heap, m) /\ NaturalRow(row)
    BY <1>1, <1>3, NamedAmounts DEF NaturalRows
  <2>2. Bits(heap, m) = Total(Bs(row)) /\ OnesAt(heap, m) = Total(Os(row))
    BY <1>1, <1>3, <2>1, NamedAmounts
  <2>3. Bs(row) \in [Slots -> Nat] /\ Os(row) \in [Slots -> Nat]
    BY <2>1 DEF NaturalRow, Bs, Os
  <2>4. NodeSizeMax + 1 \in 0..(NodeSizeMax + 1)
    BY SizesAssumption
  <2>5. Total(Bs(row)) \in Nat /\ Total(Os(row)) \in Nat
    BY <2>3, <2>4, NaturalSums DEF Total
  <2> QED  BY <2>2, <2>5
<1> QED
  BY <1>2, <1>3

\* A leaf gets other bits: its entry is behind.
LEMMA LeafTree ==
  ASSUME NEW heap, NEW T, NEW r, NEW h, Tree(heap, T, r, h), AllExact(heap, T, r),
         NEW n \in T, IsLeaf(heap, n), NEW bv \in Strings, Whole(Len(bv)),
         NEW d \in Changes, Exceeds(bv, Bv(heap, n), d.b, d.o)
  PROVE  LET H == WithBits(heap, n, bv)
         IN  /\ Tree(H, T, r, h) /\ Counting(H, T, r, n, d)
             /\ \A m \in DOMAIN heap : SameRow(heap, H, m) /\ IsLeaf(H, m) = IsLeaf(heap, m)
             /\ \A m \in T : m # n => SizeOf(H, m) = SizeOf(heap, m)
             /\ SizeOf(H, n) = Blocks(Len(bv)) /\ Bits(H, n) = Len(bv) /\ Bv(H, n) = bv
             /\ \A m \in T : m # n => SameNode(heap, H, m)
<1>1. PICK R, N : R = {r} /\ N = {} /\ Forest(heap, T, R, N, h) /\ AllWhole(heap, T)
  BY DEF Tree
<1>2. PICK H : H = WithBits(heap, n, bv)
  OBVIOUS
<1>3. /\ Forest(H, T, R, N, h) /\ DOMAIN H = DOMAIN heap /\ Stays(heap, H)
      /\ Bv(H, n) = bv /\ \A m \in DOMAIN heap : m # n => Bv(H, m) = Bv(heap, m)
      /\ \A m \in DOMAIN heap : /\ IsLeaf(H, m) = IsLeaf(heap, m)
                                /\ Width(H, m) = Width(heap, m)
                                /\ Row(H, m) = Row(heap, m)
      /\ \A m \in T : m # n => /\ Bits(H, m) = Bits(heap, m)
                               /\ OnesAt(H, m) = OnesAt(heap, m)
      /\ \A m \in T \ R : Entry(H, m) = Entry(heap, m)
  BY <1>1, <1>2, WithBitsForest
<1>4. T \subseteq DOMAIN heap /\ Heap(heap) /\ Heap(H) /\ n \in DOMAIN heap /\ n \in DOMAIN H
  BY <1>1, <1>3 DEF Forest
<1>5. Tree(H, T, r, h)
  <2>1. AllWhole(H, T)
    BY <1>1, <1>3, <1>4 DEF AllWhole
  <2>2. Up(H, r) = nullptr
    BY <1>3, <1>4 DEF Tree, Stays
  <2> QED  BY <1>1, <1>3, <2>1, <2>2 DEF Tree
<1>6. \A m \in T : m # n => SizeOf(H, m) = SizeOf(heap, m)
  BY <1>3, <1>4, SizeFields
<1>7. SizeOf(H, n) = Blocks(Len(bv))
  BY <1>3, <1>4, SizeFields
<1>8. /\ Bits(H, n) = Len(bv) /\ OnesAt(H, n) = CountOnes(bv)
      /\ Bits(heap, n) = Len(Bv(heap, n)) /\ OnesAt(heap, n) = CountOnes(Bv(heap, n))
  BY <1>3, <1>4, NamedAmounts
<1>9. Counting(H, T, r, n, d)
  <2>1. ASSUME NEW m \in T, m # r, m # n PROVE Exact(H, m)
    BY <1>1, <1>3, <2>1 DEF AllExact, Exact
  <2>2. ASSUME n # r PROVE Behind(H, n, d)
    <3>1. /\ Bits(H, n) = Bits(heap, n) + d.b /\ OnesAt(H, n) = OnesAt(heap, n) + d.o
      BY <1>8 DEF Exceeds
    <3>2. Entry(H, n) = Entry(heap, n) /\ Exact(heap, n)
      BY <1>1, <1>3, <2>2 DEF AllExact
    <3> QED  BY <3>1, <3>2 DEF Exact, Behind
  <2> QED  BY <2>1, <2>2 DEF Counting
<1>10. \A m \in T : m # n => SameNode(heap, H, m)
  BY <1>3, <1>4 DEF SameNode, SameKids
<1> QED
  BY <1>2, <1>3, <1>5, <1>6, <1>7, <1>8, <1>9, <1>10 DEF SameRow

\* Rows g and f differ in the counters of slot idx only.
OnlyAt(g, f, idx) == \A i \in Slots : i # idx => Slot(g, i) = Slot(f, i)

\* What updateCounters does at node a.
CountUp(heap, a, d) == AddToEntry(heap, Up(heap, a), Index(heap, a), d.b, d.o)

\* One step of updateCounters: now the entry of the parent is behind.
LEMMA CountTree ==
  ASSUME NEW heap, NEW T, NEW r, NEW h, Tree(heap, T, r, h), NaturalRows(heap, T),
         NEW a \in T, a # r, NEW d \in Changes, Counting(heap, T, r, a, d)
  PROVE  LET H == CountUp(heap, a, d)
             p == Up(heap, a)
         IN  /\ Tree(H, T, r, h) /\ NaturalRows(H, T) /\ Counting(H, T, r, p, d)
             /\ SameSizes(heap, H, T) /\ \A m \in T : m # p => SameRow(heap, H, m)
             /\ OnlyAt(Row(H, p), Row(heap, p), Index(heap, a))
             /\ SameKids(Row(H, p), Row(heap, p)) /\ Width(H, p) = Width(heap, p)
             /\ Slot(Row(H, p), Index(heap, a)).b = Slot(Row(heap, p), Index(heap, a)).b + d.b
             /\ \A m \in T : SameNode(heap, H, m)
<1>1. PICK R, N : R = {r} /\ N = {} /\ Forest(heap, T, R, N, h) /\ AllWhole(heap, T)
  BY DEF Tree
<1>2. PICK p \in T, idx \in Slots :
        /\ p = Up(heap, a) /\ idx = Index(heap, a) /\ ~IsLeaf(heap, p) /\ p # a
        /\ idx < Width(heap, p) /\ a = Kid(Row(heap, p), idx)
        /\ Entry(heap, a).b \in Int /\ Entry(heap, a).o \in Int
  BY TreeUp
<1>3. PICK dBits \in Int, dOnes \in Int : dBits = d.b /\ dOnes = d.o
  BY DEF Changes
<1>4. PICK H : H = AddToEntry(heap, p, idx, dBits, dOnes)
  OBVIOUS
<1>5. H = CountUp(heap, a, d)
  BY <1>2, <1>3, <1>4 DEF CountUp
<1>6. p \in T \ N /\ p \in DOMAIN heap /\ T \subseteq DOMAIN heap /\ Heap(heap)
  BY <1>1 DEF Forest
<1>7. /\ Forest(H, T, R, N, h) /\ Keeps(heap, H, p) /\ Stays(heap, H)
      /\ Width(H, p) = Width(heap, p)
      /\ \A i \in Slots : Kid(Row(H, p), i) = Kid(Row(heap, p), i)
      /\ Entry(H, a).b = Entry(heap, a).b + dBits
      /\ Entry(H, a).o = Entry(heap, a).o + dOnes
      /\ \A m \in T \ R : m # a => Entry(H, m) = Entry(heap, m)
      /\ Bits(H, p) = Bits(heap, p) + dBits /\ OnesAt(H, p) = OnesAt(heap, p) + dOnes
  <2>1. /\ Forest(heap, T, R, N, h) /\ p \in T \ N /\ ~IsLeaf(heap, p)
        /\ idx < Width(heap, p) /\ a = Kid(Row(heap, p), idx)
    BY <1>1, <1>2, <1>6
  <2>2. Forest(H, T, R, N, h)
    BY <2>1, <1>4, AddForest
  <2> QED  BY <2>1, <2>2, <1>4, AddForest
<1>8. /\ \A i \in Slots : i # idx => Slot(Row(H, p), i) = Slot(Row(heap, p), i)
      /\ Slot(Row(H, p), idx).b = Slot(Row(heap, p), idx).b + dBits
  BY <1>4, <1>6, AddToEntryFields
<1>9. /\ \A m \in T : IsLeaf(H, m) = IsLeaf(heap, m) /\ Bv(H, m) = Bv(heap, m)
      /\ \A m \in T : m # p => /\ Width(H, m) = Width(heap, m) /\ Row(H, m) = Row(heap, m)
                               /\ Bits(H, m) = Bits(heap, m) /\ OnesAt(H, m) = OnesAt(heap, m)
  BY <1>6, <1>7, KeptNodes
<1>10. Tree(H, T, r, h)
  <2>1. AllWhole(H, T)
    BY <1>1, <1>9 DEF AllWhole
  <2>2. Up(H, r) = nullptr
    BY <1>6, <1>7 DEF Tree, Stays
  <2> QED  BY <1>1, <1>7, <2>1, <2>2 DEF Tree
<1>11. SameSizes(heap, H, T)
  <2>1. ASSUME NEW m \in T PROVE Width(H, m) = Width(heap, m)
    BY <1>7, <1>9
  <2> QED  BY <1>9, <2>1, SizeFields DEF SameSizes
<1>12. /\ Entry(H, a).b = Bits(heap, a) /\ Entry(H, a).o = OnesAt(heap, a)
       /\ Bits(heap, a) \in Nat /\ OnesAt(heap, a) \in Nat
  <2>1. Behind(heap, a, d)
    BY DEF Counting
  <2>2. Bits(heap, a) \in Nat /\ OnesAt(heap, a) \in Nat
    BY NaturalBits
  <2> QED  BY <1>3, <1>7, <2>1, <2>2 DEF Behind
<1>13. NaturalRows(H, T)
  <2>1. ASSUME NEW m \in T, ~IsLeaf(H, m), m # p PROVE NaturalRow(Row(H, m))
    BY <1>9, <2>1 DEF NaturalRows
  <2>2. NaturalRow(Row(H, p))
    <3>1. PICK f, g \in Rows : f = Row(heap, p) /\ g = Row(H, p) /\ NaturalRow(f)
      BY <1>1, <1>2, <1>7, ForestFields DEF NaturalRows
    <3>2. \A i \in Slots : i # idx => g[i] \in [b : Nat, o : Nat, P : Nat]
      BY <1>8, <3>1 DEF NaturalRow, Slot
    <3>3. g[idx] \in [b : Nat, o : Nat, P : Nat]
      <4>1. Entry(H, a) = g[idx]
        <5>1. Up(H, a) = p /\ Index(H, a) = idx
          BY <1>2, <1>6, <1>7 DEF Stays
        <5> QED  BY <3>1, <5>1 DEF Entry, Slot
      <4>2. PICK e \in [b : Int, o : Int, P : Nat] : e = g[idx]
        BY <3>1 DEF Rows
      <4>3. e.b \in Nat /\ e.o \in Nat
        BY <1>12, <4>1, <4>2
      <4> QED  BY <4>2, <4>3
    <3> QED  BY <3>1, <3>2, <3>3 DEF NaturalRow, Rows
  <2> QED  BY <2>1, <2>2 DEF NaturalRows
<1>14. Counting(H, T, r, p, d)
  <2>1. ASSUME NEW m \in T, m # r, m # p, m # a PROVE Exact(H, m)
    BY <1>1, <1>7, <1>9, <2>1 DEF Counting, Exact
  <2>2. Exact(H, a)
    BY <1>2, <1>9, <1>12 DEF Exact
  <2>3. ASSUME p # r PROVE Behind(H, p, d)
    <3>1. Exact(heap, p) /\ Entry(H, p) = Entry(heap, p)
      BY <1>1, <1>2, <1>7, <2>3 DEF Counting
    <3> QED  BY <1>3, <1>7, <3>1 DEF Exact, Behind
  <2> QED  BY <2>1, <2>2, <2>3 DEF Counting
<1>15. \A m \in T : SameNode(heap, H, m)
  <2>1. ASSUME NEW m \in T
        PROVE  Width(H, m) = Width(heap, m) /\ SameKids(Row(H, m), Row(heap, m))
    BY <1>7, <1>9 DEF SameKids
  <2> QED  BY <1>9, <2>1 DEF SameNode
<1> QED
  BY <1>2, <1>3, <1>5, <1>7, <1>8, <1>9, <1>10, <1>11, <1>13, <1>14, <1>15
     DEF SameRow, OnlyAt, SameKids

-----------------------------------------------------------------------------
(* Paths.                                                                  *)

\* The sums at the end of a path, and the node it leads to from r.
SumsOf(p) == IF p = <<>> THEN NoDelta
             ELSE [b |-> p[Len(p)].bitsBefore, o |-> p[Len(p)].onesBefore]
EndOf(heap, r, p) == IF p = <<>> THEN r ELSE Kid(Row(heap, p[Len(p)].node), p[Len(p)].index)

\* The same above entry i of the path.
SumsAbove(p, i) == IF i = 1 THEN NoDelta
                   ELSE [b |-> p[i - 1].bitsBefore, o |-> p[i - 1].onesBefore]
StopAt(heap, r, p, i) == IF i = 1 THEN r ELSE Kid(Row(heap, p[i - 1].node), p[i - 1].index)

\* Entry e is for node m, before which there are so many bits and ones.
Leads(heap, T, e, m, before0) ==
  /\ e.node = m /\ m \in T /\ ~IsLeaf(heap, m)
  /\ e.index \in Slots /\ e.index < Width(heap, m)
  /\ e.size = Slot(Row(heap, m), e.index).b
  /\ e.bitsBefore = before0.b + SumBelow(Bs(Row(heap, m)), e.index)
  /\ e.onesBefore = before0.o + SumBelow(Os(Row(heap, m)), e.index)
  /\ Whole(e.bitsBefore)

\* The path leads down from r, a level per entry.
PathIn(heap, T, r, h, p) ==
  /\ p \in Seq(Nesbos)
  /\ \A i \in 1..Len(p) : /\ Leads(heap, T, p[i], StopAt(heap, r, p, i), SumsAbove(p, i))
                          /\ h[p[i].node] + i = h[r] + 1
  /\ \A i, j \in 1..Len(p) : i <= j => p[i].bitsBefore <= p[j].bitsBefore

\* No subtree on the path begins behind bit n.
Reaches(p, n) == \A i \in 1..Len(p) : p[i].bitsBefore <= n

\* a is a node the path leads to.
OnPath(heap, r, p, a) == a = r \/ \E i \in 1..Len(p) : a = StopAt(heap, r, p, i + 1)

\* The empty path.
LEMMA EmptyPath ==
  ASSUME NEW heap, NEW T, NEW r, NEW h, NEW n
  PROVE  /\ PathIn(heap, T, r, h, <<>>) /\ Reaches(<<>>, n)
         /\ SumsOf(<<>>) = NoDelta /\ EndOf(heap, r, <<>>) = r
<1>1. <<>> \in Seq(Nesbos) /\ Len(<<>>) = 0 /\ 1..0 = {}
  BY EmptySeq
<1> QED
  BY <1>1 DEF PathIn, Reaches, SumsOf, EndOf

\* What a path says of its last entry.
LEMMA PathTop ==
  ASSUME NEW heap, NEW T, NEW r, NEW h, Tree(heap, T, r, h),
         NEW p, PathIn(heap, T, r, h, p), p # <<>>
  PROVE  LET e == p[Len(p)]
             c == EndOf(heap, r, p)
         IN  /\ Len(p) \in Nat /\ Len(p) >= 1 /\ e \in Nesbos
             /\ e.node \in T /\ ~IsLeaf(heap, e.node) /\ e.index \in Slots
             /\ e.index < Width(heap, e.node) /\ c = Kid(Row(heap, e.node), e.index)
             /\ c \in T /\ c # r /\ Up(heap, c) = e.node /\ Index(heap, c) = e.index
             /\ e.size = Entry(heap, c).b /\ h[e.node] = h[c] + 1
             /\ h[c] + Len(p) = h[r] /\ Whole(e.bitsBefore)
             /\ e.bitsBefore \in Nat /\ e.onesBefore \in Nat /\ e.size \in Nat
             /\ SumsOf(p) = [b |-> e.bitsBefore, o |-> e.onesBefore]
<1>1. Len(p) \in Nat /\ Len(p) >= 1 /\ p \in Seq(Nesbos) /\ Len(p) \in 1..Len(p)
  BY EmptySeq, LenProperties DEF PathIn
<1>2. PICK e \in Nesbos : e = p[Len(p)]
  BY <1>1, ElementOfSeq
<1>3. PICK m : m = e.node
  OBVIOUS
<1>4. /\ m \in T /\ ~IsLeaf(heap, m) /\ e.index \in Slots /\ e.index < Width(heap, m)
      /\ e.size = Slot(Row(heap, m), e.index).b /\ Whole(e.bitsBefore)
      /\ h[m] + Len(p) = h[r] + 1
  BY <1>1, <1>2, <1>3 DEF PathIn, Leads
<1>5. PICK idx \in Slots : idx = e.index
  BY <1>4
<1>6. PICK c : c = Kid(Row(heap, m), idx)
  OBVIOUS
<1>7. /\ c \in T /\ c # r /\ Up(heap, c) = m /\ Index(heap, c) = idx
      /\ h[m] = h[c] + 1 /\ Entry(heap, c) = Slot(Row(heap, m), idx)
  BY <1>4, <1>5, <1>6, TreeKid
<1>8. c = EndOf(heap, r, p) /\ SumsOf(p) = [b |-> e.bitsBefore, o |-> e.onesBefore]
  BY <1>2, <1>3, <1>5, <1>6 DEF EndOf, SumsOf
<1>9. e.bitsBefore \in Nat /\ e.onesBefore \in Nat /\ e.size \in Nat
  BY DEF Nesbos
<1>10. h[c] + Len(p) = h[r]
  <2>1. h[c] \in Nat /\ h[r] \in Nat
    <3>1. PICK R, N : Forest(heap, T, R, N, h) /\ r \in T
      BY DEF Tree
    <3> QED  BY <1>7, <3>1, ForestFields
  <2> QED  BY <1>1, <1>4, <1>7, <2>1
<1> QED
  BY <1>1, <1>2, <1>3, <1>4, <1>5, <1>6, <1>7, <1>8, <1>9, <1>10

\* The path without its last entry.
LEMMA PathFront ==
  ASSUME NEW heap, NEW T, NEW r, NEW h,
         NEW p, PathIn(heap, T, r, h, p), p # <<>>
  PROVE  PathIn(heap, T, r, h, SubSeq(p, 1, Len(p) - 1))
<1>1. Len(p) \in Nat /\ Len(p) >= 1 /\ p \in Seq(Nesbos)
  BY EmptySeq, LenProperties DEF PathIn
<1>2. PICK q : q = SubSeq(p, 1, Len(p) - 1)
  OBVIOUS
<1>3. PICK k \in Nat : k = Len(p) - 1
  BY <1>1
<1>4. q \in Seq(Nesbos) /\ Len(q) = k /\ \A i \in 1..k : q[i] = p[i]
  BY <1>1, <1>2, <1>3, SubSeqProperties
<1>5. ASSUME NEW i \in 1..k
      PROVE  /\ i \in 1..Len(p) /\ StopAt(heap, r, q, i) = StopAt(heap, r, p, i)
             /\ SumsAbove(q, i) = SumsAbove(p, i)
  <2>1. i = 1 \/ i - 1 \in 1..k
    BY <1>3
  <2> QED  BY <1>3, <1>4, <2>1 DEF StopAt, SumsAbove
<1>6. ASSUME NEW i \in 1..k
      PROVE  /\ Leads(heap, T, q[i], StopAt(heap, r, q, i), SumsAbove(q, i))
             /\ h[q[i].node] + i = h[r] + 1
  BY <1>4, <1>5 DEF PathIn
<1>7. ASSUME NEW i \in 1..k, NEW j \in 1..k, i <= j
      PROVE  q[i].bitsBefore <= q[j].bitsBefore
  BY <1>4, <1>5, <1>7 DEF PathIn
<1>8. PathIn(heap, T, r, h, q)
  BY <1>4, <1>6, <1>7 DEF PathIn
<1> QED
  BY <1>2, <1>8

\* A path with another entry, for the node it leads to.
LEMMA PathMore ==
  ASSUME NEW heap, NEW T, NEW r, NEW h, Tree(heap, T, r, h),
         NEW p, PathIn(heap, T, r, h, p), NEW e \in Nesbos,
         Leads(heap, T, e, EndOf(heap, r, p), SumsOf(p)), SumsOf(p).b <= e.bitsBefore
  PROVE  PathIn(heap, T, r, h, Append(p, e))
<1>1. Len(p) \in Nat /\ p \in Seq(Nesbos)
  BY LenProperties DEF PathIn
<1>2. PICK q : q = Append(p, e)
  OBVIOUS
<1>3. PICK k \in Nat : k = Len(p)
  BY <1>1
<1>4. /\ q \in Seq(Nesbos) /\ Len(q) = k + 1 /\ q[k + 1] = e
      /\ \A i \in 1..k : q[i] = p[i] /\ q[i] \in Nesbos
  BY <1>1, <1>2, <1>3, AppendProperties, ElementOfSeq
<1>5. ASSUME NEW i \in 1..k
      PROVE  /\ StopAt(heap, r, q, i) = StopAt(heap, r, p, i)
             /\ SumsAbove(q, i) = SumsAbove(p, i)
  <2>1. i = 1 \/ i - 1 \in 1..k
    OBVIOUS
  <2> QED  BY <1>4, <2>1 DEF StopAt, SumsAbove
<1>6. k = 0 <=> p = <<>>
  BY <1>1, <1>3, EmptySeq
<1>7. StopAt(heap, r, q, k + 1) = EndOf(heap, r, p) /\ SumsAbove(q, k + 1) = SumsOf(p)
  <2>1. CASE k = 0
    BY <1>6, <2>1 DEF StopAt, SumsAbove, EndOf, SumsOf
  <2>2. CASE k # 0
    <3>1. k \in 1..k /\ q[k] = p[k]
      BY <1>4, <2>2
    <3> QED  BY <1>3, <1>6, <2>2, <3>1 DEF StopAt, SumsAbove, EndOf, SumsOf
  <2> QED  BY <2>1, <2>2
<1>8. h[e.node] + (k + 1) = h[r] + 1
  <2>1. e.node = EndOf(heap, r, p)
    BY DEF Leads
  <2>2. CASE k = 0
    <3>1. h[r] \in Nat
      <4>1. PICK R, N : Forest(heap, T, R, N, h) /\ r \in T
        BY DEF Tree
      <4> QED  BY <4>1, ForestFields
    <3> QED  BY <1>6, <2>1, <2>2, <3>1 DEF EndOf
  <2>3. CASE k # 0
    <3>1. PICK c : c = EndOf(heap, r, p)
      OBVIOUS
    <3>2. c \in T /\ h[c] + k = h[r]
      BY <1>3, <1>6, <2>3, <3>1, PathTop
    <3>3. h[c] \in Nat
      <4>1. PICK R, N : Forest(heap, T, R, N, h)
        BY DEF Tree
      <4> QED  BY <3>2, <4>1, ForestFields
    <3> QED  BY <2>1, <3>1, <3>2, <3>3
  <2> QED  BY <2>2, <2>3
<1>9. ASSUME NEW i \in 1..(k + 1)
      PROVE  /\ Leads(heap, T, q[i], StopAt(heap, r, q, i), SumsAbove(q, i))
             /\ h[q[i].node] + i = h[r] + 1
  <2>1. CASE i \in 1..k
    BY <1>3, <1>4, <1>5, <2>1 DEF PathIn
  <2>2. CASE i = k + 1
    BY <1>4, <1>7, <1>8, <2>2
  <2> QED  BY <2>1, <2>2
<1>10. ASSUME NEW i \in 1..(k + 1), NEW j \in 1..(k + 1), i <= j
       PROVE  q[i].bitsBefore <= q[j].bitsBefore
  <2>1. CASE j \in 1..k
    <3>1. i \in 1..k
      BY <1>10, <2>1
    <3> QED  BY <1>3, <1>4, <1>10, <2>1, <3>1 DEF PathIn
  <2>2. CASE j = k + 1 /\ i \in 1..k
    <3>1. k \in 1..k /\ i <= k
      BY <2>2
    <3>2. SumsOf(p).b = p[k].bitsBefore
      <4>1. p # <<>>
        BY <1>6, <3>1
      <4> QED  BY <1>3, <4>1 DEF SumsOf
    <3>3. p[i].bitsBefore <= p[k].bitsBefore
      BY <1>3, <2>2, <3>1 DEF PathIn
    <3>4. p[i].bitsBefore \in Nat /\ p[k].bitsBefore \in Nat /\ e.bitsBefore \in Nat
      <4>1. p[i] \in Nesbos /\ p[k] \in Nesbos
        BY <1>4, <2>2, <3>1
      <4> QED  BY <4>1 DEF Nesbos
    <3> QED  BY <1>4, <2>2, <3>2, <3>3, <3>4
  <2>3. CASE j = k + 1 /\ i = k + 1
    <3>1. e.bitsBefore \in Nat
      BY DEF Nesbos
    <3> QED  BY <1>4, <2>3, <3>1
  <2> QED  BY <2>1, <2>2, <2>3
<1> QED
  BY <1>2, <1>4, <1>9, <1>10 DEF PathIn

\* Node m is the same as far as a path that leaves it at slot k tells.
SamePart(heap, H, m, k) ==
  /\ IsLeaf(H, m) = IsLeaf(heap, m) /\ Width(H, m) = Width(heap, m)
  /\ SameKids(Row(H, m), Row(heap, m))
  /\ Slot(Row(H, m), k).b = Slot(Row(heap, m), k).b
  /\ SumBelow(Bs(Row(H, m)), k) = SumBelow(Bs(Row(heap, m)), k)
  /\ SumBelow(Os(Row(H, m)), k) = SumBelow(Os(Row(heap, m)), k)

\* Then it is still a path.
LEMMA PathKept ==
  ASSUME NEW heap, NEW T, NEW r, NEW h, NEW p, PathIn(heap, T, r, h, p),
         NEW H, \A i \in 1..Len(p) : SamePart(heap, H, p[i].node, p[i].index)
  PROVE  /\ PathIn(H, T, r, h, p) /\ EndOf(H, r, p) = EndOf(heap, r, p)
         /\ \A i \in 1..Len(p) : StopAt(H, r, p, i) = StopAt(heap, r, p, i)
<1>1. Len(p) \in Nat /\ p \in Seq(Nesbos)
  BY LenProperties DEF PathIn
<1>2. ASSUME NEW i \in 1..Len(p)
      PROVE  Kid(Row(H, p[i].node), p[i].index) = Kid(Row(heap, p[i].node), p[i].index)
  BY DEF PathIn, Leads, SamePart, SameKids
<1>3. ASSUME NEW i \in 1..Len(p) PROVE StopAt(H, r, p, i) = StopAt(heap, r, p, i)
  <2>1. i = 1 \/ i - 1 \in 1..Len(p)
    BY <1>1
  <2> QED  BY <1>2, <2>1 DEF StopAt
<1>4. EndOf(H, r, p) = EndOf(heap, r, p)
  <2>1. CASE p = <<>>
    BY <2>1 DEF EndOf
  <2>2. CASE p # <<>>
    <3>1. Len(p) \in 1..Len(p)
      BY <1>1, <2>2, EmptySeq
    <3> QED  BY <1>2, <2>2, <3>1 DEF EndOf
  <2> QED  BY <2>1, <2>2
<1>5. ASSUME NEW i \in 1..Len(p)
      PROVE  Leads(H, T, p[i], StopAt(H, r, p, i), SumsAbove(p, i))
  <2>1. PICK m, s : /\ m = StopAt(H, r, p, i) /\ s = SumsAbove(p, i)
                    /\ Leads(heap, T, p[i], m, s)
    BY <1>3 DEF PathIn
  <2>2. SamePart(heap, H, m, p[i].index)
    BY <2>1 DEF Leads
  <2> QED  BY <2>1, <2>2 DEF Leads, SamePart
<1> QED
  BY <1>3, <1>4, <1>5 DEF PathIn

\* A node with the same row is the same in every part.
LEMMA SameRowPart ==
  ASSUME NEW heap, NEW H, NEW m, NEW k, SameRow(heap, H, m), IsLeaf(H, m) = IsLeaf(heap, m)
  PROVE  SamePart(heap, H, m, k)
  BY DEF SameRow, SamePart, SameKids

\* What updateCounters does for a bit leaves the path what it is.
LEMMA CountPath ==
  ASSUME NEW heap, NEW T, NEW r, NEW h, Tree(heap, T, r, h), NaturalRows(heap, T),
         NEW a \in T, a # r, NEW d \in Changes, Counting(heap, T, r, a, d), d.b = 0,
         NEW p, PathIn(heap, T, r, h, p), OnPath(heap, r, p, a)
  PROVE  LET H == CountUp(heap, a, d)
         IN  /\ PathIn(H, T, r, h, p) /\ EndOf(H, r, p) = EndOf(heap, r, p)
             /\ OnPath(H, r, p, Up(heap, a))
<1>1. PICK H, m : H = CountUp(heap, a, d) /\ m = Up(heap, a)
  OBVIOUS
<1>2. /\ Tree(H, T, r, h) /\ SameSizes(heap, H, T)
      /\ \A c \in T : c # m => SameRow(heap, H, c)
      /\ OnlyAt(Row(H, m), Row(heap, m), Index(heap, a))
      /\ SameKids(Row(H, m), Row(heap, m)) /\ Width(H, m) = Width(heap, m)
      /\ Slot(Row(H, m), Index(heap, a)).b = Slot(Row(heap, m), Index(heap, a)).b + d.b
  BY <1>1, CountTree
<1>3. Len(p) \in Nat /\ p \in Seq(Nesbos)
  BY LenProperties DEF PathIn
<1>4. PICK i \in 1..Len(p) : a = StopAt(heap, r, p, i + 1)
  BY DEF OnPath
<1>5. a = Kid(Row(heap, p[i].node), p[i].index)
  BY <1>3, <1>4 DEF StopAt
<1>6. ASSUME NEW j \in 1..Len(p)
      PROVE  /\ p[j].node \in T /\ ~IsLeaf(heap, p[j].node) /\ p[j].node = StopAt(heap, r, p, j)
             /\ p[j].index \in Slots /\ p[j].index < Width(heap, p[j].node)
             /\ h[p[j].node] + j = h[r] + 1 /\ h[p[j].node] \in Nat
  <2>1. PICK R, N : Forest(heap, T, R, N, h)
    BY DEF Tree
  <2>2. /\ p[j].node \in T /\ ~IsLeaf(heap, p[j].node) /\ p[j].node = StopAt(heap, r, p, j)
        /\ p[j].index \in Slots /\ p[j].index < Width(heap, p[j].node)
        /\ h[p[j].node] + j = h[r] + 1
    BY DEF PathIn, Leads
  <2> QED  BY <2>1, <2>2, ForestFields
<1>7. m = p[i].node /\ Index(heap, a) = p[i].index /\ m \in T
  <2>1. PICK q \in T, k \in Slots : q = p[i].node /\ k = p[i].index
                                     /\ ~IsLeaf(heap, q) /\ k < Width(heap, q)
    BY <1>6
  <2> QED  BY <1>1, <1>5, <2>1, TreeKid
<1>8. ASSUME NEW j \in 1..Len(p) PROVE SamePart(heap, H, p[j].node, p[j].index)
  <2>1. CASE p[j].node # m
    <3>1. SameRow(heap, H, p[j].node) /\ IsLeaf(H, p[j].node) = IsLeaf(heap, p[j].node)
      BY <1>2, <1>6, <2>1 DEF SameSizes
    <3> QED  BY <3>1, SameRowPart
  <2>2. CASE p[j].node = m
    <3>1. j = i
      BY <1>6, <1>7, <2>2
    <3>2. PICK k \in Slots : k = p[j].index /\ k = Index(heap, a)
      BY <1>6, <1>7, <3>1
    <3>3. PICK f, g \in Rows : f = Row(heap, m) /\ g = Row(H, m)
      <4>1. PICK R, N : Forest(heap, T, R, N, h) /\ Forest(H, T, R, N, h)
        BY <1>2 DEF Tree
      <4> QED  BY <1>7, <4>1, ForestFields
    <3>4. \A s \in Slots : s # k => Bs(g)[s] = Bs(f)[s] /\ Os(g)[s] = Os(f)[s]
      BY <1>2, <3>2, <3>3, RowFields DEF OnlyAt
    <3>5. /\ Bs(f) \in Numbers /\ Os(f) \in Numbers /\ Bs(g) \in Numbers /\ Os(g) \in Numbers
          /\ Slot(f, k).b \in Int
      BY RowFields
    <3>6. k \in 0..(NodeSizeMax + 1) /\ \A s \in 0..(k - 1) : s \in Slots /\ s # k
      BY SizesAssumption DEF Slots
    <3>7. SumBelow(Bs(g), k) = SumBelow(Bs(f), k) /\ SumBelow(Os(g), k) = SumBelow(Os(f), k)
      BY <3>4, <3>5, <3>6, SameBelow
    <3>8. Slot(g, k).b = Slot(f, k).b
      BY <1>2, <3>2, <3>3, <3>5
    <3>9. IsLeaf(H, m) = IsLeaf(heap, m)
      BY <1>2, <1>7 DEF SameSizes
    <3> QED  BY <1>2, <2>2, <3>2, <3>3, <3>7, <3>8, <3>9 DEF SamePart
  <2> QED  BY <2>1, <2>2
<1>9. PathIn(H, T, r, h, p) /\ EndOf(H, r, p) = EndOf(heap, r, p)
      /\ \A j \in 1..Len(p) : StopAt(H, r, p, j) = StopAt(heap, r, p, j)
  BY <1>8, PathKept
<1>10. OnPath(H, r, p, m)
  <2>1. m = StopAt(H, r, p, i)
    BY <1>6, <1>7, <1>9
  <2>2. CASE i = 1
    BY <2>1, <2>2 DEF OnPath, StopAt
  <2>3. CASE i # 1
    <3>1. i - 1 \in 1..Len(p) /\ (i - 1) + 1 = i
      BY <1>3, <2>3
    <3> QED  BY <2>1, <3>1 DEF OnPath
  <2> QED  BY <2>2, <2>3
<1> QED
  BY <1>1, <1>9, <1>10

-----------------------------------------------------------------------------
(* Positions.                                                              *)

\* The bits an operation needs behind its position.
Needed(op) == CASE op \in {"access", "setBit"} -> 1
                [] op = "deleteBlock" -> BlockSize
                [] OTHER -> 0

BlockOps == {"insertBlock", "deleteBlock"}

\* A tree of `total` bits has what the operation needs at position off.
Suits(op, off, total) ==
  off >= 0 /\ off + Needed(op) <= total /\ (op \in BlockOps => Whole(off))

\* A child begins at lo and holds b bits: position off is in it, or at the end of all.
Covers(off, total, lo, b) == lo <= off /\ (off < lo + b \/ (off = lo + b /\ off = total))

\* Then that child has what it needs.
LEMMA SuitsBelow ==
  ASSUME NEW op, NEW off \in Int, NEW total \in Int, Suits(op, off, total),
         NEW lo \in Nat, Whole(lo), NEW b \in Nat, Whole(b), Covers(off, total, lo, b)
  PROVE  Suits(op, off - lo, b)
<1>1. off - lo \in Int /\ off - lo >= 0
  BY DEF Covers
<1>2. op \in BlockOps => Whole(off - lo)
  BY WholeSums DEF Suits
<1>3. off - lo + Needed(op) <= b
  <2>1. CASE op \in {"access", "setBit"}
    <3>1. Needed(op) = 1
      BY <2>1 DEF Needed
    <3> QED  BY <3>1 DEF Suits, Covers
  <2>2. CASE op = "deleteBlock"
    <3>1. Needed(op) = BlockSize /\ op \notin {"access", "setBit"}
      BY <2>2 DEF Needed
    <3>2. off - lo < b
      BY <3>1, SizesAssumption DEF Suits, Covers
    <3>3. Whole(off - lo)
      BY <1>2, <2>2 DEF BlockOps
    <3> QED  BY <1>1, <3>1, <3>2, <3>3, WholeGap, SizesAssumption
  <2>3. CASE op \notin {"access", "setBit", "deleteBlock"}
    <3>1. Needed(op) = 0
      BY <2>3 DEF Needed
    <3> QED  BY <3>1 DEF Suits, Covers
  <2> QED  BY <2>1, <2>2, <2>3
<1> QED
  BY <1>1, <1>2, <1>3 DEF Suits

\* What is before and below a child of a node.
LEMMA ChildSums ==
  ASSUME NEW heap, NEW T, NEW r, NEW h, Tree(heap, T, r, h), AllExact(heap, T, r),
         NEW n \in T, ~IsLeaf(heap, n), NEW i \in Slots, i < Width(heap, n),
         NEW c, c = Kid(Row(heap, n), i)
  PROVE  LET lo == BitsBelow(heap[n], i)
         IN  /\ lo \in Nat /\ Whole(lo) /\ OnesBelow(heap[n], i) \in Nat
             /\ lo = SumBelow(Bs(Row(heap, n)), i) /\ OnesBelow(heap[n], i) = SumBelow(Os(Row(heap, n)), i)
             /\ c \in T /\ c # r /\ Bits(heap, c) \in Nat /\ Whole(Bits(heap, c))
             /\ Slot(Row(heap, n), i).b = Bits(heap, c)
             /\ BitsBelow(heap[n], i + 1) = lo + Bits(heap, c)
             /\ BitsBelow(heap[n], Width(heap, n)) = Bits(heap, n)
<1>1. NaturalRows(heap, T) /\ \A m \in T : Holds(heap, m)
  BY TreeNumbers
<1>2. PICK R, N : R = {r} /\ N = {} /\ Forest(heap, T, R, N, h)
  BY DEF Tree
<1>3. PICK row \in Rows : row = Row(heap, n) /\ NaturalRow(row)
  BY <1>1, <1>2, ForestFields DEF NaturalRows
<1>4. Bs(row) \in [Slots -> Nat] /\ Os(row) \in [Slots -> Nat] /\ Bs(row) \in Numbers
  BY <1>3 DEF NaturalRow, Bs, Os, Numbers
<1>5. \A k : BitsBelow(heap[n], k) = SumBelow(Bs(row), k) /\ OnesBelow(heap[n], k) = SumBelow(Os(row), k)
  BY <1>3 DEF BitsBelow, OnesBelow, Bs, Os, Row
<1>6. i \in 0..(NodeSizeMax + 1) /\ Width(heap, n) \in 0..(NodeSizeMax + 1)
  BY <1>2, ForestFields, SizesAssumption DEF Slots
<1>7. SumBelow(Bs(row), i) \in Nat /\ SumBelow(Os(row), i) \in Nat
  BY <1>4, <1>6, NaturalSums
<1>8. c \in T /\ c # r /\ Entry(heap, c) = Slot(row, i)
  BY <1>3, TreeKid
<1>9. Bits(heap, c) \in Nat /\ Whole(Bits(heap, c)) /\ Slot(row, i).b = Bits(heap, c)
  BY <1>1, <1>8 DEF Holds, AllExact, Exact
<1>10. SumBelow(Bs(row), i + 1) = SumBelow(Bs(row), i) + Bits(heap, c)
  BY <1>3, <1>4, <1>9, Sums, RowFields
<1>11. Whole(SumBelow(Bs(row), i))
  <2>1. ASSUME NEW k \in Slots PROVE Whole(Bs(row)[k])
    <3>1. CASE k < Width(heap, n)
      <4>1. PICK m : m \in T /\ m # r /\ Entry(heap, m) = Slot(row, k)
        BY <1>3, <3>1, TreeKid
      <4>2. Slot(row, k).b = Bits(heap, m) /\ Whole(Bits(heap, m))
        BY <1>1, <4>1 DEF AllExact, Exact, Holds
      <4> QED  BY <1>3, <4>2, RowFields
    <3>2. CASE ~(k < Width(heap, n))
      <4>1. Slot(row, k) = EmptyEntry
        BY <1>3, <3>2, TreeKid
      <4>2. Bs(row)[k] = 0
        BY <1>3, <4>1, RowFields DEF EmptyEntry
      <4> QED  BY <4>2, WholeSums
    <3> QED  BY <3>1, <3>2
  <2> QED  BY <1>4, <1>6, <2>1, WholeSumBelow
<1>12. SumBelow(Bs(row), Width(heap, n)) = Bits(heap, n)
  <2>1. Ends(row, Width(heap, n))
    BY <1>3, TreeKid DEF Ends
  <2>2. Bits(heap, n) = Total(Bs(row))
    BY <1>2, <1>3, ForestFields, NamedAmounts
  <2> QED  BY <1>6, <2>1, <2>2, EndedSum
<1> QED
  BY <1>3, <1>5, <1>7, <1>8, <1>9, <1>10, <1>11, <1>12

-----------------------------------------------------------------------------
(* The inductive invariant.  T are the nodes of the tree, h their heights. *)

Phases == {"idle", "up", "down", "count", "upper", "lower"}

\* The local variables.
Typed(T) ==
  /\ path \in Seq(Nesbos) /\ before \in [b : Nat, o : Nat]
  /\ delta \in [b : {0, BlockSize, -BlockSize}, o : (-BlockSize)..1]
  /\ at \in T \cup {nullptr} /\ leaf \in DOMAIN node \cup {nullptr} /\ pc \in Phases
  /\ IF pc = "idle" THEN call = NoCall /\ at = nullptr /\ leaf = nullptr /\ before = NoDelta
                    ELSE call \in Calls

\* How far a leaf may be out of bounds while an operation is counted.
Due(o) == IF call.op = o THEN 1 ELSE 0

Steady(T) == AllExact(node, T, root) /\ AllFit(node, T, root)

\* updateCounters is at a node whose entry is behind.
Catching(T) ==
  /\ at \in T /\ leaf \in T /\ IsLeaf(node, leaf)
  /\ Counting(node, T, root, at, delta)
  /\ FitsBut(node, T, root, leaf, Due("insertBlock"), Due("deleteBlock"))
  /\ call.op \in BlockOps \cup {"setBit"}
  /\ call.op = "setBit" => delta.b = 0

\* checkSizeUpper or checkSizeLower is at a node that may be out of bounds.
Checking(T, op, up, down) ==
  /\ at \in T /\ call.op = op /\ AllExact(node, T, root)
  /\ FitsBut(node, T, root, at, up, down)

\* The nodes.
Shaped(T, h) ==
  /\ Tree(node, T, root, h) /\ NaturalRows(node, T)
  /\ pc \in {"idle", "up", "down"} => Steady(T)
  /\ pc = "count" => Catching(T)
  /\ pc = "upper" => Checking(T, "insertBlock", 1, 0)
  /\ pc = "lower" => Checking(T, "deleteBlock", 0, 1)

\* Going up, the whole tree has what the operation needs.
GoingUp ==
  /\ path # <<>> /\ call.withPath /\ before = NoDelta
  /\ Suits(call.op, call.n, Bits(node, root))

\* Going down, the subtree has it, and the path leads there.
GoingDown(T) ==
  /\ at \in T /\ Whole(before.b) /\ Reaches(path, call.n)
  /\ Suits(call.op, call.n - before.b, Bits(node, at))
  /\ IF call.withPath THEN at = EndOf(node, root, path) /\ before = SumsOf(path)
                      ELSE path = <<>>

\* While a bit is counted the path stays, and updateCounters follows it.
OnTheWay ==
  path # <<>> => /\ IsLeaf(node, EndOf(node, root, path)) /\ Reaches(path, call.n)
                 /\ OnPath(node, root, path, at)

\* The path.
Route(T, h) ==
  /\ PathUsed => PathIn(node, T, root, h, path)
  /\ pc = "idle" /\ path # <<>> => IsLeaf(node, EndOf(node, root, path))
  /\ pc = "up" => GoingUp
  /\ pc = "down" => GoingDown(T)
  /\ pc = "count" /\ call.op = "setBit" => OnTheWay

Good(T, h) == Typed(T) /\ Shaped(T, h) /\ Route(T, h)

IInv == \E T, h : Good(T, h)

\* A call returns to a tree in order, with a path that leads to a leaf or none.
LEMMA ReturnedGood ==
  ASSUME NEW U, NEW g, Restored(node', U, root', g), Return,
         PathIn(node', U, root', g, path'),
         path' # <<>> => IsLeaf(node', EndOf(node', root', path'))
  PROVE  Good(U, g)'
<1>1. /\ pc' = "idle" /\ call' = NoCall /\ at' = nullptr /\ leaf' = nullptr
      /\ before' = NoDelta /\ delta' = NoDelta
  BY DEF Return
<1>2. Typed(U)'
  <2>1. path' \in Seq(Nesbos)
    BY DEF PathIn
  <2>2. NoDelta \in [b : Nat, o : Nat]
        /\ NoDelta \in [b : {0, BlockSize, -BlockSize}, o : (-BlockSize)..1]
    BY SizesAssumption DEF NoDelta
  <2> QED  BY <1>1, <2>1, <2>2 DEF Typed, Phases
<1>3. Shaped(U, g)'
  <2>1. Tree(node', U, root', g) /\ AllExact(node', U, root') /\ AllFit(node', U, root')
    BY DEF Restored
  <2>2. NaturalRows(node', U)
    BY <2>1, TreeNumbers
  <2> QED  BY <1>1, <2>1, <2>2 DEF Shaped, Steady
<1>4. Route(U, g)'
  BY <1>1 DEF Route
<1> QED
  BY <1>2, <1>3, <1>4 DEF Good

\* The wrappers clear the path.
LEMMA ClearedGood ==
  ASSUME NEW U, NEW g, NEW r, ReturnRoot(r), Restored(node', U, r, g)
  PROVE  IInv'
<1>1. Return /\ root' = r /\ path' = <<>>
  BY DEF ReturnRoot
<1>2. PathIn(node', U, root', g, path')
  BY <1>1, EmptyPath
<1>3. Good(U, g)'
  BY <1>1, <1>2, ReturnedGood
<1> QED
  BY <1>3 DEF IInv

\* At first there is one empty leaf.
LEMMA InitGood == Init => IInv
<1> SUFFICES ASSUME Init PROVE IInv
  OBVIOUS
<1>1. /\ node = [n \in {1} |-> LeafNode(<<>>, nullptr)] /\ root = 1 /\ path = <<>>
      /\ pc = "idle" /\ call = NoCall /\ at = nullptr /\ leaf = nullptr
      /\ before = NoDelta /\ delta = NoDelta
  BY DEF Init, New
<1>2. PICK T, h : T = {1} /\ h = [n \in Nat |-> 0]
  OBVIOUS
<1>3. /\ IsLeaf(node, 1) /\ Up(node, 1) = nullptr /\ Bv(node, 1) = <<>>
      /\ Row(node, 1) = [i \in Slots |-> EmptyEntry] /\ DOMAIN node = {1}
  BY <1>1 DEF IsLeaf, Up, Bv, Row, LeafNode
<1>4. Heap(node)
  <2>1. LeafNode(<<>>, nullptr) \in RoughNodes
    BY SizesAssumption DEF LeafNode, RoughNodes, nullptr, Slots, EmptyEntry
  <2>2. IsFiniteSet({1})
    BY FS_Singleton
  <2> QED  BY <1>1, <1>3, <2>1, <2>2 DEF Heap, nullptr
<1>5. Tree(node, T, root, h)
  <2>1. Row(node, 1) \in NoChildren
    BY <1>3 DEF NoChildren, EmptyEntry
  <2>2. Forest(node, T, {root}, {}, h)
    BY <1>1, <1>2, <1>3, <1>4, <2>1 DEF Forest
  <2>3. Lower(h, T, h[root])
    BY <1>1, <1>2 DEF Lower
  <2>4. AllWhole(node, T)
    BY <1>2, <1>3, EmptySeq, WholeSums DEF AllWhole
  <2> QED  BY <1>1, <1>2, <1>3, <2>2, <2>3, <2>4 DEF Tree
<1>6. AllExact(node, T, root) /\ NaturalRows(node, T)
  BY <1>1, <1>2, <1>3 DEF AllExact, NaturalRows
<1>7. AllFit(node, T, root)
  <2>1. SizeOf(node, 1) = Blocks(0)
    BY <1>3, SizeFields, EmptySeq
  <2>2. Blocks(0) = 0
    BY SizesAssumption, WholeIsProduct DEF Blocks
  <2> QED  BY <1>1, <1>2, <1>3, <2>1, <2>2, SizesAssumption DEF AllFit, Fits, MaxOf
<1>8. Typed(T)
  <2>1. path \in Seq(Nesbos)
    BY <1>1, EmptySeq
  <2>2. NoDelta \in [b : Nat, o : Nat]
        /\ NoDelta \in [b : {0, BlockSize, -BlockSize}, o : (-BlockSize)..1]
    BY SizesAssumption DEF NoDelta
  <2> QED  BY <1>1, <2>1, <2>2 DEF Typed, Phases
<1>9. PathIn(node, T, root, h, path)
  BY <1>1, EmptyPath
<1>10. Good(T, h)
  BY <1>1, <1>5, <1>6, <1>7, <1>8, <1>9 DEF Good, Shaped, Steady, Route
<1> QED
  BY <1>10 DEF IInv

-----------------------------------------------------------------------------
(* A call begins, and searches its leaf.                                   *)

\* What the invariant says of a steady tree.
LEMMA SteadyTree ==
  ASSUME NEW T, NEW h, Good(T, h), pc \in {"idle", "up", "down"}
  PROVE  /\ Tree(node, T, root, h) /\ AllExact(node, T, root) /\ AllFit(node, T, root)
         /\ Restored(node, T, root, h) /\ PathIn(node, T, root, h, path) /\ root \in T
         /\ \A m \in T : Holds(node, m)
<1>1. /\ Tree(node, T, root, h) /\ AllExact(node, T, root) /\ AllFit(node, T, root)
  BY DEF Good, Shaped, Steady
<1>2. Restored(node, T, root, h)
  BY <1>1 DEF Restored
<1>3. PathIn(node, T, root, h, path)
  BY DEF Good, Route, PathUsed
<1>4. root \in T /\ \A m \in T : Holds(node, m)
  BY <1>1, TreeNumbers DEF Tree
<1> QED
  BY <1>1, <1>2, <1>3, <1>4

\* A search leaves the nodes alone.
LEMMA SearchedGood ==
  ASSUME NEW T, NEW h, Good(T, h), pc \in {"idle", "up", "down"},
         UNCHANGED <<node, root, leaf, delta>>, pc' \in {"up", "down"}, call' \in Calls,
         at' \in T \cup {nullptr}, before' \in [b : Nat, o : Nat],
         PathIn(node, T, root, h, path'), pc' = "up" => GoingUp', pc' = "down" => GoingDown(T)'
  PROVE  IInv'
<1>1. pc' # "idle" /\ pc' \notin {"count", "upper", "lower"} /\ pc' \in Phases
  BY DEF Phases
<1>2. Typed(T)'
  <2>1. path' \in Seq(Nesbos)
    BY DEF PathIn
  <2> QED  BY <1>1, <2>1 DEF Good, Typed
<1>3. Shaped(T, h)'
  BY <1>1 DEF Good, Shaped, Steady
<1>4. Route(T, h)'
  BY <1>1 DEF Route
<1>5. Good(T, h)'
  BY <1>2, <1>3, <1>4 DEF Good
<1> QED
  BY <1>5 DEF IInv

\* What the code calls a tree with suits it.
LEMMA AcceptedSuits ==
  ASSUME NEW T, NEW h, Good(T, h), pc = "idle", NEW c \in Calls, Accepts(c)
  PROVE  Suits(c.op, c.n, Bits(node, root))
<1>1. Bits(node, root) \in Nat /\ Whole(Bits(node, root))
  BY SteadyTree DEF Holds
<1>2. PICK total \in Nat : total = bits(node[root]) /\ total = Bits(node, root) /\ Whole(total)
  BY <1>1 DEF Bits
<1>3. PICK n \in Nat, op \in {"insertBlock", "deleteBlock", "access", "rank1", "setBit"} :
        n = c.n /\ op = c.op
  BY DEF Calls
<1>4. CASE op = "insertBlock"
  <2>1. n \in BlockPositions
    BY <1>3, <1>4 DEF Accepts
  <2>2. n <= total /\ Whole(n)
    BY <1>2, <2>1 DEF BlockPositions, Whole
  <2>3. Needed(op) = 0
    BY <1>4 DEF Needed
  <2> QED  BY <1>2, <1>3, <2>2, <2>3 DEF Suits
<1>5. CASE op = "deleteBlock"
  <2>1. n \in BlockPositions /\ n \in Positions
    BY <1>3, <1>5 DEF Accepts
  <2>2. n < total /\ Whole(n)
    BY <1>2, <1>3, <2>1 DEF BlockPositions, Positions, Whole
  <2>3. Needed(op) = BlockSize
    BY <1>5 DEF Needed
  <2>4. n + BlockSize <= total
    BY <1>2, <2>2, WholeGap
  <2> QED  BY <1>2, <1>3, <2>2, <2>3, <2>4 DEF Suits
<1>6. CASE op = "rank1"
  <2>1. n \in Positions \cup {total}
    BY <1>2, <1>3, <1>6 DEF Accepts
  <2>2. n <= total
    BY <1>2, <1>3, <2>1 DEF Positions
  <2>3. Needed(op) = 0 /\ op \notin BlockOps
    BY <1>6 DEF Needed, BlockOps
  <2> QED  BY <1>2, <1>3, <2>2, <2>3 DEF Suits
<1>7. CASE op \in {"access", "setBit"}
  <2>1. n \in Positions
    BY <1>3, <1>7 DEF Accepts
  <2>2. n + 1 <= total
    BY <1>2, <1>3, <2>1 DEF Positions
  <2>3. Needed(op) = 1 /\ op \notin BlockOps
    BY <1>7 DEF Needed, BlockOps
  <2> QED  BY <1>2, <1>3, <2>2, <2>3 DEF Suits
<1> QED
  BY <1>3, <1>4, <1>5, <1>6, <1>7

\* A call begins at the end of its path or at the root.
LEMMA BeginGood ==
  ASSUME NEW T, NEW h, Good(T, h), NEW c \in Calls, Ask(c)
  PROVE  IInv'
<1>1. /\ pc = "idle" /\ call' = c /\ UNCHANGED <<node, root, path, leaf, before, delta>>
      /\ IF c.withPath /\ path # <<>> THEN pc' = "up" /\ at' = at
                                      ELSE pc' = "down" /\ at' = root
      /\ Accepts(c)
  BY DEF Ask, Begin
<1>2. /\ Suits(c.op, c.n, Bits(node, root)) /\ PathIn(node, T, root, h, path) /\ root \in T
      /\ before = NoDelta /\ c.n \in Nat /\ before \in [b : Nat, o : Nat] /\ at \in T \cup {nullptr}
      /\ Typed(T)
  BY <1>1, AcceptedSuits, SteadyTree DEF Calls, Good, Typed
<1>3. CASE c.withPath /\ path # <<>>
  <2>1. GoingUp'
    BY <1>1, <1>2, <1>3 DEF GoingUp
  <2>2. pc' = "up" /\ pc' # "down" /\ at' = at
    BY <1>1, <1>3
  <2> QED  BY <1>1, <1>2, <2>1, <2>2, SearchedGood
<1>4. CASE ~(c.withPath /\ path # <<>>)
  <2>1. path = <<>>
    BY <1>1, <1>4 DEF Accepts
  <2>2. pc' = "down" /\ pc' # "up" /\ at' = root
    BY <1>1, <1>4
  <2>3. GoingDown(T)'
    <3>1. at' \in T /\ before' = NoDelta /\ path' = <<>> /\ call' = c
      BY <1>1, <1>2, <2>1, <2>2
    <3>2. before'.b = 0 /\ Whole(before'.b) /\ call'.n - before'.b = c.n
      BY <1>2, <3>1, WholeSums DEF NoDelta
    <3>3. Reaches(path', call'.n) /\ at' = EndOf(node', root', path') /\ before' = SumsOf(path')
      BY <1>1, <2>2, <3>1, EmptyPath
    <3>4. Suits(call'.op, call'.n - before'.b, Bits(node', at'))
      BY <1>1, <1>2, <2>2, <3>1, <3>2
    <3> QED  BY <3>1, <3>2, <3>3, <3>4 DEF GoingDown
  <2> QED  BY <1>1, <1>2, <2>1, <2>2, <2>3, SearchedGood
<1> QED
  BY <1>3, <1>4

\* So does every operation.
LEMMA StartGood ==
  ASSUME NEW T, NEW h, Good(T, h), Start
  PROVE  IInv'
<1>1. pc = "idle"
  BY DEF Start, insertBlock, deleteBlock, setBit, access, rank1, Ask, Begin
<1>2. bits(node[root]) \in Nat
  BY <1>1, SteadyTree DEF Holds, Bits
<1>3. BlockPositions \subseteq Nat /\ Probes \subseteq Nat
  BY <1>2, UseAssumption DEF BlockPositions
<1>4. PICK c \in Calls : Ask(c)
  <2>1. CASE insertBlock
    <3>1. PICK n \in BlockPositions, w \in BOOLEAN :
            Ask([op |-> "insertBlock", n |-> n, withPath |-> w])
      BY <2>1 DEF insertBlock
    <3>2. [op |-> "insertBlock", n |-> n, withPath |-> w] \in Calls
      BY <1>3 DEF Calls
    <3> QED  BY <3>1, <3>2
  <2>2. CASE deleteBlock
    <3>1. PICK n \in BlockPositions, w \in BOOLEAN :
            Ask([op |-> "deleteBlock", n |-> n, withPath |-> w])
      BY <2>2 DEF deleteBlock
    <3>2. [op |-> "deleteBlock", n |-> n, withPath |-> w] \in Calls
      BY <1>3 DEF Calls
    <3> QED  BY <3>1, <3>2
  <2>3. CASE setBit
    <3>1. PICK n \in Probes, b \in BOOLEAN, w \in BOOLEAN :
            Ask([op |-> "setBit", n |-> n, b |-> b, withPath |-> w])
      BY <2>3 DEF setBit
    <3>2. [op |-> "setBit", n |-> n, b |-> b, withPath |-> w] \in Calls
      BY <1>3 DEF Calls
    <3> QED  BY <3>1, <3>2
  <2>4. CASE access
    <3>1. PICK n \in Probes, w \in BOOLEAN : Ask([op |-> "access", n |-> n, withPath |-> w])
      BY <2>4 DEF access
    <3>2. [op |-> "access", n |-> n, withPath |-> w] \in Calls
      BY <1>3 DEF Calls
    <3> QED  BY <3>1, <3>2
  <2>5. CASE rank1
    <3>1. PICK n \in Probes, w \in BOOLEAN : Ask([op |-> "rank1", n |-> n, withPath |-> w])
      BY <2>5 DEF rank1
    <3>2. [op |-> "rank1", n |-> n, withPath |-> w] \in Calls
      BY <1>3 DEF Calls
    <3> QED  BY <3>1, <3>2
  <2> QED  BY <2>1, <2>2, <2>3, <2>4, <2>5 DEF Start
<1> QED
  BY <1>4, BeginGood

\* One iteration up the path.
LEMMA GoUpGood ==
  ASSUME NEW T, NEW h, Good(T, h), GoUp
  PROVE  IInv'
<1>1. /\ pc = "up" /\ path' = SubSeq(path, 1, Len(path) - 1)
      /\ IF Len(path) = 1 THEN pc' = "down" /\ at' = Top.node ELSE UNCHANGED <<pc, at>>
      /\ UNCHANGED <<node, root, call, leaf, before, delta>>
  BY DEF GoUp
<1>2. /\ GoingUp /\ Typed(T) /\ Tree(node, T, root, h) /\ PathIn(node, T, root, h, path)
      /\ root \in T
  BY <1>1, SteadyTree DEF Good, Shaped, Route
<1>3. /\ path # <<>> /\ call.withPath /\ before = NoDelta
      /\ Suits(call.op, call.n, Bits(node, root))
  BY <1>2 DEF GoingUp
<1>4. call \in Calls /\ call.n \in Nat
  <2>1. call \in Calls
    BY <1>1, <1>2 DEF Typed
  <2> QED  BY <2>1 DEF Calls
<1>5. /\ at \in T \cup {nullptr} /\ before \in [b : Nat, o : Nat]
  BY <1>2 DEF Typed
<1>6. PathIn(node, T, root, h, path') /\ Len(path) \in Nat /\ Len(path) >= 1
      /\ Len(path') = Len(path) - 1
  <2>1. Len(path) \in Nat /\ Len(path) >= 1 /\ path \in Seq(Nesbos)
    BY <1>2, <1>3, EmptySeq, LenProperties DEF PathIn
  <2>2. Len(SubSeq(path, 1, Len(path) - 1)) = Len(path) - 1
    BY <2>1, SubSeqProperties
  <2> QED  BY <1>1, <1>2, <1>3, <2>1, <2>2, PathFront
<1>7. CASE Len(path) = 1
  <2>1. pc' = "down" /\ pc' # "up" /\ path' = <<>>
    BY <1>1, <1>6, <1>7, EmptySeq DEF PathIn
  <2>2. at' = root
    <3>1. Leads(node, T, path[1], StopAt(node, root, path, 1), SumsAbove(path, 1))
      BY <1>2, <1>7 DEF PathIn
    <3>2. path[1].node = root
      BY <3>1 DEF Leads, StopAt
    <3> QED  BY <1>1, <1>7, <3>2 DEF Top
  <2>3. GoingDown(T)'
    <3>1. before' = NoDelta /\ path' = <<>> /\ call' = call /\ root' = root /\ node' = node
      BY <1>1, <1>3, <2>1
    <3>2. before'.b = 0 /\ Whole(before'.b) /\ call'.n - before'.b = call.n
      BY <1>4, <3>1, WholeSums DEF NoDelta
    <3>3. Reaches(path', call'.n) /\ at' = EndOf(node', root', path') /\ before' = SumsOf(path')
      BY <2>2, <3>1, EmptyPath
    <3>4. Suits(call'.op, call'.n - before'.b, Bits(node', at')) /\ at' \in T
      BY <1>2, <1>3, <2>2, <3>1, <3>2
    <3>5. call'.withPath
      BY <1>3, <3>1
    <3> QED  BY <3>2, <3>3, <3>4, <3>5 DEF GoingDown
  <2> QED  BY <1>1, <1>2, <1>3, <1>4, <1>5, <1>6, <2>1, <2>2, <2>3, SearchedGood
<1>8. CASE Len(path) # 1
  <2>1. pc' = "up" /\ pc' # "down" /\ at' = at
    BY <1>1, <1>8
  <2>2. path' # <<>>
    BY <1>6, <1>8, EmptySeq
  <2>3. GoingUp'
    BY <1>1, <1>3, <2>2 DEF GoingUp
  <2> QED  BY <1>1, <1>4, <1>5, <1>6, <2>1, <2>3, SearchedGood
<1> QED
  BY <1>7, <1>8

\* The subtree at the end of the path holds the position.
LEMMA TurnDownGood ==
  ASSUME NEW T, NEW h, Good(T, h), TurnDown
  PROVE  IInv'
<1>1. /\ pc = "up" /\ pc' = "down" /\ pc' # "up" /\ ~Outside(call.n, Top)
      /\ at' = node[Top.node].entries[Top.index].P
      /\ before' = [b |-> Top.bitsBefore, o |-> Top.onesBefore]
      /\ UNCHANGED <<node, root, path, call, leaf, delta>>
  BY DEF TurnDown
<1>2. /\ GoingUp /\ Typed(T) /\ Tree(node, T, root, h) /\ PathIn(node, T, root, h, path)
      /\ root \in T /\ AllExact(node, T, root) /\ \A m \in T : Holds(node, m)
  BY <1>1, SteadyTree DEF Good, Shaped, Route
<1>3. /\ path # <<>> /\ call.withPath /\ Suits(call.op, call.n, Bits(node, root))
  BY <1>2 DEF GoingUp
<1>4. call \in Calls /\ call.n \in Nat
  <2>1. call \in Calls
    BY <1>1, <1>2 DEF Typed
  <2> QED  BY <2>1 DEF Calls
<1>5. PICK c : c = EndOf(node, root, path)
  OBVIOUS
<1>6. /\ Top.node \in T /\ c = Kid(Row(node, Top.node), Top.index) /\ c \in T /\ c # root
      /\ Top.size = Entry(node, c).b /\ Whole(Top.bitsBefore)
      /\ Top.bitsBefore \in Nat /\ Top.onesBefore \in Nat /\ Len(path) \in 1..Len(path)
      /\ SumsOf(path) = [b |-> Top.bitsBefore, o |-> Top.onesBefore]
  BY <1>2, <1>3, <1>5, PathTop DEF Top
<1>7. at' = c /\ before' = SumsOf(path) /\ before' \in [b : Nat, o : Nat]
      /\ before'.b = Top.bitsBefore
  BY <1>1, <1>6 DEF Kid, Row
<1>8. Bits(node, c) \in Nat /\ Whole(Bits(node, c)) /\ Top.size = Bits(node, c)
  BY <1>2, <1>6 DEF Holds, AllExact, Exact
<1>9. Top.bitsBefore <= call.n /\ call.n < Top.bitsBefore + Bits(node, c)
  BY <1>1, <1>4, <1>6, <1>8 DEF Outside
<1>10. Suits(call.op, call.n - Top.bitsBefore, Bits(node, c))
  <2>1. PICK n, total \in Int, lo \in Nat, b \in Nat :
          n = call.n /\ total = Bits(node, root) /\ lo = Top.bitsBefore /\ b = Bits(node, c)
    BY <1>2, <1>4, <1>6, <1>8 DEF Holds
  <2>2. Covers(n, total, lo, b) /\ n \in Int
    BY <1>4, <1>9, <2>1 DEF Covers
  <2> QED  BY <1>3, <1>6, <1>8, <2>1, <2>2, SuitsBelow
<1>11. Reaches(path, call.n)
  <2>1. ASSUME NEW i \in 1..Len(path) PROVE path[i].bitsBefore <= call.n
    <3>1. path[i].bitsBefore <= Top.bitsBefore
      BY <1>2, <1>6 DEF PathIn, Top
    <3>2. path[i] \in Nesbos
      BY <1>2, ElementOfSeq DEF PathIn
    <3>3. path[i].bitsBefore \in Nat
      BY <3>2 DEF Nesbos
    <3> QED  BY <1>4, <1>6, <1>9, <3>1, <3>3
  <2> QED  BY <2>1 DEF Reaches
<1>12. GoingDown(T)'
  <2>1. at' \in T /\ Whole(before'.b) /\ Reaches(path', call'.n)
    BY <1>1, <1>6, <1>7, <1>11
  <2>2. Suits(call'.op, call'.n - before'.b, Bits(node', at'))
    BY <1>1, <1>7, <1>10
  <2>3. call'.withPath /\ at' = EndOf(node', root', path') /\ before' = SumsOf(path')
    BY <1>1, <1>3, <1>5, <1>7
  <2> QED  BY <2>1, <2>2, <2>3 DEF GoingDown
<1>13. at' \in T \cup {nullptr} /\ PathIn(node, T, root, h, path')
  BY <1>1, <1>2, <1>6, <1>7
<1> QED
  BY <1>1, <1>4, <1>7, <1>12, <1>13, SearchedGood

\* One iteration down the tree.
LEMMA DescendGood ==
  ASSUME NEW T, NEW h, Good(T, h), Descend
  PROVE  IInv'
<1>1. /\ pc = "down" /\ ~IsLeaf(node, at)
      /\ UNCHANGED <<node, root, pc, call, leaf, delta>>
  BY DEF Descend, IsLeaf
<1>2. /\ GoingDown(T) /\ Typed(T) /\ Tree(node, T, root, h) /\ PathIn(node, T, root, h, path)
      /\ root \in T /\ AllExact(node, T, root) /\ \A m \in T : Holds(node, m)
      /\ NaturalRows(node, T)
  BY <1>1, SteadyTree DEF Good, Shaped, Route
<1>3. /\ at \in T /\ Whole(before.b) /\ Reaches(path, call.n)
      /\ Suits(call.op, call.n - before.b, Bits(node, at))
      /\ IF call.withPath THEN at = EndOf(node, root, path) /\ before = SumsOf(path)
                          ELSE path = <<>>
  BY <1>2 DEF GoingDown
<1>4. call \in Calls /\ call.n \in Nat /\ before \in [b : Nat, o : Nat]
      /\ before.b \in Nat /\ before.o \in Nat
  <2>1. call \in Calls /\ before \in [b : Nat, o : Nat]
    BY <1>1, <1>2 DEF Typed
  <2> QED  BY <2>1 DEF Calls
<1>5. PICK i \in Slots :
        /\ FindChild(node[at], call.n - before.b, i)
        /\ before' = [b |-> before.b + BitsBelow(node[at], i),
                      o |-> before.o + OnesBelow(node[at], i)]
        /\ path' = IF call.withPath
                   THEN Append(path, [node |-> at, index |-> i, size |-> node[at].entries[i].b,
                                      bitsBefore |-> before'.b, onesBefore |-> before'.o])
                   ELSE path
        /\ at' = node[at].entries[i].P
  BY DEF Descend
<1>6. PICK off \in Int : off = call.n - before.b
  BY <1>4
<1>7. Width(node, at) \in 0..(NodeSizeMax + 1)
  <2>1. PICK R, N : Forest(node, T, R, N, h)
    BY <1>2 DEF Tree
  <2> QED  BY <1>3, <2>1, ForestFields
<1>8. /\ i < Width(node, at) /\ BitsBelow(node[at], i) <= off
      /\ \/ off < BitsBelow(node[at], i + 1)
         \/ i = Width(node, at) - 1 /\ off = BitsBelow(node[at], Width(node, at))
  BY <1>5, <1>6, <1>7, SizesAssumption DEF FindChild, Width, Slots
<1>9. PICK c : c = Kid(Row(node, at), i)
  OBVIOUS
<1>10. PICK lo \in Nat, ol \in Nat, b \in Nat, total \in Nat :
         /\ lo = BitsBelow(node[at], i) /\ Whole(lo) /\ ol = OnesBelow(node[at], i)
         /\ lo = SumBelow(Bs(Row(node, at)), i) /\ ol = SumBelow(Os(Row(node, at)), i)
         /\ c \in T /\ b = Bits(node, c) /\ Whole(b) /\ Slot(Row(node, at), i).b = b
         /\ BitsBelow(node[at], i + 1) = lo + b
         /\ BitsBelow(node[at], Width(node, at)) = total /\ total = Bits(node, at)
  <2>1. Bits(node, at) \in Nat
    BY <1>2, <1>3 DEF Holds
  <2>2. /\ BitsBelow(node[at], i) \in Nat /\ Whole(BitsBelow(node[at], i))
        /\ OnesBelow(node[at], i) \in Nat
        /\ BitsBelow(node[at], i) = SumBelow(Bs(Row(node, at)), i)
        /\ OnesBelow(node[at], i) = SumBelow(Os(Row(node, at)), i)
        /\ c \in T /\ Bits(node, c) \in Nat /\ Whole(Bits(node, c))
        /\ Slot(Row(node, at), i).b = Bits(node, c)
        /\ BitsBelow(node[at], i + 1) = BitsBelow(node[at], i) + Bits(node, c)
        /\ BitsBelow(node[at], Width(node, at)) = Bits(node, at)
    BY <1>1, <1>2, <1>3, <1>8, <1>9, ChildSums
  <2> QED  BY <2>1, <2>2
<1>11. Covers(off, total, lo, b)
  <2>1. i = Width(node, at) - 1 => i + 1 = Width(node, at)
    BY <1>7
  <2> QED  BY <1>8, <1>10, <2>1 DEF Covers
<1>12. Suits(call.op, off - lo, b)
  BY <1>3, <1>6, <1>10, <1>11, SuitsBelow
<1>13. PICK bb \in Nat, oo \in Nat : bb = before.b + lo /\ oo = before.o + ol
                                     /\ before' = [b |-> bb, o |-> oo]
  BY <1>4, <1>5, <1>10
<1>14. /\ at' = c /\ before' \in [b : Nat, o : Nat] /\ Whole(bb)
       /\ call.n - bb = off - lo /\ bb <= call.n
  <2>1. at' = c
    BY <1>5, <1>9 DEF Kid, Row
  <2>2. Whole(bb)
    <3>1. PICK x \in Int, y \in Int : x = before.b /\ y = lo /\ Whole(x) /\ Whole(y)
      BY <1>3, <1>4, <1>10
    <3>2. Whole(x + y)
      BY <3>1, WholeSums
    <3> QED  BY <1>13, <3>1, <3>2
  <2>3. call.n - bb = off - lo /\ bb <= call.n
    BY <1>4, <1>6, <1>10, <1>11, <1>13 DEF Covers
  <2> QED  BY <1>13, <2>1, <2>2, <2>3
<1>15. GoingDown(T)' /\ PathIn(node, T, root, h, path')
  <2>1. at' \in T /\ Whole(before'.b) /\ Suits(call'.op, call'.n - before'.b, Bits(node', at'))
    BY <1>1, <1>10, <1>12, <1>13, <1>14
  <2>2. CASE ~call.withPath
    <3>1. path' = <<>> /\ path = <<>>
      BY <1>3, <1>5, <2>2
    <3>2. Reaches(path', call'.n) /\ PathIn(node, T, root, h, path')
      BY <3>1, EmptyPath
    <3> QED  BY <1>1, <2>1, <2>2, <3>1, <3>2 DEF GoingDown
  <2>3. CASE call.withPath
    <3>1. PICK e : e = [node |-> at, index |-> i, size |-> b, bitsBefore |-> bb, onesBefore |-> oo]
      OBVIOUS
    <3>2. path' = Append(path, e)
      BY <1>5, <1>10, <1>13, <2>3, <3>1 DEF Slot, Row
    <3>3. e \in Nesbos
      <4>1. at \in Nat
        <5>1. PICK R, N : Forest(node, T, R, N, h)
          BY <1>2 DEF Tree
        <5> QED  BY <1>3, <5>1, ForestFields
      <4> QED  BY <3>1, <4>1 DEF Nesbos
    <3>4. /\ e.node = at /\ e.index = i /\ e.size = b /\ e.bitsBefore = bb /\ e.onesBefore = oo
          /\ SumsOf(path).b = before.b /\ SumsOf(path).o = before.o
          /\ at = EndOf(node, root, path)
      BY <1>3, <2>3, <3>1
    <3>5. Leads(node, T, e, EndOf(node, root, path), SumsOf(path))
      BY <1>1, <1>3, <1>8, <1>10, <1>13, <1>14, <3>4 DEF Leads
    <3>6. SumsOf(path).b <= e.bitsBefore
      BY <1>4, <1>13, <3>4
    <3>7. PathIn(node, T, root, h, path')
      BY <1>2, <3>2, <3>3, <3>5, <3>6, PathMore
    <3>8. /\ path \in Seq(Nesbos) /\ Len(path) \in Nat /\ Len(path') = Len(path) + 1
          /\ path'[Len(path) + 1] = e /\ \A k \in 1..Len(path) : path'[k] = path[k]
          /\ path' # <<>>
      <4>1. path \in Seq(Nesbos)
        BY <1>2 DEF PathIn
      <4> QED  BY <3>2, <3>3, <4>1, AppendProperties, LenProperties
    <3>9. Reaches(path', call'.n)
      <4>1. ASSUME NEW k \in 1..Len(path') PROVE path'[k].bitsBefore <= call.n
        <5>1. k \in 1..Len(path) \/ k = Len(path) + 1
          BY <3>8
        <5>2. CASE k \in 1..Len(path)
          BY <1>3, <3>8, <5>2 DEF Reaches
        <5>3. CASE k = Len(path) + 1
          BY <1>14, <3>4, <3>8, <5>3
        <5> QED  BY <5>1, <5>2, <5>3
      <4> QED  BY <1>1, <4>1 DEF Reaches
    <3>10. at' = EndOf(node', root', path') /\ before' = SumsOf(path')
      BY <1>1, <1>9, <1>13, <1>14, <3>4, <3>8 DEF EndOf, SumsOf
    <3> QED  BY <1>1, <2>1, <2>3, <3>7, <3>9, <3>10 DEF GoingDown
  <2> QED  BY <2>2, <2>3
<1>16. at' \in T \cup {nullptr} /\ pc' = "down" /\ pc' # "up"
  BY <1>1, <1>10, <1>14
<1> QED
  BY <1>1, <1>4, <1>14, <1>15, <1>16, SearchedGood

-----------------------------------------------------------------------------
(* What the operations do in the leaf.                                     *)

\* The search has ended.
LEMMA AtTheLeaf ==
  ASSUME NEW T, NEW h, Good(T, h), pc = "down", IsLeaf(node, at)
  PROVE  /\ Tree(node, T, root, h) /\ AllExact(node, T, root) /\ AllFit(node, T, root)
         /\ NaturalRows(node, T) /\ PathIn(node, T, root, h, path)
         /\ at \in T /\ Bv(node, at) \in Strings /\ Whole(Len(Bv(node, at)))
         /\ call \in Calls /\ call.n - before.b \in 0..Len(Bv(node, at))
         /\ Suits(call.op, call.n - before.b, Len(Bv(node, at)))
         /\ Reaches(path, call.n) /\ (path # <<>> => at = EndOf(node, root, path))
<1>1. /\ GoingDown(T) /\ Typed(T) /\ Tree(node, T, root, h) /\ PathIn(node, T, root, h, path)
      /\ AllExact(node, T, root) /\ AllFit(node, T, root) /\ NaturalRows(node, T)
  BY SteadyTree DEF Good, Shaped, Route
<1>2. /\ at \in T /\ Reaches(path, call.n) /\ Suits(call.op, call.n - before.b, Bits(node, at))
      /\ (path # <<>> => at = EndOf(node, root, path))
  BY <1>1 DEF GoingDown
<1>3. call \in Calls /\ call.n \in Nat /\ before.b \in Nat
  <2>1. call \in Calls /\ before \in [b : Nat, o : Nat]
    BY <1>1 DEF Typed
  <2> QED  BY <2>1 DEF Calls
<1>4. Bv(node, at) \in Strings /\ Bits(node, at) = Len(Bv(node, at)) /\ Whole(Len(Bv(node, at)))
  <2>1. PICK R, N : Forest(node, T, R, N, h) /\ AllWhole(node, T)
    BY <1>1 DEF Tree
  <2>2. Heap(node) /\ at \in DOMAIN node
    BY <1>2, <2>1, ForestFields
  <2> QED  BY <1>2, <2>1, <2>2, NamedAmounts DEF Strings, AllWhole
<1>5. call.n - before.b \in 0..Len(Bv(node, at))
  <2>1. Needed(call.op) \in Nat
    BY SizesAssumption DEF Needed
  <2>2. Len(Bv(node, at)) \in Nat
    BY <1>4, LenProperties DEF Strings
  <2> QED  BY <1>2, <1>3, <1>4, <2>1, <2>2 DEF Suits
<1> QED
  BY <1>1, <1>2, <1>3, <1>4, <1>5

\* An operation that changes nothing returns.
LEMMA AnswerGood ==
  ASSUME NEW T, NEW h, Good(T, h), pc = "down", IsLeaf(node, at), Return,
         UNCHANGED <<node, root, path>>
  PROVE  IInv'
<1>1. /\ Restored(node, T, root, h) /\ PathIn(node, T, root, h, path)
      /\ (path # <<>> => at = EndOf(node, root, path))
  BY SteadyTree, AtTheLeaf
<1>2. path # <<>> => IsLeaf(node, EndOf(node, root, path))
  BY <1>1
<1>3. Good(T, h)'
  BY <1>1, <1>2, ReturnedGood
<1> QED
  BY <1>3 DEF IInv

\* The leaf has other bits.
LEMMA LeafChanged ==
  ASSUME NEW T, NEW h, Good(T, h), pc = "down", IsLeaf(node, at), UNCHANGED <<root, path>>,
         NEW bv \in Strings, Whole(Len(bv)), NEW d \in Changes,
         Exceeds(bv, Bv(node, at), d.b, d.o), node' = WithBits(node, at, bv)
  PROVE  /\ Tree(node', T, root, h) /\ NaturalRows(node', T)
         /\ Counting(node', T, root, at, d) /\ PathIn(node', T, root, h, path)
         /\ IsLeaf(node', at) /\ SizeOf(node', at) = Blocks(Len(bv))
         /\ \A m \in T : m # at => Fits(node', root, m, 0, 0)
         /\ EndOf(node', root, path) = EndOf(node, root, path)
         /\ Bv(node', at) = bv /\ \A m \in T : m # at => SameNode(node, node', m)
<1>1. /\ Tree(node, T, root, h) /\ AllExact(node, T, root) /\ AllFit(node, T, root)
      /\ NaturalRows(node, T) /\ PathIn(node, T, root, h, path) /\ at \in T
  BY AtTheLeaf
<1>2. PICK H, a : H = node' /\ a = at /\ H = WithBits(node, a, bv)
  OBVIOUS
<1>3. /\ Tree(H, T, root, h) /\ Counting(H, T, root, a, d)
      /\ \A m \in DOMAIN node : SameRow(node, H, m) /\ IsLeaf(H, m) = IsLeaf(node, m)
      /\ \A m \in T : m # a => SizeOf(H, m) = SizeOf(node, m)
      /\ SizeOf(H, a) = Blocks(Len(bv))
      /\ Bv(H, a) = bv /\ \A m \in T : m # a => SameNode(node, H, m)
  BY <1>1, <1>2, LeafTree
<1>4. T \subseteq DOMAIN node
  BY <1>1 DEF Tree, Forest
<1>5. NaturalRows(H, T)
  BY <1>1, <1>3, <1>4 DEF NaturalRows, SameRow
<1>6. \A m \in T : m # a => Fits(H, root, m, 0, 0)
  BY <1>1, <1>3, <1>4, SameFit DEF AllFit
<1>7. PathIn(H, T, root, h, path) /\ EndOf(H, root, path) = EndOf(node, root, path)
  <2>1. ASSUME NEW i \in 1..Len(path)
        PROVE  SamePart(node, H, path[i].node, path[i].index)
    <3>1. path[i].node \in T
      BY <1>1 DEF PathIn, Leads
    <3> QED  BY <1>3, <1>4, <3>1, SameRowPart
  <2> QED  BY <1>1, <2>1, PathKept
<1>8. IsLeaf(H, a)
  BY <1>1, <1>2, <1>3, <1>4
<1> QED
  BY <1>2, <1>3, <1>5, <1>6, <1>7, <1>8

\* Then its counters are brought up to date.
LEMMA UpdateGood ==
  ASSUME NEW T, NEW h, Good(T, h), pc = "down", IsLeaf(node, at),
         NEW bv \in Strings, Whole(Len(bv)), node' = WithBits(node, at, bv),
         NEW dBits \in {0, BlockSize, -BlockSize}, NEW dOnes \in (-BlockSize)..1,
         Exceeds(bv, Bv(node, at), dBits, dOnes), Update(dBits, dOnes),
         NEW up \in {0, 1}, up = Due("insertBlock"),
         NEW down \in {0, 1}, down = Due("deleteBlock"), Blocks(dBits) = up - down,
         call.op \in BlockOps \cup {"setBit"}, call.op = "setBit" => dBits = 0
  PROVE  IInv'
<1>1. /\ pc' = "count" /\ leaf' = at /\ delta' = [b |-> dBits, o |-> dOnes]
      /\ UNCHANGED <<root, path, call, at, before>>
  BY DEF Update
<1>2. /\ AllFit(node, T, root) /\ at \in T /\ Bv(node, at) \in Strings /\ call \in Calls
      /\ Whole(Len(Bv(node, at))) /\ Reaches(path, call.n)
      /\ (path # <<>> => at = EndOf(node, root, path))
  BY AtTheLeaf
<1>3. PICK d : d = [b |-> dBits, o |-> dOnes]
  OBVIOUS
<1>4. d \in Changes /\ d.b = dBits /\ d.o = dOnes
      /\ d \in [b : {0, BlockSize, -BlockSize}, o : (-BlockSize)..1]
  BY <1>3, SizesAssumption DEF Changes
<1>5. /\ Tree(node', T, root, h) /\ NaturalRows(node', T)
      /\ Counting(node', T, root, at, d) /\ PathIn(node', T, root, h, path)
      /\ IsLeaf(node', at) /\ SizeOf(node', at) = Blocks(Len(bv))
      /\ \A m \in T : m # at => Fits(node', root, m, 0, 0)
      /\ EndOf(node', root, path) = EndOf(node, root, path)
  BY <1>1, <1>4, LeafChanged
<1>6. Fits(node', root, at, up, down)
  <2>1. PICK old \in Nat : old = Len(Bv(node, at)) /\ Whole(old)
    BY <1>2, LenProperties DEF Strings
  <2>2. Len(bv) = old + dBits /\ Whole(dBits) /\ dBits \in Int
    BY <2>1, WholeSums, SizesAssumption DEF Exceeds
  <2>3. Blocks(Len(bv)) = Blocks(old) + (up - down) /\ Blocks(old) \in Nat
    BY <2>1, <2>2, Quotients
  <2>4. SizeOf(node, at) = Blocks(old)
    BY <2>1, SizeFields
  <2>5. MaxOf(node', at) = MaxOf(node, at) /\ MinOf(node', at) = MinOf(node, at)
    BY <1>5 DEF MaxOf, MinOf
  <2>6. MaxOf(node, at) \in Nat /\ MinOf(node, at) \in Nat /\ Fits(node, root, at, 0, 0)
    BY <1>2, Bounds DEF AllFit
  <2>7. PICK k, l, max, min \in Nat : /\ k = SizeOf(node', at) /\ l = SizeOf(node, at)
                                      /\ max = MaxOf(node, at) /\ min = MinOf(node, at)
                                      /\ k = l + (up - down)
    <3>1. SizeOf(node', at) \in Nat
      BY <1>2, <1>5, SizeType
    <3> QED  BY <1>5, <2>3, <2>4, <2>6, <3>1
  <2>8. /\ l <= max /\ (at # root => l >= min)
    BY <2>6, <2>7 DEF Fits
  <2>9. k <= max + up /\ (at # root => k >= min - down)
    BY <2>7, <2>8
  <2> QED  BY <1>5, <2>5, <2>7, <2>9 DEF Fits
<1>7. FitsBut(node', T, root, at, up, down)
  BY <1>5, <1>6 DEF FitsBut
<1>8. Catching(T)'
  <2>1. Due("insertBlock")' = up /\ Due("deleteBlock")' = down
    BY <1>1 DEF Due
  <2>2. at' \in T /\ leaf' \in T /\ IsLeaf(node', leaf')
    BY <1>1, <1>2, <1>5
  <2>3. Counting(node', T, root', at', delta') /\ (call'.op = "setBit" => delta'.b = 0)
    BY <1>1, <1>3, <1>4, <1>5
  <2>4. FitsBut(node', T, root', leaf', Due("insertBlock")', Due("deleteBlock")')
    BY <1>1, <1>7, <2>1
  <2>5. call'.op \in BlockOps \cup {"setBit"}
    BY <1>1
  <2> QED  BY <2>2, <2>3, <2>4, <2>5 DEF Catching
<1>9. Typed(T)'
  <2>1. path \in Seq(Nesbos) /\ before \in [b : Nat, o : Nat]
    BY DEF Good, Typed
  <2>2. at \in DOMAIN node'
    BY <1>2, <1>5 DEF Tree, Forest
  <2> QED  BY <1>1, <1>2, <1>3, <1>4, <2>1, <2>2 DEF Typed, Phases
<1>10. Shaped(T, h)'
  BY <1>1, <1>5, <1>8 DEF Shaped
<1>11. Route(T, h)'
  <2>1. OnTheWay'
    <3>1. ASSUME path # <<>> PROVE OnPath(node', root, path, at)
      <4>1. at = EndOf(node', root, path) /\ Len(path) \in Nat /\ Len(path) \in 1..Len(path)
        BY <1>2, <1>5, <3>1, EmptySeq, LenProperties DEF PathIn
      <4>2. at = StopAt(node', root, path, Len(path) + 1)
        BY <3>1, <4>1 DEF EndOf, StopAt
      <4> QED  BY <4>1, <4>2 DEF OnPath
    <3> QED  BY <1>1, <1>2, <1>5, <3>1 DEF OnTheWay
  <2> QED  BY <1>1, <1>5, <2>1 DEF Route
<1>12. Good(T, h)'
  BY <1>9, <1>10, <1>11 DEF Good
<1> QED
  BY <1>12 DEF IInv

\* At the leaf of an operation.
LEMMA LeafFacts ==
  ASSUME NEW T, NEW h, Good(T, h), NEW op, AtLeaf(op)
  PROVE  /\ pc = "down" /\ IsLeaf(node, at) /\ call.op = op
         /\ Bv(node, at) \in Strings /\ node[at].bv = Bv(node, at)
         /\ Whole(Len(Bv(node, at))) /\ Len(Bv(node, at)) \in Nat
         /\ call.n - before.b \in 0..Len(Bv(node, at))
         /\ Suits(op, call.n - before.b, Len(Bv(node, at)))
<1>1. pc = "down" /\ IsLeaf(node, at) /\ call.op = op
  BY DEF AtLeaf, IsLeaf
<1>2. /\ Bv(node, at) \in Strings /\ Whole(Len(Bv(node, at)))
      /\ call.n - before.b \in 0..Len(Bv(node, at))
      /\ Suits(op, call.n - before.b, Len(Bv(node, at)))
  BY <1>1, AtTheLeaf
<1> QED
  BY <1>1, <1>2, LenProperties DEF Bv, Strings

\* access, rank1, and setBit of a bit that is as it should be.
LEMMA ReadGood ==
  ASSUME NEW T, NEW h, Good(T, h), AccessLeaf \/ RankLeaf \/ SetLeavesBit
  PROVE  IInv'
<1>1. pc = "down" /\ IsLeaf(node, at)
  BY DEF AccessLeaf, RankLeaf, SetLeavesBit, AtLeaf, IsLeaf
<1>2. Return /\ UNCHANGED <<node, root, path>>
  BY DEF AccessLeaf, RankLeaf, SetLeavesBit, Answer
<1> QED
  BY <1>1, <1>2, AnswerGood

\* Bits and ones of strings that are put together, and of a stretch.
LEMMA Glued ==
  ASSUME NEW a \in Strings, NEW c \in Strings
  PROVE  /\ a \o c \in Strings /\ Len(a \o c) = Len(a) + Len(c)
         /\ CountOnes(a \o c) = CountOnes(a) + CountOnes(c)
         /\ Len(a) \in Nat /\ CountOnes(a) \in 0..Len(a)
         /\ Len(c) \in Nat /\ CountOnes(c) \in 0..Len(c)
<1>1. a \o c \in Strings /\ Len(a \o c) = Len(a) + Len(c)
  BY ConcatProperties DEF Strings
<1>2. CountOnes(a \o c) = CountOnes(a) + CountOnes(c)
  BY OnesOfConcat DEF Strings
<1> QED
  BY <1>1, <1>2, OnesType, LenProperties DEF Strings

\* What a block inserted at bit n adds to the bits of a leaf.
LEMMA InsertedBlock ==
  ASSUME NEW bv \in Strings, NEW n \in 0..Len(bv), NEW zeros, zeros = [i \in 1..BlockSize |-> FALSE]
  PROVE  LET new == Prefix(bv, n) \o zeros \o Suffix(bv, n)
         IN  new \in Strings /\ Exceeds(new, bv, BlockSize, 0)
<1>1. PICK p, s : p = Prefix(bv, n) /\ s = Suffix(bv, n)
  OBVIOUS
<1>2. /\ p \in Strings /\ s \in Strings /\ Len(p) = n /\ Len(s) = Len(bv) - n
      /\ CountOnes(p) + CountOnes(s) = CountOnes(bv) /\ Len(bv) \in Nat
  BY <1>1, PrefixSuffix, LenProperties DEF Strings
<1>3. zeros \in Strings /\ Len(zeros) = BlockSize /\ CountOnes(zeros) = 0
  BY OnesOfZeros DEF Strings
<1>4. PICK q : q = p \o zeros
  OBVIOUS
<1>5. /\ q \in Strings /\ Len(q) = n + BlockSize /\ CountOnes(q) = CountOnes(p)
      /\ CountOnes(p) \in Nat
  <2>1. p \in Strings /\ zeros \in Strings
    BY <1>2, <1>3
  <2>2. /\ p \o zeros \in Strings /\ Len(p \o zeros) = Len(p) + Len(zeros)
        /\ CountOnes(p \o zeros) = CountOnes(p) + CountOnes(zeros) /\ CountOnes(p) \in 0..Len(p)
    BY <2>1, Glued
  <2>3. CountOnes(p) \in Nat
    BY <1>2, <2>2
  <2>4. CountOnes(p) + CountOnes(zeros) = CountOnes(p)
    BY <1>3, <2>3
  <2> QED  BY <1>2, <1>3, <1>4, <2>2, <2>3, <2>4
<1>6. /\ q \o s \in Strings /\ Len(q \o s) = Len(q) + Len(s)
      /\ CountOnes(q \o s) = CountOnes(q) + CountOnes(s) /\ CountOnes(s) \in 0..Len(s)
  <2>1. q \in Strings /\ s \in Strings
    BY <1>2, <1>5
  <2> QED  BY <2>1, Glued
<1>7. CountOnes(q \o s) = CountOnes(bv) + 0
  BY <1>2, <1>5, <1>6
<1>8. Len(q \o s) = Len(bv) + BlockSize
  BY <1>2, <1>5, <1>6, SizesAssumption
<1> QED
  BY <1>1, <1>4, <1>6, <1>7, <1>8 DEF Exceeds

\* What is left of a leaf when a block at bit n is deleted.
LEMMA DeletedBlock ==
  ASSUME NEW bv \in Strings, NEW n \in Nat, NEW m \in Nat, m = n + BlockSize, m <= Len(bv)
  PROVE  LET new == Prefix(bv, n) \o Suffix(bv, m)
             gone == SubSeq(bv, n + 1, m)
         IN  /\ new \in Strings /\ Exceeds(new, bv, -BlockSize, -CountOnes(gone))
             /\ CountOnes(gone) \in 0..BlockSize
<1>1. PICK p, r, g, s : /\ p = Prefix(bv, n) /\ r = Suffix(bv, n)
                        /\ g = SubSeq(bv, n + 1, m) /\ s = Suffix(bv, m)
  OBVIOUS
<1>2. n \in 0..Len(bv) /\ m \in 0..Len(bv) /\ Len(bv) \in Nat
  BY SizesAssumption, LenProperties DEF Strings
<1>3. /\ p \in Strings /\ r \in Strings /\ Len(p) = n
      /\ CountOnes(p) + CountOnes(r) = CountOnes(bv)
  BY <1>1, <1>2, PrefixSuffix DEF Strings
<1>4. s \in Strings /\ Len(s) = Len(bv) - m
  BY <1>1, <1>2, PrefixSuffix DEF Strings
<1>5. g \in Strings /\ Len(g) = BlockSize
  <2>1. \A i \in (n + 1)..m : i \in 1..Len(bv)
    BY <1>2
  <2>2. \A i \in (n + 1)..m : bv[i] \in BOOLEAN
    BY <2>1, ElementOfSeq DEF Strings
  <2>3. SubSeq(bv, n + 1, m) \in Seq(BOOLEAN)
    BY <2>2, SubSeqProperties
  <2>4. Len(SubSeq(bv, n + 1, m)) = IF n + 1 <= m THEN m - (n + 1) + 1 ELSE 0
    BY <2>2, SubSeqProperties
  <2>5. n + 1 <= m /\ m - (n + 1) + 1 = BlockSize
    BY SizesAssumption
  <2> QED  BY <1>1, <2>3, <2>4, <2>5 DEF Strings
<1>6. r = g \o s
  <2>1. /\ n + 1 \in 1..(Len(bv) + 1) /\ m \in ((n + 1) - 1)..Len(bv)
        /\ Len(bv) \in m..Len(bv)
    BY <1>2, SizesAssumption
  <2>2. SubSeq(bv, n + 1, m) \o SubSeq(bv, m + 1, Len(bv)) = SubSeq(bv, n + 1, Len(bv))
    BY <2>1, ConcatAdjacentSubSeq DEF Strings
  <2> QED  BY <1>1, <2>2 DEF Suffix
<1>7. CountOnes(r) = CountOnes(g) + CountOnes(s) /\ CountOnes(g) \in 0..BlockSize
  BY <1>4, <1>5, <1>6, Glued
<1>8. /\ p \o s \in Strings /\ Len(p \o s) = Len(p) + Len(s)
      /\ CountOnes(p \o s) = CountOnes(p) + CountOnes(s)
      /\ CountOnes(p) \in 0..Len(p) /\ CountOnes(s) \in 0..Len(s)
  <2>1. p \in Strings /\ s \in Strings
    BY <1>3, <1>4
  <2> QED  BY <2>1, Glued
<1>9. CountOnes(p \o s) = CountOnes(bv) + (-CountOnes(g))
  BY <1>3, <1>7, <1>8
<1>10. Len(p \o s) = Len(bv) + (-BlockSize)
  BY <1>2, <1>3, <1>4, <1>8, SizesAssumption
<1> QED
  BY <1>1, <1>7, <1>8, <1>9, <1>10 DEF Exceeds

\* insertBlock in the leaf.
LEMMA InsertGood ==
  ASSUME NEW T, NEW h, Good(T, h), InsertInLeaf
  PROVE  IInv'
<1>1. PICK bv, n : bv = Bv(node, at) /\ n = call.n - before.b
  OBVIOUS
<1>2. /\ pc = "down" /\ IsLeaf(node, at) /\ call.op = "insertBlock" /\ bv \in Strings
      /\ node[at].bv = bv /\ Whole(Len(bv)) /\ Len(bv) \in Nat /\ n \in 0..Len(bv)
  BY <1>1, LeafFacts DEF InsertInLeaf
<1>3. PICK new : new = Prefix(bv, n) \o [i \in 1..BlockSize |-> FALSE] \o Suffix(bv, n)
  OBVIOUS
<1>4. new \in Strings /\ Exceeds(new, bv, BlockSize, 0)
  BY <1>2, <1>3, InsertedBlock
<1>5. Whole(Len(new))
  <2>1. Len(new) = Len(bv) + BlockSize
    BY <1>4 DEF Exceeds
  <2> QED  BY <1>2, <2>1, WholeSums, SizesAssumption
<1>6. node' = WithBits(node, at, new) /\ Update(BlockSize, 0)
  BY <1>1, <1>2, <1>3 DEF InsertInLeaf
<1>7. /\ Due("insertBlock") = 1 /\ Due("deleteBlock") = 0 /\ Blocks(BlockSize) = 1
      /\ call.op \in BlockOps \cup {"setBit"} /\ call.op # "setBit"
  BY <1>2, Quotients DEF Due, BlockOps
<1>8. Blocks(BlockSize) = 1 - 0 /\ 0 \in (-BlockSize)..1 /\ Exceeds(new, Bv(node, at), BlockSize, 0)
  BY <1>1, <1>4, <1>7, SizesAssumption
<1> QED
  BY <1>2, <1>4, <1>5, <1>6, <1>7, <1>8, UpdateGood

\* deleteBlock in the leaf.
LEMMA DeleteGood ==
  ASSUME NEW T, NEW h, Good(T, h), DeleteInLeaf
  PROVE  IInv'
<1>1. PICK bv, n, m : bv = Bv(node, at) /\ n = call.n - before.b /\ m = n + BlockSize
  OBVIOUS
<1>2. /\ pc = "down" /\ IsLeaf(node, at) /\ call.op = "deleteBlock" /\ bv \in Strings
      /\ node[at].bv = bv /\ Whole(Len(bv)) /\ Len(bv) \in Nat /\ n \in 0..Len(bv)
      /\ Suits("deleteBlock", n, Len(bv))
  BY <1>1, LeafFacts DEF DeleteInLeaf
<1>3. n \in Nat /\ m \in Nat /\ m <= Len(bv)
  <2>1. n + Needed("deleteBlock") <= Len(bv) /\ Needed("deleteBlock") = BlockSize
    BY <1>2 DEF Suits, Needed
  <2> QED  BY <1>1, <1>2, <2>1, SizesAssumption
<1>4. PICK new, gone : new = Prefix(bv, n) \o Suffix(bv, m) /\ gone = SubSeq(bv, n + 1, m)
  OBVIOUS
<1>5. PICK dOnes : dOnes = -CountOnes(gone)
  OBVIOUS
<1>6. /\ new \in Strings /\ Exceeds(new, bv, -BlockSize, dOnes) /\ dOnes \in (-BlockSize)..1
  <2>1. /\ new \in Strings /\ Exceeds(new, bv, -BlockSize, -CountOnes(gone))
        /\ CountOnes(gone) \in 0..BlockSize
    BY <1>1, <1>2, <1>3, <1>4, DeletedBlock
  <2> QED  BY <1>5, <2>1, SizesAssumption
<1>7. Whole(Len(new))
  <2>1. Len(new) = Len(bv) + (-BlockSize)
    BY <1>6 DEF Exceeds
  <2> QED  BY <1>2, <2>1, WholeSums, SizesAssumption
<1>8. node' = WithBits(node, at, new) /\ Update(-BlockSize, dOnes)
  BY <1>1, <1>2, <1>4, <1>5 DEF DeleteInLeaf
<1>9. /\ Due("insertBlock") = 0 /\ Due("deleteBlock") = 1 /\ Blocks(-BlockSize) = -1
      /\ call.op \in BlockOps \cup {"setBit"} /\ call.op # "setBit"
  BY <1>2, Quotients DEF Due, BlockOps
<1>10. Blocks(-BlockSize) = 0 - 1 /\ Exceeds(new, Bv(node, at), -BlockSize, dOnes)
  BY <1>1, <1>6, <1>9
<1> QED
  BY <1>2, <1>6, <1>7, <1>8, <1>9, <1>10, UpdateGood

\* setBit in the leaf: with counters of ones they are brought up to date, and
\* without them the call returns.
LEMMA SetGood ==
  ASSUME NEW T, NEW h, Good(T, h), SetInLeaf
  PROVE  IInv'
<1>1. PICK bv, n : bv = Bv(node, at) /\ n = call.n - before.b
  OBVIOUS
<1>2. /\ pc = "down" /\ IsLeaf(node, at) /\ call.op = "setBit" /\ bv \in Strings
      /\ node[at].bv = bv /\ Whole(Len(bv)) /\ Len(bv) \in Nat /\ n \in 0..Len(bv)
      /\ Suits("setBit", n, Len(bv))
  BY <1>1, LeafFacts DEF SetInLeaf
<1>3. n + 1 \in 1..Len(bv)
  <2>1. n + Needed("setBit") <= Len(bv) /\ Needed("setBit") = 1
    BY <1>2 DEF Suits, Needed
  <2> QED  BY <1>2, <2>1
<1>4. call.b \in BOOLEAN
  <2>1. call \in Calls
    BY <1>2, AtTheLeaf
  <2> QED  BY <1>2, <2>1 DEF Calls
<1>5. PICK v, new : v = call.b /\ new = [bv EXCEPT ![n + 1] = v]
  OBVIOUS
<1>6. node' = WithBits(node, at, new) /\ bv[n + 1] # v
  BY <1>1, <1>2, <1>5 DEF SetInLeaf
<1>7. PICK dOnes : dOnes = IF CountsOnes THEN IF v THEN 1 ELSE -1 ELSE 0
  OBVIOUS
<1>8. /\ new \in Strings /\ Len(new) = Len(bv) /\ CountOnes(new) = CountOnes(bv) + dOnes
  BY <1>2, <1>3, <1>4, <1>5, <1>6, <1>7, OnesOfChange DEF Strings
<1>9. Exceeds(new, Bv(node, at), 0, dOnes) /\ Whole(Len(new))
  BY <1>1, <1>2, <1>8 DEF Exceeds
<1>10. dOnes \in (-BlockSize)..1
  BY <1>7, SizesAssumption
<1>11. CASE CountsOnes
  <2>1. Update(0, dOnes)
    BY <1>5, <1>7, <1>11 DEF SetInLeaf
  <2>2. /\ Due("insertBlock") = 0 /\ Due("deleteBlock") = 0 /\ Blocks(0) = 0 - 0
        /\ call.op \in BlockOps \cup {"setBit"}
    <3>1. Blocks(0) = 0
      BY SizesAssumption DEF Blocks
    <3> QED  BY <1>2, <3>1 DEF Due, BlockOps
  <2> QED  BY <1>2, <1>6, <1>8, <1>9, <1>10, <2>1, <2>2, UpdateGood
<1>12. CASE ~CountsOnes
  <2>1. Return /\ UNCHANGED <<root, path>>
    BY <1>12 DEF SetInLeaf
  <2>2. PICK d : d = NoDelta
    OBVIOUS
  <2>3. d \in Changes /\ d.b = 0 /\ d.o = 0 /\ dOnes = 0
    BY <1>7, <1>12, <2>2 DEF Changes, NoDelta
  <2>4. /\ Tree(node', T, root, h) /\ NaturalRows(node', T)
        /\ Counting(node', T, root, at, d) /\ PathIn(node', T, root, h, path)
        /\ IsLeaf(node', at) /\ SizeOf(node', at) = Blocks(Len(new))
        /\ \A m \in T : m # at => Fits(node', root, m, 0, 0)
        /\ EndOf(node', root, path) = EndOf(node, root, path)
    BY <1>2, <1>6, <1>8, <1>9, <2>1, <2>3, LeafChanged
  <2>5. at \in T /\ AllFit(node, T, root) /\ (path # <<>> => at = EndOf(node, root, path))
    BY <1>2, AtTheLeaf
  <2>6. AllExact(node', T, root)
    <3>1. ASSUME NEW m \in T, m # root PROVE Exact(node', m)
      <4>1. CASE m # at
        BY <2>4, <3>1, <4>1 DEF Counting
      <4>2. CASE m = at
        <5>1. Behind(node', m, d)
          BY <2>4, <3>1, <4>2 DEF Counting
        <5>2. Entry(node', m).b \in Int /\ Entry(node', m).o \in Int
          BY <2>4, <3>1, TreeUp
        <5> QED  BY <2>3, <5>1, <5>2 DEF Behind, Exact
      <4> QED  BY <4>1, <4>2
    <3> QED  BY <3>1 DEF AllExact
  <2>7. AllFit(node', T, root)
    <3>1. SizeOf(node', at) = SizeOf(node, at)
      <4>1. SizeOf(node, at) = Blocks(Len(Bv(node, at)))
        BY <1>2, SizeFields
      <4> QED  BY <1>1, <1>8, <2>4, <4>1
    <3>2. Fits(node', root, at, 0, 0)
      BY <1>2, <2>4, <2>5, <3>1, SameFit DEF AllFit
    <3> QED  BY <2>4, <3>2 DEF AllFit
  <2>8. Restored(node', T, root', h) /\ PathIn(node', T, root', h, path')
    BY <2>1, <2>4, <2>6, <2>7 DEF Restored
  <2>9. path' # <<>> => IsLeaf(node', EndOf(node', root', path'))
    BY <2>1, <2>4, <2>5
  <2>10. Good(T, h)'
    BY <2>1, <2>8, <2>9, ReturnedGood
  <2> QED  BY <2>10 DEF IInv
<1> QED
  BY <1>11, <1>12

-----------------------------------------------------------------------------
(* The counters.                                                           *)

\* What is known while they are brought up to date.
LEMMA CountFacts ==
  ASSUME NEW T, NEW h, Good(T, h), pc = "count"
  PROVE  /\ Tree(node, T, root, h) /\ NaturalRows(node, T)
         /\ at \in T /\ leaf \in T /\ IsLeaf(node, leaf)
         /\ Counting(node, T, root, at, delta) /\ delta \in Changes
         /\ FitsBut(node, T, root, leaf, Due("insertBlock"), Due("deleteBlock"))
         /\ call \in Calls /\ call.op \in BlockOps \cup {"setBit"}
         /\ HasParent(at) <=> at # root
         /\ call.op = "setBit" => /\ delta.b = 0 /\ PathIn(node, T, root, h, path)
                                  /\ OnTheWay
<1>1. /\ Catching(T) /\ Tree(node, T, root, h) /\ NaturalRows(node, T)
      /\ (PathUsed => PathIn(node, T, root, h, path)) /\ (call.op = "setBit" => OnTheWay)
  BY DEF Good, Shaped, Route
<1>2. at \in T
  BY <1>1 DEF Catching
<1>3. HasParent(at) <=> at # root
  BY <1>1, <1>2, TreeUp DEF HasParent, Up
<1>4. delta \in Changes /\ call \in Calls
  BY SizesAssumption DEF Good, Typed, Changes
<1> QED
  BY <1>1, <1>2, <1>3, <1>4 DEF Catching, PathUsed

\* updateCounters goes up to the parent.
LEMMA UpdateCountersGood ==
  ASSUME NEW T, NEW h, Good(T, h), UpdateCounters
  PROVE  IInv'
<1>1. /\ pc = "count" /\ HasParent(at) /\ node' = CountUp(node, at, delta) /\ at' = Up(node, at)
      /\ UNCHANGED <<root, path, pc, call, leaf, before, delta>>
  BY DEF UpdateCounters, CountUp, Up, Index
<1>2. /\ Tree(node, T, root, h) /\ NaturalRows(node, T)
      /\ at \in T /\ at # root /\ leaf \in T /\ IsLeaf(node, leaf)
      /\ Counting(node, T, root, at, delta) /\ delta \in Changes
      /\ FitsBut(node, T, root, leaf, Due("insertBlock"), Due("deleteBlock"))
      /\ call \in Calls /\ call.op \in BlockOps \cup {"setBit"}
      /\ (call.op = "setBit" => /\ delta.b = 0 /\ PathIn(node, T, root, h, path) /\ OnTheWay)
  BY <1>1, CountFacts
<1>3. PICK H, a, p, d : H = node' /\ a = at /\ p = at' /\ d = delta
  OBVIOUS
<1>4. H = CountUp(node, a, d) /\ p = Up(node, a)
  BY <1>1, <1>3
<1>5. /\ Tree(H, T, root, h) /\ NaturalRows(H, T) /\ Counting(H, T, root, p, d)
      /\ SameSizes(node, H, T)
  BY <1>2, <1>3, <1>4, CountTree
<1>6. p \in T
  BY <1>2, <1>3, <1>4, TreeUp
<1>7. PICK up, down : up = Due("insertBlock") /\ down = Due("deleteBlock")
  OBVIOUS
<1>8. FitsBut(H, T, root, leaf, up, down)
  <2>1. \A m \in T : IsLeaf(H, m) = IsLeaf(node, m) /\ SizeOf(H, m) = SizeOf(node, m)
    BY <1>5 DEF SameSizes
  <2>2. FitsBut(node, T, root, leaf, up, down)
    BY <1>2, <1>7
  <2> QED  BY <1>2, <2>1, <2>2, SameFit DEF FitsBut
<1>9. Catching(T)'
  <2>1. Due("insertBlock")' = up /\ Due("deleteBlock")' = down
    BY <1>1, <1>7 DEF Due
  <2>2. at' \in T /\ leaf' \in T /\ IsLeaf(node', leaf')
    BY <1>1, <1>2, <1>3, <1>5, <1>6 DEF SameSizes
  <2>3. Counting(node', T, root', at', delta') /\ (call'.op = "setBit" => delta'.b = 0)
    BY <1>1, <1>2, <1>3, <1>5
  <2>4. FitsBut(node', T, root', leaf', Due("insertBlock")', Due("deleteBlock")')
    BY <1>1, <1>3, <1>8, <2>1
  <2> QED  BY <1>1, <1>2, <2>2, <2>3, <2>4 DEF Catching
<1>10. Typed(T)'
  <2>1. Typed(T)
    BY DEF Good
  <2>2. leaf \in DOMAIN node'
    BY <1>2, <1>3, <1>5 DEF Tree, Forest
  <2> QED  BY <1>1, <1>3, <1>6, <2>1, <2>2 DEF Typed
<1>11. Shaped(T, h)'
  BY <1>1, <1>3, <1>5, <1>9 DEF Shaped
<1>12. Route(T, h)'
  <2>1. CASE call.op = "setBit"
    <3>1. PathIn(node, T, root, h, path) /\ OnTheWay /\ d.b = 0
      BY <1>2, <1>3, <2>1
    <3>2. CASE path = <<>>
      BY <1>1, <2>1, <3>2, EmptyPath DEF Route, OnTheWay
    <3>3. CASE path # <<>>
      <4>1. /\ IsLeaf(node, EndOf(node, root, path)) /\ Reaches(path, call.n)
            /\ OnPath(node, root, path, a)
        BY <1>3, <3>1, <3>3 DEF OnTheWay
      <4>2. /\ PathIn(H, T, root, h, path) /\ EndOf(H, root, path) = EndOf(node, root, path)
            /\ OnPath(H, root, path, p)
        BY <1>2, <1>3, <1>4, <3>1, <4>1, CountPath
      <4>3. EndOf(node, root, path) \in T
        BY <1>2, <3>1, <3>3, PathTop
      <4>4. IsLeaf(H, EndOf(H, root, path))
        BY <1>5, <4>1, <4>2, <4>3 DEF SameSizes
      <4> QED  BY <1>1, <1>3, <2>1, <4>1, <4>2, <4>4 DEF Route, OnTheWay
    <3> QED  BY <3>2, <3>3
  <2>2. CASE call.op # "setBit"
    BY <1>1, <2>2 DEF Route, PathUsed
  <2> QED  BY <2>1, <2>2
<1>13. Good(T, h)'
  BY <1>10, <1>11, <1>12 DEF Good
<1> QED
  BY <1>13 DEF IInv

\* At the root every entry counts what is below it.
LEMMA AllCounted ==
  ASSUME NEW T, NEW h, Good(T, h), pc = "count", ~HasParent(at)
  PROVE  /\ at = root /\ Tree(node, T, root, h) /\ AllExact(node, T, root)
         /\ NaturalRows(node, T) /\ leaf \in T
         /\ FitsBut(node, T, root, leaf, Due("insertBlock"), Due("deleteBlock"))
         /\ call \in Calls /\ call.op \in BlockOps \cup {"setBit"}
         /\ call.op = "setBit" => PathIn(node, T, root, h, path) /\ OnTheWay
<1>1. /\ Tree(node, T, root, h) /\ NaturalRows(node, T) /\ at = root /\ leaf \in T
      /\ Counting(node, T, root, at, delta)
      /\ FitsBut(node, T, root, leaf, Due("insertBlock"), Due("deleteBlock"))
      /\ call \in Calls /\ call.op \in BlockOps \cup {"setBit"}
      /\ (call.op = "setBit" => PathIn(node, T, root, h, path) /\ OnTheWay)
  BY CountFacts
<1>2. Counting(node, T, root, root, delta)
  BY <1>1
<1>3. AllExact(node, T, root)
  BY <1>2, Counted
<1> QED
  BY <1>1, <1>3

\* Then the sizes are checked, from the leaf upwards.
LEMMA BlockCountedGood ==
  ASSUME NEW T, NEW h, Good(T, h), BlockCounted
  PROVE  IInv'
<1>1. /\ pc = "count" /\ ~HasParent(at) /\ call.op # "setBit" /\ at' = leaf
      /\ pc' = IF call.op = "insertBlock" THEN "upper" ELSE "lower"
      /\ UNCHANGED <<node, root, path, call, leaf, before, delta>>
  BY DEF BlockCounted
<1>2. /\ Tree(node, T, root, h) /\ AllExact(node, T, root) /\ NaturalRows(node, T)
      /\ leaf \in T
      /\ FitsBut(node, T, root, leaf, Due("insertBlock"), Due("deleteBlock"))
      /\ call \in Calls /\ call.op \in BlockOps \cup {"setBit"}
  BY <1>1, AllCounted
<1>3. Typed(T)'
  <2>1. Typed(T)
    BY DEF Good
  <2> QED  BY <1>1, <1>2, <2>1 DEF Typed, Phases
<1>4. Shaped(T, h)'
  <2>1. CASE call.op = "insertBlock"
    <3>1. Due("insertBlock") = 1 /\ Due("deleteBlock") = 0 /\ pc' = "upper"
      BY <1>1, <2>1 DEF Due
    <3>2. Checking(T, "insertBlock", 1, 0)'
      BY <1>1, <1>2, <2>1, <3>1 DEF Checking
    <3> QED  BY <1>1, <1>2, <3>1, <3>2 DEF Shaped
  <2>2. CASE call.op = "deleteBlock"
    <3>1. Due("insertBlock") = 0 /\ Due("deleteBlock") = 1 /\ pc' = "lower"
      BY <1>1, <2>2 DEF Due
    <3>2. Checking(T, "deleteBlock", 0, 1)'
      BY <1>1, <1>2, <2>2, <3>1 DEF Checking
    <3> QED  BY <1>1, <1>2, <3>1, <3>2 DEF Shaped
  <2> QED  BY <1>1, <1>2, <2>1, <2>2 DEF BlockOps
<1>5. Route(T, h)'
  BY <1>1 DEF Route, PathUsed
<1>6. Good(T, h)'
  BY <1>3, <1>4, <1>5 DEF Good
<1> QED
  BY <1>6 DEF IInv

\* setBit: every entry of the path begins at or before the bit, so that none of
\* them is adjusted, and the path is current without it.
LEMMA BitCountedGood ==
  ASSUME NEW T, NEW h, Good(T, h), BitCounted
  PROVE  IInv'
<1>1. /\ pc = "count" /\ ~HasParent(at) /\ call.op = "setBit" /\ Return
      /\ UNCHANGED <<node, root>>
      /\ path' = [i \in DOMAIN path |->
                   IF call.n < path[i].bitsBefore
                   THEN [path[i] EXCEPT !.onesBefore = @ + delta.o] ELSE path[i]]
  BY DEF BitCounted
<1>2. /\ Tree(node, T, root, h) /\ AllExact(node, T, root)
      /\ leaf \in T
      /\ FitsBut(node, T, root, leaf, Due("insertBlock"), Due("deleteBlock"))
      /\ call \in Calls /\ PathIn(node, T, root, h, path) /\ OnTheWay
  BY <1>1, AllCounted
<1>3. path' = path
  <2>1. path \in Seq(Nesbos) /\ path = [i \in DOMAIN path |-> path[i]] /\ call.n \in Nat
    BY <1>2, <1>1 DEF PathIn, Calls
  <2>2. CASE path = <<>>
    BY <1>1, <2>1, <2>2
  <2>3. CASE path # <<>>
    <3>1. DOMAIN path = 1..Len(path) /\ Reaches(path, call.n)
      BY <1>2, <2>1, <2>3, LenProperties DEF OnTheWay
    <3>2. ASSUME NEW i \in DOMAIN path PROVE ~(call.n < path[i].bitsBefore)
      <4>1. path[i].bitsBefore <= call.n
        BY <3>1 DEF Reaches
      <4>2. path[i] \in Nesbos
        BY <2>1, <3>1, ElementOfSeq
      <4>3. path[i].bitsBefore \in Nat
        BY <4>2 DEF Nesbos
      <4> QED  BY <2>1, <4>1, <4>3
    <3> QED  BY <1>1, <2>1, <3>2
  <2> QED  BY <2>2, <2>3
<1>4. AllFit(node, T, root)
  <2>1. Due("insertBlock") = 0 /\ Due("deleteBlock") = 0
    BY <1>1 DEF Due
  <2> QED  BY <1>2, <2>1 DEF FitsBut, AllFit
<1>5. Restored(node', T, root', h) /\ PathIn(node', T, root', h, path')
  BY <1>1, <1>2, <1>3, <1>4 DEF Restored
<1>6. path' # <<>> => IsLeaf(node', EndOf(node', root', path'))
  BY <1>1, <1>2, <1>3 DEF OnTheWay
<1>7. Good(T, h)'
  BY <1>1, <1>5, <1>6, ReturnedGood
<1> QED
  BY <1>7 DEF IInv

-----------------------------------------------------------------------------
(* checkSizeUpper.                                                         *)

\* What is known while the sizes are checked.
LEMMA CheckFacts ==
  ASSUME NEW T, NEW h, Good(T, h), NEW op, NEW up, NEW down,
         \/ pc = "upper" /\ op = "insertBlock" /\ up = 1 /\ down = 0
         \/ pc = "lower" /\ op = "deleteBlock" /\ up = 0 /\ down = 1
  PROVE  /\ Tree(node, T, root, h) /\ AllExact(node, T, root)
         /\ at \in T /\ FitsBut(node, T, root, at, up, down)
         /\ call \in Calls /\ call.op = op
         /\ HasParent(at) <=> at # root
         /\ size(node[at]) = SizeOf(node, at) /\ SizeOf(node, at) \in Nat
         /\ SizeMax(at) = MaxOf(node, at) /\ SizeMin(at) = MinOf(node, at)
<1>1. Checking(T, op, up, down) /\ Tree(node, T, root, h) /\ call \in Calls
  BY DEF Good, Shaped, Typed
<1>2. at \in T /\ AllExact(node, T, root) /\ FitsBut(node, T, root, at, up, down) /\ call.op = op
  BY <1>1 DEF Checking
<1>3. HasParent(at) <=> at # root
  BY <1>1, <1>2, TreeUp DEF HasParent, Up
<1>4. SizeOf(node, at) \in Nat
  BY <1>1, <1>2, SizeType
<1> QED
  BY <1>1, <1>2, <1>3, <1>4 DEF SizeOf, SizeMax, SizeMin, MaxOf, MinOf, IsLeaf

\* What is known of a sibling of the node that is checked.
LEMMA SideFacts ==
  ASSUME NEW T, NEW h, Good(T, h), pc \in {"upper", "lower"}, at # root,
         NEW i \in Slots, i < Width(node, Up(node, at)), i # Index(node, at),
         NEW s, s = Kid(Row(node, Up(node, at)), i)
  PROVE  /\ s \in T /\ s # root /\ s # at /\ Index(node, s) = i /\ Up(node, s) = Up(node, at)
         /\ IsLeaf(node, s) = IsLeaf(node, at) /\ Fits(node, root, s, 0, 0)
         /\ size(node[s]) = SizeOf(node, s) /\ SizeOf(node, s) \in Nat
         /\ MaxOf(node, s) = MaxOf(node, at) /\ MinOf(node, s) = MinOf(node, at)
         /\ OthersFit(node, T, root, at, s) /\ OthersFit(node, T, root, s, at)
<1>1. PICK op, up, down :
        \/ pc = "upper" /\ op = "insertBlock" /\ up = 1 /\ down = 0
        \/ pc = "lower" /\ op = "deleteBlock" /\ up = 0 /\ down = 1
  OBVIOUS
<1>2. Tree(node, T, root, h) /\ at \in T /\ FitsBut(node, T, root, at, up, down)
  BY <1>1, CheckFacts
<1>3. PICK R, N : R = {root} /\ N = {}
  OBVIOUS
<1>4. /\ s \in T /\ s # root /\ s # at /\ Index(node, s) = i /\ Up(node, s) = Up(node, at)
      /\ IsLeaf(node, s) = IsLeaf(node, at)
  BY <1>2, <1>3, TreeSide
<1>5. Fits(node, root, s, 0, 0) /\ OthersFit(node, T, root, at, s)
      /\ OthersFit(node, T, root, s, at)
  BY <1>2, <1>4 DEF FitsBut, OthersFit
<1>6. SizeOf(node, s) \in Nat
  BY <1>2, <1>4, SizeType
<1> QED
  BY <1>4, <1>5, <1>6 DEF SizeOf, MaxOf, MinOf

\* The siblings by their slots.
LEMMA LeftSide ==
  ASSUME NEW T, NEW h, Good(T, h), pc \in {"upper", "lower"}, HasLeft(at)
  PROVE  /\ at \in T /\ at # root /\ Index(node, at) \in Slots
         /\ Index(node, at) - 1 \in Slots /\ Index(node, at) - 1 < Width(node, Up(node, at))
         /\ Index(node, at) - 1 # Index(node, at)
         /\ Left(at) = Kid(Row(node, Up(node, at)), Index(node, at) - 1)
<1>1. PICK op, up, down :
        \/ pc = "upper" /\ op = "insertBlock" /\ up = 1 /\ down = 0
        \/ pc = "lower" /\ op = "deleteBlock" /\ up = 0 /\ down = 1
  OBVIOUS
<1>2. Tree(node, T, root, h) /\ at \in T /\ (HasParent(at) <=> at # root)
  BY <1>1, CheckFacts
<1>3. at # root /\ Index(node, at) > 0
  BY <1>2 DEF HasLeft, Index
<1>4. Index(node, at) \in Slots /\ Index(node, at) < Width(node, Up(node, at))
      /\ Up(node, at) \in T
  BY <1>2, <1>3, TreeUp
<1>5. Width(node, Up(node, at)) \in Int
  BY <1>2, <1>4, ForestFields, SizesAssumption DEF Tree
<1>6. Index(node, at) - 1 \in Slots /\ Index(node, at) - 1 < Width(node, Up(node, at))
  BY <1>3, <1>4, <1>5, SizesAssumption DEF Slots
<1>7. Left(at) = Kid(Row(node, Up(node, at)), Index(node, at) - 1)
  BY DEF Left, Parent, Kid, Row, Up, Index
<1> QED
  BY <1>2, <1>3, <1>4, <1>6, <1>7 DEF Slots

\* The same on the right.
LEMMA RightSide ==
  ASSUME NEW T, NEW h, Good(T, h), pc \in {"upper", "lower"}, HasRight(at)
  PROVE  /\ at \in T /\ at # root /\ Index(node, at) \in Slots
         /\ Index(node, at) + 1 \in Slots /\ Index(node, at) + 1 < Width(node, Up(node, at))
         /\ Index(node, at) + 1 # Index(node, at)
         /\ Right(at) = Kid(Row(node, Up(node, at)), Index(node, at) + 1)
<1>1. PICK op, up, down :
        \/ pc = "upper" /\ op = "insertBlock" /\ up = 1 /\ down = 0
        \/ pc = "lower" /\ op = "deleteBlock" /\ up = 0 /\ down = 1
  OBVIOUS
<1>2. Tree(node, T, root, h) /\ at \in T /\ (HasParent(at) <=> at # root)
  BY <1>1, CheckFacts
<1>3. at # root /\ Index(node, at) + 1 < Width(node, Up(node, at))
  BY <1>2 DEF HasRight, Index, Parent, Up, Width
<1>4. Index(node, at) \in Slots /\ Up(node, at) \in T
  BY <1>2, <1>3, TreeUp
<1>5. Width(node, Up(node, at)) \in 0..(NodeSizeMax + 1)
  BY <1>2, <1>4, ForestFields DEF Tree
<1>6. Index(node, at) + 1 \in Slots
  BY <1>3, <1>4, <1>5, SizesAssumption DEF Slots
<1>7. Right(at) = Kid(Row(node, Up(node, at)), Index(node, at) + 1)
  BY DEF Right, Parent, Kid, Row, Up, Index
<1> QED
  BY <1>2, <1>3, <1>4, <1>6, <1>7 DEF Slots

\* A node that is too large has one child or block too many.
LEMMA TooLargeFacts ==
  ASSUME NEW T, NEW h, Good(T, h), TooLarge
  PROVE  /\ pc = "upper" /\ Tree(node, T, root, h) /\ AllExact(node, T, root)
         /\ at \in T /\ FitsBut(node, T, root, at, 1, 0) /\ Overfull(node, at)
         /\ call \in Calls /\ call.op = "insertBlock" /\ (HasParent(at) <=> at # root)
         /\ InBounds(node, at, -1) /\ SizeMax(at) = MaxOf(node, at)
<1>1. pc = "upper" /\ size(node[at]) > SizeMax(at)
  BY DEF TooLarge
<1>2. /\ Tree(node, T, root, h) /\ AllExact(node, T, root)
      /\ at \in T /\ FitsBut(node, T, root, at, 1, 0)
      /\ call \in Calls /\ call.op = "insertBlock"
      /\ (HasParent(at) <=> at # root)
      /\ size(node[at]) = SizeOf(node, at) /\ SizeOf(node, at) \in Nat
      /\ SizeMax(at) = MaxOf(node, at)
  BY <1>1, CheckFacts
<1>3. PICK k, max, min \in Nat : k = SizeOf(node, at) /\ max = MaxOf(node, at) /\ min = MinOf(node, at)
  BY <1>2, Bounds
<1>4. k > max /\ k <= max + 1
  BY <1>1, <1>2, <1>3 DEF FitsBut, Fits
<1>5. min <= max
  BY <1>3, Bounds
<1>6. k = max + 1 /\ min <= k + (-1) /\ k + (-1) <= max
  BY <1>4, <1>5
<1> QED
  BY <1>1, <1>2, <1>3, <1>6 DEF Overfull, InBounds

\* A node that is not too large ends the check.
LEMMA FitsAboveGood ==
  ASSUME NEW T, NEW h, Good(T, h), FitsAbove
  PROVE  IInv'
<1>1. pc = "upper" /\ size(node[at]) <= SizeMax(at) /\ ReturnRoot(root) /\ node' = node
  BY DEF FitsAbove
<1>2. /\ Tree(node, T, root, h) /\ AllExact(node, T, root)
      /\ at \in T /\ FitsBut(node, T, root, at, 1, 0)
      /\ size(node[at]) = SizeOf(node, at) /\ SizeOf(node, at) \in Nat
      /\ SizeMax(at) = MaxOf(node, at)
  BY <1>1, CheckFacts
<1>3. Fits(node, root, at, 0, 0)
  <2>1. /\ SizeOf(node, at) <= MaxOf(node, at) /\ MaxOf(node, at) \in Nat
        /\ Fits(node, root, at, 1, 0)
    BY <1>1, <1>2, Bounds DEF FitsBut
  <2> QED  BY <2>1 DEF Fits
<1>4. Restored(node, T, root, h)
  BY <1>2, <1>3 DEF Restored, AllFit, FitsBut
<1> QED
  BY <1>1, <1>4, ClearedGood

\* A node that has room for one more.
LEMMA HasRoom ==
  ASSUME NEW r, NEW s, Fits(node, r, s, 0, 0), s # r, SizeOf(node, s) \in Nat,
         SizeOf(node, s) < MaxOf(node, s)
  PROVE  InBounds(node, s, 1)
<1>1. PICK k, max, min \in Nat : k = SizeOf(node, s) /\ max = MaxOf(node, s) /\ min = MinOf(node, s)
  BY Bounds
<1>2. k >= min /\ k < max
  BY <1>1 DEF Fits
<1>3. min <= k + 1 /\ k + 1 <= max
  BY <1>2
<1> QED
  BY <1>1, <1>3 DEF InBounds

\* n gives to the sibling before it, or after it, and the call returns.
GivesLeft(T, n, i) ==
  /\ n \in T /\ n # root /\ i \in Slots /\ i = Index(node, n) - 1
  /\ CanMove(node, n, Kid(Row(node, Up(node, n)), i)) /\ node' = MoveLeft(node, n)
GivesRight(T, n, j) ==
  /\ n \in T /\ n # root /\ j \in Slots /\ j = Index(node, n) + 1
  /\ j < Width(node, Up(node, n))
  /\ CanMove(node, n, Kid(Row(node, Up(node, n)), j)) /\ node' = MoveRight(node, n)

\* trySpill to the left.
LEMMA SpillLeftRestores ==
  ASSUME NEW T, NEW h, Good(T, h), SpillLeft
  PROVE  /\ Restored(node', T, root, h) /\ ReturnRoot(root)
         /\ \E n, i : GivesLeft(T, n, i)
<1>1. TooLarge /\ HasLeft(at) /\ node' = MoveLeft(node, at) /\ ReturnRoot(root)
  BY DEF SpillLeft, SpillsLeft
<1>2. /\ pc = "upper" /\ Tree(node, T, root, h) /\ AllExact(node, T, root)
      /\ InBounds(node, at, -1) /\ SizeMax(at) = MaxOf(node, at)
  BY <1>1, TooLargeFacts
<1>3. PICK i, s : i = Index(node, at) - 1 /\ s = Left(at)
  OBVIOUS
<1>4. /\ at \in T /\ at # root /\ i \in Slots /\ i < Width(node, Up(node, at))
      /\ i # Index(node, at) /\ s = Kid(Row(node, Up(node, at)), i)
  BY <1>1, <1>2, <1>3, LeftSide
<1>5. /\ Fits(node, root, s, 0, 0) /\ s \in T /\ s # root /\ size(node[s]) = SizeOf(node, s)
      /\ SizeOf(node, s) \in Nat /\ MaxOf(node, s) = MaxOf(node, at)
      /\ OthersFit(node, T, root, at, s) /\ IsLeaf(node, s) = IsLeaf(node, at)
  BY <1>2, <1>4, SideFacts
<1>6. SizeOf(node, s) < MaxOf(node, s)
  BY <1>2, <1>3, <1>5 DEF SpillLeft, SpillsLeft
<1>7. InBounds(node, s, 1)
  BY <1>5, <1>6, HasRoom
<1>8. Restored(node', T, root, h)
  BY <1>1, <1>2, <1>3, <1>4, <1>5, <1>7, GiveLeft
<1>9. CanMove(node, at, s)
  BY <1>2, <1>4, <1>5, <1>7, MayMove
<1>10. GivesLeft(T, at, i)
  BY <1>1, <1>3, <1>4, <1>9 DEF GivesLeft
<1> QED
  BY <1>1, <1>8, <1>10

\* trySpill to the right.
LEMMA SpillRightRestores ==
  ASSUME NEW T, NEW h, Good(T, h), SpillRight
  PROVE  /\ Restored(node', T, root, h) /\ ReturnRoot(root)
         /\ \E n, j : GivesRight(T, n, j)
<1>1. TooLarge /\ HasRight(at) /\ node' = MoveRight(node, at) /\ ReturnRoot(root)
  BY DEF SpillRight, SpillsRight
<1>2. /\ pc = "upper" /\ Tree(node, T, root, h) /\ AllExact(node, T, root)
      /\ InBounds(node, at, -1) /\ SizeMax(at) = MaxOf(node, at)
  BY <1>1, TooLargeFacts
<1>3. PICK i, s : i = Index(node, at) + 1 /\ s = Right(at)
  OBVIOUS
<1>4. /\ at \in T /\ at # root /\ i \in Slots /\ i < Width(node, Up(node, at))
      /\ i # Index(node, at) /\ s = Kid(Row(node, Up(node, at)), i)
  BY <1>1, <1>2, <1>3, RightSide
<1>5. /\ Fits(node, root, s, 0, 0) /\ s \in T /\ s # root /\ size(node[s]) = SizeOf(node, s)
      /\ SizeOf(node, s) \in Nat /\ MaxOf(node, s) = MaxOf(node, at)
      /\ OthersFit(node, T, root, at, s) /\ IsLeaf(node, s) = IsLeaf(node, at)
  BY <1>2, <1>4, SideFacts
<1>6. SizeOf(node, s) < MaxOf(node, s)
  BY <1>2, <1>3, <1>5 DEF SpillRight, SpillsRight
<1>7. InBounds(node, s, 1)
  BY <1>5, <1>6, HasRoom
<1>8. Restored(node', T, root, h)
  BY <1>1, <1>2, <1>3, <1>4, <1>5, <1>7, GiveRight
<1>9. CanMove(node, at, s)
  BY <1>2, <1>4, <1>5, <1>7, MayMove
<1>10. GivesRight(T, at, i)
  BY <1>1, <1>3, <1>4, <1>9 DEF GivesRight
<1> QED
  BY <1>1, <1>8, <1>10

\* A root is split.
LEMMA SplitRootRestores ==
  ASSUME NEW T, NEW h, Good(T, h), SplitRoot
  PROVE  \E new, top, U, g :
           /\ U = T \cup {new, top} /\ Restored(node', U, top, g) /\ ReturnRoot(top)
           /\ RootParted(node, node', T, root, new, top)
<1>1. TooLarge /\ ~HasParent(at)
  BY DEF SplitRoot
<1>2. /\ Tree(node, T, root, h) /\ AllExact(node, T, root) /\ at = root
      /\ FitsBut(node, T, root, at, 1, 0) /\ Overfull(node, at)
  BY <1>1, TooLargeFacts
<1>3. PICK new : new = Unused(node)
  OBVIOUS
<1>4. PICK top : top = Unused(Halve(node, root, new))
  OBVIOUS
<1>5. node' = AddRoot(Halve(node, root, new), root, new, top) /\ ReturnRoot(top)
  BY <1>2, <1>3, <1>4 DEF SplitRoot
<1>6. PICK k : k = h[root] + 1
  OBVIOUS
<1>7. PICK U, g : U = T \cup {new, top} /\ g = Raised(Raised(h, new, h[root]), top, k)
  OBVIOUS
<1>8. FitsBut(node, T, root, root, 1, 0) /\ Overfull(node, root)
  BY <1>2
<1>9. PICK H : H = AddRoot(Halve(node, root, new), root, new, top)
  OBVIOUS
<1>10. Restored(H, U, top, g) /\ RootParted(node, H, T, root, new, top)
  BY <1>2, <1>3, <1>4, <1>6, <1>7, <1>8, <1>9, SplitRootTree
<1> QED
  BY <1>5, <1>7, <1>9, <1>10

\* The check goes on with the parent.
LEMMA NextChecked ==
  ASSUME NEW T, NEW h, Good(T, h), pc \in {"upper", "lower"},
         UNCHANGED <<root, path, pc, call, leaf, before, delta>>,
         NEW U, NEW g, Tree(node', U, root, g), AllExact(node', U, root),
         DOMAIN node \subseteq DOMAIN node', at' \in U, NEW op, NEW up, NEW down, call.op = op,
         FitsBut(node', U, root, at', up, down),
         \/ pc = "upper" /\ op = "insertBlock" /\ up = 1 /\ down = 0
         \/ pc = "lower" /\ op = "deleteBlock" /\ up = 0 /\ down = 1
  PROVE  IInv'
<1>1. Typed(U)'
  <2>1. Typed(T)
    BY DEF Good
  <2> QED  BY <2>1 DEF Typed
<1>2. Checking(U, op, up, down)'
  BY DEF Checking
<1>3. NaturalRows(node', U)
  BY TreeNumbers
<1>4. Shaped(U, g)'
  BY <1>2, <1>3 DEF Shaped
<1>5. Route(U, g)'
  BY DEF Route, PathUsed
<1>6. Good(U, g)'
  BY <1>1, <1>4, <1>5 DEF Good
<1> QED
  BY <1>6 DEF IInv

\* No node is lost where an entry is placed, removed or changed.
LEMMA SameNodes ==
  ASSUME NEW heap, NEW n, NEW row, NEW len, NEW moved, NEW i, NEW b, NEW o, NEW bv, NEW e
  PROVE  /\ DOMAIN Place(heap, n, row, len, moved) = DOMAIN heap
         /\ DOMAIN InsertEntry(heap, n, i, e) = DOMAIN heap
         /\ DOMAIN RemoveEntry(heap, n, i) = DOMAIN heap
         /\ DOMAIN AddToEntry(heap, n, i, b, o) = DOMAIN heap
         /\ DOMAIN WithBits(heap, n, bv) = DOMAIN heap
<1>1. \A f, g, k : DOMAIN Place(heap, n, f, g, k) = DOMAIN heap
  BY DEF Place, WithIndex
<1>2. DOMAIN InsertEntry(heap, n, i, e) = DOMAIN heap
  BY <1>1 DEF InsertEntry
<1>3. DOMAIN RemoveEntry(heap, n, i) = DOMAIN heap
  BY <1>1 DEF RemoveEntry
<1>4. DOMAIN AddToEntry(heap, n, i, b, o) = DOMAIN heap
  BY DEF AddToEntry
<1>5. DOMAIN WithBits(heap, n, bv) = DOMAIN heap
  BY DEF WithBits
<1> QED
  BY <1>1, <1>2, <1>3, <1>4, <1>5

\* Nor where a node is split,
LEMMA SplitKeepsNodes ==
  ASSUME NEW heap, NEW n, NEW new
  PROVE  DOMAIN heap \subseteq DOMAIN AddSibling(Halve(heap, n, new), n, new)
<1>1. PICK half : half = Halve(heap, n, new)
  OBVIOUS
<1>2. DOMAIN AddSibling(half, n, new) = DOMAIN half
  <2>1. \A f, m, k, e : DOMAIN InsertEntry(f, m, k, e) = DOMAIN f
    BY SameNodes
  <2>2. \A f, m, k, b, o : DOMAIN AddToEntry(f, m, k, b, o) = DOMAIN f
    BY SameNodes
  <2>3. PICK p, idx, entry : /\ p = half[n].parent /\ idx = half[n].indexInParent
                             /\ entry = EntryOf(half, new)
    OBVIOUS
  <2>4. PICK told : told = AddToEntry(half, p, idx, -entry.b, -entry.o)
    OBVIOUS
  <2>5. AddSibling(half, n, new) = InsertEntry(told, p, idx + 1, entry)
    BY <2>3, <2>4 DEF AddSibling
  <2>6. DOMAIN told = DOMAIN half
    BY <2>2, <2>4
  <2> QED  BY <2>1, <2>5, <2>6
<1>3. DOMAIN heap \subseteq DOMAIN HalveLeaf(heap, n, new)
  BY DEF HalveLeaf, Allocate, WithBits
<1>4. DOMAIN heap \subseteq DOMAIN HalveInternal(heap, n, new)
  <2>1. \A f, row, slots, m : DOMAIN AdoptAll(f, row, slots, m) = DOMAIN f
    BY DEF AdoptAll
  <2>2. \A f, m, x : DOMAIN f \subseteq DOMAIN Allocate(f, m, x)
    BY DEF Allocate
  <2>3. \A f, m, row, len, moved : DOMAIN Place(f, m, row, len, moved) = DOMAIN f
    BY SameNodes
  <2> QED  BY <2>1, <2>2, <2>3 DEF HalveInternal
<1> QED
  BY <1>1, <1>2, <1>3, <1>4 DEF Halve

\* or where two are merged.
LEMMA MergeKeepsNodes ==
  ASSUME NEW heap, NEW p, NEW i
  PROVE  DOMAIN Merge(heap, p, i) = DOMAIN heap
<1>1. DOMAIN MergeLeaf(heap, p, i) = DOMAIN heap
  <2>1. \A f, m, k : DOMAIN RemoveEntry(f, m, k) = DOMAIN f
    BY SameNodes
  <2>2. \A f, m, k, b, o : DOMAIN AddToEntry(f, m, k, b, o) = DOMAIN f
    BY SameNodes
  <2>3. \A f, m, bv : DOMAIN WithBits(f, m, bv) = DOMAIN f
    BY SameNodes
  <2>4. PICK left, right, gone : /\ left = heap[p].entries[i].P
                                 /\ right = heap[p].entries[i + 1].P
                                 /\ gone = heap[p].entries[i + 1]
    OBVIOUS
  <2>5. PICK merged : merged = WithBits(heap, left, heap[left].bv \o heap[right].bv)
    OBVIOUS
  <2>6. MergeLeaf(heap, p, i) = RemoveEntry(AddToEntry(merged, p, i, gone.b, gone.o), p, i + 1)
    BY <2>4, <2>5 DEF MergeLeaf
  <2>7. PICK told : told = AddToEntry(merged, p, i, gone.b, gone.o)
    OBVIOUS
  <2>8. DOMAIN merged = DOMAIN heap
    BY <2>3, <2>5
  <2>9. DOMAIN told = DOMAIN heap
    BY <2>2, <2>7, <2>8
  <2> QED  BY <2>1, <2>6, <2>7, <2>9
<1>2. DOMAIN MergeInternal(heap, p, i) = DOMAIN heap
  <2>1. \A f, row, slots, m : DOMAIN AdoptAll(f, row, slots, m) = DOMAIN f
    BY DEF AdoptAll
  <2>2. \A f, m, row : DOMAIN WithRow(f, m, row) = DOMAIN f
    BY DEF WithRow
  <2>3. \A f, m, row, len, moved : DOMAIN Place(f, m, row, len, moved) = DOMAIN f
    BY SameNodes
  <2>4. \A f, m, k : DOMAIN RemoveEntry(f, m, k) = DOMAIN f
    BY SameNodes
  <2>5. \A f, m, k, b, o : DOMAIN AddToEntry(f, m, k, b, o) = DOMAIN f
    BY SameNodes
  <2>6. PICK left, right, more, n : /\ left = heap[p].entries[i].P
                                    /\ right = heap[p].entries[i + 1].P
                                    /\ more = heap[right].entries /\ n = heap[right].size
    OBVIOUS
  <2>7. PICK emptied : emptied = WithRow(AdoptAll(heap, more, 0..(n - 1), left), right, Emptied(more, n))
    OBVIOUS
  <2>8. DOMAIN emptied = DOMAIN heap
    BY <2>1, <2>2, <2>7
  <2>9. PICK row, len, moved, b, o :
          MergeInternal(heap, p, i)
          = AddToEntry(RemoveEntry(Place(emptied, left, row, len, moved), p, i + 1), p, i, b, o)
    BY <2>6, <2>7 DEF MergeInternal, WithRow
  <2>10. PICK placed : placed = Place(emptied, left, row, len, moved)
    OBVIOUS
  <2>11. PICK less : less = RemoveEntry(placed, p, i + 1)
    OBVIOUS
  <2>12. MergeInternal(heap, p, i) = AddToEntry(less, p, i, b, o)
    BY <2>9, <2>10, <2>11
  <2>13. DOMAIN placed = DOMAIN heap
    BY <2>3, <2>8, <2>10
  <2>14. DOMAIN less = DOMAIN heap
    BY <2>4, <2>11, <2>13
  <2> QED  BY <2>5, <2>12, <2>14
<1> QED
  BY <1>1, <1>2 DEF Merge

\* Another node is split, and its parent is checked next.
LEMMA SplitLeaves ==
  ASSUME NEW T, NEW h, Good(T, h), Split
  PROVE  \E new, U, g, i :
           /\ U = T \cup {new} /\ new \notin T /\ at \in T /\ at' \in T
           /\ Tree(node', U, root, g) /\ AllExact(node', U, root)
           /\ FitsBut(node', U, root, at', 1, 0) /\ at' \in U
           /\ Parted(node, node', T, at', i, at, new) /\ \A m \in T : g[m] = h[m]
<1>1. /\ TooLarge /\ HasParent(at) /\ at' = Up(node, at)
      /\ UNCHANGED <<root, path, pc, call, leaf, before, delta>>
  BY DEF Split, Up
<1>2. /\ pc = "upper" /\ Tree(node, T, root, h) /\ AllExact(node, T, root) /\ at # root
      /\ at \in T /\ FitsBut(node, T, root, at, 1, 0) /\ Overfull(node, at)
      /\ call.op = "insertBlock"
  BY <1>1, TooLargeFacts
<1>3. PICK new : new = Unused(node)
  OBVIOUS
<1>4. node' = AddSibling(Halve(node, at, new), at, new)
  BY <1>3 DEF Split
<1>5. PICK U, g : U = T \cup {new} /\ g = Raised(h, new, h[at])
  OBVIOUS
<1>6. PICK H, p : H = AddSibling(Halve(node, at, new), at, new) /\ p = Up(node, at)
  OBVIOUS
<1>7. /\ Tree(H, U, root, g) /\ AllExact(H, U, root) /\ FitsBut(H, U, root, p, 1, 0)
      /\ p \in U /\ p \in T /\ new \notin T /\ Parted(node, H, T, p, Index(node, at), at, new)
  BY <1>2, <1>3, <1>5, <1>6, SplitTree
<1>8. \A m \in T : g[m] = h[m]
  <2>1. DOMAIN h = Nat /\ T \subseteq Nat
    <3>1. PICK R, N : Forest(node, T, R, N, h)
      BY <1>2 DEF Tree
    <3>2. h \in [Nat -> Nat] /\ \A m \in T : m \in Nat
      BY <3>1, ForestFields DEF Forest
    <3> QED  BY <3>2
  <2> QED  BY <1>5, <1>7, <2>1 DEF Raised
<1> QED
  BY <1>1, <1>2, <1>4, <1>5, <1>6, <1>7, <1>8

\* So the invariant holds.
LEMMA SplitGood ==
  ASSUME NEW T, NEW h, Good(T, h), Split
  PROVE  IInv'
<1>1. /\ TooLarge /\ HasParent(at)
      /\ UNCHANGED <<root, path, pc, call, leaf, before, delta>>
  BY DEF Split
<1>2. pc = "upper" /\ call.op = "insertBlock"
  BY <1>1, TooLargeFacts
<1>3. PICK U, g : /\ Tree(node', U, root, g) /\ AllExact(node', U, root)
                  /\ FitsBut(node', U, root, at', 1, 0) /\ at' \in U
  BY SplitLeaves
<1>4. DOMAIN node \subseteq DOMAIN node'
  BY SplitKeepsNodes DEF Split
<1> QED
  BY <1>1, <1>2, <1>3, <1>4, NextChecked

-----------------------------------------------------------------------------
(* checkSizeLower.                                                         *)

\* A node that is large enough ends the check.
LEMMA FitsBelowGood ==
  ASSUME NEW T, NEW h, Good(T, h), FitsBelow
  PROVE  IInv'
<1>1. pc = "lower" /\ ~TooSmall /\ ReturnRoot(root) /\ node' = node
  BY DEF FitsBelow
<1>2. /\ Tree(node, T, root, h) /\ AllExact(node, T, root)
      /\ at \in T /\ FitsBut(node, T, root, at, 0, 1)
      /\ (HasParent(at) <=> at # root)
      /\ size(node[at]) = SizeOf(node, at) /\ SizeOf(node, at) \in Nat
      /\ SizeMin(at) = MinOf(node, at)
  BY <1>1, CheckFacts
<1>3. PICK k, max, min \in Nat : /\ k = SizeOf(node, at) /\ max = MaxOf(node, at)
                                 /\ min = MinOf(node, at)
  BY <1>2, Bounds
<1>4. /\ ~(k < min /\ (at # root \/ (~IsLeaf(node, at) /\ k < 2)))
      /\ (~IsLeaf(node, at) => 2 <= min)
  BY <1>1, <1>2, <1>3, Bounds DEF TooSmall, IsLeaf
<1>5. Fits(node, root, at, 0, 0)
  <2>1. k <= max + 0
    BY <1>2, <1>3 DEF FitsBut, Fits
  <2>2. at # root => k >= min - 0
    BY <1>3, <1>4
  <2>3. at = root /\ ~IsLeaf(node, at) => k >= 2 - 0
    BY <1>3, <1>4
  <2> QED  BY <1>3, <2>1, <2>2, <2>3 DEF Fits
<1>6. Restored(node, T, root, h)
  BY <1>2, <1>5 DEF Restored, AllFit, FitsBut
<1> QED
  BY <1>1, <1>6, ClearedGood

\* A node other than the root that is too small lacks one child or block.
LEMMA TooSmallFacts ==
  ASSUME NEW T, NEW h, Good(T, h), TooSmall, at # root
  PROVE  /\ pc = "lower" /\ Tree(node, T, root, h) /\ AllExact(node, T, root)
         /\ at \in T /\ FitsBut(node, T, root, at, 0, 1) /\ call.op = "deleteBlock"
         /\ InBounds(node, at, 1) /\ SizeMin(at) = MinOf(node, at)
         /\ SizeOf(node, at) = MinOf(node, at) - 1 /\ SizeOf(node, at) \in Nat
<1>1. pc = "lower" /\ size(node[at]) < SizeMin(at)
  BY DEF TooSmall
<1>2. /\ Tree(node, T, root, h) /\ AllExact(node, T, root)
      /\ at \in T /\ FitsBut(node, T, root, at, 0, 1) /\ call.op = "deleteBlock"
      /\ size(node[at]) = SizeOf(node, at) /\ SizeOf(node, at) \in Nat
      /\ SizeMin(at) = MinOf(node, at)
  BY <1>1, CheckFacts
<1>3. PICK k, max, min \in Nat : /\ k = SizeOf(node, at) /\ max = MaxOf(node, at)
                                 /\ min = MinOf(node, at) /\ min <= max
  BY <1>2, Bounds
<1>4. k < min /\ k >= min - 1
  BY <1>1, <1>2, <1>3 DEF FitsBut, Fits
<1>5. k = min - 1 /\ min <= k + 1 /\ k + 1 <= max
  BY <1>3, <1>4
<1> QED
  BY <1>1, <1>2, <1>3, <1>5 DEF InBounds

\* A node that has one more than the minimum.
LEMMA HasSpare ==
  ASSUME NEW r, NEW s, Fits(node, r, s, 0, 0), SizeOf(node, s) \in Nat,
         SizeOf(node, s) > MinOf(node, s)
  PROVE  InBounds(node, s, -1)
<1>1. PICK k, max, min \in Nat : k = SizeOf(node, s) /\ max = MaxOf(node, s) /\ min = MinOf(node, s)
  BY Bounds
<1>2. k > min /\ k <= max
  BY <1>1 DEF Fits
<1>3. min <= k + (-1) /\ k + (-1) <= max
  BY <1>2
<1> QED
  BY <1>1, <1>3 DEF InBounds

\* trySteal from the left.
LEMMA StealFromLeftRestores ==
  ASSUME NEW T, NEW h, Good(T, h), StealFromLeft
  PROVE  /\ Restored(node', T, root, h) /\ ReturnRoot(root)
         /\ \E n, j : GivesRight(T, n, j)
<1>1. TooSmall /\ HasLeft(at) /\ node' = MoveRight(node, Left(at)) /\ ReturnRoot(root)
  BY DEF StealFromLeft, StealsLeft
<1>2. pc = "lower"
  BY <1>1 DEF TooSmall
<1>3. PICK i, s : i = Index(node, at) - 1 /\ s = Left(at)
  OBVIOUS
<1>4. /\ at \in T /\ at # root /\ i \in Slots /\ i < Width(node, Up(node, at))
      /\ i # Index(node, at) /\ s = Kid(Row(node, Up(node, at)), i)
      /\ Index(node, at) \in Slots
  BY <1>1, <1>2, <1>3, LeftSide
<1>5. /\ s \in T /\ s # root /\ Index(node, s) = i /\ Up(node, s) = Up(node, at)
      /\ Fits(node, root, s, 0, 0) /\ size(node[s]) = SizeOf(node, s)
      /\ SizeOf(node, s) \in Nat /\ MinOf(node, s) = MinOf(node, at)
      /\ OthersFit(node, T, root, s, at) /\ IsLeaf(node, at) = IsLeaf(node, s)
  BY <1>2, <1>4, SideFacts
<1>6. /\ Tree(node, T, root, h) /\ AllExact(node, T, root)
      /\ InBounds(node, at, 1) /\ SizeMin(at) = MinOf(node, at)
  BY <1>1, <1>4, TooSmallFacts
<1>7. SizeOf(node, s) > MinOf(node, s)
  BY <1>3, <1>5, <1>6 DEF StealFromLeft, StealsLeft
<1>8. InBounds(node, s, -1)
  BY <1>5, <1>7, HasSpare
<1>9. PICK j : j = Index(node, at)
  OBVIOUS
<1>10. /\ j \in Slots /\ j = Index(node, s) + 1 /\ j < Width(node, Up(node, s))
       /\ at = Kid(Row(node, Up(node, s)), j)
  <2>1. /\ j < Width(node, Up(node, at)) /\ Kid(Row(node, Up(node, at)), j) = at
    BY <1>4, <1>6, <1>9, TreeUp
  <2>2. j = i + 1
    BY <1>3, <1>4, <1>9 DEF Slots
  <2> QED  BY <1>4, <1>5, <1>9, <2>1, <2>2
<1>11. Restored(MoveRight(node, s), T, root, h)
  BY <1>5, <1>6, <1>8, <1>10, GiveRight
<1>12. CanMove(node, s, at)
  BY <1>4, <1>5, <1>6, <1>8, MayMove
<1>13. GivesRight(T, s, j)
  BY <1>1, <1>3, <1>5, <1>10, <1>12 DEF GivesRight
<1> QED
  BY <1>1, <1>3, <1>11, <1>13

\* trySteal from the right.
LEMMA StealFromRightRestores ==
  ASSUME NEW T, NEW h, Good(T, h), StealFromRight
  PROVE  /\ Restored(node', T, root, h) /\ ReturnRoot(root)
         /\ \E n, i : GivesLeft(T, n, i)
<1>1. TooSmall /\ HasRight(at) /\ node' = MoveLeft(node, Right(at)) /\ ReturnRoot(root)
  BY DEF StealFromRight, StealsRight
<1>2. pc = "lower"
  BY <1>1 DEF TooSmall
<1>3. PICK i, s : i = Index(node, at) + 1 /\ s = Right(at)
  OBVIOUS
<1>4. /\ at \in T /\ at # root /\ i \in Slots /\ i < Width(node, Up(node, at))
      /\ i # Index(node, at) /\ s = Kid(Row(node, Up(node, at)), i)
      /\ Index(node, at) \in Slots
  BY <1>1, <1>2, <1>3, RightSide
<1>5. /\ s \in T /\ s # root /\ Index(node, s) = i /\ Up(node, s) = Up(node, at)
      /\ Fits(node, root, s, 0, 0) /\ size(node[s]) = SizeOf(node, s)
      /\ SizeOf(node, s) \in Nat /\ MinOf(node, s) = MinOf(node, at)
      /\ OthersFit(node, T, root, s, at) /\ IsLeaf(node, at) = IsLeaf(node, s)
  BY <1>2, <1>4, SideFacts
<1>6. /\ Tree(node, T, root, h) /\ AllExact(node, T, root)
      /\ InBounds(node, at, 1) /\ SizeMin(at) = MinOf(node, at)
  BY <1>1, <1>4, TooSmallFacts
<1>7. SizeOf(node, s) > MinOf(node, s)
  BY <1>3, <1>5, <1>6 DEF StealFromRight, StealsRight
<1>8. InBounds(node, s, -1)
  BY <1>5, <1>7, HasSpare
<1>9. PICK j : j = Index(node, at)
  OBVIOUS
<1>10. /\ j \in Slots /\ j = Index(node, s) - 1
       /\ at = Kid(Row(node, Up(node, s)), j)
  <2>1. Kid(Row(node, Up(node, at)), j) = at
    BY <1>4, <1>6, <1>9, TreeUp
  <2>2. j = i - 1
    BY <1>3, <1>4, <1>9 DEF Slots
  <2> QED  BY <1>4, <1>5, <1>9, <2>1, <2>2
<1>11. Restored(MoveLeft(node, s), T, root, h)
  BY <1>5, <1>6, <1>8, <1>10, GiveLeft
<1>12. CanMove(node, s, at)
  BY <1>4, <1>5, <1>6, <1>8, MayMove
<1>13. GivesLeft(T, s, j)
  BY <1>1, <1>3, <1>5, <1>10, <1>12 DEF GivesLeft
<1> QED
  BY <1>1, <1>3, <1>11, <1>13

\* A root that is left with one child gives way to it.
LEMMA MergeRootRestores ==
  ASSUME NEW T, NEW h, Good(T, h), MergeRoot
  PROVE  \E c, U : /\ c = Kid(Row(node, root), 0) /\ U = T \ {root}
                   /\ Restored(node', U, c, h) /\ ReturnRoot(c)
                   /\ ~IsLeaf(node, root) /\ Width(node, root) = 1
                   /\ \A m \in U : SameNode(node, node', m)
<1>1. TooSmall /\ ~HasParent(at) /\ pc = "lower"
  BY DEF MergeRoot, TooSmall
<1>2. /\ Tree(node, T, root, h) /\ AllExact(node, T, root)
      /\ FitsBut(node, T, root, at, 0, 1) /\ at = root
      /\ size(node[at]) = SizeOf(node, at)
  BY <1>1, CheckFacts
<1>3. ~IsLeaf(node, root) /\ SizeOf(node, root) < 2 /\ FitsBut(node, T, root, root, 0, 1)
  BY <1>1, <1>2 DEF TooSmall, IsLeaf
<1>4. PICK c, U : c = Kid(Row(node, root), 0) /\ U = T \ {root}
  OBVIOUS
<1>5. node' = Unrooted(node, root, c) /\ ReturnRoot(c)
  BY <1>2, <1>4 DEF MergeRoot, Unrooted, Kid, Row
<1>6. PICK H : H = Unrooted(node, root, c)
  OBVIOUS
<1>7. /\ Restored(H, U, c, h) /\ Width(node, root) = 1
      /\ \A m \in U : SameNode(node, H, m)
  BY <1>2, <1>3, <1>4, <1>6, MergeRootTree
<1> QED
  BY <1>3, <1>4, <1>5, <1>6, <1>7

\* The nodes n and s, in the slots i and j of the parent, are merged.
MergesPair(T, i, j, n, s) ==
  LET p == Up(node, at)
  IN  /\ i \in Slots /\ j \in Slots /\ j = i + 1 /\ j < Width(node, p)
      /\ n = Kid(Row(node, p), i) /\ s = Kid(Row(node, p), j)
      /\ OthersFit(node, T, root, n, s) /\ Mergeable(node, n, s)
      /\ node' = Merge(node, p, i)

\* mergeLeaf, mergeInternal: neither sibling can spare anything.
LEMMA MergeNodesPair ==
  ASSUME NEW T, NEW h, Good(T, h), MergeNodes
  PROVE  \E i, j, n, s : MergesPair(T, i, j, n, s)
<1>1. TooSmall /\ HasParent(at) /\ pc = "lower"
  BY DEF MergeNodes, TooSmall, Up
<1>2. at # root
  BY <1>1, CheckFacts
<1>3. /\ Tree(node, T, root, h) /\ AllExact(node, T, root) /\ at \in T
      /\ FitsBut(node, T, root, at, 0, 1) /\ call.op = "deleteBlock"
      /\ SizeMin(at) = MinOf(node, at)
      /\ SizeOf(node, at) = MinOf(node, at) - 1 /\ SizeOf(node, at) \in Nat
  BY <1>1, <1>2, TooSmallFacts
<1>4. PICK p, idx : p = Up(node, at) /\ idx = Index(node, at)
  OBVIOUS
<1>5. /\ p \in T /\ ~IsLeaf(node, p) /\ p # at /\ idx \in Slots /\ idx < Width(node, p)
      /\ at = Kid(Row(node, p), idx)
  BY <1>2, <1>3, <1>4, TreeUp
<1>6. node' = Merge(node, p, IF idx > 0 THEN idx - 1 ELSE idx)
  BY <1>4 DEF MergeNodes, Up, Index
<1>7. PICK k, min \in Nat : k = SizeOf(node, at) /\ min = MinOf(node, at) /\ k = min - 1
  BY <1>3, Bounds
<1>8. CASE idx > 0
  <2>1. HasLeft(at)
    BY <1>1, <1>4, <1>8 DEF HasLeft, Index
  <2>2. PICK i, n : i = idx - 1 /\ n = Left(at)
    OBVIOUS
  <2>3. /\ i \in Slots /\ i < Width(node, p) /\ i # idx /\ n = Kid(Row(node, p), i)
    BY <1>1, <1>4, <2>1, <2>2, LeftSide
  <2>4. /\ n # root /\ Fits(node, root, n, 0, 0) /\ size(node[n]) = SizeOf(node, n)
        /\ SizeOf(node, n) \in Nat /\ MinOf(node, n) = MinOf(node, at)
        /\ OthersFit(node, T, root, n, at)
    BY <1>1, <1>2, <1>4, <2>3, SideFacts
  <2>5. ~(SizeOf(node, n) > MinOf(node, n))
    BY <1>3, <2>1, <2>2, <2>4 DEF MergeNodes, StealsLeft
  <2>6. Mergeable(node, n, at)
    <3>1. PICK l \in Nat : l = SizeOf(node, n) /\ ~(l > min) /\ l >= min
      BY <1>7, <2>4, <2>5 DEF Fits
    <3>2. l + k = min + min - 1
      BY <1>7, <3>1
    <3> QED  BY <1>7, <2>4, <3>1, <3>2 DEF Mergeable
  <2>7. idx = i + 1 /\ node' = Merge(node, p, i)
    BY <1>5, <1>6, <1>8, <2>2 DEF Slots
  <2>8. MergesPair(T, i, idx, n, at)
    BY <1>4, <1>5, <2>3, <2>4, <2>6, <2>7 DEF MergesPair
  <2> QED  BY <2>8
<1>9. CASE ~(idx > 0)
  <2>1. idx = 0 /\ 0 \in Slots /\ 1 \in Slots
    BY <1>5, <1>9, SizesAssumption DEF Slots
  <2>2. 1 < Width(node, p)
    <3>1. Fits(node, root, p, 0, 0) /\ SizeOf(node, p) = Width(node, p)
      BY <1>3, <1>5, SizeFields DEF FitsBut
    <3>2. PICK l, m \in Nat : l = SizeOf(node, p) /\ m = MinOf(node, p) /\ 2 <= m
      BY <1>3, <1>5, SizeType, Bounds
    <3>3. l >= m \/ l >= 2
      BY <1>5, <3>1, <3>2 DEF Fits
    <3> QED  BY <3>1, <3>2, <3>3
  <2>3. HasRight(at)
    BY <1>1, <1>4, <2>1, <2>2 DEF HasRight, Index, Parent, Up, Width
  <2>4. PICK j, s : j = idx + 1 /\ s = Right(at)
    OBVIOUS
  <2>5. /\ j \in Slots /\ j < Width(node, p) /\ j # idx /\ s = Kid(Row(node, p), j)
    BY <1>1, <1>4, <2>3, <2>4, RightSide
  <2>6. /\ s # root /\ Fits(node, root, s, 0, 0) /\ size(node[s]) = SizeOf(node, s)
        /\ SizeOf(node, s) \in Nat /\ MinOf(node, s) = MinOf(node, at)
        /\ OthersFit(node, T, root, at, s)
    BY <1>1, <1>2, <1>4, <2>5, SideFacts
  <2>7. ~(SizeOf(node, s) > MinOf(node, s))
    BY <1>3, <2>3, <2>4, <2>6 DEF MergeNodes, StealsRight
  <2>8. Mergeable(node, at, s)
    <3>1. PICK l \in Nat : l = SizeOf(node, s) /\ ~(l > min) /\ l >= min
      BY <1>7, <2>6, <2>7 DEF Fits
    <3>2. k + l = min + min - 1
      BY <1>7, <3>1
    <3> QED  BY <1>7, <3>1, <3>2 DEF Mergeable
  <2>9. node' = Merge(node, p, idx)
    BY <1>6, <1>9
  <2>10. MergesPair(T, idx, j, at, s)
    BY <1>4, <1>5, <2>4, <2>5, <2>6, <2>8, <2>9 DEF MergesPair
  <2> QED  BY <2>10
<1> QED
  BY <1>8, <1>9

\* Two nodes are merged, and their parent is checked next.
LEMMA MergeLeaves ==
  ASSUME NEW T, NEW h, Good(T, h), MergeNodes
  PROVE  \E U, n, s, i :
           /\ U = T \ {s} /\ s \in T /\ n \in U /\ at' \in U
           /\ Tree(node', U, root, h) /\ AllExact(node', U, root)
           /\ FitsBut(node', U, root, at', 0, 1)
           /\ Parted(node', node, U, at', i, n, s)
<1>1. /\ TooSmall /\ HasParent(at) /\ pc = "lower" /\ at' = Up(node, at)
  BY DEF MergeNodes, TooSmall, Up
<1>2. at # root
  BY <1>1, CheckFacts
<1>3. Tree(node, T, root, h) /\ AllExact(node, T, root) /\ at \in T
  BY <1>1, <1>2, TooSmallFacts
<1>4. PICK p : p = Up(node, at) /\ p \in T /\ ~IsLeaf(node, p)
  BY <1>2, <1>3, TreeUp
<1>5. PICK i, j, n, s : MergesPair(T, i, j, n, s)
  BY MergeNodesPair
<1>6. /\ i \in Slots /\ j \in Slots /\ j = i + 1 /\ j < Width(node, p)
      /\ n = Kid(Row(node, p), i) /\ s = Kid(Row(node, p), j)
      /\ OthersFit(node, T, root, n, s) /\ Mergeable(node, n, s) /\ node' = Merge(node, p, i)
  BY <1>4, <1>5 DEF MergesPair
<1>7. PICK U, H : U = T \ {s} /\ H = Merge(node, p, i)
  OBVIOUS
<1>8. /\ Tree(H, U, root, h) /\ AllExact(H, U, root) /\ FitsBut(H, U, root, p, 0, 1)
      /\ p \in U /\ n \in U /\ s \in T /\ Parted(H, node, U, p, i, n, s)
  BY <1>3, <1>4, <1>6, <1>7, MergeTree
<1> QED
  BY <1>1, <1>4, <1>6, <1>7, <1>8

\* So the invariant holds.
LEMMA MergeNodesGood ==
  ASSUME NEW T, NEW h, Good(T, h), MergeNodes
  PROVE  IInv'
<1>1. /\ TooSmall /\ HasParent(at) /\ pc = "lower"
      /\ UNCHANGED <<root, path, pc, call, leaf, before, delta>>
  BY DEF MergeNodes, TooSmall
<1>2. call.op = "deleteBlock"
  BY <1>1, CheckFacts
<1>3. PICK U : /\ Tree(node', U, root, h) /\ AllExact(node', U, root)
               /\ FitsBut(node', U, root, at', 0, 1) /\ at' \in U
  BY MergeLeaves
<1>4. DOMAIN node \subseteq DOMAIN node'
  BY MergeKeepsNodes DEF MergeNodes
<1> QED
  BY <1>1, <1>2, <1>3, <1>4, NextChecked

-----------------------------------------------------------------------------
(* The inductive invariant, and what follows from it.                      *)

\* A step that changes nothing keeps it.
LEMMA StutterGood ==
  ASSUME IInv, UNCHANGED vars
  PROVE  IInv'
<1>1. PICK T, h : Good(T, h)
  BY DEF IInv
<1>2. /\ node' = node /\ root' = root /\ path' = path /\ pc' = pc /\ call' = call
      /\ at' = at /\ leaf' = leaf /\ before' = before /\ delta' = delta
  BY DEF vars
<1>3. Typed(T)' /\ Shaped(T, h)' /\ Route(T, h)'
  <2>1. Typed(T)'
    BY <1>1, <1>2 DEF Good, Typed
  <2>2. Shaped(T, h)'
    BY <1>1, <1>2 DEF Good, Shaped, Steady, Catching, Checking, Due
  <2>3. Route(T, h)'
    BY <1>1, <1>2 DEF Good, Route, PathUsed, GoingUp, GoingDown, OnTheWay
  <2> QED  BY <2>1, <2>2, <2>3
<1>4. Good(T, h)'
  BY <1>3 DEF Good
<1> QED
  BY <1>4 DEF IInv

\* Every step of a call keeps the invariant.
LEMMA NextGood ==
  ASSUME IInv, Next
  PROVE  IInv'
<1>1. PICK T, h : Good(T, h)
  BY DEF IInv
<1>2. CASE Start
  BY <1>1, <1>2, StartGood
<1>3. CASE Search
  BY <1>1, <1>3, GoUpGood, TurnDownGood, DescendGood DEF Search
<1>4. CASE UseLeaf
  BY <1>1, <1>4, ReadGood, InsertGood, DeleteGood, SetGood DEF UseLeaf
<1>5. CASE Count
  BY <1>1, <1>5, UpdateCountersGood, BlockCountedGood, BitCountedGood DEF Count
<1>6. CASE checkSizeUpper
  <2>1. CASE SpillLeft \/ SpillRight
    BY <1>1, <2>1, SpillLeftRestores, SpillRightRestores, ClearedGood
  <2>2. CASE SplitRoot
    BY <1>1, <2>2, SplitRootRestores, ClearedGood
  <2> QED  BY <1>1, <1>6, <2>1, <2>2, FitsAboveGood, SplitGood DEF checkSizeUpper
<1>7. CASE checkSizeLower
  <2>1. CASE StealFromLeft \/ StealFromRight
    BY <1>1, <2>1, StealFromLeftRestores, StealFromRightRestores, ClearedGood
  <2>2. CASE MergeRoot
    BY <1>1, <2>2, MergeRootRestores, ClearedGood
  <2> QED  BY <1>1, <1>7, <2>1, <2>2, FitsBelowGood, MergeNodesGood DEF checkSizeLower
<1> QED
  BY <1>2, <1>3, <1>4, <1>5, <1>6, <1>7 DEF Next, Run

\* There is always a tree below the root, of all its nodes the only one that may
\* have counters behind it or a size out of bounds is the one the call works on,
\* and the call is on its way to a leaf that holds what it needs.
THEOREM Invariance == Spec => []IInv
<1>1. Init => IInv
  BY InitGood
<1>2. IInv /\ [Next]_vars => IInv'
  BY NextGood, StutterGood
<1> QED
  BY <1>1, <1>2, PTL DEF Spec

\* The nodes of the tree are those that can be reached.
LEMMA GoodLive ==
  ASSUME NEW T, NEW h, Good(T, h)
  PROVE  Live = T /\ Tree(node, T, root, h) /\ root \in T /\ T \subseteq DOMAIN node
<1>1. Tree(node, T, root, h)
  BY DEF Good, Shaped
<1>2. Live = LiveIn(node, root)
  BY DEF Live, LiveIn, ChildrenOf
<1>3. LiveIn(node, root) = T
  BY <1>1, TreeIsLive
<1> QED
  BY <1>1, <1>2, <1>3 DEF Tree, Forest

\* Every node, the path and the local variables have their types: in particular
\* no counter of a node ever becomes negative, whatever is subtracted from it.
THEOREM TypeCorrect == Spec => []TypeOK
<1>1. IInv => TypeOK
  <2> SUFFICES ASSUME IInv PROVE TypeOK
    OBVIOUS
  <2>1. PICK T, h : Good(T, h)
    BY DEF IInv
  <2>2. PICK R, N : Forest(node, T, R, N, h)
    BY <2>1, GoodLive DEF Tree
  <2>3. root \in DOMAIN node /\ T \subseteq DOMAIN node /\ NaturalRows(node, T) /\ Typed(T)
    BY <2>1, GoodLive DEF Good, Shaped
  <2>4. Heap(node)
    BY <2>2 DEF Forest
  <2>5. ASSUME NEW n \in DOMAIN node PROVE node[n] \in Nodes
    <3>1. node[n] \in RoughNodes
      BY <2>4 DEF Heap
    <3>2. Row(node, n) \in [Slots -> Entries]
      <4>1. CASE n \notin T \/ IsLeaf(node, n)
        <5>1. Row(node, n) \in NoChildren
          BY <2>2, <4>1 DEF Forest
        <5>2. [b : Nat, o : Nat, P : {nullptr}] \subseteq Entries
          BY DEF Entries, nullptr
        <5> QED  BY <5>1, <5>2 DEF NoChildren
      <4>2. CASE n \in T /\ ~IsLeaf(node, n)
        BY <2>3, <4>2 DEF NaturalRows, NaturalRow, Entries
      <4> QED  BY <4>1, <4>2
    <3>3. node[n].entries \in [Slots -> Entries]
      BY <3>2 DEF Row
    <3> QED  BY <3>1, <3>3 DEF RoughNodes, Nodes
  <2>6. DOMAIN node \in SUBSET (Nat \ {nullptr})
    BY <2>4 DEF Heap
  <2>7. /\ path \in Seq(Nesbos) /\ pc \in Phases /\ call \in Calls \cup {NoCall}
        /\ at \in DOMAIN node \cup {nullptr} /\ leaf \in DOMAIN node \cup {nullptr}
        /\ before \in [b : Nat, o : Nat]
        /\ delta \in [b : {0, BlockSize, -BlockSize}, o : (-BlockSize)..1]
    BY <2>3 DEF Typed
  <2> QED  BY <2>3, <2>5, <2>6, <2>7 DEF TypeOK, Phases
<1> QED
  BY <1>1, Invariance, PTL

\* Spilling, stealing, splitting and merging leave every node where its parent
\* and its index say, and no pointer beyond the size of a node.
THEOREM TreeLinked == Spec => []Linked
<1>1. IInv => Linked
  <2> SUFFICES ASSUME IInv PROVE Linked
    OBVIOUS
  <2>1. PICK T, h : Good(T, h)
    BY DEF IInv
  <2>2. Live = T /\ Tree(node, T, root, h) /\ root \in T /\ T \subseteq DOMAIN node
    BY <2>1, GoodLive
  <2>3. ~HasParent(root)
    BY <2>2 DEF Tree, HasParent, Up
  <2>4. ASSUME NEW n \in T, ~IsLeaf(node, n), NEW i \in Slots
        PROVE  IF i < Width(node, n)
               THEN /\ Kid(Row(node, n), i) \in DOMAIN node
                    /\ Up(node, Kid(Row(node, n), i)) = n
                    /\ Index(node, Kid(Row(node, n), i)) = i
               ELSE Slot(Row(node, n), i) = EmptyEntry
    BY <2>2, <2>4, TreeKid
  <2> QED  BY <2>2, <2>3, <2>4 DEF Linked, IsLeaf, Width, Kid, Row, Slot, Up, Index
<1> QED
  BY <1>1, Invariance, PTL

\* The counters of every entry are the bits and ones of its child, but for the
\* one that updateCounters is about to reach.
THEOREM TreeCountersCurrent == Spec => []CountersCurrent
<1>1. IInv => CountersCurrent
  <2> SUFFICES ASSUME IInv PROVE CountersCurrent
    OBVIOUS
  <2>1. PICK T, h : Good(T, h)
    BY DEF IInv
  <2>2. Live = T /\ Tree(node, T, root, h)
    BY <2>1, GoodLive
  <2>3. ASSUME NEW c \in T, c # root
        PROVE  /\ Bits(node, c) = Entry(node, c).b + Pending(c).b
               /\ OnesAt(node, c) = Entry(node, c).o + Pending(c).o
    <3>1. Entry(node, c).b \in Int /\ Entry(node, c).o \in Int
      BY <2>2, <2>3, TreeUp
    <3>2. CASE pc = "count" /\ c = at
      <4>1. Behind(node, c, delta)
        BY <2>1, <2>3, <3>2 DEF Good, Shaped, Catching, Counting
      <4> QED  BY <3>2, <4>1 DEF Behind, Pending
    <3>3. CASE ~(pc = "count" /\ c = at)
      <4>1. Exact(node, c)
        <5>1. CASE pc = "count"
          BY <2>1, <2>3, <3>3, <5>1 DEF Good, Shaped, Catching, Counting
        <5>2. CASE pc # "count"
          BY <2>1, <2>3, <5>2 DEF Good, Typed, Phases, Shaped, Steady, Checking, AllExact
        <5> QED  BY <5>1, <5>2
      <4>2. Pending(c) = NoDelta
        BY <3>3 DEF Pending
      <4> QED  BY <3>1, <4>1, <4>2 DEF Exact, NoDelta
    <3> QED  BY <3>2, <3>3
  <2>4. ASSUME NEW n \in T, ~IsLeaf(node, n), NEW i \in 0..(Width(node, n) - 1)
        PROVE  LET entry == Slot(Row(node, n), i)
               IN  /\ Bits(node, entry.P) = entry.b + Pending(entry.P).b
                   /\ OnesAt(node, entry.P) = entry.o + Pending(entry.P).o
    <3>1. Width(node, n) \in 0..(NodeSizeMax + 1)
      BY <2>2, ForestFields DEF Tree
    <3>2. i \in Slots /\ i < Width(node, n)
      BY <2>4, <3>1, SizesAssumption DEF Slots
    <3>3. PICK c : c = Kid(Row(node, n), i)
      OBVIOUS
    <3>4. c \in T /\ c # root /\ Entry(node, c) = Slot(Row(node, n), i)
      BY <2>2, <2>4, <3>2, <3>3, TreeKid
    <3>5. c = Slot(Row(node, n), i).P
      BY <3>3 DEF Kid, Slot
    <3> QED  BY <2>3, <3>4, <3>5
  <2> QED  BY <2>2, <2>4 DEF CountersCurrent, IsLeaf, Width, Slot, Row, Bits, OnesAt
<1> QED
  BY <1>1, Invariance, PTL

\* No node has more or fewer children or blocks than the source allows, but for
\* one block or child while checkSizeUpper or checkSizeLower is on its way.
THEOREM TreeSizesInBounds == Spec => []SizesInBounds
<1>1. IInv => SizesInBounds
  <2> SUFFICES ASSUME IInv PROVE SizesInBounds
    OBVIOUS
  <2>1. PICK T, h : Good(T, h)
    BY DEF IInv
  <2>2. Live = T /\ Tree(node, T, root, h) /\ AllWhole(node, T)
    BY <2>1, GoodLive DEF Tree
  <2>3. ASSUME NEW n \in T
        PROVE  Fits(node, root, n, Slack(n, "insertBlock"), Slack(n, "deleteBlock"))
    <3>1. CASE pc \in {"idle", "up", "down"}
      <4>1. Slack(n, "insertBlock") = 0 /\ Slack(n, "deleteBlock") = 0
        BY <3>1 DEF Slack
      <4>2. Fits(node, root, n, 0, 0)
        BY <2>1, <3>1 DEF Good, Shaped, Steady, AllFit
      <4> QED  BY <4>1, <4>2
    <3>2. CASE pc = "count"
      <4>1. FitsBut(node, T, root, leaf, Due("insertBlock"), Due("deleteBlock"))
        BY <2>1, <3>2 DEF Good, Shaped, Catching
      <4>2. CASE n = leaf
        <5>1. /\ Slack(n, "insertBlock") = Due("insertBlock")
              /\ Slack(n, "deleteBlock") = Due("deleteBlock")
          BY <3>2, <4>2 DEF Slack, Due
        <5> QED  BY <4>1, <4>2, <5>1 DEF FitsBut
      <4>3. CASE n # leaf
        <5>1. Slack(n, "insertBlock") = 0 /\ Slack(n, "deleteBlock") = 0
          BY <3>2, <4>3 DEF Slack
        <5> QED  BY <4>1, <4>3, <5>1 DEF FitsBut
      <4> QED  BY <4>2, <4>3
    <3>3. CASE pc \in {"upper", "lower"}
      <4>1. PICK up, down : /\ FitsBut(node, T, root, at, up, down)
                            /\ up = Due("insertBlock") /\ down = Due("deleteBlock")
        BY <2>1, <3>3 DEF Good, Shaped, Checking, Due
      <4>2. CASE n = at
        <5>1. /\ Slack(n, "insertBlock") = Due("insertBlock")
              /\ Slack(n, "deleteBlock") = Due("deleteBlock")
          BY <3>3, <4>2 DEF Slack, Due
        <5> QED  BY <4>1, <4>2, <5>1 DEF FitsBut
      <4>3. CASE n # at
        <5>1. Slack(n, "insertBlock") = 0 /\ Slack(n, "deleteBlock") = 0
          BY <3>3, <4>3 DEF Slack
        <5> QED  BY <4>1, <4>3, <5>1 DEF FitsBut
      <4> QED  BY <4>2, <4>3
    <3> QED  BY <2>1, <3>1, <3>2, <3>3 DEF Good, Typed, Phases
  <2>4. ASSUME NEW n \in T
        PROVE  /\ size(node[n]) = SizeOf(node, n) /\ SizeMax(n) = MaxOf(node, n)
               /\ SizeMin(n) = MinOf(node, n) /\ Len(node[n].bv) % BlockSize = 0
    BY <2>2 DEF SizeOf, SizeMax, SizeMin, MaxOf, MinOf, IsLeaf, AllWhole, Bv, Whole
  <2> QED  BY <2>2, <2>3, <2>4 DEF SizesInBounds, Fits, IsLeaf
<1> QED
  BY <1>1, Invariance, PTL

\* The path the caller keeps from call to call is that of the tree as it is now,
\* whatever was inserted, deleted or set since it was made.
THEOREM TreePathCurrent == Spec => []PathCurrent
<1>1. IInv => PathCurrent
  <2> SUFFICES ASSUME IInv, PathUsed PROVE PathCurrent
    BY DEF PathCurrent
  <2>1. PICK T, h : Good(T, h)
    BY DEF IInv
  <2>2. /\ PathIn(node, T, root, h, path) /\ Tree(node, T, root, h)
        /\ (pc = "idle" /\ path # <<>> => IsLeaf(node, EndOf(node, root, path)))
        /\ (pc = "down" => GoingDown(T))
    BY <2>1 DEF Good, Shaped, Route
  <2>3. path \in Seq(Nesbos) /\ DOMAIN path = 1..Len(path) /\ Len(path) \in Nat
    BY <2>2, LenProperties DEF PathIn
  <2>4. ASSUME NEW i \in 1..Len(path)
        PROVE  Leads(node, T, path[i], StopAt(node, root, path, i), SumsAbove(path, i))
    BY <2>2 DEF PathIn
  <2>5. path # <<>> => path[1].node = root
    <3>1. ASSUME path # <<>> PROVE path[1].node = root
      <4>1. 1 \in 1..Len(path)
        BY <2>3, <3>1, EmptySeq
      <4> QED  BY <2>4, <4>1 DEF Leads, StopAt
    <3> QED  BY <3>1
  <2>6. ASSUME NEW i \in DOMAIN path
        PROVE  LET x == node[path[i].node]
                   above == IF i = 1 THEN [b |-> 0, o |-> 0]
                            ELSE [b |-> path[i - 1].bitsBefore, o |-> path[i - 1].onesBefore]
               IN  /\ path[i].index < x.size
                   /\ path[i].size = x.entries[path[i].index].b
                   /\ path[i].bitsBefore = above.b + BitsBelow(x, path[i].index)
                   /\ path[i].onesBefore = above.o + OnesBelow(x, path[i].index)
                   /\ i < Len(path) => path[i + 1].node = x.entries[path[i].index].P
    <3>1. PICK m, k, stop, above :
            /\ m = path[i].node /\ k = path[i].index /\ above = SumsAbove(path, i)
            /\ stop = StopAt(node, root, path, i)
      OBVIOUS
    <3>2. /\ k < Width(node, m) /\ path[i].size = Slot(Row(node, m), k).b
          /\ path[i].bitsBefore = above.b + SumBelow(Bs(Row(node, m)), k)
          /\ path[i].onesBefore = above.o + SumBelow(Os(Row(node, m)), k)
      <4>1. Leads(node, T, path[i], stop, above)
        BY <2>3, <2>4, <3>1
      <4> QED  BY <3>1, <4>1 DEF Leads
    <3>3. /\ BitsBelow(node[m], k) = SumBelow(Bs(Row(node, m)), k)
          /\ OnesBelow(node[m], k) = SumBelow(Os(Row(node, m)), k)
      BY DEF BitsBelow, OnesBelow, Bs, Os, Row
    <3>4. i < Len(path) => path[i + 1].node = Kid(Row(node, m), k)
      <4>1. ASSUME i < Len(path) PROVE path[i + 1].node = Kid(Row(node, m), k)
        <5>1. i + 1 \in 1..Len(path) /\ (i + 1) - 1 = i /\ i + 1 # 1
          BY <2>3, <4>1
        <5>2. path[i + 1].node = StopAt(node, root, path, i + 1)
          BY <2>4, <5>1 DEF Leads
        <5> QED  BY <3>1, <5>1, <5>2 DEF StopAt
      <4> QED  BY <4>1
    <3>5. above = IF i = 1 THEN [b |-> 0, o |-> 0]
                  ELSE [b |-> path[i - 1].bitsBefore, o |-> path[i - 1].onesBefore]
      BY <3>1 DEF SumsAbove, NoDelta
    <3> QED  BY <3>1, <3>2, <3>3, <3>4, <3>5 DEF Width, Slot, Row, Kid
  <2>7. path # <<>> => PathEnd = EndOf(node, root, path)
    BY DEF PathEnd, Top, EndOf, Kid, Row
  <2>8. (pc = "idle" /\ path # <<>>) => node[PathEnd].isLeaf
    BY <2>2, <2>7 DEF IsLeaf
  <2>9. ASSUME pc = "down", path # <<>>
        PROVE  PathEnd = at /\ before = [b |-> Top.bitsBefore, o |-> Top.onesBefore]
    BY <2>2, <2>7, <2>9 DEF GoingDown, SumsOf, Top
  <2> QED  BY <2>5, <2>6, <2>8, <2>9 DEF PathCurrent
<1> QED
  BY <1>1, Invariance, PTL

\* No operation misses the bit or the block it is about: the node the search has
\* reached, in the end the leaf, holds it whole.
THEOREM TreeLeafHoldsPosition == Spec => []LeafHoldsPosition
<1>1. IInv => LeafHoldsPosition
  <2> SUFFICES ASSUME IInv, pc = "down" PROVE LeafHoldsPosition
    BY DEF LeafHoldsPosition
  <2>1. PICK T, h : Good(T, h)
    BY DEF IInv
  <2>2. Suits(call.op, call.n - before.b, Bits(node, at))
    BY <2>1 DEF Good, Route, GoingDown
  <2> QED  BY <2>2 DEF LeafHoldsPosition, Suits, Needed, Bits
<1> QED
  BY <1>1, Invariance, PTL

-----------------------------------------------------------------------------
(* How deep a tree is, and how many steps a call can take.                 *)

DepthStep(heap, U, f) ==
  [n \in U |-> IF heap[n].parent # nullptr THEN 1 + f[heap[n].parent] ELSE 0]
HeightStep(heap, U, f) ==
  [n \in U |-> IF heap[n].isLeaf THEN 0 ELSE 1 + f[heap[n].entries[0].P]]

DepthIn(heap, U) == CHOOSE f : f = DepthStep(heap, U, f)
HeightIn(heap, U) == CHOOSE f : f = HeightStep(heap, U, f)

\* The distances from the root and from the leaves, by the nodes.
LEMMA Distances ==
  /\ DepthOf = DepthIn(node, Live) /\ HeightOf = HeightIn(node, Live)
  /\ DepthOf' = DepthIn(node', Live') /\ HeightOf' = HeightIn(node', Live')
<1>1. DepthOf = DepthIn(node, Live) /\ DepthOf' = DepthIn(node', Live')
  BY Zenon DEF DepthOf, DepthIn, DepthStep, HasParent
<1>2. HeightOf = HeightIn(node, Live) /\ HeightOf' = HeightIn(node', Live')
  BY Zenon DEF HeightOf, HeightIn, HeightStep
<1> QED
  BY <1>1, <1>2

\* Heights in a tree are natural numbers, and the root has the greatest.
LEMMA TreeHeights ==
  ASSUME NEW heap, NEW T, NEW r, NEW h, Tree(heap, T, r, h), NEW m \in T
  PROVE  /\ h[m] \in Nat /\ h[r] \in Nat /\ h[m] <= h[r] /\ h[r] - h[m] \in 0..h[r]
         /\ heap[m].isLeaf <=> h[m] = 0
         /\ heap[m].parent # nullptr => /\ heap[m].parent \in T /\ m # r
                                        /\ h[heap[m].parent] = h[m] + 1
         /\ heap[m].parent = nullptr <=> m = r
<1>1. h[m] \in Nat /\ h[r] \in Nat /\ h[m] <= h[r] /\ (IsLeaf(heap, m) <=> h[m] = 0)
  BY DEF Tree, Forest, Heap, Lower
<1>2. /\ Up(heap, m) = nullptr <=> m = r
      /\ m # r => Up(heap, m) \in T /\ h[Up(heap, m)] = h[m] + 1
  BY TreeUp
<1> QED
  BY <1>1, <1>2 DEF Up, IsLeaf

\* The depth of a node is what its height lacks of that of the root.
LEMMA Depths ==
  ASSUME NEW heap, NEW T, NEW r, NEW h, Tree(heap, T, r, h)
  PROVE  \A m \in T : DepthIn(heap, T)[m] = h[r] - h[m]
<1>1. PICK f : f = [n \in T |-> h[r] - h[n]]
  OBVIOUS
<1>2. f = DepthStep(heap, T, f)
  <2>1. ASSUME NEW n \in T
        PROVE  h[r] - h[n] = IF heap[n].parent # nullptr THEN 1 + f[heap[n].parent] ELSE 0
    BY <1>1, TreeHeights
  <2> QED  BY <1>1, <2>1 DEF DepthStep
<1>3. PICK d : d = DepthIn(heap, T) /\ d = DepthStep(heap, T, d)
  <2>1. DepthIn(heap, T) = DepthStep(heap, T, DepthIn(heap, T))
    BY <1>2, Zenon DEF DepthIn
  <2> QED  BY <2>1
<1>4. \A n \in T : d[n] = IF heap[n].parent # nullptr THEN 1 + d[heap[n].parent] ELSE 0
  BY <1>3 DEF DepthStep
<1>5. h[r] \in Nat /\ r \in T
  BY TreeHeights DEF Tree
<1> DEFINE S == {k \in 0..h[r] : \A n \in T : h[r] - h[n] = k => d[n] = k}
<1>6. 0 \in S
  <2>1. ASSUME NEW n \in T, h[r] - h[n] = 0 PROVE d[n] = 0
    <3>1. h[n] \in Nat /\ h[n] = h[r]
      BY <2>1, TreeHeights
    <3>2. heap[n].parent = nullptr
      BY <1>5, <3>1, TreeHeights
    <3> QED  BY <1>4, <3>2
  <2> QED  BY <1>5, <2>1
<1>7. ASSUME NEW k \in 0..(h[r] - 1), k \in S PROVE k + 1 \in S
  <2>1. ASSUME NEW n \in T, h[r] - h[n] = k + 1 PROVE d[n] = k + 1
    <3>1. n # r
      BY <1>5, <2>1
    <3>2. PICK p \in T : p = heap[n].parent /\ p # nullptr /\ h[r] - h[p] = k
      BY <2>1, <3>1, TreeHeights
    <3>3. d[p] = k
      BY <1>7, <3>2
    <3> QED  BY <1>4, <3>2, <3>3
  <2> QED  BY <1>5, <2>1
<1> HIDE DEF S
<1>8. \A k \in 0..h[r] : k \in S
  BY <1>5, <1>6, <1>7, UpTo
<1>9. ASSUME NEW m \in T PROVE d[m] = h[r] - h[m]
  <2>1. h[r] - h[m] \in 0..h[r]
    BY TreeHeights
  <2> QED  BY <1>8, <2>1 DEF S
<1> QED
  BY <1>3, <1>9

\* A node that is no leaf, and not too small, has a child in slot 0.
LEMMA FirstKid ==
  ASSUME NEW heap, NEW T, NEW r, NEW h, Tree(heap, T, r, h), AllFit(heap, T, r),
         NEW m \in T, ~heap[m].isLeaf
  PROVE  heap[m].entries[0].P \in T /\ h[m] = h[heap[m].entries[0].P] + 1
<1>1. 0 \in Slots /\ ~IsLeaf(heap, m)
  BY SizesAssumption DEF Slots, IsLeaf
<1>2. 0 < Width(heap, m)
  <2>1. Fits(heap, r, m, 0, 0) /\ SizeOf(heap, m) = Width(heap, m)
    BY <1>1 DEF AllFit, SizeOf, size, Width, IsLeaf
  <2>2. SizeOf(heap, m) \in Nat /\ MinOf(heap, m) \in Nat /\ 2 <= MinOf(heap, m)
    BY <1>1, SizeType, Bounds
  <2> QED  BY <1>1, <2>1, <2>2 DEF Fits
<1> QED
  BY <1>1, <1>2, TreeKid DEF Kid, Row

\* The distance from the leaves is the height.
LEMMA Heights ==
  ASSUME NEW heap, NEW T, NEW r, NEW h, Tree(heap, T, r, h), AllFit(heap, T, r)
  PROVE  \A m \in T : HeightIn(heap, T)[m] = h[m]
<1>1. PICK f : f = [n \in T |-> h[n]]
  OBVIOUS
<1>2. f = HeightStep(heap, T, f)
  <2>1. ASSUME NEW n \in T
        PROVE  h[n] = IF heap[n].isLeaf THEN 0 ELSE 1 + f[heap[n].entries[0].P]
    BY <1>1, TreeHeights, FirstKid
  <2> QED  BY <1>1, <2>1 DEF HeightStep
<1>3. PICK d : d = HeightIn(heap, T) /\ d = HeightStep(heap, T, d)
  <2>1. HeightIn(heap, T) = HeightStep(heap, T, HeightIn(heap, T))
    BY <1>2, Zenon DEF HeightIn
  <2> QED  BY <2>1
<1>4. \A n \in T : d[n] = IF heap[n].isLeaf THEN 0 ELSE 1 + d[heap[n].entries[0].P]
  BY <1>3 DEF HeightStep
<1>5. h[r] \in Nat /\ r \in T
  BY TreeHeights DEF Tree
<1> DEFINE S == {k \in 0..h[r] : \A n \in T : h[n] = k => d[n] = k}
<1>6. 0 \in S
  BY <1>4, <1>5, TreeHeights
<1>7. ASSUME NEW k \in 0..(h[r] - 1), k \in S PROVE k + 1 \in S
  <2>1. ASSUME NEW n \in T, h[n] = k + 1 PROVE d[n] = k + 1
    <3>1. ~heap[n].isLeaf
      BY <1>5, <2>1, TreeHeights
    <3>2. PICK p \in T : p = heap[n].entries[0].P /\ h[p] = k
      <4>1. heap[n].entries[0].P \in T /\ h[n] = h[heap[n].entries[0].P] + 1
        BY <3>1, FirstKid
      <4>2. h[heap[n].entries[0].P] \in Nat
        BY <4>1, TreeHeights
      <4> QED  BY <2>1, <4>1, <4>2
    <3>3. d[p] = k
      BY <1>7, <3>2
    <3> QED  BY <1>4, <3>1, <3>2, <3>3
  <2> QED  BY <1>5, <2>1
<1> HIDE DEF S
<1>8. \A k \in 0..h[r] : k \in S
  BY <1>5, <1>6, <1>7, UpTo
<1>9. ASSUME NEW m \in T PROVE d[m] = h[m]
  <2>1. h[m] \in 0..h[r]
    BY TreeHeights
  <2> QED  BY <1>8, <2>1 DEF S
<1> QED
  BY <1>3, <1>9

\* Whatever was split, merged or made a root, all leaves are at the same depth.
THEOREM TreeBalanced == Spec => []Balanced
<1>1. IInv => Balanced
  <2> SUFFICES ASSUME IInv PROVE Balanced
    OBVIOUS
  <2>1. PICK T, h : Good(T, h)
    BY DEF IInv
  <2>2. Live = T /\ Tree(node, T, root, h)
    BY <2>1, GoodLive
  <2>3. PICK depth : depth = DepthOf
    OBVIOUS
  <2>4. \A m \in T : depth[m] = h[root] - h[m]
    BY <2>2, <2>3, Depths, Distances
  <2>5. ASSUME NEW m \in Live, NEW n \in Live, node[m].isLeaf, node[n].isLeaf
        PROVE  depth[m] = depth[n]
    BY <2>2, <2>4, <2>5, TreeHeights
  <2> QED  BY <2>3, <2>5 DEF Balanced
<1> QED
  BY <1>1, Invariance, PTL

\* The next step of a call is of a later phase, or one nearer to the end of its phase.
Advances == \/ Phase' < Phase
            \/ Phase' = Phase /\ StepsLeft' < StepsLeft

\* The phases as numbers.
LEMMA PhaseNumbers ==
  /\ pc = "up" => Phase = 5 /\ StepsLeft = Len(path)
  /\ pc = "down" => Phase = 4 /\ StepsLeft = HeightOf[at]
  /\ pc = "count" => Phase = 3 /\ StepsLeft = DepthOf[at]
  /\ pc = "upper" \/ pc = "lower" => Phase = 2 /\ StepsLeft = DepthOf[at]
  /\ pc = "idle" => Phase = 1
<1>1. pc = "up" => Phase = 5 /\ StepsLeft = Len(path)
  BY DEF Phase, StepsLeft
<1>2. pc = "down" => Phase = 4 /\ StepsLeft = HeightOf[at]
  BY DEF Phase, StepsLeft
<1>3. pc = "count" => Phase = 3 /\ StepsLeft = DepthOf[at]
  BY DEF Phase, StepsLeft
<1>4. pc = "upper" \/ pc = "lower" => Phase = 2 /\ StepsLeft = DepthOf[at]
  BY DEF Phase, StepsLeft
<1>5. pc = "idle" => Phase = 1
  BY DEF Phase
<1> QED
  BY <1>1, <1>2, <1>3, <1>4, <1>5

\* The same after a step.
LEMMA PhaseNumbersNext ==
  /\ pc' = "up" => Phase' = 5 /\ StepsLeft' = Len(path')
  /\ pc' = "down" => Phase' = 4 /\ StepsLeft' = HeightOf'[at']
  /\ pc' = "count" => Phase' = 3 /\ StepsLeft' = DepthOf'[at']
  /\ pc' = "upper" \/ pc' = "lower" => Phase' = 2 /\ StepsLeft' = DepthOf'[at']
  /\ pc' = "idle" => Phase' = 1
<1>1. pc' = "up" => Phase' = 5 /\ StepsLeft' = Len(path')
  BY DEF Phase, StepsLeft
<1>2. pc' = "down" => Phase' = 4 /\ StepsLeft' = HeightOf'[at']
  BY DEF Phase, StepsLeft
<1>3. pc' = "count" => Phase' = 3 /\ StepsLeft' = DepthOf'[at']
  BY DEF Phase, StepsLeft
<1>4. pc' = "upper" \/ pc' = "lower" => Phase' = 2 /\ StepsLeft' = DepthOf'[at']
  BY DEF Phase, StepsLeft
<1>5. pc' = "idle" => Phase' = 1
  BY DEF Phase
<1> QED
  BY <1>1, <1>2, <1>3, <1>4, <1>5

\* The search goes up the path, turns, and goes down the tree.
LEMMA SearchAdvances ==
  ASSUME NEW T, NEW h, Good(T, h), Search
  PROVE  Advances
<1>1. CASE GoUp
  <2>1. /\ pc = "up" /\ path # <<>> /\ path \in Seq(Nesbos)
        /\ path' = SubSeq(path, 1, Len(path) - 1) /\ pc' \in {"up", "down"}
    BY <1>1 DEF GoUp, Good, Typed, Route, GoingUp
  <2>2. Len(path) \in Nat /\ Len(path) >= 1 /\ Len(path') = Len(path) - 1
    <3>1. Len(path) \in Nat /\ Len(path) >= 1
      BY <2>1, LenProperties, EmptySeq
    <3>2. PICK q : q = SubSeq(path, 1, Len(path) - 1)
      OBVIOUS
    <3>3. PICK k \in Nat : k = Len(path) - 1
      BY <3>1
    <3>4. Len(q) = k
      BY <2>1, <3>1, <3>2, <3>3, SubSeqProperties
    <3> QED  BY <2>1, <3>1, <3>2, <3>3, <3>4
  <2> QED  BY <2>1, <2>2, PhaseNumbers, PhaseNumbersNext DEF Advances
<1>2. CASE TurnDown
  <2>1. pc = "up" /\ pc' = "down"
    BY <1>2 DEF TurnDown
  <2> QED  BY <2>1, PhaseNumbers, PhaseNumbersNext DEF Advances
<1>3. CASE Descend
  <2>1. pc = "down" /\ pc' = "down" /\ ~IsLeaf(node, at) /\ UNCHANGED <<node, root>>
    BY <1>3 DEF Descend, IsLeaf
  <2>2. /\ Tree(node, T, root, h) /\ AllFit(node, T, root) /\ at \in T /\ Live = T
    BY <2>1, SteadyTree, GoodLive DEF Good, Route, GoingDown
  <2>3. PICK i \in Slots : i \in 0..(node[at].size - 1) /\ at' = node[at].entries[i].P
    BY <1>3 DEF Descend, FindChild
  <2>4. at' \in T /\ h[at] = h[at'] + 1
    <3>1. Width(node, at) \in 0..(NodeSizeMax + 1)
      BY <2>2, ForestFields DEF Tree
    <3>2. i < Width(node, at) /\ at' = Kid(Row(node, at), i)
      BY <2>3, <3>1 DEF Width, Kid, Row, Slots
    <3> QED  BY <2>1, <2>2, <3>2, TreeKid
  <2>5. HeightOf[at] = h[at]
    BY <2>2, Heights, Distances
  <2>6. HeightOf'[at'] = h[at']
    <3>1. Live' = T
      BY <2>1, <2>2 DEF Live, ChildrenOf
    <3>2. HeightOf' = HeightIn(node, T)
      BY <2>1, <3>1, Distances
    <3> QED  BY <2>2, <2>4, <3>2, Heights
  <2>7. h[at'] \in Nat
    BY <2>2, <2>4, TreeHeights
  <2> QED  BY <2>1, <2>4, <2>5, <2>6, <2>7, PhaseNumbers, PhaseNumbersNext DEF Advances
<1> QED
  BY <1>1, <1>2, <1>3 DEF Search

\* A node that is followed by its parent, in a tree where the parent is as deep as before.
LEMMA UpAdvances ==
  ASSUME NEW T, NEW h, Good(T, h), at \in T, at # root, at' = Up(node, at),
         NEW U, NEW g, Tree(node', U, root', g), at' \in U,
         g[root'] = h[root], g[at'] = h[at']
  PROVE  DepthOf'[at'] < DepthOf[at]
<1>1. Live = T /\ Tree(node, T, root, h)
  BY GoodLive
<1>2. Live' = U
  BY TreeIsLive DEF Live, LiveIn, ChildrenOf
<1>3. DepthOf[at] = h[root] - h[at]
  BY <1>1, Depths, Distances
<1>4. DepthOf'[at'] = g[root'] - g[at']
  BY <1>2, Depths, Distances
<1>5. h[at'] = h[at] + 1 /\ h[at] \in Nat /\ h[root] \in Nat
  BY <1>1, TreeHeights, TreeUp
<1> QED
  BY <1>3, <1>4, <1>5

\* The counters and the sizes are brought in order from the leaf upwards.
LEMMA UpwardsAdvances ==
  ASSUME NEW T, NEW h, Good(T, h), UpdateCounters \/ Split \/ MergeNodes
  PROVE  Advances
<1>1. Live = T /\ Tree(node, T, root, h) /\ root \in T
  BY GoodLive
<1>2. /\ pc \in {"count", "upper", "lower"} /\ pc' = pc /\ HasParent(at)
      /\ at' = Up(node, at) /\ root' = root
  BY DEF UpdateCounters, Split, MergeNodes, TooLarge, TooSmall, Up
<1>3. at \in T /\ at # root
  BY <1>2, CountFacts, CheckFacts
<1>4. \E U, g : /\ Tree(node', U, root', g) /\ at' \in U
                /\ g[root'] = h[root] /\ g[at'] = h[at']
  <2>1. CASE UpdateCounters
    <3>1. /\ pc = "count" /\ NaturalRows(node, T) /\ delta \in Changes
          /\ Counting(node, T, root, at, delta)
      BY <2>1, CountFacts DEF UpdateCounters
    <3>2. node' = CountUp(node, at, delta)
      BY <2>1 DEF UpdateCounters, CountUp, Up, Index
    <3>3. Tree(node', T, root, h)
      BY <1>1, <1>3, <3>1, <3>2, CountTree
    <3>4. at' \in T
      BY <1>1, <1>2, <1>3, TreeUp
    <3> QED  BY <1>2, <3>3, <3>4
  <2>2. CASE Split
    <3>1. PICK new, U, g, i :
            /\ U = T \cup {new} /\ at' \in T /\ Tree(node', U, root, g)
            /\ at' \in U /\ \A m \in T : g[m] = h[m]
      BY <2>2, SplitLeaves
    <3> QED  BY <1>1, <1>2, <3>1
  <2>3. CASE MergeNodes
    BY <1>2, <2>3, MergeLeaves
  <2> QED  BY <2>1, <2>2, <2>3
<1>5. DepthOf'[at'] < DepthOf[at]
  BY <1>2, <1>3, <1>4, UpAdvances
<1> QED
  BY <1>2, <1>5, PhaseNumbers, PhaseNumbersNext DEF Advances

\* All other steps go to a later phase.
LEMMA LaterPhase ==
  ASSUME NEW T, NEW h, Good(T, h), pc # "idle",
         \/ UseLeaf \/ BlockCounted \/ BitCounted \/ FitsAbove \/ SpillLeft \/ SpillRight
         \/ SplitRoot \/ FitsBelow \/ StealFromLeft \/ StealFromRight \/ MergeRoot
  PROVE  Advances
<1>1. \/ pc = "down" /\ pc' \in {"count", "idle"}
      \/ pc = "count" /\ pc' \in {"upper", "lower", "idle"}
      \/ pc \in {"upper", "lower"} /\ pc' = "idle"
  <2>1. CASE UseLeaf
    BY <2>1 DEF UseLeaf, AccessLeaf, RankLeaf, InsertInLeaf, DeleteInLeaf, SetLeavesBit,
                SetInLeaf, AtLeaf, Answer, Return, Update
  <2>2. CASE BlockCounted \/ BitCounted
    BY <2>2 DEF BlockCounted, BitCounted, Return
  <2>3. CASE FitsAbove \/ SpillLeft \/ SpillRight \/ SplitRoot
    BY <2>3 DEF FitsAbove, SpillLeft, SpillRight, SplitRoot, TooLarge, ReturnRoot, Return
  <2>4. CASE FitsBelow \/ StealFromLeft \/ StealFromRight \/ MergeRoot
    BY <2>4 DEF FitsBelow, StealFromLeft, StealFromRight, MergeRoot, TooSmall, ReturnRoot,
                Return
  <2> QED  BY <2>1, <2>2, <2>3, <2>4
<1> QED
  BY <1>1, PhaseNumbers, PhaseNumbersNext DEF Advances

\* No call runs for ever: each of its steps goes to a later phase or, in the same phase, up
\* a path or a tree, or down a tree, of which each is finite.
THEOREM TreeCallsAdvance == Spec => CallsAdvance
<1>1. IInv /\ [Next]_vars => [pc # "idle" => Advances]_vars
  <2> SUFFICES ASSUME IInv, Next, pc # "idle" PROVE Advances
    OBVIOUS
  <2>1. PICK T, h : Good(T, h)
    BY DEF IInv
  <2>2. ~Start
    BY DEF Start, insertBlock, deleteBlock, setBit, access, rank1, Ask, Begin
  <2>3. CASE Search
    BY <2>1, <2>3, SearchAdvances
  <2>4. CASE UpdateCounters \/ Split \/ MergeNodes
    BY <2>1, <2>4, UpwardsAdvances
  <2>5. CASE \/ UseLeaf \/ BlockCounted \/ BitCounted \/ FitsAbove \/ SpillLeft \/ SpillRight
             \/ SplitRoot \/ FitsBelow \/ StealFromLeft \/ StealFromRight \/ MergeRoot
    BY <2>1, <2>5, LaterPhase
  <2> QED  BY <2>2, <2>3, <2>4, <2>5 DEF Next, Run, Count, checkSizeUpper, checkSizeLower
<1>2. Spec => [][pc # "idle" => Advances]_vars
  BY <1>1, Invariance, PTL DEF Spec
<1> QED
  BY <1>2 DEF CallsAdvance, Advances
=============================================================================
