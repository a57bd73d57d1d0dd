---------------------------- MODULE TTreeSplits ----------------------------
(***************************************************************************)
(* What splitting and merging nodes does to a tree: nodes are allocated,   *)
(* and rows of entries are cut in two or joined.                           *)
(***************************************************************************)
EXTENDS TTreeHeaps

\* The row of n is new, and the children in it have their place.
Placed(heap, H, T, R, n, row, len) ==
  /\ Keeps(heap, H, n) /\ Width(H, n) = len /\ Row(H, n) = row
  /\ \A m \in DOMAIN heap : /\ Up(H, m) = Up(heap, m)
                            /\ m \notin FirstKids(row, len) => Index(H, m) = Index(heap, m)
  /\ \A m \in T \ R : Entry(H, m) = Entry(heap, m)

\* What Place does, in short.
LEMMA PlacedForest ==
  ASSUME NEW heap, NEW T, NEW R, NEW N, NEW h, Forest(heap, T, R, N, h),
         NEW n \in T, n \in N, ~IsLeaf(heap, n),
         NEW row, NEW len, NEW moved, Fills(heap, h, R, n, row, len, moved),
         NEW S, S = R \ FirstKids(row, len), NEW M, M = N \ {n}
  PROVE  LET H == Place(heap, n, row, len, moved)
         IN  Forest(H, T, S, M, h) /\ Placed(heap, H, T, R, n, row, len)
<1> DEFINE H == Place(heap, n, row, len, moved)
<1>1. /\ Forest(H, T, S, M, h)
      /\ Keeps(heap, H, n) /\ Width(H, n) = len /\ Row(H, n) = row
      /\ \A m \in DOMAIN heap : Up(H, m) = Up(heap, m)
      /\ \A m \in DOMAIN heap \ FirstKids(row, len) : Index(H, m) = Index(heap, m)
      /\ \A m \in T \ R : Entry(H, m) = Entry(heap, m)
  BY PlaceForest
<1> HIDE DEF H
<1> QED
  BY <1>1 DEF H, Placed

\* The entries of the slots of D point to roots.
AtRoots(row, D, R) == \A i \in D : Kid(row, i) \in R

\* AdoptAll gives roots another parent.
LEMMA AdoptAllForest ==
  ASSUME NEW heap, NEW T, NEW R, NEW N, NEW h, Forest(heap, T, R, N, h),
         NEW row \in Rows, NEW D \in SUBSET Slots, AtRoots(row, D, R), NEW p \in Nat
  PROVE  LET H == AdoptAll(heap, row, D, p)
         IN  /\ Forest(H, T, R, N, h) /\ DOMAIN H = DOMAIN heap
             /\ \A m \in DOMAIN heap :
                  /\ Up(H, m) = IF \E i \in D : Kid(row, i) = m THEN p ELSE Up(heap, m)
                  /\ Index(H, m) = Index(heap, m) /\ IsLeaf(H, m) = IsLeaf(heap, m)
                  /\ Bv(H, m) = Bv(heap, m)
                  /\ Width(H, m) = Width(heap, m) /\ Row(H, m) = Row(heap, m)
             /\ \A m \in T \ R : Entry(H, m) = Entry(heap, m)
             /\ \A m \in T : Bits(H, m) = Bits(heap, m) /\ OnesAt(H, m) = OnesAt(heap, m)
<1> DEFINE H == AdoptAll(heap, row, D, p)
<1>1. /\ Heap(heap) /\ T \subseteq DOMAIN heap /\ R \subseteq T
      /\ heap \in [DOMAIN heap -> RoughNodes]
  BY DEF Forest, Heap
<1>2. H = [m \in DOMAIN heap |-> IF \E i \in D : Kid(row, i) = m
                                 THEN [heap[m] EXCEPT !.parent = p] ELSE heap[m]]
  BY DEF AdoptAll, Kid
<1> HIDE DEF H
<1>3. ASSUME NEW m \in DOMAIN heap
      PROVE  /\ H[m] \in RoughNodes
             /\ Up(H, m) = IF \E i \in D : Kid(row, i) = m THEN p ELSE Up(heap, m)
             /\ Index(H, m) = Index(heap, m) /\ IsLeaf(H, m) = IsLeaf(heap, m)
             /\ Bv(H, m) = Bv(heap, m)
             /\ Width(H, m) = Width(heap, m) /\ Row(H, m) = Row(heap, m)
  <2>1. heap[m] \in RoughNodes
    BY <1>1
  <2>2. CASE \E i \in D : Kid(row, i) = m
    <3>1. H[m] = [heap[m] EXCEPT !.parent = p]
      BY <1>2, <2>2
    <3> QED  BY <2>1, <2>2, <3>1 DEF RoughNodes, Up, Index, IsLeaf, Bv, Width, Row
  <2>3. CASE ~\E i \in D : Kid(row, i) = m
    <3>1. H[m] = heap[m]
      BY <1>2, <2>3
    <3> QED  BY <2>1, <2>3, <3>1 DEF Up, Index, IsLeaf, Bv, Width, Row
  <2> QED  BY <2>2, <2>3
<1>4. Heap(H) /\ DOMAIN H = DOMAIN heap
  BY <1>1, <1>2, <1>3 DEF Heap
<1>5. ASSUME NEW m \in T \ R PROVE Up(H, m) = Up(heap, m)
  BY <1>1, <1>3 DEF AtRoots
<1>6. ASSUME NEW n \in T, NEW i, NEW m \in T \ R, Points(heap, h, n, i, m)
      PROVE  Points(H, h, n, i, m)
  BY <1>1, <1>3, <1>5, <1>6 DEF Points
<1>7. ASSUME NEW n \in T \ N, ~IsLeaf(H, n) PROVE Rooted(H, h, T \ R, n)
  <2>1. n \in DOMAIN heap /\ Rooted(heap, h, T \ R, n)
    BY <1>1, <1>3, <1>7 DEF Forest
  <2> QED  BY <1>3, <1>6, <2>1 DEF Rooted
<1>8. ASSUME NEW m \in T \ R
      PROVE  /\ Hangs(H, h, T \ N, m) /\ Up(H, m) = Up(heap, m) /\ Index(H, m) = Index(heap, m)
             /\ Up(heap, m) \in DOMAIN heap
  <2>1. m \in DOMAIN heap /\ Hangs(heap, h, T \ N, m)
    BY <1>1 DEF Forest
  <2> QED  BY <1>1, <1>3, <1>5, <1>6, <2>1 DEF Hangs
<1>9. Forest(H, T, R, N, h)
  <2>1. /\ R \subseteq T /\ h \in [Nat -> Nat] /\ \A m \in T : IsLeaf(H, m) <=> h[m] = 0
        /\ \A m \in DOMAIN H : m \notin T \/ IsLeaf(H, m) => Row(H, m) \in NoChildren
    BY <1>1, <1>3, <1>4 DEF Forest
  <2> QED  BY <1>1, <1>4, <1>7, <1>8, <2>1 DEF Forest
<1>10. \A m \in T \ R : Entry(H, m) = Entry(heap, m)
  BY <1>3, <1>8 DEF Entry
<1>11. \A m \in T : Bits(H, m) = Bits(heap, m) /\ OnesAt(H, m) = OnesAt(heap, m)
  BY <1>1, <1>3, SameAmounts
<1> QED
  BY <1>3, <1>4, <1>9, <1>10, <1>11 DEF H

\* The height of a node that is allocated.
Raised(h, n, k) == [h EXCEPT ![n] = k]

\* A leaf, or a node above the leaves, that may be allocated.
Allocatable(new, k) ==
  /\ new \in RoughNodes /\ (new.isLeaf <=> k = 0)
  /\ new.isLeaf => new.entries \in NoChildren

\* Its entries are left out of account, if it has any.
Awaits(N, M, n, k) == N \subseteq M /\ M \subseteq N \cup {n} /\ (k = 0 \/ n \in M)

\* The heap has one more node.
Grown(heap, H, T, R, n, new) ==
  /\ DOMAIN H = DOMAIN heap \cup {n}
  /\ IsLeaf(H, n) = new.isLeaf /\ Bv(H, n) = new.bv /\ Width(H, n) = new.size
  /\ Row(H, n) = new.entries /\ Up(H, n) = new.parent
  /\ \A m \in DOMAIN heap :
       /\ IsLeaf(H, m) = IsLeaf(heap, m) /\ Bv(H, m) = Bv(heap, m)
       /\ Width(H, m) = Width(heap, m) /\ Row(H, m) = Row(heap, m)
       /\ Up(H, m) = Up(heap, m) /\ Index(H, m) = Index(heap, m)
  /\ \A m \in T : Bits(H, m) = Bits(heap, m) /\ OnesAt(H, m) = OnesAt(heap, m)
  /\ \A m \in T \ R : Entry(H, m) = Entry(heap, m)

\* A node that is allocated is another root; the entries of one that is not a
\* leaf say nothing yet.
LEMMA AllocateForest ==
  ASSUME NEW heap, NEW T, NEW R, NEW N, NEW h, Forest(heap, T, R, N, h),
         NEW n \in Nat \ {nullptr}, n \notin DOMAIN heap,
         NEW new, NEW k \in Nat, Allocatable(new, k),
         NEW U, U = T \cup {n}, NEW S, S = R \cup {n}, NEW g, g = Raised(h, n, k),
         NEW M, Awaits(N, M, n, k)
  PROVE  LET H == Allocate(heap, n, new)
         IN  Forest(H, U, S, M, g) /\ Grown(heap, H, T, R, n, new)
<1> DEFINE H == Allocate(heap, n, new)
<1> USE DEF Allocatable, Awaits
<1>1. Heap(heap) /\ T \subseteq DOMAIN heap /\ R \subseteq T /\ n \notin T /\ DOMAIN heap \subseteq Nat
  BY DEF Forest, Heap
<1>2. /\ Heap(H) /\ DOMAIN H = DOMAIN heap \cup {n}
      /\ IsLeaf(H, n) = new.isLeaf /\ Bv(H, n) = new.bv /\ Width(H, n) = new.size
      /\ Row(H, n) = new.entries /\ Up(H, n) = new.parent
      /\ \A m \in DOMAIN heap :
           /\ IsLeaf(H, m) = IsLeaf(heap, m) /\ Bv(H, m) = Bv(heap, m)
           /\ Width(H, m) = Width(heap, m) /\ Row(H, m) = Row(heap, m)
           /\ Up(H, m) = Up(heap, m) /\ Index(H, m) = Index(heap, m)
  BY <1>1, AllocateFields
<1> HIDE DEF H
<1>3. /\ g \in [Nat -> Nat] /\ g[n] = k /\ \A m \in T : g[m] = h[m]
  BY <1>1 DEF Forest, Raised
<1>4. U \ S = T \ R /\ T \ N \subseteq U \ M
  BY <1>1
<1>5. ASSUME NEW m \in T, NEW i, NEW c \in T \ R, Points(heap, h, m, i, c)
      PROVE  Points(H, g, m, i, c)
  BY <1>1, <1>2, <1>3, <1>5 DEF Points
<1>6. ASSUME NEW m \in U \ M, ~IsLeaf(H, m) PROVE Rooted(H, g, U \ S, m)
  <2>1. m \in T \ N /\ m \in DOMAIN heap
    BY <1>1, <1>2, <1>6
  <2>2. Rooted(heap, h, T \ R, m)
    BY <1>2, <1>6, <2>1 DEF Forest
  <2> QED  BY <1>2, <1>4, <1>5, <2>1, <2>2 DEF Rooted
<1>7. ASSUME NEW m \in T \ R
      PROVE  /\ Hangs(H, g, U \ M, m) /\ Entry(H, m) = Entry(heap, m)
  <2>1. m \in DOMAIN heap /\ Hangs(heap, h, T \ N, m) /\ Up(heap, m) \in DOMAIN heap
    BY <1>1 DEF Forest, Hangs
  <2> QED  BY <1>1, <1>2, <1>4, <1>5, <2>1 DEF Hangs, Entry
<1>8. Forest(H, U, S, M, g)
  <2>1. /\ U \subseteq DOMAIN H /\ S \subseteq U
        /\ \A m \in U : IsLeaf(H, m) <=> g[m] = 0
    BY <1>1, <1>2, <1>3 DEF Forest
  <2>2. \A m \in DOMAIN H : m \notin U \/ IsLeaf(H, m) => Row(H, m) \in NoChildren
    BY <1>1, <1>2 DEF Forest
  <2> QED  BY <1>2, <1>3, <1>4, <1>6, <1>7, <2>1, <2>2 DEF Forest
<1>9. \A m \in T : Bits(H, m) = Bits(heap, m) /\ OnesAt(H, m) = OnesAt(heap, m)
  BY <1>1, <1>2, SameAmounts
<1> QED
  BY <1>2, <1>7, <1>8, <1>9 DEF H, Grown

-----------------------------------------------------------------------------
(* Rows cut in two, and joined.                                            *)

\* What the halves of a row are.
LEMMA HalvedRows ==
  ASSUME NEW old \in Rows, NEW len \in 0..(NodeSizeMax + 1), NEW mid \in 0..len,
         Ends(old, len)
  PROVE  LET lower == LowerHalf(old, len, mid)
             upper == UpperHalf(old, len, mid)
         IN  /\ lower \in Rows /\ Ends(lower, mid) /\ Carries(lower, 0, mid, old, 0)
             /\ upper \in Rows /\ Ends(upper, len - mid)
             /\ Carries(upper, 0, len - mid, old, mid)
             /\ Total(Bs(lower)) + Total(Bs(upper)) = Total(Bs(old))
             /\ Total(Os(lower)) + Total(Os(upper)) = Total(Os(old))
<1> DEFINE lower == LowerHalf(old, len, mid)
           upper == UpperHalf(old, len, mid)
<1>1. /\ EmptyEntry \in [b : Int, o : Int, P : Nat] /\ len \in Nat /\ mid \in Nat /\ mid <= len
      /\ EmptyEntry.b = 0 /\ EmptyEntry.o = 0
      /\ \A i \in Slots : i \in Nat /\ (mid + i < len => mid + i \in Slots)
  BY SizesAssumption DEF EmptyEntry, nullptr, Slots
<1>2. lower \in Rows
  BY <1>1 DEF LowerHalf, Rows
<1>3. upper \in Rows
  BY <1>1 DEF UpperHalf, Rows
<1>4. \A i \in Slots : /\ Slot(lower, i) = IF i < mid \/ i >= len THEN Slot(old, i) ELSE EmptyEntry
                       /\ Slot(upper, i) = IF mid + i < len THEN Slot(old, mid + i) ELSE EmptyEntry
  BY DEF LowerHalf, UpperHalf, Slot
<1> HIDE DEF lower, upper
<1>5. Ends(lower, mid) /\ Ends(upper, len - mid)
  <2>1. ASSUME NEW i \in Slots, ~(i < mid) PROVE Slot(lower, i) = EmptyEntry
    BY <1>1, <1>4, <2>1 DEF Ends
  <2>2. ASSUME NEW i \in Slots, ~(i < len - mid) PROVE Slot(upper, i) = EmptyEntry
    BY <1>1, <1>4, <2>2
  <2> QED  BY <2>1, <2>2 DEF Ends
<1>6. Carries(lower, 0, mid, old, 0)
  <2>1. ASSUME NEW i \in Slots, i < mid
        PROVE  (i - 0) + 0 = i /\ Slot(lower, i) = Slot(old, i) /\ Kid(lower, i) = Kid(old, i)
    <3>1. (i - 0) + 0 = i /\ Slot(lower, i) = Slot(old, i)
      BY <1>1, <1>4, <2>1
    <3> QED  BY <1>2, <3>1, RowFields
  <2> QED  BY <2>1 DEF Carries
<1>7. Carries(upper, 0, len - mid, old, mid)
  <2>1. ASSUME NEW i \in Slots, i < len - mid
        PROVE  /\ Slot(upper, i) = Slot(old, (i - 0) + mid)
               /\ Kid(upper, i) = Kid(old, (i - 0) + mid)
    <3>1. PICK j \in Slots : j = mid + i /\ j = (i - 0) + mid /\ j < len
      BY <1>1, <2>1
    <3>2. Slot(upper, i) = Slot(old, j)
      BY <1>4, <3>1
    <3>3. Kid(upper, i) = Kid(old, j)
      BY <1>3, <3>1, <3>2, RowFields
    <3> QED  BY <3>1, <3>2, <3>3
  <2> QED  BY <2>1 DEF Carries
<1>8. /\ Bs(old) \in Numbers /\ Os(old) \in Numbers /\ Bs(lower) \in Numbers
      /\ Os(lower) \in Numbers /\ Bs(upper) \in Numbers /\ Os(upper) \in Numbers
  <2>1. 0 \in Slots
    BY SizesAssumption DEF Slots
  <2> QED  BY <1>2, <1>3, <2>1, RowFields
<1>9. ASSUME NEW i \in Slots
      PROVE  /\ i >= len => Bs(old)[i] = 0 /\ Os(old)[i] = 0
             /\ Bs(lower)[i] = IF i < mid \/ i >= len THEN Bs(old)[i] ELSE 0
             /\ Os(lower)[i] = IF i < mid \/ i >= len THEN Os(old)[i] ELSE 0
             /\ Bs(upper)[i] = IF mid + i < len THEN Bs(old)[mid + i] ELSE 0
             /\ Os(upper)[i] = IF mid + i < len THEN Os(old)[mid + i] ELSE 0
  <2>1. \A j \in Slots : /\ Bs(old)[j] = Slot(old, j).b /\ Os(old)[j] = Slot(old, j).o
                         /\ Bs(lower)[j] = Slot(lower, j).b /\ Os(lower)[j] = Slot(lower, j).o
                         /\ Bs(upper)[j] = Slot(upper, j).b /\ Os(upper)[j] = Slot(upper, j).o
    BY <1>2, <1>3, RowFields
  <2>2. i >= len => Slot(old, i) = EmptyEntry
    BY <1>1 DEF Ends
  <2> QED  BY <1>1, <1>4, <2>1, <2>2
<1>10. Total(Bs(lower)) + Total(Bs(upper)) = Total(Bs(old))
  <2>1. PICK f \in Numbers, lo \in Numbers, up \in Numbers :
          f = Bs(old) /\ lo = Bs(lower) /\ up = Bs(upper)
    BY <1>8
  <2>2. /\ \A i \in Slots : i >= len => f[i] = 0
        /\ \A i \in Slots : lo[i] = IF i < mid \/ i >= len THEN f[i] ELSE 0
        /\ \A i \in Slots : up[i] = IF mid + i < len THEN f[mid + i] ELSE 0
    BY <1>9, <2>1
  <2>3. Total(lo) + Total(up) = Total(f)
    BY <2>2, HalvedSum
  <2> QED  BY <2>1, <2>3
<1>11. Total(Os(lower)) + Total(Os(upper)) = Total(Os(old))
  <2>1. PICK f \in Numbers, lo \in Numbers, up \in Numbers :
          f = Os(old) /\ lo = Os(lower) /\ up = Os(upper)
    BY <1>8
  <2>2. /\ \A i \in Slots : i >= len => f[i] = 0
        /\ \A i \in Slots : lo[i] = IF i < mid \/ i >= len THEN f[i] ELSE 0
        /\ \A i \in Slots : up[i] = IF mid + i < len THEN f[mid + i] ELSE 0
    BY <1>9, <2>1
  <2>3. Total(lo) + Total(up) = Total(f)
    BY <2>2, HalvedSum
  <2> QED  BY <2>1, <2>3
<1> QED
  BY <1>2, <1>3, <1>5, <1>6, <1>7, <1>10, <1>11 DEF lower, upper

\* What the row is with the first entries of another behind its own.
LEMMA JoinedRow ==
  ASSUME NEW old \in Rows, NEW len \in Nat, NEW more \in Rows, NEW n \in Nat,
         len + n <= NodeSizeMax + 1, Ends(old, len), Ends(more, n)
  PROVE  LET g == Joined(old, len, more, n)
         IN  /\ g \in Rows /\ Ends(g, len + n)
             /\ Carries(g, 0, len, old, 0) /\ Carries(g, len, len + n, more, 0)
             /\ Total(Bs(g)) = Total(Bs(old)) + SumBelow(Bs(more), n)
             /\ Total(Os(g)) = Total(Os(old)) + SumBelow(Os(more), n)
<1> DEFINE g == Joined(old, len, more, n)
<1>1. /\ \A i \in Slots : i \in Nat /\ (i \in len..(len + n - 1) => i - len \in Slots)
      /\ EmptyEntry.b = 0 /\ EmptyEntry.o = 0
  BY SizesAssumption DEF EmptyEntry, nullptr, Slots
<1>2. g \in Rows
  BY <1>1 DEF Joined, Rows
<1>3. \A i \in Slots : Slot(g, i) = IF i \in len..(len + n - 1) THEN Slot(more, i - len)
                                    ELSE Slot(old, i)
  BY DEF Joined, Slot
<1> HIDE DEF g
<1>4. Ends(g, len + n)
  <2>1. ASSUME NEW i \in Slots, ~(i < len + n) PROVE Slot(g, i) = EmptyEntry
    BY <1>1, <1>3, <2>1 DEF Ends
  <2> QED  BY <2>1 DEF Ends
<1>5. Carries(g, 0, len, old, 0)
  <2>1. ASSUME NEW i \in Slots, i < len
        PROVE  (i - 0) + 0 = i /\ Slot(g, i) = Slot(old, i) /\ Kid(g, i) = Kid(old, i)
    <3>1. (i - 0) + 0 = i /\ Slot(g, i) = Slot(old, i)
      BY <1>1, <1>3, <2>1
    <3> QED  BY <1>2, <3>1, RowFields
  <2> QED  BY <2>1 DEF Carries
<1>6. Carries(g, len, len + n, more, 0)
  <2>1. ASSUME NEW i \in Slots, len <= i, i < len + n
        PROVE  /\ Slot(g, i) = Slot(more, (i - len) + 0)
               /\ Kid(g, i) = Kid(more, (i - len) + 0)
    <3>1. PICK j \in Slots : j = i - len /\ j = (i - len) + 0 /\ i \in len..(len + n - 1)
      BY <1>1, <2>1
    <3>2. Slot(g, i) = Slot(more, j)
      BY <1>3, <3>1
    <3>3. Kid(g, i) = Kid(more, j)
      BY <1>2, <3>1, <3>2, RowFields
    <3> QED  BY <3>1, <3>2, <3>3
  <2> QED  BY <2>1 DEF Carries
<1>7. /\ Bs(old) \in Numbers /\ Os(old) \in Numbers /\ Bs(more) \in Numbers
      /\ Os(more) \in Numbers /\ Bs(g) \in Numbers /\ Os(g) \in Numbers
  <2>1. 0 \in Slots
    BY SizesAssumption DEF Slots
  <2> QED  BY <1>2, <2>1, RowFields
<1>8. ASSUME NEW i \in Slots
      PROVE  /\ i >= len => Bs(old)[i] = 0 /\ Os(old)[i] = 0
             /\ Bs(g)[i] = IF i \in len..(len + n - 1) THEN Bs(more)[i - len] ELSE Bs(old)[i]
             /\ Os(g)[i] = IF i \in len..(len + n - 1) THEN Os(more)[i - len] ELSE Os(old)[i]
  <2>1. \A j \in Slots : /\ Bs(old)[j] = Slot(old, j).b /\ Os(old)[j] = Slot(old, j).o
                         /\ Bs(more)[j] = Slot(more, j).b /\ Os(more)[j] = Slot(more, j).o
                         /\ Bs(g)[j] = Slot(g, j).b /\ Os(g)[j] = Slot(g, j).o
    BY <1>2, RowFields
  <2>2. i >= len => Slot(old, i) = EmptyEntry
    BY <1>1 DEF Ends
  <2> QED  BY <1>1, <1>3, <2>1, <2>2
<1>9. Total(Bs(g)) = Total(Bs(old)) + SumBelow(Bs(more), n)
  <2>1. PICK f \in Numbers, e \in Numbers, k \in Numbers :
          f = Bs(old) /\ e = Bs(more) /\ k = Bs(g)
    BY <1>7
  <2>2. /\ \A i \in Slots : i >= len => f[i] = 0
        /\ \A i \in Slots : k[i] = IF i \in len..(len + n - 1) THEN e[i - len] ELSE f[i]
    BY <1>8, <2>1
  <2>3. Total(k) = Total(f) + SumBelow(e, n)
    BY <2>2, JoinedSum
  <2> QED  BY <2>1, <2>3
<1>10. Total(Os(g)) = Total(Os(old)) + SumBelow(Os(more), n)
  <2>1. PICK f \in Numbers, e \in Numbers, k \in Numbers :
          f = Os(old) /\ e = Os(more) /\ k = Os(g)
    BY <1>7
  <2>2. /\ \A i \in Slots : i >= len => f[i] = 0
        /\ \A i \in Slots : k[i] = IF i \in len..(len + n - 1) THEN e[i - len] ELSE f[i]
    BY <1>8, <2>1
  <2>3. Total(k) = Total(f) + SumBelow(e, n)
    BY <2>2, JoinedSum
  <2> QED  BY <2>1, <2>3
<1> QED
  BY <1>2, <1>4, <1>5, <1>6, <1>9, <1>10 DEF g

\* The sum over the slots in use is the sum over all.
LEMMA EndedSum ==
  ASSUME NEW row \in Rows, NEW n \in 0..(NodeSizeMax + 1), Ends(row, n)
  PROVE  SumBelow(Bs(row), n) = Total(Bs(row)) /\ SumBelow(Os(row), n) = Total(Os(row))
<1>1. PICK all \in Nat : all = NodeSizeMax + 1 /\ n <= all /\ n \in Nat
  BY SizesAssumption
<1>2. ASSUME NEW i \in n..(all - 1) PROVE Bs(row)[i] = 0 /\ Os(row)[i] = 0
  <2>1. i \in Slots /\ ~(i < n) /\ EmptyEntry.b = 0 /\ EmptyEntry.o = 0
    BY <1>1, SizesAssumption DEF Slots, EmptyEntry
  <2>2. Slot(row, i) = EmptyEntry
    BY <2>1 DEF Ends
  <2> QED  BY <2>1, <2>2, RowFields
<1>3. Bs(row) \in Numbers /\ Os(row) \in Numbers
  <2>1. 0 \in Slots
    BY SizesAssumption DEF Slots
  <2> QED  BY <2>1, RowFields
<1>4. SumBelow(Bs(row), all) = SumBelow(Bs(row), n) /\ SumBelow(Os(row), all) = SumBelow(Os(row), n)
  BY <1>1, <1>2, <1>3, ZeroStretch
<1> QED
  BY <1>1, <1>4 DEF Total

\* The entries of n point to different children.
LEMMA ForestRow ==
  ASSUME NEW heap, NEW T, NEW R, NEW N, NEW h, Forest(heap, T, R, N, h),
         NEW n \in T \ N, ~IsLeaf(heap, n)
  PROVE  /\ Row(heap, n) \in Rows /\ Width(heap, n) \in 0..(NodeSizeMax + 1)
         /\ Ends(Row(heap, n), Width(heap, n)) /\ Apart(Row(heap, n), Width(heap, n))
<1>1. Row(heap, n) \in Rows /\ Width(heap, n) \in 0..(NodeSizeMax + 1)
  BY ForestFields
<1>2. \A i \in Slots : IF i < Width(heap, n) THEN Index(heap, Kid(Row(heap, n), i)) = i
                       ELSE Slot(Row(heap, n), i) = EmptyEntry
  BY KidsOf
<1> QED
  BY <1>1, <1>2 DEF Ends, Apart

Within(a, c, len) == a + c <= len

\* The first c entries of g are those of a stretch of old.
Carried(g, c, old, len, a) ==
  /\ Apart(g, c) /\ Distinct(g, 0..(c - 1))
  /\ \A i \in Slots : i < c => /\ a + i \in Slots /\ a + i < len
                              /\ Slot(g, i) = Slot(old, a + i)
                              /\ Kid(g, i) = Kid(old, a + i)

\* Entries that are carried over point to different children.
LEMMA CarriedRow ==
  ASSUME NEW old \in Rows, NEW len \in 0..(NodeSizeMax + 1), Apart(old, len),
         NEW g \in Rows, NEW a \in Nat, NEW c \in Nat, Within(a, c, len),
         Carries(g, 0, c, old, a)
  PROVE  Carried(g, c, old, len, a)
<1>1. len \in Nat /\ len <= NodeSizeMax + 1 /\ NodeSizeMax \in Nat /\ a + c <= len
  BY SizesAssumption DEF Within
<1>2. ASSUME NEW i \in Slots, i < c
      PROVE  /\ a + i \in Slots /\ a + i < len
             /\ Slot(g, i) = Slot(old, a + i) /\ Kid(g, i) = Kid(old, a + i)
  <2>1. i \in Nat /\ 0 <= i /\ (i - 0) + a = a + i
    BY DEF Slots
  <2>2. a + i \in Slots /\ a + i < len
    BY <1>1, <1>2, <2>1 DEF Slots
  <2> QED  BY <1>2, <2>1, <2>2 DEF Carries
<1>3. ASSUME NEW i \in Slots, NEW j \in Slots, i < c, j < c, Kid(g, i) = Kid(g, j)
      PROVE  i = j
  <2>1. a + i = a + j
    BY <1>2, <1>3 DEF Apart
  <2> QED  BY <2>1 DEF Slots
<1>4. 0..(c - 1) \subseteq Slots /\ \A i \in 0..(c - 1) : i < c
  BY <1>1 DEF Slots
<1> QED
  BY <1>2, <1>3, <1>4 DEF Apart, Distinct, Carried

-----------------------------------------------------------------------------
(* Splits.                                                                 *)

\* The row f has the first len children of old and then the first k of more.
KidsJoined(f, old, len, more, k) ==
  \A i \in Slots : /\ i < len => Kid(f, i) = Kid(old, i)
                   /\ i < k => len + i \in Slots /\ Kid(f, len + i) = Kid(more, i)

\* In the heap `joined` n holds what n and s hold in the heap `parted`.
Together(joined, parted, n, s) ==
  /\ IsLeaf(joined, n) = IsLeaf(parted, n) /\ IsLeaf(parted, s) = IsLeaf(parted, n)
  /\ IF IsLeaf(parted, n) THEN Bv(joined, n) = Bv(parted, n) \o Bv(parted, s)
     ELSE /\ Width(joined, n) = Width(parted, n) + Width(parted, s)
          /\ KidsJoined(Row(joined, n), Row(parted, n), Width(parted, n),
                        Row(parted, s), Width(parted, s))

\* In the heap `parted` p has another child s, after that in slot i.
Opened(joined, parted, p, i, s) ==
  /\ ~IsLeaf(joined, p) /\ ~IsLeaf(parted, p) /\ i \in Slots /\ i < Width(joined, p)
  /\ Width(parted, p) = Width(joined, p) + 1
  /\ i + 1 \in Slots /\ Kid(Row(parted, p), i + 1) = s
  /\ \A j \in Slots :
       /\ j <= i => Kid(Row(parted, p), j) = Kid(Row(joined, p), j)
       /\ i < j /\ j < Width(joined, p) =>
            j + 1 \in Slots /\ Kid(Row(parted, p), j + 1) = Kid(Row(joined, p), j)

\* Node n, in slot i of p, is one node in `joined` and two, n and s, in `parted`.
Parted(joined, parted, T, p, i, n, s) ==
  /\ \A m \in T : m # n /\ m # p => SameNode(joined, parted, m)
  /\ Together(joined, parted, n, s) /\ Opened(joined, parted, p, i, s)
  /\ Kid(Row(joined, p), i) = n

\* The same node keeps what it has.
LEMMA SameNodeTwice ==
  ASSUME NEW heap, NEW G, NEW H, NEW m, SameNode(heap, G, m), SameNode(G, H, m)
  PROVE  SameNode(heap, H, m) /\ SameNode(G, heap, m)
  BY DEF SameNode, SameKids

\* A node in two parts, in two heaps with the same of each.
LEMMA SameParts ==
  ASSUME NEW heap, NEW G, NEW H, NEW n, NEW s, Together(heap, G, n, s),
         SameNode(G, H, n), SameNode(G, H, s)
  PROVE  Together(heap, H, n, s)
  BY DEF Together, SameNode, SameKids, KidsJoined

\* The node n is cut in two: what it held is in n and in the new node.
Halved(heap, H, T, R, n, new) ==
  /\ DOMAIN H = DOMAIN heap \cup {new} /\ AllWhole(H, T \cup {new})
  /\ \A m \in T : /\ IsLeaf(H, m) = IsLeaf(heap, m)
                  /\ m # n => /\ SizeOf(H, m) = SizeOf(heap, m)
                              /\ Bits(H, m) = Bits(heap, m) /\ OnesAt(H, m) = OnesAt(heap, m)
  /\ IsLeaf(H, new) = IsLeaf(heap, n) /\ Up(H, new) = Up(heap, n)
  /\ Up(H, n) = Up(heap, n) /\ Index(H, n) = Index(heap, n)
  /\ SameRoots(heap, H, R) /\ \A m \in T \ R : Entry(H, m) = Entry(heap, m)
  /\ Bits(H, n) + Bits(H, new) = Bits(heap, n)
  /\ OnesAt(H, n) + OnesAt(H, new) = OnesAt(heap, n)
  /\ SizeOf(H, n) = SizeOf(heap, n) \div 2
  /\ SizeOf(H, n) + SizeOf(H, new) = SizeOf(heap, n)
  /\ Together(heap, H, n, new) /\ \A m \in T : m # n => SameNode(heap, H, m)

\* HalveLeaf cuts between two blocks.
LEMMA HalveLeafForest ==
  ASSUME NEW heap, NEW T, NEW R, NEW N, NEW h, Forest(heap, T, R, N, h),
         NEW n \in T, IsLeaf(heap, n), AllWhole(heap, T),
         NEW new \in Nat \ {nullptr}, new \notin DOMAIN heap,
         NEW U, U = T \cup {new}, NEW S, S = R \cup {new}, NEW g, g = Raised(h, new, h[n])
  PROVE  LET H == HalveLeaf(heap, n, new)
         IN  Forest(H, U, S, N, g) /\ Halved(heap, H, T, R, n, new)
<1>1. /\ Heap(heap) /\ n \in DOMAIN heap /\ T \subseteq DOMAIN heap /\ R \subseteq T /\ h[n] = 0
      /\ new \notin T
  BY DEF Forest
<1>2. PICK bv \in Seq(BOOLEAN), l \in Nat :
        /\ bv = Bv(heap, n) /\ Len(bv) = l * BlockSize /\ Blocks(Len(bv)) = l
        /\ Bits(heap, n) = Len(bv) /\ OnesAt(heap, n) = CountOnes(bv)
        /\ Up(heap, n) \in Nat
  <2>1. /\ Bv(heap, n) \in Seq(BOOLEAN) /\ Bits(heap, n) = Len(Bv(heap, n))
        /\ OnesAt(heap, n) = CountOnes(Bv(heap, n)) /\ Up(heap, n) \in Nat
    BY <1>1, NamedAmounts
  <2>2. PICK m \in Nat : m = Len(Bv(heap, n)) /\ Whole(m)
    BY <2>1 DEF AllWhole
  <2>3. Blocks(m) \in Nat /\ m = Blocks(m) * BlockSize
    BY <2>2, Quotients, WholeIsProduct DEF Blocks
  <2> QED  BY <2>1, <2>2, <2>3
<1>3. PICK k \in Nat : k = l \div 2 /\ k <= l
  OBVIOUS
<1>4. PICK mid \in Nat, rest \in Nat :
        /\ mid = k * BlockSize /\ rest = (l - k) * BlockSize
        /\ mid \in 0..Len(bv) /\ Len(bv) - mid = rest
        /\ Whole(mid) /\ Whole(rest) /\ Blocks(mid) = k /\ Blocks(rest) = l - k
  <2>1. PICK mid \in Nat, rest \in Nat : mid = k * BlockSize /\ rest = (l - k) * BlockSize
    BY <1>3, SizesAssumption
  <2>2. mid + rest = Len(bv)
    BY <1>2, <1>3, <2>1, SizesAssumption
  <2>3. /\ Whole(mid) /\ Whole(rest) /\ Blocks(mid) = k /\ Blocks(rest) = l - k
    BY <1>3, <2>1, WholeIsProduct DEF Blocks
  <2>4. mid \in 0..Len(bv) /\ Len(bv) - mid = rest
    BY <2>1, <2>2
  <2> QED  BY <2>1, <2>3, <2>4
<1>5. PICK lower \in Seq(BOOLEAN), upper \in Seq(BOOLEAN) :
        /\ lower = Prefix(bv, mid) /\ upper = Suffix(bv, mid)
        /\ Len(lower) = mid /\ Len(upper) = rest /\ lower \o upper = bv
        /\ CountOnes(lower) + CountOnes(upper) = CountOnes(bv)
  <2>1. /\ Prefix(bv, mid) \in Seq(BOOLEAN) /\ Len(Prefix(bv, mid)) = mid
        /\ Suffix(bv, mid) \in Seq(BOOLEAN) /\ Len(Suffix(bv, mid)) = Len(bv) - mid
        /\ Prefix(bv, mid) \o Suffix(bv, mid) = bv
        /\ CountOnes(Prefix(bv, mid)) + CountOnes(Suffix(bv, mid)) = CountOnes(bv)
    BY <1>4, PrefixSuffix, Zenon
  <2>2. Len(Suffix(bv, mid)) = rest
    BY <1>4, <2>1, Zenon
  <2> QED  BY <2>1, <2>2, Zenon
<1> DEFINE A == WithBits(heap, n, lower)
           x == LeafNode(upper, Up(heap, n))
           H == Allocate(A, new, x)
<1>6. HalveLeaf(heap, n, new) = H
  <2> DEFINE half == Len(heap[n].bv) \div 2
  <2>1. half - (half % BlockSize) = mid
    BY <1>2, <1>3, <1>4, MiddleOfLeaf DEF Bv
  <2> HIDE DEF half
  <2>2. HalveLeaf(heap, n, new)
        = Allocate(WithBits(heap, n, Prefix(heap[n].bv, half - (half % BlockSize))), new,
                   LeafNode(Suffix(heap[n].bv, half - (half % BlockSize)), heap[n].parent))
    BY DEF HalveLeaf, half
  <2> QED  BY <1>2, <1>5, <2>1, <2>2 DEF Bv, Up
<1>7. Allocatable(x, 0) /\ x.isLeaf /\ x.bv = upper /\ x.parent = Up(heap, n)
  BY <1>2, SizesAssumption
     DEF Allocatable, LeafNode, RoughNodes, NoChildren, EmptyEntry, nullptr, Slots
<1> HIDE DEF A, x, H
<1>8. /\ Forest(A, T, R, N, h) /\ DOMAIN A = DOMAIN heap /\ Stays(heap, A)
      /\ Bv(A, n) = lower /\ \A m \in DOMAIN heap : m # n => Bv(A, m) = Bv(heap, m)
      /\ \A m \in DOMAIN heap : /\ IsLeaf(A, m) = IsLeaf(heap, m)
                                /\ Width(A, m) = Width(heap, m)
                                /\ Row(A, m) = Row(heap, m)
      /\ \A m \in T : m # n => Bits(A, m) = Bits(heap, m) /\ OnesAt(A, m) = OnesAt(heap, m)
      /\ \A m \in T \ R : Entry(A, m) = Entry(heap, m)
  <2>1. lower \in Strings
    BY DEF Strings
  <2> QED  BY <2>1, WithBitsForest DEF A
<1>9. /\ Forest(H, U, S, N, g) /\ DOMAIN H = DOMAIN A \cup {new}
      /\ IsLeaf(H, new) /\ Bv(H, new) = upper /\ Up(H, new) = Up(heap, n)
      /\ \A m \in DOMAIN A :
           /\ IsLeaf(H, m) = IsLeaf(A, m) /\ Bv(H, m) = Bv(A, m)
           /\ Width(H, m) = Width(A, m) /\ Row(H, m) = Row(A, m)
           /\ Up(H, m) = Up(A, m) /\ Index(H, m) = Index(A, m)
      /\ \A m \in T : Bits(H, m) = Bits(A, m) /\ OnesAt(H, m) = OnesAt(A, m)
      /\ \A m \in T \ R : Entry(H, m) = Entry(A, m)
  <2>1. new \notin DOMAIN A /\ g = Raised(h, new, 0) /\ 0 \in Nat
    BY <1>1, <1>8
  <2>2. Awaits(N, N, new, 0)
    BY DEF Awaits
  <2>3. Forest(H, U, S, N, g) /\ Grown(A, H, T, R, new, x)
    BY <1>7, <1>8, <2>1, <2>2, AllocateForest DEF H
  <2> QED  BY <1>7, <2>3 DEF Grown
<1>10. /\ IsLeaf(H, n) /\ Bv(H, n) = lower /\ new \in DOMAIN H /\ n \in DOMAIN H /\ Heap(H)
  BY <1>1, <1>8, <1>9 DEF Forest
<1>11. /\ Bits(H, n) = mid /\ Bits(H, new) = rest
       /\ OnesAt(H, n) = CountOnes(lower) /\ OnesAt(H, new) = CountOnes(upper)
       /\ SizeOf(H, n) = k /\ SizeOf(H, new) = l - k /\ SizeOf(heap, n) = l
  <2>1. /\ Bits(H, n) = Len(lower) /\ OnesAt(H, n) = CountOnes(lower)
        /\ Bits(H, new) = Len(upper) /\ OnesAt(H, new) = CountOnes(upper)
    BY <1>9, <1>10, NamedAmounts
  <2> QED  BY <1>2, <1>4, <1>5, <1>9, <1>10, <2>1, SizeFields
<1>12. AllWhole(H, U)
  <2>1. ASSUME NEW m \in T PROVE Whole(Len(Bv(H, m)))
    BY <1>1, <1>4, <1>5, <1>8, <1>9, <1>10 DEF AllWhole
  <2>2. Whole(Len(Bv(H, new)))
    BY <1>4, <1>5, <1>9
  <2> QED  BY <2>1, <2>2 DEF AllWhole
<1>13. ASSUME NEW m \in T
       PROVE  /\ IsLeaf(H, m) = IsLeaf(heap, m)
              /\ m # n => /\ SizeOf(H, m) = SizeOf(heap, m)
                          /\ Bits(H, m) = Bits(heap, m) /\ OnesAt(H, m) = OnesAt(heap, m)
  <2>1. m \in DOMAIN heap /\ IsLeaf(H, m) = IsLeaf(heap, m)
    BY <1>1, <1>8, <1>9
  <2>2. ASSUME m # n PROVE SizeOf(H, m) = SizeOf(heap, m)
    BY <1>8, <1>9, <2>1, <2>2, SizeFields
  <2> QED  BY <1>8, <1>9, <2>1, <2>2
<1>14. /\ Up(H, n) = Up(heap, n) /\ Index(H, n) = Index(heap, n) /\ SameRoots(heap, H, R)
       /\ \A m \in T \ R : Entry(H, m) = Entry(heap, m) /\ DOMAIN H = DOMAIN heap \cup {new}
  BY <1>1, <1>8, <1>9 DEF Stays, SameRoots
<1>15. Halved(heap, H, T, R, n, new)
  <2>1. /\ Bits(H, n) + Bits(H, new) = Bits(heap, n)
        /\ OnesAt(H, n) + OnesAt(H, new) = OnesAt(heap, n)
    BY <1>2, <1>4, <1>5, <1>11
  <2>2. SizeOf(H, n) = SizeOf(heap, n) \div 2 /\ SizeOf(H, n) + SizeOf(H, new) = SizeOf(heap, n)
    BY <1>3, <1>11
  <2>3. DOMAIN H = DOMAIN heap \cup {new}
    BY <1>8, <1>9
  <2>4. Together(heap, H, n, new)
    BY <1>2, <1>5, <1>9, <1>10, <1>13 DEF Together
  <2>5. ASSUME NEW m \in T, m # n PROVE SameNode(heap, H, m)
    BY <1>1, <1>8, <1>9, <2>5 DEF SameNode, SameKids
  <2> QED  BY <1>9, <1>12, <1>13, <1>14, <2>1, <2>2, <2>3, <2>4, <2>5 DEF Halved
<1> QED
  BY <1>6, <1>9, <1>15

\* HalveInternal gives the second half of the children to the new node.
LEMMA HalveNodeForest ==
  ASSUME NEW heap, NEW T, NEW R, NEW N, NEW h, Forest(heap, T, R, N, h),
         NEW n \in T \ N, ~IsLeaf(heap, n), AllWhole(heap, T),
         NEW new \in Nat \ {nullptr}, new \notin DOMAIN heap, new \notin N,
         NEW U, U = T \cup {new}, NEW S, S = R \cup {new}, NEW g, g = Raised(h, new, h[n])
  PROVE  LET H == HalveInternal(heap, n, new)
         IN  Forest(H, U, S, N, g) /\ Halved(heap, H, T, R, n, new)
<1>1. /\ Heap(heap) /\ n \in DOMAIN heap /\ T \subseteq DOMAIN heap /\ R \subseteq T
      /\ new \notin T /\ h[n] # 0 /\ h[n] \in Nat /\ Up(heap, n) \in Nat
  <2>1. Heap(heap) /\ T \subseteq DOMAIN heap /\ R \subseteq T /\ h[n] # 0
    BY DEF Forest
  <2> QED  BY <2>1, ForestFields
<1>2. PICK old \in Rows, len \in 0..(NodeSizeMax + 1), mid \in Nat, rest \in Nat :
        /\ old = Row(heap, n) /\ len = Width(heap, n) /\ mid = len \div 2 /\ rest = len - mid
        /\ Ends(old, len) /\ Apart(old, len)
        /\ mid \in 0..len /\ mid \in 0..(NodeSizeMax + 1) /\ rest \in 0..(NodeSizeMax + 1)
        /\ mid + rest <= len /\ 0 + mid <= len /\ len \in Nat /\ mid + rest = len
        /\ len <= NodeSizeMax + 1 /\ NodeSizeMax \in Nat
  <2>1. PICK len \in 0..(NodeSizeMax + 1), mid \in Nat : len = Width(heap, n) /\ mid = len \div 2
    BY ForestRow
  <2>2. len \in Nat /\ mid <= len /\ len - mid \in Nat
    BY <2>1, SizesAssumption
  <2> QED  BY <2>1, <2>2, ForestRow, SizesAssumption
<1> DEFINE lower == LowerHalf(old, len, mid)
           upper == UpperHalf(old, len, mid)
           D == mid..(len - 1)
           A == AdoptAll(heap, old, D, new)
           B == Place(A, n, lower, mid, {})
           x == InternalNode(upper, rest, Up(heap, n))
           C == Allocate(B, new, x)
           E == 0..(rest - 1)
           H == Place(C, new, upper, rest, E)
<1>3. HalveInternal(heap, n, new) = H
  BY <1>2 DEF HalveInternal, Row, Width, Up
<1>4. /\ lower \in Rows /\ Ends(lower, mid) /\ Carries(lower, 0, mid, old, 0)
      /\ upper \in Rows /\ Ends(upper, rest) /\ Carries(upper, 0, rest, old, mid)
      /\ Total(Bs(lower)) + Total(Bs(upper)) = Total(Bs(old))
      /\ Total(Os(lower)) + Total(Os(upper)) = Total(Os(old))
  BY <1>2, HalvedRows
<1>5. Allocatable(x, h[n]) /\ ~x.isLeaf /\ x.size = rest /\ x.entries = upper
      /\ x.parent = Up(heap, n) /\ x.bv = <<>>
  <2>1. 0 \in Slots /\ <<>> \in Seq(BOOLEAN)
    BY SizesAssumption DEF Slots
  <2> QED  BY <1>1, <1>2, <1>4, <2>1 DEF InternalNode, Allocatable, RoughNodes, Rows
<1>6. /\ D \in SUBSET Slots /\ E \in SUBSET Slots
      /\ \A i \in Slots : (i \in D <=> mid <= i /\ i < len) /\ (i \in E <=> i < rest)
      /\ \A i \in Slots : i \in Nat /\ (i < mid \/ mid <= i) /\ (i < rest => mid + i \in Nat)
      /\ \A i \in Slots : mid <= i /\ i < len => i - mid \in Slots /\ i - mid < rest
                                             /\ i = mid + (i - mid)
      /\ \A i \in Slots : i < mid => i < len /\ ~(mid <= i)
  <2>1. NodeSizeMax \in Nat /\ len \in Nat /\ mid \in Nat /\ rest \in Nat /\ mid + rest = len
        /\ len <= NodeSizeMax + 1
    BY <1>2
  <2> HIDE DEF A, B, C, H, lower, upper
  <2>2. D \in SUBSET Slots /\ E \in SUBSET Slots
    BY <2>1 DEF Slots
  <2>3. ASSUME NEW i \in Slots
        PROVE  (i \in D <=> mid <= i /\ i < len) /\ (i \in E <=> i < rest)
    BY <2>1 DEF Slots
  <2> HIDE DEF D, E
  <2>4. ASSUME NEW i \in Slots
        PROVE  /\ i \in Nat /\ (i < mid \/ mid <= i) /\ (i < rest => mid + i \in Nat)
               /\ i < mid => i < len /\ ~(mid <= i)
    BY <2>1 DEF Slots
  <2>5. ASSUME NEW i \in Slots, mid <= i, i < len
        PROVE  i - mid \in Slots /\ i - mid < rest /\ i = mid + (i - mid)
    BY <2>1, <2>5 DEF Slots
  <2> QED  BY <2>2, <2>3, <2>4, <2>5
<1> HIDE DEF lower, upper, D, A, B, x, C, E, H
<1>7. /\ Apart(lower, mid) /\ Apart(upper, rest) /\ Distinct(upper, E)
      /\ \A i \in Slots : i < mid => /\ Slot(lower, i) = Slot(old, i)
                                     /\ Kid(lower, i) = Kid(old, i)
      /\ \A i \in Slots : i < rest => /\ mid + i \in Slots /\ mid + i < len
                                      /\ Slot(upper, i) = Slot(old, mid + i)
                                      /\ Kid(upper, i) = Kid(old, mid + i)
  <2>1. Carried(lower, mid, old, len, 0)
    <3>1. 0 \in Nat /\ Within(0, mid, len)
      BY <1>2 DEF Within
    <3> QED  BY <1>2, <1>4, <3>1, CarriedRow
  <2>2. Carried(upper, rest, old, len, mid)
    <3>1. Within(mid, rest, len)
      BY <1>2 DEF Within
    <3> QED  BY <1>2, <1>4, <3>1, CarriedRow
  <2>3. \A i \in Slots : 0 + i = i
    BY <1>6
  <2> QED  BY <2>1, <2>2, <2>3 DEF E, Carried
<1>8. PICK kids, S0, M0 : kids = Kids(heap, n) /\ S0 = R \cup kids /\ M0 = N \cup {n}
  OBVIOUS
<1>9. /\ Forest(heap, T, S0, M0, h) /\ kids \subseteq T \ R
      /\ \A c \in T \ R : c \in kids <=> Up(heap, c) = n
      /\ kids = FirstKids(old, len)
      /\ \A i \in Slots : i < len => /\ Kid(old, i) \in kids /\ Up(heap, Kid(old, i)) = n
                                     /\ Index(heap, Kid(old, i)) = i
                                     /\ h[n] = h[Kid(old, i)] + 1
                                     /\ Entry(heap, Kid(old, i)) = Slot(old, i)
  <2>1. Forest(heap, T, S0, M0, h)
    BY <1>8, BlankForest
  <2>2. kids \subseteq T \ R /\ \A c \in T \ R : c \in kids <=> Up(heap, c) = n
    BY <1>8, KidsOf
  <2>3. kids = FirstKids(old, len)
    BY <1>2, <1>8 DEF Kids
  <2>4. ASSUME NEW i \in Slots, i < len, NEW c, c = Kid(old, i)
        PROVE  /\ c \in kids /\ Up(heap, c) = n /\ Index(heap, c) = i
               /\ h[n] = h[c] + 1 /\ Entry(heap, c) = Slot(old, i)
    <3>1. i < Width(heap, n) /\ c = Kid(Row(heap, n), i)
      BY <1>2, <2>4
    <3>2. /\ c \in Kids(heap, n) /\ Up(heap, c) = n /\ Index(heap, c) = i
          /\ h[n] = h[c] + 1 /\ Entry(heap, c) = Slot(Row(heap, n), i)
      BY <3>1, KidsOf
    <3> QED  BY <1>2, <1>8, <3>2
  <2> QED  BY <2>1, <2>2, <2>3, <2>4
<1>10. /\ Forest(A, T, S0, M0, h) /\ DOMAIN A = DOMAIN heap
       /\ \A m \in DOMAIN heap :
            /\ Up(A, m) = IF \E i \in D : Kid(old, i) = m THEN new ELSE Up(heap, m)
            /\ Index(A, m) = Index(heap, m) /\ IsLeaf(A, m) = IsLeaf(heap, m)
            /\ Bv(A, m) = Bv(heap, m)
            /\ Width(A, m) = Width(heap, m) /\ Row(A, m) = Row(heap, m)
       /\ \A m \in T \ S0 : Entry(A, m) = Entry(heap, m)
       /\ \A m \in T : Bits(A, m) = Bits(heap, m) /\ OnesAt(A, m) = OnesAt(heap, m)
  <2>1. AtRoots(old, D, S0)
    BY <1>6, <1>8, <1>9 DEF AtRoots
  <2> QED  BY <1>6, <1>9, <2>1, AdoptAllForest DEF A
<1>11. ASSUME NEW m \in DOMAIN heap, m \notin kids PROVE Up(A, m) = Up(heap, m)
  BY <1>6, <1>9, <1>10, <1>11
<1>12. ASSUME NEW i \in Slots, i < len, NEW c, c = Kid(old, i)
       PROVE  /\ c \in S0 /\ c \in T /\ c \in DOMAIN heap /\ c # new /\ c \notin R
              /\ Up(A, c) = (IF i < mid THEN n ELSE new)
  <2>1. c \in kids /\ c \in S0 /\ c \in T /\ c \in DOMAIN heap /\ c # new /\ Up(heap, c) = n
        /\ c \notin R
    BY <1>1, <1>8, <1>9, <1>12
  <2>2. ASSUME NEW j \in D, Kid(old, j) = c PROVE j = i
    BY <1>2, <1>6, <1>12, <2>2 DEF Apart
  <2>3. i \in D <=> ~(i < mid)
    BY <1>6, <1>12
  <2> QED  BY <1>10, <1>12, <2>1, <2>2, <2>3
<1>13. Fills(A, h, S0, n, lower, mid, {})
  <2>1. Placeable(lower, mid, {})
    BY <1>2, <1>4 DEF Placeable, Distinct
  <2>2. ASSUME NEW i \in Slots, i < mid
        PROVE  /\ Kid(lower, i) \in S0 /\ Up(A, Kid(lower, i)) = n
               /\ h[n] = h[Kid(lower, i)] + 1 /\ Index(A, Kid(lower, i)) = i
    <3>1. i < len
      BY <1>6, <2>2
    <3>2. PICK c : c = Kid(old, i) /\ c = Kid(lower, i)
      BY <1>7, <2>2
    <3> QED  BY <1>9, <1>10, <1>12, <2>2, <3>1, <3>2
  <2> QED  BY <1>4, <1>7, <2>1, <2>2 DEF Fills
<1>14. PICK S1 : S1 = S0 \ FirstKids(lower, mid)
  OBVIOUS
<1>15. /\ Forest(B, T, S1, N, h) /\ Keeps(A, B, n) /\ Width(B, n) = mid /\ Row(B, n) = lower
       /\ \A m \in DOMAIN A : Up(B, m) = Up(A, m)
       /\ \A m \in DOMAIN A \ FirstKids(lower, mid) : Index(B, m) = Index(A, m)
       /\ \A m \in T \ S0 : Entry(B, m) = Entry(A, m)
  <2>1. ~IsLeaf(A, n) /\ n \in M0 /\ N = M0 \ {n}
    BY <1>1, <1>8, <1>10
  <2> QED  BY <1>10, <1>13, <1>14, <2>1, PlaceForest DEF B
<1>16. /\ DOMAIN B = DOMAIN heap
       /\ \A m \in DOMAIN heap :
            /\ IsLeaf(B, m) = IsLeaf(heap, m) /\ Bv(B, m) = Bv(heap, m)
            /\ m # n => Width(B, m) = Width(heap, m) /\ Row(B, m) = Row(heap, m)
  BY <1>10, <1>15 DEF Keeps
<1>17. PICK S2, M2 : S2 = S1 \cup {new} /\ M2 = N \cup {new}
  OBVIOUS
<1>18. Forest(C, U, S2, M2, g) /\ Grown(B, C, T, S1, new, x)
  <2>1. Awaits(N, M2, new, h[n])
    BY <1>17 DEF Awaits
  <2> QED  BY <1>1, <1>5, <1>15, <1>16, <1>17, <2>1, AllocateForest DEF C
<1>19. Fills(C, g, S2, new, upper, rest, E)
  <2>1. Placeable(upper, rest, E)
    BY <1>2, <1>4, <1>6, <1>7 DEF Placeable
  <2>2. ASSUME NEW i \in Slots, i < rest
        PROVE  /\ Kid(upper, i) \in S2 /\ Up(C, Kid(upper, i)) = new
               /\ g[new] = g[Kid(upper, i)] + 1 /\ i \in E
    <3>0. PICK j \in Slots : /\ j = mid + i /\ j < len /\ ~(j < mid)
                             /\ Kid(upper, i) = Kid(old, j)
      BY <1>6, <1>7, <2>2
    <3>1. PICK c : /\ j = mid + i /\ j < len /\ ~(j < mid)
                   /\ c = Kid(old, j) /\ c = Kid(upper, i)
      BY <3>0
    <3>2. /\ c \in S0 /\ c \in T /\ c \in DOMAIN heap /\ c # new /\ Up(A, c) = new
          /\ h[n] = h[c] + 1
      BY <1>9, <1>12, <3>1
    <3>3. c \notin FirstKids(lower, mid)
      <4>1. ASSUME NEW k \in Slots, k < mid, Kid(lower, k) = c PROVE FALSE
        <5>1. k < len /\ k # j
          BY <1>6, <3>1, <4>1
        <5> QED  BY <1>2, <1>7, <3>1, <4>1, <5>1 DEF Apart
      <4> QED  BY <4>1 DEF FirstKids
    <3>4. Up(C, c) = new
      BY <1>10, <1>15, <1>16, <1>18, <3>2 DEF Grown
    <3>5. g[new] = h[n] /\ g[c] = h[c]
      BY <1>1, <3>2 DEF Raised, Forest
    <3>6. c \in S2 /\ i \in E
      BY <1>6, <1>14, <1>17, <2>2, <3>2, <3>3
    <3> QED  BY <3>1, <3>2, <3>4, <3>5, <3>6
  <2>3. \A i \in E : i < rest
    BY <1>6
  <2> QED  BY <1>4, <1>7, <2>1, <2>2, <2>3 DEF Fills
<1>20. /\ Forest(H, U, S, N, g) /\ Keeps(C, H, new) /\ Width(H, new) = rest
       /\ Row(H, new) = upper
       /\ \A m \in DOMAIN C : Up(H, m) = Up(C, m)
       /\ \A m \in DOMAIN C \ FirstKids(upper, rest) : Index(H, m) = Index(C, m)
       /\ \A m \in U \ S2 : Entry(H, m) = Entry(C, m)
  <2>1. FirstKids(lower, mid) \cup FirstKids(upper, rest) = kids
    <3>1. ASSUME NEW c \in FirstKids(lower, mid) \cup FirstKids(upper, rest) PROVE c \in kids
      <4>1. CASE c \in FirstKids(lower, mid)
        <5>1. PICK i \in Slots : i < mid /\ c = Kid(old, i) /\ i < len
          BY <1>6, <1>7, <4>1 DEF FirstKids
        <5> QED  BY <1>9, <5>1
      <4>2. CASE c \in FirstKids(upper, rest)
        <5>1. PICK i \in Slots : i < rest /\ c = Kid(old, mid + i)
          BY <1>7, <4>2 DEF FirstKids
        <5> QED  BY <1>7, <1>9, <5>1
      <4> QED  BY <3>1, <4>1, <4>2
    <3>2. ASSUME NEW c \in kids PROVE c \in FirstKids(lower, mid) \cup FirstKids(upper, rest)
      <4>1. PICK i \in Slots : i < len /\ c = Kid(old, i)
        BY <1>9 DEF FirstKids
      <4>2. CASE i < mid
        BY <1>7, <4>1, <4>2 DEF FirstKids
      <4>3. CASE ~(i < mid)
        <5>1. PICK j \in Slots : j < rest /\ i = mid + j
          BY <1>6, <4>1, <4>3
        <5> QED  BY <1>7, <4>1, <5>1 DEF FirstKids
      <4> QED  BY <4>2, <4>3
    <3> QED  BY <3>1, <3>2
  <2>2. new \notin FirstKids(upper, rest)
    BY <1>1, <1>9, <2>1
  <2>3. S = S2 \ FirstKids(upper, rest) /\ N = M2 \ {new}
    <3>1. new \notin R \cup kids
      BY <1>1, <1>9
    <3>2. S0 \ kids = R
      BY <1>8, <1>9
    <3>3. S1 \ FirstKids(upper, rest) = R
      BY <1>14, <2>1, <3>2
    <3> QED  BY <1>8, <1>17, <2>2, <3>3
  <2>4. new \in U /\ new \in M2 /\ ~IsLeaf(C, new)
    BY <1>5, <1>17, <1>18 DEF Grown
  <2>5. Forest(C, U, S2, M2, g)
    BY <1>18
  <2>6. Forest(H, U, S, N, g) /\ Placed(C, H, U, S2, new, upper, rest)
    BY <1>19, <2>3, <2>4, <2>5, PlacedForest DEF H
  <2> QED  BY <2>6 DEF Placed
<1>21. /\ DOMAIN H = DOMAIN heap \cup {new} /\ new \in DOMAIN C /\ Heap(H)
       /\ IsLeaf(H, new) = IsLeaf(heap, n) /\ Bv(H, new) = <<>> /\ Up(H, new) = Up(heap, n)
       /\ \A m \in DOMAIN heap :
            /\ IsLeaf(H, m) = IsLeaf(heap, m) /\ Bv(H, m) = Bv(heap, m)
            /\ m # n => Width(H, m) = Width(heap, m) /\ Row(H, m) = Row(heap, m)
            /\ Up(H, m) = Up(A, m)
       /\ Width(H, n) = mid /\ Row(H, n) = lower
  <2>1. DOMAIN C = DOMAIN heap \cup {new} /\ DOMAIN H = DOMAIN C /\ Heap(H)
    BY <1>16, <1>18, <1>20 DEF Grown, Keeps
  <2>2. /\ IsLeaf(H, new) = IsLeaf(heap, n) /\ Bv(H, new) = <<>> /\ Up(H, new) = Up(heap, n)
    <3>1. new \in DOMAIN C /\ IsLeaf(C, new) = x.isLeaf /\ Bv(C, new) = x.bv
          /\ Up(C, new) = x.parent
      BY <1>18, <2>1 DEF Grown
    <3>2. IsLeaf(H, new) = IsLeaf(C, new) /\ Bv(H, new) = Bv(C, new) /\ Up(H, new) = Up(C, new)
      BY <1>20, <3>1 DEF Keeps
    <3>3. x.isLeaf = FALSE /\ IsLeaf(heap, n) = FALSE
      BY <1>1, <1>5 DEF Allocatable, RoughNodes, Heap, IsLeaf
    <3> QED  BY <1>5, <3>1, <3>2, <3>3
  <2>3. ASSUME NEW m \in DOMAIN heap
        PROVE  /\ IsLeaf(H, m) = IsLeaf(B, m) /\ Bv(H, m) = Bv(B, m)
               /\ Width(H, m) = Width(B, m) /\ Row(H, m) = Row(B, m) /\ Up(H, m) = Up(B, m)
    <3>1. m # new /\ m \in DOMAIN C /\ m \in DOMAIN B
      BY <1>16, <2>1
    <3> QED  BY <1>18, <1>20, <3>1 DEF Grown, Keeps
  <2> QED  BY <1>1, <1>10, <1>15, <1>16, <2>1, <2>2, <2>3
<1>22. /\ Bits(H, n) = Total(Bs(lower)) /\ OnesAt(H, n) = Total(Os(lower))
       /\ Bits(H, new) = Total(Bs(upper)) /\ OnesAt(H, new) = Total(Os(upper))
       /\ Bits(heap, n) = Total(Bs(old)) /\ OnesAt(heap, n) = Total(Os(old))
  <2>1. n \in DOMAIN H /\ ~IsLeaf(H, n) /\ new \in DOMAIN H /\ ~IsLeaf(H, new)
    BY <1>1, <1>21
  <2> QED  BY <1>1, <1>2, <1>20, <1>21, <2>1, NamedAmounts
<1>23. SizeOf(H, n) = mid /\ SizeOf(H, new) = rest /\ SizeOf(heap, n) = len
  BY <1>1, <1>2, <1>20, <1>21, SizeFields
<1>24. ASSUME NEW m \in T, m # n
       PROVE  /\ SizeOf(H, m) = SizeOf(heap, m)
              /\ Bits(H, m) = Bits(heap, m) /\ OnesAt(H, m) = OnesAt(heap, m)
  <2>1. m \in DOMAIN heap
    BY <1>1
  <2> QED  BY <1>21, <1>24, <2>1, SizeFields, SameAmounts
<1>25. AllWhole(H, T \cup {new})
  <2>1. ASSUME NEW m \in T PROVE Whole(Len(Bv(H, m)))
    BY <1>1, <1>21 DEF AllWhole
  <2>2. Whole(Len(Bv(H, new)))
    BY <1>21, WholeSums
  <2> QED  BY <2>1, <2>2 DEF AllWhole
<1>26. ASSUME NEW m \in T \ R PROVE Entry(H, m) = Entry(heap, m)
  <2>1. CASE m \notin kids
    <3>1. m \in T \ S0 /\ m \in T \ S1 /\ m \in U \ S2
      BY <1>1, <1>8, <1>14, <1>17, <2>1
    <3> QED  BY <1>10, <1>15, <1>18, <1>20, <3>1 DEF Grown
  <2>2. CASE m \in kids
    <3>1. PICK i \in Slots : i < len /\ m = Kid(old, i)
      BY <1>9, <2>2 DEF FirstKids
    <3>2. Entry(heap, m) = Slot(old, i)
      BY <1>9, <3>1
    <3>3. CASE i < mid
      <4>1. n \in T \ N /\ ~IsLeaf(B, n) /\ m = Kid(lower, i)
        BY <1>1, <1>7, <1>16, <3>1, <3>3
      <4>2. Entry(B, m) = Slot(lower, i)
        BY <1>15, <3>3, <4>1, FilledEntry
      <4>3. m \in T \ S1 /\ m \in U \ S2
        BY <1>1, <1>14, <1>17, <3>3, <4>1 DEF FirstKids
      <4> QED  BY <1>7, <1>18, <1>20, <3>2, <3>3, <4>2, <4>3 DEF Grown
    <3>4. CASE ~(i < mid)
      <4>1. PICK j \in Slots : j < rest /\ i = mid + j
        BY <1>6, <3>1, <3>4
      <4>2. new \in U \ N /\ ~IsLeaf(H, new) /\ m = Kid(upper, j)
        BY <1>7, <1>21, <3>1, <4>1
      <4>3. Entry(H, m) = Slot(upper, j)
        BY <1>20, <4>1, <4>2, FilledEntry
      <4> QED  BY <1>7, <3>2, <4>1, <4>3
    <3> QED  BY <3>3, <3>4
  <2> QED  BY <2>1, <2>2
<1>27. n \notin kids /\ R \cap kids = {}
  <2>1. \A c \in kids : h[n] = h[c] + 1 /\ h[c] \in Nat
    <3>1. ASSUME NEW c \in kids PROVE h[n] = h[c] + 1 /\ h[c] \in Nat
      <4>1. PICK i \in Slots : i < len /\ c = Kid(old, i)
        BY <1>9 DEF FirstKids
      <4> QED  BY <1>9, <4>1, ForestFields
    <3> QED  BY <3>1
  <2>2. n \notin kids
    BY <2>1
  <2> QED  BY <1>9, <2>2
<1>28. Up(H, n) = Up(heap, n) /\ Index(H, n) = Index(heap, n)
  <2>1. n \notin FirstKids(lower, mid) /\ n \notin FirstKids(upper, rest)
    <3>1. \A i \in Slots : i < len => n # Kid(old, i)
      BY <1>9, <1>27
    <3>2. \A i \in Slots : i < mid => i < len
      BY <1>6
    <3> QED  BY <1>7, <3>1, <3>2 DEF FirstKids
  <2>2. n \in DOMAIN A \ FirstKids(lower, mid) /\ n \in DOMAIN C \ FirstKids(upper, rest)
    BY <1>1, <1>10, <1>16, <1>18, <2>1 DEF Grown
  <2>3. Index(H, n) = Index(heap, n)
    BY <1>1, <1>10, <1>15, <1>16, <1>18, <1>20, <2>2 DEF Grown
  <2> QED  BY <1>1, <1>11, <1>21, <1>27, <2>3
<1>29. SameRoots(heap, H, R)
  <2>1. ASSUME NEW m \in R PROVE Up(H, m) = Up(heap, m)
    BY <1>1, <1>11, <1>21, <1>27
  <2> QED  BY <2>1 DEF SameRoots
<1>30. Halved(heap, H, T, R, n, new)
  <2>1. \A m \in T : IsLeaf(H, m) = IsLeaf(heap, m)
    BY <1>1, <1>21
  <2>2. /\ Bits(H, n) + Bits(H, new) = Bits(heap, n)
        /\ OnesAt(H, n) + OnesAt(H, new) = OnesAt(heap, n)
    BY <1>4, <1>22
  <2>3. SizeOf(H, n) = SizeOf(heap, n) \div 2 /\ SizeOf(H, n) + SizeOf(H, new) = SizeOf(heap, n)
    BY <1>2, <1>23
  <2>4. Together(heap, H, n, new)
    <3>1. KidsJoined(old, lower, mid, upper, rest)
      BY <1>7 DEF KidsJoined
    <3> QED  BY <1>1, <1>2, <1>20, <1>21, <3>1 DEF Together
  <2>5. ASSUME NEW m \in T, m # n PROVE SameNode(heap, H, m)
    BY <1>1, <1>21, <2>5 DEF SameNode, SameKids
  <2> QED
    BY <1>21, <1>24, <1>25, <1>26, <1>28, <1>29, <2>1, <2>2, <2>3, <2>4, <2>5 DEF Halved
<1> QED
  BY <1>3, <1>20, <1>30

\* Either kind of node.
LEMMA HalveForest ==
  ASSUME NEW heap, NEW T, NEW R, NEW N, NEW h, Forest(heap, T, R, N, h),
         NEW n \in T \ N, AllWhole(heap, T),
         NEW new \in Nat \ {nullptr}, new \notin DOMAIN heap, new \notin N,
         NEW U, U = T \cup {new}, NEW S, S = R \cup {new}, NEW g, g = Raised(h, new, h[n])
  PROVE  LET H == Halve(heap, n, new)
         IN  Forest(H, U, S, N, g) /\ Halved(heap, H, T, R, n, new)
<1> DEFINE H == Halve(heap, n, new)
<1>1. CASE IsLeaf(heap, n)
  <2> DEFINE G == HalveLeaf(heap, n, new)
  <2>1. H = G
    BY <1>1 DEF Halve, IsLeaf
  <2>2. Forest(G, U, S, N, g) /\ Halved(heap, G, T, R, n, new)
    BY <1>1, HalveLeafForest
  <2> HIDE DEF G, H
  <2> QED  BY <2>1, <2>2 DEF H
<1>2. CASE ~IsLeaf(heap, n)
  <2> DEFINE G == HalveInternal(heap, n, new)
  <2>1. H = G
    BY <1>2 DEF Halve, IsLeaf
  <2>2. Forest(G, U, S, N, g) /\ Halved(heap, G, T, R, n, new)
    BY <1>2, HalveNodeForest
  <2> HIDE DEF G, H
  <2> QED  BY <2>1, <2>2 DEF H
<1> QED
  BY <1>1, <1>2

\* The entry for a node counts what the node holds.
LEMMA NewEntry ==
  ASSUME NEW heap, NEW T, NEW R, NEW N, NEW h, Forest(heap, T, R, N, h), NEW m \in T
  PROVE  /\ EntryOf(heap, m) \in [b : Int, o : Int, P : Nat]
         /\ EntryOf(heap, m).b = Bits(heap, m) /\ EntryOf(heap, m).o = OnesAt(heap, m)
         /\ EntryOf(heap, m).P = m
<1>1. Bits(heap, m) \in Int /\ OnesAt(heap, m) \in Int /\ m \in Nat
  BY ForestFields
<1>2. EntryOf(heap, m) = [b |-> Bits(heap, m), o |-> OnesAt(heap, m), P |-> m]
  BY DEF EntryOf, Bits, OnesAt
<1> QED
  BY <1>1, <1>2

\* The node n has given its second half to a new sibling.
SplitOff(heap, H, T, R, n, new) ==
  /\ DOMAIN H = DOMAIN heap \cup {new} /\ AllWhole(H, T \cup {new})
  /\ \A m \in T : /\ IsLeaf(H, m) = IsLeaf(heap, m)
                  /\ m # n /\ m # Up(heap, n) => SizeOf(H, m) = SizeOf(heap, m)
  /\ IsLeaf(H, new) = IsLeaf(heap, n)
  /\ SizeOf(H, Up(heap, n)) = SizeOf(heap, Up(heap, n)) + 1
  /\ SizeOf(H, n) = SizeOf(heap, n) \div 2
  /\ SizeOf(H, n) + SizeOf(H, new) = SizeOf(heap, n)
  /\ SameRoots(heap, H, R) /\ \A m \in T \ R : SameGap(heap, H, m)
  /\ Bits(H, new) = Entry(H, new).b /\ OnesAt(H, new) = Entry(H, new).o
  /\ Parted(heap, H, T, Up(heap, n), Index(heap, n), n, new)

\* AddSibling hangs the second half of n into the tree, behind n.
LEMMA AddSiblingForest ==
  ASSUME NEW heap, NEW T, NEW R, NEW N, NEW h, Forest(heap, T, R, N, h),
         NEW n \in T \ R, n \notin N, AllWhole(heap, T),
         NEW p, p = Up(heap, n), Width(heap, p) <= NodeSizeMax,
         NEW new \in Nat \ {nullptr}, new \notin DOMAIN heap, new \notin N,
         NEW U, U = T \cup {new}, NEW g, g = Raised(h, new, h[n])
  PROVE  LET H == AddSibling(Halve(heap, n, new), n, new)
         IN  Forest(H, U, R, N, g) /\ SplitOff(heap, H, T, R, n, new)
<1> DEFINE K == Halve(heap, n, new)
<1> HIDE DEF K
<1>1. /\ T \subseteq DOMAIN heap /\ R \subseteq T /\ new \notin T /\ h \in [Nat -> Nat]
      /\ p \in T \ N /\ ~IsLeaf(heap, p) /\ p # n /\ h[p] = h[n] + 1
  <2>1. T \subseteq DOMAIN heap /\ R \subseteq T /\ h \in [Nat -> Nat] /\ T \subseteq Nat
    BY DEF Forest, Heap
  <2>2. h[n] \in Nat
    BY <2>1
  <2> QED  BY <2>1, <2>2, EntryFields
<1>2. PICK S : S = R \cup {new}
  OBVIOUS
<1>3. Forest(K, U, S, N, g) /\ Halved(heap, K, T, R, n, new)
  <2>1. n \in T \ N
    OBVIOUS
  <2> QED  BY <1>2, <2>1, HalveForest DEF K
<1>4. /\ n \in U \ S /\ new \in S /\ R = S \ {new} /\ p \in U \ N /\ p # new
      /\ T \ R = U \ S
  BY <1>1, <1>2
<1>5. g[new] = h[n] /\ \A m \in T : g[m] = h[m]
  <2>1. T \subseteq Nat
    BY DEF Forest, Heap
  <2> QED  BY <1>1, <2>1 DEF Raised
<1>6. /\ DOMAIN K = DOMAIN heap \cup {new} /\ AllWhole(K, T \cup {new})
      /\ \A m \in T : /\ IsLeaf(K, m) = IsLeaf(heap, m)
                      /\ m # n => /\ SizeOf(K, m) = SizeOf(heap, m)
                                  /\ Bits(K, m) = Bits(heap, m) /\ OnesAt(K, m) = OnesAt(heap, m)
      /\ IsLeaf(K, new) = IsLeaf(heap, n) /\ Up(K, new) = p
      /\ Up(K, n) = p /\ Index(K, n) = Index(heap, n)
      /\ SameRoots(heap, K, R) /\ \A m \in T \ R : Entry(K, m) = Entry(heap, m)
      /\ Bits(K, n) + Bits(K, new) = Bits(heap, n)
      /\ OnesAt(K, n) + OnesAt(K, new) = OnesAt(heap, n)
      /\ SizeOf(K, n) = SizeOf(heap, n) \div 2
      /\ SizeOf(K, n) + SizeOf(K, new) = SizeOf(heap, n)
      /\ Together(heap, K, n, new) /\ \A m \in T : m # n => SameNode(heap, K, m)
  BY <1>3 DEF Halved
<1>7. Width(K, p) = Width(heap, p) /\ ~IsLeaf(K, p)
  <2>1. IsLeaf(K, p) = IsLeaf(heap, p) /\ SizeOf(K, p) = SizeOf(heap, p)
    BY <1>1, <1>6
  <2> QED  BY <1>1, <2>1, SizeFields
<1>8. PICK dBits \in Int, dOnes \in Int :
        dBits = Bits(K, new) /\ dOnes = OnesAt(K, new)
  <2>1. new \in U
    OBVIOUS
  <2> QED  BY <1>3, <2>1, ForestFields
<1>9. PICK e \in [b : Int, o : Int, P : Nat] :
        e = EntryOf(K, new) /\ e.b = dBits /\ e.o = dOnes /\ e.P = new
  <2>1. new \in U
    OBVIOUS
  <2> QED  BY <2>1, <1>3, <1>8, NewEntry
<1>10. PICK idx \in Slots, next \in Slots :
         /\ idx = Index(K, n) /\ next = idx + 1 /\ Width(K, p) \in Nat
         /\ idx < Width(K, p) /\ next <= Width(K, p) /\ n = Kid(Row(K, p), idx)
  <2>1. /\ Index(K, n) \in Slots /\ Index(K, n) < Width(K, p)
        /\ n = Kid(Row(K, p), Index(K, n)) /\ Width(K, p) \in 0..(NodeSizeMax + 1)
    BY <1>3, <1>4, <1>6, EntryFields, ForestFields
  <2>2. Index(K, n) + 1 \in Slots /\ Index(K, n) + 1 <= Width(K, p)
    BY <1>7, <2>1, SizesAssumption DEF Slots
  <2> QED  BY <2>1, <2>2
<1> DEFINE L == AddToEntry(K, p, idx, -dBits, -dOnes)
           H == InsertEntry(L, p, next, e)
<1>11. AddSibling(K, n, new) = H
  <2>1. e = EntryOf(K, new) /\ EntryOf(K, new).b = dBits /\ EntryOf(K, new).o = dOnes
    BY <1>9
  <2>2. K[n].parent = p /\ K[n].indexInParent = idx /\ idx + 1 = next
    BY <1>6, <1>10 DEF Up, Index
  <2> QED  BY <2>1, <2>2 DEF AddSibling
<1> HIDE DEF L, H
<1>12. /\ Forest(L, U, S, N, g) /\ Keeps(K, L, p) /\ Stays(K, L)
       /\ Width(L, p) = Width(K, p)
       /\ \A i \in Slots : Kid(Row(L, p), i) = Kid(Row(K, p), i)
       /\ Entry(L, n).b = Entry(K, n).b + (-dBits) /\ Entry(L, n).o = Entry(K, n).o + (-dOnes)
       /\ \A m \in U \ S : m # n => Entry(L, m) = Entry(K, m)
       /\ Bits(L, p) = Bits(K, p) + (-dBits) /\ OnesAt(L, p) = OnesAt(K, p) + (-dOnes)
  <2>1. -dBits \in Int /\ -dOnes \in Int
    OBVIOUS
  <2> QED  BY <1>3, <1>4, <1>7, <1>10, <2>1, AddForest DEF L
<1>13. /\ DOMAIN L = DOMAIN K
       /\ \A m \in U : /\ m # p => /\ Bits(L, m) = Bits(K, m) /\ OnesAt(L, m) = OnesAt(K, m)
                       /\ IsLeaf(L, m) = IsLeaf(K, m) /\ Bv(L, m) = Bv(K, m)
                       /\ Width(L, m) = Width(K, m) /\ Up(L, m) = Up(K, m)
                       /\ m # p => Row(L, m) = Row(K, m)
  <2>1. U \subseteq DOMAIN K
    BY <1>1, <1>6
  <2> QED  BY <1>12, <2>1, KeptNodes DEF Stays
<1>14. /\ Forest(H, U, R, N, g) /\ Keeps(L, H, p) /\ Width(H, p) = Width(L, p) + 1
       /\ Carries(Row(H, p), 0, next, Row(L, p), 0) /\ Kid(Row(H, p), next) = new
       /\ Carries(Row(H, p), next + 1, Width(H, p), Row(L, p), next)
       /\ Bits(H, p) = Bits(L, p) + dBits /\ OnesAt(H, p) = OnesAt(L, p) + dOnes
       /\ \A m \in DOMAIN L : Up(H, m) = Up(L, m)
       /\ Entry(H, new) = e /\ \A m \in U \ S : Entry(H, m) = Entry(L, m)
  <2>1. ~IsLeaf(L, p) /\ Width(L, p) <= NodeSizeMax /\ next <= Width(L, p)
    BY <1>1, <1>4, <1>7, <1>10, <1>12, <1>13
  <2>2. new = e.P /\ Up(L, new) = p /\ g[p] = g[new] + 1
    BY <1>1, <1>5, <1>6, <1>9, <1>13
  <2>3. /\ Forest(H, U, R, N, g) /\ Keeps(L, H, p) /\ Width(H, p) = Width(L, p) + 1
        /\ Carries(Row(H, p), 0, next, Row(L, p), 0) /\ Kid(Row(H, p), next) = new
        /\ Carries(Row(H, p), next + 1, Width(H, p), Row(L, p), next)
        /\ Bits(H, p) = Bits(L, p) + e.b /\ OnesAt(H, p) = OnesAt(L, p) + e.o
        /\ \A m \in DOMAIN L : Up(H, m) = Up(L, m)
        /\ Entry(H, new) = e /\ \A m \in U \ S : Entry(H, m) = Entry(L, m)
    BY <1>4, <1>12, <2>1, <2>2, InsertForest DEF H
  <2> QED  BY <1>9, <2>3
<1>15. /\ DOMAIN H = DOMAIN heap \cup {new}
       /\ \A m \in U : /\ m # p => /\ Bits(H, m) = Bits(L, m) /\ OnesAt(H, m) = OnesAt(L, m)
                       /\ m # p => Width(H, m) = Width(L, m) /\ Row(H, m) = Row(L, m)
                       /\ IsLeaf(H, m) = IsLeaf(L, m) /\ Bv(H, m) = Bv(L, m)
                       /\ Up(H, m) = Up(L, m)
  <2>1. U \subseteq DOMAIN L
    BY <1>1, <1>6, <1>13
  <2> QED  BY <1>6, <1>13, <1>14, <2>1, KeptNodes
<1>16. ASSUME NEW m \in T \ R PROVE SameGap(heap, H, m)
  <2>1. /\ Bits(heap, m) \in Int /\ OnesAt(heap, m) \in Int
        /\ Bits(K, n) \in Int /\ OnesAt(K, n) \in Int
        /\ Entry(heap, m).b \in Int /\ Entry(heap, m).o \in Int
    BY <1>3, <1>4, ForestFields, EntryFields
  <2>2. Entry(K, m) = Entry(heap, m) /\ m \in U /\ m \in U \ S
    BY <1>4, <1>6
  <2>3. CASE m = n
    BY <1>1, <1>6, <1>8, <1>12, <1>13, <1>14, <1>15, <2>1, <2>2, <2>3 DEF SameGap
  <2>4. CASE m = p
    BY <1>1, <1>6, <1>8, <1>12, <1>14, <2>1, <2>2, <2>4 DEF SameGap
  <2>5. CASE m # n /\ m # p
    BY <1>6, <1>12, <1>13, <1>14, <1>15, <2>1, <2>2, <2>5 DEF SameGap
  <2> QED  BY <2>3, <2>4, <2>5
<1>17. SameRoots(heap, H, R)
  <2>1. ASSUME NEW m \in R PROVE Up(H, m) = Up(heap, m)
    <3>1. m \in U
      BY <1>1
    <3> QED  BY <1>6, <1>13, <1>15, <3>1 DEF SameRoots
  <2> QED  BY <2>1 DEF SameRoots
<1>18. AllWhole(H, T \cup {new})
  <2>1. ASSUME NEW m \in T \cup {new} PROVE Whole(Len(Bv(H, m)))
    BY <1>6, <1>13, <1>15 DEF AllWhole
  <2> QED  BY <2>1 DEF AllWhole
<1>19. ASSUME NEW m \in U, m # p PROVE SizeOf(H, m) = SizeOf(K, m)
  BY <1>13, <1>15, <1>19, SizeFields
<1>20. SizeOf(H, p) = SizeOf(heap, p) + 1
  BY <1>1, <1>4, <1>7, <1>12, <1>13, <1>14, <1>15, SizeFields
<1>21. /\ Bits(H, new) = Entry(H, new).b /\ OnesAt(H, new) = Entry(H, new).o
  BY <1>4, <1>8, <1>9, <1>13, <1>14, <1>15
<1>22. Opened(heap, H, p, idx, new)
  <2>1. \A i \in Slots : Kid(Row(L, p), i) = Kid(Row(heap, p), i)
    BY <1>1, <1>6, <1>12 DEF SameNode, SameKids
  <2>2. PICK w \in Nat : /\ w = Width(heap, p) /\ w = Width(L, p) /\ Width(H, p) = w + 1
                        /\ w <= NodeSizeMax /\ NodeSizeMax \in Nat /\ idx < w
    BY <1>7, <1>10, <1>12, <1>14, SizesAssumption
  <2>3. ~IsLeaf(H, p)
    BY <1>1, <1>4, <1>7, <1>13, <1>15
  <2>4. ASSUME NEW j \in Slots, j <= idx PROVE Kid(Row(H, p), j) = Kid(Row(heap, p), j)
    <3>1. 0 <= j /\ j < next /\ (j - 0) + 0 = j
      BY <1>10, <2>4 DEF Slots
    <3>2. Kid(Row(H, p), j) = Kid(Row(L, p), (j - 0) + 0)
      BY <1>14, <3>1 DEF Carries
    <3> QED  BY <2>1, <3>1, <3>2
  <2>5. ASSUME NEW j \in Slots, idx < j, j < w
        PROVE  j + 1 \in Slots /\ Kid(Row(H, p), j + 1) = Kid(Row(heap, p), j)
    <3>1. PICK i \in Slots : /\ i = j + 1 /\ next + 1 <= i /\ i < Width(H, p)
                             /\ (i - (next + 1)) + next = j
      BY <1>10, <2>2, <2>5 DEF Slots
    <3>2. Kid(Row(H, p), i) = Kid(Row(L, p), (i - (next + 1)) + next)
      BY <1>14, <3>1 DEF Carries
    <3> QED  BY <2>1, <3>1, <3>2
  <2> QED  BY <1>1, <1>10, <1>14, <2>2, <2>3, <2>4, <2>5 DEF Opened
<1>23. Parted(heap, H, T, p, idx, n, new)
  <2>1. ASSUME NEW m \in U, m # p PROVE SameNode(K, H, m)
    BY <1>13, <1>15, <2>1 DEF SameNode, SameKids
  <2>2. ASSUME NEW m \in T, m # n, m # p PROVE SameNode(heap, H, m)
    BY <1>6, <2>1, <2>2, SameNodeTwice
  <2>3. Together(heap, H, n, new)
    BY <1>1, <1>4, <1>6, <2>1, SameParts
  <2>4. Kid(Row(heap, p), idx) = n
    BY <1>1, <1>6, <1>10 DEF SameNode, SameKids
  <2> QED  BY <1>22, <2>2, <2>3, <2>4 DEF Parted
<1>24. SplitOff(heap, H, T, R, n, new)
  <2>1. n \in U /\ new \in U /\ \A m \in T : m \in U
    OBVIOUS
  <2>2. /\ IsLeaf(H, new) = IsLeaf(heap, n) /\ SizeOf(H, n) = SizeOf(heap, n) \div 2
        /\ SizeOf(H, n) + SizeOf(H, new) = SizeOf(heap, n)
    BY <1>1, <1>4, <1>6, <1>13, <1>15, <1>19, <2>1
  <2>3. \A m \in T : /\ IsLeaf(H, m) = IsLeaf(heap, m)
                     /\ m # n /\ m # Up(heap, n) => SizeOf(H, m) = SizeOf(heap, m)
    BY <1>6, <1>13, <1>15, <1>19, <2>1
  <2>4. Parted(heap, H, T, Up(heap, n), Index(heap, n), n, new)
    BY <1>6, <1>10, <1>23
  <2> QED  BY <1>15, <1>16, <1>17, <1>18, <1>20, <1>21, <2>2, <2>3, <2>4 DEF SplitOff
<1> QED
  BY <1>11, <1>14, <1>24 DEF K

\* The node top has two children, left and right.
Pairs(heap, top, left, right) ==
  /\ ~IsLeaf(heap, top) /\ Width(heap, top) = 2
  /\ Kid(Row(heap, top), 0) = left /\ Kid(Row(heap, top), 1) = right

\* The nodes left and right have got a root above them.
RootAdded(heap, H, T, R, left, right, new) ==
  /\ DOMAIN H = DOMAIN heap \cup {new} /\ AllWhole(H, T \cup {new})
  /\ \A m \in T : /\ IsLeaf(H, m) = IsLeaf(heap, m) /\ SizeOf(H, m) = SizeOf(heap, m)
                  /\ Bits(H, m) = Bits(heap, m) /\ OnesAt(H, m) = OnesAt(heap, m)
  /\ ~IsLeaf(H, new) /\ SizeOf(H, new) = 2 /\ Up(H, new) = nullptr
  /\ \A m \in T \ R : Entry(H, m) = Entry(heap, m)
  /\ \A m \in {left, right} : /\ Bits(H, m) = Entry(H, m).b
                              /\ OnesAt(H, m) = Entry(H, m).o
  /\ Pairs(H, new, left, right) /\ \A m \in T : SameNode(heap, H, m)

\* AddRoot puts two roots of one height below a new one.
LEMMA AddRootForest ==
  ASSUME NEW heap, NEW T, NEW R, NEW N, NEW h, Forest(heap, T, R, N, h), AllWhole(heap, T),
         NEW left \in R, NEW right \in R, left # right, h[left] = h[right],
         NEW new \in Nat \ {nullptr}, new \notin DOMAIN heap, new \notin N,
         NEW U, U = T \cup {new}, NEW S, S = (R \ {left, right}) \cup {new},
         NEW k \in Nat, k = h[left] + 1, NEW g, g = Raised(h, new, k)
  PROVE  LET H == AddRoot(heap, left, right, new)
         IN  Forest(H, U, S, N, g) /\ RootAdded(heap, H, T, R, left, right, new)
<1>1. /\ Heap(heap) /\ T \subseteq DOMAIN heap /\ R \subseteq T /\ left \in T /\ right \in T
      /\ T \subseteq Nat /\ h \in [Nat -> Nat] /\ new \notin T /\ new \in Nat
  BY DEF Forest, Heap
<1>2. PICK e, f, row :
        /\ e = EntryOf(heap, left) /\ f = EntryOf(heap, right)
        /\ row = [i \in Slots |-> CASE i = 0 -> EntryOf(heap, left)
                                    [] i = 1 -> EntryOf(heap, right)
                                    [] OTHER -> EmptyEntry]
  OBVIOUS
<1>3. /\ e \in [b : Int, o : Int, P : Nat] /\ e.P = left
      /\ e.b = Bits(heap, left) /\ e.o = OnesAt(heap, left)
      /\ f \in [b : Int, o : Int, P : Nat] /\ f.P = right
      /\ f.b = Bits(heap, right) /\ f.o = OnesAt(heap, right)
  BY <1>1, <1>2, NewEntry
<1>4. PICK zero \in Slots, one \in Slots : zero = 0 /\ one = 1
  BY SizesAssumption DEF Slots
<1>5. \A i \in Slots : i # zero /\ i # one <=> ~(i < 2)
  BY <1>4, SizesAssumption DEF Slots
<1>6. /\ row \in Rows /\ Slot(row, zero) = e /\ Slot(row, one) = f
      /\ \A i \in Slots : ~(i < 2) => Slot(row, i) = EmptyEntry
  <2>1. EmptyEntry \in [b : Int, o : Int, P : Nat]
    BY DEF EmptyEntry, nullptr
  <2>2. row \in Rows
    BY <1>2, <1>3, <2>1 DEF Rows
  <2>3. row[zero] = e /\ row[one] = f
    BY <1>2, <1>4
  <2>4. \A i \in Slots : ~(i < 2) => row[i] = EmptyEntry
    BY <1>2, <1>4, <1>5
  <2> QED  BY <2>2, <2>3, <2>4 DEF Slot
<1>7. Kid(row, zero) = left /\ Kid(row, one) = right
  BY <1>3, <1>6, RowFields
<1> DEFINE A == Adopted(heap, left, new)
           B == Adopted(A, right, new)
           x == InternalNode(row, 2, nullptr)
           C == Allocate(B, new, x)
           E == {0, 1}
           H == Place(C, new, row, 2, E)
<1>8. AddRoot(heap, left, right, new) = H
  <2>1. [heap EXCEPT ![left].parent = new, ![right].parent = new] = B
    BY DEF Adopted
  <2> QED  BY <1>2, <2>1 DEF AddRoot
<1>9. Allocatable(x, k) /\ ~x.isLeaf /\ x.size = 2 /\ x.entries = row /\ x.parent = nullptr
      /\ x.bv = <<>>
  <2>1. 0 \in Slots /\ <<>> \in Seq(BOOLEAN) /\ 2 \in 0..(NodeSizeMax + 1) /\ nullptr \in Nat
    BY SizesAssumption DEF Slots, nullptr
  <2>2. k # 0
    BY <1>1
  <2> QED  BY <1>6, <2>1, <2>2 DEF InternalNode, Allocatable, RoughNodes, Rows
<1>10. E = {zero, one} /\ E \in SUBSET Slots /\ \A i \in Slots : i \in E <=> i < 2
  BY <1>4, <1>5
<1>11. FirstKids(row, 2) = {left, right}
  <2>1. ASSUME NEW c \in FirstKids(row, 2) PROVE c \in {left, right}
    BY <1>5, <1>7 DEF FirstKids
  <2>2. left \in FirstKids(row, 2) /\ right \in FirstKids(row, 2)
    BY <1>5, <1>7 DEF FirstKids
  <2> QED  BY <2>1, <2>2
<1> HIDE DEF A, B, x, C, E, H
<1>12. /\ Forest(A, T, R, N, h) /\ Keeps(heap, A, nullptr) /\ Up(A, left) = new
       /\ \A m \in DOMAIN heap : m # left => Up(A, m) = Up(heap, m)
       /\ \A m \in T \ R : Entry(A, m) = Entry(heap, m)
       /\ \A m \in T : Bits(A, m) = Bits(heap, m) /\ OnesAt(A, m) = OnesAt(heap, m)
       /\ \A m \in T : Width(A, m) = Width(heap, m) /\ Row(A, m) = Row(heap, m)
  <2>1. new \in Nat
    OBVIOUS
  <2> QED  BY <2>1, AdoptForest DEF A
<1>13. /\ Forest(B, T, R, N, h) /\ Keeps(A, B, nullptr) /\ Up(B, right) = new
       /\ \A m \in DOMAIN A : m # right => Up(B, m) = Up(A, m)
       /\ \A m \in T \ R : Entry(B, m) = Entry(A, m)
       /\ \A m \in T : Bits(B, m) = Bits(A, m) /\ OnesAt(B, m) = OnesAt(A, m)
       /\ \A m \in T : Width(B, m) = Width(A, m) /\ Row(B, m) = Row(A, m)
  <2>1. new \in Nat /\ Forest(A, T, R, N, h)
    BY <1>12
  <2> QED  BY <2>1, AdoptForest DEF B
<1>14. /\ DOMAIN B = DOMAIN heap /\ Up(B, left) = new
       /\ \A m \in T : IsLeaf(B, m) = IsLeaf(heap, m) /\ Bv(B, m) = Bv(heap, m)
  BY <1>1, <1>12, <1>13 DEF Keeps
<1>15. PICK Q, M : Q = R \cup {new} /\ M = N \cup {new}
  OBVIOUS
<1>16. Forest(C, U, Q, M, g) /\ Grown(B, C, T, R, new, x)
  <2>1. Awaits(N, M, new, k)
    BY <1>15 DEF Awaits
  <2> QED  BY <1>9, <1>13, <1>14, <1>15, <2>1, AllocateForest DEF C
<1>17. g[new] = k /\ \A m \in T : g[m] = h[m]
  BY <1>1 DEF Raised
<1>18. Fills(C, g, Q, new, row, 2, E)
  <2>1. Apart(row, 2) /\ Distinct(row, E)
    BY <1>5, <1>7, <1>10 DEF Apart, Distinct
  <2>2. Placeable(row, 2, E)
    BY <1>6, <1>10, <2>1, SizesAssumption DEF Placeable
  <2>3. ASSUME NEW c \in {left, right}
        PROVE  c \in Q /\ Up(C, c) = new /\ g[new] = g[c] + 1
    <3>1. c \in T /\ c \in DOMAIN B /\ Up(B, c) = new /\ h[c] = h[left]
      BY <1>1, <1>13, <1>14
    <3> QED  BY <1>15, <1>16, <1>17, <3>1 DEF Grown
  <2>4. ASSUME NEW i \in Slots, i < 2
        PROVE  /\ Kid(row, i) \in Q /\ Up(C, Kid(row, i)) = new
               /\ g[new] = g[Kid(row, i)] + 1 /\ i \in E
    BY <1>5, <1>7, <1>10, <2>3, <2>4
  <2>5. \A i \in E : i < 2
    BY <1>10
  <2> QED  BY <1>6, <2>1, <2>2, <2>4, <2>5 DEF Fills, Ends
<1>19. Forest(H, U, S, N, g) /\ Placed(C, H, U, Q, new, row, 2)
  <2>1. S = Q \ FirstKids(row, 2) /\ N = M \ {new}
    BY <1>1, <1>11, <1>15
  <2>2. new \in U /\ new \in M /\ ~IsLeaf(C, new)
    BY <1>9, <1>15, <1>16 DEF Grown
  <2> QED  BY <1>16, <1>18, <2>1, <2>2, PlacedForest DEF H
<1>20. /\ DOMAIN H = DOMAIN heap \cup {new}
       /\ \A m \in T : /\ IsLeaf(H, m) = IsLeaf(heap, m) /\ Bv(H, m) = Bv(heap, m)
                       /\ Width(H, m) = Width(heap, m) /\ Row(H, m) = Row(heap, m)
                       /\ Bits(H, m) = Bits(heap, m) /\ OnesAt(H, m) = OnesAt(heap, m)
       /\ Bv(H, new) = <<>> /\ ~IsLeaf(H, new) /\ Width(H, new) = 2 /\ Up(H, new) = nullptr
       /\ \A m \in T \ R : Entry(H, m) = Entry(heap, m)
  <2>1. DOMAIN C = DOMAIN heap \cup {new} /\ Keeps(C, H, new) /\ DOMAIN H = DOMAIN C
    BY <1>14, <1>16, <1>19 DEF Grown, Placed, Keeps
  <2>2. ASSUME NEW m \in T
        PROVE  /\ IsLeaf(H, m) = IsLeaf(heap, m) /\ Bv(H, m) = Bv(heap, m)
               /\ Width(H, m) = Width(heap, m) /\ Row(H, m) = Row(heap, m)
               /\ Bits(H, m) = Bits(heap, m) /\ OnesAt(H, m) = OnesAt(heap, m)
    <3>1. m \in DOMAIN B /\ m \in DOMAIN C /\ m # new
      BY <1>1, <1>14, <2>1
    <3>2. /\ IsLeaf(C, m) = IsLeaf(heap, m) /\ Bv(C, m) = Bv(heap, m)
          /\ Width(C, m) = Width(heap, m) /\ Row(C, m) = Row(heap, m)
          /\ Bits(C, m) = Bits(heap, m) /\ OnesAt(C, m) = OnesAt(heap, m)
      BY <1>12, <1>13, <1>14, <1>16, <3>1 DEF Grown
    <3> QED  BY <2>1, <3>1, <3>2, KeptNodes
  <2>3. Bv(H, new) = <<>> /\ ~IsLeaf(H, new) /\ Width(H, new) = 2 /\ Up(H, new) = nullptr
    <3>1. new \in DOMAIN C /\ ~IsLeaf(C, new) /\ Bv(C, new) = <<>> /\ Up(C, new) = nullptr
      BY <1>9, <1>16, <2>1 DEF Grown
    <3> QED  BY <1>19, <2>1, <3>1, KeptNodes DEF Placed
  <2>4. ASSUME NEW m \in T \ R PROVE Entry(H, m) = Entry(heap, m)
    <3>1. m \in U \ Q
      BY <1>1, <1>15
    <3> QED  BY <1>12, <1>13, <1>16, <1>19, <3>1 DEF Grown, Placed
  <2> QED  BY <2>1, <2>2, <2>3, <2>4
<1>21. Entry(H, left) = e /\ Entry(H, right) = f
  <2>1. new \in U \ N /\ Row(H, new) = row /\ zero < 2 /\ one < 2
    BY <1>4, <1>19 DEF Placed
  <2> QED  BY <1>6, <1>7, <1>19, <1>20, <2>1, FilledEntry
<1>22. AllWhole(H, T \cup {new})
  <2>1. ASSUME NEW m \in T \cup {new} PROVE Whole(Len(Bv(H, m)))
    <3>1. CASE m \in T
      BY <1>20, <3>1 DEF AllWhole
    <3>2. CASE m = new
      BY <1>20, <3>2, WholeSums
    <3> QED  BY <3>1, <3>2
  <2> QED  BY <2>1 DEF AllWhole
<1>23. /\ SizeOf(H, new) = 2 /\ \A m \in T : SizeOf(H, m) = SizeOf(heap, m)
  BY <1>20, SizeFields
<1>24. Pairs(H, new, left, right) /\ \A m \in T : SameNode(heap, H, m)
  <2>1. Row(H, new) = row
    BY <1>19 DEF Placed
  <2>2. Pairs(H, new, left, right)
    BY <1>4, <1>7, <1>20, <2>1 DEF Pairs
  <2> QED  BY <1>20, <2>2 DEF SameNode, SameKids
<1>25. RootAdded(heap, H, T, R, left, right, new)
  BY <1>1, <1>3, <1>20, <1>21, <1>22, <1>23, <1>24 DEF RootAdded
<1> QED
  BY <1>8, <1>19, <1>25

\* The counters of the entry that points to m are those of m.
Exact(heap, m) == Bits(heap, m) = Entry(heap, m).b /\ OnesAt(heap, m) = Entry(heap, m).o

\* The root n has been cut in two, below a new root.
RootSplit(heap, H, T, R, n, new, newRoot) ==
  /\ DOMAIN H = DOMAIN heap \cup {new, newRoot} /\ AllWhole(H, T \cup {new, newRoot})
  /\ \A m \in T : /\ IsLeaf(H, m) = IsLeaf(heap, m)
                  /\ m # n => SizeOf(H, m) = SizeOf(heap, m)
  /\ IsLeaf(H, new) = IsLeaf(heap, n) /\ ~IsLeaf(H, newRoot)
  /\ SizeOf(H, n) = SizeOf(heap, n) \div 2
  /\ SizeOf(H, n) + SizeOf(H, new) = SizeOf(heap, n)
  /\ SizeOf(H, newRoot) = 2 /\ Up(H, newRoot) = nullptr
  /\ \A m \in T \ R : SameGap(heap, H, m)
  /\ Exact(H, n) /\ Exact(H, new)
  /\ Pairs(H, newRoot, n, new) /\ Together(heap, H, n, new)
  /\ \A m \in T : m # n => SameNode(heap, H, m)

\* Splitting a root adds two nodes.
LEMMA SplitRootForest ==
  ASSUME NEW heap, NEW T, NEW R, NEW N, NEW h, Forest(heap, T, R, N, h),
         NEW n \in R, n \notin N, AllWhole(heap, T),
         NEW new \in Nat \ {nullptr}, new \notin DOMAIN heap, new \notin N,
         NEW newRoot \in Nat \ {nullptr}, newRoot \notin DOMAIN heap, newRoot # new,
         newRoot \notin N,
         NEW U, U = T \cup {new, newRoot}, NEW S, S = (R \ {n}) \cup {newRoot},
         NEW k \in Nat, k = h[n] + 1,
         NEW g, g = Raised(Raised(h, new, h[n]), newRoot, k)
  PROVE  LET H == AddRoot(Halve(heap, n, new), n, new, newRoot)
         IN  Forest(H, U, S, N, g) /\ RootSplit(heap, H, T, R, n, new, newRoot)
<1> DEFINE K == Halve(heap, n, new)
           H == AddRoot(K, n, new, newRoot)
<1> HIDE DEF K, H
<1>1. T \subseteq DOMAIN heap /\ R \subseteq T /\ new \notin T /\ n # new /\ n \in Nat
      /\ h \in [Nat -> Nat]
  BY DEF Forest, Heap
<1>2. PICK T1, R1, g1 : T1 = T \cup {new} /\ R1 = R \cup {new} /\ g1 = Raised(h, new, h[n])
  OBVIOUS
<1>3. Forest(K, T1, R1, N, g1) /\ Halved(heap, K, T, R, n, new)
  <2>1. n \in T \ N
    BY <1>1
  <2> QED  BY <1>2, <2>1, HalveForest DEF K
<1>4. /\ DOMAIN K = DOMAIN heap \cup {new} /\ AllWhole(K, T1)
      /\ \A m \in T : /\ IsLeaf(K, m) = IsLeaf(heap, m)
                      /\ m # n => /\ SizeOf(K, m) = SizeOf(heap, m)
                                  /\ Bits(K, m) = Bits(heap, m) /\ OnesAt(K, m) = OnesAt(heap, m)
      /\ IsLeaf(K, new) = IsLeaf(heap, n)
      /\ \A m \in T \ R : Entry(K, m) = Entry(heap, m)
      /\ SizeOf(K, n) = SizeOf(heap, n) \div 2
      /\ SizeOf(K, n) + SizeOf(K, new) = SizeOf(heap, n)
  BY <1>2, <1>3 DEF Halved
<1>5. g1[n] = h[n] /\ g1[new] = h[n]
  BY <1>1, <1>2 DEF Raised
<1>6. Forest(H, U, S, N, g) /\ RootAdded(K, H, T1, R1, n, new, newRoot)
  <2>1. /\ n \in R1 /\ new \in R1 /\ g1[n] = g1[new] /\ k = g1[n] + 1
        /\ newRoot \notin DOMAIN K /\ g = Raised(g1, newRoot, k)
    BY <1>2, <1>4, <1>5
  <2>2. U = T1 \cup {newRoot} /\ S = (R1 \ {n, new}) \cup {newRoot}
    BY <1>1, <1>2
  <2> QED  BY <1>1, <1>3, <1>4, <2>1, <2>2, AddRootForest DEF H
<1>7. /\ DOMAIN H = DOMAIN K \cup {newRoot} /\ AllWhole(H, T1 \cup {newRoot})
      /\ \A m \in T1 : /\ IsLeaf(H, m) = IsLeaf(K, m) /\ SizeOf(H, m) = SizeOf(K, m)
                       /\ Bits(H, m) = Bits(K, m) /\ OnesAt(H, m) = OnesAt(K, m)
      /\ ~IsLeaf(H, newRoot) /\ SizeOf(H, newRoot) = 2 /\ Up(H, newRoot) = nullptr
      /\ \A m \in T1 \ R1 : Entry(H, m) = Entry(K, m)
      /\ Exact(H, n) /\ Exact(H, new)
  BY <1>6 DEF RootAdded, Exact
<1>8. ASSUME NEW m \in T \ R PROVE SameGap(heap, H, m)
  <2>1. m \in T1 /\ m \in T1 \ R1 /\ m # n
    BY <1>1, <1>2
  <2> QED  BY <1>4, <1>7, <2>1 DEF SameGap
<1>9. T1 \cup {newRoot} = T \cup {new, newRoot} /\ DOMAIN H = DOMAIN heap \cup {new, newRoot}
  BY <1>2, <1>4, <1>7
<1>10. n \in T1 /\ new \in T1 /\ \A m \in T : m \in T1
  BY <1>1, <1>2
<1>11. /\ Pairs(H, newRoot, n, new) /\ Together(heap, H, n, new)
       /\ \A m \in T : m # n => SameNode(heap, H, m)
  <2>1. /\ Pairs(H, newRoot, n, new) /\ \A m \in T1 : SameNode(K, H, m)
    BY <1>6 DEF RootAdded
  <2>2. Together(heap, K, n, new) /\ \A m \in T : m # n => SameNode(heap, K, m)
    BY <1>3 DEF Halved
  <2>3. Together(heap, H, n, new)
    BY <1>10, <2>1, <2>2, SameParts
  <2>4. ASSUME NEW m \in T, m # n PROVE SameNode(heap, H, m)
    BY <1>10, <2>1, <2>2, <2>4, SameNodeTwice
  <2> QED  BY <2>1, <2>3, <2>4
<1>12. RootSplit(heap, H, T, R, n, new, newRoot)
  <2>1. AllWhole(H, T \cup {new, newRoot})
    BY <1>7, <1>9
  <2> QED  BY <1>4, <1>7, <1>8, <1>9, <1>10, <1>11, <2>1 DEF RootSplit
<1> QED
  BY <1>6, <1>12 DEF H, K

-----------------------------------------------------------------------------
(* Nodes that are merged away.                                             *)

\* A root that points to nothing may be left out.
LEMMA DropRoot ==
  ASSUME NEW heap, NEW T, NEW R, NEW N, NEW h, Forest(heap, T, R, N, h),
         NEW r \in R, r \in N \/ IsLeaf(heap, r), Row(heap, r) \in NoChildren,
         NEW U, U = T \ {r}, NEW S, S = R \ {r}, NEW M, M \subseteq N, N \subseteq M \cup {r}
  PROVE  Forest(heap, U, S, M, h)
<1>1. U \ S = T \ R /\ U \ M \subseteq T \ N /\ R \subseteq T
  BY DEF Forest
<1>2. ASSUME NEW c \in T \ R PROVE Hangs(heap, h, U \ M, c)
  <2>1. Hangs(heap, h, T \ N, c)
    BY DEF Forest
  <2>2. Up(heap, c) # r
    BY <1>1, <2>1 DEF Hangs, Points
  <2> QED  BY <2>1, <2>2 DEF Hangs
<1>3. \A m \in DOMAIN heap : m \notin U \/ IsLeaf(heap, m) => Row(heap, m) \in NoChildren
  BY DEF Forest
<1>4. \A m \in U \ M : ~IsLeaf(heap, m) => Rooted(heap, h, U \ S, m)
  BY <1>1 DEF Forest
<1> QED
  BY <1>1, <1>2, <1>3, <1>4 DEF Forest

\* The entries of a node that are left out of account may be any.
WithRow(heap, n, row) == [heap EXCEPT ![n].entries = row]

\* So the forest remains one.
LEMMA WithRowForest ==
  ASSUME NEW heap, NEW T, NEW R, NEW N, NEW h, Forest(heap, T, R, N, h),
         NEW n \in T, n \in N, ~IsLeaf(heap, n), NEW row \in Rows
  PROVE  LET H == WithRow(heap, n, row)
         IN  /\ Forest(H, T, R, N, h) /\ Keeps(heap, H, n) /\ Stays(heap, H)
             /\ Row(H, n) = row /\ Width(H, n) = Width(heap, n)
             /\ \A m \in T \ R : Entry(H, m) = Entry(heap, m)
<1> DEFINE H == WithRow(heap, n, row)
<1>1. Heap(heap) /\ T \subseteq DOMAIN heap /\ R \subseteq T /\ n \in DOMAIN heap
  BY DEF Forest
<1>2. /\ Heap(H) /\ DOMAIN H = DOMAIN heap
      /\ \A m \in DOMAIN heap :
           /\ H[m].isLeaf = heap[m].isLeaf /\ H[m].parent = heap[m].parent
           /\ H[m].indexInParent = heap[m].indexInParent
           /\ H[m].size = heap[m].size /\ H[m].bv = heap[m].bv
           /\ H[m].entries = IF m = n THEN row ELSE heap[m].entries
  <2> DEFINE x == [heap[n] EXCEPT !.entries = row]
  <2>1. heap \in [DOMAIN heap -> RoughNodes] /\ heap[n] \in RoughNodes
    BY <1>1 DEF Heap
  <2>2. /\ x \in RoughNodes /\ x.entries = row
        /\ x.isLeaf = heap[n].isLeaf /\ x.parent = heap[n].parent
        /\ x.indexInParent = heap[n].indexInParent
        /\ x.size = heap[n].size /\ x.bv = heap[n].bv
    BY <2>1 DEF RoughNodes, Rows
  <2>3. H = [heap EXCEPT ![n] = x]
    BY DEF WithRow
  <2> HIDE DEF x, H
  <2>4. H \in [DOMAIN heap -> RoughNodes]
    BY <1>1, <2>1, <2>2, <2>3
  <2>5. H[n] = x /\ \A m \in DOMAIN heap : m # n => H[m] = heap[m]
    BY <1>1, <2>1, <2>3
  <2> QED  BY <1>1, <2>2, <2>4, <2>5 DEF Heap
<1> HIDE DEF H
<1>3. /\ Keeps(heap, H, n) /\ Stays(heap, H) /\ Row(H, n) = row
      /\ Width(H, n) = Width(heap, n)
  BY <1>1, <1>2 DEF Keeps, Stays, IsLeaf, Bv, Width, Row, Up, Index
<1>4. ASSUME NEW m \in DOMAIN heap
      PROVE  /\ Width(H, m) = Width(heap, m) /\ IsLeaf(H, m) = IsLeaf(heap, m)
             /\ Up(H, m) = Up(heap, m) /\ Index(H, m) = Index(heap, m)
             /\ m # n => Row(H, m) = Row(heap, m)
  BY <1>2 DEF IsLeaf, Width, Row, Up, Index
<1>5. ASSUME NEW q \in T \ N, NEW i, NEW c \in T \ R, Points(heap, h, q, i, c)
      PROVE  Points(H, h, q, i, c)
  BY <1>1, <1>4, <1>5 DEF Points
<1>6. ASSUME NEW q \in T \ N, ~IsLeaf(H, q) PROVE Rooted(H, h, T \ R, q)
  <2>1. q \in DOMAIN heap /\ q # n /\ Rooted(heap, h, T \ R, q)
    BY <1>1, <1>4, <1>6 DEF Forest
  <2> QED  BY <1>4, <1>5, <2>1 DEF Rooted
<1>7. ASSUME NEW c \in T \ R
      PROVE  Hangs(H, h, T \ N, c) /\ Entry(H, c) = Entry(heap, c)
  <2>1. c \in DOMAIN heap /\ Hangs(heap, h, T \ N, c) /\ Up(heap, c) \in DOMAIN heap \ {n}
    BY <1>1 DEF Forest, Hangs
  <2> QED  BY <1>4, <1>5, <2>1 DEF Hangs, Entry
<1>8. Forest(H, T, R, N, h)
  <2>1. /\ h \in [Nat -> Nat] /\ \A m \in T : IsLeaf(H, m) <=> h[m] = 0
    BY <1>1, <1>4 DEF Forest
  <2>2. \A m \in DOMAIN H : m \notin T \/ IsLeaf(H, m) => Row(H, m) \in NoChildren
    BY <1>1, <1>2, <1>4 DEF Forest
  <2> QED  BY <1>1, <1>2, <1>6, <1>7, <2>1, <2>2 DEF Forest
<1> QED
  BY <1>3, <1>7, <1>8 DEF H

\* The row of p has lost the entry in slot j.
Taken(heap, H, p, j) ==
  /\ Carries(Row(H, p), 0, j, Row(heap, p), 0)
  /\ Carries(Row(H, p), j, Width(H, p), Row(heap, p), j + 1)

\* So RemoveEntry leaves it.
LEMMA TakenEntry ==
  ASSUME NEW heap, NEW T, NEW R, NEW N, NEW h, Forest(heap, T, R, N, h),
         NEW p \in T \ N, ~IsLeaf(heap, p), NEW j \in Slots, j < Width(heap, p)
  PROVE  Taken(heap, RemoveEntry(heap, p, j), p, j)
<1>1. PICK H, c, S : H = RemoveEntry(heap, p, j) /\ c = Kid(Row(heap, p), j) /\ S = R \cup {c}
  OBVIOUS
<1>2. /\ Carries(Row(H, p), 0, j, Row(heap, p), 0)
      /\ Carries(Row(H, p), j, Width(H, p), Row(heap, p), j + 1)
  BY <1>1, RemoveForest
<1> QED
  BY <1>1, <1>2 DEF Taken

\* The row from which the entry after slot i was taken.
LEMMA OpenedRow ==
  ASSUME NEW heap, NEW H, NEW p, ~IsLeaf(heap, p), ~IsLeaf(H, p), NEW len, len = Width(H, p),
         Width(heap, p) \in 0..(NodeSizeMax + 1), len = Width(heap, p) - 1,
         NEW i \in Slots, NEW j \in Slots, j = i + 1, j < Width(heap, p),
         NEW s, s = Kid(Row(heap, p), j), NEW f, SameKids(f, Row(heap, p)),
         NEW g, SameKids(Row(H, p), g), Carries(g, 0, j, f, 0), Carries(g, j, len, f, j + 1)
  PROVE  Opened(H, heap, p, i, s)
<1>1. i \in Nat /\ j \in Nat /\ len \in Nat /\ i < len /\ NodeSizeMax \in Nat
  BY SizesAssumption DEF Slots
<1>2. ASSUME NEW l \in Slots, l <= i PROVE Kid(Row(heap, p), l) = Kid(Row(H, p), l)
  <2>1. 0 <= l /\ l < j /\ (l - 0) + 0 = l
    BY <1>1, <1>2 DEF Slots
  <2>2. Kid(g, l) = Kid(f, l)
    BY <2>1 DEF Carries
  <2> QED  BY <2>2 DEF SameKids
<1>3. ASSUME NEW l \in Slots, i < l, l < len
      PROVE  l + 1 \in Slots /\ Kid(Row(heap, p), l + 1) = Kid(Row(H, p), l)
  <2>1. j <= l /\ l + 1 \in Slots /\ (l - j) + (j + 1) = l + 1
    BY <1>1, <1>3 DEF Slots
  <2>2. Kid(g, l) = Kid(f, l + 1)
    BY <1>3, <2>1 DEF Carries
  <2> QED  BY <2>1, <2>2 DEF SameKids
<1>4. Width(heap, p) = len + 1
  BY <1>1
<1> QED
  BY <1>1, <1>2, <1>3, <1>4 DEF Opened

\* The sibling after n has given all it had to n.
Merged(heap, H, T, R, p, n, s) ==
  /\ DOMAIN H = DOMAIN heap /\ AllWhole(H, T \ {s})
  /\ \A m \in T \ {s} : /\ IsLeaf(H, m) = IsLeaf(heap, m)
                        /\ m # n /\ m # p => SizeOf(H, m) = SizeOf(heap, m)
  /\ SizeOf(H, p) = SizeOf(heap, p) - 1
  /\ SizeOf(H, n) = SizeOf(heap, n) + SizeOf(heap, s)
  /\ SameRoots(heap, H, R) /\ \A m \in T \ (R \cup {s}) : SameGap(heap, H, m)
  /\ Parted(H, heap, T \ {s}, p, Index(heap, n), n, s)

\* MergeLeaf leaves the right leaf out.
LEMMA MergeLeafForest ==
  ASSUME NEW heap, NEW T, NEW R, NEW N, NEW h, Forest(heap, T, R, N, h), AllWhole(heap, T),
         NEW p \in T \ N, ~IsLeaf(heap, p), NEW i \in Slots, NEW j \in Slots, j = i + 1,
         j < Width(heap, p), NEW n, n = Kid(Row(heap, p), i), IsLeaf(heap, n),
         NEW s, s = Kid(Row(heap, p), j), Exact(heap, s), NEW U, U = T \ {s}
  PROVE  LET H == MergeLeaf(heap, p, i)
         IN  Forest(H, U, R, N, h) /\ Merged(heap, H, T, R, p, n, s)
<1>1. /\ Heap(heap) /\ T \subseteq DOMAIN heap /\ R \subseteq T /\ p \in DOMAIN heap
  BY DEF Forest
<1>2. Width(heap, p) \in Nat /\ i \in Nat /\ i < Width(heap, p) /\ i # j
  BY ForestFields, SizesAssumption DEF Slots
<1>3. /\ n \in T \ R /\ Up(heap, n) = p /\ Index(heap, n) = i /\ h[p] = h[n] + 1
      /\ s \in T \ R /\ Up(heap, s) = p /\ Index(heap, s) = j /\ h[p] = h[s] + 1
      /\ Entry(heap, s) = Slot(Row(heap, p), j)
  BY <1>2, KidsOf
<1>4. /\ h[n] \in Nat /\ h[s] \in Nat /\ h[p] \in Nat /\ n \in DOMAIN heap /\ s \in DOMAIN heap
      /\ Bv(heap, n) \in Seq(BOOLEAN) /\ Bv(heap, s) \in Seq(BOOLEAN)
  BY <1>1, <1>3, ForestFields, NamedAmounts
<1>5. IsLeaf(heap, s) /\ n # s /\ p # n /\ p # s
  <2>1. h[n] = h[s] /\ n # s /\ p # n /\ p # s
    BY <1>2, <1>3, <1>4
  <2>2. \A m \in T : IsLeaf(heap, m) <=> h[m] = 0
    BY DEF Forest
  <2> QED  BY <1>3, <2>1, <2>2
<1>6. PICK x \in Seq(BOOLEAN), y \in Seq(BOOLEAN), bv \in Strings :
        /\ x = Bv(heap, n) /\ y = Bv(heap, s) /\ bv = x \o y
        /\ Len(bv) = Len(x) + Len(y) /\ CountOnes(bv) = CountOnes(x) + CountOnes(y)
  <2>1. PICK x \in Seq(BOOLEAN), y \in Seq(BOOLEAN) : x = Bv(heap, n) /\ y = Bv(heap, s)
    BY <1>4
  <2>2. x \o y \in Strings /\ Len(x \o y) = Len(x) + Len(y)
    BY ConcatProperties DEF Strings
  <2> QED  BY <2>1, <2>2, OnesOfConcat
<1>7. PICK dBits \in Int, dOnes \in Int :
        /\ dBits = Slot(Row(heap, p), j).b /\ dOnes = Slot(Row(heap, p), j).o
        /\ dBits = Len(y) /\ dOnes = CountOnes(y)
  <2>1. Entry(heap, s).b \in Int /\ Entry(heap, s).o \in Int
    BY <1>3, EntryFields
  <2>2. Bits(heap, s) = Len(y) /\ OnesAt(heap, s) = CountOnes(y)
    BY <1>1, <1>4, <1>5, <1>6, NamedAmounts
  <2> QED  BY <1>3, <2>1, <2>2 DEF Exact
<1> DEFINE A == WithBits(heap, n, bv)
           B == AddToEntry(A, p, i, dBits, dOnes)
           H == RemoveEntry(B, p, j)
<1>8. MergeLeaf(heap, p, i) = H
  <2>1. n = heap[p].entries[i].P /\ s = heap[p].entries[i + 1].P
    BY DEF Kid, Row
  <2>2. dBits = heap[p].entries[i + 1].b /\ dOnes = heap[p].entries[i + 1].o
    BY <1>7 DEF Slot, Row
  <2>3. bv = heap[n].bv \o heap[s].bv
    BY <1>6 DEF Bv
  <2> QED  BY <2>1, <2>2, <2>3 DEF MergeLeaf
<1> HIDE DEF A, B, H
<1>9. /\ Forest(A, T, R, N, h) /\ DOMAIN A = DOMAIN heap /\ Stays(heap, A) /\ Bv(A, n) = bv
      /\ \A m \in DOMAIN heap : m # n => Bv(A, m) = Bv(heap, m)
      /\ \A m \in DOMAIN heap : /\ IsLeaf(A, m) = IsLeaf(heap, m)
                                /\ Width(A, m) = Width(heap, m)
                                /\ Row(A, m) = Row(heap, m)
      /\ \A m \in T : m # n => /\ Bits(A, m) = Bits(heap, m)
                               /\ OnesAt(A, m) = OnesAt(heap, m)
      /\ \A m \in T \ R : Entry(A, m) = Entry(heap, m)
  BY <1>3, WithBitsForest DEF A
<1>10. /\ Forest(B, T, R, N, h) /\ Keeps(A, B, p) /\ Stays(A, B) /\ Width(B, p) = Width(A, p)
       /\ \A k \in Slots : Kid(Row(B, p), k) = Kid(Row(A, p), k)
       /\ Entry(B, n).b = Entry(A, n).b + dBits /\ Entry(B, n).o = Entry(A, n).o + dOnes
       /\ \A m \in T \ R : m # n => Entry(B, m) = Entry(A, m)
       /\ Bits(B, p) = Bits(A, p) + dBits /\ OnesAt(B, p) = OnesAt(A, p) + dOnes
  <2>1. ~IsLeaf(A, p) /\ i < Width(A, p) /\ n = Kid(Row(A, p), i)
    BY <1>1, <1>2, <1>9
  <2> QED  BY <1>9, <2>1, AddForest DEF B
<1>11. /\ DOMAIN B = DOMAIN heap
       /\ \A m \in T : /\ IsLeaf(B, m) = IsLeaf(A, m) /\ Bv(B, m) = Bv(A, m)
                       /\ Width(B, m) = Width(A, m)
                       /\ Up(B, m) = Up(A, m)
                       /\ m # p => Bits(B, m) = Bits(A, m) /\ OnesAt(B, m) = OnesAt(A, m)
                       /\ m # p => Row(B, m) = Row(A, m)
                       /\ SameKids(Row(B, m), Row(A, m))
  <2> SUFFICES ASSUME NEW m \in T
               PROVE  /\ IsLeaf(B, m) = IsLeaf(A, m) /\ Bv(B, m) = Bv(A, m)
                      /\ Width(B, m) = Width(A, m)
                      /\ Up(B, m) = Up(A, m)
                      /\ m # p => Bits(B, m) = Bits(A, m) /\ OnesAt(B, m) = OnesAt(A, m)
                      /\ m # p => Row(B, m) = Row(A, m)
                      /\ SameKids(Row(B, m), Row(A, m))
    BY <1>9, <1>10, KeptNodes
  <2>1. /\ IsLeaf(B, m) = IsLeaf(A, m) /\ Bv(B, m) = Bv(A, m)
        /\ Width(B, m) = Width(A, m) /\ Up(B, m) = Up(A, m)
        /\ m # p => Bits(B, m) = Bits(A, m) /\ OnesAt(B, m) = OnesAt(A, m)
        /\ m # p => Row(B, m) = Row(A, m)
    BY <1>1, <1>9, <1>10, KeptNodes DEF Stays
  <2>2. SameKids(Row(B, m), Row(A, m))
    BY <1>10, <2>1 DEF SameKids
  <2> QED  BY <2>1, <2>2
<1>12. PICK S : S = R \cup {s}
  OBVIOUS
<1>13. ~IsLeaf(B, p) /\ j < Width(B, p) /\ s = Kid(Row(B, p), j) /\ Slot(Row(B, p), j) = Entry(B, s)
  <2>1. ~IsLeaf(B, p) /\ Width(B, p) = Width(heap, p) /\ s = Kid(Row(B, p), j)
    BY <1>1, <1>9, <1>10, <1>11
  <2>2. Forest(B, T, R, N, h)
    BY <1>10
  <2> QED  BY <2>1, <2>2, FilledEntry
<1>14. /\ Forest(H, T, S, N, h) /\ Keeps(B, H, p) /\ Width(H, p) = Width(B, p) - 1
       /\ Bits(H, p) = Bits(B, p) - Slot(Row(B, p), j).b
       /\ OnesAt(H, p) = OnesAt(B, p) - Slot(Row(B, p), j).o
       /\ \A m \in DOMAIN B : Up(H, m) = Up(B, m)
       /\ \A m \in T \ S : Entry(H, m) = Entry(B, m)
       /\ Taken(B, H, p, j)
  <2>1. p \in T \ N /\ j \in Slots /\ Forest(B, T, R, N, h)
    BY <1>10
  <2>2. Taken(B, H, p, j)
    BY <1>13, <2>1, TakenEntry DEF H
  <2>3. ~IsLeaf(B, p) /\ j < Width(B, p) /\ s = Kid(Row(B, p), j)
    BY <1>13
  <2>4. PICK X : X = RemoveEntry(B, p, j)
    OBVIOUS
  <2>5. /\ Forest(X, T, S, N, h) /\ Keeps(B, X, p) /\ Width(X, p) = Width(B, p) - 1
        /\ Bits(X, p) = Bits(B, p) - Slot(Row(B, p), j).b
        /\ OnesAt(X, p) = OnesAt(B, p) - Slot(Row(B, p), j).o
        /\ \A m \in DOMAIN B : Up(X, m) = Up(B, m)
        /\ \A m \in T \ S : Entry(X, m) = Entry(B, m)
    BY <1>12, <2>1, <2>3, <2>4, RemoveForest
  <2>6. X = H
    BY <2>4 DEF H
  <2> QED  BY <2>2, <2>5, <2>6
<1>15. /\ DOMAIN H = DOMAIN heap
       /\ \A m \in T : /\ IsLeaf(H, m) = IsLeaf(B, m) /\ Bv(H, m) = Bv(B, m)
                       /\ m # p => Width(H, m) = Width(B, m)
                       /\ Up(H, m) = Up(B, m)
                       /\ m # p => Bits(H, m) = Bits(B, m) /\ OnesAt(H, m) = OnesAt(B, m)
                       /\ m # p => Row(H, m) = Row(B, m)
  BY <1>1, <1>11, <1>14, KeptNodes
<1>16. Forest(H, U, R, N, h)
  <2>1. s \in S /\ IsLeaf(H, s) /\ s \in T /\ s \in DOMAIN H /\ R = S \ {s}
    BY <1>1, <1>3, <1>4, <1>5, <1>9, <1>11, <1>12, <1>15
  <2>2. Row(H, s) \in NoChildren
    BY <1>14, <2>1 DEF Forest
  <2>3. N \subseteq N /\ N \subseteq N \cup {s}
    OBVIOUS
  <2> QED  BY <1>14, <2>1, <2>2, <2>3, DropRoot
<1>17. ASSUME NEW m \in T, m # s
       PROVE  /\ IsLeaf(H, m) = IsLeaf(heap, m)
              /\ m # n => Bv(H, m) = Bv(heap, m)
              /\ m # p => Width(H, m) = Width(heap, m)
              /\ Up(H, m) = Up(heap, m)
              /\ m # n /\ m # p => Bits(H, m) = Bits(heap, m) /\ OnesAt(H, m) = OnesAt(heap, m)
  <2>1. m \in DOMAIN heap
    BY <1>1
  <2> QED  BY <1>9, <1>11, <1>15, <1>17, <2>1 DEF Stays
<1>18. Bv(H, n) = bv /\ Width(H, p) = Width(heap, p) - 1 /\ ~IsLeaf(H, p) /\ IsLeaf(H, n)
  BY <1>1, <1>3, <1>5, <1>9, <1>11, <1>14, <1>15, <1>17
<1>19. ASSUME NEW m \in T \ (R \cup {s}) PROVE SameGap(heap, H, m)
  <2>1. /\ Bits(heap, m) \in Int /\ OnesAt(heap, m) \in Int
        /\ Entry(heap, m).b \in Int /\ Entry(heap, m).o \in Int
    BY ForestFields, EntryFields
  <2>2. m \in T \ S /\ m \in T \ R /\ m # s
    BY <1>12
  <2>3. Entry(H, m) = Entry(B, m) /\ Entry(A, m) = Entry(heap, m)
    BY <1>9, <1>14, <2>2
  <2>4. CASE m = n
    <3>1. /\ Bits(heap, n) = Len(x) /\ OnesAt(heap, n) = CountOnes(x)
          /\ Bits(H, n) = Len(bv) /\ OnesAt(H, n) = CountOnes(bv)
      <4>1. Heap(H) /\ n \in DOMAIN H
        BY <1>4, <1>14, <1>15 DEF Forest
      <4> QED  BY <1>1, <1>4, <1>6, <1>18, <4>1, NamedAmounts
    <3>2. Len(x) \in Int /\ CountOnes(x) \in Int
      BY OnesType
    <3>3. /\ Entry(H, n).b = Entry(heap, n).b + dBits
          /\ Entry(H, n).o = Entry(heap, n).o + dOnes
      BY <1>10, <2>3, <2>4
    <3>4. /\ Bits(H, n) = Bits(heap, n) + dBits
          /\ OnesAt(H, n) = OnesAt(heap, n) + dOnes
      BY <1>6, <1>7, <3>1
    <3> QED  BY <2>1, <2>4, <3>3, <3>4 DEF SameGap
  <2>5. CASE m = p
    <3>1. /\ Bits(B, p) = Bits(heap, p) + dBits /\ OnesAt(B, p) = OnesAt(heap, p) + dOnes
      BY <1>5, <1>9, <1>10
    <3>2. Slot(Row(B, p), j).b = dBits /\ Slot(Row(B, p), j).o = dOnes
      BY <1>3, <1>5, <1>7, <1>9, <1>10, <1>13
    <3>3. Bits(H, p) = Bits(heap, p) /\ OnesAt(H, p) = OnesAt(heap, p)
      BY <1>14, <2>1, <2>5, <3>1, <3>2
    <3> QED  BY <1>5, <1>10, <2>2, <2>3, <2>5, <3>3 DEF SameGap
  <2>6. CASE m # n /\ m # p
    BY <1>10, <1>17, <2>2, <2>3, <2>6 DEF SameGap
  <2> QED  BY <2>4, <2>5, <2>6
<1>20. AllWhole(H, T \ {s})
  <2>1. ASSUME NEW m \in T \ {s} PROVE Whole(Len(Bv(H, m)))
    <3>1. CASE m # n
      BY <1>17, <3>1 DEF AllWhole
    <3>2. CASE m = n
      <4>1. Whole(Len(x)) /\ Whole(Len(y)) /\ Len(x) \in Int /\ Len(y) \in Int
        BY <1>3, <1>6 DEF AllWhole
      <4> QED  BY <1>6, <1>18, <3>2, <4>1, WholeSums
    <3> QED  BY <3>1, <3>2
  <2> QED  BY <2>1 DEF AllWhole
<1>21. SizeOf(H, n) = SizeOf(heap, n) + SizeOf(heap, s)
  <2>1. Whole(Len(x)) /\ Whole(Len(y)) /\ Len(x) \in Int /\ Len(y) \in Int
    BY <1>3, <1>6 DEF AllWhole
  <2>2. Blocks(Len(bv)) = Blocks(Len(x)) + Blocks(Len(y))
    BY <1>6, <2>1, Quotients
  <2> QED  BY <1>5, <1>6, <1>18, <2>2, SizeFields
<1>22. /\ SizeOf(H, p) = SizeOf(heap, p) - 1
       /\ \A m \in T \ {s} : m # n /\ m # p => SizeOf(H, m) = SizeOf(heap, m)
  BY <1>1, <1>17, <1>18, SizeFields
<1>23. SameRoots(heap, H, R)
  BY <1>1, <1>3, <1>17 DEF SameRoots
<1>24. Parted(H, heap, T \ {s}, p, Index(heap, n), n, s)
  <2>1. Opened(H, heap, p, i, s)
    <3>1. SameKids(Row(B, p), Row(heap, p)) /\ SameKids(Row(H, p), Row(H, p))
      BY <1>1, <1>9, <1>11 DEF SameKids
    <3>2. Width(heap, p) \in 0..(NodeSizeMax + 1) /\ ~IsLeaf(H, p)
      BY <1>18, ForestRow
    <3> QED  BY <1>14, <1>18, <3>1, <3>2, OpenedRow DEF Taken
  <2>2. Together(H, heap, n, s)
    BY <1>5, <1>6, <1>18 DEF Together
  <2>3. ASSUME NEW m \in T \ {s}, m # n, m # p PROVE SameNode(H, heap, m)
    <3>1. m \in DOMAIN heap /\ Row(H, m) = Row(heap, m)
      BY <1>1, <1>9, <1>11, <1>15, <2>3
    <3> QED  BY <1>17, <2>3, <3>1 DEF SameNode, SameKids
  <2>4. Kid(Row(H, p), i) = n
    BY <2>1, SizesAssumption DEF Opened, Slots
  <2> QED  BY <1>3, <2>1, <2>2, <2>3, <2>4 DEF Parted
<1> QED
  BY <1>8, <1>15, <1>16, <1>17, <1>19, <1>20, <1>21, <1>22, <1>23, <1>24 DEF Merged

\* The counters of a row are natural numbers.
NaturalRow(row) == row \in [Slots -> [b : Nat, o : Nat, P : Nat]]

\* A row that points nowhere any more.
LEMMA EmptiedRow ==
  ASSUME NEW row \in Rows, NaturalRow(row), NEW n, Ends(row, n)
  PROVE  Emptied(row, n) \in NoChildren /\ Emptied(row, n) \in Rows
<1>1. ASSUME NEW i \in Slots
      PROVE  (IF i < n THEN [row[i] EXCEPT !.P = nullptr] ELSE row[i])
             \in [b : Nat, o : Nat, P : {nullptr}]
  <2>1. row[i] \in [b : Nat, o : Nat, P : Nat]
    BY DEF NaturalRow
  <2>2. ~(i < n) => row[i] = EmptyEntry
    BY DEF Ends, Slot
  <2> QED  BY <2>1, <2>2 DEF EmptyEntry
<1>2. Emptied(row, n) \in NoChildren
  BY <1>1 DEF Emptied, NoChildren
<1>3. NoChildren \subseteq Rows
  BY DEF NoChildren, Rows, nullptr
<1> QED
  BY <1>2, <1>3

\* The row f holds the first len entries of old and then the first k of more.
Follows(f, old, len, more, k) ==
  \A i \in Slots :
    /\ i < len => Slot(f, i) = Slot(old, i) /\ Kid(f, i) = Kid(old, i)
    /\ ~(i < len) /\ i < len + k =>
         \E j \in Slots : /\ i = len + j /\ j < k
                          /\ Slot(f, i) = Slot(more, j) /\ Kid(f, i) = Kid(more, j)

\* The stretches of a row by slots.
LEMMA FollowsOf ==
  ASSUME NEW f \in Rows, NEW old \in Rows, NEW more \in Rows, NEW len \in Nat, NEW k \in Nat,
         Carries(f, 0, len, old, 0), Carries(f, len, len + k, more, 0)
  PROVE  Follows(f, old, len, more, k)
<1>1. ASSUME NEW i \in Slots, i < len
      PROVE  Slot(f, i) = Slot(old, i) /\ Kid(f, i) = Kid(old, i)
  <2>1. 0 <= i /\ (i - 0) + 0 = i
    BY SizesAssumption DEF Slots
  <2> QED  BY <1>1, <2>1 DEF Carries
<1>2. ASSUME NEW i \in Slots, ~(i < len), i < len + k
      PROVE  \E j \in Slots : /\ i = len + j /\ j < k
                              /\ Slot(f, i) = Slot(more, j) /\ Kid(f, i) = Kid(more, j)
  <2>1. len <= i /\ i - len \in Slots /\ i = len + (i - len) /\ i - len < k
        /\ (i - len) + 0 = i - len
    BY <1>2, SizesAssumption DEF Slots
  <2> QED  BY <1>2, <2>1 DEF Carries
<1> QED
  BY <1>1, <1>2 DEF Follows

\* What the row joined from two is, by its children.
LEMMA JoinedKids ==
  ASSUME NEW f \in Rows, NEW old \in Rows, NEW more \in Rows, NEW len \in Nat, NEW k \in Nat,
         NEW end \in 0..(NodeSizeMax + 1), end = len + k, Follows(f, old, len, more, k)
  PROVE  /\ FirstKids(f, end) = FirstKids(old, len) \cup FirstKids(more, k)
         /\ \A i \in Slots : i < end =>
              \/ i < len /\ Kid(f, i) = Kid(old, i)
              \/ ~(i < len) /\ Kid(f, i) \in FirstKids(more, k)
         /\ Apart(old, len) /\ Apart(more, k)
            /\ FirstKids(old, len) \cap FirstKids(more, k) = {} => Apart(f, end)
<1>1. ASSUME NEW i \in Slots, i < end
      PROVE  \/ /\ i < len /\ Kid(f, i) = Kid(old, i) /\ Kid(f, i) \in FirstKids(old, len)
                /\ Slot(f, i) = Slot(old, i)
             \/ /\ ~(i < len) /\ Kid(f, i) \in FirstKids(more, k)
                /\ \E j \in Slots : i = len + j /\ j < k /\ Kid(f, i) = Kid(more, j)
  <2>1. CASE i < len
    BY <2>1 DEF Follows, FirstKids
  <2>2. CASE ~(i < len)
    <3>1. PICK j \in Slots : i = len + j /\ j < k /\ Kid(f, i) = Kid(more, j)
      BY <1>1, <2>2 DEF Follows
    <3> QED  BY <2>2, <3>1 DEF FirstKids
  <2> QED  BY <2>1, <2>2
<1>2. ASSUME NEW c \in FirstKids(old, len) PROVE c \in FirstKids(f, end)
  <2>1. PICK i \in Slots : i < len /\ c = Kid(old, i)
    BY DEF FirstKids
  <2>2. i < end /\ c = Kid(f, i)
    BY <2>1, SizesAssumption DEF Follows, Slots
  <2> QED  BY <2>2 DEF FirstKids
<1>3. ASSUME NEW c \in FirstKids(more, k) PROVE c \in FirstKids(f, end)
  <2>1. PICK j \in Slots : j < k /\ c = Kid(more, j)
    BY DEF FirstKids
  <2>2. PICK i \in Slots : i = len + j /\ ~(i < len) /\ i < len + k
    <3>1. len + j \in Slots /\ ~(len + j < len) /\ len + j < len + k
      BY <2>1, SizesAssumption DEF Slots
    <3> QED  BY <3>1
  <2>3. PICK l \in Slots : i = len + l /\ l < k /\ Kid(f, i) = Kid(more, l)
    BY <2>2 DEF Follows
  <2>4. l = j
    BY <2>2, <2>3, SizesAssumption DEF Slots
  <2> QED  BY <2>1, <2>2, <2>3, <2>4 DEF FirstKids
<1>4. FirstKids(f, end) = FirstKids(old, len) \cup FirstKids(more, k)
  <2>1. ASSUME NEW c \in FirstKids(f, end)
        PROVE  c \in FirstKids(old, len) \cup FirstKids(more, k)
    <3>1. PICK i \in Slots : i < end /\ c = Kid(f, i)
      BY DEF FirstKids
    <3> QED  BY <1>1, <3>1
  <2> QED  BY <1>2, <1>3, <2>1
<1>5. ASSUME Apart(old, len), Apart(more, k),
             FirstKids(old, len) \cap FirstKids(more, k) = {},
             NEW i \in Slots, NEW j \in Slots, i < end, j < end, Kid(f, i) = Kid(f, j)
      PROVE  i = j
  <2>1. CASE i < len /\ j < len
    BY <1>1, <1>5, <2>1 DEF Apart
  <2>2. CASE ~(i < len) /\ ~(j < len)
    <3>1. PICK u \in Slots : i = len + u /\ u < k /\ Kid(f, i) = Kid(more, u)
      BY <1>1, <1>5, <2>2
    <3>2. PICK v \in Slots : j = len + v /\ v < k /\ Kid(f, j) = Kid(more, v)
      BY <1>1, <1>5, <2>2
    <3>3. u = v
      BY <1>5, <3>1, <3>2 DEF Apart
    <3> QED  BY <3>1, <3>2, <3>3
  <2>3. CASE i < len <=> ~(j < len)
    BY <1>1, <1>5, <2>3
  <2> QED  BY <2>1, <2>2, <2>3
<1>6. ASSUME NEW i \in Slots, i < end
      PROVE  \/ i < len /\ Kid(f, i) = Kid(old, i)
             \/ ~(i < len) /\ Kid(f, i) \in FirstKids(more, k)
  BY <1>1, <1>6
<1>7. /\ Apart(old, len) /\ Apart(more, k)
         /\ FirstKids(old, len) \cap FirstKids(more, k) = {} => Apart(f, end)
  BY <1>5 DEF Apart
<1> QED
  BY <1>4, <1>6, <1>7

\* MergeInternal gives all children of the right node to the left one.
LEMMA MergeNodeForest ==
  ASSUME NEW heap, NEW T, NEW R, NEW N, NEW h, Forest(heap, T, R, N, h), AllWhole(heap, T),
         NEW p \in T \ N, ~IsLeaf(heap, p), NEW i \in Slots, NEW j \in Slots, j = i + 1,
         j < Width(heap, p), NEW n, n = Kid(Row(heap, p), i), n \notin N, ~IsLeaf(heap, n),
         NEW s, s = Kid(Row(heap, p), j), s \notin N, Exact(heap, s),
         NaturalRow(Row(heap, s)), Within(Width(heap, n), Width(heap, s), NodeSizeMax + 1),
         NEW U, U = T \ {s}
  PROVE  LET H == MergeInternal(heap, p, i)
         IN  Forest(H, U, R, N, h) /\ Merged(heap, H, T, R, p, n, s)
<1>1. /\ Heap(heap) /\ T \subseteq DOMAIN heap /\ R \subseteq T /\ p \in DOMAIN heap
  BY DEF Forest
<1>2. Width(heap, p) \in Nat /\ i \in Nat /\ i < Width(heap, p) /\ i # j /\ 0 <= i /\ i < j
      /\ (i - 0) + 0 = i
  BY ForestFields, SizesAssumption DEF Slots
<1>3. /\ n \in T \ R /\ Up(heap, n) = p /\ Index(heap, n) = i /\ h[p] = h[n] + 1
      /\ s \in T \ R /\ Up(heap, s) = p /\ Index(heap, s) = j /\ h[p] = h[s] + 1
      /\ Entry(heap, s) = Slot(Row(heap, p), j)
  BY <1>2, KidsOf
<1>4. /\ h[n] \in Nat /\ h[s] \in Nat /\ h[p] \in Nat /\ n \in DOMAIN heap /\ s \in DOMAIN heap
      /\ n \in Nat
  BY <1>1, <1>3, ForestFields
<1>5. ~IsLeaf(heap, s) /\ n # s /\ p # n /\ p # s /\ h[n] = h[s]
  <2>1. h[n] = h[s] /\ n # s /\ p # n /\ p # s
    BY <1>2, <1>3, <1>4
  <2>2. \A m \in T : IsLeaf(heap, m) <=> h[m] = 0
    BY DEF Forest
  <2> QED  BY <1>3, <2>1, <2>2
<1>6. PICK old \in Rows, len \in Nat, more \in Rows, k \in Nat, end \in 0..(NodeSizeMax + 1) :
        /\ old = Row(heap, n) /\ len = Width(heap, n)
        /\ more = Row(heap, s) /\ k = Width(heap, s) /\ end = len + k
        /\ Ends(old, len) /\ Apart(old, len) /\ Ends(more, k) /\ Apart(more, k)
        /\ k \in 0..(NodeSizeMax + 1) /\ len + k <= NodeSizeMax + 1
  <2>1. PICK old \in Rows, len \in Nat :
          old = Row(heap, n) /\ len = Width(heap, n) /\ Ends(old, len) /\ Apart(old, len)
    BY <1>3, ForestRow, SizesAssumption
  <2>2. PICK more \in Rows, k \in Nat :
          /\ more = Row(heap, s) /\ k = Width(heap, s) /\ Ends(more, k) /\ Apart(more, k)
          /\ k \in 0..(NodeSizeMax + 1)
    BY <1>3, <1>5, ForestRow, SizesAssumption
  <2>3. len + k <= NodeSizeMax + 1
    BY <2>1, <2>2 DEF Within
  <2>4. PICK end \in 0..(NodeSizeMax + 1) : end = len + k
    BY <2>3, SizesAssumption
  <2> QED  BY <2>1, <2>2, <2>3, <2>4
<1>7. PICK dBits \in Int, dOnes \in Int :
        /\ dBits = SumBelow(Bs(more), k) /\ dOnes = SumBelow(Os(more), k)
        /\ dBits = Bits(heap, s) /\ dOnes = OnesAt(heap, s)
        /\ dBits = Slot(Row(heap, p), j).b /\ dOnes = Slot(Row(heap, p), j).o
        /\ dBits = BitsBelow(heap[s], k) /\ dOnes = OnesBelow(heap[s], k)
  <2>1. SumBelow(Bs(more), k) = Total(Bs(more)) /\ SumBelow(Os(more), k) = Total(Os(more))
    BY <1>6, EndedSum
  <2>2. /\ Bits(heap, s) = Total(Bs(more)) /\ OnesAt(heap, s) = Total(Os(more))
        /\ Bits(heap, s) \in Int /\ OnesAt(heap, s) \in Int
    BY <1>1, <1>4, <1>5, <1>6, NamedAmounts
  <2>3. /\ BitsBelow(heap[s], k) = SumBelow(Bs(more), k)
        /\ OnesBelow(heap[s], k) = SumBelow(Os(more), k)
    BY <1>6 DEF BitsBelow, OnesBelow, Bs, Os, Row
  <2>4. Bits(heap, s) = Slot(Row(heap, p), j).b /\ OnesAt(heap, s) = Slot(Row(heap, p), j).o
    BY <1>3 DEF Exact
  <2> QED  BY <2>1, <2>2, <2>3, <2>4
<1> DEFINE D == 0..(k - 1)
           F == len..(end - 1)
           f == Joined(old, len, more, k)
           empty == Emptied(more, k)
           A == AdoptAll(heap, more, D, n)
           E == WithRow(A, s, empty)
           P == Place(E, n, f, end, F)
           Q == RemoveEntry(P, p, j)
           H == AddToEntry(Q, p, i, dBits, dOnes)
<1>8. MergeInternal(heap, p, i) = H
  <2>1. n = heap[p].entries[i].P /\ s = heap[p].entries[i + 1].P
    BY DEF Kid, Row
  <2>2. /\ old = heap[n].entries /\ more = heap[s].entries
        /\ len = heap[n].size /\ k = heap[s].size
    BY <1>6 DEF Row, Width
  <2>3. E = [AdoptAll(heap, heap[s].entries, 0..(heap[s].size - 1), n)
               EXCEPT ![s].entries = Emptied(heap[s].entries, heap[s].size)]
    BY <2>2 DEF WithRow
  <2>4. P = Place(E, n, Joined(heap[n].entries, heap[n].size, heap[s].entries, heap[s].size),
                  heap[n].size + heap[s].size,
                  heap[n].size..(heap[n].size + heap[s].size - 1))
    <3> HIDE DEF E
    <3> QED  BY <1>6, <2>2
  <2>5. H = AddToEntry(RemoveEntry(P, p, i + 1), p, i, BitsBelow(heap[s], heap[s].size),
                       OnesBelow(heap[s], heap[s].size))
    <3> HIDE DEF P
    <3> QED  BY <1>7, <2>2
  <2> HIDE DEF E, P, H
  <2> QED  BY <2>1, <2>3, <2>4, <2>5 DEF MergeInternal
<1>9. /\ D \in SUBSET Slots /\ F \in SUBSET Slots /\ \A l \in F : l < end /\ ~(l < len)
      /\ \A l \in Slots : (l \in D <=> l < k) /\ (l < len => l < end)
      /\ \A l \in Slots : l < end /\ l \notin F => l < len
  <2> HIDE DEF A, E, P, Q, H, f, empty
  <2>1. len \in Nat /\ k \in Nat /\ end = len + k /\ NodeSizeMax \in Nat
        /\ end <= NodeSizeMax + 1 /\ end \in Nat
    BY <1>6, SizesAssumption
  <2>2. D \in SUBSET Slots /\ F \in SUBSET Slots
    BY <2>1 DEF Slots
  <2>3. \A l \in F : l < end /\ ~(l < len)
    BY <2>1
  <2>4. ASSUME NEW l \in Slots PROVE (l \in D <=> l < k) /\ (l < len => l < end)
    BY <2>1 DEF Slots
  <2>5. ASSUME NEW l \in Slots, l < end, l \notin F PROVE l < len
    BY <2>1, <2>5 DEF Slots
  <2> QED  BY <2>2, <2>3, <2>4, <2>5
<1> HIDE DEF D, F, f, empty, A, E, P, Q, H
<1>10. /\ f \in Rows /\ Ends(f, end) /\ Follows(f, old, len, more, k)
       /\ Total(Bs(f)) = Total(Bs(old)) + dBits /\ Total(Os(f)) = Total(Os(old)) + dOnes
       /\ empty \in NoChildren /\ empty \in Rows
  <2>1. /\ f \in Rows /\ Ends(f, len + k)
        /\ Carries(f, 0, len, old, 0) /\ Carries(f, len, len + k, more, 0)
        /\ Total(Bs(f)) = Total(Bs(old)) + SumBelow(Bs(more), k)
        /\ Total(Os(f)) = Total(Os(old)) + SumBelow(Os(more), k)
    BY <1>6, JoinedRow DEF f
  <2>2. empty \in NoChildren /\ empty \in Rows
    BY <1>6, EmptiedRow DEF empty
  <2>3. Follows(f, old, len, more, k)
    BY <2>1, FollowsOf
  <2> QED  BY <1>6, <1>7, <2>1, <2>2, <2>3
<1>11. PICK kn, ks, R1, N1, R2, N2 :
         /\ kn = Kids(heap, n) /\ ks = Kids(heap, s)
         /\ R1 = R \cup kn /\ N1 = N \cup {n} /\ R2 = R1 \cup ks /\ N2 = N1 \cup {s}
  OBVIOUS
<1>12. /\ kn \subseteq T \ R /\ ks \subseteq T \ R
       /\ \A c \in T \ R : (c \in kn <=> Up(heap, c) = n) /\ (c \in ks <=> Up(heap, c) = s)
       /\ kn = FirstKids(old, len) /\ ks = FirstKids(more, k)
       /\ \A l \in Slots : l < len => /\ Kid(old, l) \in kn /\ Index(heap, Kid(old, l)) = l
                                      /\ h[n] = h[Kid(old, l)] + 1
                                      /\ Entry(heap, Kid(old, l)) = Slot(old, l)
       /\ \A l \in Slots : l < k => /\ Kid(more, l) \in ks
                                    /\ h[n] = h[Kid(more, l)] + 1
                                    /\ Entry(heap, Kid(more, l)) = Slot(more, l)
  <2>1. /\ kn \subseteq T \ R /\ ks \subseteq T \ R
        /\ \A c \in T \ R : (c \in kn <=> Up(heap, c) = n) /\ (c \in ks <=> Up(heap, c) = s)
    BY <1>3, <1>5, <1>11, KidsOf
  <2>2. kn = FirstKids(old, len) /\ ks = FirstKids(more, k)
    BY <1>6, <1>11 DEF Kids
  <2>3. ASSUME NEW l \in Slots, l < len, NEW c, c = Kid(old, l)
        PROVE  c \in kn /\ Index(heap, c) = l /\ h[n] = h[c] + 1
               /\ Entry(heap, c) = Slot(old, l)
    <3>1. l < Width(heap, n) /\ c = Kid(Row(heap, n), l)
      BY <1>6, <2>3
    <3>2. /\ c \in Kids(heap, n) /\ Index(heap, c) = l
          /\ h[n] = h[c] + 1 /\ Entry(heap, c) = Slot(Row(heap, n), l)
      BY <1>3, <3>1, KidsOf
    <3> QED  BY <1>6, <1>11, <3>2
  <2>4. ASSUME NEW l \in Slots, l < k, NEW c, c = Kid(more, l)
        PROVE  c \in ks /\ h[n] = h[c] + 1 /\ Entry(heap, c) = Slot(more, l)
    <3>1. l < Width(heap, s) /\ c = Kid(Row(heap, s), l)
      BY <1>6, <2>4
    <3>2. /\ c \in Kids(heap, s)
          /\ h[s] = h[c] + 1 /\ Entry(heap, c) = Slot(Row(heap, s), l)
      BY <1>3, <1>5, <3>1, KidsOf
    <3> QED  BY <1>5, <1>6, <1>11, <3>2
  <2> QED  BY <2>1, <2>2, <2>3, <2>4
<1>13. ASSUME NEW c \in kn \cup ks
       PROVE  /\ h[n] = h[c] + 1 /\ c \in T /\ c \notin R /\ c \in DOMAIN heap
              /\ c # n /\ c # s /\ c # p
  <2>1. h[n] = h[c] + 1
    <3>1. CASE c \in kn
      <4>1. PICK l \in Slots : l < len /\ c = Kid(old, l)
        BY <1>12, <3>1 DEF FirstKids
      <4> QED  BY <1>12, <4>1
    <3>2. CASE c \in ks
      <4>1. PICK l \in Slots : l < k /\ c = Kid(more, l)
        BY <1>12, <3>2 DEF FirstKids
      <4> QED  BY <1>12, <4>1
    <3> QED  BY <3>1, <3>2
  <2>2. c \in T /\ c \notin R /\ c \in DOMAIN heap
    BY <1>1, <1>12
  <2>3. h[c] \in Nat
    BY <2>2, ForestFields
  <2>4. h[c] # h[n] /\ h[c] # h[s] /\ h[c] # h[p]
    BY <1>3, <1>4, <1>5, <2>1, <2>3
  <2> QED  BY <2>1, <2>2, <2>4
<1>14. kn \cap ks = {} /\ R \cap (kn \cup ks) = {}
  BY <1>5, <1>12, <1>13
<1>15. Forest(heap, T, R2, N2, h)
  <2>1. Forest(heap, T, R1, N1, h)
    BY <1>3, <1>11, BlankForest
  <2>2. s \in T \ N1
    BY <1>3, <1>5, <1>11
  <2> QED  BY <1>5, <1>11, <2>1, <2>2, BlankForest
<1>16. /\ Forest(A, T, R2, N2, h) /\ DOMAIN A = DOMAIN heap
       /\ \A m \in DOMAIN heap :
            /\ Up(A, m) = IF \E l \in D : Kid(more, l) = m THEN n ELSE Up(heap, m)
            /\ Index(A, m) = Index(heap, m) /\ IsLeaf(A, m) = IsLeaf(heap, m)
            /\ Bv(A, m) = Bv(heap, m)
            /\ Width(A, m) = Width(heap, m) /\ Row(A, m) = Row(heap, m)
       /\ \A m \in T \ R2 : Entry(A, m) = Entry(heap, m)
  <2>1. AtRoots(more, D, R2)
    BY <1>9, <1>11, <1>12 DEF AtRoots
  <2> QED  BY <1>4, <1>9, <1>15, <2>1, AdoptAllForest DEF A
<1>17. ASSUME NEW m \in DOMAIN heap
       PROVE  Up(A, m) = IF m \in ks THEN n ELSE Up(heap, m)
  <2>1. m \in ks <=> \E l \in D : Kid(more, l) = m
    BY <1>9, <1>12 DEF FirstKids
  <2> QED  BY <1>16, <2>1
<1>18. /\ Forest(E, T, R2, N2, h) /\ Keeps(A, E, s) /\ Stays(A, E)
       /\ Row(E, s) = empty /\ Width(E, s) = Width(A, s)
       /\ \A m \in T \ R2 : Entry(E, m) = Entry(A, m)
  <2>1. s \in T /\ s \in N2 /\ ~IsLeaf(A, s)
    BY <1>3, <1>4, <1>5, <1>11, <1>16
  <2> QED  BY <1>10, <1>16, <2>1, WithRowForest DEF E
<1>19. /\ DOMAIN E = DOMAIN heap
       /\ \A m \in DOMAIN heap :
            /\ IsLeaf(E, m) = IsLeaf(heap, m) /\ Bv(E, m) = Bv(heap, m)
            /\ m # s => Width(E, m) = Width(heap, m) /\ Row(E, m) = Row(heap, m)
            /\ Up(E, m) = IF m \in ks THEN n ELSE Up(heap, m)
            /\ Index(E, m) = Index(heap, m)
  <2>1. DOMAIN E = DOMAIN heap
    BY <1>16, <1>18, KeptNodes
  <2>2. ASSUME NEW m \in DOMAIN heap
        PROVE  /\ IsLeaf(E, m) = IsLeaf(heap, m) /\ Bv(E, m) = Bv(heap, m)
               /\ m # s => Width(E, m) = Width(heap, m) /\ Row(E, m) = Row(heap, m)
    BY <1>16, <1>18, KeptNodes
  <2>3. ASSUME NEW m \in DOMAIN heap
        PROVE  /\ Up(E, m) = IF m \in ks THEN n ELSE Up(heap, m)
               /\ Index(E, m) = Index(heap, m)
    BY <1>16, <1>17, <1>18 DEF Stays
  <2> QED  BY <2>1, <2>2, <2>3
<1>20. /\ FirstKids(f, end) = kn \cup ks /\ Apart(f, end)
       /\ \A l \in Slots : l < end => \/ l < len /\ Kid(f, l) = Kid(old, l)
                                      \/ ~(l < len) /\ Kid(f, l) \in ks
  BY <1>6, <1>10, <1>12, <1>14, JoinedKids
<1>21. Fills(E, h, R2, n, f, end, F)
  <2>1. Placeable(f, end, F)
    <3>1. Distinct(f, F)
      BY <1>9, <1>20 DEF Distinct, Apart
    <3> QED  BY <1>6, <1>9, <1>10, <3>1 DEF Placeable
  <2>2. ASSUME NEW l \in Slots, l < end
        PROVE  /\ Kid(f, l) \in R2 /\ Up(E, Kid(f, l)) = n
               /\ h[n] = h[Kid(f, l)] + 1 /\ (l \notin F => Index(E, Kid(f, l)) = l)
    <3>1. PICK c : c = Kid(f, l)
      OBVIOUS
    <3>2. CASE l < len
      <4>1. c = Kid(old, l) /\ c \in kn /\ Index(heap, c) = l
        BY <1>12, <1>20, <2>2, <3>1, <3>2
      <4>2. Up(heap, c) = n /\ c \notin ks /\ c \in DOMAIN heap /\ h[n] = h[c] + 1
        BY <1>12, <1>13, <1>14, <4>1
      <4> QED  BY <1>11, <1>19, <3>1, <4>1, <4>2
    <3>3. CASE ~(l < len)
      <4>1. c \in ks /\ l \in F
        BY <1>9, <1>20, <2>2, <3>1, <3>3
      <4>2. c \in DOMAIN heap /\ h[n] = h[c] + 1
        BY <1>13, <4>1
      <4> QED  BY <1>11, <1>19, <3>1, <4>1, <4>2
    <3> QED  BY <3>2, <3>3
  <2>3. \A l \in F : l < end
    BY <1>9
  <2>4. Ends(f, end) /\ Apart(f, end)
    BY <1>10, <1>20
  <2> HIDE DEF Fills
  <2> QED  BY <2>1, <2>2, <2>3, <2>4, Zenon DEF Fills
<1>22. PICK M, S : M = N \cup {s} /\ S = R \cup {s}
  OBVIOUS
<1>23. Forest(P, T, R, M, h) /\ Placed(E, P, T, R2, n, f, end)
  <2>1. R = R2 \ FirstKids(f, end)
    BY <1>11, <1>14, <1>20
  <2>2. M = N2 \ {n} /\ n \in N2 /\ n \in T /\ ~IsLeaf(E, n)
    BY <1>3, <1>4, <1>5, <1>11, <1>19, <1>22
  <2>3. Forest(E, T, R2, N2, h)
    BY <1>18
  <2> QED  BY <1>21, <2>1, <2>2, <2>3, PlacedForest DEF P
<1>24. /\ DOMAIN P = DOMAIN heap /\ Width(P, n) = end /\ Row(P, n) = f
       /\ \A m \in DOMAIN heap :
            /\ IsLeaf(P, m) = IsLeaf(heap, m) /\ Bv(P, m) = Bv(heap, m)
            /\ m # n => Width(P, m) = Width(E, m) /\ Row(P, m) = Row(E, m)
            /\ Up(P, m) = IF m \in ks THEN n ELSE Up(heap, m)
       /\ \A m \in T \ R2 : Entry(P, m) = Entry(heap, m)
  <2>1. /\ Keeps(E, P, n) /\ Width(P, n) = end /\ Row(P, n) = f
        /\ \A m \in DOMAIN E : Up(P, m) = Up(E, m)
        /\ \A m \in T \ R2 : Entry(P, m) = Entry(E, m)
    BY <1>23 DEF Placed
  <2> QED  BY <1>16, <1>18, <1>19, <2>1, KeptNodes
<1>25. ~IsLeaf(P, p) /\ j < Width(P, p) /\ s = Kid(Row(P, p), j) /\ Row(P, p) = Row(heap, p)
       /\ Width(P, p) = Width(heap, p) /\ p \in T \ M
  BY <1>1, <1>5, <1>19, <1>22, <1>24
<1>26. /\ Forest(Q, T, S, M, h) /\ Keeps(P, Q, p) /\ Width(Q, p) = Width(P, p) - 1
       /\ Carries(Row(Q, p), 0, j, Row(P, p), 0)
       /\ Carries(Row(Q, p), j, Width(Q, p), Row(P, p), j + 1)
       /\ Bits(Q, p) = Bits(P, p) - Slot(Row(P, p), j).b
       /\ OnesAt(Q, p) = OnesAt(P, p) - Slot(Row(P, p), j).o
       /\ \A m \in DOMAIN P : Up(Q, m) = Up(P, m)
       /\ \A m \in T \ S : Entry(Q, m) = Entry(P, m)
  <2>1. Forest(P, T, R, M, h)
    BY <1>23
  <2> QED  BY <1>22, <1>25, <2>1, RemoveForest DEF Q
<1>27. ~IsLeaf(Q, p) /\ i < Width(Q, p) /\ n = Kid(Row(Q, p), i)
  <2>1. ~IsLeaf(Q, p)
    BY <1>1, <1>24, <1>25, <1>26, KeptNodes
  <2>2. i < Width(Q, p)
    BY <1>2, <1>25, <1>26
  <2>3. Kid(Row(Q, p), i) = Kid(Row(P, p), i)
    BY <1>2, <1>26 DEF Carries
  <2> QED  BY <1>25, <2>1, <2>2, <2>3
<1>28. /\ Forest(H, T, S, M, h) /\ Keeps(Q, H, p) /\ Stays(Q, H) /\ Width(H, p) = Width(Q, p)
       /\ SameKids(Row(H, p), Row(Q, p))
       /\ Entry(H, n).b = Entry(Q, n).b + dBits /\ Entry(H, n).o = Entry(Q, n).o + dOnes
       /\ \A m \in T \ S : m # n => Entry(H, m) = Entry(Q, m)
       /\ Bits(H, p) = Bits(Q, p) + dBits /\ OnesAt(H, p) = OnesAt(Q, p) + dOnes
  <2>1. Forest(Q, T, S, M, h)
    BY <1>26
  <2> QED  BY <1>25, <1>27, <2>1, AddForest DEF H, SameKids
<1>29. /\ DOMAIN H = DOMAIN heap
       /\ \A m \in DOMAIN heap :
            /\ IsLeaf(H, m) = IsLeaf(heap, m) /\ Bv(H, m) = Bv(heap, m)
            /\ m # p => Width(H, m) = Width(P, m) /\ Row(H, m) = Row(P, m)
            /\ Up(H, m) = IF m \in ks THEN n ELSE Up(heap, m)
  <2>1. DOMAIN Q = DOMAIN heap /\ DOMAIN H = DOMAIN heap
    BY <1>24, <1>26, <1>28, KeptNodes
  <2>2. ASSUME NEW m \in DOMAIN heap
        PROVE  /\ IsLeaf(H, m) = IsLeaf(heap, m) /\ Bv(H, m) = Bv(heap, m)
               /\ m # p => Width(H, m) = Width(P, m) /\ Row(H, m) = Row(P, m)
    BY <1>24, <1>26, <1>28, <2>1, KeptNodes
  <2>3. ASSUME NEW m \in DOMAIN heap PROVE Up(H, m) = IF m \in ks THEN n ELSE Up(heap, m)
    BY <1>24, <1>26, <1>28, <2>1 DEF Stays
  <2> QED  BY <2>1, <2>2, <2>3
<1>30. Forest(H, U, R, N, h)
  <2>1. s \in S /\ s \in M /\ R = S \ {s}
    BY <1>3, <1>22
  <2>2. Row(H, s) \in NoChildren
    BY <1>4, <1>5, <1>10, <1>18, <1>24, <1>29
  <2>3. N \subseteq M /\ M \subseteq N \cup {s}
    BY <1>22
  <2>4. Forest(H, T, S, M, h)
    BY <1>28
  <2> QED  BY <2>1, <2>2, <2>3, <2>4, DropRoot
<1>31. ASSUME NEW m \in T, m # s, m # n, m # p
       PROVE  /\ Width(H, m) = Width(heap, m)
              /\ Bits(H, m) = Bits(heap, m) /\ OnesAt(H, m) = OnesAt(heap, m)
  <2>1. m \in DOMAIN heap
    BY <1>1
  <2>2. /\ IsLeaf(H, m) = IsLeaf(heap, m) /\ Bv(H, m) = Bv(heap, m)
        /\ Width(H, m) = Width(heap, m) /\ Row(H, m) = Row(heap, m)
    BY <1>19, <1>24, <1>29, <1>31, <2>1
  <2> QED  BY <2>2, SameAmounts
<1>32. /\ Width(H, n) = end /\ Row(H, n) = f /\ ~IsLeaf(H, n)
       /\ Width(H, p) = Width(heap, p) - 1 /\ ~IsLeaf(H, p)
  BY <1>1, <1>4, <1>5, <1>24, <1>25, <1>26, <1>28, <1>29
<1>33. ASSUME NEW m \in T \ (R \cup {s}) PROVE SameGap(heap, H, m)
  <2>1. /\ Bits(heap, m) \in Int /\ OnesAt(heap, m) \in Int
        /\ Entry(heap, m).b \in Int /\ Entry(heap, m).o \in Int
    BY ForestFields, EntryFields
  <2>2. m \in T \ S /\ m \in T \ R /\ m # s
    BY <1>22
  <2>3. Entry(Q, m) = Entry(P, m) /\ (m # n => Entry(H, m) = Entry(Q, m))
    BY <1>26, <1>28, <2>2
  <2>4. CASE m \in kn \cup ks
    <3>1. PICK l \in Slots : l < end /\ m = Kid(f, l)
      BY <1>20, <2>4 DEF FirstKids
    <3>2. Entry(P, m) = Slot(f, l)
      <4>1. n \in T \ M /\ ~IsLeaf(P, n) /\ l < Width(P, n) /\ m = Kid(Row(P, n), l)
        BY <1>3, <1>4, <1>5, <1>22, <1>24, <3>1
      <4>2. Forest(P, T, R, M, h)
        BY <1>23
      <4>3. Entry(P, m) = Slot(Row(P, n), l)
        BY <4>1, <4>2, FilledEntry
      <4> QED  BY <1>24, <4>3
    <3>3. Slot(f, l) = Entry(heap, m)
      <4>1. CASE l < len
        BY <1>10, <1>12, <3>1, <4>1 DEF Follows
      <4>2. CASE ~(l < len)
        <5>1. l < len + k
          BY <1>6, <3>1
        <5>2. PICK u \in Slots : u < k /\ Slot(f, l) = Slot(more, u) /\ Kid(f, l) = Kid(more, u)
          BY <1>10, <4>2, <5>1 DEF Follows
        <5> QED  BY <1>12, <3>1, <5>2
      <4> QED  BY <4>1, <4>2
    <3>4. m # n /\ m # s /\ m # p
      BY <1>13, <2>4
    <3>5. Entry(H, m) = Entry(heap, m)
      BY <2>3, <3>2, <3>3, <3>4
    <3>6. Bits(H, m) = Bits(heap, m) /\ OnesAt(H, m) = OnesAt(heap, m)
      BY <1>31, <2>2, <3>4
    <3> QED  BY <3>5, <3>6 DEF SameGap
  <2>5. CASE m \notin kn \cup ks
    <3>1. m \in T \ R2
      BY <1>11, <2>2, <2>5
    <3>2. Entry(Q, m) = Entry(heap, m)
      BY <1>24, <2>3, <3>1
    <3>3. CASE m = n
      <4>1. /\ Bits(heap, n) = Total(Bs(old)) /\ OnesAt(heap, n) = Total(Os(old))
            /\ Bits(H, n) = Total(Bs(f)) /\ OnesAt(H, n) = Total(Os(f))
        <5>1. Heap(H) /\ n \in DOMAIN H
          BY <1>4, <1>28, <1>29 DEF Forest
        <5> QED  BY <1>1, <1>4, <1>6, <1>32, <5>1, NamedAmounts
      <4>2. /\ Entry(H, n).b = Entry(heap, n).b + dBits
            /\ Entry(H, n).o = Entry(heap, n).o + dOnes
        BY <1>28, <3>2, <3>3
      <4>3. /\ Bits(H, n) = Bits(heap, n) + dBits
            /\ OnesAt(H, n) = OnesAt(heap, n) + dOnes
        BY <1>10, <4>1
      <4> QED  BY <2>1, <3>3, <4>2, <4>3 DEF SameGap
    <3>4. CASE m = p
      <4>1. Bits(P, p) = Bits(heap, p) /\ OnesAt(P, p) = OnesAt(heap, p)
        BY <1>1, <1>24, <1>25, SameAmounts
      <4>2. Bits(H, p) = Bits(heap, p) /\ OnesAt(H, p) = OnesAt(heap, p)
        BY <1>7, <1>25, <1>26, <1>28, <2>1, <3>4, <4>1
      <4> QED  BY <1>5, <2>3, <3>2, <3>4, <4>2 DEF SameGap
    <3>5. CASE m # n /\ m # p
      BY <1>31, <2>2, <2>3, <3>2, <3>5 DEF SameGap
    <3> QED  BY <3>3, <3>4, <3>5
  <2> QED  BY <2>4, <2>5
<1>34. AllWhole(H, T \ {s})
  BY <1>1, <1>29 DEF AllWhole
<1>35. ASSUME NEW m \in T \ {s} PROVE IsLeaf(H, m) = IsLeaf(heap, m)
  BY <1>1, <1>29
<1>36. /\ SizeOf(H, p) = SizeOf(heap, p) - 1
       /\ SizeOf(H, n) = SizeOf(heap, n) + SizeOf(heap, s)
       /\ \A m \in T \ {s} : m # n /\ m # p => SizeOf(H, m) = SizeOf(heap, m)
  <2>1. SizeOf(H, p) = SizeOf(heap, p) - 1
    BY <1>32, SizeFields
  <2>2. SizeOf(H, n) = SizeOf(heap, n) + SizeOf(heap, s)
    BY <1>5, <1>6, <1>32, SizeFields
  <2>3. ASSUME NEW m \in T \ {s}, m # n, m # p PROVE SizeOf(H, m) = SizeOf(heap, m)
    BY <1>1, <1>29, <1>31, <2>3, SizeFields
  <2> QED  BY <2>1, <2>2, <2>3
<1>37. SameRoots(heap, H, R)
  BY <1>1, <1>14, <1>29 DEF SameRoots
<1>38. Parted(H, heap, T \ {s}, p, Index(heap, n), n, s)
  <2>1. Opened(H, heap, p, i, s)
    <3>1. SameKids(Row(P, p), Row(heap, p))
      BY <1>25 DEF SameKids
    <3>2. Width(heap, p) \in 0..(NodeSizeMax + 1)
      BY ForestRow
    <3> QED  BY <1>26, <1>28, <1>32, <3>1, <3>2, OpenedRow
  <2>2. Together(H, heap, n, s)
    <3>1. ~IsLeaf(heap, n) /\ IsLeaf(H, n) = IsLeaf(heap, n) /\ IsLeaf(heap, s) = IsLeaf(heap, n)
      <4>1. IsLeaf(heap, s) \in BOOLEAN /\ IsLeaf(heap, n) \in BOOLEAN
        BY <1>1, <1>4 DEF Heap, RoughNodes, IsLeaf
      <4> QED  BY <1>4, <1>5, <1>29, <4>1
    <3>2. KidsJoined(f, old, len, more, k)
      <4>1. ASSUME NEW l \in Slots, l < len PROVE Kid(f, l) = Kid(old, l)
        BY <1>10, <4>1 DEF Follows
      <4>2. ASSUME NEW l \in Slots, l < k
            PROVE  len + l \in Slots /\ Kid(f, len + l) = Kid(more, l)
        <5>1. len + l \in Slots /\ ~(len + l < len) /\ len + l < len + k
          BY <1>6, <4>2, SizesAssumption DEF Slots
        <5>2. PICK u \in Slots : len + l = len + u /\ Kid(f, len + l) = Kid(more, u)
          BY <1>10, <5>1 DEF Follows
        <5>3. u = l
          BY <1>6, <5>2, SizesAssumption DEF Slots
        <5> QED  BY <5>1, <5>2, <5>3
      <4> QED  BY <4>1, <4>2 DEF KidsJoined
    <3> QED  BY <1>5, <1>6, <1>32, <3>1, <3>2 DEF Together
  <2>3. ASSUME NEW m \in T \ {s}, m # n, m # p PROVE SameNode(H, heap, m)
    <3>1. /\ IsLeaf(H, m) = IsLeaf(heap, m) /\ Bv(H, m) = Bv(heap, m)
          /\ Width(H, m) = Width(heap, m) /\ Row(H, m) = Row(heap, m)
      BY <1>1, <1>19, <1>24, <1>29, <2>3
    <3> QED  BY <3>1 DEF SameNode, SameKids
  <2>4. Kid(Row(H, p), i) = n
    BY <2>1, SizesAssumption DEF Opened, Slots
  <2> QED  BY <1>3, <2>1, <2>2, <2>3, <2>4 DEF Parted
<1> QED
  BY <1>8, <1>29, <1>30, <1>33, <1>34, <1>35, <1>36, <1>37, <1>38 DEF Merged

\* Merge, for either kind of node.
LEMMA MergeForest ==
  ASSUME NEW heap, NEW T, NEW R, NEW N, NEW h, Forest(heap, T, R, N, h), AllWhole(heap, T),
         NEW p \in T \ N, ~IsLeaf(heap, p), NEW i \in Slots, NEW j \in Slots, j = i + 1,
         j < Width(heap, p), NEW n, n = Kid(Row(heap, p), i), n \notin N,
         NEW s, s = Kid(Row(heap, p), j), s \notin N, Exact(heap, s),
         NaturalRow(Row(heap, s)),
         ~IsLeaf(heap, n) => Within(Width(heap, n), Width(heap, s), NodeSizeMax + 1),
         NEW U, U = T \ {s}
  PROVE  LET H == Merge(heap, p, i)
         IN  Forest(H, U, R, N, h) /\ Merged(heap, H, T, R, p, n, s)
<1>1. Merge(heap, p, i) = IF IsLeaf(heap, n) THEN MergeLeaf(heap, p, i)
                          ELSE MergeInternal(heap, p, i)
  BY DEF Merge, IsLeaf, Kid, Row
<1>2. CASE IsLeaf(heap, n)
  BY <1>1, <1>2, MergeLeafForest
<1>3. CASE ~IsLeaf(heap, n)
  BY <1>1, <1>3, MergeNodeForest
<1> QED
  BY <1>2, <1>3

-----------------------------------------------------------------------------
(* The old root is deleted, when it has one child left.                    *)

FreedStep(heap, f) ==
  [n \in DOMAIN heap |->
    Append(Concat([i \in Slots |-> IF heap[n].entries[i].P = nullptr THEN <<>>
                                   ELSE f[heap[n].entries[i].P]], NodeSizeMax + 1), n)]

\* Every child is of lower rank than its parent.
Descends(heap, rank) ==
  \A n \in DOMAIN heap, i \in Slots :
    \/ Kid(Row(heap, n), i) = nullptr
    \/ /\ Kid(Row(heap, n), i) \in DOMAIN heap
       /\ rank[Kid(Row(heap, n), i)] < rank[n]

\* Then what deleting a node frees is defined by recursion.
LEMMA FreedTable ==
  ASSUME NEW heap, NEW b \in Nat, NEW rank \in [DOMAIN heap -> 0..b], Descends(heap, rank)
  PROVE  Freed(heap) = FreedStep(heap, Freed(heap))
<1> DEFINE S == {k \in 0..(b + 1) :
                   \E f : \A n \in DOMAIN heap : rank[n] < k => f[n] = FreedStep(heap, f)[n]}
<1>1. 0 \in S
  BY Z3
<1>2. ASSUME NEW k \in 0..b, k \in S PROVE k + 1 \in S
  <2>1. PICK f : \A n \in DOMAIN heap : rank[n] < k => f[n] = FreedStep(heap, f)[n]
    BY <1>2
  <2>2. PICK g : g = FreedStep(heap, f)
    OBVIOUS
  <2>3. ASSUME NEW n \in DOMAIN heap, rank[n] < k + 1
        PROVE  g[n] = FreedStep(heap, g)[n]
    <3>1. ASSUME NEW i \in Slots, Kid(Row(heap, n), i) # nullptr
          PROVE  g[Kid(Row(heap, n), i)] = f[Kid(Row(heap, n), i)]
      <4>1. PICK c \in DOMAIN heap : c = Kid(Row(heap, n), i) /\ rank[c] < rank[n]
        BY <3>1 DEF Descends
      <4>2. rank[c] < k
        BY <2>3, <4>1
      <4> QED  BY <2>1, <2>2, <4>1, <4>2
    <3>2. [i \in Slots |-> IF heap[n].entries[i].P = nullptr THEN <<>>
                           ELSE g[heap[n].entries[i].P]]
          = [i \in Slots |-> IF heap[n].entries[i].P = nullptr THEN <<>>
                             ELSE f[heap[n].entries[i].P]]
      BY <3>1 DEF Kid, Row
    <3> QED  BY <2>2, <3>2 DEF FreedStep
  <2> QED  BY <2>3
<1> HIDE DEF S
<1>3. b + 1 \in S
  BY <1>1, <1>2, UpTo
<1>4. PICK f : \A n \in DOMAIN heap : f[n] = FreedStep(heap, f)[n]
  <2>1. PICK f : \A n \in DOMAIN heap : rank[n] < b + 1 => f[n] = FreedStep(heap, f)[n]
    BY <1>3 DEF S
  <2>2. \A n \in DOMAIN heap : rank[n] < b + 1
    OBVIOUS
  <2> QED  BY <2>1, <2>2
<1>5. PICK g : g = FreedStep(heap, f)
  OBVIOUS
<1>6. g = FreedStep(heap, g)
  <2>1. ASSUME NEW n \in DOMAIN heap PROVE g[n] = FreedStep(heap, g)[n]
    <3>1. ASSUME NEW i \in Slots, Kid(Row(heap, n), i) # nullptr
          PROVE  g[Kid(Row(heap, n), i)] = f[Kid(Row(heap, n), i)]
      BY <1>4, <1>5, <3>1 DEF Descends
    <3>2. [i \in Slots |-> IF heap[n].entries[i].P = nullptr THEN <<>>
                           ELSE g[heap[n].entries[i].P]]
          = [i \in Slots |-> IF heap[n].entries[i].P = nullptr THEN <<>>
                             ELSE f[heap[n].entries[i].P]]
      BY <3>1 DEF Kid, Row
    <3> QED  BY <1>5, <3>2 DEF FreedStep
  <2> QED  BY <1>5, <2>1 DEF FreedStep
<1>7. Freed(heap) = CHOOSE s : s = FreedStep(heap, s)
  BY Zenon DEF Freed, FreedStep
<1> QED
  BY <1>6, <1>7, Zenon

\* Nothing joined to nothing is nothing.
LEMMA ConcatOfNothing == Concat([i \in Slots |-> <<>>], NodeSizeMax + 1) = <<>>
<1> DEFINE f == [i \in Slots |-> <<>>]
           table == CHOOSE s : s = [i \in 0..(NodeSizeMax + 1) |->
                                     IF i = 0 THEN <<>> ELSE s[i - 1] \o f[i - 1]]
           s0 == [i \in 0..(NodeSizeMax + 1) |-> <<>>]
           S == {i \in 0..(NodeSizeMax + 1) : table[i] = <<>>}
<1>1. <<>> \o <<>> = <<>>
  OBVIOUS
<1>2. s0 = [i \in 0..(NodeSizeMax + 1) |-> IF i = 0 THEN <<>> ELSE s0[i - 1] \o f[i - 1]]
  <2>1. ASSUME NEW i \in 0..(NodeSizeMax + 1), i # 0
        PROVE  s0[i - 1] = <<>> /\ f[i - 1] = <<>>
    BY <2>1, SizesAssumption DEF Slots
  <2> QED  BY <1>1, <2>1
<1>3. table = [i \in 0..(NodeSizeMax + 1) |-> IF i = 0 THEN <<>> ELSE table[i - 1] \o f[i - 1]]
  <2> HIDE DEF s0, f
  <2> QED  BY <1>2, Zenon
<1> HIDE DEF table
<1>4. 0 \in S
  BY <1>3, SizesAssumption
<1>5. ASSUME NEW i \in 0..NodeSizeMax, i \in S PROVE i + 1 \in S
  <2>1. i + 1 \in 0..(NodeSizeMax + 1) /\ i + 1 # 0 /\ (i + 1) - 1 = i /\ i \in Slots
    BY SizesAssumption DEF Slots
  <2>2. table[i + 1] = table[i] \o f[i]
    BY <1>3, <2>1
  <2> QED  BY <1>1, <1>5, <2>1, <2>2
<1> HIDE DEF S
<1>6. NodeSizeMax + 1 \in S
  BY <1>4, <1>5, UpTo, SizesAssumption
<1>7. Concat(f, NodeSizeMax + 1) = table[NodeSizeMax + 1]
  BY Zenon DEF Concat, table
<1> QED
  BY <1>6, <1>7 DEF S

\* A node that points to nothing is all that is freed with it.
LEMMA DeleteAlone ==
  ASSUME NEW heap, NEW b \in Nat, NEW rank \in [DOMAIN heap -> 0..b], Descends(heap, rank),
         NEW n \in DOMAIN heap, \A i \in Slots : Kid(Row(heap, n), i) = nullptr
  PROVE  Delete(heap, n) = [m \in DOMAIN heap \ {n} |-> heap[m]]
<1>1. Freed(heap) = FreedStep(heap, Freed(heap))
  BY FreedTable
<1>2. PICK f : f = Freed(heap)
  OBVIOUS
<1>3. [i \in Slots |-> IF heap[n].entries[i].P = nullptr THEN <<>>
                       ELSE f[heap[n].entries[i].P]] = [i \in Slots |-> <<>>]
  BY DEF Kid, Row
<1>4. f[n] = Append(<<>>, n)
  <2>1. f[n] = FreedStep(heap, f)[n]
    BY <1>1, <1>2
  <2>2. f[n] = Append(Concat([i \in Slots |-> IF heap[n].entries[i].P = nullptr THEN <<>>
                                              ELSE f[heap[n].entries[i].P]], NodeSizeMax + 1), n)
    BY <2>1 DEF FreedStep
  <2> QED  BY <1>3, <2>2, ConcatOfNothing
<1>5. f[n] = <<n>> /\ {f[n][i] : i \in DOMAIN f[n]} = {n}
  BY <1>4
<1> QED
  BY <1>2, <1>5 DEF Delete

\* The heap without the node n.
Without(heap, n) == [m \in DOMAIN heap \ {n} |-> heap[m]]

\* A root may be taken from the heap.
LEMMA WithoutForest ==
  ASSUME NEW heap, NEW T, NEW R, NEW N, NEW h, Forest(heap, T, R, N, h),
         NEW r \in R, r \in N,
         NEW U, U = T \ {r}, NEW S, S = R \ {r}, NEW M, M = N \ {r}
  PROVE  LET H == Without(heap, r)
         IN  /\ Forest(H, U, S, M, h) /\ DOMAIN H = DOMAIN heap \ {r}
             /\ \A m \in DOMAIN H :
                  /\ IsLeaf(H, m) = IsLeaf(heap, m) /\ Bv(H, m) = Bv(heap, m)
                  /\ Width(H, m) = Width(heap, m) /\ Row(H, m) = Row(heap, m)
                  /\ Up(H, m) = Up(heap, m) /\ Index(H, m) = Index(heap, m)
             /\ \A m \in U \ S : Entry(H, m) = Entry(heap, m)
<1> DEFINE H == Without(heap, r)
<1>1. /\ Heap(heap) /\ T \subseteq DOMAIN heap /\ R \subseteq T /\ h \in [Nat -> Nat]
      /\ \A m \in T : IsLeaf(heap, m) <=> h[m] = 0
      /\ \A m \in DOMAIN heap : m \notin T \/ IsLeaf(heap, m) => Row(heap, m) \in NoChildren
      /\ \A n \in T \ N : ~IsLeaf(heap, n) => Rooted(heap, h, T \ R, n)
      /\ \A c \in T \ R : Hangs(heap, h, T \ N, c)
  BY DEF Forest
<1>2. DOMAIN H = DOMAIN heap \ {r} /\ \A m \in DOMAIN H : H[m] = heap[m]
  BY DEF Without
<1>3. Heap(H)
  <2>1. IsFiniteSet(DOMAIN H)
    BY <1>1, <1>2, FS_Subset DEF Heap
  <2>2. H = [m \in DOMAIN H |-> H[m]]
    BY DEF Without
  <2>3. \A m \in DOMAIN H : H[m] \in RoughNodes
    BY <1>1, <1>2 DEF Heap
  <2> HIDE DEF H
  <2> QED  BY <1>1, <1>2, <2>1, <2>2, <2>3 DEF Heap
<1> HIDE DEF H
<1>4. ASSUME NEW m \in DOMAIN H
      PROVE  /\ IsLeaf(H, m) = IsLeaf(heap, m) /\ Bv(H, m) = Bv(heap, m)
             /\ Width(H, m) = Width(heap, m) /\ Row(H, m) = Row(heap, m)
             /\ Up(H, m) = Up(heap, m) /\ Index(H, m) = Index(heap, m)
             /\ m \in DOMAIN heap
  BY <1>2 DEF IsLeaf, Bv, Width, Row, Up, Index
<1>5. U \subseteq DOMAIN H /\ S \subseteq U /\ U \ S = T \ R /\ U \ M = T \ N
  BY <1>1, <1>2
<1>6. ASSUME NEW n \in U, NEW i, NEW c \in U, Points(heap, h, n, i, c)
      PROVE  Points(H, h, n, i, c)
  BY <1>4, <1>5, <1>6 DEF Points
<1>7. ASSUME NEW n \in U \ M, ~IsLeaf(H, n) PROVE Rooted(H, h, U \ S, n)
  <2>1. Rooted(heap, h, U \ S, n) /\ n \in U /\ U \ S \subseteq U
    BY <1>1, <1>4, <1>5, <1>7
  <2> QED  BY <1>4, <1>5, <1>6, <2>1 DEF Rooted
<1>8. ASSUME NEW c \in U \ S PROVE Hangs(H, h, U \ M, c) /\ Entry(H, c) = Entry(heap, c)
  <2>1. Hangs(heap, h, U \ M, c) /\ c \in U
    BY <1>1, <1>5
  <2>2. Up(heap, c) \in U
    BY <2>1 DEF Hangs
  <2> QED  BY <1>4, <1>5, <1>6, <2>1, <2>2 DEF Hangs, Entry
<1>9. Forest(H, U, S, M, h)
  <2>1. \A m \in U : IsLeaf(H, m) <=> h[m] = 0
    BY <1>1, <1>4, <1>5
  <2>2. \A m \in DOMAIN H : m \notin U \/ IsLeaf(H, m) => Row(H, m) \in NoChildren
    BY <1>1, <1>2, <1>4
  <2> QED  BY <1>1, <1>3, <1>5, <1>7, <1>8, <2>1, <2>2 DEF Forest
<1> QED
  BY <1>2, <1>4, <1>8, <1>9 DEF H

\* A root may be given any place.
LEMMA LooseForest ==
  ASSUME NEW heap, NEW T, NEW R, NEW N, NEW h, Forest(heap, T, R, N, h),
         NEW c \in R, NEW H, Keeps(heap, H, nullptr),
         \A m \in DOMAIN heap : m # c => Up(H, m) = Up(heap, m) /\ Index(H, m) = Index(heap, m)
  PROVE  Forest(H, T, R, N, h) /\ \A m \in T \ R : Entry(H, m) = Entry(heap, m)
<1>1. /\ Heap(heap) /\ T \subseteq DOMAIN heap /\ R \subseteq T /\ h \in [Nat -> Nat]
      /\ \A m \in T : IsLeaf(heap, m) <=> h[m] = 0
      /\ \A m \in DOMAIN heap : m \notin T \/ IsLeaf(heap, m) => Row(heap, m) \in NoChildren
      /\ \A n \in T \ N : ~IsLeaf(heap, n) => Rooted(heap, h, T \ R, n)
      /\ \A m \in T \ R : Hangs(heap, h, T \ N, m)
  BY DEF Forest
<1>2. nullptr \notin DOMAIN heap
  BY <1>1 DEF Heap
<1>3. /\ Heap(H) /\ DOMAIN H = DOMAIN heap
      /\ \A m \in DOMAIN heap : /\ IsLeaf(H, m) = IsLeaf(heap, m)
                                /\ Width(H, m) = Width(heap, m) /\ Row(H, m) = Row(heap, m)
  BY <1>2 DEF Keeps
<1>4. ASSUME NEW n \in T, NEW i, NEW m \in T \ R, Points(heap, h, n, i, m)
      PROVE  Points(H, h, n, i, m)
  <2>1. n \in DOMAIN heap /\ m \in DOMAIN heap /\ m # c
    BY <1>1
  <2> QED  BY <1>3, <1>4, <2>1 DEF Points
<1>5. ASSUME NEW n \in T \ N, ~IsLeaf(H, n) PROVE Rooted(H, h, T \ R, n)
  <2>1. n \in DOMAIN heap /\ Rooted(heap, h, T \ R, n)
    BY <1>1, <1>3, <1>5
  <2> QED  BY <1>3, <1>4, <2>1 DEF Rooted
<1>6. ASSUME NEW m \in T \ R
      PROVE  Hangs(H, h, T \ N, m) /\ Entry(H, m) = Entry(heap, m)
  <2>1. m \in DOMAIN heap /\ m # c /\ Hangs(heap, h, T \ N, m)
    BY <1>1
  <2>2. Up(heap, m) \in T \ N /\ Up(heap, m) \in DOMAIN heap
    BY <1>1, <2>1 DEF Hangs
  <2> QED  BY <1>3, <1>4, <2>1, <2>2 DEF Hangs, Entry
<1>7. Forest(H, T, R, N, h)
  <2>1. \A m \in T : IsLeaf(H, m) <=> h[m] = 0
    BY <1>1, <1>3
  <2>2. \A m \in DOMAIN H : m \notin T \/ IsLeaf(H, m) => Row(H, m) \in NoChildren
    BY <1>1, <1>3
  <2> QED  BY <1>1, <1>3, <1>5, <1>6, <2>1, <2>2 DEF Forest
<1> QED
  BY <1>6, <1>7

\* No node of T is higher than k.
Lower(h, T, k) == \A m \in T : h[m] <= k

\* The node r is gone, and its child c is a root.
RootMerged(heap, H, U, S, r, c) ==
  /\ DOMAIN H = DOMAIN heap \ {r} /\ AllWhole(H, U)
  /\ \A m \in U : /\ IsLeaf(H, m) = IsLeaf(heap, m) /\ SizeOf(H, m) = SizeOf(heap, m)
  /\ Up(H, c) = nullptr /\ \A m \in U \ S : SameGap(heap, H, m)
  /\ \A m \in U : SameNode(heap, H, m)

\* What MergeRoot does with the nodes.
Unrooted(heap, r, c) ==
  [Delete([heap EXCEPT ![r].entries[0].P = nullptr], r)
     EXCEPT ![c].parent = nullptr, ![c].indexInParent = 0]

\* A node gets another place.
LEMMA PlaceOf ==
  ASSUME NEW heap, Heap(heap), NEW c \in DOMAIN heap
  PROVE  LET H == [heap EXCEPT ![c].parent = nullptr, ![c].indexInParent = 0]
         IN  /\ Keeps(heap, H, nullptr) /\ Up(H, c) = nullptr
             /\ \A m \in DOMAIN heap :
                  m # c => Up(H, m) = Up(heap, m) /\ Index(H, m) = Index(heap, m)
<1> DEFINE H == [heap EXCEPT ![c].parent = nullptr, ![c].indexInParent = 0]
           x == [heap[c] EXCEPT !.parent = nullptr, !.indexInParent = 0]
<1>1. heap[c] \in RoughNodes /\ heap \in [DOMAIN heap -> RoughNodes]
  BY DEF Heap
<1>2. 0 \in Slots /\ nullptr \in Nat
  BY SizesAssumption DEF Slots, nullptr
<1>3. /\ x \in RoughNodes /\ x.isLeaf = heap[c].isLeaf /\ x.bv = heap[c].bv
      /\ x.size = heap[c].size /\ x.entries = heap[c].entries /\ x.parent = nullptr
  BY <1>1, <1>2 DEF RoughNodes
<1>4. H = [heap EXCEPT ![c] = x]
  BY <1>1
<1> HIDE DEF H, x
<1>5. /\ DOMAIN H = DOMAIN heap /\ H[c] = x
      /\ \A m \in DOMAIN heap : m # c => H[m] = heap[m]
  BY <1>4
<1>6. Heap(H)
  <2>1. H \in [DOMAIN heap -> RoughNodes]
    BY <1>1, <1>3, <1>4
  <2> QED  BY <1>5, <2>1 DEF Heap
<1>7. ASSUME NEW m \in DOMAIN heap
      PROVE  /\ IsLeaf(H, m) = IsLeaf(heap, m) /\ Bv(H, m) = Bv(heap, m)
             /\ Width(H, m) = Width(heap, m) /\ Row(H, m) = Row(heap, m)
             /\ m # c => Up(H, m) = Up(heap, m) /\ Index(H, m) = Index(heap, m)
  BY <1>3, <1>5 DEF IsLeaf, Bv, Width, Row, Up, Index
<1>8. Keeps(heap, H, nullptr)
  BY <1>5, <1>6, <1>7 DEF Keeps
<1>9. Up(H, c) = nullptr
  BY <1>3, <1>5 DEF Up
<1> QED
  BY <1>7, <1>8, <1>9 DEF H

\* The only child of a root takes its place.
LEMMA MergeRootForest ==
  ASSUME NEW heap, NEW T, NEW R, NEW N, N = {}, NEW h, Forest(heap, T, R, N, h),
         AllWhole(heap, T), NEW k \in Nat, Lower(h, T, k),
         NEW r \in R, ~IsLeaf(heap, r), Width(heap, r) = 1,
         NEW c, c = Kid(Row(heap, r), 0), NEW U, U = T \ {r}, NEW S, S = (R \ {r}) \cup {c}
  PROVE  LET H == Unrooted(heap, r, c)
         IN  /\ Forest(H, U, S, N, h) /\ RootMerged(heap, H, U, S, r, c)
             /\ c \in T \ R /\ h[r] = h[c] + 1
<1>1. /\ Heap(heap) /\ T \subseteq DOMAIN heap /\ R \subseteq T /\ r \in T \ N
      /\ r \in DOMAIN heap /\ h \in [Nat -> Nat] /\ 0 \in Slots
      /\ T \subseteq Nat /\ nullptr = 0
  BY SizesAssumption DEF Forest, Heap, Slots, nullptr
<1>2. PICK old \in Rows : /\ old = Row(heap, r) /\ Ends(old, 1)
                          /\ \A i \in Slots : i < 1 <=> i = 0
  <2>1. \A i \in Slots : i < 1 <=> i = 0
    BY DEF Slots
  <2> QED  BY <1>1, <2>1, ForestRow
<1>3. c \in T \ R /\ h[r] = h[c] + 1
  <2>1. 0 < Width(heap, r)
    OBVIOUS
  <2> QED  BY <1>1, <2>1, KidsOf
<1>4. Kids(heap, r) = {c}
  BY <1>1, <1>2 DEF Kids, FirstKids
<1>5. PICK S1, N1 : S1 = R \cup {c} /\ N1 = N \cup {r}
  OBVIOUS
<1>6. Forest(heap, T, S1, N1, h)
  BY <1>1, <1>4, <1>5, BlankForest
<1> DEFINE row == [old EXCEPT ![0].P = nullptr]
           A == WithRow(heap, r, row)
           B == Without(A, r)
           H == Unrooted(heap, r, c)
<1>7. row \in Rows /\ \A i \in Slots : Kid(row, i) = nullptr
  <2>1. /\ old \in [Slots -> [b : Int, o : Int, P : Nat]]
        /\ \A i \in Slots : i # 0 => old[i].P = nullptr
    BY <1>2 DEF Rows, Ends, Slot, EmptyEntry
  <2>2. [old[0] EXCEPT !.P = nullptr] \in [b : Int, o : Int, P : Nat]
    BY <1>1, <2>1 DEF nullptr
  <2>3. row = [old EXCEPT ![0] = [old[0] EXCEPT !.P = nullptr]]
    BY <1>1, <2>1
  <2>4. row \in Rows
    <3> HIDE DEF row
    <3> QED  BY <1>1, <2>1, <2>2, <2>3 DEF Rows
  <2>5. \A i \in Slots : row[i].P = nullptr
    BY <1>1, <2>1
  <2> HIDE DEF row
  <2> QED  BY <2>4, <2>5 DEF Kid
<1>8. [heap EXCEPT ![r].entries[0].P = nullptr] = A
  BY <1>1, <1>2 DEF WithRow, Heap, RoughNodes, Row
<1> HIDE DEF row, A, B, H
<1>9. /\ Forest(A, T, S1, N1, h) /\ Keeps(heap, A, r) /\ Stays(heap, A)
      /\ Row(A, r) = row
      /\ \A m \in T \ S1 : Entry(A, m) = Entry(heap, m)
  <2>1. r \in T /\ r \in N1
    BY <1>1, <1>5
  <2> QED  BY <1>6, <1>7, <2>1, WithRowForest DEF A
<1>10. DOMAIN A = DOMAIN heap
  BY <1>9, KeptNodes
<1> DEFINE rank == [m \in DOMAIN A |-> IF m \in T THEN h[m] ELSE 0]
<1>11. rank \in [DOMAIN A -> 0..k]
  BY <1>1 DEF Lower
<1>12. Descends(A, rank)
  <2>1. ASSUME NEW n \in DOMAIN A, NEW i \in Slots, Kid(Row(A, n), i) # nullptr
        PROVE  /\ Kid(Row(A, n), i) \in DOMAIN A
               /\ rank[Kid(Row(A, n), i)] < rank[n]
    <3>1. n # r
      BY <1>7, <1>9, <2>1
    <3>2. n \in T /\ ~IsLeaf(A, n)
      <4>1. ASSUME Row(A, n) \in NoChildren PROVE FALSE
        BY <2>1, <4>1 DEF NoChildren, Kid
      <4> QED  BY <1>9, <4>1 DEF Forest
    <3>3. n \in T \ N1
      BY <1>5, <3>1, <3>2
    <3>4. Rooted(A, h, T \ S1, n)
      BY <1>9, <3>2, <3>3 DEF Forest
    <3>5. PICK d \in T : d = Kid(Row(A, n), i) /\ h[n] = h[d] + 1
      <4>1. Slot(Row(A, n), i) # EmptyEntry
        BY <2>1 DEF Slot, Kid, EmptyEntry
      <4> QED  BY <3>4, <4>1 DEF Rooted, Points
    <3>6. d \in DOMAIN A /\ h[d] \in Nat
      BY <1>1, <1>10
    <3> QED  BY <3>2, <3>5, <3>6
  <2> HIDE DEF rank
  <2> QED  BY <2>1 DEF Descends
<1>13. Delete(A, r) = B
  <2>1. \A i \in Slots : Kid(Row(A, r), i) = nullptr
    BY <1>7, <1>9
  <2>2. r \in DOMAIN A
    BY <1>1, <1>10
  <2> HIDE DEF rank
  <2> QED  BY <1>11, <1>12, <2>1, <2>2, DeleteAlone DEF B, Without
<1>14. /\ Forest(B, U, S, N, h) /\ DOMAIN B = DOMAIN heap \ {r}
       /\ \A m \in DOMAIN B :
            /\ IsLeaf(B, m) = IsLeaf(A, m) /\ Bv(B, m) = Bv(A, m)
            /\ Width(B, m) = Width(A, m) /\ Row(B, m) = Row(A, m)
            /\ Up(B, m) = Up(A, m) /\ Index(B, m) = Index(A, m)
       /\ \A m \in U \ S : Entry(B, m) = Entry(A, m)
  <2>1. r \in S1 /\ r \in N1 /\ S = S1 \ {r} /\ N = N1 \ {r}
    BY <1>1, <1>3, <1>5
  <2>2. Forest(A, T, S1, N1, h)
    BY <1>9
  <2> HIDE DEF rank
  <2>3. PICK X : X = Without(A, r)
    OBVIOUS
  <2>4. /\ Forest(X, U, S, N, h) /\ DOMAIN X = DOMAIN A \ {r}
        /\ \A m \in DOMAIN X :
             /\ IsLeaf(X, m) = IsLeaf(A, m) /\ Bv(X, m) = Bv(A, m)
             /\ Width(X, m) = Width(A, m) /\ Row(X, m) = Row(A, m)
             /\ Up(X, m) = Up(A, m) /\ Index(X, m) = Index(A, m)
        /\ \A m \in U \ S : Entry(X, m) = Entry(A, m)
    BY <2>1, <2>2, <2>3, WithoutForest
  <2>5. X = B
    BY <2>3 DEF B
  <2> QED  BY <1>10, <2>4, <2>5
<1>15. H = [B EXCEPT ![c].parent = nullptr, ![c].indexInParent = 0]
  BY <1>8, <1>13 DEF H, Unrooted
<1>16. c \in DOMAIN B /\ c \in U /\ c \in S /\ Heap(B) /\ U \subseteq DOMAIN B
  <2>1. c \in U /\ c \in S
    BY <1>1, <1>3
  <2> QED  BY <1>14, <2>1 DEF Forest
<1>17. /\ Keeps(B, H, nullptr) /\ Up(H, c) = nullptr
       /\ \A m \in DOMAIN B : m # c => Up(H, m) = Up(B, m) /\ Index(H, m) = Index(B, m)
  BY <1>15, <1>16, PlaceOf
<1>18. Forest(H, U, S, N, h) /\ \A m \in U \ S : Entry(H, m) = Entry(B, m)
  BY <1>14, <1>16, <1>17, LooseForest
<1>19. ASSUME NEW m \in U
       PROVE  /\ IsLeaf(H, m) = IsLeaf(heap, m) /\ Bv(H, m) = Bv(heap, m)
              /\ Width(H, m) = Width(heap, m) /\ Row(H, m) = Row(heap, m)
  <2>1. m \in DOMAIN B /\ m \in DOMAIN heap /\ m # r /\ m # nullptr
    BY <1>14, <1>16, <1>1, ForestFields
  <2> QED  BY <1>9, <1>14, <1>17, <2>1, KeptNodes
<1>20. ASSUME NEW m \in U
       PROVE  /\ Bits(H, m) = Bits(heap, m) /\ OnesAt(H, m) = OnesAt(heap, m)
              /\ SizeOf(H, m) = SizeOf(heap, m)
  BY <1>19, SameAmounts, SizeFields
<1>21. ASSUME NEW m \in U \ S PROVE SameGap(heap, H, m)
  <2>1. m \in T \ S1
    BY <1>1, <1>3, <1>5
  <2>2. Entry(H, m) = Entry(heap, m)
    BY <1>9, <1>14, <1>18, <2>1
  <2> QED  BY <1>20, <2>2 DEF SameGap
<1>22. AllWhole(H, U)
  BY <1>19 DEF AllWhole
<1>23. DOMAIN H = DOMAIN heap \ {r}
  BY <1>14, <1>17, KeptNodes
<1>24. RootMerged(heap, H, U, S, r, c)
  <2>1. \A m \in U : SameNode(heap, H, m)
    BY <1>19 DEF SameNode, SameKids
  <2> QED  BY <1>17, <1>19, <1>20, <1>21, <1>22, <1>23, <2>1 DEF RootMerged
<1> QED
  BY <1>3, <1>18, <1>24 DEF H
=============================================================================
