---------------------------- MODULE DKTreeProofs -----------------------------
(***************************************************************************)
(* Safety theorems about DKTree, for every k >= 2, every initial matrix    *)
(* and every choice of calls.                                              *)
(***************************************************************************)
EXTENDS DKTreeLemmas
-----------------------------------------------------------------------------
(* The order of freeColumns.                                               *)

Ascending(v) == \A i, j \in 1..Len(v) : i < j => v[i] < v[j]

Below(v, n) == \A i \in 1..Len(v) : v[i] < n

\* ColumnsInOrder, and what makes it inductive: the vertex that deleteEntry
\* is freeing was accepted by checkArgument and is still in use.
Ordered == /\ ColumnsInOrder
           /\ pc \in {"collect", "deleteRow", "deleteColumn"} => Occupied(call.a)

\* The three conjuncts of ColumnsInOrder.
LEMMA ColumnsInOrderParts ==
  ColumnsInOrder <=> /\ Ascending(freeColumns)
                     /\ Below(freeColumns, firstFreeColumn)
                     /\ firstFreeColumn <= matrixSize + 1
  BY DEF ColumnsInOrder, Ascending, Below

\* sort() after the push_back of a new vertex keeps the vector ascending.
LEMMA PushSortedAscending ==
  ASSUME NEW v \in Seq(Nat), NEW a \in Nat, a \notin Elements(v), Ascending(v),
         NEW n \in Nat, Below(v, n), a < n,
         NEW w \in PushSorted(v, a)
  PROVE  Ascending(w) /\ Below(w, n)
<1>1. PICK m \in 0..Len(v) :
        /\ \A i \in 1..m : v[i] < a
        /\ \A i \in (m + 1)..Len(v) : a <= v[i]
        /\ w = [i \in 1..(Len(v) + 1) |->
                  IF i <= m THEN v[i] ELSE IF i = m + 1 THEN a ELSE v[i - 1]]
  BY DEF PushSorted
<1>2. Len(v) \in Nat /\ \A i \in 1..Len(v) : v[i] \in Nat /\ v[i] # a /\ v[i] < n
  BY DEF Elements, Below
<1>3. Len(w) = Len(v) + 1
  BY <1>1, <1>2
<1>4. /\ \A i \in 1..m : w[i] = v[i]
      /\ w[m + 1] = a
      /\ \A i \in (m + 2)..(Len(v) + 1) : w[i] = v[i - 1] /\ i - 1 \in (m + 1)..Len(v)
  BY <1>1, <1>2
<1>5. Below(w, n)
  <2> SUFFICES ASSUME NEW i \in 1..(Len(v) + 1) PROVE w[i] < n
    BY <1>3 DEF Below
  <2>1. CASE i <= m
    BY <1>1, <1>2, <1>4, <2>1
  <2>2. CASE i = m + 1
    BY <1>4, <2>2
  <2>3. CASE i > m + 1
    <3>1. w[i] = v[i - 1] /\ i - 1 \in 1..Len(v)
      BY <1>2, <1>4, <2>3
    <3> QED  BY <1>2, <3>1
  <2> QED  BY <1>1, <2>1, <2>2, <2>3
<1>6. Ascending(w)
  <2> SUFFICES ASSUME NEW i \in 1..(Len(v) + 1), NEW j \in 1..(Len(v) + 1), i < j
               PROVE  w[i] < w[j]
    BY <1>3 DEF Ascending
  <2>1. CASE j <= m
    <3>1. w[i] = v[i] /\ w[j] = v[j] /\ i \in 1..Len(v) /\ j \in 1..Len(v)
      BY <1>1, <1>2, <1>4, <2>1
    <3> QED  BY <3>1 DEF Ascending
  <2>2. CASE j = m + 1
    BY <1>1, <1>2, <1>4, <2>2
  <2>3. CASE j > m + 1
    <3>1. w[j] = v[j - 1] /\ j - 1 \in (m + 1)..Len(v) /\ a < v[j - 1]
      <4>1. w[j] = v[j - 1] /\ j - 1 \in (m + 1)..Len(v)
        BY <1>2, <1>4, <2>3
      <4>2. a <= v[j - 1] /\ a # v[j - 1] /\ v[j - 1] \in Nat
        BY <1>1, <1>2, <4>1
      <4> QED  BY <4>1, <4>2
    <3>2. CASE i <= m
      <4>1. w[i] = v[i] /\ v[i] < a /\ v[i] \in Nat
        BY <1>1, <1>2, <1>4, <3>2
      <4>2. v[j - 1] \in Nat
        BY <1>2, <3>1
      <4> QED  BY <3>1, <4>1, <4>2
    <3>3. CASE i = m + 1
      BY <1>4, <3>1, <3>3
    <3>4. CASE i > m + 1
      <4>1. w[i] = v[i - 1] /\ i - 1 \in 1..Len(v) /\ j - 1 \in 1..Len(v) /\ i - 1 < j - 1
        BY <1>2, <1>4, <2>3, <3>1, <3>4
      <4> QED  BY <3>1, <4>1 DEF Ascending
    <3> QED  BY <1>1, <3>2, <3>3, <3>4
  <2> QED  BY <1>1, <2>1, <2>2, <2>3
<1> QED
  BY <1>5, <1>6

\* Freeing a vertex that is in use keeps freeColumns in order.
LEMMA FreeColumnOrdered ==
  ASSUME Typed, ColumnsInOrder, NEW a \in Nat, Occupied(a), FreeColumn(a),
         UNCHANGED matrixSize
  PROVE  ColumnsInOrder'
<1>1. /\ Ascending(freeColumns) /\ Below(freeColumns, firstFreeColumn)
      /\ firstFreeColumn <= matrixSize + 1
  BY ColumnsInOrderParts
<1>2. /\ freeColumns \in Seq(Nat) /\ firstFreeColumn \in Nat /\ matrixSize \in Nat
      /\ a \notin Elements(freeColumns) /\ a < firstFreeColumn
  BY DEF Typed, TypeOK, Occupied
<1>3. CASE a = firstFreeColumn - 1
  <2>1. firstFreeColumn' = firstFreeColumn - 1 /\ UNCHANGED freeColumns
    BY <1>3 DEF FreeColumn
  <2>2. \A i \in 1..Len(freeColumns) :
          /\ freeColumns[i] \in Nat /\ freeColumns[i] < firstFreeColumn
          /\ freeColumns[i] # firstFreeColumn - 1
    BY <1>1, <1>2, <1>3 DEF Below, Elements
  <2>3. Below(freeColumns, firstFreeColumn - 1)
    BY <1>2, <2>2 DEF Below
  <2>4. /\ Ascending(freeColumns)' /\ Below(freeColumns, firstFreeColumn)'
        /\ firstFreeColumn' <= matrixSize' + 1
    BY <1>1, <1>2, <2>1, <2>3
  <2> QED  BY <2>4 DEF ColumnsInOrder, Ascending, Below
<1>4. CASE a # firstFreeColumn - 1
  <2>1. freeColumns' \in PushSorted(freeColumns, a) /\ UNCHANGED firstFreeColumn
    BY <1>4 DEF FreeColumn
  <2>2. Ascending(freeColumns') /\ Below(freeColumns', firstFreeColumn)
    BY <1>1, <1>2, <2>1, PushSortedAscending
  <2>3. /\ Ascending(freeColumns)' /\ Below(freeColumns, firstFreeColumn)'
        /\ firstFreeColumn' <= matrixSize' + 1
    BY <1>1, <2>1, <2>2
  <2> QED  BY <2>3 DEF ColumnsInOrder, Ascending, Below
<1> QED
  BY <1>3, <1>4

\* A new tree is in order.
LEMMA InitOrdered == Init => Ordered
<1> SUFFICES ASSUME Init PROVE Ordered
  OBVIOUS
<1>1. firstFreeColumn <= matrixSize + 1
  <2>1. CASE \E power \in Powers : New(power)
    BY <2>1, LongPowPositive, BoundsAssumption DEF New
  <2>2. CASE \E size \in Sizes : WithSize(size)
    <3>1. PICK size \in Sizes : WithSize(size)
      BY <2>2
    <3>2. PICK p \in 0..size : LongPow[p] >= size /\ matrixSize = LongPow[p]
      BY <3>1 DEF WithSize
    <3>3. firstFreeColumn = size /\ size \in Nat /\ LongPow[p] \in Nat
      BY <3>1, LongPowPositive, BoundsAssumption DEF WithSize
    <3> QED  BY <3>2, <3>3
  <2> QED  BY <2>1, <2>2 DEF Init
<1>2. freeColumns = <<>> /\ pc = "idle"
  BY DEF Init, Idle
<1> QED
  BY <1>1, <1>2 DEF Ordered, ColumnsInOrder

\* A step that leaves the vertices alone, and the vertex being deleted, is in order.
LEMMA StaysOrdered ==
  ASSUME Ordered, UNCHANGED <<freeColumns, firstFreeColumn, matrixSize>>,
         pc' \in {"collect", "deleteRow", "deleteColumn"} =>
           \/ pc \in {"collect", "deleteRow", "deleteColumn"} /\ UNCHANGED call
           \/ Occupied(call'.a)
  PROVE  Ordered'
<1>1. ColumnsInOrder'
  BY DEF Ordered, ColumnsInOrder
<1>2. pc' \in {"collect", "deleteRow", "deleteColumn"} => Occupied(call.a)'
  BY DEF Ordered, Occupied
<1> QED
  BY <1>1, <1>2 DEF Ordered

\* insertEntry keeps the order: it takes the lowest free column, or the
\* first column beyond all others, for which there is room after growing.
LEMMA InsertEntryOrdered ==
  ASSUME Typed, Ordered, InsertEntry
  PROVE  Ordered'
<1>1. /\ freeColumns \in Seq(Nat) /\ firstFreeColumn \in Nat
      /\ matrixSize \in Nat /\ matrixSize >= 1 /\ ColumnsInOrder
  BY DEF Typed, TypeOK, Ordered
<1>2. pc' = "idle"
  BY DEF InsertEntry, Finish
<1>3. CASE freeColumns # <<>>
  <2>1. freeColumns' = Tail(freeColumns) /\ UNCHANGED <<matrix, firstFreeColumn>>
    BY <1>3 DEF InsertEntry
  <2>2. /\ Len(freeColumns') = Len(freeColumns) - 1
        /\ \A i \in 1..Len(freeColumns') : /\ freeColumns'[i] = freeColumns[i + 1]
                                          /\ i + 1 \in 1..Len(freeColumns)
    BY <1>1, <1>3, <2>1
  <2>3. ColumnsInOrder'
    BY <1>1, <2>1, <2>2 DEF ColumnsInOrder, matrix
  <2> QED  BY <1>2, <2>3 DEF Ordered
<1>4. CASE freeColumns = <<>>
  <2>1. /\ firstFreeColumn' = firstFreeColumn + 1 /\ UNCHANGED freeColumns
        /\ IF firstFreeColumn > matrixSize THEN IncreaseMatrixSize ELSE UNCHANGED matrix
    BY <1>4 DEF InsertEntry
  <2>2. firstFreeColumn' <= matrixSize' + 1
    <3>1. CASE firstFreeColumn > matrixSize
      <4>1. matrixSize' = matrixSize * K
        BY <2>1, <3>1 DEF IncreaseMatrixSize
      <4>2. matrixSize * K >= matrixSize + 1
        <5>1. K \in Nat /\ K >= 2
          BY KAssumption
        <5>2. matrixSize * K = matrixSize + matrixSize * (K - 1)
          BY <1>1, <5>1
        <5>3. matrixSize * (K - 1) \in Nat \ {0}
          BY <1>1, <5>1
        <5> QED  BY <1>1, <5>2, <5>3
      <4>3. firstFreeColumn <= matrixSize + 1
        BY <1>1 DEF ColumnsInOrder
      <4>4. matrixSize * K \in Nat
        BY <1>1, KAssumption
      <4> QED  BY <1>1, <2>1, <4>1, <4>2, <4>3, <4>4
    <3>2. CASE firstFreeColumn <= matrixSize
      BY <1>1, <2>1, <3>2 DEF matrix
    <3> QED  BY <1>1, <3>1, <3>2
  <2>3. ColumnsInOrder'
    BY <1>4, <2>1, <2>2 DEF ColumnsInOrder
  <2> QED  BY <1>2, <2>3 DEF Ordered
<1> QED
  BY <1>3, <1>4

\* A pass of deleteEdges that returns keeps the order.
LEMMA PassReturnsOrdered ==
  ASSUME Typed, Ordered, Deleting, PassReturns, UNCHANGED matrixSize
  PROVE  Ordered'
<1>1. /\ pc \in {"deleteRow", "deleteColumn"} /\ call.a \in Nat /\ Occupied(call.a)
      /\ ColumnsInOrder
  BY DeletingTypes DEF Ordered
<1>2. CASE pc = "deleteRow"
  BY <1>1, <1>2, StaysOrdered DEF PassReturns, bookkeeping
<1>3. CASE pc = "deleteColumn"
  <2>1. FreeColumn(call.a) /\ pc' = "idle"
    BY <1>3 DEF PassReturns, Finish
  <2> QED
    BY <1>1, <2>1, FreeColumnOrdered DEF Ordered
<1> QED
  BY <1>1, <1>2, <1>3

\* A call keeps the order, and deleteEntry starts with a vertex in use.
LEMMA CallOrdered ==
  ASSUME Typed, Ordered, Call
  PROVE  Ordered'
<1>1. CASE InsertEntry
  BY <1>1, InsertEntryOrdered
<1>2. ASSUME NEW a \in Deletions, DeleteEntry(a)
      PROVE  Ordered'
  <2> DEFINE c == [op |-> "deleteEntry", a |-> a]
  <2>1. CASE Occupied(a) /\ Begin(c) /\ UNCHANGED <<matrix, bookkeeping>>
    <3>1. Occupied(call'.a)
      BY <2>1 DEF Begin
    <3> QED  BY <2>1, <3>1, StaysOrdered DEF matrix, bookkeeping
  <2>2. CASE Throw(c) /\ UNCHANGED <<matrix, bookkeeping>>
    BY <2>2, StaysOrdered DEF Throw, Finish, matrix, bookkeeping
  <2> QED  BY <1>2, <2>1, <2>2 DEF DeleteEntry
<1>3. ASSUME NEW c, StartTraverse(c)
      PROVE  Ordered'
  BY <1>3, StaysOrdered DEF StartTraverse, Throw, Finish, matrix, bookkeeping
<1>4. ASSUME NEW row, NEW column, RemoveEdge(row, column)
      PROVE  Ordered'
  BY <1>4, StaysOrdered DEF RemoveEdge, Throw, Finish, matrix, bookkeeping
<1>5. ASSUME NEW A, NEW B, ReportAllEdges(A, B)
      PROVE  Ordered'
  BY <1>5, StaysOrdered DEF ReportAllEdges, Throw, Finish, matrix, bookkeeping
<1> QED
  BY <1>1, <1>2, <1>3, <1>4, <1>5 DEF Call, AddEdge, ReportEdge

\* A step of a running call keeps the order.
LEMMA StepOrdered ==
  ASSUME Typed, Ordered, Step
  PROVE  Ordered'
<1>1. CASE TraverseOne
  BY <1>1, StaysOrdered DEF TraverseOne, Throw, Finish, matrix, bookkeeping
<1>2. CASE AddEdgeInLTree
  BY <1>2, StaysOrdered DEF AddEdgeInLTree, Finish, bookkeeping
<1>3. CASE AddEdgeAtFirst0
  BY <1>3, StaysOrdered DEF AddEdgeAtFirst0, bookkeeping
<1>4. CASE ExtendTTree
  BY <1>4, StaysOrdered DEF ExtendTTree, bookkeeping
<1>5. CASE ExtendLTree
  BY <1>5, StaysOrdered DEF ExtendLTree, Throw, Finish, bookkeeping
<1>6. CASE ReportEdgeReturns
  BY <1>6, StaysOrdered DEF ReportEdgeReturns, Finish, matrix, bookkeeping
<1>7. CASE RemoveDescends
  BY <1>7, StaysOrdered DEF RemoveDescends, Throw, Finish, matrix, bookkeeping
<1>8. CASE RemoveStops
  BY <1>8, StaysOrdered DEF RemoveStops, Finish, matrix, bookkeeping
<1>9. CASE RemoveInLTree
  BY <1>9, StaysOrdered DEF RemoveInLTree, Finish, bookkeeping
<1>10. CASE Prune
  BY <1>10, StaysOrdered DEF Prune, Finish, bookkeeping
<1>11. CASE CollectOthers
  BY <1>11, StaysOrdered DEF CollectOthers, matrix, bookkeeping
<1>12. CASE DeleteSkips \/ DeleteKeeps
  BY <1>12, StaysOrdered DEF DeleteSkips, DeleteKeeps, NextOffset, matrix, bookkeeping
<1>13. CASE DeleteDescends
  BY <1>13, StaysOrdered DEF DeleteDescends, matrix, bookkeeping
<1>14. CASE DeleteReturns
  <2>1. Deleting /\ UNCHANGED matrixSize
    BY <1>14 DEF DeleteReturns
  <2>2. CASE level = 1
    BY <1>14, <2>1, <2>2, PassReturnsOrdered DEF DeleteReturns
  <2>3. CASE level # 1
    BY <1>14, <2>1, <2>3, StaysOrdered DEF DeleteReturns, CallerContinues, bookkeeping
  <2> QED  BY <2>2, <2>3
<1>15. CASE DeleteInLTree
  <2>1. Deleting /\ UNCHANGED matrixSize
    BY <1>15 DEF DeleteInLTree
  <2>2. CASE Partition(level) = 0
    BY <1>15, <2>1, <2>2, StaysOrdered DEF DeleteInLTree, Throw, Finish, bookkeeping
  <2>3. CASE Partition(level) # 0 /\ level = 1
    BY <1>15, <2>1, <2>3, PassReturnsOrdered DEF DeleteInLTree
  <2>4. CASE Partition(level) # 0 /\ level # 1
    BY <1>15, <2>1, <2>4, StaysOrdered DEF DeleteInLTree, CallerContinues, bookkeeping
  <2> QED  BY <2>2, <2>3, <2>4
<1>16. CASE FindSkips \/ FindDescends
  BY <1>16, StaysOrdered DEF FindSkips, FindDescends, matrix, bookkeeping
<1>17. ASSUME NEW found, pc = "find", FindReturns(found)
       PROVE  Ordered'
  BY <1>17, StaysOrdered DEF FindReturns, Finish, matrix, bookkeeping
<1>18. CASE FindDone
  BY <1>17, <1>18 DEF FindDone, FindAtTTree
<1>19. CASE FindInLTree
  <2>1. CASE Partition(level) = 0
    BY <1>19, <2>1, StaysOrdered DEF FindInLTree, Throw, Finish, matrix, bookkeeping
  <2>2. CASE Partition(level) # 0
    BY <1>17, <1>19, <2>2 DEF FindInLTree
  <2> QED  BY <2>1, <2>2
<1> QED
  BY <1>1, <1>2, <1>3, <1>4, <1>5, <1>6, <1>7, <1>8, <1>9, <1>10, <1>11, <1>12,
     <1>13, <1>14, <1>15, <1>16, <1>18, <1>19 DEF Step

\* With the types, Ordered is inductive.
LEMMA NextOrdered == Typed /\ Ordered /\ [Next]_vars => Ordered'
<1> SUFFICES ASSUME Typed, Ordered, [Next]_vars PROVE Ordered'
  OBVIOUS
<1>1. CASE Call
  BY <1>1, CallOrdered
<1>2. CASE Step
  BY <1>2, StepOrdered
<1>3. CASE UNCHANGED vars
  BY <1>3, StaysOrdered DEF vars, matrix, bookkeeping, locals
<1> QED
  BY <1>1, <1>2, <1>3 DEF Next

\* Ordered holds in every reachable state.
THEOREM AlwaysOrdered == Spec => []Ordered
  BY InitOrdered, NextOrdered, AlwaysTyped, PTL DEF Spec

\* freeColumns stays sorted, without doubles and below firstFreeColumn through
\* every order of insertions and deletions, and firstFreeColumn never runs
\* more than one ahead of the matrix, however often it has grown.
THEOREM ColumnsStayInOrder == Spec => []ColumnsInOrder
<1>1. Ordered => ColumnsInOrder
  BY DEF Ordered
<1> QED
  BY <1>1, AlwaysOrdered, PTL
-----------------------------------------------------------------------------
(* The levels of the tree.  The blocks of ttree followed by ltree are      *)
(* numbered from 0; level d of a tree with H levels has the blocks b[d - 1] *)
(* to b[d] - 1, the last level those of ltree.                             *)

\* Where block n begins.
At(n) == BLOCK_SIZE * n

\* `bits` is ttree, `rest` the length of ltree.  Every level has a block for
\* each 1 of the level above, except that one is owed to level owed + 1 if
\* owed < H.
Levels(bits, rest, H, b, owed) ==
  /\ H \in Nat /\ H >= 2
  /\ b \in [0..H -> Nat]
  /\ b[0] = 0
  /\ \A i, j \in 0..H : i <= j => b[i] <= b[j]
  /\ Len(bits) = At(b[H - 1])
  /\ Len(bits) + rest = At(b[H])
  /\ \A d \in 0..(H - 1) : Rank1(bits, At(b[d])) = b[d + 1] - (IF d >= owed THEN 0 ELSE 1)

\* Position p is in a block of level d; p is where such a block begins.
OnLevel(b, d, p) == At(b[d - 1]) <= p /\ p < At(b[d])
BlockOn(b, d, p) == \E c \in b[d - 1]..(b[d] - 1) : p = At(c)

\* n more blocks on level e.
Shifted(b, H, e, n) == [d \in 0..H |-> IF d >= e THEN b[d] + n ELSE b[d]]

\* Block x + 1 begins where block x ends.
LEMMA AtNext == \A x \in Nat : At(x) \in Nat /\ At(x + 1) = At(x) + BLOCK_SIZE
<1>1. BLOCK_SIZE \in Nat
  BY BlockSize
<1> QED
  BY <1>1 DEF At

\* The blocks are in order, and do not overlap.
LEMMA AtOrder ==
  /\ At(0) = 0
  /\ \A x \in Nat : At(x) \in Nat
  /\ \A x, y \in Nat : x <= y => At(x) <= At(y)
  /\ \A x, y \in Nat : x < y => At(x) + BLOCK_SIZE <= At(y)
<1>1. BLOCK_SIZE \in Nat /\ BLOCK_SIZE >= 4
  BY BlockSize
<1>2. \A x \in Nat : At(x) \in Nat
  BY AtNext
<1>3. ASSUME NEW x \in Nat, NEW y \in Nat, x <= y PROVE At(x) <= At(y)
  <2>1. y - x \in Nat /\ At(y) = At(x) + BLOCK_SIZE * (y - x)
    BY <1>1, <1>3 DEF At
  <2>2. BLOCK_SIZE * (y - x) \in Nat
    BY <1>1, <2>1
  <2> QED  BY <1>2, <2>1, <2>2
<1>4. ASSUME NEW x \in Nat, NEW y \in Nat, x < y PROVE At(x) + BLOCK_SIZE <= At(y)
  <2>1. x + 1 \in Nat /\ x + 1 <= y
    BY <1>4
  <2>2. At(x + 1) = At(x) + BLOCK_SIZE
    BY AtNext
  <2> QED  BY <1>3, <2>1, <2>2
<1>5. At(0) = 0
  BY <1>1 DEF At
<1> QED
  BY <1>2, <1>3, <1>4, <1>5

\* A position is on the level of its block.
LEMMA OffsetOnLevel ==
  ASSUME NEW H \in Nat, NEW b \in [0..H -> Nat], NEW d \in 1..H, NEW p,
         BlockOn(b, d, p), NEW o \in 0..(BLOCK_SIZE - 1)
  PROVE  p \in Nat /\ p + o \in Nat /\ OnLevel(b, d, p + o)
<1>1. PICK c \in b[d - 1]..(b[d] - 1) : p = At(c)
  BY DEF BlockOn
<1>2. d - 1 \in 0..H /\ d \in 0..H
  OBVIOUS
<1>3. b[d - 1] \in Nat /\ b[d] \in Nat
  BY <1>2
<1>4. c \in Nat /\ b[d - 1] <= c /\ c < b[d]
  BY <1>3
<1>5. At(c) \in Nat /\ At(b[d - 1]) <= At(c) /\ At(c) + BLOCK_SIZE <= At(b[d])
      /\ At(b[d]) \in Nat /\ At(b[d - 1]) \in Nat
  BY <1>3, <1>4, AtOrder
<1> QED
  BY <1>1, <1>5, BlockSize DEF OnLevel

\* The positions of all levels but the last are in ttree, those of the last in ltree.
LEMMA LevelsInVectors ==
  ASSUME NEW bits, NEW rest \in Nat, NEW H, NEW b, NEW owed, Levels(bits, rest, H, b, owed),
         NEW d \in 1..H, NEW p \in Nat, OnLevel(b, d, p)
  PROVE  /\ Len(bits) \in Nat
         /\ d < H => p < Len(bits)
         /\ d = H => p >= Len(bits) /\ p < Len(bits) + rest
<1>1. /\ H \in Nat /\ H >= 2 /\ b \in [0..H -> Nat]
      /\ \A i, j \in 0..H : i <= j => b[i] <= b[j]
      /\ Len(bits) = At(b[H - 1]) /\ Len(bits) + rest = At(b[H])
  BY DEF Levels
<1>2. d \in 0..H /\ H - 1 \in 0..H /\ H \in 0..H
  BY <1>1
<1>3. b[d] \in Nat /\ b[H - 1] \in Nat /\ b[H] \in Nat
  BY <1>1, <1>2
<1>4. At(b[d]) \in Nat /\ At(b[H - 1]) \in Nat
  BY <1>3, AtOrder
<1>5. CASE d < H
  <2>1. d <= H - 1
    BY <1>1, <1>5
  <2>2. b[d] <= b[H - 1]
    BY <1>1, <1>2, <2>1
  <2>3. At(b[d]) <= At(b[H - 1])
    BY <1>3, <2>2, AtOrder
  <2> QED  BY <1>1, <1>4, <1>5, <2>3 DEF OnLevel
<1>6. CASE d = H
  BY <1>1, <1>4, <1>6 DEF OnLevel
<1> QED
  BY <1>1, <1>5, <1>6

\* A block is inside the vectors.
LEMMA BlocksInVectors ==
  ASSUME NEW bits, NEW rest \in Nat, NEW H, NEW b, NEW owed, Levels(bits, rest, H, b, owed),
         NEW d \in 1..H, NEW p, BlockOn(b, d, p)
  PROVE  /\ p \in Nat /\ Len(bits) \in Nat
         /\ d < H => p + BLOCK_SIZE <= Len(bits)
         /\ d = H => p >= Len(bits) /\ p + BLOCK_SIZE <= Len(bits) + rest
<1>1. H \in Nat /\ b \in [0..H -> Nat]
  BY DEF Levels
<1>2. 0 \in 0..(BLOCK_SIZE - 1) /\ BLOCK_SIZE - 1 \in 0..(BLOCK_SIZE - 1) /\ BLOCK_SIZE \in Nat
  BY BlockSize
<1>3. p \in Nat /\ p + 0 \in Nat /\ OnLevel(b, d, p + 0)
  BY <1>1, <1>2, OffsetOnLevel
<1>4. p + (BLOCK_SIZE - 1) \in Nat /\ OnLevel(b, d, p + (BLOCK_SIZE - 1))
  BY <1>1, <1>2, OffsetOnLevel
<1>5. Len(bits) \in Nat /\ d < H => p + (BLOCK_SIZE - 1) < Len(bits)
  BY <1>4, LevelsInVectors
<1>6. d = H => p + (BLOCK_SIZE - 1) < Len(bits) + rest
  BY <1>4, LevelsInVectors
<1>7. Len(bits) \in Nat /\ (d = H => p + 0 >= Len(bits))
  BY <1>3, LevelsInVectors
<1> QED
  BY <1>2, <1>3, <1>5, <1>6, <1>7

\* The ranks of a level number the blocks of the next one.
LEMMA ChildOnLevel ==
  ASSUME NEW bits \in Seq(BOOLEAN), NEW rest, NEW H, NEW b, NEW owed \in Nat,
         Levels(bits, rest, H, b, owed),
         NEW d \in 1..(H - 1), d <= owed, NEW p \in Nat, OnLevel(b, d, p), Access(bits, p)
  PROVE  Rank1(bits, p + 1) \in b[d]..(b[d + 1] - (IF d >= owed THEN 0 ELSE 1))
<1>1. /\ H \in Nat /\ H >= 2 /\ b \in [0..H -> Nat]
      /\ \A e \in 0..(H - 1) :
           Rank1(bits, At(b[e])) = b[e + 1] - (IF e >= owed THEN 0 ELSE 1)
  BY DEF Levels
<1>2. d - 1 \in 0..(H - 1) /\ d \in 0..(H - 1) /\ d - 1 \in 0..H /\ d \in 0..H /\ d + 1 \in 0..H
      /\ (d - 1) + 1 = d /\ ~(d - 1 >= owed)
  BY <1>1
<1>3. /\ Rank1(bits, At(b[d - 1])) = b[d] - 1
      /\ Rank1(bits, At(b[d])) = b[d + 1] - (IF d >= owed THEN 0 ELSE 1)
  BY <1>1, <1>2
<1>4. b[d - 1] \in Nat /\ b[d] \in Nat /\ b[d + 1] \in Nat
  BY <1>1, <1>2
<1>5. At(b[d - 1]) \in Nat /\ At(b[d]) \in Nat
  BY <1>4, AtOrder
<1>6. At(b[d - 1]) <= p /\ p + 1 \in Nat /\ p + 1 <= At(b[d]) /\ p < p + 1
  BY <1>5 DEF OnLevel
<1>7. Rank1(bits, At(b[d - 1])) <= Rank1(bits, p)
  BY <1>5, <1>6, RankGrows
<1>8. Rank1(bits, p) < Rank1(bits, p + 1)
  BY <1>6, RankNext, Rank1Type
<1>9. Rank1(bits, p + 1) <= Rank1(bits, At(b[d]))
  BY <1>5, <1>6, RankGrows
<1>10. /\ Rank1(bits, p) \in Nat /\ Rank1(bits, p + 1) \in Nat
       /\ Rank1(bits, At(b[d])) \in Nat /\ Rank1(bits, At(b[d - 1])) \in Nat
  BY Rank1Type
<1> QED
  BY <1>3, <1>4, <1>7, <1>8, <1>9, <1>10

\* The block of a 1 is on the next level.
LEMMA ChildBlockOnLevel ==
  ASSUME ttree \in Seq(BOOLEAN), NEW rest, NEW H, NEW b, NEW owed \in Nat,
         Levels(ttree, rest, H, b, owed),
         NEW d \in 1..(H - 1), d < owed, NEW p \in Nat, OnLevel(b, d, p), Access(ttree, p)
  PROVE  BlockOn(b, d + 1, ChildBlock(p))
<1>1. Rank1(ttree, p + 1) \in b[d]..(b[d + 1] - 1)
  <2>1. ~(d >= owed) /\ d <= owed
    OBVIOUS
  <2>2. Rank1(ttree, p + 1) \in b[d]..(b[d + 1] - (IF d >= owed THEN 0 ELSE 1))
    BY <2>1, ChildOnLevel
  <2> QED  BY <2>1, <2>2
<1>2. ChildBlock(p) = At(Rank1(ttree, p + 1))
  <2>1. Rank1(ttree, p + 1) \in Nat /\ BLOCK_SIZE \in Nat
    BY Rank1Type, BlockSize
  <2> QED  BY <2>1 DEF ChildBlock, At
<1>3. (d + 1) - 1 = d
  OBVIOUS
<1> QED
  BY <1>1, <1>2, <1>3 DEF BlockOn
-----------------------------------------------------------------------------
(* What the changes of the vectors do to the levels.                       *)

\* Setting a bit on level d owes its block to level d + 1.
LEMMA SetOnLevel ==
  ASSUME NEW bits \in Seq(BOOLEAN), NEW rest, NEW H, NEW b, Levels(bits, rest, H, b, H),
         NEW d \in 1..(H - 1), NEW p \in 0..(Len(bits) - 1), OnLevel(b, d, p),
         ~Access(bits, p)
  PROVE  Levels(SetBit(bits, p, TRUE), rest, H, b, d)
<1> DEFINE w == SetBit(bits, p, TRUE)
<1>1. Len(w) = Len(bits)
  BY SetBitType
<1>2. /\ H \in Nat /\ H >= 2 /\ b \in [0..H -> Nat]
      /\ \A i, j \in 0..H : i <= j => b[i] <= b[j]
      /\ \A e \in 0..(H - 1) : Rank1(bits, At(b[e])) = b[e + 1] - 1
  <2>1. /\ H \in Nat /\ H >= 2 /\ b \in [0..H -> Nat]
        /\ \A i, j \in 0..H : i <= j => b[i] <= b[j]
        /\ \A e \in 0..(H - 1) :
             Rank1(bits, At(b[e])) = b[e + 1] - (IF e >= H THEN 0 ELSE 1)
    BY DEF Levels
  <2>2. \A e \in 0..(H - 1) : ~(e >= H)
    BY <2>1
  <2> QED  BY <2>1, <2>2
<1>3. \A q \in Nat : Rank1(w, q) = Rank1(bits, q) + (IF p < q THEN 1 ELSE 0)
  <2> SUFFICES ASSUME NEW q \in Nat
               PROVE  Rank1(w, q) = Rank1(bits, q) + (IF p < q THEN 1 ELSE 0)
    OBVIOUS
  <2>1. Rank1(w, q) = Rank1(bits, q) + (IF p < q THEN IF TRUE THEN 1 ELSE -1 ELSE 0)
    BY RankSetBit
  <2> QED  BY <2>1
<1> HIDE DEF w
<1>4. ASSUME NEW e \in 0..(H - 1)
      PROVE  Rank1(w, At(b[e])) = b[e + 1] - (IF e >= d THEN 0 ELSE 1)
  <2>1. e \in 0..H /\ d \in 0..H /\ d - 1 \in 0..H /\ e + 1 \in 0..H
    BY <1>2
  <2>2. b[e] \in Nat /\ b[d] \in Nat /\ b[d - 1] \in Nat /\ b[e + 1] \in Nat
    BY <1>2, <2>1
  <2>3. At(b[e]) \in Nat /\ At(b[d]) \in Nat /\ At(b[d - 1]) \in Nat
    BY <2>2, AtOrder
  <2>4. CASE e >= d
    <3>1. At(b[d]) <= At(b[e])
      BY <1>2, <2>1, <2>2, <2>4, AtOrder
    <3>2. p < At(b[e])
      BY <2>3, <3>1 DEF OnLevel
    <3> QED  BY <1>2, <1>3, <2>2, <2>3, <2>4, <3>2
  <2>5. CASE e < d
    <3>1. b[e] <= b[d - 1]
      BY <1>2, <2>1, <2>5
    <3>2. At(b[e]) <= At(b[d - 1])
      BY <2>2, <3>1, AtOrder
    <3>3. ~(p < At(b[e]))
      BY <2>3, <3>2 DEF OnLevel
    <3>4. Rank1(w, At(b[e])) = Rank1(bits, At(b[e])) + 0
      BY <1>3, <2>3, <3>3
    <3>5. Rank1(bits, At(b[e])) = b[e + 1] - 1 /\ ~(e >= d)
      BY <1>2, <2>5
    <3> QED  BY <2>2, <3>4, <3>5
  <2> QED  BY <2>4, <2>5
<1> QED
  BY <1>1, <1>4 DEF Levels, w

\* Clearing the bit whose block is gone settles what was owed.
LEMMA ClearOnLevel ==
  ASSUME NEW bits \in Seq(BOOLEAN), NEW rest, NEW H, NEW b,
         NEW d \in 1..(H - 1), Levels(bits, rest, H, b, d),
         NEW p \in 0..(Len(bits) - 1), OnLevel(b, d, p), Access(bits, p)
  PROVE  Levels(SetBit(bits, p, FALSE), rest, H, b, H)
<1> DEFINE w == SetBit(bits, p, FALSE)
<1>1. Len(w) = Len(bits)
  BY SetBitType
<1>2. /\ H \in Nat /\ H >= 2 /\ b \in [0..H -> Nat]
      /\ \A i, j \in 0..H : i <= j => b[i] <= b[j]
      /\ \A e \in 0..(H - 1) :
           Rank1(bits, At(b[e])) = b[e + 1] - (IF e >= d THEN 0 ELSE 1)
  BY DEF Levels
<1>3. \A q \in Nat : Rank1(w, q) = Rank1(bits, q) + (IF p < q THEN -1 ELSE 0)
  <2> SUFFICES ASSUME NEW q \in Nat
               PROVE  Rank1(w, q) = Rank1(bits, q) + (IF p < q THEN -1 ELSE 0)
    OBVIOUS
  <2>1. Rank1(w, q) = Rank1(bits, q) + (IF p < q THEN IF FALSE THEN 1 ELSE -1 ELSE 0)
    BY RankSetBit
  <2> QED  BY <2>1
<1> HIDE DEF w
<1>4. ASSUME NEW e \in 0..(H - 1)
      PROVE  Rank1(w, At(b[e])) = b[e + 1] - 1
  <2>1. e \in 0..H /\ d \in 0..H /\ d - 1 \in 0..H /\ e + 1 \in 0..H
    BY <1>2
  <2>2. b[e] \in Nat /\ b[d] \in Nat /\ b[d - 1] \in Nat /\ b[e + 1] \in Nat
    BY <1>2, <2>1
  <2>3. At(b[e]) \in Nat /\ At(b[d]) \in Nat /\ At(b[d - 1]) \in Nat
    BY <2>2, AtOrder
  <2>4. CASE e >= d
    <3>1. At(b[d]) <= At(b[e])
      BY <1>2, <2>1, <2>2, <2>4, AtOrder
    <3>2. p < At(b[e])
      BY <2>3, <3>1 DEF OnLevel
    <3> QED  BY <1>2, <1>3, <2>2, <2>3, <2>4, <3>2
  <2>5. CASE e < d
    <3>1. b[e] <= b[d - 1]
      BY <1>2, <2>1, <2>5
    <3>2. At(b[e]) <= At(b[d - 1])
      BY <2>2, <3>1, AtOrder
    <3>3. ~(p < At(b[e]))
      BY <2>3, <3>2 DEF OnLevel
    <3> QED  BY <1>2, <1>3, <2>2, <2>3, <2>5, <3>3
  <2> QED  BY <2>4, <2>5
<1>5. \A e \in 0..(H - 1) : Rank1(w, At(b[e])) = b[e + 1] - (IF e >= H THEN 0 ELSE 1)
  BY <1>2, <1>4
<1> QED
  BY <1>1, <1>5 DEF Levels, w

\* b numbers the blocks of H levels.
Numbers(b, H) == /\ b \in [0..H -> Nat]
                 /\ b[0] = 0
                 /\ \A i, j \in 0..H : i <= j => b[i] <= b[j]

\* Shifted is again a numbering of the levels, if level e has a block to lose.
LEMMA ShiftedBounds ==
  ASSUME NEW H \in Nat, H >= 2, NEW b, Numbers(b, H),
         NEW e \in 2..H, NEW n \in {-1, 1}, n = -1 => b[e - 1] < b[e]
  PROVE  /\ Numbers(Shifted(b, H, e, n), H)
         /\ \A d \in 0..H : Shifted(b, H, e, n)[d] = IF d >= e THEN b[d] + n ELSE b[d]
<1> USE DEF Numbers
<1> DEFINE s == Shifted(b, H, e, n)
<1>1. \A d \in 0..H : s[d] = IF d >= e THEN b[d] + n ELSE b[d]
  BY DEF Shifted
<1>2. e - 1 \in 0..H /\ e \in 0..H /\ 0 \in 0..H /\ ~(0 >= e)
  OBVIOUS
<1>3. s = [d \in 0..H |-> IF d >= e THEN b[d] + n ELSE b[d]]
  BY DEF Shifted
<1>4. ASSUME NEW d \in 0..H PROVE (IF d >= e THEN b[d] + n ELSE b[d]) \in Nat
  <2>1. b[d] \in Nat /\ b[e] \in Nat /\ b[e - 1] \in Nat
    BY <1>2
  <2>2. d >= e => b[e] <= b[d]
    BY <1>2
  <2> QED  BY <2>1, <2>2
<1>5. s \in [0..H -> Nat]
  BY <1>3, <1>4
<1> HIDE DEF s
<1>6. ASSUME NEW i \in 0..H, NEW j \in 0..H, i <= j PROVE s[i] <= s[j]
  <2>1. /\ b[i] \in Nat /\ b[j] \in Nat /\ b[e] \in Nat /\ b[e - 1] \in Nat
        /\ b[i] <= b[j] /\ i \in Int /\ j \in Int
    BY <1>2, <1>6
  <2>2. s[i] = (IF i >= e THEN b[i] + n ELSE b[i]) /\ s[j] = (IF j >= e THEN b[j] + n ELSE b[j])
    BY <1>1
  <2>3. CASE j < e
    <3>1. ~(i >= e) /\ ~(j >= e)
      BY <1>6, <2>1, <2>3
    <3> QED  BY <2>1, <2>2, <3>1
  <2>4. CASE i >= e
    <3>1. i >= e /\ j >= e
      BY <1>6, <2>1, <2>4
    <3> QED  BY <2>1, <2>2, <3>1
  <2>5. CASE i < e /\ j >= e
    <3>1. b[i] <= b[e - 1] /\ b[e] <= b[j]
      BY <1>2, <2>5
    <3>2. s[i] = b[i] /\ s[j] = b[j] + n
      BY <2>1, <2>2, <2>5
    <3> QED  BY <2>1, <3>1, <3>2
  <2> QED  BY <2>1, <2>3, <2>4, <2>5
<1>7. s[0] = 0
  BY <1>1, <1>2
<1> QED
  BY <1>1, <1>5, <1>6, <1>7 DEF s

\* What Levels says of the bounds and the ranks, with the IF resolved.
LEMMA LevelsParts ==
  ASSUME NEW bits, NEW rest, NEW H, NEW b, NEW owed \in Nat, Levels(bits, rest, H, b, owed)
  PROVE  /\ H \in Nat /\ H >= 2 /\ Numbers(b, H)
         /\ Len(bits) = At(b[H - 1]) /\ Len(bits) + rest = At(b[H])
         /\ \A d \in 0..(H - 1) : d < owed => Rank1(bits, At(b[d])) = b[d + 1] - 1
         /\ \A d \in 0..(H - 1) : d >= owed => Rank1(bits, At(b[d])) = b[d + 1]
<1>1. /\ H \in Nat /\ H >= 2 /\ b \in [0..H -> Nat] /\ b[0] = 0
      /\ \A i, j \in 0..H : i <= j => b[i] <= b[j]
      /\ Len(bits) = At(b[H - 1]) /\ Len(bits) + rest = At(b[H])
      /\ \A d \in 0..(H - 1) :
           Rank1(bits, At(b[d])) = b[d + 1] - (IF d >= owed THEN 0 ELSE 1)
  BY DEF Levels
<1>2. ASSUME NEW d \in 0..(H - 1), d < owed PROVE Rank1(bits, At(b[d])) = b[d + 1] - 1
  <2>1. ~(d >= owed)
    BY <1>2
  <2> QED  BY <1>1, <2>1
<1>3. ASSUME NEW d \in 0..(H - 1), d >= owed PROVE Rank1(bits, At(b[d])) = b[d + 1]
  <2>1. d + 1 \in 0..H
    BY <1>1
  <2>2. b[d + 1] \in Nat
    BY <1>1, <2>1
  <2> QED  BY <1>1, <1>3, <2>2
<1> QED
  BY <1>1, <1>2, <1>3 DEF Numbers

\* The other way round.
LEMMA LevelsFromParts ==
  ASSUME NEW bits, NEW rest, NEW H \in Nat, H >= 2, NEW b, Numbers(b, H),
         Len(bits) = At(b[H - 1]), Len(bits) + rest = At(b[H]), NEW owed \in Nat,
         \A d \in 0..(H - 1) : d < owed => Rank1(bits, At(b[d])) = b[d + 1] - 1,
         \A d \in 0..(H - 1) : d >= owed => Rank1(bits, At(b[d])) = b[d + 1]
  PROVE  Levels(bits, rest, H, b, owed)
<1>1. ASSUME NEW d \in 0..(H - 1)
      PROVE  Rank1(bits, At(b[d])) = b[d + 1] - (IF d >= owed THEN 0 ELSE 1)
  <2>1. d + 1 \in 0..H
    OBVIOUS
  <2>2. b[d + 1] \in Nat
    BY <2>1 DEF Numbers
  <2>3. CASE d < owed
    <3>1. ~(d >= owed)
      BY <2>3
    <3> QED  BY <2>3, <3>1
  <2>4. CASE d >= owed
    BY <2>2, <2>4
  <2> QED  BY <2>3, <2>4
<1> QED
  BY <1>1 DEF Levels, Numbers

\* The block that was owed to level e, at the place of any of its blocks.
LEMMA FillLevels ==
  ASSUME NEW bits \in Seq(BOOLEAN), NEW rest \in Nat, NEW H, NEW b,
         NEW e \in 2..H, Levels(bits, rest, H, b, e - 1), NEW c \in b[e - 1]..b[e]
  PROVE  /\ e < H => Levels(InsertBlock(bits, At(c)), rest, H, Shifted(b, H, e, 1), H)
         /\ e = H => Levels(bits, rest + BLOCK_SIZE, H, Shifted(b, H, e, 1), H)
<1>1. e - 1 \in Nat
  BY DEF Levels
<1>10. /\ H \in Nat /\ H >= 2 /\ Numbers(b, H)
  BY <1>1, LevelsParts
<1>2. /\ H \in Nat /\ H >= 2 /\ b \in [0..H -> Nat] /\ b[0] = 0
      /\ \A i, j \in 0..H : i <= j => b[i] <= b[j]
      /\ Len(bits) = At(b[H - 1]) /\ Len(bits) + rest = At(b[H])
      /\ \A d \in 0..(H - 1) : d < e - 1 => Rank1(bits, At(b[d])) = b[d + 1] - 1
      /\ \A d \in 0..(H - 1) : d >= e - 1 => Rank1(bits, At(b[d])) = b[d + 1]
  BY <1>1, LevelsParts DEF Numbers
<1> DEFINE s == Shifted(b, H, e, 1)
<1>3. Numbers(s, H) /\ \A d \in 0..H : s[d] = IF d >= e THEN b[d] + 1 ELSE b[d]
  BY <1>2, <1>10, ShiftedBounds, SMTT(30)
<1> HIDE DEF s
<1>4. /\ e \in 0..H /\ e - 1 \in 0..H /\ H \in 0..H /\ H - 1 \in 0..H
      /\ \A d \in 0..(H - 1) : d \in 0..H /\ d + 1 \in 0..H
  BY <1>2
<1>5. /\ b[e - 1] \in Nat /\ b[e] \in Nat /\ c \in Nat /\ b[e - 1] <= c /\ c <= b[e]
      /\ b[H] \in Nat /\ b[H - 1] \in Nat
  <2>1. b[e - 1] \in Nat /\ b[e] \in Nat /\ b[H] \in Nat /\ b[H - 1] \in Nat
    BY <1>2, <1>4
  <2> QED  BY <2>1
<1>6. s[H] = b[H] + 1 /\ (e < H => s[H - 1] = b[H - 1] + 1) /\ (e = H => s[H - 1] = b[H - 1])
  BY <1>2, <1>3, <1>4
<1>7. BLOCK_SIZE \in Nat /\ At(b[H - 1]) \in Nat /\ At(b[H]) \in Nat /\ At(c) \in Nat
      /\ At(b[H] + 1) = At(b[H]) + BLOCK_SIZE /\ At(b[H - 1] + 1) = At(b[H - 1]) + BLOCK_SIZE
  BY <1>5, AtNext, BlockSize
<1>8. CASE e < H
  <2> DEFINE w == InsertBlock(bits, At(c))
  <2>1. b[e] <= b[H - 1]
    BY <1>2, <1>4, <1>8
  <2>2. At(c) \in 0..Len(bits)
    <3>1. At(c) <= At(b[H - 1])
      <4>1. c <= b[H - 1]
        BY <1>5, <2>1
      <4> QED  BY <1>5, <4>1, AtOrder
    <3> QED  BY <1>2, <1>7, <3>1
  <2>3. \A q \in Nat : q <= At(c) => Rank1(w, q) = Rank1(bits, q)
    BY <2>2, RankInsertBlock
  <2>8. \A q \in Nat : q >= At(c) => Rank1(w, q + BLOCK_SIZE) = Rank1(bits, q)
    BY <2>2, RankInsertBlock
  <2>4. Len(w) = Len(bits) + BLOCK_SIZE
    BY <2>2, InsertBlockType
  <2> HIDE DEF w
  <2>5. Len(w) = At(s[H - 1]) /\ Len(w) + rest = At(s[H])
    BY <1>2, <1>6, <1>7, <1>8, <2>4
  <2>6. ASSUME NEW d \in 0..(H - 1) PROVE Rank1(w, At(s[d])) = s[d + 1] - 1
    <3>1. d \in 0..H /\ d + 1 \in 0..H /\ d \in Int
      BY <1>4
    <3>2. b[d] \in Nat /\ b[d + 1] \in Nat
      BY <1>2, <3>1
    <3>3. At(b[d]) \in Nat /\ At(b[d] + 1) = At(b[d]) + BLOCK_SIZE
      BY <3>2, AtNext
    <3>4. CASE d < e
      <4>1. b[d] <= b[e - 1]
        BY <1>2, <1>4, <3>1, <3>4
      <4>2. At(b[d]) <= At(c)
        <5>1. b[d] <= c
          BY <1>5, <3>2, <4>1
        <5> QED  BY <1>5, <3>2, <5>1, AtOrder
      <4>3. s[d] = b[d]
        BY <1>3, <3>1, <3>4
      <4>4. Rank1(w, At(s[d])) = Rank1(bits, At(b[d]))
        BY <2>3, <3>3, <4>2, <4>3
      <4>5. CASE d < e - 1
        <5>1. s[d + 1] = b[d + 1]
          BY <1>3, <3>1, <4>5
        <5> QED  BY <1>2, <4>4, <4>5, <5>1
      <4>6. CASE d >= e - 1
        <5>1. s[d + 1] = b[d + 1] + 1
          BY <1>3, <3>1, <4>6
        <5> QED  BY <1>2, <3>2, <4>4, <4>6, <5>1
      <4> QED  BY <3>1, <4>5, <4>6
    <3>5. CASE d >= e
      <4>1. b[e] <= b[d]
        BY <1>2, <1>4, <3>1, <3>5
      <4>2. At(c) <= At(b[d])
        <5>1. c <= b[d]
          BY <1>5, <3>2, <4>1
        <5> QED  BY <1>5, <3>2, <5>1, AtOrder
      <4>3. s[d] = b[d] + 1 /\ s[d + 1] = b[d + 1] + 1 /\ d >= e - 1
        BY <1>3, <3>1, <3>5
      <4>4. Rank1(w, At(s[d])) = Rank1(bits, At(b[d]))
        BY <2>8, <3>3, <4>2, <4>3
      <4> QED  BY <1>2, <3>2, <4>3, <4>4
    <3> QED  BY <3>1, <3>4, <3>5
  <2>7. Levels(w, rest, H, s, H)
    <3>1. \A d \in 0..(H - 1) : ~(d >= H)
      BY <1>2
    <3> QED  BY <1>2, <1>3, <2>5, <2>6, <3>1, LevelsFromParts
  <2> QED  BY <1>8, <2>7 DEF s, w
<1>9. CASE e = H
  <2>1. ASSUME NEW d \in 0..(H - 1) PROVE Rank1(bits, At(s[d])) = s[d + 1] - 1
    <3>1. d \in 0..H /\ d + 1 \in 0..H /\ d \in Int
      BY <1>4
    <3>2. b[d] \in Nat /\ b[d + 1] \in Nat
      BY <1>2, <3>1
    <3>3. s[d] = b[d]
      BY <1>3, <1>9, <3>1
    <3>4. CASE d < e - 1
      <4>1. s[d + 1] = b[d + 1]
        BY <1>3, <3>1, <3>4
      <4> QED  BY <1>2, <3>3, <3>4, <4>1
    <3>5. CASE d >= e - 1
      <4>1. s[d + 1] = b[d + 1] + 1
        BY <1>3, <3>1, <3>5
      <4> QED  BY <1>2, <3>2, <3>3, <3>5, <4>1
    <3> QED  BY <3>1, <3>4, <3>5
  <2>2. Len(bits) = At(s[H - 1]) /\ Len(bits) + (rest + BLOCK_SIZE) = At(s[H])
    BY <1>2, <1>6, <1>7, <1>9
  <2>3. Levels(bits, rest + BLOCK_SIZE, H, s, H)
    <3>1. \A d \in 0..(H - 1) : ~(d >= H)
      BY <1>2
    <3> QED  BY <1>2, <1>3, <2>1, <2>2, <3>1, LevelsFromParts
  <2> QED  BY <1>9, <2>3 DEF s
<1> QED
  BY <1>2, <1>8, <1>9

\* A block of zeros leaves level e, and is owed to it until its bit is cleared.
LEMMA EmptyLevels ==
  ASSUME NEW bits \in Seq(BOOLEAN), NEW rest \in Nat, NEW H, NEW b,
         NEW e \in 2..H, Levels(bits, rest, H, b, H), NEW c \in b[e - 1]..(b[e] - 1)
  PROVE  /\ e < H /\ OnlyZeros(bits, At(c)) =>
              Levels(DeleteBlock(bits, At(c)), rest, H, Shifted(b, H, e, -1), e - 1)
         /\ e = H => Levels(bits, rest - BLOCK_SIZE, H, Shifted(b, H, e, -1), e - 1)
<1>1. H \in Nat /\ H >= 2
  BY DEF Levels
<1>2. /\ b \in [0..H -> Nat] /\ b[0] = 0
      /\ \A i, j \in 0..H : i <= j => b[i] <= b[j]
      /\ Len(bits) = At(b[H - 1]) /\ Len(bits) + rest = At(b[H])
      /\ \A d \in 0..(H - 1) : Rank1(bits, At(b[d])) = b[d + 1] - 1
      /\ Numbers(b, H)
  <2>1. \A d \in 0..(H - 1) : d < H
    BY <1>1
  <2>2. /\ Numbers(b, H) /\ Len(bits) = At(b[H - 1]) /\ Len(bits) + rest = At(b[H])
        /\ \A d \in 0..(H - 1) : d < H => Rank1(bits, At(b[d])) = b[d + 1] - 1
    BY <1>1, LevelsParts
  <2>3. b \in [0..H -> Nat] /\ b[0] = 0 /\ \A i, j \in 0..H : i <= j => b[i] <= b[j]
    BY <2>2 DEF Numbers
  <2> QED  BY <2>1, <2>2, <2>3
<1>3. /\ e \in 0..H /\ e - 1 \in 0..H /\ H \in 0..H /\ H - 1 \in 0..H /\ e - 1 \in Nat
      /\ \A d \in 0..(H - 1) : d \in 0..H /\ d + 1 \in 0..H
  BY <1>1
<1>4. /\ b[e - 1] \in Nat /\ b[e] \in Nat /\ c \in Nat /\ b[e - 1] <= c /\ c + 1 <= b[e]
      /\ b[H] \in Nat /\ b[H - 1] \in Nat
  <2>1. b[e - 1] \in Nat /\ b[e] \in Nat /\ b[H] \in Nat /\ b[H - 1] \in Nat
    BY <1>2, <1>3
  <2> QED  BY <2>1
<1> DEFINE s == Shifted(b, H, e, -1)
<1>5. Numbers(s, H) /\ \A d \in 0..H : s[d] = IF d >= e THEN b[d] + (-1) ELSE b[d]
  <2>1. b[e - 1] < b[e]
    BY <1>4
  <2>2. PICK n \in {-1, 1} : n = -1
    OBVIOUS
  <2>3. /\ Numbers(Shifted(b, H, e, n), H)
        /\ \A d \in 0..H : Shifted(b, H, e, n)[d] = IF d >= e THEN b[d] + n ELSE b[d]
    <3>1. Numbers(b, H)
      BY <1>2
    <3> QED  BY <1>1, <2>1, <3>1, ShiftedBounds
  <2> QED  BY <2>2, <2>3
<1> HIDE DEF s
<1>6. s[H] = b[H] - 1 /\ (e < H => s[H - 1] = b[H - 1] - 1) /\ (e = H => s[H - 1] = b[H - 1])
  <2>1. s[H] = b[H] + (-1) /\ s[H - 1] = IF H - 1 >= e THEN b[H - 1] + (-1) ELSE b[H - 1]
    BY <1>1, <1>3, <1>5
  <2> QED  BY <1>1, <1>4, <2>1, SMTT(30)
<1>7. b[e] <= b[H] /\ (e < H => b[e] <= b[H - 1])
  BY <1>2, <1>3
<1>8. /\ BLOCK_SIZE \in Nat /\ At(c) \in Nat /\ At(b[H - 1]) \in Nat /\ At(b[H]) \in Nat
      /\ At(b[H] - 1) + BLOCK_SIZE = At(b[H])
      /\ e < H => At(b[H - 1] - 1) + BLOCK_SIZE = At(b[H - 1])
  <2>1. b[H] - 1 \in Nat /\ (b[H] - 1) + 1 = b[H]
    BY <1>4, <1>7
  <2>2. e < H => b[H - 1] - 1 \in Nat /\ (b[H - 1] - 1) + 1 = b[H - 1]
    BY <1>4, <1>7
  <2> QED  BY <1>4, <2>1, <2>2, AtNext, BlockSize
<1>9. CASE e < H /\ OnlyZeros(bits, At(c))
  <2> DEFINE w == DeleteBlock(bits, At(c))
  <2>1. At(c) + BLOCK_SIZE <= Len(bits)
    <3>1. c < b[H - 1]
      BY <1>4, <1>7, <1>9
    <3> QED  BY <1>2, <1>4, <3>1, AtOrder
  <2>2. \A q \in Nat : q <= At(c) => Rank1(w, q) = Rank1(bits, q)
    BY <1>8, <1>9, <2>1, RankDeleteBlock
  <2>7. \A q \in Nat : q >= At(c) => Rank1(w, q) = Rank1(bits, q + BLOCK_SIZE)
    BY <1>8, <1>9, <2>1, RankDeleteBlock
  <2>3. Len(w) = Len(bits) - BLOCK_SIZE
    BY <1>8, <2>1, DeleteBlockAccess
  <2> HIDE DEF w
  <2>4. Len(w) = At(s[H - 1]) /\ Len(w) + rest = At(s[H])
    <3>1. s[H] \in Nat /\ s[H - 1] \in Nat
      BY <1>3, <1>5 DEF Numbers
    <3>2. At(s[H]) \in Nat /\ At(s[H - 1]) \in Nat
      BY <3>1, AtOrder
    <3> QED  BY <1>2, <1>6, <1>8, <1>9, <2>3, <3>2, SMTT(30)
  <2>5. ASSUME NEW d \in 0..(H - 1)
        PROVE  /\ d < e - 1 => Rank1(w, At(s[d])) = s[d + 1] - 1
               /\ d >= e - 1 => Rank1(w, At(s[d])) = s[d + 1]
    <3>1. d \in 0..H /\ d + 1 \in 0..H /\ d \in Int
      BY <1>3
    <3>2. b[d] \in Nat /\ b[d + 1] \in Nat
      BY <1>2, <3>1
    <3>3. At(b[d]) \in Nat
      BY <3>2, AtOrder
    <3>4. CASE d < e
      <4>1. b[d] <= b[e - 1]
        BY <1>2, <1>3, <3>1, <3>4
      <4>2. At(b[d]) <= At(c)
        <5>1. b[d] <= c
          BY <1>4, <3>2, <4>1
        <5> QED  BY <1>4, <3>2, <5>1, AtOrder
      <4>3. s[d] = b[d]
        BY <1>5, <3>1, <3>4
      <4>4. Rank1(w, At(s[d])) = b[d + 1] - 1
        BY <1>2, <2>2, <3>3, <4>2, <4>3
      <4>5. s[d + 1] = IF d >= e - 1 THEN b[d + 1] + (-1) ELSE b[d + 1]
        BY <1>5, <3>1
      <4> QED  BY <3>2, <4>4, <4>5
    <3>5. CASE d >= e
      <4>1. b[e] <= b[d]
        BY <1>2, <1>3, <3>1, <3>5
      <4>2. b[d] - 1 \in Nat /\ c <= b[d] - 1 /\ (b[d] - 1) + 1 = b[d]
        BY <1>4, <3>2, <4>1, SMTT(30)
      <4>3. At(c) <= At(b[d] - 1) /\ At(b[d] - 1) \in Nat
            /\ At(b[d]) = At(b[d] - 1) + BLOCK_SIZE
        BY <1>4, <4>2, AtOrder, AtNext
      <4>4. s[d] = b[d] - 1 /\ s[d + 1] = b[d + 1] - 1 /\ d >= e - 1
        BY <1>5, <3>1, <3>2, <3>5
      <4>5. Rank1(w, At(s[d])) = Rank1(bits, At(b[d]))
        BY <2>7, <4>3, <4>4
      <4>6. ~(d < e - 1)
        BY <3>1, <3>5
      <4> QED  BY <1>2, <4>4, <4>5, <4>6
    <3> QED  BY <3>1, <3>4, <3>5
  <2>6. Levels(w, rest, H, s, e - 1)
    BY <1>1, <1>3, <1>5, <2>4, <2>5, LevelsFromParts
  <2> QED  BY <1>9, <2>6 DEF s, w
<1>10. CASE e = H
  <2>1. ASSUME NEW d \in 0..(H - 1)
        PROVE  /\ d < e - 1 => Rank1(bits, At(s[d])) = s[d + 1] - 1
               /\ d >= e - 1 => Rank1(bits, At(s[d])) = s[d + 1]
    <3>1. d \in 0..H /\ d + 1 \in 0..H /\ d \in Int
      BY <1>3
    <3>2. b[d] \in Nat /\ b[d + 1] \in Nat
      BY <1>2, <3>1
    <3>3. s[d] = b[d]
      BY <1>5, <1>10, <3>1
    <3>4. s[d + 1] = IF d >= e - 1 THEN b[d + 1] + (-1) ELSE b[d + 1]
      BY <1>5, <3>1
    <3> QED  BY <1>2, <3>2, <3>3, <3>4
  <2>2. Len(bits) = At(s[H - 1]) /\ Len(bits) + (rest - BLOCK_SIZE) = At(s[H])
    <3>1. At(b[H]) = At(s[H]) + BLOCK_SIZE /\ At(s[H]) \in Int
      <4>1. s[H] \in Nat
        BY <1>3, <1>5 DEF Numbers
      <4>2. s[H] + 1 = b[H]
        BY <1>4, <1>6, <4>1
      <4>3. At(s[H]) \in Nat /\ At(s[H] + 1) = At(s[H]) + BLOCK_SIZE
        BY <4>1, AtNext
      <4> QED  BY <4>2, <4>3
    <3>2. rest \in Int /\ Len(bits) \in Int /\ BLOCK_SIZE \in Int
      BY <1>8
    <3>3. s[H - 1] = b[H - 1]
      BY <1>6, <1>10
    <3> QED  BY <1>2, <3>1, <3>2, <3>3, SMTT(30)
  <2>3. Levels(bits, rest - BLOCK_SIZE, H, s, e - 1)
    BY <1>1, <1>3, <1>5, <2>1, <2>2, LevelsFromParts
  <2> QED  BY <1>10, <2>3 DEF s
<1> QED
  BY <1>9, <1>10

\* The numbering of a tree with only its root block.
Flat(H) == [d \in 0..H |-> IF d = 0 THEN 0 ELSE 1]

\* A root block without a 1 is a tree of any height.
LEMMA FlatLevels ==
  ASSUME NEW bits \in Seq(BOOLEAN), Len(bits) = BLOCK_SIZE, Rank1(bits, BLOCK_SIZE) = 0,
         NEW H \in Nat, H >= 2
  PROVE  Levels(bits, 0, H, Flat(H), H)
<1>1. \A d \in 0..H : Flat(H)[d] = IF d = 0 THEN 0 ELSE 1
  BY DEF Flat
<1>2. Numbers(Flat(H), H)
  <2>1. Flat(H) \in [0..H -> Nat]
    BY DEF Flat
  <2>2. Flat(H)[0] = 0
    BY <1>1
  <2>3. ASSUME NEW i \in 0..H, NEW j \in 0..H, i <= j PROVE Flat(H)[i] <= Flat(H)[j]
    <3>1. Flat(H)[i] = (IF i = 0 THEN 0 ELSE 1) /\ Flat(H)[j] = (IF j = 0 THEN 0 ELSE 1)
      BY <1>1
    <3> QED  BY <2>3, <3>1
  <2> QED  BY <2>1, <2>2, <2>3 DEF Numbers
<1>3. At(0) = 0 /\ At(1) = BLOCK_SIZE /\ BLOCK_SIZE \in Nat
  <2>1. At(0) = 0 /\ At(0 + 1) = At(0) + BLOCK_SIZE /\ BLOCK_SIZE \in Nat
    BY AtNext, AtOrder, BlockSize
  <2> QED  BY <2>1
<1>4. Flat(H)[H - 1] = 1 /\ Flat(H)[H] = 1
  BY <1>1
<1>5. ASSUME NEW d \in 0..(H - 1) PROVE Rank1(bits, At(Flat(H)[d])) = Flat(H)[d + 1] - 1
  <2>1. Flat(H)[d + 1] = 1 /\ (d = 0 => Flat(H)[d] = 0) /\ (d # 0 => Flat(H)[d] = 1)
    BY <1>1
  <2>2. Rank1(bits, 0) = 0
    BY RankZero
  <2> QED  BY <1>3, <2>1, <2>2
<1>6. \A d \in 0..(H - 1) : ~(d >= H)
  OBVIOUS
<1>7. Len(bits) = At(Flat(H)[H - 1]) /\ Len(bits) + 0 = At(Flat(H)[H])
  BY <1>3, <1>4
<1> HIDE DEF Flat
<1> QED
  BY <1>2, <1>5, <1>6, <1>7, LevelsFromParts

\* Without a 1 in the root block there is no other block.
LEMMA OnlyRootBlock ==
  ASSUME NEW bits \in Seq(BOOLEAN), NEW rest \in Nat, NEW H, NEW b, Levels(bits, rest, H, b, H),
         Rank1(bits, BLOCK_SIZE) = 0
  PROVE  Len(bits) = BLOCK_SIZE /\ rest = 0
<1>1. H \in Nat /\ H >= 2
  BY DEF Levels
<1>2. /\ Numbers(b, H) /\ Len(bits) = At(b[H - 1]) /\ Len(bits) + rest = At(b[H])
      /\ \A d \in 0..(H - 1) : Rank1(bits, At(b[d])) = b[d + 1] - 1
  <2>1. \A d \in 0..(H - 1) : d < H
    BY <1>1
  <2>2. /\ Numbers(b, H) /\ Len(bits) = At(b[H - 1]) /\ Len(bits) + rest = At(b[H])
        /\ \A d \in 0..(H - 1) : d < H => Rank1(bits, At(b[d])) = b[d + 1] - 1
    BY <1>1, LevelsParts
  <2> QED  BY <2>1, <2>2
<1>3. b \in [0..H -> Nat] /\ b[0] = 0
  BY <1>2 DEF Numbers
<1>4. At(0) = 0 /\ At(1) = BLOCK_SIZE /\ BLOCK_SIZE \in Nat
  <2>1. At(0) = 0 /\ At(0 + 1) = At(0) + BLOCK_SIZE /\ BLOCK_SIZE \in Nat
    BY AtNext, AtOrder, BlockSize
  <2> QED  BY <2>1
<1>5. \A d \in 1..H : b[d] = 1
  <2> DEFINE S == {d \in 1..H : b[d] # 1}
  <2> SUFFICES ASSUME S # {} PROVE FALSE
    OBVIOUS
  <2>1. S \in SUBSET Nat
    OBVIOUS
  <2>2. PICK n \in S : \A m \in S : n <= m
    <3> HIDE DEF S
    <3> QED  BY <2>1, LeastNatural
  <2>3. n \in 1..H /\ b[n] # 1 /\ b[n] \in Nat /\ n - 1 \in 0..(H - 1) /\ (n - 1) + 1 = n
    <3>1. n \in 1..H /\ b[n] # 1
      BY <2>2
    <3>2. n \in 0..H /\ n - 1 \in 0..(H - 1) /\ (n - 1) + 1 = n
      BY <1>1, <3>1
    <3> QED  BY <1>3, <3>1, <3>2
  <2>4. n - 1 = 0 \/ b[n - 1] = 1
    <3>1. n - 1 \notin S
      <4>1. ~(n <= n - 1)
        BY <2>3
      <4> QED  BY <2>2, <4>1
    <3>2. n - 1 = 0 \/ n - 1 \in 1..H
      BY <1>1, <2>3
    <3> QED  BY <3>1, <3>2
  <2>5. Rank1(bits, At(b[n - 1])) = 0
    <3>1. Rank1(bits, 0) = 0
      BY RankZero
    <3> QED  BY <1>3, <1>4, <2>4, <3>1
  <2>6. Rank1(bits, At(b[n - 1])) = b[n] - 1
    BY <1>2, <2>3
  <2> QED  BY <2>3, <2>5, <2>6
<1>6. b[H - 1] = 1 /\ b[H] = 1
  BY <1>1, <1>5
<1> QED
  BY <1>2, <1>4, <1>6

\* increaseMatrixSize: the old root block is the only block of level 2.
Raised(b, H) == [d \in 0..(H + 1) |-> IF d = 0 THEN 0 ELSE b[d - 1] + 1]

\* A new root block whose first bit is set is one more level.
LEMMA RaisedLevels ==
  ASSUME NEW bits \in Seq(BOOLEAN), NEW rest \in Nat, NEW H, NEW b, Levels(bits, rest, H, b, H)
  PROVE  Levels(SetBit(InsertBlock(bits, 0), 0, TRUE), rest, H + 1, Raised(b, H), H + 1)
<1>1. H \in Nat /\ H >= 2 /\ H + 1 \in Nat /\ H + 1 >= 2 /\ (H + 1) - 1 = H
  BY DEF Levels
<1>2. /\ Numbers(b, H) /\ Len(bits) = At(b[H - 1]) /\ Len(bits) + rest = At(b[H])
      /\ \A d \in 0..(H - 1) : Rank1(bits, At(b[d])) = b[d + 1] - 1
  <2>1. \A d \in 0..(H - 1) : d < H
    BY <1>1
  <2>2. /\ Numbers(b, H) /\ Len(bits) = At(b[H - 1]) /\ Len(bits) + rest = At(b[H])
        /\ \A d \in 0..(H - 1) : d < H => Rank1(bits, At(b[d])) = b[d + 1] - 1
    BY <1>1, LevelsParts
  <2> QED  BY <2>1, <2>2
<1>3. /\ b \in [0..H -> Nat] /\ b[0] = 0
      /\ \A i, j \in 0..H : i <= j => b[i] <= b[j]
  BY <1>2 DEF Numbers
<1> DEFINE r == Raised(b, H)
<1>4. /\ r \in [0..(H + 1) -> Nat] /\ r[0] = 0
      /\ \A d \in 1..(H + 1) : r[d] = b[d - 1] + 1 /\ d - 1 \in 0..H
  <2>1. r = [d \in 0..(H + 1) |-> IF d = 0 THEN 0 ELSE b[d - 1] + 1]
    BY DEF Raised
  <2> HIDE DEF r
  <2>2. \A d \in 0..(H + 1) : (IF d = 0 THEN 0 ELSE b[d - 1] + 1) \in Nat
    BY <1>1, <1>3
  <2> QED  BY <1>1, <2>1, <2>2
<1> HIDE DEF r
<1>5. Numbers(r, H + 1)
  <2>1. ASSUME NEW i \in 0..(H + 1), NEW j \in 0..(H + 1), i <= j PROVE r[i] <= r[j]
    <3>1. r[i] \in Nat /\ r[j] \in Nat
      BY <1>4
    <3>2. CASE i = 0
      BY <1>4, <3>1, <3>2
    <3>3. CASE i # 0
      <4>1. i \in 1..(H + 1) /\ j \in 1..(H + 1) /\ i - 1 <= j - 1
        BY <1>1, <2>1, <3>3
      <4>2. r[i] = b[i - 1] + 1 /\ r[j] = b[j - 1] + 1 /\ i - 1 \in 0..H /\ j - 1 \in 0..H
        BY <1>4, <4>1
      <4>3. b[i - 1] <= b[j - 1] /\ b[i - 1] \in Nat /\ b[j - 1] \in Nat
        BY <1>3, <4>1, <4>2
      <4> QED  BY <4>2, <4>3
    <3> QED  BY <3>2, <3>3
  <2> QED  BY <1>4, <2>1 DEF Numbers
<1> DEFINE v == InsertBlock(bits, 0)
           w == SetBit(v, 0, TRUE)
<1>6. 0 \in 0..Len(bits) /\ BLOCK_SIZE \in Nat /\ BLOCK_SIZE >= 4 /\ Len(bits) \in Nat
  BY BlockSize
<1>7. v \in Seq(BOOLEAN) /\ Len(v) = Len(bits) + BLOCK_SIZE /\ 0 \in 0..(Len(v) - 1)
  <2>1. v \in Seq(BOOLEAN) /\ Len(v) = Len(bits) + BLOCK_SIZE
    BY InsertBlockType
  <2> QED  BY <1>6, <2>1
<1>8. ~Access(v, 0)
  <2>1. Access(v, 0) <=> \/ 0 < 0 /\ Access(bits, 0)
                         \/ 0 >= 0 + BLOCK_SIZE /\ Access(bits, 0 - BLOCK_SIZE)
    BY <1>6, InsertBlockAccess
  <2> QED  BY <1>6, <2>1
<1>9. \A q \in Nat : q >= 0 => Rank1(v, q + BLOCK_SIZE) = Rank1(bits, q)
  BY <1>6, RankInsertBlock
<1>10. \A q \in Nat : q > 0 => Rank1(w, q) = Rank1(v, q) + 1
  <2> SUFFICES ASSUME NEW q \in Nat, q > 0 PROVE Rank1(w, q) = Rank1(v, q) + 1
    OBVIOUS
  <2>1. Rank1(w, q) = Rank1(v, q) + (IF 0 < q THEN IF TRUE THEN 1 ELSE -1 ELSE 0)
    <3> HIDE DEF v
    <3> QED  BY <1>7, <1>8, RankSetBit
  <2> QED  BY <2>1
<1>11. w \in Seq(BOOLEAN) /\ Len(w) = Len(bits) + BLOCK_SIZE
  <2> HIDE DEF v
  <2> QED  BY <1>7, SetBitType
<1>12. Rank1(w, 0) = 0
  BY <1>11, RankZero
<1> HIDE DEF v, w
<1>13. ASSUME NEW d \in 0..H PROVE Rank1(w, At(r[d])) = r[d + 1] - 1
  <2>1. d + 1 \in 1..(H + 1) /\ (d + 1) - 1 = d
    BY <1>1
  <2>2. r[d + 1] = b[d] + 1 /\ b[d] \in Nat
    BY <1>3, <1>4, <2>1
  <2>3. CASE d = 0
    <3>1. At(r[d]) = 0
      BY <1>4, <2>3, AtOrder
    <3> QED  BY <1>3, <1>12, <2>2, <2>3, <3>1
  <2>4. CASE d # 0
    <3>1. d \in 1..(H + 1) /\ d - 1 \in 0..(H - 1) /\ d - 1 \in 0..H /\ (d - 1) + 1 = d
      BY <1>1, <2>4
    <3>2. r[d] = b[d - 1] + 1 /\ b[d - 1] \in Nat
      BY <1>3, <1>4, <3>1
    <3>3. At(b[d - 1]) \in Nat /\ At(b[d - 1] + 1) = At(b[d - 1]) + BLOCK_SIZE
      BY <3>2, AtNext
    <3>4. Rank1(w, At(b[d - 1]) + BLOCK_SIZE) = Rank1(v, At(b[d - 1]) + BLOCK_SIZE) + 1
      BY <1>6, <1>10, <3>3
    <3>5. Rank1(v, At(b[d - 1]) + BLOCK_SIZE) = Rank1(bits, At(b[d - 1]))
      BY <1>9, <3>3
    <3>6. Rank1(bits, At(b[d - 1])) = b[d] - 1
      BY <1>2, <3>1
    <3> QED  BY <2>2, <3>2, <3>3, <3>4, <3>5, <3>6
  <2> QED  BY <2>3, <2>4
<1>14. Len(w) = At(r[H]) /\ Len(w) + rest = At(r[H + 1])
  <2>1. r[H] = b[H - 1] + 1 /\ r[H + 1] = b[H] + 1 /\ b[H - 1] \in Nat /\ b[H] \in Nat
    <3>1. H \in 1..(H + 1) /\ H + 1 \in 1..(H + 1) /\ (H + 1) - 1 = H
          /\ H - 1 \in 0..H /\ H \in 0..H
      BY <1>1
    <3> QED  BY <1>3, <1>4, <3>1
  <2>2. At(b[H - 1] + 1) = At(b[H - 1]) + BLOCK_SIZE /\ At(b[H] + 1) = At(b[H]) + BLOCK_SIZE
        /\ At(b[H - 1]) \in Nat /\ At(b[H]) \in Nat
    BY <2>1, AtNext
  <2> QED  BY <1>2, <1>6, <1>11, <2>1, <2>2
<1>15. /\ \A d \in 0..((H + 1) - 1) : d < H + 1 => Rank1(w, At(r[d])) = r[d + 1] - 1
       /\ \A d \in 0..((H + 1) - 1) : d >= H + 1 => Rank1(w, At(r[d])) = r[d + 1]
       /\ Len(w) = At(r[(H + 1) - 1])
  BY <1>1, <1>13, <1>14
<1> QED
  BY <1>1, <1>5, <1>14, <1>15, LevelsFromParts DEF r, w, v
-----------------------------------------------------------------------------
(* The tree between two steps, and the activations on it.                  *)

\* The calls whose activations are in frames.
Recursive == {"remove", "prune", "collect", "deleteRow", "deleteColumn", "find"}

\* The level that misses a block is the one after Owed(H), if that is below H.
Owed(H) == IF pc = "extend" THEN iteration - 1 ELSE IF pc = "prune" THEN level ELSE H

\* The activations fs are on blocks of the levels 1, 2, ..., each the child of
\* the bit its caller is at.
OnPath(bits, H, b, fs) ==
  /\ Len(fs) \in 1..H
  /\ \A i \in 1..Len(fs) : BlockOn(b, i, fs[i].firstAt)
  /\ \A i \in 1..(Len(fs) - 1) :
       /\ fs[i].offset \in 0..(BLOCK_SIZE - 1)
       /\ Access(bits, fs[i].firstAt + fs[i].offset)
       /\ fs[i + 1].firstAt = Rank1(bits, fs[i].firstAt + fs[i].offset + 1) * BLOCK_SIZE

\* deleteEdges goes from the last offset down to the first: an activation
\* that has seen only 0s has them at the offsets above its own.
ZerosAbove(bits, H, fs) ==
  \A i \in 1..Len(fs) : fs[i].only0s /\ i < H =>
    \A o \in (fs[i].offset + 1)..(BLOCK_SIZE - 1) : ~Access(bits, fs[i].firstAt + o)

\* A tree of H levels, numbered by b, in the middle of any call.
Structured(H, b) ==
  /\ matrixSize = LongPow[H]
  /\ Levels(ttree, Len(ltree), H, b, Owed(H))
  /\ pc = "traverse" => iteration \in 1..H /\ OnLevel(b, iteration, position)
  /\ pc = "extend" => /\ iteration \in 2..H /\ OnLevel(b, iteration - 1, position)
                      /\ Access(ttree, position)
  /\ pc \in Recursive => OnPath(ttree, H, b, frames) /\ top.offset \in -1..BLOCK_SIZE
  /\ pc \in {"remove", "prune"} => top.offset \in 0..(BLOCK_SIZE - 1)
  /\ pc = "prune" => level < H /\ Access(ttree, node)
  /\ pc \in {"collect", "deleteRow", "deleteColumn"} =>
       top.offset < BLOCK_SIZE /\ ZerosAbove(ttree, H, frames)
  /\ pc = "collect" => /\ level = 1
                       /\ Len(top.columns) = firstFreeColumn - (Len(freeColumns) - iteration)

\* Outside of the loop of addEdge and of the way back of removeEdge no block is owed.
LEMMA NothingOwed ==
  ASSUME NEW H, NEW b, Structured(H, b), pc \notin {"extend", "prune"}
  PROVE  /\ matrixSize = LongPow[H] /\ H \in Nat /\ H >= 2
         /\ Levels(ttree, Len(ltree), H, b, H)
<1>1. Levels(ttree, Len(ltree), H, b, H)
  BY DEF Structured, Owed
<1> QED
  BY <1>1 DEF Structured, Levels

\* Between calls there is only the tree.
LEMMA IdleStructured ==
  ASSUME NEW H, NEW b, matrixSize' = LongPow[H],
         Levels(ttree', Len(ltree'), H, b, H), pc' = "idle"
  PROVE  Structured(H, b)'
  BY DEF Structured, Owed, Recursive

\* A call that ends without a change leaves the tree.
LEMMA FinishStructured ==
  ASSUME NEW H, NEW b, Structured(H, b), pc \notin {"extend", "prune"},
         UNCHANGED matrix, pc' = "idle"
  PROVE  Structured(H, b)'
<1>1. matrixSize = LongPow[H] /\ Levels(ttree, Len(ltree), H, b, H)
  BY NothingOwed
<1>2. matrixSize' = LongPow[H] /\ Levels(ttree', Len(ltree'), H, b, H)
  BY <1>1 DEF matrix
<1> QED
  BY <1>2, IdleStructured

\* The root block is the only block of level 1.
LEMMA RootBlock ==
  ASSUME NEW bits \in Seq(BOOLEAN), NEW rest, NEW H, NEW b, NEW owed \in Nat \ {0},
         Levels(bits, rest, H, b, owed)
  PROVE  BlockOn(b, 1, 0) /\ \A o \in 0..(BLOCK_SIZE - 1) : OnLevel(b, 1, o)
<1>1. /\ H \in Nat /\ H >= 2 /\ Numbers(b, H)
      /\ \A d \in 0..(H - 1) : d < owed => Rank1(bits, At(b[d])) = b[d + 1] - 1
  BY LevelsParts
<1>2. b \in [0..H -> Nat] /\ b[0] = 0
  BY <1>1 DEF Numbers
<1>3. 0 \in 0..(H - 1) /\ 0 < owed /\ 0 + 1 = 1 /\ 1 \in 1..H /\ 1 \in 0..H /\ 1 - 1 = 0
  BY <1>1
<1>4. At(0) = 0 /\ Rank1(bits, 0) = 0
  BY AtOrder, RankZero
<1>5. b[1] = 1
  <2>1. Rank1(bits, At(b[0])) = b[0 + 1] - 1
    BY <1>1, <1>3
  <2>2. b[1] \in Nat /\ 0 = b[1] - 1
    BY <1>2, <1>3, <1>4, <2>1
  <2> QED  BY <2>2
<1>6. BlockOn(b, 1, 0)
  <2>1. 0 \in b[1 - 1]..(b[1] - 1)
    BY <1>2, <1>3, <1>5
  <2> QED  BY <1>4, <2>1 DEF BlockOn
<1>7. ASSUME NEW o \in 0..(BLOCK_SIZE - 1) PROVE OnLevel(b, 1, o)
  <2>1. OnLevel(b, 1, 0 + o)
    BY <1>1, <1>2, <1>3, <1>6, OffsetOnLevel
  <2>2. 0 + o = o
    BY BlockSize
  <2> QED  BY <2>1, <2>2
<1> QED
  BY <1>6, <1>7

\* The first activation is on a path.
LEMMA RootOnPath ==
  ASSUME NEW bits \in Seq(BOOLEAN), NEW rest, NEW H, NEW b, Levels(bits, rest, H, b, H),
         NEW f \in Frames, f.firstAt = 0
  PROVE  OnPath(bits, H, b, <<f>>)
<1>1. H \in Nat /\ H >= 2
  BY DEF Levels
<1>2. BlockOn(b, 1, 0)
  BY <1>1, RootBlock
<1>3. Len(<<f>>) = 1 /\ <<f>>[1] = f
  OBVIOUS
<1> QED
  BY <1>1, <1>2, <1>3 DEF OnPath

\* Where an activation is, its position is on its level.
LEMMA PositionOnPath ==
  ASSUME NEW bits, NEW rest, NEW H, NEW b, NEW owed, Levels(bits, rest, H, b, owed),
         NEW fs, OnPath(bits, H, b, fs), NEW i \in 1..Len(fs), NEW o \in 0..(BLOCK_SIZE - 1)
  PROVE  /\ fs[i].firstAt \in Nat /\ i \in 1..H
         /\ fs[i].firstAt + o \in Nat /\ OnLevel(b, i, fs[i].firstAt + o)
<1>1. H \in Nat /\ b \in [0..H -> Nat]
  BY DEF Levels
<1>2. i \in 1..H /\ BlockOn(b, i, fs[i].firstAt)
  BY <1>1 DEF OnPath
<1> QED
  BY <1>1, <1>2, OffsetOnLevel

\* gs are the first m activations of fs; the last may have moved on.
Outer(fs, m, gs) == /\ Len(gs) = m
                    /\ \A i \in 1..m : gs[i].firstAt = fs[i].firstAt
                    /\ \A i \in 1..(m - 1) : gs[i].offset = fs[i].offset

\* b and c number the levels up to m alike.
SameNumbers(b, c, m) == \A d \in 0..m : c[d] = b[d]

\* The path to level m depends only on the levels above m.
LEMMA OuterOnPath ==
  ASSUME NEW bits \in Seq(BOOLEAN), NEW rest, NEW H, NEW b, NEW owed,
         Levels(bits, rest, H, b, owed),
         NEW fs, OnPath(bits, H, b, fs), NEW m \in 1..Len(fs),
         NEW gs, Outer(fs, m, gs), NEW c, SameNumbers(b, c, m),
         NEW w \in Seq(BOOLEAN), SameBits(bits, 0, At(b[m - 1]), w, 0)
  PROVE  OnPath(w, H, c, gs)
<1>1. /\ H \in Nat /\ b \in [0..H -> Nat]
      /\ \A i, j \in 0..H : i <= j => b[i] <= b[j]
  BY DEF Levels
<1>2. /\ Len(fs) \in 1..H /\ \A i \in 1..Len(fs) : BlockOn(b, i, fs[i].firstAt)
      /\ \A i \in 1..(Len(fs) - 1) :
           /\ fs[i].offset \in 0..(BLOCK_SIZE - 1)
           /\ Access(bits, fs[i].firstAt + fs[i].offset)
           /\ fs[i + 1].firstAt = Rank1(bits, fs[i].firstAt + fs[i].offset + 1) * BLOCK_SIZE
  BY DEF OnPath
<1>3. Len(fs) \in Nat /\ m \in 1..H /\ m - 1 \in 0..H
  BY <1>1, <1>2
<1>4. /\ Len(gs) = m /\ \A i \in 1..m : gs[i].firstAt = fs[i].firstAt
      /\ \A i \in 1..(m - 1) : gs[i].offset = fs[i].offset
  BY DEF Outer
<1>5. ASSUME NEW i \in 1..m PROVE BlockOn(c, i, gs[i].firstAt)
  <2>1. i \in 1..Len(fs) /\ i - 1 \in 0..m /\ i \in 0..m
    BY <1>3
  <2>2. c[i - 1] = b[i - 1] /\ c[i] = b[i]
    BY <2>1 DEF SameNumbers
  <2>3. BlockOn(b, i, fs[i].firstAt) /\ gs[i].firstAt = fs[i].firstAt
    BY <1>2, <1>4, <2>1
  <2> QED  BY <2>2, <2>3 DEF BlockOn
<1>6. ASSUME NEW i \in 1..(m - 1)
      PROVE  /\ gs[i].offset \in 0..(BLOCK_SIZE - 1)
             /\ Access(w, gs[i].firstAt + gs[i].offset)
             /\ gs[i + 1].firstAt = Rank1(w, gs[i].firstAt + gs[i].offset + 1) * BLOCK_SIZE
  <2>1. /\ i \in 1..(Len(fs) - 1) /\ i \in 1..Len(fs) /\ i \in 1..m /\ i + 1 \in 1..m
        /\ i \in 0..H /\ i <= m - 1 /\ i \in 1..H
    <3>1. Len(fs) \in 1..H /\ H \in Nat /\ m \in 1..H
      BY <1>1, <1>2, <1>3
    <3> QED  BY <3>1
  <2>2. /\ gs[i].firstAt = fs[i].firstAt /\ gs[i].offset = fs[i].offset
        /\ gs[i + 1].firstAt = fs[i + 1].firstAt
    BY <1>4, <2>1
  <2> DEFINE p == fs[i].firstAt + fs[i].offset
  <2>3. /\ fs[i].offset \in 0..(BLOCK_SIZE - 1) /\ Access(bits, p)
        /\ fs[i + 1].firstAt = Rank1(bits, p + 1) * BLOCK_SIZE
    BY <1>2, <2>1
  <2>4. p \in Nat /\ OnLevel(b, i, p)
    BY <2>1, <2>3, PositionOnPath
  <2> HIDE DEF p
  <2>5. b[i] <= b[m - 1] /\ b[i] \in Nat /\ b[m - 1] \in Nat
    BY <1>1, <1>3, <2>1
  <2>6. At(b[i]) <= At(b[m - 1]) /\ At(b[i]) \in Nat /\ At(b[m - 1]) \in Nat
    BY <2>5, AtOrder
  <2>7. p + 1 \in Nat /\ p + 1 <= At(b[m - 1]) /\ p \in 0..(At(b[m - 1]) - 1) /\ p + 0 = p
    BY <2>4, <2>6 DEF OnLevel
  <2>8. Access(bits, p) <=> Access(w, p + 0)
    BY <2>7 DEF SameBits
  <2>9. SameBits(bits, 0, p + 1, w, 0)
    BY <2>6, <2>7 DEF SameBits
  <2>10. Rank1(bits, p + 1) = Rank1(w, p + 1)
    BY <2>7, <2>9, RankOfPrefix
  <2> QED  BY <2>2, <2>3, <2>7, <2>8, <2>10 DEF p
<1>7. Len(gs) \in 1..H
  BY <1>3, <1>4
<1> QED
  BY <1>4, <1>5, <1>6, <1>7 DEF OnPath

\* An unchanged path, whose top activation may have moved on.
LEMMA PathStays ==
  ASSUME NEW bits \in Seq(BOOLEAN), NEW rest, NEW H, NEW b, NEW owed,
         Levels(bits, rest, H, b, owed),
         NEW fs, OnPath(bits, H, b, fs), NEW m \in 1..Len(fs), NEW gs, Outer(fs, m, gs)
  PROVE  OnPath(bits, H, b, gs)
<1>1. SameNumbers(b, b, m)
  BY DEF SameNumbers
<1>2. SameBits(bits, 0, At(b[m - 1]), bits, 0)
  <2>1. \A i \in 0..(At(b[m - 1]) - 1) : i + 0 = i
    OBVIOUS
  <2> QED  BY <2>1 DEF SameBits
<1> QED
  BY <1>1, <1>2, OuterOnPath

\* A call descends from a 1 to its child block.
LEMMA DescendOnPath ==
  ASSUME ttree \in Seq(BOOLEAN), NEW rest \in Nat, NEW H, NEW b, Levels(ttree, rest, H, b, H),
         frames \in Seq(Frames), frames # <<>>, OnPath(ttree, H, b, frames),
         top.offset \in 0..(BLOCK_SIZE - 1), Access(ttree, node),
         NEW f \in Frames, f.firstAt = ChildBlock(node)
  PROVE  level < H /\ OnPath(ttree, H, b, Append(frames, f))
<1>1. level = Len(frames) /\ level \in Nat \ {0} /\ top = frames[level] /\ node \in Int
  BY TopType DEF top
<1>2. H \in Nat /\ Len(frames) \in 1..H
  BY DEF Levels, OnPath
<1>3. /\ node \in Nat /\ OnLevel(b, level, node) /\ level \in 1..H
      /\ node = frames[level].firstAt + frames[level].offset
  <2>1. level \in 1..Len(frames) /\ node = frames[level].firstAt + frames[level].offset
    BY <1>1 DEF node
  <2>2. frames[level].offset \in 0..(BLOCK_SIZE - 1)
    BY <1>1
  <2>3. /\ level \in 1..H /\ frames[level].firstAt + frames[level].offset \in Nat
        /\ OnLevel(b, level, frames[level].firstAt + frames[level].offset)
    BY <2>1, <2>2, PositionOnPath
  <2> QED  BY <2>1, <2>3
<1>4. level < H
  <2>1. node < Len(ttree)
    BY DEF Access
  <2>2. Len(ttree) \in Nat /\ (level = H => node >= Len(ttree))
    BY <1>3, LevelsInVectors
  <2> QED  BY <1>2, <1>3, <2>1, <2>2
<1>5. BlockOn(b, level + 1, ChildBlock(node))
  <2>1. level \in 1..(H - 1)
    BY <1>2, <1>3, <1>4
  <2> QED  BY <1>2, <1>3, <1>4, <2>1, ChildBlockOnLevel
<1> DEFINE gs == Append(frames, f)
<1>6. /\ Len(gs) = level + 1 /\ gs[level + 1] = f
      /\ \A i \in 1..level : gs[i] = frames[i]
  BY <1>1
<1> HIDE DEF gs
<1>7. Len(gs) \in 1..H
  BY <1>2, <1>3, <1>4, <1>6
<1>8. ASSUME NEW i \in 1..Len(gs) PROVE BlockOn(b, i, gs[i].firstAt)
  <2>1. CASE i = level + 1
    BY <1>5, <1>6, <2>1
  <2>2. CASE i # level + 1
    <3>1. i \in 1..level /\ i \in 1..Len(frames)
      BY <1>1, <1>6, <2>2
    <3> QED  BY <1>6, <3>1 DEF OnPath
  <2> QED  BY <2>1, <2>2
<1>9. ASSUME NEW i \in 1..(Len(gs) - 1)
      PROVE  /\ gs[i].offset \in 0..(BLOCK_SIZE - 1)
             /\ Access(ttree, gs[i].firstAt + gs[i].offset)
             /\ gs[i + 1].firstAt =
                  Rank1(ttree, gs[i].firstAt + gs[i].offset + 1) * BLOCK_SIZE
  <2>1. i \in 1..level /\ gs[i] = frames[i]
    BY <1>1, <1>6
  <2>2. CASE i = level
    <3>1. gs[i] = frames[level] /\ gs[i + 1] = f
      BY <1>6, <2>1, <2>2
    <3>2. gs[i].firstAt + gs[i].offset = node
      BY <1>3, <3>1
    <3>3. f.firstAt = Rank1(ttree, node + 1) * BLOCK_SIZE
      BY DEF ChildBlock
    <3>4. gs[i].offset \in 0..(BLOCK_SIZE - 1)
      BY <1>1, <3>1
    <3> QED  BY <3>1, <3>2, <3>3, <3>4
  <2>3. CASE i # level
    <3>1. i \in 1..(Len(frames) - 1) /\ i + 1 \in 1..level
      BY <1>1, <2>1, <2>3
    <3>2. gs[i + 1] = frames[i + 1]
      BY <1>6, <3>1
    <3> QED  BY <2>1, <3>1, <3>2 DEF OnPath
  <2> QED  BY <2>2, <2>3
<1>10. OnPath(ttree, H, b, gs)
  BY <1>7, <1>8, <1>9 DEF OnPath
<1> QED
  BY <1>4, <1>10 DEF gs

\* A new activation has seen nothing yet.
LEMMA DescendZeros ==
  ASSUME NEW bits, NEW H, frames \in Seq(Frames), frames # <<>>, ZerosAbove(bits, H, frames),
         NEW f \in Frames, f.offset = BLOCK_SIZE - 1
  PROVE  ZerosAbove(bits, H, Append(frames, f))
<1>1. Len(frames) \in Nat /\ Len(Append(frames, f)) = Len(frames) + 1
  OBVIOUS
<1>2. /\ Append(frames, f)[Len(frames) + 1] = f
      /\ \A i \in 1..Len(frames) : Append(frames, f)[i] = frames[i]
  OBVIOUS
<1>3. \A o \in (f.offset + 1)..(BLOCK_SIZE - 1) : FALSE
  BY BlockSize
<1> DEFINE gs == Append(frames, f)
<1> HIDE DEF gs
<1>4. ASSUME NEW i \in 1..Len(gs), gs[i].only0s, i < H,
             NEW o \in (gs[i].offset + 1)..(BLOCK_SIZE - 1)
      PROVE  ~Access(bits, gs[i].firstAt + o)
  <2>1. CASE i = Len(frames) + 1
    BY <1>2, <1>3, <1>4, <2>1 DEF gs
  <2>2. CASE i # Len(frames) + 1
    <3>1. i \in 1..Len(frames) /\ gs[i] = frames[i]
      BY <1>1, <1>2, <2>2 DEF gs
    <3> QED  BY <1>4, <3>1 DEF ZerosAbove
  <2> QED  BY <2>1, <2>2
<1> QED
  BY <1>4 DEF gs, ZerosAbove
-----------------------------------------------------------------------------
(* The steps.                                                              *)

\* Matrices of side 1 or k are left out: their root block has no level below
\* it (see the run power1).
TallMatrices == /\ \A power \in Powers : power >= 2
                /\ \A size \in Sizes : size > K

\* A new tree has its root block and the levels of its matrix.
LEMMA InitStructured ==
  ASSUME TallMatrices, Init
  PROVE  \E H, b : Structured(H, b)
<1>1. \E H \in Nat : H >= 2 /\ matrixSize = LongPow[H]
  <2>1. CASE \E power \in Powers : New(power)
    BY <2>1, BoundsAssumption DEF New, TallMatrices
  <2>2. CASE \E size \in Sizes : WithSize(size)
    <3>1. PICK size \in Sizes : WithSize(size)
      BY <2>2
    <3>2. size \in Nat /\ size > K
      BY <3>1, BoundsAssumption DEF TallMatrices
    <3>3. PICK p \in 0..size : LongPow[p] >= size /\ matrixSize = LongPow[p]
      BY <3>1 DEF WithSize
    <3>4. LongPow[0] = 1
      BY LongPowEquation
    <3>5. LongPow[1] = K
      <4>1. LongPow[0 + 1] = K * LongPow[0]
        BY LongPowGrows
      <4> QED  BY <3>4, <4>1, KAssumption
    <3>6. p # 0 /\ p # 1
      BY <3>2, <3>3, <3>4, <3>5, KAssumption
    <3>7. p \in Nat /\ p >= 2
      BY <3>2, <3>6
    <3> QED  BY <3>3, <3>7
  <2> QED  BY <2>1, <2>2 DEF Init
<1>2. PICK H \in Nat : H >= 2 /\ matrixSize = LongPow[H]
  BY <1>1
<1>3. ttree \in Seq(BOOLEAN) /\ Len(ttree) = BLOCK_SIZE /\ Len(ltree) = 0 /\ pc = "idle"
  <2>1. [i \in 1..BLOCK_SIZE |-> FALSE] \in [1..BLOCK_SIZE -> BOOLEAN]
    BY Zenon
  <2>2. BLOCK_SIZE \in Nat
    BY BlockSize
  <2>3. ttree \in Seq(BOOLEAN) /\ Len(ttree) = BLOCK_SIZE
    BY <2>1, <2>2, FunctionIsSeq, Zenon DEF Init
  <2> QED  BY <2>3 DEF Init, Idle
<1>4. Rank1(ttree, BLOCK_SIZE) = 0
  <2>1. \A i \in 0..(BLOCK_SIZE - 1) : ~Access(ttree, i)
    <3> SUFFICES ASSUME NEW i \in 0..(BLOCK_SIZE - 1) PROVE ~Access(ttree, i)
      OBVIOUS
    <3>1. i + 1 \in 1..BLOCK_SIZE
      BY BlockSize
    <3>2. ~ttree[i + 1]
      BY <3>1 DEF Init
    <3> QED  BY <3>2 DEF Access
  <2>2. 0 \in Nat /\ BLOCK_SIZE \in Nat /\ 0 <= BLOCK_SIZE
    BY BlockSize
  <2>3. Rank1(ttree, BLOCK_SIZE) = Rank1(ttree, 0)
    BY <1>3, <2>1, <2>2, RankOfZeros
  <2> QED  BY <1>3, <2>3, RankZero
<1>5. Levels(ttree, 0, H, Flat(H), H)
  BY <1>2, <1>3, <1>4, FlatLevels
<1>6. Structured(H, Flat(H))
  BY <1>2, <1>3, <1>5 DEF Structured, Owed, Recursive
<1> QED
  BY <1>6

\* insertEntry leaves the tree, or makes it one level higher.
LEMMA InsertEntryStructured ==
  ASSUME Typed, NEW H, NEW b, Structured(H, b), InsertEntry
  PROVE  \E G, c : Structured(G, c)'
<1>1. pc = "idle" /\ pc' = "idle"
  BY DEF InsertEntry, Finish
<1>2. /\ matrixSize = LongPow[H] /\ H \in Nat /\ H >= 2
      /\ Levels(ttree, Len(ltree), H, b, H)
  BY <1>1, NothingOwed
<1>3. ttree \in Seq(BOOLEAN) /\ ltree \in Seq(BOOLEAN) /\ Len(ltree) \in Nat
  BY DEF Typed, TypeOK
<1>4. CASE UNCHANGED matrix
  BY <1>1, <1>4, FinishStructured
<1>5. CASE IncreaseMatrixSize
  <2>1. matrixSize' = LongPow[H + 1] /\ UNCHANGED ltree /\ H + 1 \in Nat /\ H + 1 >= 2
    <3>1. LongPow[H + 1] = K * LongPow[H] /\ LongPow[H] \in Nat
      BY <1>2, LongPowGrows, LongPowPositive
    <3>2. LongPow[H] * K = K * LongPow[H]
      BY <3>1, KAssumption
    <3> QED  BY <1>2, <1>5, <3>1, <3>2 DEF IncreaseMatrixSize
  <2>2. CASE Rank1(ttree, BLOCK_SIZE) > 0
    <3>1. ttree' = SetBit(InsertBlock(ttree, 0), 0, TRUE)
      BY <1>5, <2>2 DEF IncreaseMatrixSize
    <3>2. Levels(ttree', Len(ltree'), H + 1, Raised(b, H), H + 1)
      BY <1>2, <1>3, <2>1, <3>1, RaisedLevels
    <3> QED  BY <1>1, <2>1, <3>2, IdleStructured
  <2>3. CASE ~(Rank1(ttree, BLOCK_SIZE) > 0)
    <3>1. ttree' = ttree
      BY <1>5, <2>3 DEF IncreaseMatrixSize
    <3>2. Rank1(ttree, BLOCK_SIZE) = 0
      BY <1>3, <2>3, Rank1Type
    <3>3. Len(ttree) = BLOCK_SIZE /\ Len(ltree) = 0
      BY <1>2, <1>3, <3>2, OnlyRootBlock
    <3>4. Levels(ttree, 0, H + 1, Flat(H + 1), H + 1)
      BY <1>3, <2>1, <3>2, <3>3, FlatLevels
    <3>5. Levels(ttree', Len(ltree'), H + 1, Flat(H + 1), H + 1)
      BY <2>1, <3>1, <3>3, <3>4
    <3> QED  BY <1>1, <2>1, <3>5, IdleStructured
  <2> QED  BY <2>2, <2>3
<1> QED
  BY <1>4, <1>5 DEF InsertEntry, matrix

\* addEdge and reportEdge start in the root block.
LEMMA StartTraverseStructured ==
  ASSUME Typed, NEW H, NEW b, Structured(H, b), NEW c \in EdgeCalls, StartTraverse(c)
  PROVE  Structured(H, b)'
<1>1. pc = "idle"
  BY DEF StartTraverse, Begin
<1>2. /\ matrixSize = LongPow[H] /\ H \in Nat /\ H >= 2
      /\ Levels(ttree, Len(ltree), H, b, H)
  BY <1>1, NothingOwed
<1>3. CASE Throw(c) /\ UNCHANGED <<matrix, bookkeeping>>
  <2>1. pc' = "idle" /\ UNCHANGED matrix
    BY <1>3 DEF Throw, Finish
  <2> QED  BY <1>1, <2>1, FinishStructured
<1>4. CASE /\ pc' = "traverse" /\ iteration' = 1
           /\ position' = CalculateOffset(c.row, c.column, 1)
           /\ UNCHANGED <<matrix, bookkeeping, frames, findings>>
  <2>1. c.row \in Nat /\ c.column \in Nat /\ 1 \in 1..H
    BY <1>2 DEF EdgeCalls
  <2>2. CalculateOffset(c.row, c.column, 1) \in 0..(BLOCK_SIZE - 1)
    BY <1>2, <2>1, OffsetInBlock
  <2>3. OnLevel(b, 1, CalculateOffset(c.row, c.column, 1))
    <3>1. ttree \in Seq(BOOLEAN) /\ H \in Nat \ {0}
      BY <1>2 DEF Typed, TypeOK
    <3> QED  BY <1>2, <2>2, <3>1, RootBlock
  <2>4. iteration' \in 1..H /\ OnLevel(b, iteration', position')
    BY <1>4, <2>1, <2>3
  <2>5. matrixSize' = LongPow[H] /\ Levels(ttree', Len(ltree'), H, b, H) /\ pc' = "traverse"
    BY <1>2, <1>4 DEF matrix
  <2> QED  BY <2>4, <2>5 DEF Structured, Owed, Recursive
<1> QED
  BY <1>3, <1>4 DEF StartTraverse

\* addEdge and reportEdge go down one level.
LEMMA TraverseOneStructured ==
  ASSUME Typed, NEW H, NEW b, Structured(H, b), TraverseOne
  PROVE  Structured(H, b)'
<1>1. pc = "traverse" /\ Access(ttree, position) /\ UNCHANGED matrix
  BY DEF TraverseOne
<1>2. /\ matrixSize = LongPow[H] /\ H \in Nat /\ H >= 2
      /\ Levels(ttree, Len(ltree), H, b, H)
  BY <1>1, NothingOwed
<1>3. /\ ttree \in Seq(BOOLEAN) /\ position \in Nat /\ call \in EdgeCalls
      /\ call.row \in Nat /\ call.column \in Nat
  BY <1>1 DEF Typed, TypeOK, EdgeCalls
<1>4. iteration \in 1..H /\ OnLevel(b, iteration, position)
  BY <1>1 DEF Structured
<1>5. CASE Partition(iteration + 1) = 0
  <2>1. pc' = "idle"
    BY <1>5 DEF TraverseOne, Throw, Finish
  <2> QED  BY <1>1, <2>1, FinishStructured
<1>6. CASE Partition(iteration + 1) # 0
  <2>1. /\ iteration' = iteration + 1 /\ pc' = "traverse"
        /\ position' = ChildBlock(position)
                       + CalculateOffset(call.row, call.column, iteration + 1)
    BY <1>1, <1>6 DEF TraverseOne
  <2>2. iteration + 1 \in 1..H
    <3>1. iteration + 1 \in Nat
      BY <1>2, <1>4
    <3>2. ~(iteration + 1 > H)
      BY <1>2, <1>6, <3>1, PartitionSizes
    <3> QED  BY <1>2, <1>4, <3>1, <3>2
  <2>3. BlockOn(b, iteration + 1, ChildBlock(position))
    <3>1. iteration \in 1..(H - 1) /\ iteration < H /\ H \in Nat
      BY <1>2, <1>4, <2>2
    <3> QED  BY <1>1, <1>2, <1>3, <1>4, <3>1, ChildBlockOnLevel
  <2>4. CalculateOffset(call.row, call.column, iteration + 1) \in 0..(BLOCK_SIZE - 1)
    BY <1>2, <1>3, <2>2, OffsetInBlock
  <2>5. OnLevel(b, iteration + 1, position')
    <3>1. b \in [0..H -> Nat]
      BY <1>2 DEF Levels
    <3> QED  BY <1>2, <2>1, <2>2, <2>3, <2>4, <3>1, OffsetOnLevel
  <2>6. iteration' \in 1..H /\ OnLevel(b, iteration', position')
    BY <2>1, <2>2, <2>5
  <2>7. matrixSize' = LongPow[H] /\ Levels(ttree', Len(ltree'), H, b, H) /\ pc' = "traverse"
    BY <1>1, <1>2, <2>1 DEF matrix
  <2> QED  BY <2>6, <2>7 DEF Structured, Owed, Recursive
<1> QED
  BY <1>5, <1>6

\* addEdge sets a bit of ltree.
LEMMA AddEdgeInLTreeStructured ==
  ASSUME Typed, NEW H, NEW b, Structured(H, b), AddEdgeInLTree
  PROVE  Structured(H, b)'
<1>1. pc = "traverse" /\ pc' = "idle" /\ UNCHANGED <<ttree, matrixSize>>
      /\ ltree' = SetBit(ltree, position - Len(ttree), TRUE)
  BY DEF AddEdgeInLTree, AtLTree, Finish
<1>2. matrixSize = LongPow[H] /\ Levels(ttree, Len(ltree), H, b, H)
  BY <1>1, NothingOwed
<1>3. Len(ltree') = Len(ltree)
  BY <1>1, SetBitType DEF Typed, TypeOK
<1> QED
  BY <1>1, <1>2, <1>3, IdleStructured

\* addEdge sets the first 0 it meets, and owes it a block.
LEMMA AddEdgeAtFirst0Structured ==
  ASSUME Typed, NEW H, NEW b, Structured(H, b), AddEdgeAtFirst0
  PROVE  Structured(H, b)'
<1>1. /\ pc = "traverse" /\ position < Len(ttree) /\ ~Access(ttree, position)
      /\ ttree' = SetBit(ttree, position, TRUE) /\ iteration' = iteration + 1
      /\ pc' = "extend" /\ UNCHANGED <<ltree, matrixSize, position>>
  BY DEF AddEdgeAtFirst0, AtFirst0
<1>2. /\ matrixSize = LongPow[H] /\ H \in Nat /\ H >= 2
      /\ Levels(ttree, Len(ltree), H, b, H)
  BY <1>1, NothingOwed
<1>3. ttree \in Seq(BOOLEAN) /\ position \in Nat /\ Len(ltree) \in Nat
  BY DEF Typed, TypeOK
<1>4. iteration \in 1..H /\ OnLevel(b, iteration, position)
  BY <1>1 DEF Structured
<1>5. iteration \in 1..(H - 1) /\ position \in 0..(Len(ttree) - 1)
  <2>1. Len(ttree) \in Nat /\ (iteration = H => position >= Len(ttree))
    BY <1>2, <1>3, <1>4, LevelsInVectors
  <2> QED  BY <1>1, <1>2, <1>3, <1>4, <2>1
<1>6. Levels(ttree', Len(ltree'), H, b, iteration)
  <2>1. Levels(SetBit(ttree, position, TRUE), Len(ltree), H, b, iteration)
    BY <1>1, <1>2, <1>3, <1>4, <1>5, SetOnLevel
  <2> QED  BY <1>1, <2>1
<1>7. Access(ttree', position')
  <2>1. Access(SetBit(ttree, position, TRUE), position)
          <=> IF position = position THEN TRUE ELSE Access(ttree, position)
    BY <1>3, <1>5, SetBitAccess
  <2> QED  BY <1>1, <2>1
<1>8. iteration' \in 2..H /\ iteration' - 1 = iteration /\ OnLevel(b, iteration' - 1, position')
  <2>1. iteration' \in 2..H /\ iteration' - 1 = iteration
    BY <1>1, <1>2, <1>5
  <2> QED  BY <1>1, <1>4, <2>1
<1>9. matrixSize' = LongPow[H] /\ Levels(ttree', Len(ltree'), H, b, iteration' - 1)
  BY <1>1, <1>2, <1>6, <1>8
<1> QED
  BY <1>1, <1>7, <1>8, <1>9 DEF Structured, Owed, Recursive

\* In the loop of addEdge the next block goes among those of its level.
LEMMA ExtendAt ==
  ASSUME Typed, NEW H, NEW b, Structured(H, b), pc = "extend"
  PROVE  /\ matrixSize = LongPow[H] /\ H \in Nat /\ H >= 2 /\ b \in [0..H -> Nat]
         /\ iteration \in 2..H
         /\ Levels(ttree, Len(ltree), H, b, iteration - 1)
         /\ Rank1(ttree, position + 1) \in b[iteration - 1]..b[iteration]
         /\ ChildBlock(position) = At(Rank1(ttree, position + 1))
<1>1. /\ matrixSize = LongPow[H] /\ Levels(ttree, Len(ltree), H, b, iteration - 1)
      /\ iteration \in 2..H /\ OnLevel(b, iteration - 1, position) /\ Access(ttree, position)
  BY DEF Structured, Owed
<1>2. H \in Nat /\ H >= 2 /\ b \in [0..H -> Nat]
  BY <1>1 DEF Levels
<1>3. ttree \in Seq(BOOLEAN) /\ position \in Nat
  BY DEF Typed, TypeOK
<1>4. Rank1(ttree, position + 1) \in b[iteration - 1]..b[iteration]
  <2> DEFINE d == iteration - 1
  <2>1. d \in 1..(H - 1) /\ d \in Nat /\ d <= d /\ d >= d /\ d + 1 = iteration
    BY <1>1, <1>2
  <2>2. OnLevel(b, d, position) /\ Levels(ttree, Len(ltree), H, b, d)
    BY <1>1
  <2> HIDE DEF d
  <2>3. Rank1(ttree, position + 1) \in b[d]..(b[d + 1] - (IF d >= d THEN 0 ELSE 1))
    BY <1>1, <1>3, <2>1, <2>2, ChildOnLevel
  <2>4. b[d + 1] \in Nat
    BY <1>1, <1>2, <2>1
  <2> QED  BY <2>1, <2>3, <2>4 DEF d
<1>5. ChildBlock(position) = At(Rank1(ttree, position + 1))
  <2>1. Rank1(ttree, position + 1) \in Nat /\ BLOCK_SIZE \in Nat
    BY <1>3, Rank1Type, BlockSize
  <2> QED  BY <2>1 DEF ChildBlock, At
<1> QED
  BY <1>1, <1>2, <1>4, <1>5

\* The owed block is inserted in ttree, and its bit owes the next one.
LEMMA ExtendTTreeStructured ==
  ASSUME Typed, NEW H, NEW b, Structured(H, b), ExtendTTree
  PROVE  \E c : Structured(H, c)'
<1> DEFINE n == Rank1(ttree, position + 1)
           o == CalculateOffset(call.row, call.column, iteration)
           w == InsertBlock(ttree, At(n))
           s == Shifted(b, H, iteration, 1)
           p == At(n) + o
<1>1. /\ pc = "extend" /\ pc' = "extend" /\ Partition(iteration) > 1
      /\ iteration' = iteration + 1 /\ UNCHANGED <<ltree, matrixSize>>
  BY DEF ExtendTTree
<1>2. /\ matrixSize = LongPow[H] /\ H \in Nat /\ H >= 2 /\ b \in [0..H -> Nat]
      /\ iteration \in 2..H /\ Levels(ttree, Len(ltree), H, b, iteration - 1)
      /\ n \in b[iteration - 1]..b[iteration]
      /\ ChildBlock(position) = At(n)
  BY <1>1, ExtendAt
<1>3. ttree' = SetBit(w, p, TRUE) /\ position' = p
  BY <1>2 DEF ExtendTTree
<1>4. /\ ttree \in Seq(BOOLEAN) /\ Len(ltree) \in Nat
      /\ call.row \in Nat /\ call.column \in Nat
  BY <1>1 DEF Typed, TypeOK, EdgeCalls
<1>5. iteration < H /\ iteration \in 1..(H - 1) /\ iteration \in 1..H /\ iteration \in Nat
  <2>1. iteration \in Nat
    BY <1>2
  <2>2. iteration < H
    BY <1>1, <1>2, <2>1, PartitionSizes
  <2> QED  BY <1>2, <2>1, <2>2
<1>6. o \in 0..(BLOCK_SIZE - 1)
  BY <1>2, <1>4, <1>5, OffsetInBlock
<1>7. Levels(w, Len(ltree), H, s, H)
  BY <1>2, <1>4, <1>5, FillLevels
<1>8. s \in [0..H -> Nat] /\ s[iteration] = b[iteration] + 1 /\ s[iteration - 1] = b[iteration - 1]
  <2>1. iteration \in 0..H /\ iteration - 1 \in 0..H /\ ~(iteration - 1 >= iteration)
    BY <1>2
  <2>2. s[iteration] = b[iteration] + 1 /\ s[iteration - 1] = b[iteration - 1]
    BY <2>1 DEF Shifted
  <2> QED  BY <1>7, <2>2 DEF Levels
<1> HIDE DEF o, s
<1>9. BlockOn(s, iteration, At(n))
  <2>1. b[iteration - 1] \in Nat /\ b[iteration] \in Nat
    <3>1. iteration - 1 \in 0..H /\ iteration \in 0..H
      BY <1>2
    <3> QED  BY <1>2, <3>1
  <2>2. n \in s[iteration - 1]..(s[iteration] - 1)
    BY <1>2, <1>8, <2>1
  <2> QED  BY <2>2 DEF BlockOn
<1>10. At(n) \in Nat /\ p \in Nat /\ OnLevel(s, iteration, p)
  BY <1>2, <1>5, <1>6, <1>8, <1>9, OffsetOnLevel
<1>11. At(n) \in 0..Len(ttree)
  <2>1. w \in Seq(BOOLEAN) /\ Len(w) = Len(ttree) + BLOCK_SIZE
    BY <1>4, <1>10, InsertBlockType
  <2>2. At(n) + BLOCK_SIZE <= Len(w)
    <3> HIDE DEF w, n
    <3> QED  BY <1>4, <1>5, <1>7, <1>9, BlocksInVectors
  <2> QED  BY <1>4, <1>10, <2>1, <2>2, BlockSize
<1>12. ~Access(w, p)
  <2>1. Access(w, p) <=> \/ p < At(n) /\ Access(ttree, p)
                         \/ p >= At(n) + BLOCK_SIZE /\ Access(ttree, p - BLOCK_SIZE)
    BY <1>4, <1>10, <1>11, InsertBlockAccess
  <2>2. ~(p < At(n)) /\ ~(p >= At(n) + BLOCK_SIZE)
    BY <1>6, <1>10, BlockSize
  <2> QED  BY <2>1, <2>2
<1>13. w \in Seq(BOOLEAN)
  BY <1>4, <1>10, InsertBlockType
<1> HIDE DEF w, p
<1>14. p \in 0..(Len(w) - 1)
  <2>1. Len(w) \in Nat /\ p < Len(w)
    BY <1>4, <1>5, <1>7, <1>10, LevelsInVectors
  <2> QED  BY <1>10, <2>1
<1>15. Levels(SetBit(w, p, TRUE), Len(ltree), H, s, iteration)
  BY <1>5, <1>7, <1>10, <1>12, <1>13, <1>14, SetOnLevel
<1>16. Access(SetBit(w, p, TRUE), p)
  <2>1. Access(SetBit(w, p, TRUE), p) <=> IF p = p THEN TRUE ELSE Access(w, p)
    BY <1>10, <1>13, <1>14, SetBitAccess
  <2> QED  BY <2>1
<1>17. iteration' \in 2..H /\ iteration' - 1 = iteration
  BY <1>1, <1>2, <1>5
<1>18. /\ matrixSize' = LongPow[H] /\ Levels(ttree', Len(ltree'), H, s, iteration' - 1)
       /\ OnLevel(s, iteration' - 1, position') /\ Access(ttree', position')
  BY <1>1, <1>2, <1>3, <1>10, <1>15, <1>16, <1>17
<1>19. PICK c : c = s
  OBVIOUS
<1>20. Levels(ttree', Len(ltree'), H, c, iteration' - 1) /\ OnLevel(c, iteration' - 1, position')
  BY <1>18, <1>19
<1>21. Structured(H, c)'
  BY <1>1, <1>17, <1>18, <1>20 DEF Structured, Owed, Recursive
<1> QED
  BY <1>21

\* The owed block of the last level is inserted in ltree.
LEMMA ExtendLTreeStructured ==
  ASSUME Typed, NEW H, NEW b, Structured(H, b), ExtendLTree
  PROVE  \E c : Structured(H, c)'
<1> DEFINE n == Rank1(ttree, position + 1)
           at == ChildBlock(position) - Len(ttree)
           v == InsertBlock(ltree, at)
           s == Shifted(b, H, iteration, 1)
<1>1. /\ pc = "extend" /\ Partition(iteration) <= 1 /\ UNCHANGED <<ttree, matrixSize>>
  BY DEF ExtendLTree
<1>2. /\ matrixSize = LongPow[H] /\ H \in Nat /\ H >= 2 /\ b \in [0..H -> Nat]
      /\ iteration \in 2..H /\ Levels(ttree, Len(ltree), H, b, iteration - 1)
      /\ n \in b[iteration - 1]..b[iteration]
  BY <1>1, ExtendAt
<1>3. ttree \in Seq(BOOLEAN) /\ ltree \in Seq(BOOLEAN) /\ Len(ltree) \in Nat /\ Len(ttree) \in Nat
  BY DEF Typed, TypeOK
<1>4. iteration = H /\ Partition(iteration) = 1
  <2>1. iteration \in Nat /\ iteration <= H
    BY <1>2
  <2>2. ~(iteration < H) /\ Partition(iteration) \in Nat
    BY <1>1, <1>2, <2>1, PartitionSizes
  <2>3. iteration = H
    BY <1>2, <2>1, <2>2
  <2>4. Partition(H) = 1
    BY <1>2, PartitionSizes
  <2> QED  BY <2>3, <2>4
<1>5. /\ pc' = "idle"
      /\ ltree' = SetBit(v, at + CalculateOffset(call.row, call.column, iteration), TRUE)
  BY <1>4 DEF ExtendLTree, Finish
<1>6. v \in Seq(BOOLEAN) /\ Len(v) = Len(ltree) + BLOCK_SIZE
  <2>1. at \in Int
    BY <1>3, ChildBlockType
  <2> QED  BY <1>3, <2>1, InsertBlockType
<1>7. Len(ltree') = Len(ltree) + BLOCK_SIZE
  <2> HIDE DEF v
  <2> QED  BY <1>5, <1>6, SetBitType
<1>8. Levels(ttree, Len(ltree) + BLOCK_SIZE, H, s, H)
  BY <1>2, <1>3, <1>4, FillLevels
<1>9. matrixSize' = LongPow[H] /\ Levels(ttree', Len(ltree'), H, s, H)
  BY <1>1, <1>2, <1>7, <1>8
<1> QED
  BY <1>5, <1>9, IdleStructured

\* What is to be shown of a step of a recursive function.
LEMMA RecursiveStructured ==
  ASSUME NEW H, NEW b, matrixSize' = LongPow[H], Levels(ttree', Len(ltree'), H, b, H),
         pc' \in {"remove", "deleteRow", "deleteColumn", "find"},
         OnPath(ttree', H, b, frames'), NEW f, frames'[Len(frames')] = f,
         f.offset \in -1..BLOCK_SIZE,
         pc' = "remove" => f.offset \in 0..(BLOCK_SIZE - 1),
         pc' \in {"deleteRow", "deleteColumn"} =>
           f.offset < BLOCK_SIZE /\ ZerosAbove(ttree', H, frames')
  PROVE  Structured(H, b)'
<1>1. top' = f
  BY DEF top, level
<1>2. pc' \notin {"traverse", "extend", "prune", "collect"}
  OBVIOUS
<1>3. Owed(H)' = H
  BY <1>2 DEF Owed
<1> QED
  BY <1>1, <1>2, <1>3 DEF Structured, Recursive

\* The activations of a call in progress.
LEMMA RecursiveParts ==
  ASSUME Typed, NEW H, NEW b, Structured(H, b),
         pc \in {"remove", "deleteRow", "deleteColumn", "find"}
  PROVE  /\ matrixSize = LongPow[H] /\ H \in Nat /\ H >= 2
         /\ Levels(ttree, Len(ltree), H, b, H)
         /\ ttree \in Seq(BOOLEAN) /\ ltree \in Seq(BOOLEAN)
         /\ Len(ltree) \in Nat /\ Len(ttree) \in Nat
         /\ frames \in Seq(Frames) /\ frames # <<>>
         /\ level = Len(frames) /\ level \in 1..H /\ level \in 1..Len(frames)
         /\ level \in Nat
         /\ top = frames[level] /\ top \in Frames
         /\ OnPath(ttree, H, b, frames)
         /\ top.offset \in -1..BLOCK_SIZE
         /\ pc = "remove" => top.offset \in 0..(BLOCK_SIZE - 1)
         /\ pc \in {"deleteRow", "deleteColumn"} =>
              top.offset < BLOCK_SIZE /\ ZerosAbove(ttree, H, frames)
<1>1. pc \notin {"extend", "prune"} /\ pc \in Recursive
  BY DEF Recursive
<1>2. /\ matrixSize = LongPow[H] /\ H \in Nat /\ H >= 2
      /\ Levels(ttree, Len(ltree), H, b, H)
  BY <1>1, NothingOwed
<1>3. /\ ttree \in Seq(BOOLEAN) /\ ltree \in Seq(BOOLEAN)
      /\ frames \in Seq(Frames) /\ frames # <<>>
  BY DEF Typed, TypeOK
<1>4. Len(ltree) \in Nat /\ Len(ttree) \in Nat
  BY <1>3
<1>5. level = Len(frames) /\ level \in Nat \ {0} /\ top = frames[level] /\ top \in Frames
  BY <1>3, TopType DEF top
<1>6. /\ OnPath(ttree, H, b, frames) /\ top.offset \in -1..BLOCK_SIZE
      /\ pc = "remove" => top.offset \in 0..(BLOCK_SIZE - 1)
      /\ pc \in {"deleteRow", "deleteColumn"} =>
           top.offset < BLOCK_SIZE /\ ZerosAbove(ttree, H, frames)
  BY <1>1 DEF Structured
<1>7. Len(frames) \in 1..H
  BY <1>6 DEF OnPath
<1>8. level \in 1..H /\ level \in 1..Len(frames)
  BY <1>5, <1>7
<1> QED
  BY <1>2, <1>3, <1>4, <1>5, <1>6, <1>8

\* A recursive call starts in the root block.
LEMMA StartRecursive ==
  ASSUME Typed, NEW H, NEW b, Structured(H, b), pc = "idle", UNCHANGED matrix,
         pc' \in {"remove", "collect", "deleteRow", "find"},
         NEW f \in Frames, frames' = <<f>>, f.firstAt = 0,
         f.offset \in 0..(BLOCK_SIZE - 1),
         pc' \in {"collect", "deleteRow"} => f.offset = BLOCK_SIZE - 1,
         pc' = "collect" => Len(f.columns) = firstFreeColumn' - (Len(freeColumns') - iteration')
  PROVE  Structured(H, b)'
<1>1. matrixSize = LongPow[H] /\ Levels(ttree, Len(ltree), H, b, H)
  BY NothingOwed
<1>2. /\ matrixSize' = LongPow[H] /\ Levels(ttree', Len(ltree'), H, b, H)
      /\ ttree' = ttree
  BY <1>1 DEF matrix
<1>3. OnPath(ttree', H, b, frames')
  BY <1>1, <1>2, RootOnPath DEF Typed, TypeOK
<1>4. level' = 1 /\ top' = f /\ Len(frames') = 1 /\ frames'[1] = f
  BY DEF level, top
<1>5. f.offset \in -1..BLOCK_SIZE /\ f.offset < BLOCK_SIZE
  BY BlockSize
<1>6. pc' \in {"collect", "deleteRow"} => ZerosAbove(ttree', H, frames')
  <2> SUFFICES ASSUME pc' \in {"collect", "deleteRow"} PROVE ZerosAbove(ttree', H, frames')
    OBVIOUS
  <2>1. \A o \in (f.offset + 1)..(BLOCK_SIZE - 1) : FALSE
    BY BlockSize
  <2> QED  BY <1>4, <2>1 DEF ZerosAbove
<1>7. Owed(H)' = H
  BY DEF Owed
<1>8. pc' \notin {"traverse", "extend", "prune", "deleteColumn"}
  OBVIOUS
<1> QED
  BY <1>2, <1>3, <1>4, <1>5, <1>6, <1>7, <1>8 DEF Structured, Recursive

\* removeEdge starts.
LEMMA RemoveEdgeStructured ==
  ASSUME Typed, NEW H, NEW b, Structured(H, b), NEW row \in Nat, NEW column \in Nat,
         RemoveEdge(row, column)
  PROVE  Structured(H, b)'
<1>1. pc = "idle" /\ UNCHANGED matrix
  BY DEF RemoveEdge
<1>2. CASE Partition(1) = 0
  <2>1. pc' = "idle"
    BY <1>2 DEF RemoveEdge, Throw, Finish
  <2> QED  BY <1>1, <2>1, FinishStructured
<1>3. CASE Partition(1) # 0
  <2> DEFINE o == CalculateOffset(row, column, 1)
             f == Frame(<<row>>, <<column>>, 0, o)
  <2>1. pc' = "remove" /\ frames' = <<f>>
    BY <1>3 DEF RemoveEdge
  <2>2. o \in 0..(BLOCK_SIZE - 1)
    <3>1. matrixSize = LongPow[H] /\ H \in Nat /\ 1 \in 1..H
      BY <1>1, NothingOwed
    <3> QED  BY <3>1, OffsetInBlock
  <2>3. o \in Nat /\ <<row>> \in Seq(Nat) /\ <<column>> \in Seq(Nat)
    BY <2>2, BlockSize
  <2> HIDE DEF o
  <2>4. f \in Frames /\ f.firstAt = 0 /\ f.offset = o
    BY <2>3, FrameType DEF Frame
  <2> HIDE DEF f
  <2>5. pc' \in {"remove", "collect", "deleteRow", "find"}
    BY <2>1
  <2> QED  BY <1>1, <2>1, <2>2, <2>4, <2>5, StartRecursive
<1> QED
  BY <1>2, <1>3

\* deleteEntry starts, with as many others as there are entries before the first loop.
LEMMA DeleteEntryStructured ==
  ASSUME Typed, NEW H, NEW b, Structured(H, b), NEW a \in Nat, DeleteEntry(a)
  PROVE  Structured(H, b)'
<1> DEFINE c == [op |-> "deleteEntry", a |-> a]
           cs == [i \in 1..firstFreeColumn |-> i - 1]
           f == Frame(<<a>>, cs, 0, BLOCK_SIZE - 1)
<1>1. CASE Throw(c) /\ UNCHANGED <<matrix, bookkeeping>> /\ pc = "idle"
  <2>1. pc' = "idle" /\ UNCHANGED matrix
    BY <1>1 DEF Throw, Finish
  <2> QED  BY <1>1, <2>1, FinishStructured
<1>2. CASE /\ Begin(c)
           /\ pc' = IF freeColumns = <<>> THEN "deleteRow" ELSE "collect"
           /\ iteration' = Len(freeColumns)
           /\ frames' = <<f>>
           /\ UNCHANGED <<matrix, bookkeeping, position, findings>>
  <2>1. firstFreeColumn \in Nat /\ freeColumns \in Seq(Nat) /\ Len(freeColumns) \in Nat
    BY DEF Typed, TypeOK
  <2>2. cs \in Seq(Nat) /\ Len(cs) = firstFreeColumn
    <3>1. cs \in [1..firstFreeColumn -> Nat]
      BY <2>1
    <3> HIDE DEF cs
    <3> QED  BY <2>1, <3>1, FunctionIsSeq
  <2>3. /\ f \in Frames /\ f.firstAt = 0 /\ f.offset = BLOCK_SIZE - 1 /\ f.columns = cs
        /\ BLOCK_SIZE - 1 \in 0..(BLOCK_SIZE - 1)
    <3>1. <<a>> \in Seq(Nat) /\ BLOCK_SIZE - 1 \in Nat
      BY BlockSize
    <3> HIDE DEF cs
    <3>2. f \in Frames
      BY <2>2, <3>1, FrameType
    <3>3. f.firstAt = 0 /\ f.offset = BLOCK_SIZE - 1 /\ f.columns = cs
      BY DEF Frame
    <3> QED  BY <3>1, <3>2, <3>3, BlockSize
  <2> HIDE DEF f, cs
  <2>4. /\ pc = "idle" /\ UNCHANGED <<matrix, freeColumns, firstFreeColumn>>
        /\ pc' \in {"remove", "collect", "deleteRow", "find"}
    BY <1>2 DEF Begin, bookkeeping
  <2>5. Len(f.columns) = firstFreeColumn' - (Len(freeColumns') - iteration')
    BY <1>2, <2>1, <2>2, <2>3, <2>4
  <2> QED  BY <1>2, <2>3, <2>4, <2>5, StartRecursive
<1> QED
  BY <1>1, <1>2 DEF DeleteEntry

\* reportAllEdges starts.
LEMMA ReportAllEdgesStructured ==
  ASSUME Typed, NEW H, NEW b, Structured(H, b), NEW A \in Seq(Nat), NEW B \in Seq(Nat),
         ReportAllEdges(A, B)
  PROVE  Structured(H, b)'
<1> DEFINE c == [op |-> "reportAllEdges", A |-> A, B |-> B]
<1>1. CASE Throw(c) /\ UNCHANGED <<matrix, bookkeeping>> /\ pc = "idle"
  <2>1. pc' = "idle" /\ UNCHANGED matrix
    BY <1>1 DEF Throw, Finish
  <2> QED  BY <1>1, <2>1, FinishStructured
<1>2. CASE /\ Begin(c) /\ pc' = "find"
           /\ \E rs \in Sorted(Elements(A)), cs \in Sorted(Elements(B)) :
                 frames' = <<Frame(rs, cs, 0, 0)>>
           /\ UNCHANGED <<matrix, bookkeeping, iteration, position, findings>>
  <2>1. PICK rs \in Sorted(Elements(A)), cs \in Sorted(Elements(B)) :
          frames' = <<Frame(rs, cs, 0, 0)>>
    BY <1>2
  <2>2. rs \in Seq(Nat) /\ cs \in Seq(Nat)
    BY SortedType
  <2> DEFINE f == Frame(rs, cs, 0, 0)
  <2>3. f \in Frames /\ f.firstAt = 0 /\ f.offset = 0
    BY <2>2, FrameType DEF Frame
  <2>4. frames' = <<f>>
    BY <2>1
  <2> HIDE DEF f
  <2>5. 0 \in 0..(BLOCK_SIZE - 1) /\ pc = "idle" /\ UNCHANGED matrix
        /\ pc' \in {"remove", "collect", "deleteRow", "find"} /\ pc' = "find"
    BY <1>2, BlockSize DEF Begin
  <2> QED  BY <2>3, <2>4, <2>5, StartRecursive
<1> QED
  BY <1>1, <1>2 DEF ReportAllEdges

\* A recursive function calls itself on the child block of a 1.
LEMMA DescendStructured ==
  ASSUME Typed, NEW H, NEW b, Structured(H, b), UNCHANGED <<matrix, pc>>,
         pc \in {"remove", "deleteRow", "deleteColumn", "find"},
         top.offset \in 0..(BLOCK_SIZE - 1), Access(ttree, node),
         NEW f \in Frames, frames' = Append(frames, f), f.firstAt = ChildBlock(node),
         pc \in {"remove", "find"} => f.offset \in 0..(BLOCK_SIZE - 1),
         pc \in {"deleteRow", "deleteColumn"} => f.offset = BLOCK_SIZE - 1
  PROVE  Structured(H, b)'
<1>1. /\ matrixSize = LongPow[H] /\ Levels(ttree, Len(ltree), H, b, H)
      /\ ttree \in Seq(BOOLEAN) /\ Len(ltree) \in Nat
      /\ frames \in Seq(Frames) /\ frames # <<>> /\ OnPath(ttree, H, b, frames)
      /\ pc \in {"deleteRow", "deleteColumn"} => ZerosAbove(ttree, H, frames)
  BY RecursiveParts
<1>2. OnPath(ttree, H, b, frames')
  BY <1>1, DescendOnPath
<1>3. pc \in {"deleteRow", "deleteColumn"} => ZerosAbove(ttree, H, frames')
  BY <1>1, DescendZeros
<1>4. frames'[Len(frames')] = f
  BY <1>1
<1>5. f.offset \in 0..(BLOCK_SIZE - 1) /\ f.offset \in -1..BLOCK_SIZE /\ f.offset < BLOCK_SIZE
  BY BlockSize
<1>6. /\ matrixSize' = LongPow[H] /\ Levels(ttree', Len(ltree'), H, b, H)
      /\ OnPath(ttree', H, b, frames') /\ pc' = pc
      /\ pc' \in {"deleteRow", "deleteColumn"} => ZerosAbove(ttree', H, frames')
      /\ pc' \in {"remove", "deleteRow", "deleteColumn", "find"}
  BY <1>1, <1>2, <1>3 DEF matrix
<1> QED
  BY <1>4, <1>5, <1>6, RecursiveStructured

\* removeEdge descends.
LEMMA RemoveDescendsStructured ==
  ASSUME Typed, NEW H, NEW b, Structured(H, b), RemoveDescends
  PROVE  Structured(H, b)'
<1>1. pc = "remove" /\ Access(ttree, node) /\ UNCHANGED matrix
  BY DEF RemoveDescends
<1>2. /\ matrixSize = LongPow[H] /\ H \in Nat /\ level \in 1..H /\ level \in Nat
      /\ ttree \in Seq(BOOLEAN)
      /\ top \in Frames /\ top.offset \in 0..(BLOCK_SIZE - 1)
  BY <1>1, RecursiveParts
<1>3. CASE Partition(level + 1) = 0
  <2>1. pc' = "idle" /\ pc \notin {"extend", "prune"}
    BY <1>1, <1>3 DEF RemoveDescends, Throw, Finish
  <2> QED  BY <1>1, <2>1, FinishStructured
<1>4. CASE Partition(level + 1) # 0
  <2> DEFINE o == CalculateOffset(call.row, call.column, level + 1)
             f == Frame(top.rows, top.columns, ChildBlock(node), o)
  <2>1. frames' = Append(frames, f) /\ UNCHANGED pc
    BY <1>4 DEF RemoveDescends
  <2>2. call.row \in Nat /\ call.column \in Nat
    BY <1>1 DEF Typed, TypeOK, EdgeCalls
  <2>3. o \in 0..(BLOCK_SIZE - 1)
    <3>1. level + 1 \in Nat /\ ~(level + 1 > H)
      BY <1>2, <1>4, PartitionSizes
    <3>2. level + 1 \in 1..H
      BY <1>2, <3>1
    <3> QED  BY <1>2, <2>2, <3>2, OffsetInBlock
  <2>4. f \in Frames /\ f.firstAt = ChildBlock(node) /\ f.offset = o
    <3>1. top.rows \in Seq(Nat) /\ top.columns \in Seq(Nat)
      BY <1>2 DEF Frames
    <3>2. ChildBlock(node) \in Nat /\ o \in Nat
      BY <1>2, <2>3, ChildBlockType, BlockSize
    <3> HIDE DEF o
    <3>3. f \in Frames
      BY <3>1, <3>2, FrameType
    <3> QED  BY <3>3 DEF Frame
  <2> HIDE DEF f, o
  <2> QED  BY <1>1, <1>2, <2>1, <2>3, <2>4, DescendStructured
<1> QED
  BY <1>3, <1>4

\* An activation of deleteEdges or findAllEdges is on a 1 that its slices reach.
LEMMA SliceFrame ==
  ASSUME Typed, frames # <<>>, NEW rs \in RowSlices, NEW cs \in ColumnSlices,
         NEW o \in Nat
  PROVE  /\ Frame(rs, cs, ChildBlock(node), o) \in Frames
         /\ Frame(rs, cs, ChildBlock(node), o).firstAt = ChildBlock(node)
         /\ Frame(rs, cs, ChildBlock(node), o).offset = o
<1>1. rs \in Seq(Nat) /\ cs \in Seq(Nat)
  BY SlicesOfTop DEF Typed, TypeOK
<1>2. ChildBlock(node) \in Nat
  BY ChildBlockType DEF Typed, TypeOK
<1>3. Frame(rs, cs, ChildBlock(node), o) \in Frames
  BY <1>1, <1>2, FrameType
<1> QED
  BY <1>3 DEF Frame

\* deleteEdges descends.
LEMMA DeleteDescendsStructured ==
  ASSUME Typed, NEW H, NEW b, Structured(H, b), DeleteDescends
  PROVE  Structured(H, b)'
<1>1. /\ pc \in {"deleteRow", "deleteColumn"} /\ Access(ttree, node) /\ top.offset >= 0
      /\ UNCHANGED <<matrix, pc>>
  BY DEF DeleteDescends, AtTTreeOffset, Deleting
<1>2. frames # <<>> /\ top.offset \in -1..BLOCK_SIZE /\ top.offset < BLOCK_SIZE
  BY <1>1, RecursiveParts
<1>3. top.offset \in 0..(BLOCK_SIZE - 1) /\ BLOCK_SIZE - 1 \in Nat
  BY <1>1, <1>2, BlockSize
<1>4. PICK rs \in RowSlices, cs \in ColumnSlices :
        frames' = Append(frames, Frame(rs, cs, ChildBlock(node), BLOCK_SIZE - 1))
  BY DEF DeleteDescends
<1> DEFINE f == Frame(rs, cs, ChildBlock(node), BLOCK_SIZE - 1)
<1>5. f \in Frames /\ f.firstAt = ChildBlock(node) /\ f.offset = BLOCK_SIZE - 1
  BY <1>2, <1>3, SliceFrame
<1>6. frames' = Append(frames, f)
  BY <1>4
<1> HIDE DEF f
<1> QED
  BY <1>1, <1>3, <1>5, <1>6, DescendStructured

\* findAllEdges descends.
LEMMA FindDescendsStructured ==
  ASSUME Typed, NEW H, NEW b, Structured(H, b), FindDescends
  PROVE  Structured(H, b)'
<1>1. /\ pc = "find" /\ Access(ttree, node) /\ top.offset < BLOCK_SIZE
      /\ UNCHANGED <<matrix, pc>>
  BY DEF FindDescends, FindAtTTree
<1>2. frames # <<>> /\ level = Len(frames) /\ level \in 1..Len(frames) /\ top = frames[level]
  BY <1>1, RecursiveParts
<1>3. top.offset \in 0..(BLOCK_SIZE - 1) /\ 0 \in 0..(BLOCK_SIZE - 1) /\ 0 \in Nat
  <2>1. top.offset \in Nat
    BY <1>1, <1>2, FindTypes
  <2> QED  BY <1>1, <2>1, BlockSize
<1>4. PICK rs \in RowSlices, cs \in ColumnSlices :
        frames' = Append(frames, Frame(rs, cs, ChildBlock(node), 0))
  BY DEF FindDescends
<1> DEFINE f == Frame(rs, cs, ChildBlock(node), 0)
<1>5. f \in Frames /\ f.firstAt = ChildBlock(node) /\ f.offset = 0
  BY <1>2, <1>3, SliceFrame
<1>6. frames' = Append(frames, f)
  BY <1>4
<1> HIDE DEF f
<1> QED
  BY <1>1, <1>3, <1>5, <1>6, DescendStructured

\* The next offset of the top activation, after it has looked at its bit.
LEMMA NextOffsetStructured ==
  ASSUME Typed, NEW H, NEW b, Structured(H, b), AtTTreeOffset,
         NEW o \in BOOLEAN, NextOffset(o),
         o => top.only0s /\ ~Access(ttree, node)
  PROVE  Structured(H, b)'
<1>1. pc \in {"deleteRow", "deleteColumn"} /\ top.offset >= 0 /\ UNCHANGED <<matrix, pc>>
  BY DEF AtTTreeOffset, Deleting, NextOffset
<1>2. /\ matrixSize = LongPow[H] /\ Levels(ttree, Len(ltree), H, b, H)
      /\ ttree \in Seq(BOOLEAN) /\ frames \in Seq(Frames)
      /\ level = Len(frames) /\ level \in 1..Len(frames) /\ level \in Nat
      /\ top = frames[level] /\ top \in Frames
      /\ OnPath(ttree, H, b, frames)
      /\ top.offset \in -1..BLOCK_SIZE /\ top.offset < BLOCK_SIZE
      /\ ZerosAbove(ttree, H, frames)
  BY <1>1, RecursiveParts
<1> DEFINE f == [top EXCEPT !.offset = @ - 1, !.only0s = o]
<1>3. /\ f \in Frames /\ f.firstAt = top.firstAt /\ f.offset = top.offset - 1 /\ f.only0s = o
      /\ f.offset \in -1..BLOCK_SIZE /\ f.offset < BLOCK_SIZE
  <2>1. top.offset - 1 \in Nat \cup {-1} /\ top.offset - 1 \in -1..BLOCK_SIZE
        /\ top.offset - 1 < BLOCK_SIZE
    BY <1>1, <1>2, BlockSize
  <2> QED  BY <1>2, <2>1 DEF Frames
<1>4. frames' = [frames EXCEPT ![level] = f]
  BY <1>2 DEF NextOffset
<1> HIDE DEF f
<1>5. /\ Len(frames') = Len(frames)
      /\ \A j \in 1..Len(frames) : frames'[j] = IF j = level THEN f ELSE frames[j]
  BY <1>2, <1>3, <1>4, ReplaceFrame
<1>6. Outer(frames, level, frames')
  BY <1>2, <1>3, <1>5 DEF Outer
<1>7. OnPath(ttree, H, b, frames')
  BY <1>2, <1>6, PathStays
<1>8. ZerosAbove(ttree, H, frames')
  <2> SUFFICES ASSUME NEW i \in 1..Len(frames'), frames'[i].only0s, i < H,
                      NEW q \in (frames'[i].offset + 1)..(BLOCK_SIZE - 1)
               PROVE  ~Access(ttree, frames'[i].firstAt + q)
    BY DEF ZerosAbove
  <2>1. CASE i # level
    <3>1. i \in 1..Len(frames) /\ frames'[i] = frames[i]
      BY <1>5, <2>1
    <3> QED  BY <1>2, <3>1 DEF ZerosAbove
  <2>2. CASE i = level
    <3>1. frames'[i] = f
      BY <1>2, <1>5, <2>2
    <3>2. o /\ top.only0s /\ ~Access(ttree, node)
      <4>1. f.only0s
        BY <3>1
      <4>2. o
        BY <1>3, <4>1
      <4> QED  BY <4>2
    <3>3. q \in top.offset..(BLOCK_SIZE - 1) /\ frames'[i].firstAt = top.firstAt
      BY <1>2, <1>3, <3>1
    <3>4. CASE q = top.offset
      BY <3>2, <3>3, <3>4 DEF node
    <3>5. CASE q # top.offset
      <4>1. q \in (top.offset + 1)..(BLOCK_SIZE - 1)
        BY <1>2, <3>3, <3>5, BlockSize
      <4> QED  BY <1>2, <2>2, <3>2, <3>3, <4>1 DEF ZerosAbove
    <3> QED  BY <3>4, <3>5
  <2> QED  BY <2>1, <2>2
<1>9. frames'[Len(frames')] = f
  BY <1>2, <1>5
<1>10. /\ matrixSize' = LongPow[H] /\ Levels(ttree', Len(ltree'), H, b, H)
       /\ OnPath(ttree', H, b, frames') /\ ZerosAbove(ttree', H, frames')
       /\ pc' \in {"remove", "deleteRow", "deleteColumn", "find"} /\ pc' # "remove"
  BY <1>1, <1>2, <1>7, <1>8 DEF matrix
<1> QED
  BY <1>3, <1>9, <1>10, RecursiveStructured

\* findAllEdges goes to the next offset.
LEMMA FindSkipsStructured ==
  ASSUME Typed, NEW H, NEW b, Structured(H, b), FindSkips
  PROVE  Structured(H, b)'
<1>1. pc = "find" /\ top.offset < BLOCK_SIZE /\ UNCHANGED <<matrix, pc>>
  BY DEF FindSkips, FindAtTTree
<1>2. /\ matrixSize = LongPow[H] /\ Levels(ttree, Len(ltree), H, b, H)
      /\ ttree \in Seq(BOOLEAN) /\ frames \in Seq(Frames)
      /\ level = Len(frames) /\ level \in 1..Len(frames) /\ level \in Nat
      /\ top = frames[level] /\ top \in Frames
      /\ OnPath(ttree, H, b, frames)
  BY <1>1, RecursiveParts
<1> DEFINE f == [top EXCEPT !.offset = @ + 1]
<1>3. f \in Frames /\ f.firstAt = top.firstAt /\ f.offset \in -1..BLOCK_SIZE
  <2>1. top.offset \in Nat
    BY <1>1, <1>2, FindTypes
  <2>2. top.offset + 1 \in Nat \cup {-1} /\ top.offset + 1 \in -1..BLOCK_SIZE
    BY <1>1, <2>1, BlockSize
  <2> QED  BY <1>2, <2>2 DEF Frames
<1>4. frames' = [frames EXCEPT ![level] = f]
  BY <1>2 DEF FindSkips
<1> HIDE DEF f
<1>5. /\ Len(frames') = Len(frames)
      /\ \A j \in 1..Len(frames) : frames'[j] = IF j = level THEN f ELSE frames[j]
  BY <1>2, <1>3, <1>4, ReplaceFrame
<1>6. Outer(frames, level, frames') /\ frames'[Len(frames')] = f
  BY <1>2, <1>3, <1>5 DEF Outer
<1>7. OnPath(ttree, H, b, frames')
  BY <1>2, <1>6, PathStays
<1>8. /\ matrixSize' = LongPow[H] /\ Levels(ttree', Len(ltree'), H, b, H)
      /\ OnPath(ttree', H, b, frames') /\ pc' = "find"
      /\ pc' \in {"remove", "deleteRow", "deleteColumn", "find"}
  BY <1>1, <1>2, <1>7 DEF matrix
<1> QED
  BY <1>3, <1>6, <1>8, RecursiveStructured

\* An activation of findAllEdges returns to its caller, which goes to its next offset.
LEMMA FindReturnsStructured ==
  ASSUME Typed, NEW H, NEW b, Structured(H, b), pc = "find", NEW found, FindReturns(found)
  PROVE  Structured(H, b)'
<1>1. UNCHANGED matrix
  BY DEF FindReturns
<1>2. CASE level = 1
  <2>1. pc' = "idle" /\ pc \notin {"extend", "prune"}
    BY <1>2 DEF FindReturns, Finish
  <2> QED  BY <1>1, <2>1, FinishStructured
<1>3. CASE level # 1
  <2>1. /\ matrixSize = LongPow[H] /\ Levels(ttree, Len(ltree), H, b, H)
        /\ ttree \in Seq(BOOLEAN) /\ frames \in Seq(Frames) /\ frames # <<>>
        /\ level = Len(frames) /\ level \in 1..Len(frames) /\ level \in Nat
        /\ OnPath(ttree, H, b, frames)
    BY RecursiveParts
  <2>2. /\ Popped \in Seq(Frames) /\ Len(Popped) = level - 1
        /\ \A i \in 1..Len(Popped) : Popped[i] = frames[i] /\ Popped[i].offset \in Nat
    BY <2>1, PoppedOffsets
  <2>3. level - 1 \in 1..Len(Popped) /\ level - 1 \in 1..Len(frames) /\ level - 1 \in 1..(Len(frames) - 1)
    BY <1>3, <2>1, <2>2
  <2> DEFINE f == [Popped[level - 1] EXCEPT !.offset = @ + 1]
  <2>4. f \in Frames /\ f.firstAt = frames[level - 1].firstAt /\ f.offset \in -1..BLOCK_SIZE
    <3>1. /\ Popped[level - 1] \in Frames /\ Popped[level - 1] = frames[level - 1]
          /\ frames[level - 1].offset \in 0..(BLOCK_SIZE - 1)
      BY <2>1, <2>2, <2>3 DEF OnPath
    <3>2. /\ frames[level - 1].offset + 1 \in Nat \cup {-1}
          /\ frames[level - 1].offset + 1 \in -1..BLOCK_SIZE
      BY <3>1, BlockSize
    <3> QED  BY <3>1, <3>2 DEF Frames
  <2>5. frames' = [Popped EXCEPT ![level - 1] = f] /\ UNCHANGED pc
    BY <1>3 DEF FindReturns
  <2> HIDE DEF f
  <2>6. /\ Len(frames') = level - 1
        /\ \A j \in 1..(level - 1) : frames'[j] = IF j = level - 1 THEN f ELSE frames[j]
    BY <2>2, <2>3, <2>4, <2>5, ReplaceFrame
  <2>7. Outer(frames, level - 1, frames') /\ frames'[Len(frames')] = f
    <3>1. level - 1 \in 1..(level - 1)
      BY <2>1, <2>3
    <3>2. frames'[level - 1] = f
      BY <2>6, <3>1
    <3>3. ASSUME NEW j \in 1..(level - 1) PROVE frames'[j].firstAt = frames[j].firstAt
      <4>1. CASE j = level - 1
        BY <2>4, <3>2, <4>1
      <4>2. CASE j # level - 1
        BY <2>6, <4>2
      <4> QED  BY <4>1, <4>2
    <3>4. ASSUME NEW j \in 1..((level - 1) - 1) PROVE frames'[j].offset = frames[j].offset
      <4>1. j \in 1..(level - 1) /\ j # level - 1
        BY <2>1
      <4> QED  BY <2>6, <4>1
    <3> QED  BY <2>6, <3>2, <3>3, <3>4 DEF Outer
  <2>8. OnPath(ttree, H, b, frames')
    BY <2>1, <2>3, <2>7, PathStays
  <2>9. /\ matrixSize' = LongPow[H] /\ Levels(ttree', Len(ltree'), H, b, H)
        /\ OnPath(ttree', H, b, frames') /\ pc' = "find"
        /\ pc' \in {"remove", "deleteRow", "deleteColumn", "find"}
    BY <1>1, <2>1, <2>5, <2>8 DEF matrix
  <2> QED  BY <2>4, <2>7, <2>9, RecursiveStructured
<1> QED
  BY <1>2, <1>3

\* There is room below n for what follows an element of an ascending vector.
LEMMA RoomAbove ==
  ASSUME NEW v \in Seq(Nat), NEW n \in Nat, Ascending(v), Below(v, n), NEW i \in 1..Len(v)
  PROVE  v[i] + (Len(v) - i) < n
<1>1. Len(v) \in Nat /\ \A j \in 1..Len(v) : v[j] \in Nat /\ v[j] < n
  BY DEF Below
<1> DEFINE S == {k \in 0..(Len(v) - 1) : ~(v[Len(v) - k] + k < n)}
<1>2. S = {}
  <2> SUFFICES ASSUME S # {} PROVE FALSE
    OBVIOUS
  <2>1. S \in SUBSET Nat
    BY <1>1
  <2>2. PICK k \in S : \A m \in S : k <= m
    <3> HIDE DEF S
    <3> QED  BY <2>1, LeastNatural
  <2>3. k \in 0..(Len(v) - 1) /\ ~(v[Len(v) - k] + k < n)
    BY <2>2
  <2>4. k # 0
    <3> SUFFICES ASSUME k = 0 PROVE FALSE
      OBVIOUS
    <3>1. Len(v) - k = Len(v) /\ Len(v) \in 1..Len(v)
      BY <1>1, <2>3
    <3>2. v[Len(v)] \in Nat /\ v[Len(v)] < n
      BY <1>1, <3>1
    <3> QED  BY <2>3, <3>1, <3>2
  <2> DEFINE x == Len(v) - k
             y == Len(v) - (k - 1)
  <2>5. /\ k - 1 \in 0..(Len(v) - 1) /\ x \in 1..Len(v) /\ y \in 1..Len(v) /\ x < y
    BY <1>1, <2>3, <2>4, SMTT(30)
  <2>6. v[y] + (k - 1) < n
    <3>1. ~(k <= k - 1)
      BY <2>3
    <3>2. k - 1 \notin S
      BY <2>2, <3>1
    <3> QED  BY <2>5, <3>2
  <2>7. v[x] < v[y] /\ v[x] \in Nat /\ v[y] \in Nat
    BY <1>1, <2>5 DEF Ascending
  <2>8. ~(v[x] + k < n)
    BY <2>3
  <2> HIDE DEF x, y
  <2>9. k \in Nat
    BY <2>3
  <2>10. \A p, q, j, m \in Nat : p < q /\ q + (j - 1) < m => p + j < m
    OBVIOUS
  <2> HIDE DEF S
  <2> QED  BY <2>6, <2>7, <2>8, <2>9, <2>10
<1>3. Len(v) - i \in 0..(Len(v) - 1) /\ Len(v) - (Len(v) - i) = i
  BY <1>1
<1>4. Len(v) - i \notin S
  BY <1>2
<1> QED
  BY <1>3, <1>4

\* The next index to erase is one of the vector.
LEMMA CollectInRange ==
  ASSUME Typed, ColumnsInOrder, NEW H, NEW b, Structured(H, b), pc = "collect"
  PROVE  /\ frames \in Seq(Frames) /\ frames # <<>> /\ level = 1 /\ Len(frames) = 1
         /\ top = frames[1] /\ frames[1] \in Frames
         /\ iteration \in 1..Len(freeColumns) /\ firstFreeColumn \in Nat
         /\ freeColumns[iteration] \in Nat
         /\ Len(frames[1].columns) = firstFreeColumn - (Len(freeColumns) - iteration)
         /\ freeColumns[iteration] < Len(frames[1].columns)
<1>1. /\ frames \in Seq(Frames) /\ frames # <<>> /\ freeColumns \in Seq(Nat)
      /\ firstFreeColumn \in Nat /\ iteration \in 1..Len(freeColumns)
  BY DEF Typed, TypeOK
<1>2. /\ level = 1 /\ Len(top.columns) = firstFreeColumn - (Len(freeColumns) - iteration)
  BY DEF Structured
<1>3. Len(frames) = 1 /\ top = frames[1] /\ frames[1] \in Frames
  BY <1>1, <1>2, TopType DEF top
<1>4. Ascending(freeColumns) /\ Below(freeColumns, firstFreeColumn)
  BY ColumnsInOrderParts
<1>5. freeColumns[iteration] + (Len(freeColumns) - iteration) < firstFreeColumn
  BY <1>1, <1>4, RoomAbove
<1>6. freeColumns[iteration] \in Nat /\ Len(freeColumns) \in Nat
  BY <1>1
<1> QED
  BY <1>1, <1>2, <1>3, <1>5, <1>6

\* One of the others is erased.
LEMMA CollectOthersStructured ==
  ASSUME Typed, ColumnsInOrder, NEW H, NEW b, Structured(H, b), CollectOthers
  PROVE  Structured(H, b)'
<1> DEFINE v == Erase(frames[1].columns, freeColumns[iteration], 1)
           f == [frames[1] EXCEPT !.columns = v]
<1>1. /\ pc = "collect" /\ UNCHANGED <<matrix, bookkeeping>>
      /\ frames' = [frames EXCEPT ![1] = f]
      /\ iteration' = iteration - 1
      /\ pc' = IF iteration = 1 THEN "deleteRow" ELSE "collect"
  BY DEF CollectOthers
<1>2. /\ frames \in Seq(Frames) /\ frames # <<>> /\ level = 1 /\ Len(frames) = 1
      /\ top = frames[1] /\ frames[1] \in Frames
      /\ iteration \in 1..Len(freeColumns) /\ firstFreeColumn \in Nat
      /\ freeColumns[iteration] \in Nat
      /\ Len(frames[1].columns) = firstFreeColumn - (Len(freeColumns) - iteration)
      /\ freeColumns[iteration] < Len(frames[1].columns)
  BY <1>1, CollectInRange
<1>3. frames[1].columns \in Seq(Nat) /\ Len(frames[1].columns) \in Nat \ {0}
  <2>1. frames[1].columns \in Seq(Nat)
    BY <1>2 DEF Frames
  <2>2. Len(frames[1].columns) \in Nat
    BY <2>1
  <2> QED  BY <1>2, <2>1, <2>2
<1>4. v \in Seq(Nat) /\ Len(v) = Len(frames[1].columns) - 1
  <2> DEFINE u == frames[1].columns
             q == freeColumns[iteration]
  <2>1. v = [i \in 1..(Len(u) - 1) |-> IF i <= q THEN u[i] ELSE u[i + 1]]
    BY DEF Erase
  <2>2. u \in Seq(Nat) /\ Len(u) - 1 \in Nat /\ q \in Nat
    BY <1>2, <1>3
  <2> HIDE DEF u, q, v
  <2>3. \A i \in 1..(Len(u) - 1) : (IF i <= q THEN u[i] ELSE u[i + 1]) \in Nat
    BY <2>2
  <2>4. v \in [1..(Len(u) - 1) -> Nat]
    BY <2>1, <2>3
  <2>5. v \in Seq(Nat) /\ Len(v) = Len(u) - 1
    BY <2>2, <2>4, FunctionIsSeq
  <2> QED  BY <2>5 DEF u
<1> HIDE DEF v
<1>5. /\ f \in Frames /\ f.firstAt = frames[1].firstAt /\ f.offset = frames[1].offset
      /\ f.only0s = frames[1].only0s /\ f.columns = v
  BY <1>2, <1>4 DEF Frames
<1> HIDE DEF f
<1>6. Len(frames') = 1 /\ frames'[1] = f
  <2>1. 1 \in 1..Len(frames)
    BY <1>2
  <2> QED  BY <1>1, <1>2, <1>5, <2>1, ReplaceFrame
<1>7. /\ matrixSize = LongPow[H] /\ Levels(ttree, Len(ltree), H, b, H)
  BY <1>1, NothingOwed
<1>8. /\ OnPath(ttree, H, b, frames) /\ top.offset \in -1..BLOCK_SIZE
      /\ top.offset < BLOCK_SIZE /\ ZerosAbove(ttree, H, frames)
  BY <1>1 DEF Structured, Recursive
<1>9. OnPath(ttree, H, b, frames')
  <2>1. Outer(frames, 1, frames') /\ 1 \in 1..Len(frames)
    BY <1>2, <1>5, <1>6 DEF Outer
  <2>2. ttree \in Seq(BOOLEAN)
    BY DEF Typed, TypeOK
  <2> QED  BY <1>7, <1>8, <2>1, <2>2, PathStays
<1>10. ZerosAbove(ttree, H, frames')
  <2>1. \A i \in 1..Len(frames') : i = 1 /\ i \in 1..Len(frames)
    BY <1>2, <1>6
  <2> QED  BY <1>5, <1>6, <1>8, <2>1 DEF ZerosAbove
<1>11. level' = 1 /\ top' = f
  BY <1>6 DEF level, top
<1>12. Len(f.columns) = firstFreeColumn' - (Len(freeColumns') - iteration')
  <2>1. Len(freeColumns) \in Nat /\ iteration \in Int
    BY <1>2 DEF Typed, TypeOK
  <2>2. firstFreeColumn' = firstFreeColumn /\ freeColumns' = freeColumns
    BY <1>1 DEF bookkeeping
  <2> QED  BY <1>1, <1>2, <1>4, <1>5, <2>1, <2>2
<1>13. /\ matrixSize' = LongPow[H] /\ Levels(ttree', Len(ltree'), H, b, H)
       /\ OnPath(ttree', H, b, frames') /\ ZerosAbove(ttree', H, frames')
       /\ f.offset \in -1..BLOCK_SIZE /\ f.offset < BLOCK_SIZE
  BY <1>1, <1>2, <1>5, <1>7, <1>8, <1>9, <1>10 DEF matrix
<1>14. pc' \in {"collect", "deleteRow"}
  BY <1>1
<1>15. Owed(H)' = H
  BY <1>14 DEF Owed
<1>16. pc' \notin {"traverse", "extend", "remove", "prune"}
  BY <1>14
<1> QED
  BY <1>11, <1>12, <1>13, <1>14, <1>15, <1>16 DEF Structured, Recursive

\* Blocks that come and go on a level do not number the levels above it anew.
LEMMA ShiftedAbove ==
  ASSUME NEW H \in Nat, NEW b, NEW e \in 1..H, NEW n, NEW m \in 0..(e - 1)
  PROVE  SameNumbers(b, Shifted(b, H, e, n), m)
<1>1. \A d \in 0..m : d \in 0..H /\ ~(d >= e)
  OBVIOUS
<1> QED
  BY <1>1 DEF SameNumbers, Shifted

\* A shorter prefix is the same too.
LEMMA SameBelow ==
  ASSUME NEW u, NEW w, NEW m \in Nat, NEW n \in Nat, m <= n, SameBits(u, 0, n, w, 0)
  PROVE  SameBits(u, 0, m, w, 0)
<1>1. \A i \in 0..(m - 1) : i \in 0..(n - 1)
  OBVIOUS
<1> QED
  BY <1>1 DEF SameBits

\* removeEdge returns to a caller whose child block is gone.
LEMMA CallerPrunes ==
  ASSUME ttree \in Seq(BOOLEAN), ttree' \in Seq(BOOLEAN),
         frames \in Seq(Frames), frames # <<>>,
         NEW rest, NEW H, NEW b, NEW owed, Levels(ttree, rest, H, b, owed),
         OnPath(ttree, H, b, frames), level # 1,
         SameBits(ttree, 0, At(b[level - 1]), ttree', 0),
         NEW c, SameNumbers(b, c, level - 1), matrixSize' = LongPow[H],
         Levels(ttree', Len(ltree'), H, c, level - 1),
         pc' = "prune", frames' = Popped
  PROVE  Structured(H, c)'
<1>1. /\ H \in Nat /\ b \in [0..H -> Nat]
      /\ \A i, j \in 0..H : i <= j => b[i] <= b[j]
  BY DEF Levels
<1>2. level = Len(frames) /\ level \in Nat \ {0}
  BY TopType
<1>3. /\ level \in 2..H /\ level - 1 \in 1..Len(frames) /\ level - 1 \in 1..(Len(frames) - 1)
      /\ level - 1 \in 0..H /\ (level - 1) - 1 \in 0..H /\ level - 1 \in 1..H
  BY <1>1, <1>2 DEF OnPath
<1>4. /\ Len(frames') = level - 1
      /\ \A i \in 1..(level - 1) : frames'[i] = frames[i]
  BY PopType
<1>5. level' = level - 1 /\ top' = frames[level - 1]
  <2>1. level' = Len(frames')
    BY DEF level
  <2>2. top' = frames'[level']
    BY DEF top
  <2> QED  BY <1>3, <1>4, <2>1, <2>2
<1>6. node' = frames[level - 1].firstAt + frames[level - 1].offset
  BY <1>5 DEF node
<1>7. /\ frames[level - 1].offset \in 0..(BLOCK_SIZE - 1)
      /\ Access(ttree, frames[level - 1].firstAt + frames[level - 1].offset)
  BY <1>3 DEF OnPath
<1> DEFINE p == frames[level - 1].firstAt + frames[level - 1].offset
<1>8. p \in Nat /\ OnLevel(b, level - 1, p)
  BY <1>3, <1>7, PositionOnPath
<1> HIDE DEF p
<1>9. /\ b[level - 1] \in Nat /\ b[(level - 1) - 1] \in Nat /\ b[(level - 1) - 1] <= b[level - 1]
  BY <1>1, <1>3
<1>10. /\ At(b[level - 1]) \in Nat /\ At(b[(level - 1) - 1]) \in Nat
       /\ At(b[(level - 1) - 1]) <= At(b[level - 1])
  BY <1>9, AtOrder
<1>11. Access(ttree', p)
  <2>1. p \in 0..(At(b[level - 1]) - 1) /\ p + 0 = p
    BY <1>8, <1>10 DEF OnLevel
  <2>2. Access(ttree, p) <=> Access(ttree', p + 0)
    BY <2>1 DEF SameBits
  <2> QED  BY <1>7, <2>1, <2>2 DEF p
<1>12. OnPath(ttree', H, c, frames')
  <2>1. Outer(frames, level - 1, frames')
    BY <1>4 DEF Outer
  <2>2. SameBits(ttree, 0, At(b[(level - 1) - 1]), ttree', 0)
    BY <1>10, SameBelow
  <2> QED  BY <1>3, <2>1, <2>2, OuterOnPath
<1>13. Owed(H)' = level - 1
  BY <1>5 DEF Owed
<1>14. top'.offset \in 0..(BLOCK_SIZE - 1) /\ top'.offset \in -1..BLOCK_SIZE
  BY <1>5, <1>7, BlockSize
<1>15. level' < H /\ Access(ttree', node')
  BY <1>1, <1>3, <1>5, <1>6, <1>11 DEF p
<1>16. pc' \notin {"traverse", "extend", "collect", "deleteRow", "deleteColumn"}
  OBVIOUS
<1>17. matrixSize' = LongPow[H] /\ Levels(ttree', Len(ltree'), H, c, Owed(H)')
  BY <1>13
<1> QED
  BY <1>12, <1>14, <1>15, <1>16, <1>17 DEF Structured, Recursive

\* The block of an activation, by its number.
LEMMA TopBlock ==
  ASSUME NEW bits \in Seq(BOOLEAN), NEW rest \in Nat, NEW H, NEW b, NEW owed,
         Levels(bits, rest, H, b, owed), frames \in Seq(Frames), frames # <<>>,
         NEW tt, OnPath(tt, H, b, frames)
  PROVE  /\ level \in 1..H /\ top.firstAt \in Nat /\ Len(bits) \in Nat
         /\ \E n \in b[level - 1]..(b[level] - 1) : top.firstAt = At(n)
         /\ level < H => top.firstAt + BLOCK_SIZE <= Len(bits)
         /\ level = H => /\ top.firstAt >= Len(bits)
                         /\ top.firstAt + BLOCK_SIZE <= Len(bits) + rest
<1>1. level = Len(frames) /\ level \in Nat \ {0} /\ top = frames[level]
  BY TopType DEF top
<1>2. level \in 1..H /\ BlockOn(b, level, top.firstAt)
  <2>1. level \in 1..Len(frames)
    BY <1>1
  <2> QED  BY <1>1, <2>1 DEF OnPath
<1>3. /\ top.firstAt \in Nat /\ Len(bits) \in Nat
      /\ level < H => top.firstAt + BLOCK_SIZE <= Len(bits)
      /\ level = H => /\ top.firstAt >= Len(bits)
                      /\ top.firstAt + BLOCK_SIZE <= Len(bits) + rest
  BY <1>2, BlocksInVectors
<1> QED
  BY <1>2, <1>3 DEF BlockOn

\* The ltree block of an activation on the last level, and the levels without it.
LEMMA LeafLevel ==
  ASSUME Typed, NEW H, NEW b, Structured(H, b),
         pc \in {"remove", "deleteRow", "deleteColumn", "find"}, level = H
  PROVE  /\ LeafBlock \in Nat /\ LeafBlock + BLOCK_SIZE <= Len(ltree) /\ level # 1
         /\ Levels(ttree, Len(ltree) - BLOCK_SIZE, H, Shifted(b, H, H, -1), H - 1)
<1>1. /\ H \in Nat /\ H >= 2 /\ Levels(ttree, Len(ltree), H, b, H)
      /\ ttree \in Seq(BOOLEAN) /\ Len(ltree) \in Nat /\ Len(ttree) \in Nat
      /\ frames \in Seq(Frames) /\ frames # <<>> /\ OnPath(ttree, H, b, frames)
  BY RecursiveParts
<1>2. /\ top.firstAt \in Nat /\ top.firstAt >= Len(ttree)
      /\ top.firstAt + BLOCK_SIZE <= Len(ttree) + Len(ltree)
      /\ \E n \in b[level - 1]..(b[level] - 1) : top.firstAt = At(n)
  BY <1>1, TopBlock
<1>3. LeafBlock \in Nat /\ LeafBlock + BLOCK_SIZE <= Len(ltree)
  BY <1>1, <1>2, BlockSize DEF LeafBlock
<1>4. PICK n \in b[H - 1]..(b[H] - 1) : top.firstAt = At(n)
  BY <1>2
<1>5. H \in 2..H
  BY <1>1
<1>6. Levels(ttree, Len(ltree) - BLOCK_SIZE, H, Shifted(b, H, H, -1), H - 1)
  BY <1>1, <1>4, <1>5, EmptyLevels
<1> QED
  BY <1>1, <1>3, <1>6

\* removeEdge clears a bit of ltree, and deletes its block if it was the last 1 there.
LEMMA RemoveInLTreeStructured ==
  ASSUME Typed, NEW H, NEW b, Structured(H, b), RemoveInLTree
  PROVE  \E c : Structured(H, c)'
<1> DEFINE cleared == SetBit(ltree, LeafBlock + top.offset, FALSE)
<1>1. pc = "remove" /\ top.firstAt >= Len(ttree) /\ UNCHANGED <<ttree, matrixSize>>
  BY DEF RemoveInLTree
<1>2. /\ matrixSize = LongPow[H] /\ H \in Nat /\ H >= 2
      /\ Levels(ttree, Len(ltree), H, b, H)
      /\ ttree \in Seq(BOOLEAN) /\ ltree \in Seq(BOOLEAN)
      /\ Len(ltree) \in Nat /\ Len(ttree) \in Nat
      /\ frames \in Seq(Frames) /\ frames # <<>> /\ OnPath(ttree, H, b, frames)
  BY <1>1, RecursiveParts
<1>3. level = H /\ level \in 1..H
  <2>1. /\ level \in 1..H /\ top.firstAt \in Nat
        /\ level < H => top.firstAt + BLOCK_SIZE <= Len(ttree)
    BY <1>2, TopBlock
  <2> QED  BY <1>1, <1>2, <2>1, BlockSize
<1>4. /\ LeafBlock \in Nat /\ LeafBlock + BLOCK_SIZE <= Len(ltree) /\ level # 1
      /\ Levels(ttree, Len(ltree) - BLOCK_SIZE, H, Shifted(b, H, H, -1), H - 1)
  BY <1>1, <1>3, LeafLevel
<1>5. cleared \in Seq(BOOLEAN) /\ Len(cleared) = Len(ltree)
  BY <1>2, SetBitType
<1>6. CASE OnlyZeros(cleared, LeafBlock)
  <2>1. ltree' = DeleteBlock(cleared, LeafBlock) /\ pc' = "prune" /\ frames' = Popped
    BY <1>6 DEF RemoveInLTree
  <2> HIDE DEF cleared
  <2>2. Len(ltree') = Len(ltree) - BLOCK_SIZE
    BY <1>4, <1>5, <2>1, DeleteBlockAccess
  <2>3. PICK c : c = Shifted(b, H, H, -1)
    OBVIOUS
  <2>4. SameNumbers(b, c, level - 1)
    <3>1. H \in 1..H /\ level - 1 \in 0..(H - 1)
      BY <1>2, <1>3
    <3> QED  BY <1>2, <2>3, <3>1, ShiftedAbove
  <2>5. SameBits(ttree, 0, At(b[level - 1]), ttree', 0)
    <3>1. \A i \in 0..(At(b[level - 1]) - 1) : i + 0 = i
      OBVIOUS
    <3> QED  BY <1>1, <3>1 DEF SameBits
  <2>6. /\ ttree' \in Seq(BOOLEAN) /\ matrixSize' = LongPow[H]
        /\ Levels(ttree', Len(ltree'), H, c, level - 1)
    BY <1>1, <1>2, <1>3, <1>4, <2>2, <2>3
  <2>7. Structured(H, c)'
    BY <1>2, <1>4, <2>1, <2>4, <2>5, <2>6, CallerPrunes
  <2> QED  BY <2>7
<1>7. CASE ~OnlyZeros(cleared, LeafBlock)
  <2>1. ltree' = cleared /\ pc' = "idle"
    BY <1>7 DEF RemoveInLTree, Finish
  <2>2. matrixSize' = LongPow[H] /\ Levels(ttree', Len(ltree'), H, b, H)
    BY <1>1, <1>2, <1>5, <2>1
  <2>3. Structured(H, b)'
    BY <2>1, <2>2, IdleStructured
  <2> QED  BY <2>3
<1> QED
  BY <1>6, <1>7

\* removeEdge clears the bit of a block it has deleted, and deletes a block that is empty now.
LEMMA PruneStructured ==
  ASSUME Typed, NEW H, NEW b, Structured(H, b), Prune
  PROVE  \E c : Structured(H, c)'
<1> DEFINE cleared == SetBit(ttree, node, FALSE)
<1>1. pc = "prune" /\ UNCHANGED <<ltree, matrixSize>>
  BY DEF Prune
<1>2. /\ matrixSize = LongPow[H] /\ Levels(ttree, Len(ltree), H, b, level)
      /\ OnPath(ttree, H, b, frames) /\ top.offset \in 0..(BLOCK_SIZE - 1)
      /\ level < H /\ Access(ttree, node)
  BY <1>1 DEF Structured, Owed, Recursive
<1>3. /\ ttree \in Seq(BOOLEAN) /\ ltree \in Seq(BOOLEAN) /\ frames \in Seq(Frames)
      /\ Len(ltree) \in Nat
  BY DEF Typed, TypeOK
<1>4. /\ H \in Nat /\ H >= 2 /\ b \in [0..H -> Nat]
      /\ \A i, j \in 0..H : i <= j => b[i] <= b[j]
  BY <1>2 DEF Levels
<1>5. frames # <<>> /\ level = Len(frames) /\ level \in 1..(H - 1) /\ top = frames[level]
      /\ level \in 1..Len(frames)
  <2>1. Len(frames) \in 1..H
    BY <1>2 DEF OnPath
  <2>2. frames # <<>>
    BY <1>4, <2>1
  <2> QED  BY <1>2, <1>3, <1>4, <2>1, <2>2, TopType DEF top
<1>6. node \in Nat /\ OnLevel(b, level, node) /\ node >= top.firstAt /\ top.firstAt \in Nat
  <2>1. node = frames[level].firstAt + top.offset
    BY <1>5 DEF node
  <2>2. /\ frames[level].firstAt \in Nat /\ frames[level].firstAt + top.offset \in Nat
        /\ OnLevel(b, level, frames[level].firstAt + top.offset)
    BY <1>2, <1>5, PositionOnPath
  <2> QED  BY <1>2, <1>5, <2>1, <2>2
<1>7. node \in 0..(Len(ttree) - 1)
  BY <1>2 DEF Access
<1>8. Levels(cleared, Len(ltree), H, b, H)
  BY <1>2, <1>3, <1>5, <1>6, <1>7, ClearOnLevel
<1>9. cleared \in Seq(BOOLEAN)
  BY <1>3, SetBitType
<1>10. CASE level > 1 /\ OnlyZeros(cleared, top.firstAt)
  <2>1. /\ ttree' = DeleteBlock(cleared, top.firstAt) /\ frames' = Popped /\ pc' = "prune"
    BY <1>1, <1>10 DEF Prune
  <2>2. PICK n \in b[level - 1]..(b[level] - 1) : top.firstAt = At(n)
    BY <1>2, <1>3, <1>5, TopBlock
  <2>3. PICK c : c = Shifted(b, H, level, -1)
    OBVIOUS
  <2>4. Levels(ttree', Len(ltree'), H, c, level - 1)
    <3>1. level \in 2..H /\ level < H
      BY <1>4, <1>5, <1>10
    <3>2. OnlyZeros(cleared, At(n))
      BY <1>10, <2>2
    <3>3. Levels(DeleteBlock(cleared, At(n)), Len(ltree), H, Shifted(b, H, level, -1), level - 1)
      <4> HIDE DEF cleared
      <4> QED  BY <1>3, <1>8, <1>9, <3>1, <3>2, EmptyLevels
    <3> QED  BY <1>1, <2>1, <2>2, <2>3, <3>3
  <2>5. SameNumbers(b, c, level - 1)
    <3>1. level \in 1..H /\ level - 1 \in 0..(level - 1)
      BY <1>4, <1>5
    <3> QED  BY <1>4, <2>3, <3>1, ShiftedAbove
  <2>6. /\ top.firstAt + BLOCK_SIZE <= Len(cleared)
    <3> HIDE DEF cleared
    <3> QED  BY <1>2, <1>3, <1>5, <1>8, <1>9, TopBlock
  <2>7. SameBits(ttree, 0, At(b[level - 1]), ttree', 0)
    <3>1. b[level - 1] \in Nat /\ n \in Nat /\ b[level - 1] <= n
      <4>1. level - 1 \in 0..H /\ level \in 0..H
        BY <1>4, <1>5
      <4>2. b[level - 1] \in Nat /\ b[level] \in Nat
        BY <1>4, <4>1
      <4> QED  BY <2>2, <4>2
    <3>2. At(b[level - 1]) <= top.firstAt /\ At(b[level - 1]) \in Nat
      BY <2>2, <3>1, AtOrder
    <3> SUFFICES ASSUME NEW i \in 0..(At(b[level - 1]) - 1)
                 PROVE  Access(ttree, i) <=> Access(ttree', i + 0)
      BY DEF SameBits
    <3>3. i \in Nat /\ i < top.firstAt /\ i # node /\ i + 0 = i
      BY <1>6, <3>2
    <3>4. Access(cleared, i) <=> IF i = node THEN FALSE ELSE Access(ttree, i)
      BY <1>3, <1>7, <3>3, SetBitAccess
    <3>5. Access(DeleteBlock(cleared, top.firstAt), i) <=>
            IF i < top.firstAt THEN Access(cleared, i) ELSE Access(cleared, i + BLOCK_SIZE)
      <4> HIDE DEF cleared
      <4> QED  BY <1>6, <1>9, <2>6, <3>3, DeleteBlockAccess
    <3> HIDE DEF cleared
    <3> QED  BY <2>1, <3>3, <3>4, <3>5
  <2>8. ttree' \in Seq(BOOLEAN)
    <3> HIDE DEF cleared
    <3>1. top.firstAt \in Int
      BY <1>6
    <3>2. DeleteBlock(cleared, top.firstAt) \in Seq(BOOLEAN)
      BY <1>9, <3>1, DeleteBlockType
    <3> QED  BY <2>1, <3>2
  <2>9. level # 1 /\ matrixSize' = LongPow[H]
    BY <1>1, <1>2, <1>10
  <2>10. Structured(H, c)'
    <3> HIDE DEF cleared
    <3> QED  BY <1>2, <1>3, <1>5, <2>1, <2>4, <2>5, <2>7, <2>8, <2>9, CallerPrunes
  <2> QED  BY <2>10
<1>11. CASE ~(level > 1 /\ OnlyZeros(cleared, top.firstAt))
  <2>1. ttree' = cleared /\ pc' = "idle"
    BY <1>11 DEF Prune, Finish
  <2>2. matrixSize' = LongPow[H] /\ Levels(ttree', Len(ltree'), H, b, H)
    BY <1>1, <1>2, <1>8, <2>1
  <2>3. Structured(H, b)'
    BY <2>1, <2>2, IdleStructured
  <2> QED  BY <2>3
<1> QED
  BY <1>10, <1>11

\* The first activation of deleteEdges returns: the column follows the row.
LEMMA PassReturnsStructured ==
  ASSUME Typed, NEW H, NEW b, Structured(H, b), Deleting, PassReturns, UNCHANGED matrix
  PROVE  Structured(H, b)'
<1>1. pc \in {"deleteRow", "deleteColumn"}
  BY DEF Deleting
<1>2. CASE pc = "deleteRow"
  <2> DEFINE f == Frame(top.columns, top.rows, 0, BLOCK_SIZE - 1)
  <2>1. pc' = "deleteColumn" /\ frames' = <<f>>
    BY <1>2 DEF PassReturns
  <2>2. /\ matrixSize = LongPow[H] /\ Levels(ttree, Len(ltree), H, b, H)
        /\ ttree \in Seq(BOOLEAN) /\ top \in Frames
    BY <1>1, RecursiveParts
  <2>3. f \in Frames /\ f.firstAt = 0 /\ f.offset = BLOCK_SIZE - 1
    <3>1. top.rows \in Seq(Nat) /\ top.columns \in Seq(Nat)
      BY <2>2 DEF Frames
    <3>2. 0 \in Nat /\ BLOCK_SIZE - 1 \in Nat
      BY BlockSize
    <3>3. f \in Frames
      BY <3>1, <3>2, FrameType
    <3> QED  BY <3>3 DEF Frame
  <2> HIDE DEF f
  <2>4. Len(frames') = 1 /\ frames'[1] = f
    BY <2>1
  <2>5. ttree' = ttree /\ OnPath(ttree', H, b, frames')
    BY <2>1, <2>2, <2>3, RootOnPath DEF matrix
  <2>6. ZerosAbove(ttree', H, frames')
    <3>1. \A o \in (f.offset + 1)..(BLOCK_SIZE - 1) : FALSE
      BY <2>3, BlockSize
    <3> QED  BY <2>4, <3>1 DEF ZerosAbove
  <2>7. f.offset \in -1..BLOCK_SIZE /\ f.offset < BLOCK_SIZE
    BY <2>3, BlockSize
  <2>8. /\ matrixSize' = LongPow[H] /\ Levels(ttree', Len(ltree'), H, b, H)
        /\ frames'[Len(frames')] = f /\ pc' # "remove"
        /\ pc' \in {"remove", "deleteRow", "deleteColumn", "find"}
    BY <2>1, <2>2, <2>4 DEF matrix
  <2> QED  BY <2>5, <2>6, <2>7, <2>8, RecursiveStructured
<1>3. CASE pc = "deleteColumn"
  <2>1. pc' = "idle" /\ pc \notin {"extend", "prune"}
    BY <1>3 DEF PassReturns, Finish
  <2> QED  BY <2>1, FinishStructured
<1> QED
  BY <1>1, <1>2, <1>3

\* The bit that the calling activation of deleteEdges is at.
LEMMA CallerBit ==
  ASSUME Typed, NEW H, NEW b, Structured(H, b), Deleting, level # 1
  PROVE  /\ level \in 2..H /\ level - 1 \in 1..(H - 1)
         /\ CallerNode \in Nat /\ OnLevel(b, level - 1, CallerNode) /\ Access(ttree, CallerNode)
         /\ frames[level - 1].offset \in 0..(BLOCK_SIZE - 1)
         /\ At(b[level - 1]) \in Nat /\ At(b[(level - 1) - 1]) \in Nat
         /\ At(b[(level - 1) - 1]) <= CallerNode /\ CallerNode < At(b[level - 1])
         /\ At(b[level - 1]) <= top.firstAt
<1>1. pc \in {"deleteRow", "deleteColumn"}
  BY DEF Deleting
<1>2. /\ H \in Nat /\ Levels(ttree, Len(ltree), H, b, H) /\ ttree \in Seq(BOOLEAN)
      /\ Len(ltree) \in Nat /\ frames \in Seq(Frames) /\ frames # <<>>
      /\ level = Len(frames) /\ level \in 1..H /\ OnPath(ttree, H, b, frames)
  BY <1>1, RecursiveParts
<1>3. b \in [0..H -> Nat]
  BY <1>2 DEF Levels
<1>4. /\ level \in 2..H /\ level - 1 \in 1..(H - 1) /\ level - 1 \in 1..(Len(frames) - 1)
      /\ level - 1 \in 1..Len(frames) /\ level - 1 \in 0..H /\ (level - 1) - 1 \in 0..H
      /\ level \in 0..H
  BY <1>2
<1>5. /\ frames[level - 1].offset \in 0..(BLOCK_SIZE - 1)
      /\ Access(ttree, frames[level - 1].firstAt + frames[level - 1].offset)
  BY <1>2, <1>4 DEF OnPath
<1>6. CallerNode \in Nat /\ OnLevel(b, level - 1, CallerNode) /\ Access(ttree, CallerNode)
  BY <1>2, <1>4, <1>5, PositionOnPath DEF CallerNode
<1>7. b[level - 1] \in Nat /\ b[(level - 1) - 1] \in Nat /\ b[level] \in Nat
  BY <1>3, <1>4
<1>8. At(b[level - 1]) \in Nat /\ At(b[(level - 1) - 1]) \in Nat
  BY <1>7, AtOrder
<1>9. At(b[(level - 1) - 1]) <= CallerNode /\ CallerNode < At(b[level - 1])
  BY <1>6 DEF OnLevel
<1>10. At(b[level - 1]) <= top.firstAt
  <2>1. PICK n \in b[level - 1]..(b[level] - 1) : top.firstAt = At(n)
    BY <1>2, TopBlock
  <2>2. n \in Nat /\ b[level - 1] <= n
    BY <1>7
  <2> QED  BY <1>7, <2>1, <2>2, AtOrder
<1> QED
  BY <1>4, <1>5, <1>6, <1>8, <1>9, <1>10

\* A deeper activation of deleteEdges returns.  It has changed no bit of the levels
\* above its caller's, set none of its caller's, and cleared the caller's bit
\* if there are no edges left below it.
LEMMA CallerContinuesStructured ==
  ASSUME Typed, NEW H, NEW b, Structured(H, b), Deleting, level # 1,
         NEW still \in BOOLEAN, CallerContinues(still),
         ttree' \in Seq(BOOLEAN), matrixSize' = LongPow[H],
         NEW c, SameNumbers(b, c, level - 1), Levels(ttree', Len(ltree'), H, c, H),
         SameBits(ttree, 0, At(b[(level - 1) - 1]), ttree', 0),
         \A q \in 0..(At(b[level - 1]) - 1) : Access(ttree', q) => Access(ttree, q),
         ~still => ~Access(ttree', CallerNode)
  PROVE  Structured(H, c)'
<1>1. pc \in {"deleteRow", "deleteColumn"} /\ pc' = pc
  BY DEF Deleting, CallerContinues
<1>2. /\ H \in Nat /\ Levels(ttree, Len(ltree), H, b, H) /\ ttree \in Seq(BOOLEAN)
      /\ frames \in Seq(Frames) /\ frames # <<>>
      /\ level = Len(frames) /\ level \in 1..H /\ level \in Nat /\ OnPath(ttree, H, b, frames)
      /\ ZerosAbove(ttree, H, frames)
  BY <1>1, RecursiveParts
<1>3. /\ level \in 2..H /\ frames[level - 1].offset \in 0..(BLOCK_SIZE - 1)
      /\ At(b[level - 1]) \in Nat
  BY CallerBit
<1>4. b \in [0..H -> Nat] /\ \A i, j \in 0..H : i <= j => b[i] <= b[j]
  BY <1>2 DEF Levels
<1>5. /\ Popped \in Seq(Frames) /\ Len(Popped) = level - 1
      /\ \A i \in 1..Len(Popped) : Popped[i] = frames[i]
  BY <1>2, PoppedOffsets
<1>6. /\ level - 1 \in 1..Len(Popped) /\ level - 1 \in 1..Len(frames)
  BY <1>2, <1>3, <1>5
<1> DEFINE f == [Popped[level - 1] EXCEPT !.offset = @ - 1, !.only0s = @ /\ ~still]
           g == frames[level - 1]
<1>7. /\ f \in Frames /\ f.firstAt = g.firstAt /\ f.offset = g.offset - 1
      /\ f.only0s = (g.only0s /\ ~still)
      /\ f.offset \in -1..BLOCK_SIZE /\ f.offset < BLOCK_SIZE
  <2>1. Popped[level - 1] \in Frames /\ Popped[level - 1] = g
    BY <1>5, <1>6
  <2>2. g.offset - 1 \in Nat \cup {-1} /\ g.offset - 1 \in -1..BLOCK_SIZE /\ g.offset - 1 < BLOCK_SIZE
    BY <1>3, BlockSize
  <2>3. (g.only0s /\ ~still) \in BOOLEAN
    BY Zenon
  <2>4. f = [g EXCEPT !.offset = @ - 1, !.only0s = @ /\ ~still] /\ g \in Frames
    BY <2>1
  <2> HIDE DEF g, f
  <2> QED  BY <2>2, <2>3, <2>4 DEF Frames
<1>8. frames' = [Popped EXCEPT ![level - 1] = f]
  BY DEF CallerContinues
<1> HIDE DEF f
<1>9. /\ Len(frames') = level - 1
      /\ \A j \in 1..(level - 1) : frames'[j] = IF j = level - 1 THEN f ELSE frames[j]
  BY <1>5, <1>6, <1>7, <1>8, ReplaceFrame
<1>10. Outer(frames, level - 1, frames') /\ frames'[Len(frames')] = f
  <2>1. level - 1 \in 1..(level - 1)
    BY <1>2, <1>3
  <2>2. frames'[level - 1] = f
    BY <1>9, <2>1
  <2>3. ASSUME NEW j \in 1..(level - 1) PROVE frames'[j].firstAt = frames[j].firstAt
    <3>1. CASE j = level - 1
      BY <1>7, <2>2, <3>1
    <3>2. CASE j # level - 1
      BY <1>9, <3>2
    <3> QED  BY <3>1, <3>2
  <2>4. ASSUME NEW j \in 1..((level - 1) - 1) PROVE frames'[j].offset = frames[j].offset
    <3>1. j \in 1..(level - 1) /\ j # level - 1
      BY <1>2
    <3> QED  BY <1>9, <3>1
  <2> QED  BY <1>9, <2>2, <2>3, <2>4 DEF Outer
<1>11. OnPath(ttree', H, c, frames')
  BY <1>2, <1>6, <1>10, OuterOnPath
<1>12. ZerosAbove(ttree', H, frames')
  <2> SUFFICES ASSUME NEW i \in 1..Len(frames'), frames'[i].only0s, i < H,
                      NEW q \in (frames'[i].offset + 1)..(BLOCK_SIZE - 1)
               PROVE  ~Access(ttree', frames'[i].firstAt + q)
    BY DEF ZerosAbove
  <2>1. /\ i \in 1..(level - 1) /\ i \in 1..Len(frames) /\ i \in 1..(Len(frames) - 1)
        /\ i \in 0..H /\ level - 1 \in 0..H /\ i <= level - 1
    BY <1>2, <1>3, <1>9
  <2>2. frames[i].offset \in 0..(BLOCK_SIZE - 1)
    BY <1>2, <2>1 DEF OnPath
  <2>3. frames'[i].firstAt = frames[i].firstAt
    BY <1>10, <2>1 DEF Outer
  <2>4. q \in frames[i].offset..(BLOCK_SIZE - 1) /\ (i # level - 1 => q # frames[i].offset)
    <3>1. CASE i = level - 1
      BY <1>7, <1>9, <2>1, <2>2, <3>1, BlockSize
    <3>2. CASE i # level - 1
      <4>1. frames'[i] = frames[i]
        BY <1>9, <2>1, <3>2
      <4> QED  BY <2>2, <3>2, <4>1, BlockSize
    <3> QED  BY <3>1, <3>2
  <2> DEFINE p == frames[i].firstAt + q
  <2>5. p \in Nat /\ OnLevel(b, i, p)
    <3>1. q \in 0..(BLOCK_SIZE - 1)
      BY <2>2, <2>4, BlockSize
    <3> QED  BY <1>2, <2>1, <3>1, PositionOnPath
  <2>6. p \in 0..(At(b[level - 1]) - 1)
    <3>1. b[i] \in Nat /\ b[level - 1] \in Nat /\ b[i] <= b[level - 1]
      BY <1>4, <2>1
    <3>2. At(b[i]) \in Nat /\ At(b[i]) <= At(b[level - 1])
      BY <3>1, AtOrder
    <3> HIDE DEF p
    <3> QED  BY <1>3, <2>5, <3>2 DEF OnLevel
  <2>7. CASE q = frames[i].offset
    <3>1. i = level - 1
      BY <2>4, <2>7
    <3>2. f.only0s
      BY <1>9, <2>1, <3>1
    <3>3. ~still
      BY <1>7, <3>2
    <3>4. p = CallerNode
      BY <2>7, <3>1 DEF CallerNode
    <3> QED  BY <2>3, <3>3, <3>4
  <2>8. CASE q # frames[i].offset
    <3>1. frames[i].only0s
      <4>1. CASE i = level - 1
        <5>1. f.only0s
          BY <1>9, <2>1, <4>1
        <5> QED  BY <1>7, <4>1, <5>1
      <4>2. CASE i # level - 1
        BY <1>9, <2>1, <4>2
      <4> QED  BY <4>1, <4>2
    <3>2. q \in (frames[i].offset + 1)..(BLOCK_SIZE - 1)
      BY <2>2, <2>4, <2>8, BlockSize
    <3>3. ~Access(ttree, p)
      BY <1>2, <2>1, <3>1, <3>2 DEF ZerosAbove
    <3> QED  BY <2>3, <2>6, <3>3
  <2> QED  BY <2>7, <2>8
<1>13. pc' \in {"remove", "deleteRow", "deleteColumn", "find"} /\ pc' # "remove"
  BY <1>1
<1> QED
  BY <1>7, <1>10, <1>11, <1>12, <1>13, RecursiveStructured

\* An activation of deleteEdges in ttree returns: its block goes with the caller's bit,
\* or both stay.
LEMMA DeleteReturnsStructured ==
  ASSUME Typed, NEW H, NEW b, Structured(H, b), DeleteReturns
  PROVE  \E c : Structured(H, c)'
<1>1. /\ Deleting /\ pc \in {"deleteRow", "deleteColumn"} /\ Partition(level) > 1
      /\ top.offset < 0 /\ UNCHANGED <<ltree, matrixSize>>
  BY DEF DeleteReturns, Deleting
<1>2. /\ matrixSize = LongPow[H] /\ H \in Nat /\ H >= 2
      /\ Levels(ttree, Len(ltree), H, b, H)
      /\ ttree \in Seq(BOOLEAN) /\ Len(ltree) \in Nat /\ Len(ttree) \in Nat
      /\ frames \in Seq(Frames) /\ frames # <<>> /\ OnPath(ttree, H, b, frames)
      /\ level = Len(frames) /\ level \in 1..H /\ level \in 1..Len(frames) /\ level \in Nat
      /\ top = frames[level] /\ top \in Frames
      /\ top.offset \in -1..BLOCK_SIZE /\ ZerosAbove(ttree, H, frames)
  BY <1>1, RecursiveParts
<1>3. level < H
  BY <1>1, <1>2, PartitionSizes
<1>4. CASE level = 1
  <2>1. PassReturns /\ UNCHANGED ttree
    BY <1>4 DEF DeleteReturns
  <2>2. UNCHANGED matrix
    BY <1>1, <2>1 DEF matrix
  <2>3. Structured(H, b)'
    BY <1>1, <2>1, <2>2, PassReturnsStructured
  <2> QED  BY <2>3
<1>5. CASE level # 1 /\ ~top.only0s
  <2>1. UNCHANGED ttree /\ CallerContinues(~top.only0s)
    BY <1>5 DEF DeleteReturns
  <2>2. CallerContinues(TRUE)
    BY <1>5, <2>1 DEF CallerContinues
  <2>3. SameNumbers(b, b, level - 1)
    BY DEF SameNumbers
  <2>4. SameBits(ttree, 0, At(b[(level - 1) - 1]), ttree', 0)
    <3>1. \A i \in 0..(At(b[(level - 1) - 1]) - 1) : i + 0 = i
      OBVIOUS
    <3> QED  BY <2>1, <3>1 DEF SameBits
  <2>5. /\ ttree' \in Seq(BOOLEAN) /\ matrixSize' = LongPow[H]
        /\ Levels(ttree', Len(ltree'), H, b, H)
        /\ \A q \in 0..(At(b[level - 1]) - 1) : Access(ttree', q) => Access(ttree, q)
    BY <1>1, <1>2, <2>1
  <2>6. Structured(H, b)'
    BY <1>1, <1>5, <2>2, <2>3, <2>4, <2>5, CallerContinuesStructured
  <2> QED  BY <2>6
<1>6. CASE level # 1 /\ top.only0s
  <2> DEFINE w == DeleteBlock(ttree, top.firstAt)
  <2>1. ttree' = SetBit(w, CallerNode, FALSE) /\ CallerContinues(~top.only0s)
    BY <1>6 DEF DeleteReturns
  <2>2. CallerContinues(FALSE)
    BY <1>6, <2>1 DEF CallerContinues
  <2>3. top.firstAt \in Nat /\ top.firstAt + BLOCK_SIZE <= Len(ttree)
    BY <1>2, <1>3, TopBlock
  <2>4. OnlyZeros(ttree, top.firstAt)
    <3>1. top.offset + 1 = 0
      BY <1>1, <1>2, BlockSize
    <3>2. \A o \in (top.offset + 1)..(BLOCK_SIZE - 1) : ~Access(ttree, top.firstAt + o)
      BY <1>2, <1>3, <1>6 DEF ZerosAbove
    <3> QED  BY <3>1, <3>2 DEF OnlyZeros
  <2>5. PICK n \in b[level - 1]..(b[level] - 1) : top.firstAt = At(n)
    BY <1>2, TopBlock
  <2>6. PICK c : c = Shifted(b, H, level, -1)
    OBVIOUS
  <2>7. w \in Seq(BOOLEAN)
    <3>1. top.firstAt \in Int
      BY <2>3
    <3> QED  BY <1>2, <3>1, DeleteBlockType
  <2>8. Levels(w, Len(ltree), H, c, level - 1)
    <3>1. level \in 2..H
      BY <1>2, <1>6
    <3>2. OnlyZeros(ttree, At(n))
      BY <2>4, <2>5
    <3>3. Levels(DeleteBlock(ttree, At(n)), Len(ltree), H, Shifted(b, H, level, -1), level - 1)
      BY <1>2, <1>3, <3>1, <3>2, EmptyLevels
    <3> QED  BY <2>5, <2>6, <3>3
  <2>9. SameNumbers(b, c, level - 1)
    <3>1. level \in 1..H /\ level - 1 \in 0..(level - 1)
      BY <1>2
    <3> QED  BY <1>2, <2>6, <3>1, ShiftedAbove
  <2>10. /\ level - 1 \in 1..(H - 1)
         /\ CallerNode \in Nat /\ OnLevel(b, level - 1, CallerNode) /\ Access(ttree, CallerNode)
         /\ At(b[level - 1]) \in Nat /\ At(b[(level - 1) - 1]) \in Nat
         /\ At(b[(level - 1) - 1]) <= CallerNode /\ CallerNode < At(b[level - 1])
         /\ At(b[level - 1]) <= top.firstAt
    BY <1>1, <1>6, CallerBit
  <2>11. \A q \in Nat : q < top.firstAt => (Access(w, q) <=> Access(ttree, q))
    <3> SUFFICES ASSUME NEW q \in Nat, q < top.firstAt PROVE Access(w, q) <=> Access(ttree, q)
      OBVIOUS
    <3>1. Access(w, q) <=> IF q < top.firstAt THEN Access(ttree, q) ELSE Access(ttree, q + BLOCK_SIZE)
      BY <1>2, <2>3, DeleteBlockAccess
    <3> QED  BY <3>1
  <2> HIDE DEF w
  <2>12. CallerNode < top.firstAt /\ Access(w, CallerNode) /\ CallerNode \in 0..(Len(w) - 1)
    <3>1. CallerNode < top.firstAt
      BY <2>3, <2>10
    <3>2. Access(w, CallerNode)
      BY <2>10, <2>11, <3>1
    <3> QED  BY <3>1, <3>2 DEF Access
  <2>13. OnLevel(c, level - 1, CallerNode)
    <3>1. level - 1 \in 0..(level - 1) /\ (level - 1) - 1 \in 0..(level - 1)
      BY <2>10
    <3>2. c[level - 1] = b[level - 1] /\ c[(level - 1) - 1] = b[(level - 1) - 1]
      BY <2>9, <3>1 DEF SameNumbers
    <3> QED  BY <2>10, <3>2 DEF OnLevel
  <2>14. Levels(SetBit(w, CallerNode, FALSE), Len(ltree), H, c, H)
    BY <2>7, <2>8, <2>10, <2>12, <2>13, ClearOnLevel
  <2>15. SetBit(w, CallerNode, FALSE) \in Seq(BOOLEAN)
    BY <2>7, SetBitType
  <2>16. ASSUME NEW q \in Nat, q < top.firstAt
         PROVE  Access(ttree', q) <=> q # CallerNode /\ Access(ttree, q)
    <3>1. Access(SetBit(w, CallerNode, FALSE), q) <=> IF q = CallerNode THEN FALSE ELSE Access(w, q)
      BY <2>7, <2>12, SetBitAccess
    <3> QED  BY <2>1, <2>11, <2>16, <3>1
  <2>17. SameBits(ttree, 0, At(b[(level - 1) - 1]), ttree', 0)
    <3> SUFFICES ASSUME NEW i \in 0..(At(b[(level - 1) - 1]) - 1)
                 PROVE  Access(ttree, i) <=> Access(ttree', i + 0)
      BY DEF SameBits
    <3>1. i \in Nat /\ i < top.firstAt /\ i # CallerNode /\ i + 0 = i
      BY <2>3, <2>10
    <3> QED  BY <2>16, <3>1
  <2>18. \A q \in 0..(At(b[level - 1]) - 1) : Access(ttree', q) => Access(ttree, q)
    <3> SUFFICES ASSUME NEW q \in 0..(At(b[level - 1]) - 1) PROVE Access(ttree', q) => Access(ttree, q)
      OBVIOUS
    <3>1. q \in Nat /\ q < top.firstAt
      BY <2>3, <2>10
    <3> QED  BY <2>16, <3>1
  <2>19. ~Access(ttree', CallerNode)
    BY <2>10, <2>12, <2>16
  <2>20. /\ ttree' \in Seq(BOOLEAN) /\ matrixSize' = LongPow[H]
         /\ Levels(ttree', Len(ltree'), H, c, H)
    BY <1>1, <1>2, <2>1, <2>14, <2>15
  <2>21. Structured(H, c)'
    BY <1>1, <1>6, <2>2, <2>9, <2>17, <2>18, <2>19, <2>20, CallerContinuesStructured
  <2> QED  BY <2>21
<1> QED
  BY <1>4, <1>5, <1>6

\* deleteEdgesFromLTree clears bits of its block, and deletes the block and clears the
\* caller's bit if no 1 is left.
LEMMA DeleteInLTreeStructured ==
  ASSUME Typed, NEW H, NEW b, Structured(H, b), DeleteInLTree
  PROVE  \E c : Structured(H, c)'
<1> DEFINE cleared == [i \in 1..Len(ltree) |-> ltree[i] /\ i - 1 - LeafBlock \notin LeafCells]
           only0s == OnlyZeros(cleared, LeafBlock)
<1>1. /\ Deleting /\ pc \in {"deleteRow", "deleteColumn"} /\ Partition(level) <= 1
      /\ UNCHANGED matrixSize
  BY DEF DeleteInLTree, Deleting
<1>2. /\ matrixSize = LongPow[H] /\ H \in Nat /\ H >= 2
      /\ Levels(ttree, Len(ltree), H, b, H)
      /\ ttree \in Seq(BOOLEAN) /\ ltree \in Seq(BOOLEAN)
      /\ Len(ltree) \in Nat /\ level \in 1..H /\ level \in Nat
  BY <1>1, RecursiveParts
<1>3. level = H /\ Partition(level) # 0
  BY <1>1, <1>2, PartitionSizes
<1>4. /\ LeafBlock \in Nat /\ LeafBlock + BLOCK_SIZE <= Len(ltree) /\ level # 1
      /\ Levels(ttree, Len(ltree) - BLOCK_SIZE, H, Shifted(b, H, H, -1), H - 1)
  BY <1>1, <1>3, LeafLevel
<1>5. cleared \in Seq(BOOLEAN) /\ Len(cleared) = Len(ltree)
  BY <1>2, FunctionIsSeq
<1>6. CASE ~only0s
  <2>1. ltree' = cleared /\ UNCHANGED ttree /\ CallerContinues(~only0s)
    BY <1>3, <1>4, <1>6 DEF DeleteInLTree
  <2> HIDE DEF cleared
  <2>2. CallerContinues(TRUE)
    BY <1>6, <2>1 DEF CallerContinues
  <2>3. SameNumbers(b, b, level - 1)
    BY DEF SameNumbers
  <2>4. SameBits(ttree, 0, At(b[(level - 1) - 1]), ttree', 0)
    <3>1. \A i \in 0..(At(b[(level - 1) - 1]) - 1) : i + 0 = i
      OBVIOUS
    <3> QED  BY <2>1, <3>1 DEF SameBits
  <2>5. /\ ttree' \in Seq(BOOLEAN) /\ matrixSize' = LongPow[H]
        /\ Levels(ttree', Len(ltree'), H, b, H)
        /\ \A q \in 0..(At(b[level - 1]) - 1) : Access(ttree', q) => Access(ttree, q)
    BY <1>1, <1>2, <1>5, <2>1
  <2>6. Structured(H, b)'
    BY <1>1, <1>4, <2>2, <2>3, <2>4, <2>5, CallerContinuesStructured
  <2> QED  BY <2>6
<1>7. CASE only0s
  <2>1. /\ ltree' = DeleteBlock(cleared, LeafBlock) /\ ttree' = SetBit(ttree, CallerNode, FALSE)
        /\ CallerContinues(~only0s)
    BY <1>3, <1>4, <1>7 DEF DeleteInLTree
  <2> HIDE DEF cleared
  <2>2. CallerContinues(FALSE)
    BY <1>7, <2>1 DEF CallerContinues
  <2>3. Len(ltree') = Len(ltree) - BLOCK_SIZE
    BY <1>4, <1>5, <2>1, DeleteBlockAccess
  <2>4. PICK c : c = Shifted(b, H, H, -1)
    OBVIOUS
  <2>5. SameNumbers(b, c, level - 1)
    <3>1. H \in 1..H /\ level - 1 \in 0..(H - 1)
      BY <1>2, <1>3
    <3> QED  BY <1>2, <2>4, <3>1, ShiftedAbove
  <2>6. /\ level - 1 \in 1..(H - 1)
        /\ CallerNode \in Nat /\ OnLevel(b, level - 1, CallerNode) /\ Access(ttree, CallerNode)
        /\ At(b[level - 1]) \in Nat /\ At(b[(level - 1) - 1]) \in Nat
        /\ At(b[(level - 1) - 1]) <= CallerNode
    BY <1>1, <1>4, CallerBit
  <2>7. CallerNode \in 0..(Len(ttree) - 1)
    BY <2>6 DEF Access
  <2>8. OnLevel(c, level - 1, CallerNode)
    <3>1. level - 1 \in 0..(level - 1) /\ (level - 1) - 1 \in 0..(level - 1)
      BY <2>6
    <3>2. c[level - 1] = b[level - 1] /\ c[(level - 1) - 1] = b[(level - 1) - 1]
      BY <2>5, <3>1 DEF SameNumbers
    <3> QED  BY <2>6, <3>2 DEF OnLevel
  <2>9. Levels(ttree, Len(ltree'), H, c, level - 1)
    BY <1>3, <1>4, <2>3, <2>4
  <2>10. Levels(SetBit(ttree, CallerNode, FALSE), Len(ltree'), H, c, H)
    BY <1>2, <2>6, <2>7, <2>8, <2>9, ClearOnLevel
  <2>11. SetBit(ttree, CallerNode, FALSE) \in Seq(BOOLEAN)
    BY <1>2, SetBitType
  <2>12. ASSUME NEW q \in Nat
         PROVE  Access(ttree', q) <=> q # CallerNode /\ Access(ttree, q)
    <3>1. Access(SetBit(ttree, CallerNode, FALSE), q) <=>
            IF q = CallerNode THEN FALSE ELSE Access(ttree, q)
      BY <1>2, <2>7, SetBitAccess
    <3> QED  BY <2>1, <3>1
  <2>13. SameBits(ttree, 0, At(b[(level - 1) - 1]), ttree', 0)
    <3> SUFFICES ASSUME NEW i \in 0..(At(b[(level - 1) - 1]) - 1)
                 PROVE  Access(ttree, i) <=> Access(ttree', i + 0)
      BY DEF SameBits
    <3>1. i \in Nat /\ i # CallerNode /\ i + 0 = i
      BY <2>6
    <3> QED  BY <2>12, <3>1
  <2>14. \A q \in 0..(At(b[level - 1]) - 1) : Access(ttree', q) => Access(ttree, q)
    <3>1. \A q \in 0..(At(b[level - 1]) - 1) : q \in Nat
      BY <2>6
    <3> QED  BY <2>12, <3>1
  <2>15. ~Access(ttree', CallerNode)
    BY <2>6, <2>12
  <2>16. /\ ttree' \in Seq(BOOLEAN) /\ matrixSize' = LongPow[H]
         /\ Levels(ttree', Len(ltree'), H, c, H)
    BY <1>1, <1>2, <2>1, <2>10, <2>11
  <2>17. Structured(H, c)'
    BY <1>1, <1>4, <2>2, <2>5, <2>13, <2>14, <2>15, <2>16, CallerContinuesStructured
  <2> QED  BY <2>17
<1> QED
  BY <1>6, <1>7

\* Some numbering of the levels fits the tree.
SomeStructure == \E H, b : Structured(H, b)

\* The first step of a call leaves the levels.
LEMMA CallStructured ==
  ASSUME Typed, SomeStructure, Call
  PROVE  SomeStructure'
<1>1. PICK H, b : Structured(H, b)
  BY DEF SomeStructure
<1>2. SUFFICES \E G, c : Structured(G, c)'
  BY DEF SomeStructure
<1>3. CASE InsertEntry
  BY <1>1, <1>3, InsertEntryStructured
<1>4. ASSUME NEW a \in Deletions, DeleteEntry(a)
      PROVE  \E G, c : Structured(G, c)'
  <2>1. a \in Nat
    BY BoundsAssumption
  <2>2. Structured(H, b)'
    BY <1>1, <1>4, <2>1, DeleteEntryStructured
  <2> QED  BY <2>2
<1>5. ASSUME NEW e \in Arcs,
             AddEdge(e[1], e[2]) \/ RemoveEdge(e[1], e[2]) \/ ReportEdge(e[1], e[2])
      PROVE  \E G, c : Structured(G, c)'
  <2>1. e[1] \in Nat /\ e[2] \in Nat
    BY BoundsAssumption
  <2>2. /\ EdgeCall("addEdge", e[1], e[2]) \in EdgeCalls
        /\ EdgeCall("reportEdge", e[1], e[2]) \in EdgeCalls
    BY <2>1 DEF EdgeCall, EdgeCalls
  <2>3. CASE AddEdge(e[1], e[2])
    <3>1. Structured(H, b)'
      BY <1>1, <2>2, <2>3, StartTraverseStructured DEF AddEdge
    <3> QED  BY <3>1
  <2>4. CASE RemoveEdge(e[1], e[2])
    <3>1. Structured(H, b)'
      BY <1>1, <2>1, <2>4, RemoveEdgeStructured
    <3> QED  BY <3>1
  <2>5. CASE ReportEdge(e[1], e[2])
    <3>1. Structured(H, b)'
      BY <1>1, <2>2, <2>5, StartTraverseStructured DEF ReportEdge
    <3> QED  BY <3>1
  <2> QED  BY <1>5, <2>3, <2>4, <2>5
<1>6. ASSUME NEW q \in Queries, ReportAllEdges(q[1], q[2])
      PROVE  \E G, c : Structured(G, c)'
  <2>1. q[1] \in Seq(Nat) /\ q[2] \in Seq(Nat)
    BY BoundsAssumption
  <2>2. Structured(H, b)'
    BY <1>1, <1>6, <2>1, ReportAllEdgesStructured
  <2> QED  BY <2>2
<1> QED
  BY <1>3, <1>4, <1>5, <1>6 DEF Call

\* Every step of a running call leaves levels that fit.
LEMMA StepStructured ==
  ASSUME Typed, ColumnsInOrder, SomeStructure, Step
  PROVE  SomeStructure'
<1>1. PICK H, b : Structured(H, b)
  BY DEF SomeStructure
<1>2. SUFFICES \E c : Structured(H, c)'
  BY DEF SomeStructure
<1>3. SUFFICES ASSUME ~Structured(H, b)' PROVE \E c : Structured(H, c)'
  OBVIOUS
<1>4. CASE TraverseOne
  BY <1>1, <1>3, <1>4, TraverseOneStructured
<1>5. CASE ReportEdgeReturns
  <2>1. pc \notin {"extend", "prune"} /\ UNCHANGED matrix /\ pc' = "idle"
    BY <1>5 DEF ReportEdgeReturns, AtFirst0, AtLTree, Finish
  <2> QED  BY <1>1, <1>3, <2>1, FinishStructured
<1>6. CASE AddEdgeInLTree
  BY <1>1, <1>3, <1>6, AddEdgeInLTreeStructured
<1>7. CASE AddEdgeAtFirst0
  BY <1>1, <1>3, <1>7, AddEdgeAtFirst0Structured
<1>8. CASE ExtendTTree
  BY <1>1, <1>8, ExtendTTreeStructured
<1>9. CASE ExtendLTree
  BY <1>1, <1>9, ExtendLTreeStructured
<1>10. CASE RemoveDescends
  BY <1>1, <1>3, <1>10, RemoveDescendsStructured
<1>11. CASE RemoveStops
  <2>1. pc \notin {"extend", "prune"} /\ UNCHANGED matrix /\ pc' = "idle"
    BY <1>11 DEF RemoveStops, Finish
  <2> QED  BY <1>1, <1>3, <2>1, FinishStructured
<1>12. CASE RemoveInLTree
  BY <1>1, <1>12, RemoveInLTreeStructured
<1>13. CASE Prune
  BY <1>1, <1>13, PruneStructured
<1>14. CASE CollectOthers
  BY <1>1, <1>3, <1>14, CollectOthersStructured
<1>15. CASE DeleteSkips
  <2>1. /\ AtTTreeOffset /\ ~Access(ttree, node) /\ NextOffset(top.only0s)
        /\ pc \in {"deleteRow", "deleteColumn"}
    BY <1>15 DEF DeleteSkips, AtTTreeOffset, Deleting
  <2>2. top \in Frames
    BY <1>1, <2>1, RecursiveParts
  <2>3. top.only0s \in BOOLEAN
    BY <2>2 DEF Frames
  <2> QED  BY <1>1, <1>3, <2>1, <2>3, NextOffsetStructured
<1>16. CASE DeleteKeeps
  <2>1. AtTTreeOffset /\ NextOffset(FALSE)
    BY <1>16 DEF DeleteKeeps
  <2> QED  BY <1>1, <1>3, <2>1, NextOffsetStructured
<1>17. CASE DeleteDescends
  BY <1>1, <1>3, <1>17, DeleteDescendsStructured
<1>18. CASE DeleteReturns
  BY <1>1, <1>18, DeleteReturnsStructured
<1>19. CASE DeleteInLTree
  BY <1>1, <1>19, DeleteInLTreeStructured
<1>20. CASE FindSkips
  BY <1>1, <1>3, <1>20, FindSkipsStructured
<1>21. CASE FindDescends
  BY <1>1, <1>3, <1>21, FindDescendsStructured
<1>22. CASE FindDone
  <2>1. pc = "find" /\ FindReturns(<<>>)
    BY <1>22 DEF FindDone, FindAtTTree
  <2> QED  BY <1>1, <1>3, <2>1, FindReturnsStructured
<1>23. CASE FindInLTree
  <2>1. pc = "find"
    BY <1>23 DEF FindInLTree
  <2>2. CASE Partition(level) = 0
    <3>1. pc' = "idle" /\ UNCHANGED matrix
      BY <1>23, <2>2 DEF FindInLTree, Throw, Finish
    <3> QED  BY <1>1, <1>3, <2>1, <3>1, FinishStructured
  <2>3. CASE Partition(level) # 0
    <3>1. \E found : FindReturns(found)
      BY <1>23, <2>3 DEF FindInLTree
    <3> QED  BY <1>1, <1>3, <2>1, <3>1, FindReturnsStructured
  <2> QED  BY <2>2, <2>3
<1> QED
  BY <1>4, <1>5, <1>6, <1>7, <1>8, <1>9, <1>10, <1>11, <1>12, <1>13, <1>14, <1>15,
     <1>16, <1>17, <1>18, <1>19, <1>20, <1>21, <1>22, <1>23 DEF Step

\* With the types and the order of the columns, SomeStructure is inductive.
LEMMA NextStructured == Typed /\ Ordered /\ SomeStructure /\ [Next]_vars => SomeStructure'
<1> SUFFICES ASSUME Typed, Ordered, SomeStructure, [Next]_vars PROVE SomeStructure'
  OBVIOUS
<1>1. CASE Call
  BY <1>1, CallStructured
<1>2. CASE Step
  BY <1>2, StepStructured DEF Ordered
<1>3. CASE UNCHANGED vars
  <2>1. PICK H, b : Structured(H, b)
    BY DEF SomeStructure
  <2>2. Structured(H, b)'
    BY <1>3, <2>1 DEF vars, matrix, bookkeeping, locals, Structured, Owed, Recursive,
                      level, top, node
  <2> QED  BY <2>2 DEF SomeStructure
<1> QED
  BY <1>1, <1>2, <1>3 DEF Next

\* Only the recursive functions have activations.
NoFrames == pc \notin Recursive => frames = <<>>

\* NoFrames is inductive.
LEMMA NextNoFrames == NoFrames /\ [Next]_vars => NoFrames'
<1> SUFFICES ASSUME NoFrames, [Next]_vars PROVE NoFrames'
  OBVIOUS
<1> USE DEF NoFrames, Recursive
<1>1. CASE \E r : Finish(r)
  BY <1>1 DEF Finish
<1>2. CASE pc' \in Recursive
  BY <1>2
<1>3. CASE pc \notin Recursive /\ UNCHANGED frames
  BY <1>3
<1>4. ASSUME NEW c, StartTraverse(c) PROVE NoFrames'
  BY <1>1, <1>3, <1>4 DEF StartTraverse, Begin, Throw
<1>5. ASSUME NEW row, NEW column, RemoveEdge(row, column) PROVE NoFrames'
  BY <1>1, <1>2, <1>5 DEF RemoveEdge, Throw
<1>6. ASSUME NEW a, DeleteEntry(a) PROVE NoFrames'
  BY <1>1, <1>2, <1>6 DEF DeleteEntry, Throw
<1>7. ASSUME NEW A, NEW B, ReportAllEdges(A, B) PROVE NoFrames'
  BY <1>1, <1>2, <1>7 DEF ReportAllEdges, Throw
<1>8. CASE InsertEntry
  BY <1>1, <1>8 DEF InsertEntry
<1>9. CASE TraverseOne
  BY <1>1, <1>3, <1>9 DEF TraverseOne, Throw
<1>10. CASE ReportEdgeReturns \/ AddEdgeInLTree \/ RemoveStops
  BY <1>1, <1>10 DEF ReportEdgeReturns, AddEdgeInLTree, RemoveStops
<1>11. CASE AddEdgeAtFirst0
  BY <1>3, <1>11 DEF AddEdgeAtFirst0, AtFirst0
<1>12. CASE ExtendTTree \/ ExtendLTree
  BY <1>1, <1>3, <1>12 DEF ExtendTTree, ExtendLTree, Throw
<1>13. CASE RemoveDescends \/ RemoveInLTree \/ Prune
  BY <1>1, <1>2, <1>13 DEF RemoveDescends, RemoveInLTree, Prune, Throw
<1>14. CASE CollectOthers
  BY <1>2, <1>14 DEF CollectOthers
<1>15. CASE DeleteSkips \/ DeleteKeeps \/ DeleteDescends
  BY <1>2, <1>15 DEF DeleteSkips, DeleteKeeps, DeleteDescends, NextOffset, AtTTreeOffset, Deleting
<1>16. CASE Deleting /\ (PassReturns \/ \E s : CallerContinues(s))
  BY <1>1, <1>2, <1>16 DEF Deleting, PassReturns, CallerContinues
<1>17. CASE DeleteReturns
  BY <1>16, <1>17 DEF DeleteReturns
<1>18. CASE DeleteInLTree
  BY <1>1, <1>16, <1>18 DEF DeleteInLTree, Throw
<1>19. CASE FindSkips \/ FindDescends
  BY <1>2, <1>19 DEF FindSkips, FindDescends, FindAtTTree
<1>20. CASE pc = "find" /\ \E found : FindReturns(found)
  BY <1>1, <1>2, <1>20 DEF FindReturns
<1>21. CASE FindDone \/ FindInLTree
  BY <1>1, <1>20, <1>21 DEF FindDone, FindInLTree, FindAtTTree, Throw
<1>22. CASE UNCHANGED vars
  BY <1>22 DEF vars, locals
<1> QED
  BY <1>4, <1>5, <1>6, <1>7, <1>8, <1>9, <1>10, <1>11, <1>12, <1>13, <1>14, <1>15,
     <1>17, <1>18, <1>19, <1>21, <1>22 DEF Next, Call, Step, AddEdge, ReportEdge

\* In every reachable state the bits of ttree and the lengths of the two vectors
\* are those of a tree with a block of children for each 1, level by level, but for
\* one block while addEdge adds it or removeEdge has deleted it; and the activations
\* of a call are on a path of that tree.
THEOREM AlwaysStructured ==
  ASSUME TallMatrices
  PROVE  Spec => [](SomeStructure /\ NoFrames)
<1>1. Init => SomeStructure /\ NoFrames
  BY InitStructured DEF SomeStructure, NoFrames, Init, Idle
<1>2. Typed /\ Ordered /\ SomeStructure /\ NoFrames /\ [Next]_vars => SomeStructure' /\ NoFrames'
  BY NextStructured, NextNoFrames
<1> QED
  BY <1>1, <1>2, AlwaysTyped, AlwaysOrdered, PTL DEF Spec
-----------------------------------------------------------------------------
(* What the levels say of the vectors and of the positions in them.        *)

\* There is a block for every 1, and the root block.
LEMMA StructureCounts ==
  ASSUME Typed, SomeStructure
  PROVE  BlockPerOne
<1>1. PICK H, b : Structured(H, b)
  BY DEF SomeStructure
<1>2. Levels(ttree, Len(ltree), H, b, Owed(H))
  BY <1>1 DEF Structured
<1>3. H \in Nat /\ H >= 2 /\ b \in [0..H -> Nat]
  BY <1>2 DEF Levels
<1>4. H - 1 \in 0..(H - 1) /\ H \in 0..H /\ (H - 1) + 1 = H
  BY <1>3
<1>5. b[H] \in Nat /\ BLOCK_SIZE \in Nat
  BY <1>3, <1>4, BlockSize
<1>6. Owed(H) \in Nat /\ (Owed(H) <= H - 1 <=> pc \in {"extend", "prune"})
  <2>1. CASE pc = "extend"
    <3>1. iteration \in 2..H
      BY <1>1, <2>1 DEF Structured
    <3> QED  BY <1>3, <2>1, <3>1 DEF Owed
  <2>2. CASE pc = "prune"
    <3>1. level < H /\ level \in Nat
      <4>1. Len(frames) \in 1..H /\ level < H
        BY <1>1, <2>2 DEF Structured, OnPath, Recursive
      <4> QED  BY <4>1 DEF level
    <3> QED  BY <1>3, <2>2, <3>1 DEF Owed
  <2>3. CASE pc \notin {"extend", "prune"}
    BY <1>3, <2>3 DEF Owed
  <2> QED  BY <2>1, <2>2, <2>3
<1>7. Len(ttree) = At(b[H - 1]) /\ Len(ttree) + Len(ltree) = At(b[H])
  BY <1>2 DEF Levels
<1>8. CASE pc \in {"extend", "prune"}
  <2>1. Rank1(ttree, Len(ttree)) = b[H]
    BY <1>2, <1>4, <1>6, <1>7, <1>8, LevelsParts
  <2>2. 1 + b[H] - 1 = b[H]
    BY <1>5
  <2> QED  BY <1>7, <1>8, <2>1, <2>2 DEF BlockPerOne, At
<1>9. CASE pc \notin {"extend", "prune"}
  <2>1. H - 1 < Owed(H)
    BY <1>3, <1>6, <1>9
  <2>2. Rank1(ttree, Len(ttree)) = b[H] - 1
    BY <1>2, <1>4, <1>6, <1>7, <2>1, LevelsParts
  <2>3. 1 + (b[H] - 1) - 0 = b[H]
    BY <1>5
  <2> QED  BY <1>7, <1>9, <2>2, <2>3 DEF BlockPerOne, At
<1> QED
  BY <1>8, <1>9

\* Every block begins at a multiple of BLOCK_SIZE.
LEMMA AtMultiple == \A n \in Nat : At(n) % BLOCK_SIZE = 0
<1> SUFFICES ASSUME NEW n \in Nat PROVE At(n) % BLOCK_SIZE = 0
  OBVIOUS
<1>1. BLOCK_SIZE \in Nat /\ BLOCK_SIZE > 0
  BY BlockSize
<1>2. PICK m \in Nat : m = BLOCK_SIZE /\ m > 0
  BY <1>1
<1>3. (n * m) \div m = n
  BY <1>2, QuotientOfProduct
<1>4. n * m \in Nat /\ n * m = m * n
  BY <1>2
<1>5. n * m = m * ((n * m) \div m) + ((n * m) % m)
  BY <1>2, <1>4
<1>6. (n * m) % m \in Nat
  BY <1>2, <1>4
<1>7. (m * n) % m = 0
  BY <1>3, <1>4, <1>5, <1>6
<1> QED
  BY <1>2, <1>7 DEF At

\* The blocks of the activations are blocks of the vectors.
LEMMA PathOnBlocks ==
  ASSUME ttree \in Seq(BOOLEAN), ltree \in Seq(BOOLEAN),
         NEW H, NEW b, NEW owed, Levels(ttree, Len(ltree), H, b, owed),
         OnPath(ttree, H, b, frames), NEW i \in 1..Len(frames)
  PROVE  IsBlock(frames[i].firstAt)
<1>1. H \in Nat /\ b \in [0..H -> Nat] /\ Len(ltree) \in Nat
  BY DEF Levels
<1>2. i \in 1..H /\ BlockOn(b, i, frames[i].firstAt)
  BY <1>1 DEF OnPath
<1>3. /\ frames[i].firstAt \in Nat /\ Len(ttree) \in Nat
      /\ i < H => frames[i].firstAt + BLOCK_SIZE <= Len(ttree)
      /\ i = H => frames[i].firstAt + BLOCK_SIZE <= Len(ttree) + Len(ltree)
  BY <1>1, <1>2, BlocksInVectors
<1>4. PICK n \in b[i - 1]..(b[i] - 1) : frames[i].firstAt = At(n)
  BY <1>2 DEF BlockOn
<1>5. n \in Nat
  <2>1. i - 1 \in 0..H
    BY <1>1, <1>2
  <2>2. b[i - 1] \in Nat
    BY <1>1, <2>1
  <2>3. i \in 0..H
    BY <1>1, <1>2
  <2>4. b[i] \in Nat
    BY <1>1, <2>3
  <2> QED  BY <2>2, <2>4
<1>6. frames[i].firstAt % BLOCK_SIZE = 0
  BY <1>4, <1>5, AtMultiple
<1>7. frames[i].firstAt + BLOCK_SIZE <= Len(ttree) + Len(ltree)
  BY <1>1, <1>2, <1>3, BlockSize, SMTT(30)
<1> QED
  BY <1>6, <1>7 DEF IsBlock

\* Every position a step is about to use is inside the vectors.
LEMMA StructureInRange ==
  ASSUME Typed, ColumnsInOrder, SomeStructure
  PROVE  PositionsInRange
<1>1. PICK H, b : Structured(H, b)
  BY DEF SomeStructure
<1>2. Levels(ttree, Len(ltree), H, b, Owed(H)) /\ matrixSize = LongPow[H]
  BY <1>1 DEF Structured
<1>3. /\ H \in Nat /\ H >= 2 /\ b \in [0..H -> Nat]
      /\ Len(ttree) = At(b[H - 1]) /\ Len(ttree) + Len(ltree) = At(b[H])
      /\ b[H - 1] <= b[H]
  <2>1. /\ H \in Nat /\ H >= 2 /\ b \in [0..H -> Nat]
        /\ Len(ttree) = At(b[H - 1]) /\ Len(ttree) + Len(ltree) = At(b[H])
        /\ \A i, j \in 0..H : i <= j => b[i] <= b[j]
    BY <1>2 DEF Levels
  <2>2. H - 1 \in 0..H /\ H \in 0..H /\ H - 1 <= H
    BY <2>1
  <2> QED  BY <2>1, <2>2
<1>4. b[H - 1] \in Nat /\ b[H] \in Nat
  <2>1. H - 1 \in 0..H /\ H \in 0..H
    BY <1>3
  <2> QED  BY <1>3, <2>1
<1>5. /\ ttree \in Seq(BOOLEAN) /\ ltree \in Seq(BOOLEAN)
      /\ Len(ttree) \in Nat /\ Len(ltree) \in Nat /\ position \in Nat
  BY DEF Typed, TypeOK
<1>6. Len(ttree) % BLOCK_SIZE = 0 /\ Len(ltree) % BLOCK_SIZE = 0
  <2>1. Len(ttree) % BLOCK_SIZE = 0
    BY <1>3, <1>4, AtMultiple
  <2>2. b[H] - b[H - 1] \in Nat
    BY <1>3, <1>4
  <2>3. Len(ltree) = At(b[H] - b[H - 1])
    <3>1. BLOCK_SIZE \in Nat
      BY BlockSize
    <3>2. BLOCK_SIZE * (b[H] - b[H - 1]) = BLOCK_SIZE * b[H] - BLOCK_SIZE * b[H - 1]
      BY <1>4, <3>1
    <3>3. BLOCK_SIZE * b[H] \in Nat /\ BLOCK_SIZE * b[H - 1] \in Nat
      BY <1>4, <3>1
    <3> QED  BY <1>3, <1>5, <3>2, <3>3 DEF At
  <2>4. At(b[H] - b[H - 1]) % BLOCK_SIZE = 0
    BY <2>2, AtMultiple
  <2> QED  BY <2>1, <2>3, <2>4
<1>7. pc = "traverse" => position < Len(ttree) + Len(ltree)
  <2> HAVE pc = "traverse"
  <2>1. iteration \in 1..H /\ OnLevel(b, iteration, position)
    BY <1>1 DEF Structured
  <2>2. /\ iteration < H => position < Len(ttree)
        /\ iteration = H => position < Len(ttree) + Len(ltree)
    BY <1>2, <1>5, <2>1, LevelsInVectors
  <2> QED  BY <1>3, <1>5, <2>1, <2>2
<1>8. pc = "extend" =>
        /\ Access(ttree, position)
        /\ IF Partition(iteration) > 1
           THEN ChildBlock(position) <= Len(ttree)
           ELSE ChildBlock(position) \in Len(ttree)..(Len(ttree) + Len(ltree))
  <2> HAVE pc = "extend"
  <2>1. Access(ttree, position)
    BY <1>1 DEF Structured
  <2>2. /\ iteration \in 2..H
        /\ Rank1(ttree, position + 1) \in b[iteration - 1]..b[iteration]
        /\ ChildBlock(position) = At(Rank1(ttree, position + 1))
    BY <1>1, ExtendAt
  <2>3. PICK n : n = Rank1(ttree, position + 1)
    OBVIOUS
  <2>4. /\ iteration \in 0..H /\ iteration - 1 \in 0..H /\ iteration \in Nat
        /\ H - 1 \in 0..H
    BY <1>3, <2>2
  <2>5. b[iteration] \in Nat /\ b[iteration - 1] \in Nat
    BY <1>3, <2>4
  <2>6. n \in Nat /\ b[iteration - 1] <= n /\ n <= b[iteration]
    BY <2>2, <2>3, <2>5
  <2>7. At(n) \in Nat /\ At(b[iteration - 1]) <= At(n) /\ At(n) <= At(b[iteration])
    BY <2>5, <2>6, AtOrder
  <2>8. Partition(iteration) > 1 <=> iteration < H
    BY <1>2, <1>3, <2>4, PartitionSizes
  <2>9. CASE iteration < H
    <3>1. b[iteration] <= b[H - 1]
      <4>1. iteration <= H - 1
        BY <1>3, <2>4, <2>9
      <4>2. \A i, j \in 0..H : i <= j => b[i] <= b[j]
        BY <1>2 DEF Levels
      <4> QED  BY <2>4, <4>1, <4>2
    <3>2. At(b[iteration]) <= At(b[H - 1]) /\ At(b[iteration]) \in Nat /\ At(b[H - 1]) \in Nat
      BY <1>4, <2>5, <3>1, AtOrder
    <3>3. At(n) <= Len(ttree)
      BY <1>3, <2>7, <3>2
    <3> QED  BY <2>1, <2>2, <2>3, <2>8, <2>9, <3>3
  <2>10. CASE iteration = H
    <3>1. Len(ttree) <= At(n) /\ At(n) <= Len(ttree) + Len(ltree)
      BY <1>3, <2>7, <2>10
    <3>2. ~(Partition(iteration) > 1)
      BY <1>3, <2>8, <2>10
    <3>3. ChildBlock(position) \in Len(ttree)..(Len(ttree) + Len(ltree))
      BY <1>5, <2>2, <2>3, <2>7, <3>1
    <3> QED  BY <2>1, <3>2, <3>3
  <2> QED  BY <1>3, <2>2, <2>9, <2>10
<1>9. pc \in {"remove", "prune", "deleteRow", "deleteColumn", "find"} =>
        \A i \in 1..level : IsBlock(frames[i].firstAt)
  <2> HAVE pc \in {"remove", "prune", "deleteRow", "deleteColumn", "find"}
  <2>1. OnPath(ttree, H, b, frames)
    BY <1>1 DEF Structured, Recursive
  <2>2. level = Len(frames)
    BY DEF level
  <2> QED  BY <1>2, <1>5, <2>1, <2>2, PathOnBlocks
<1>10. pc = "collect" => freeColumns[iteration] < Len(frames[1].columns)
  BY <1>1, CollectInRange
<1> QED
  BY <1>6, <1>7, <1>8, <1>9, <1>10 DEF PositionsInRange

\* The vector a position is in tells the size of the partitions at its level.
LEMMA StructureAgrees ==
  ASSUME Typed, SomeStructure
  PROVE  LevelsAgree
<1>1. PICK H, b : Structured(H, b)
  BY DEF SomeStructure
<1>2. Len(ltree) \in Nat /\ Len(ttree) \in Nat /\ position \in Nat
  BY DEF Typed, TypeOK
<1>3. pc = "traverse" => (position >= Len(ttree) <=> Partition(iteration) = 1)
  <2> HAVE pc = "traverse"
  <2>1. iteration \in 1..H /\ OnLevel(b, iteration, position)
    BY <1>1 DEF Structured
  <2>2. matrixSize = LongPow[H] /\ H \in Nat /\ Levels(ttree, Len(ltree), H, b, H)
    BY <1>1, NothingOwed
  <2>3. /\ iteration < H => position < Len(ttree)
        /\ iteration = H => position >= Len(ttree)
    BY <1>2, <2>1, <2>2, LevelsInVectors
  <2>4. Partition(iteration) = 1 <=> iteration = H
    BY <2>1, <2>2, PartitionSizes
  <2> QED  BY <1>2, <2>1, <2>2, <2>3, <2>4
<1>4. pc \in {"remove", "deleteRow", "deleteColumn", "find"} =>
        (top.firstAt >= Len(ttree) <=> Partition(level) = 1)
  <2> HAVE pc \in {"remove", "deleteRow", "deleteColumn", "find"}
  <2>1. /\ matrixSize = LongPow[H] /\ H \in Nat /\ Levels(ttree, Len(ltree), H, b, H)
        /\ ttree \in Seq(BOOLEAN) /\ frames \in Seq(Frames) /\ frames # <<>>
        /\ level \in 1..H /\ level \in Nat /\ OnPath(ttree, H, b, frames)
    BY <1>1, RecursiveParts
  <2>2. /\ top.firstAt \in Nat
        /\ level < H => top.firstAt + BLOCK_SIZE <= Len(ttree)
        /\ level = H => top.firstAt >= Len(ttree)
    BY <1>2, <2>1, TopBlock
  <2>3. Partition(level) = 1 <=> level = H
    BY <2>1, PartitionSizes
  <2> QED  BY <1>2, <2>1, <2>2, <2>3, BlockSize
<1> QED
  BY <1>3, <1>4 DEF LevelsAgree

\* Each activation's bit is 1, and the next activation is at its child block.
LEMMA StructureCurrent ==
  ASSUME Typed, SomeStructure, NoFrames
  PROVE  FramesCurrent
<1>1. PICK H, b : Structured(H, b)
  BY DEF SomeStructure
<1>2. level = Len(frames)
  BY DEF level
<1>3. CASE pc \in Recursive
  <2>1. OnPath(ttree, H, b, frames)
    BY <1>1, <1>3 DEF Structured
  <2>2. \A i \in 1..(level - 1) :
          LET p == frames[i].firstAt + frames[i].offset
          IN  Access(ttree, p) /\ frames[i + 1].firstAt = ChildBlock(p)
    BY <1>2, <2>1 DEF OnPath, ChildBlock
  <2>3. pc = "prune" => Access(ttree, node)
    BY <1>1 DEF Structured
  <2> QED  BY <2>2, <2>3 DEF FramesCurrent
<1>4. CASE pc \notin Recursive
  <2>1. frames = <<>>
    BY <1>4 DEF NoFrames
  <2>2. level - 1 = -1
    BY <1>2, <2>1
  <2>3. pc # "prune"
    BY <1>4 DEF Recursive
  <2>4. \A i \in 1..(level - 1) : FALSE
    BY <2>2
  <2> QED  BY <2>3, <2>4 DEF FramesCurrent
<1> QED
  BY <1>3, <1>4

\* ttree and ltree have one block for each 1 of ttree and the root block, for every k,
\* every matrix above side k and every order of calls: no addEdge leaves a 1
\* without its block, and no deletion a block without its 1.
THEOREM BlocksMatchOnes ==
  ASSUME TallMatrices
  PROVE  Spec => []BlockPerOne
<1>1. Typed /\ SomeStructure => BlockPerOne
  BY StructureCounts
<1> QED
  BY <1>1, AlwaysStructured, AlwaysTyped, PTL

\* No step of DKTree.cpp hands TTree or LTree a position outside of their vectors,
\* and deleteEntry erases no index past the end of allOthers.
THEOREM PositionsStayInRange ==
  ASSUME TallMatrices
  PROVE  Spec => []PositionsInRange
<1>1. Typed /\ Ordered /\ SomeStructure => PositionsInRange
  BY StructureInRange DEF Ordered
<1> QED
  BY <1>1, AlwaysStructured, AlwaysTyped, AlwaysOrdered, PTL

\* The traversals, which stop where the position is past ttree, and the recursive
\* functions, which stop where the partitions have side 1, stop at the same level.
THEOREM TestsForTheLastLevelAgree ==
  ASSUME TallMatrices
  PROVE  Spec => []LevelsAgree
<1>1. Typed /\ SomeStructure => LevelsAgree
  BY StructureAgrees
<1> QED
  BY <1>1, AlwaysStructured, AlwaysTyped, PTL

\* The positions that the activations of deleteThisEdge, deleteEdges and findAllEdges
\* have saved stay good while deeper activations delete blocks and clear bits.
THEOREM ActivationsStayCurrent ==
  ASSUME TallMatrices
  PROVE  Spec => []FramesCurrent
<1>1. Typed /\ SomeStructure /\ NoFrames => FramesCurrent
  BY StructureCurrent
<1> QED
  BY <1>1, AlwaysStructured, AlwaysTyped, PTL
=============================================================================
