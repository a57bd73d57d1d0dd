------------------------------- MODULE DKTree -------------------------------
(***************************************************************************)
(* The dynamic k^2-tree of DKTree.cpp: an adjacency matrix of side         *)
(* matrixSize, a power of k, cut into k x k partitions level by level.     *)
(* ttree holds the bits of every level but the last, in level order, ltree *)
(* those of the last; a 1 at position p of ttree has its block of          *)
(* BLOCK_SIZE children at position rank1(p + 1) * BLOCK_SIZE of the two    *)
(* vectors taken together.                                                 *)
(*                                                                         *)
(* A call runs as a sequence of steps: one per iteration of a loop, one    *)
(* per level of a recursion.  The recursive functions keep their frames in *)
(* `frames`.  TTree and LTree are used here as the bit vectors they        *)
(* promise to be; positions are 0-based, as in the code.                   *)
(***************************************************************************)
EXTENDS Integers, Sequences, FiniteSets

CONSTANTS
  K,            \* the k of the k^2-tree (parameters.cpp: 2)
  Powers,       \* the powers given to DKTree(power); 4 for DKTree()
  Sizes,        \* the sizes given to withSize(size)
  MaxVertices,  \* bound: no vertex is added beyond this many
  Deletions,    \* bound: the vertices clients delete
  Arcs,         \* bound: the pairs <<row, column>> clients add, remove and query
  Queries,      \* bound: the pairs <<A, B>> of vectors given to reportAllEdges
  WithinMatrix  \* TRUE: clients name only vertices below matrixSize

ASSUME KAssumption == K \in Nat /\ K >= 2
ASSUME BoundsAssumption == /\ Powers \subseteq Nat
                           /\ Sizes \subseteq Nat
                           /\ MaxVertices \in Nat
                           /\ Deletions \subseteq Nat
                           /\ Arcs \subseteq Nat \X Nat
                           /\ Queries \subseteq Seq(Nat) \X Seq(Nat)
                           /\ WithinMatrix \in BOOLEAN

VARIABLES
  ttree,            \* the bits of all levels but the last
  ltree,            \* the bits of the last level
  freeColumns,      \* the vertices below firstFreeColumn that are not in use
  firstFreeColumn,  \* the lowest index above the used entries
  matrixSize,       \* the side of the matrix
  pc,               \* what the current call is doing
  call,             \* the current call and its arguments
  iteration,        \* local variables of addEdge and reportEdge; iteration is
  position,         \*   also the loop counter of deleteEntry
  frames,           \* the activations of the recursive functions, root first
  findings,         \* the edges reportAllEdges has found, in order
  reply             \* what the last call returned, until the next step

matrix == <<ttree, ltree, matrixSize>>
bookkeeping == <<freeColumns, firstFreeColumn>>
locals == <<pc, call, iteration, position, frames, findings>>
vars == <<matrix, bookkeeping, locals, reply>>
-----------------------------------------------------------------------------
(* Bit vectors, and vectors in general.                                    *)

BLOCK_SIZE == K * K

Access(bits, p) == p \in 0..(Len(bits) - 1) /\ bits[p + 1]

SetBit(bits, p, b) == [bits EXCEPT ![p + 1] = b]

\* The number of ones in the bits [0 .. p).
Rank1(bits, p) == Cardinality({i \in 1..Len(bits) : i <= p /\ bits[i]})

InsertBlock(bits, p) ==
  [i \in 1..(Len(bits) + BLOCK_SIZE) |->
     \/ i <= p /\ Access(bits, i - 1)
     \/ i > p + BLOCK_SIZE /\ Access(bits, i - 1 - BLOCK_SIZE)]

\* The vector without its n elements from position p on.
Erase(v, p, n) ==
  [i \in 1..(Len(v) - n) |-> IF i <= p THEN v[i] ELSE v[i + n]]

\* Mutant: a block is k bits, as the comment of deleteThisEdge has it (DKTree.h:212).
DeleteKBits(bits, p) == Erase(bits, p, K)

DeleteBlock(bits, p) == Erase(bits, p, BLOCK_SIZE)

\* Mutant: the loop starts at the second bit.
OnlyZerosButFirst(bits, p) == \A i \in 1..(BLOCK_SIZE - 1) : ~Access(bits, p + i)

OnlyZeros(bits, p) == \A i \in 0..(BLOCK_SIZE - 1) : ~Access(bits, p + i)

Elements(v) == {v[i] : i \in 1..Len(v)}
-----------------------------------------------------------------------------
(* The geometry of the matrix.                                             *)

LongPow[b \in Nat] == IF b = 0 THEN 1 ELSE K * LongPow[b - 1]

Partition(it) == matrixSize \div LongPow[it]

\* Where x falls among the K partitions of its block at level `it`.
OffsetOf(x, it) == (x % Partition(it - 1)) \div Partition(it)

CalculateOffset(row, column, it) == K * OffsetOf(row, it) + OffsetOf(column, it)

\* The block below the 1 at position p of ttree.
ChildBlock(p) == Rank1(ttree, p + 1) * BLOCK_SIZE

\* Mutant: the free columns are not looked at.
BelowFirstFree(a) == a < firstFreeColumn

\* checkArgument accepts a.
Occupied(a) == a < firstFreeColumn /\ a \notin Elements(freeColumns)
-----------------------------------------------------------------------------
(* Calls.                                                                  *)

NoCall == [op |-> "none"]
NoReply == [call |-> NoCall]

EdgeCall(op, row, column) == [op |-> op, row |-> row, column |-> column]

Idle == /\ pc = "idle" /\ call = NoCall /\ iteration = 0 /\ position = 0
        /\ frames = <<>> /\ findings = <<>>

\* The call c returns (or throws) with reply r.
Finish(r) == /\ pc' = "idle" /\ call' = NoCall /\ iteration' = 0 /\ position' = 0
             /\ frames' = <<>> /\ findings' = <<>>
             /\ reply' = r

Throw(c) == Finish([call |-> c, throws |-> "invalid_argument"])

Begin(c) == /\ pc = "idle"
            /\ call' = c
            /\ reply' = NoReply

New(power) == matrixSize = LongPow[power] /\ firstFreeColumn = 0

\* withSize: the smallest power of K that is at least size.
WithSize(size) == /\ \E p \in 0..size : /\ LongPow[p] >= size
                                        /\ \A q \in 0..(p - 1) : LongPow[q] < size
                                        /\ matrixSize = LongPow[p]
                  /\ firstFreeColumn = size

Init == /\ \/ \E power \in Powers : New(power)
           \/ \E size \in Sizes : WithSize(size)
        /\ ttree = [i \in 1..BLOCK_SIZE |-> FALSE]
        /\ ltree = <<>>
        /\ freeColumns = <<>>
        /\ Idle
        /\ reply = NoReply

\* A client that keeps to WithinMatrix may name v.
MayName(v) == WithinMatrix => v < matrixSize
-----------------------------------------------------------------------------
(* addEdge and reportEdge: down the ttree to the first 0 or to the ltree.  *)

StartTraverse(c) ==
  \/ /\ Occupied(c.row) /\ Occupied(c.column)
     /\ Partition(1) > 0
     /\ Begin(c)
     /\ pc' = "traverse"
     /\ iteration' = 1
     /\ position' = CalculateOffset(c.row, c.column, 1)
     /\ UNCHANGED <<matrix, bookkeeping, frames, findings>>
  \/ /\ ~(Occupied(c.row) /\ Occupied(c.column) /\ Partition(1) > 0)
     /\ pc = "idle"
     /\ Throw(c)
     /\ UNCHANGED <<matrix, bookkeeping>>

AddEdge(row, column) == StartTraverse(EdgeCall("addEdge", row, column))

ReportEdge(row, column) == StartTraverse(EdgeCall("reportEdge", row, column))

TraverseOne ==
  /\ pc = "traverse" /\ Access(ttree, position)
  /\ IF Partition(iteration + 1) = 0
     THEN Throw(call)
     ELSE /\ iteration' = iteration + 1
          /\ position' = ChildBlock(position)
                         + CalculateOffset(call.row, call.column, iteration + 1)
          /\ UNCHANGED <<pc, call, frames, findings, reply>>
  /\ UNCHANGED <<matrix, bookkeeping>>

AtFirst0 == pc = "traverse" /\ position < Len(ttree) /\ ~Access(ttree, position)

AtLTree == pc = "traverse" /\ position >= Len(ttree)

ReportEdgeReturns ==
  /\ AtFirst0 \/ AtLTree
  /\ call.op = "reportEdge"
  /\ Finish([call |-> call,
             edge |-> AtLTree /\ Access(ltree, position - Len(ttree))])
  /\ UNCHANGED <<matrix, bookkeeping>>

AddEdgeInLTree ==
  /\ AtLTree
  /\ call.op = "addEdge"
  /\ ltree' = SetBit(ltree, position - Len(ttree), TRUE)
  /\ Finish([call |-> call])
  /\ UNCHANGED <<ttree, matrixSize, bookkeeping>>

AddEdgeAtFirst0 ==
  /\ AtFirst0
  /\ call.op = "addEdge"
  /\ ttree' = SetBit(ttree, position, TRUE)
  /\ iteration' = iteration + 1
  /\ pc' = "extend"
  /\ UNCHANGED <<ltree, matrixSize, bookkeeping, call, position, frames, findings, reply>>

ExtendTTree ==
  LET insertAt == ChildBlock(position)
      bit      == insertAt + CalculateOffset(call.row, call.column, iteration)
  IN  /\ pc = "extend" /\ Partition(iteration) > 1
      /\ ttree' = SetBit(InsertBlock(ttree, insertAt), bit, TRUE)
      /\ position' = bit
      /\ iteration' = iteration + 1
      /\ UNCHANGED <<ltree, matrixSize, bookkeeping, pc, call, frames, findings, reply>>

\* The block is inserted before calculateOffset can throw.
ExtendLTree ==
  LET insertAt == ChildBlock(position) - Len(ttree)
      bit      == insertAt + CalculateOffset(call.row, call.column, iteration)
  IN  /\ pc = "extend" /\ Partition(iteration) <= 1
      /\ IF Partition(iteration) = 0
         THEN ltree' = InsertBlock(ltree, insertAt) /\ Throw(call)
         ELSE /\ ltree' = SetBit(InsertBlock(ltree, insertAt), bit, TRUE)
              /\ Finish([call |-> call])
      /\ UNCHANGED <<ttree, matrixSize, bookkeeping>>
-----------------------------------------------------------------------------
(* The frames of the recursive functions.  rows and columns are the slices *)
(* of the VectorData; the level of a frame is its depth.                   *)

Frame(rs, cs, firstAt, offset) ==
  [rows |-> rs, columns |-> cs, firstAt |-> firstAt, offset |-> offset, only0s |-> TRUE]

level == Len(frames)
top == frames[level]
node == top.firstAt + top.offset

Popped == SubSeq(frames, 1, level - 1)

(***************************************************************************)
(* splitEntriesOnOffset: a slice starts at the first entry with a new      *)
(* offset and ends where the next slice starts.  The set holds the slice   *)
(* of the given offset, and is empty where entryStart stays -1.            *)
(***************************************************************************)
Slices(entries, offset) ==
  LET n          == Len(entries)
      off(i)     == OffsetOf(entries[i], level)
      starts(i)  == \A j \in 1..(i - 1) : off(j) # off(i)
      slice(s, e) == /\ s <= e /\ starts(s) /\ off(s) = offset
                     /\ \A i \in (s + 1)..e : ~starts(i)
                     /\ e = n \/ starts(e + 1)
  IN  {SubSeq(entries, r[1], r[2]) :
         r \in {x \in (1..n) \X (1..n) : slice(x[1], x[2])}}

RowSlices == Slices(top.rows, top.offset \div K)
ColumnSlices == Slices(top.columns, top.offset % K)

\* The cells of the ltree block of the top frame that its slices name.
LeafCells == {CalculateOffset(top.rows[i], top.columns[j], level) :
                i \in 1..Len(top.rows), j \in 1..Len(top.columns)}

LeafBlock == top.firstAt - Len(ttree)

\* The cells a row and a column of the slices meet in that hold an edge.
LeafEdges == {e \in Elements(top.rows) \X Elements(top.columns) :
                Access(ltree, LeafBlock + CalculateOffset(e[1], e[2], level))}
-----------------------------------------------------------------------------
(* removeEdge: deleteThisEdge descends, and prunes on the way back.        *)

RemoveEdge(row, column) ==
  LET c == EdgeCall("removeEdge", row, column)
  IN  /\ pc = "idle"
      /\ IF Partition(1) = 0
         THEN Throw(c)
         ELSE /\ Begin(c)
              /\ pc' = "remove"
              /\ frames' = <<Frame(<<row>>, <<column>>, 0,
                                  CalculateOffset(row, column, 1))>>
              /\ UNCHANGED <<iteration, position, findings>>
      /\ UNCHANGED <<matrix, bookkeeping>>

RemoveDescends ==
  /\ pc = "remove" /\ Access(ttree, node)
  /\ IF Partition(level + 1) = 0
     THEN Throw(call)
     ELSE /\ frames' = Append(frames,
                         Frame(top.rows, top.columns, ChildBlock(node),
                               CalculateOffset(call.row, call.column, level + 1)))
          /\ UNCHANGED <<pc, call, iteration, position, findings, reply>>
  /\ UNCHANGED <<matrix, bookkeeping>>

\* There is no such edge: every caller sees `true` and changes nothing.
RemoveStops ==
  /\ pc = "remove" /\ top.firstAt < Len(ttree) /\ ~Access(ttree, node)
  /\ Finish([call |-> call])
  /\ UNCHANGED <<matrix, bookkeeping>>

RemoveInLTree ==
  LET cleared == SetBit(ltree, LeafBlock + top.offset, FALSE)
  IN  /\ pc = "remove" /\ top.firstAt >= Len(ttree)
      /\ IF OnlyZeros(cleared, LeafBlock)
         THEN /\ ltree' = DeleteBlock(cleared, LeafBlock)
              /\ pc' = "prune"
              /\ frames' = Popped
              /\ UNCHANGED <<call, iteration, position, findings, reply>>
         ELSE ltree' = cleared /\ Finish([call |-> call])
      /\ UNCHANGED <<ttree, matrixSize, bookkeeping>>

\* Mutant: the root block is deleted like any other.
PruneRootToo ==
  LET cleared == SetBit(ttree, node, FALSE)
  IN  /\ pc = "prune"
      /\ IF OnlyZeros(cleared, top.firstAt)
         THEN /\ ttree' = DeleteBlock(cleared, top.firstAt)
              /\ IF level = 1 THEN Finish([call |-> call])
                 ELSE /\ frames' = Popped
                      /\ UNCHANGED <<pc, call, iteration, position, findings, reply>>
         ELSE ttree' = cleared /\ Finish([call |-> call])
      /\ UNCHANGED <<ltree, matrixSize, bookkeeping>>

\* deleteTTreeEdge after its child returned false.
Prune ==
  LET cleared == SetBit(ttree, node, FALSE)
  IN  /\ pc = "prune"
      /\ IF level > 1 /\ OnlyZeros(cleared, top.firstAt)
         THEN /\ ttree' = DeleteBlock(cleared, top.firstAt)
              /\ frames' = Popped
              /\ UNCHANGED <<pc, call, iteration, position, findings, reply>>
         ELSE ttree' = cleared /\ Finish([call |-> call])
      /\ UNCHANGED <<ltree, matrixSize, bookkeeping>>
-----------------------------------------------------------------------------
(* insertEntry, with increaseMatrixSize.                                   *)

\* Mutant: the new root block is inserted, but its first bit is not set.
GrowWithoutBit ==
  /\ matrixSize' = matrixSize * K
  /\ ttree' = IF Rank1(ttree, BLOCK_SIZE) > 0 THEN InsertBlock(ttree, 0) ELSE ttree
  /\ UNCHANGED ltree

\* Mutant: only the first row of partitions is looked at for a 1.
GrowByFirstRow ==
  /\ matrixSize' = matrixSize * K
  /\ ttree' = IF Rank1(ttree, K) > 0
              THEN SetBit(InsertBlock(ttree, 0), 0, TRUE)
              ELSE ttree
  /\ UNCHANGED ltree

\* Mutant: the size is changed only if there is a 1.
GrowIfAnyOne ==
  LET anyOne == Rank1(ttree, BLOCK_SIZE) > 0
  IN  /\ matrixSize' = IF anyOne THEN matrixSize * K ELSE matrixSize
      /\ ttree' = IF anyOne THEN SetBit(InsertBlock(ttree, 0), 0, TRUE) ELSE ttree
      /\ UNCHANGED ltree

IncreaseMatrixSize ==
  /\ matrixSize' = matrixSize * K
  /\ ttree' = IF Rank1(ttree, BLOCK_SIZE) > 0
              THEN SetBit(InsertBlock(ttree, 0), 0, TRUE)
              ELSE ttree
  /\ UNCHANGED ltree

InsertEntry ==
  /\ pc = "idle"
  /\ \/ /\ freeColumns # <<>>
        /\ freeColumns' = Tail(freeColumns)
        /\ Finish([call |-> [op |-> "insertEntry"], vertex |-> Head(freeColumns)])
        /\ UNCHANGED <<matrix, firstFreeColumn>>
     \/ /\ freeColumns = <<>>
        /\ firstFreeColumn < MaxVertices
        /\ IF firstFreeColumn > matrixSize
           THEN IncreaseMatrixSize
           ELSE UNCHANGED matrix
        /\ firstFreeColumn' = firstFreeColumn + 1
        /\ Finish([call |-> [op |-> "insertEntry"], vertex |-> firstFreeColumn])
        /\ UNCHANGED freeColumns
-----------------------------------------------------------------------------
(* deleteEntry: collect the other vertices, delete the edges of row a,     *)
(* then those of column a, then free the vertex.                           *)

\* Mutant: push_back without the sort.
PushBack(v, a) == {Append(v, a)}

\* sort() after the push_back of a on an ascending vector.
PushSorted(v, a) ==
  {[i \in 1..(Len(v) + 1) |-> IF i <= n THEN v[i] ELSE IF i = n + 1 THEN a ELSE v[i - 1]] :
     n \in {m \in 0..Len(v) : /\ \A i \in 1..m : v[i] < a
                              /\ \A i \in (m + 1)..Len(v) : a <= v[i]}}

FreeColumn(a) ==
  IF a = firstFreeColumn - 1
  THEN /\ firstFreeColumn' = firstFreeColumn - 1
       /\ UNCHANGED freeColumns
  ELSE /\ freeColumns' \in PushSorted(freeColumns, a)
       /\ UNCHANGED firstFreeColumn

\* Mutant: the vertex is freed before checkArgument refuses it.
DeleteEntryFreesFirst(a) ==
  LET c == [op |-> "deleteEntry", a |-> a]
  IN  \/ /\ Occupied(a)
         /\ Begin(c)
         /\ pc' = IF freeColumns = <<>> THEN "deleteRow" ELSE "collect"
         /\ iteration' = Len(freeColumns)
         /\ frames' = <<Frame(<<a>>, [i \in 1..firstFreeColumn |-> i - 1],
                              0, BLOCK_SIZE - 1)>>
         /\ UNCHANGED <<matrix, bookkeeping, position, findings>>
      \/ /\ ~Occupied(a)
         /\ pc = "idle"
         /\ Throw(c)
         /\ FreeColumn(a)
         /\ UNCHANGED matrix

DeleteEntry(a) ==
  LET c == [op |-> "deleteEntry", a |-> a]
  IN  \/ /\ Occupied(a)
         /\ Begin(c)
         /\ pc' = IF freeColumns = <<>> THEN "deleteRow" ELSE "collect"
         /\ iteration' = Len(freeColumns)
         /\ frames' = <<Frame(<<a>>, [i \in 1..firstFreeColumn |-> i - 1],
                              0, BLOCK_SIZE - 1)>>
         /\ UNCHANGED <<matrix, bookkeeping, position, findings>>
      \/ /\ ~Occupied(a)
         /\ pc = "idle"
         /\ Throw(c)
         /\ UNCHANGED <<matrix, bookkeeping>>

\* Mutant: the loop does not count down.
CollectForever ==
  /\ pc = "collect"
  /\ frames' = [frames EXCEPT ![1].columns = Erase(@, freeColumns[iteration], 1)]
  /\ UNCHANGED <<matrix, bookkeeping, pc, call, iteration, position, findings, reply>>

\* One iteration of the loop that erases the free columns from allOthers.
CollectOthers ==
  /\ pc = "collect"
  /\ frames' = [frames EXCEPT ![1].columns = Erase(@, freeColumns[iteration], 1)]
  /\ iteration' = iteration - 1
  /\ pc' = IF iteration = 1 THEN "deleteRow" ELSE "collect"
  /\ UNCHANGED <<matrix, bookkeeping, call, position, findings, reply>>

Deleting == pc \in {"deleteRow", "deleteColumn"}

\* Mutant: the column of the vertex is not cleared.
RowPassOnly == FreeColumn(call.a) /\ Finish([call |-> call])

\* The first activation of deleteEdges returns.
PassReturns ==
  IF pc = "deleteRow"
  THEN /\ pc' = "deleteColumn"
       /\ frames' = <<Frame(top.columns, top.rows, 0, BLOCK_SIZE - 1)>>
       /\ UNCHANGED <<bookkeeping, call, iteration, position, findings, reply>>
  ELSE FreeColumn(call.a) /\ Finish([call |-> call])

\* What the calling activation of deleteEdges does with stillHasEdges.
CallerContinues(stillHasEdges) ==
  /\ frames' = [Popped EXCEPT ![level - 1].offset = @ - 1,
                              ![level - 1].only0s = @ /\ ~stillHasEdges]
  /\ UNCHANGED <<bookkeeping, pc, call, iteration, position, findings, reply>>

CallerNode == frames[level - 1].firstAt + frames[level - 1].offset

NextOffset(only0s) ==
  /\ frames' = [frames EXCEPT ![level].offset = @ - 1, ![level].only0s = only0s]
  /\ UNCHANGED <<matrix, bookkeeping, pc, call, iteration, position, findings, reply>>

\* Mutant: the loop over the offsets runs once too often.
AtTTreeOffsetOnceMore == Deleting /\ Partition(level) > 1 /\ top.offset >= -1

AtTTreeOffset == Deleting /\ Partition(level) > 1 /\ top.offset >= 0

DeleteSkips ==
  /\ AtTTreeOffset /\ ~Access(ttree, node)
  /\ NextOffset(top.only0s)

\* Mutant: a 1 that no entry reaches is not counted.
DeleteOverlooks ==
  /\ AtTTreeOffset /\ Access(ttree, node)
  /\ RowSlices = {} \/ ColumnSlices = {}
  /\ NextOffset(top.only0s)

DeleteKeeps ==
  /\ AtTTreeOffset /\ Access(ttree, node)
  /\ RowSlices = {} \/ ColumnSlices = {}
  /\ NextOffset(FALSE)

\* Mutant: the rank that includes the position is taken for the one that does not.
DeleteDescendsExclusive ==
  /\ AtTTreeOffset /\ Access(ttree, node)
  /\ \E rs \in RowSlices, cs \in ColumnSlices :
        frames' = Append(frames, Frame(rs, cs, Rank1(ttree, node) * BLOCK_SIZE, BLOCK_SIZE - 1))
  /\ UNCHANGED <<matrix, bookkeeping, pc, call, iteration, position, findings, reply>>

DeleteDescends ==
  /\ AtTTreeOffset /\ Access(ttree, node)
  /\ \E rs \in RowSlices, cs \in ColumnSlices :
        frames' = Append(frames, Frame(rs, cs, ChildBlock(node), BLOCK_SIZE - 1))
  /\ UNCHANGED <<matrix, bookkeeping, pc, call, iteration, position, findings, reply>>

\* All offsets of a ttree block are done.
DeleteReturns ==
  /\ Deleting /\ Partition(level) > 1 /\ top.offset < 0
  /\ IF level = 1
     THEN PassReturns /\ UNCHANGED ttree
     ELSE /\ ttree' = IF top.only0s
                      THEN SetBit(DeleteBlock(ttree, top.firstAt), CallerNode, FALSE)
                      ELSE ttree
          /\ CallerContinues(~top.only0s)
  /\ UNCHANGED <<ltree, matrixSize>>

\* deleteEdgesFromLTree; calculateOffset throws if there is no partition left.
DeleteInLTree ==
  LET cleared == [i \in 1..Len(ltree) |->
                    ltree[i] /\ i - 1 - LeafBlock \notin LeafCells]
      only0s  == OnlyZeros(cleared, LeafBlock)
  IN  /\ Deleting /\ Partition(level) <= 1
      /\ IF Partition(level) = 0
         THEN Throw(call) /\ UNCHANGED <<ttree, ltree, bookkeeping>>
         ELSE /\ ltree' = IF only0s THEN DeleteBlock(cleared, LeafBlock) ELSE cleared
              /\ IF level = 1
                 THEN PassReturns /\ UNCHANGED ttree
                 ELSE /\ ttree' = IF only0s THEN SetBit(ttree, CallerNode, FALSE)
                                            ELSE ttree
                      /\ CallerContinues(~only0s)
      /\ UNCHANGED matrixSize
-----------------------------------------------------------------------------
(* reportAllEdges.                                                         *)

\* sortAndCheckVector: the elements in ascending order, without doubles; the
\* nth has n - 1 of them below it.
Sorted(S) ==
  LET nth(n) == CHOOSE a \in S : Cardinality({b \in S : b < a}) = n - 1
  IN  {v \in {[n \in 1..Cardinality(S) |-> nth(n)]} : Elements(v) = S}

Accepted(v) == v # <<>> /\ \A a \in Elements(v) : Occupied(a)

ReportAllEdges(A, B) ==
  LET c == [op |-> "reportAllEdges", A |-> A, B |-> B]
  IN  \/ /\ Accepted(A) /\ Accepted(B)
         /\ Begin(c)
         /\ pc' = "find"
         /\ \E rs \in Sorted(Elements(A)), cs \in Sorted(Elements(B)) :
               frames' = <<Frame(rs, cs, 0, 0)>>
         /\ UNCHANGED <<matrix, bookkeeping, iteration, position, findings>>
      \/ /\ ~(Accepted(A) /\ Accepted(B))
         /\ pc = "idle"
         /\ Throw(c)
         /\ UNCHANGED <<matrix, bookkeeping>>

FindAtTTree == pc = "find" /\ Partition(level) > 1

FindSkips ==
  /\ FindAtTTree /\ top.offset < BLOCK_SIZE
  /\ RowSlices = {} \/ ColumnSlices = {} \/ ~Access(ttree, node)
  /\ frames' = [frames EXCEPT ![level].offset = @ + 1]
  /\ UNCHANGED <<matrix, bookkeeping, pc, call, iteration, position, findings, reply>>

FindDescends ==
  /\ FindAtTTree /\ top.offset < BLOCK_SIZE /\ Access(ttree, node)
  /\ \E rs \in RowSlices, cs \in ColumnSlices :
        frames' = Append(frames, Frame(rs, cs, ChildBlock(node), 0))
  /\ UNCHANGED <<matrix, bookkeeping, pc, call, iteration, position, findings, reply>>

\* An activation of findAllEdges returns, with `found` pushed to the findings.
FindReturns(found) ==
  /\ IF level = 1
     THEN Finish([call |-> call, edges |-> findings \o found])
     ELSE /\ findings' = findings \o found
          /\ frames' = [Popped EXCEPT ![level - 1].offset = @ + 1]
          /\ UNCHANGED <<pc, call, iteration, position, reply>>
  /\ UNCHANGED <<matrix, bookkeeping>>

FindDone == FindAtTTree /\ top.offset = BLOCK_SIZE /\ FindReturns(<<>>)

\* The loop over the rows, with the loop over the columns inside it, comes to
\* the cell e before the cell f: rows and columns are ascending.
Before(e, f) == e[1] < f[1] \/ (e[1] = f[1] /\ e[2] < f[2])

\* The cells S in the order of the loops; the nth has n - 1 of them before it.
Listed(S) ==
  LET nth(n) == CHOOSE e \in S : Cardinality({f \in S : Before(f, e)}) = n - 1
  IN  {v \in {[n \in 1..Cardinality(S) |-> nth(n)]} :
         Elements(v) = S /\ \A i, j \in 1..Len(v) : i < j => Before(v[i], v[j])}

\* findEdgesInLTree.
FindInLTree ==
  /\ pc = "find" /\ Partition(level) <= 1
  /\ IF Partition(level) = 0
     THEN Throw(call) /\ UNCHANGED <<matrix, bookkeeping>>
     ELSE \E found \in Listed(LeafEdges) : FindReturns(found)
-----------------------------------------------------------------------------
(* The clients call one operation at a time.                               *)

Call == \/ InsertEntry
        \/ \E a \in Deletions : MayName(a) /\ DeleteEntry(a)
        \/ \E e \in Arcs : /\ MayName(e[1]) /\ MayName(e[2])
                           /\ \/ AddEdge(e[1], e[2])
                              \/ RemoveEdge(e[1], e[2])
                              \/ ReportEdge(e[1], e[2])
        \/ \E q \in Queries : /\ \A v \in Elements(q[1]) \cup Elements(q[2]) : MayName(v)
                              /\ ReportAllEdges(q[1], q[2])

Step == \/ TraverseOne \/ ReportEdgeReturns \/ AddEdgeInLTree
        \/ AddEdgeAtFirst0 \/ ExtendTTree \/ ExtendLTree
        \/ RemoveDescends \/ RemoveStops \/ RemoveInLTree \/ Prune
        \/ CollectOthers \/ DeleteSkips \/ DeleteKeeps \/ DeleteDescends
        \/ DeleteReturns \/ DeleteInLTree
        \/ FindSkips \/ FindDescends \/ FindDone \/ FindInLTree

Next == Call \/ Step

Spec == Init /\ [][Next]_vars
-----------------------------------------------------------------------------
(* Types.                                                                  *)

EdgeCalls == [op : {"addEdge", "removeEdge", "reportEdge"}, row : Nat, column : Nat]
DeleteCalls == [op : {"deleteEntry"}, a : Nat]
FindCalls == [op : {"reportAllEdges"}, A : Seq(Nat), B : Seq(Nat)]
InsertCalls == [op : {"insertEntry"}]
Calls == EdgeCalls \cup DeleteCalls \cup FindCalls \cup InsertCalls \cup {NoCall}

Replies == [call : Calls]
           \cup [call : Calls, throws : {"invalid_argument"}]
           \cup [call : Calls, edge : BOOLEAN]
           \cup [call : Calls, edges : Seq(Nat \X Nat)]
           \cup [call : Calls, vertex : Nat]

Frames == [rows : Seq(Nat), columns : Seq(Nat), firstAt : Nat,
           offset : Nat \cup {-1}, only0s : BOOLEAN]

(***************************************************************************)
(* The types of the variables, and which call is running in each state of  *)
(* the program.  Only the activation on top is past its last offset.       *)
(***************************************************************************)
TypeOK ==
  /\ ttree \in Seq(BOOLEAN) /\ ltree \in Seq(BOOLEAN)
  /\ freeColumns \in Seq(Nat)
  /\ firstFreeColumn \in Nat
  /\ matrixSize \in Nat
  /\ pc \in {"idle", "traverse", "extend", "remove", "prune",
            "collect", "deleteRow", "deleteColumn", "find"}
  /\ call \in Calls
  /\ pc \in {"traverse", "extend", "remove", "prune"} => call \in EdgeCalls
  /\ pc \in {"collect", "deleteRow", "deleteColumn"} => call \in DeleteCalls
  /\ iteration \in Nat
  /\ position \in Nat
  /\ frames \in Seq(Frames)
  /\ pc \notin {"idle", "traverse", "extend", "prune"} => frames # <<>>
  /\ \A i \in 1..(Len(frames) - 1) : frames[i].offset \in Nat
  /\ pc = "collect" => iteration \in 1..Len(freeColumns)
  /\ findings \in Seq(Nat \X Nat)
  /\ reply \in Replies
-----------------------------------------------------------------------------
(* Safety.                                                                 *)

(***************************************************************************)
(* freeColumns is strictly ascending (so sorted, without doubles) and      *)
(* below firstFreeColumn, which is at most one past the matrix: what the   *)
(* pop of insertEntry and the erase by index of deleteEntry rely on.       *)
(***************************************************************************)
ColumnsInOrder ==
  /\ \A i, j \in 1..Len(freeColumns) : i < j => freeColumns[i] < freeColumns[j]
  /\ \A i \in 1..Len(freeColumns) : freeColumns[i] < firstFreeColumn
  /\ firstFreeColumn <= matrixSize + 1

(***************************************************************************)
(* Every 1 of ttree has exactly one block of children, and the root block  *)
(* is the only other one; a call is between the setting of a bit and the   *)
(* insertion of its block, or between the deletion of a block and the      *)
(* clearing of its bit, only in the "extend" loop of addEdge and on the    *)
(* way back of removeEdge.                                                 *)
(***************************************************************************)
BlockPerOne ==
  Len(ttree) + Len(ltree) =
    BLOCK_SIZE * (1 + Rank1(ttree, Len(ttree)) - (IF pc \in {"extend", "prune"} THEN 1 ELSE 0))

\* p is the first position of a block of ttree followed by ltree.
IsBlock(p) == p % BLOCK_SIZE = 0 /\ p + BLOCK_SIZE <= Len(ttree) + Len(ltree)

(***************************************************************************)
(* Every position a step is about to use is inside the vectors: what       *)
(* findChild throws range_error for in a TTree with internal nodes, and    *)
(* what nothing checks in a TTree that is a single leaf.                   *)
(***************************************************************************)
PositionsInRange ==
  /\ Len(ttree) % BLOCK_SIZE = 0 /\ Len(ltree) % BLOCK_SIZE = 0
  /\ pc = "traverse" => position < Len(ttree) + Len(ltree)
  /\ pc = "extend" =>
       /\ Access(ttree, position)
       /\ IF Partition(iteration) > 1
          THEN ChildBlock(position) <= Len(ttree)
          ELSE ChildBlock(position) \in Len(ttree)..(Len(ttree) + Len(ltree))
  /\ pc \in {"remove", "prune", "deleteRow", "deleteColumn", "find"} =>
       \A i \in 1..level : IsBlock(frames[i].firstAt)
  /\ pc = "collect" => freeColumns[iteration] < Len(frames[1].columns)

(***************************************************************************)
(* The traversals tell ttree from ltree by the position they have reached, *)
(* addEdge, deleteEdges and findAllEdges by the size of the partitions:    *)
(* the two always agree.                                                   *)
(***************************************************************************)
LevelsAgree ==
  /\ pc = "traverse" => (position >= Len(ttree) <=> Partition(iteration) = 1)
  /\ pc \in {"remove", "deleteRow", "deleteColumn", "find"} =>
       (top.firstAt >= Len(ttree) <=> Partition(level) = 1)

(***************************************************************************)
(* The positions saved in the activations of deleteThisEdge, deleteEdges   *)
(* and findAllEdges are still current when a deeper activation has deleted *)
(* blocks: each frame's bit is 1 and the next frame is at its child block. *)
(***************************************************************************)
FramesCurrent ==
  pc \notin {"idle", "collect"} =>
    /\ \A i \in 1..(level - 1) :
         LET p == frames[i].firstAt + frames[i].offset
         IN  Access(ttree, p) /\ frames[i + 1].firstAt = ChildBlock(p)
    /\ pc = "prune" => Access(ttree, node)
=============================================================================
