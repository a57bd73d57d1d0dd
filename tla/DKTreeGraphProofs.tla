-------------------------- MODULE DKTreeGraphProofs --------------------------
(***************************************************************************)
(* DKTree implements the graph of AbstractGraph, for every k >= 2, every   *)
(* matrix above side k and every choice of calls that name vertices of the *)
(* matrix.                                                                 *)
(***************************************************************************)
EXTENDS DKTreePartitions
-----------------------------------------------------------------------------
(* Calls that throw.                                                       *)

\* A running call never gets to calculateOffset without a partition left: in the
\* middle of a call nothing throws.
LEMMA PartitionsLeft ==
  ASSUME Typed, SomeStructure
  PROVE  /\ pc = "traverse" /\ Access(ttree, position) => Partition(iteration + 1) # 0
         /\ pc = "extend" => Partition(iteration) # 0
         /\ pc = "remove" /\ Access(ttree, node) => Partition(level + 1) # 0
         /\ Deleting \/ pc = "find" => Partition(level) # 0
<1>1. PICK H, b : Structured(H, b)
  BY DEF SomeStructure
<1>2. LevelsAgree /\ Len(ttree) \in Nat
  BY StructureAgrees DEF Typed, TypeOK
<1>3. pc = "traverse" /\ Access(ttree, position) => Partition(iteration + 1) # 0
  <2> HAVE pc = "traverse" /\ Access(ttree, position)
  <2>1. iteration \in 1..H /\ matrixSize = LongPow[H] /\ H \in Nat
    BY <1>1, NothingOwed DEF Structured
  <2>2. ~(position >= Len(ttree))
    BY <1>2 DEF Access
  <2>3. iteration # H
    BY <1>2, <2>1, <2>2, PartitionSizes DEF LevelsAgree
  <2> QED  BY <2>1, <2>3, PartitionSizes
<1>4. pc = "extend" => Partition(iteration) # 0
  <2> HAVE pc = "extend"
  <2>1. iteration \in 2..H /\ matrixSize = LongPow[H] /\ H \in Nat
    BY <1>1, ExtendAt
  <2> QED  BY <2>1, PartitionSizes
<1>5. pc = "remove" /\ Access(ttree, node) => Partition(level + 1) # 0
  <2> HAVE pc = "remove" /\ Access(ttree, node)
  <2>1. /\ level \in 1..H /\ matrixSize = LongPow[H] /\ H \in Nat
        /\ top \in Frames /\ top.offset \in 0..(BLOCK_SIZE - 1)
    BY <1>1, RecursiveParts
  <2>2. ~(top.firstAt >= Len(ttree))
    <3>1. top.firstAt \in Nat /\ top.offset \in Nat
      BY <2>1 DEF Frames
    <3>2. top.firstAt + top.offset <= Len(ttree) - 1
      BY DEF Access, node
    <3> QED  BY <1>2, <3>1, <3>2
  <2>3. level # H
    BY <1>2, <2>1, <2>2, PartitionSizes DEF LevelsAgree
  <2> QED  BY <2>1, <2>3, PartitionSizes
<1>6. Deleting \/ pc = "find" => Partition(level) # 0
  <2> HAVE Deleting \/ pc = "find"
  <2>1. level \in 1..H /\ matrixSize = LongPow[H] /\ H \in Nat
    BY <1>1, RecursiveParts DEF Deleting
  <2> QED  BY <2>1, PartitionSizes
<1> QED
  BY <1>3, <1>4, <1>5, <1>6

\* A reply is there only until the next call begins.
Unanswered == pc # "idle" => reply = NoReply

\* A step that returns a result, or that goes on, does not throw.
LEMMA NoThrow ==
  ASSUME \/ \E c : Finish([call |-> c])
         \/ \E c, r : Finish([call |-> c, edge |-> r])
         \/ \E c, r : Finish([call |-> c, edges |-> r])
         \/ \E c, r : Finish([call |-> c, vertex |-> r])
         \/ reply' = NoReply
  PROVE  ~Throws
  BY DEF Finish, Throws, NoReply, NoCall

\* A step of a running call goes on, returns, or, without a partition left, throws.
LEMMA StepReplies ==
  ASSUME Typed, SomeStructure, Step
  PROVE  \/ reply' = reply
         \/ pc' = "idle" /\ ~Throws
<1>1. CASE TraverseOne
  BY <1>1, PartitionsLeft DEF TraverseOne
<1>2. CASE ReportEdgeReturns
  BY <1>2, NoThrow DEF ReportEdgeReturns, Finish
<1>3. CASE AddEdgeInLTree
  BY <1>3, NoThrow DEF AddEdgeInLTree, Finish
<1>4. CASE AddEdgeAtFirst0
  BY <1>4 DEF AddEdgeAtFirst0
<1>5. CASE ExtendTTree
  BY <1>5 DEF ExtendTTree
<1>6. CASE ExtendLTree
  <2>1. Finish([call |-> call])
    BY <1>6, PartitionsLeft DEF ExtendLTree
  <2> QED  BY <2>1, NoThrow DEF Finish
<1>7. CASE RemoveDescends
  BY <1>7, PartitionsLeft DEF RemoveDescends
<1>8. CASE RemoveStops
  BY <1>8, NoThrow DEF RemoveStops, Finish
<1>9. CASE RemoveInLTree
  BY <1>9, NoThrow DEF RemoveInLTree, Finish
<1>10. CASE Prune
  BY <1>10, NoThrow DEF Prune, Finish
<1>11. CASE CollectOthers
  BY <1>11 DEF CollectOthers
<1>12. CASE DeleteSkips \/ DeleteKeeps \/ DeleteDescends
  BY <1>12 DEF DeleteSkips, DeleteKeeps, DeleteDescends, NextOffset
<1>13. PassReturns => reply' = reply \/ Finish([call |-> call])
  BY DEF PassReturns
<1>14. CASE DeleteReturns
  <2>1. reply' = reply \/ Finish([call |-> call])
    BY <1>13, <1>14 DEF DeleteReturns, CallerContinues
  <2> QED  BY <2>1, NoThrow DEF Finish
<1>15. CASE DeleteInLTree
  <2>1. Partition(level) # 0
    BY <1>15, PartitionsLeft DEF DeleteInLTree
  <2>2. reply' = reply \/ Finish([call |-> call])
    BY <1>13, <1>15, <2>1 DEF DeleteInLTree, CallerContinues
  <2> QED  BY <2>2, NoThrow DEF Finish
<1>16. ASSUME NEW found, FindReturns(found)
       PROVE  reply' = reply \/ (pc' = "idle" /\ ~Throws)
  BY <1>16, NoThrow DEF FindReturns, Finish
<1>17. CASE FindSkips \/ FindDescends
  BY <1>17 DEF FindSkips, FindDescends
<1>18. CASE FindDone
  BY <1>16, <1>18 DEF FindDone
<1>19. CASE FindInLTree
  <2>1. \E found : FindReturns(found)
    BY <1>19, PartitionsLeft DEF FindInLTree
  <2> QED  BY <1>16, <2>1
<1> QED
  BY <1>1, <1>2, <1>3, <1>4, <1>5, <1>6, <1>7, <1>8, <1>9, <1>10, <1>11, <1>12, <1>14,
     <1>15, <1>17, <1>18, <1>19 DEF Step

\* Every call begins when no other is running, with no reply or with the refusal
\* of its arguments.
LEMMA CallReplies ==
  ASSUME Call
  PROVE  /\ pc = "idle"
         /\ \/ pc' # "idle" /\ reply' = NoReply
            \/ pc' = "idle" /\ ~Throws
            \/ pc' = "idle" /\ UNCHANGED <<matrix, bookkeeping>>
<1>1. CASE InsertEntry
  BY <1>1, NoThrow DEF InsertEntry, Finish
<1>2. ASSUME NEW a, DeleteEntry(a)
      PROVE  /\ pc = "idle"
             /\ \/ pc' # "idle" /\ reply' = NoReply
                \/ pc' = "idle" /\ UNCHANGED <<matrix, bookkeeping>>
  BY <1>2 DEF DeleteEntry, Begin, Throw, Finish
<1>3. ASSUME NEW c, StartTraverse(c)
      PROVE  /\ pc = "idle"
             /\ \/ pc' # "idle" /\ reply' = NoReply
                \/ pc' = "idle" /\ UNCHANGED <<matrix, bookkeeping>>
  BY <1>3 DEF StartTraverse, Begin, Throw, Finish
<1>4. ASSUME NEW row, NEW column, RemoveEdge(row, column)
      PROVE  /\ pc = "idle"
             /\ \/ pc' # "idle" /\ reply' = NoReply
                \/ pc' = "idle" /\ UNCHANGED <<matrix, bookkeeping>>
  BY <1>4 DEF RemoveEdge, Begin, Throw, Finish
<1>5. ASSUME NEW A, NEW B, ReportAllEdges(A, B)
      PROVE  /\ pc = "idle"
             /\ \/ pc' # "idle" /\ reply' = NoReply
                \/ pc' = "idle" /\ UNCHANGED <<matrix, bookkeeping>>
  BY <1>5 DEF ReportAllEdges, Begin, Throw, Finish
<1> QED
  BY <1>1, <1>2, <1>3, <1>4, <1>5 DEF Call, AddEdge, ReportEdge

\* A step of a running call finds one.
LEMMA StepRuns == Step => pc # "idle"
  BY DEF Step, TraverseOne, ReportEdgeReturns, AtFirst0, AtLTree, AddEdgeInLTree,
         AddEdgeAtFirst0, ExtendTTree, ExtendLTree, RemoveDescends, RemoveStops,
         RemoveInLTree, Prune, CollectOthers, DeleteSkips, DeleteKeeps, DeleteDescends,
         AtTTreeOffset, Deleting, DeleteReturns, DeleteInLTree, FindSkips, FindDescends,
         FindDone, FindAtTTree, FindInLTree

\* With the structure, Unanswered is inductive.
LEMMA NextUnanswered == Typed /\ SomeStructure /\ Unanswered /\ [Next]_vars => Unanswered'
<1> SUFFICES ASSUME Typed, SomeStructure, Unanswered, [Next]_vars PROVE Unanswered'
  OBVIOUS
<1>1. CASE Call
  BY <1>1, CallReplies DEF Unanswered
<1>2. CASE Step
  BY <1>2, StepReplies, StepRuns DEF Unanswered
<1>3. CASE UNCHANGED vars
  BY <1>3 DEF Unanswered, vars, locals
<1> QED
  BY <1>1, <1>2, <1>3 DEF Next

\* A call that throws does so in its first step, which changes nothing.
LEMMA ThrowsAtOnce ==
  ASSUME Typed, SomeStructure, Unanswered, Next, Throws
  PROVE  pc = "idle" /\ pc' = "idle" /\ UNCHANGED <<matrix, bookkeeping>>
<1>1. CASE Call
  BY <1>1, CallReplies, NoThrow
<1>2. CASE Step
  <2>1. reply' = NoReply
    BY <1>2, StepReplies, StepRuns DEF Unanswered
  <2> QED  BY <2>1, NoThrow
<1> QED
  BY <1>1, <1>2 DEF Next
-----------------------------------------------------------------------------
(* The history variable between calls.                                     *)

\* Decode depends on the vectors and the side of the matrix alone.
LEMMA DecodeUnchanged == UNCHANGED matrix => Decode' = Decode
<1> SUFFICES ASSUME UNCHANGED matrix PROVE Decode' = Decode
  OBVIOUS
<1>1. ttree' = ttree /\ ltree' = ltree /\ matrixSize' = matrixSize
  BY DEF matrix
<1> DEFINE HeightOf(s) == CHOOSE h \in 0..s : LongPow[h] = s
           Read(B, h) == {<<n.row, n.column>> : n \in (CHOOSE g : NodeLists(B, h, g))[h]}
<1>2. Decode = Read(ttree \o ltree, HeightOf(matrixSize))
  BY Zenon DEF Decode, Height, NodeLists, NodesBelow
<1>3. Decode' = Read(ttree' \o ltree', HeightOf(matrixSize'))
  BY Zenon DEF Decode, Height, NodeLists, NodesBelow
<1> HIDE DEF HeightOf, Read
<1> QED
  BY <1>1, <1>2, <1>3

\* Between calls graph is what the vectors hold.
GraphCurrent == pc = "idle" => graph = Decode

\* A new tree is a matrix without an edge.
LEMMA InitMapped ==
  ASSUME TallMatrices, Init
  PROVE  \E H \in Nat : /\ matrixSize = LongPow[H] /\ H >= 2
                        /\ Mapped(ttree \o ltree, 1, 1, H, [x \in 0..0 |-> Whole])
                        /\ Edges(ttree \o ltree, 1, H, [x \in 0..0 |-> Whole]) = {}
                        /\ Len(ttree) = At(1)
<1>1. PICK H, b : Structured(H, b)
  BY InitStructured
<1>2. matrixSize = LongPow[H] /\ H \in Nat /\ H >= 2
  BY <1>1 DEF Structured, Levels
<1>3. ttree = [i \in 1..BLOCK_SIZE |-> FALSE] /\ ltree = <<>>
  BY DEF Init
<1>4. ttree \in Seq(BOOLEAN) /\ Len(ttree) = BLOCK_SIZE
  <2>1. ttree \in [1..BLOCK_SIZE -> BOOLEAN]
    BY <1>3
  <2> QED  BY <2>1, BlockSize, FunctionIsSeq
<1>5. ttree \o ltree = ttree
  BY <1>3, <1>4
<1>6. \A o \in Offsets : ~Access(ttree, o)
  <2> SUFFICES ASSUME NEW o \in Offsets, o \in 0..(Len(ttree) - 1) PROVE ~ttree[o + 1]
    BY DEF Access
  <2>1. o + 1 \in 1..BLOCK_SIZE
    BY <1>4, BlockSize
  <2> QED  BY <1>3, <2>1
<1>7. At(1) = BLOCK_SIZE
  BY BlockSize DEF At
<1>8. Mapped(ttree, 1, 1, H, [x \in 0..0 |-> Whole])
      /\ Edges(ttree, 1, H, [x \in 0..0 |-> Whole]) = {}
  BY <1>2, <1>4, <1>6, RootMapped
<1> QED
  BY <1>2, <1>4, <1>5, <1>7, <1>8

\* GSpec is Spec with a history variable.
LEMMA HistoryOnly == GSpec => Spec
<1>1. GInit => Init
  BY DEF GInit
<1>2. [GNext]_gvars => [Next]_vars
  BY DEF GNext, gvars
<1> QED
  BY <1>1, <1>2, PTL DEF GSpec, Spec

\* GraphCurrent is an invariant: every step that ends a call decodes the vectors.
LEMMA AlwaysCurrent ==
  ASSUME TallMatrices
  PROVE  GSpec => []GraphCurrent
<1>1. GInit /\ DecodesEdges => GraphCurrent
  <2> SUFFICES ASSUME GInit, DecodesEdges PROVE GraphCurrent
    OBVIOUS
  <2>1. Init /\ graph = {}
    BY DEF GInit
  <2>2. PICK H \in Nat : /\ matrixSize = LongPow[H]
                         /\ Mapped(ttree \o ltree, 1, 1, H, [x \in 0..0 |-> Whole])
                         /\ Edges(ttree \o ltree, 1, H, [x \in 0..0 |-> Whole]) = {}
    BY <2>1, InitMapped
  <2>3. Decode = {}
    BY <2>2 DEF DecodesEdges
  <2> QED  BY <2>1, <2>3 DEF GraphCurrent
<1>2. GraphCurrent /\ [GNext]_gvars => GraphCurrent'
  <2> SUFFICES ASSUME GraphCurrent, [GNext]_gvars, pc' = "idle" PROVE graph' = Decode'
    BY DEF GraphCurrent
  <2>1. CASE GNext
    BY <2>1 DEF GNext
  <2>2. CASE UNCHANGED gvars
    <3>1. UNCHANGED matrix /\ graph' = graph /\ pc' = pc
      BY <2>2 DEF gvars, vars, locals
    <3>2. Decode' = Decode
      BY <3>1, DecodeUnchanged
    <3> QED  BY <3>1, <3>2 DEF GraphCurrent
  <2> QED  BY <2>1, <2>2
<1> QED
  BY <1>1, <1>2, DecodeIsEdges, PTL DEF GSpec

\* A call that throws, whatever it is and whenever it comes, has changed neither the
\* vectors nor the vertices, and so no edge: in the middle of a call, where the
\* vectors are half changed, nothing throws.
THEOREM FailedCallsLeaveTheGraph ==
  ASSUME TallMatrices
  PROVE  GSpec => FailedCallsChangeNothing
<1>1. Init => Unanswered
  BY DEF Init, Idle, Unanswered
<1>2. Spec => []Unanswered
  BY <1>1, NextUnanswered, AlwaysTyped, AlwaysStructured, PTL DEF Spec
<1>3. Typed /\ SomeStructure /\ Unanswered /\ GraphCurrent /\ GraphCurrent' /\ [GNext]_gvars
        => [Throws => UNCHANGED <<matrix, bookkeeping, graph>>]_gvars
  <2> SUFFICES ASSUME Typed, SomeStructure, Unanswered, GraphCurrent, GraphCurrent', GNext, Throws
               PROVE  UNCHANGED <<matrix, bookkeeping, graph>>
    OBVIOUS
  <2>1. pc = "idle" /\ pc' = "idle" /\ UNCHANGED <<matrix, bookkeeping>>
    BY ThrowsAtOnce DEF GNext
  <2>2. Decode' = Decode
    BY <2>1, DecodeUnchanged
  <2>3. graph' = graph
    BY <2>1, <2>2 DEF GraphCurrent
  <2> QED  BY <2>1, <2>3
<1> QED
  BY <1>2, <1>3, HistoryOnly, AlwaysCurrent, AlwaysTyped, AlwaysStructured, PTL
     DEF GSpec, FailedCallsChangeNothing
-----------------------------------------------------------------------------
(* The running call.                                                       *)

\* The calls of this section name vertices of the matrix, and those that withSize
\* makes and deleteEntry names are below the bound.
Clients == /\ WithinMatrix = TRUE
           /\ Deletions \subseteq 0..(MaxVertices - 1)
           /\ Sizes \subseteq 0..MaxVertices

\* The pair of vertices that addEdge, reportEdge or removeEdge was called with.
Arc == <<call.row, call.column>>

\* What a client has asked for, and the checks of the first step found.
EdgeAsked ==
  /\ Arc \in Arcs /\ Arc \in Cells
  /\ call = EdgeCall(call.op, call.row, call.column)
  /\ call.row < matrixSize /\ call.column < matrixSize

EntryAsked ==
  /\ call = [op |-> "deleteEntry", a |-> call.a]
  /\ call.a \in Deletions /\ call.a \in live /\ call.a < matrixSize

QueryAsked ==
  /\ call = [op |-> "reportAllEdges", A |-> call.A, B |-> call.B]
  /\ <<call.A, call.B>> \in Queries
  /\ Accepted(call.A) /\ Accepted(call.B)
  /\ \A v \in Elements(call.A) \cup Elements(call.B) : v < matrixSize

Asked ==
  /\ pc \in {"traverse", "extend", "remove", "prune"} => EdgeAsked
  /\ pc \in {"traverse", "extend"} => call.row \in live /\ call.column \in live
  /\ pc = "traverse" => call.op \in {"addEdge", "reportEdge"}
  /\ pc = "extend" => call.op = "addEdge"
  /\ pc \in {"remove", "prune"} => call.op = "removeEdge"
  /\ pc \in {"collect", "deleteRow", "deleteColumn"} => EntryAsked
  /\ pc = "find" => QueryAsked

\* checkArgument accepts the vertices that are in use.
LEMMA OccupiedIsLive ==
  ASSUME Typed, NEW a \in Nat
  PROVE  Occupied(a) <=> a \in live
BY DEF Occupied, live, Typed, TypeOK

\* What a client may name is in the matrix.
LEMMA NamesInMatrix == Clients => \A v : MayName(v) => v < matrixSize
BY DEF Clients, MayName

\* A running call that goes on keeps its arguments, and its vertices.
LEMMA StepGoesOn ==
  ASSUME Step, pc' # "idle"
  PROVE  /\ UNCHANGED <<call, freeColumns, firstFreeColumn, matrixSize>>
         /\ \/ pc' = pc
            \/ pc = "traverse" /\ pc' = "extend" /\ call.op = "addEdge"
            \/ pc = "remove" /\ pc' = "prune"
            \/ pc = "collect" /\ pc' = "deleteRow"
            \/ pc = "deleteRow" /\ pc' = "deleteColumn"
<1>1. CASE TraverseOne
  BY <1>1 DEF TraverseOne, Throw, Finish, matrix, bookkeeping
<1>2. CASE ReportEdgeReturns
  BY <1>2 DEF ReportEdgeReturns, Finish
<1>3. CASE AddEdgeInLTree
  BY <1>3 DEF AddEdgeInLTree, Finish
<1>4. CASE AddEdgeAtFirst0
  BY <1>4 DEF AddEdgeAtFirst0, AtFirst0, bookkeeping
<1>5. CASE ExtendTTree
  BY <1>5 DEF ExtendTTree, bookkeeping
<1>6. CASE ExtendLTree
  BY <1>6 DEF ExtendLTree, Throw, Finish
<1>7. CASE RemoveDescends
  BY <1>7 DEF RemoveDescends, Throw, Finish, matrix, bookkeeping
<1>8. CASE RemoveStops
  BY <1>8 DEF RemoveStops, Finish
<1>9. CASE RemoveInLTree
  BY <1>9 DEF RemoveInLTree, Finish, bookkeeping
<1>10. CASE Prune
  BY <1>10 DEF Prune, Finish, bookkeeping
<1>11. CASE CollectOthers
  BY <1>11 DEF CollectOthers, matrix, bookkeeping
<1>12. CASE DeleteSkips
  BY <1>12 DEF DeleteSkips, NextOffset, matrix, bookkeeping
<1>13. CASE DeleteKeeps
  BY <1>13 DEF DeleteKeeps, NextOffset, matrix, bookkeeping
<1>14. CASE DeleteDescends
  BY <1>14 DEF DeleteDescends, matrix, bookkeeping
<1>15. CASE DeleteReturns
  BY <1>15 DEF DeleteReturns, PassReturns, CallerContinues, Finish, matrix, bookkeeping
<1>16. CASE DeleteInLTree
  BY <1>16 DEF DeleteInLTree, PassReturns, CallerContinues, Finish, Throw, matrix, bookkeeping
<1>17. CASE FindSkips
  BY <1>17 DEF FindSkips, matrix, bookkeeping
<1>18. CASE FindDescends
  BY <1>18 DEF FindDescends, matrix, bookkeeping
<1>19. CASE FindDone
  BY <1>19 DEF FindDone, FindReturns, Finish, matrix, bookkeeping
<1>20. CASE FindInLTree
  BY <1>20 DEF FindInLTree, FindReturns, Finish, Throw, matrix, bookkeeping
<1> QED
  BY ONLY Step, <1>1, <1>2, <1>3, <1>4, <1>5, <1>6, <1>7, <1>8, <1>9, <1>10, <1>11, <1>12,
     <1>13, <1>14, <1>15, <1>16, <1>17, <1>18, <1>19, <1>20 DEF Step

\* Asked stays while a call runs.
LEMMA StepAsked ==
  ASSUME Asked, Step
  PROVE  Asked'
<1>1. CASE pc' = "idle"
  BY <1>1 DEF Asked
<1>2. CASE pc' # "idle"
  <2>1. /\ UNCHANGED <<call, freeColumns, firstFreeColumn, matrixSize>>
        /\ \/ pc' = pc
           \/ pc = "traverse" /\ pc' = "extend" /\ call.op = "addEdge"
           \/ pc = "remove" /\ pc' = "prune"
           \/ pc = "collect" /\ pc' = "deleteRow"
           \/ pc = "deleteRow" /\ pc' = "deleteColumn"
    BY <1>2, StepGoesOn
  <2>2. /\ EdgeAsked' <=> EdgeAsked
        /\ EntryAsked' <=> EntryAsked
        /\ QueryAsked' <=> QueryAsked
        /\ live' = live
    <3>1. live' = live
      BY <2>1 DEF live
    <3>2. \A v : Accepted(v)' <=> Accepted(v)
      BY <2>1 DEF Accepted, Occupied
    <3>3. EdgeAsked' <=> EdgeAsked
      BY <2>1 DEF EdgeAsked, Arc
    <3>4. EntryAsked' <=> EntryAsked
      BY <2>1, <3>1 DEF EntryAsked
    <3>5. QueryAsked' <=> QueryAsked
      BY <2>1, <3>2 DEF QueryAsked
    <3> QED  BY <3>1, <3>3, <3>4, <3>5
  <2> QED  BY ONLY Asked, <1>2, <2>1, <2>2 DEF Asked
<1> QED  BY <1>1, <1>2

\* addEdge and reportEdge begin with vertices that are in use.
LEMMA StartAsked ==
  ASSUME Clients, Typed, NEW e \in Arcs, MayName(e[1]), MayName(e[2]),
         NEW op \in {"addEdge", "reportEdge"}, StartTraverse(EdgeCall(op, e[1], e[2]))
  PROVE  Asked'
<1>1. e \in Cells /\ e = <<e[1], e[2]>> /\ e[1] \in Nat /\ e[2] \in Nat
  BY BoundsAssumption DEF Cells
<1>2. e[1] < matrixSize /\ e[2] < matrixSize
  BY NamesInMatrix
<1>3. CASE pc' = "idle"
  BY <1>3 DEF Asked
<1>4. CASE pc' # "idle"
  <2>1. /\ Occupied(e[1]) /\ Occupied(e[2]) /\ pc' = "traverse"
        /\ call' = EdgeCall(op, e[1], e[2]) /\ UNCHANGED <<matrix, bookkeeping>>
    BY <1>4 DEF StartTraverse, Throw, Finish, Begin, EdgeCall
  <2>2. e[1] \in live /\ e[2] \in live /\ live' = live
    BY <1>1, <2>1, OccupiedIsLive DEF live, bookkeeping
  <2>3. /\ call'.op = op /\ call'.row = e[1] /\ call'.column = e[2]
        /\ call' = EdgeCall(call'.op, call'.row, call'.column)
    BY <2>1 DEF EdgeCall
  <2>4. EdgeAsked'
    BY <1>1, <1>2, <2>1, <2>3 DEF EdgeAsked, Arc, matrix
  <2> QED  BY <2>1, <2>2, <2>3, <2>4 DEF Asked
<1> QED  BY <1>3, <1>4

\* Every call begins with what its client has asked for.
LEMMA CallAsked ==
  ASSUME Clients, Typed, Call
  PROVE  Asked'
<1>1. CASE InsertEntry
  BY <1>1 DEF InsertEntry, Finish, Asked
<1>2. ASSUME NEW a \in Deletions, MayName(a), DeleteEntry(a)
      PROVE  Asked'
  <2>1. a \in Nat /\ a < matrixSize
    BY <1>2, NamesInMatrix, BoundsAssumption
  <2>2. CASE pc' = "idle"
    BY <2>2 DEF Asked
  <2>3. CASE pc' # "idle"
    <3>1. /\ Occupied(a) /\ pc' \in {"collect", "deleteRow"}
          /\ call' = [op |-> "deleteEntry", a |-> a] /\ UNCHANGED <<matrix, bookkeeping>>
      BY <1>2, <2>3 DEF DeleteEntry, Throw, Finish, Begin
    <3>2. a \in live /\ live' = live /\ matrixSize' = matrixSize
      BY <2>1, <3>1, OccupiedIsLive DEF live, bookkeeping, matrix
    <3>3. EntryAsked'
      BY <1>2, <2>1, <3>1, <3>2 DEF EntryAsked
    <3> QED  BY <3>1, <3>3 DEF Asked
  <2> QED  BY <2>2, <2>3
<1>3. ASSUME NEW e \in Arcs, MayName(e[1]), MayName(e[2]), RemoveEdge(e[1], e[2])
      PROVE  Asked'
  <2>1. e \in Cells /\ e = <<e[1], e[2]>> /\ e[1] \in Nat /\ e[2] \in Nat
    BY BoundsAssumption DEF Cells
  <2>2. e[1] < matrixSize /\ e[2] < matrixSize
    BY <1>3, NamesInMatrix
  <2>3. CASE pc' = "idle"
    BY <2>3 DEF Asked
  <2>4. CASE pc' # "idle"
    <3>1. /\ pc' = "remove" /\ call' = EdgeCall("removeEdge", e[1], e[2])
          /\ UNCHANGED <<matrix, bookkeeping>>
      BY <1>3, <2>4 DEF RemoveEdge, Throw, Finish, Begin
    <3>2. /\ call'.op = "removeEdge" /\ call'.row = e[1] /\ call'.column = e[2]
          /\ call' = EdgeCall(call'.op, call'.row, call'.column)
      BY <3>1 DEF EdgeCall
    <3>3. EdgeAsked'
      BY <2>1, <2>2, <3>1, <3>2 DEF EdgeAsked, Arc, matrix
    <3> QED  BY <3>1, <3>2, <3>3 DEF Asked
  <2> QED  BY <2>3, <2>4
<1>4. ASSUME NEW q \in Queries, \A v \in Elements(q[1]) \cup Elements(q[2]) : MayName(v),
             ReportAllEdges(q[1], q[2])
      PROVE  Asked'
  <2>1. q = <<q[1], q[2]>>
    BY BoundsAssumption
  <2>2. \A v \in Elements(q[1]) \cup Elements(q[2]) : v < matrixSize
    BY <1>4, NamesInMatrix
  <2>3. CASE pc' = "idle"
    BY <2>3 DEF Asked
  <2>4. CASE pc' # "idle"
    <3>1. /\ pc' = "find" /\ call' = [op |-> "reportAllEdges", A |-> q[1], B |-> q[2]]
          /\ Accepted(q[1]) /\ Accepted(q[2]) /\ UNCHANGED <<matrix, bookkeeping>>
      BY <1>4, <2>4 DEF ReportAllEdges, Throw, Finish, Begin
    <3>2. call'.A = q[1] /\ call'.B = q[2] /\ matrixSize' = matrixSize
      BY <3>1 DEF matrix
    <3>3. \A v : Accepted(v)' <=> Accepted(v)
      BY <3>1 DEF Accepted, Occupied, bookkeeping
    <3>4. QueryAsked'
      BY <2>1, <2>2, <3>1, <3>2, <3>3 DEF QueryAsked
    <3> QED  BY <3>1, <3>4 DEF Asked
  <2> QED  BY <2>3, <2>4
<1>5. ASSUME NEW e \in Arcs, MayName(e[1]), MayName(e[2]),
             AddEdge(e[1], e[2]) \/ ReportEdge(e[1], e[2])
      PROVE  Asked'
  BY <1>5, StartAsked DEF AddEdge, ReportEdge
<1> QED
  BY ONLY Call, <1>1, <1>2, <1>3, <1>4, <1>5 DEF Call

\* What is asked for stays while the call runs.
LEMMA NextAsked == Clients /\ Typed /\ Asked /\ [Next]_vars => Asked'
<1> SUFFICES ASSUME Clients, Typed, Asked, [Next]_vars PROVE Asked'
  OBVIOUS
<1>1. CASE Call
  BY <1>1, CallAsked
<1>2. CASE Step
  BY <1>2, StepAsked
<1>3. CASE UNCHANGED vars
  <2>1. UNCHANGED <<pc, call, freeColumns, firstFreeColumn, matrixSize>>
    BY <1>3 DEF vars, locals, bookkeeping, matrix
  <2>2. live' = live
    BY <2>1 DEF live
  <2>3. \A v : Accepted(v)' <=> Accepted(v)
    BY <2>1 DEF Accepted, Occupied
  <2>4. EdgeAsked' <=> EdgeAsked
    BY <2>1 DEF EdgeAsked, Arc
  <2>5. EntryAsked' <=> EntryAsked
    BY <2>1, <2>2 DEF EntryAsked
  <2>6. QueryAsked' <=> QueryAsked
    BY <2>1, <2>3 DEF QueryAsked
  <2> QED  BY ONLY Asked, <2>1, <2>2, <2>4, <2>5, <2>6 DEF Asked
<1> QED  BY <1>1, <1>2, <1>3 DEF Next
-----------------------------------------------------------------------------
(* What the vectors hold while a call runs.                                *)

\* The vectors t and l, of a matrix of this size, hold the edges S.
Holds(size, t, l, m, N, H, part, S) ==
  /\ size = LongPow[H]
  /\ Vectors(t, l, m, N, H, part)
  /\ Edges(t \o l, N, H, part) = S

\* Between calls they hold the graph.
IdleHolds ==
  pc = "idle" =>
    \E m, N, H, part : Holds(matrixSize, ttree, ltree, m, N, H, part, graph)

\* On the way down addEdge and reportEdge are at the bit for their edge.
TraverseHolds ==
  pc = "traverse" =>
    \E m, N, H, part : /\ Holds(matrixSize, ttree, ltree, m, N, H, part, graph)
                       /\ Reach(N, part, H, Arc, iteration, position)

\* In its loop addEdge has set the bit for its edge, but not added its block.
ExtendHolds ==
  pc = "extend" =>
    \E t, m, N, H, part : /\ Holds(matrixSize, t, ltree, m, N, H, part, graph)
                          /\ Reach(N, part, H, Arc, iteration - 1, position)
                          /\ ~Access(t, position) /\ ttree = SetBit(t, position, TRUE)

\* The activations of removeEdge are at the bits for its edge.
AtArc(H) == \A i \in 1..level : frames[i].offset = Off(H, Arc, i)

RemoveHolds ==
  pc = "remove" =>
    \E m, N, H, part : Holds(matrixSize, ttree, ltree, m, N, H, part, graph) /\ AtArc(H)

\* On its way back the edge is gone, but the bit for the last deleted block is not cleared.
PruneHolds ==
  pc = "prune" =>
    \E t, m, N, H, part : /\ Holds(matrixSize, t, ltree, m, N, H, part, graph \ {Arc})
                          /\ AtArc(H)
                          /\ ~Access(t, node) /\ ttree = SetBit(t, node, TRUE)

\* The call is over, and the vectors hold S.
Ends(S) ==
  pc' = "idle" /\ \E m, N, H, part : Holds(matrixSize', ttree', ltree', m, N, H, part, S)

\* The history variable keeps the graph while the call goes on.
GraphKept == pc' # "idle" => graph' = graph

\* Then S is the new graph.
LEMMA EndsIdle ==
  ASSUME DecodesEdges', graph' = (IF pc' = "idle" THEN Decode' ELSE graph), NEW S, Ends(S)
  PROVE  IdleHolds' /\ graph' = S
<1>1. PICK m, N, H, part : Holds(matrixSize', ttree', ltree', m, N, H, part, S)
  BY DEF Ends
<1>2. pc' = "idle" /\ graph' = Decode'
  BY DEF Ends
<1>3. /\ matrixSize' = LongPow[H] /\ Mapped(ttree' \o ltree', m, N, H, part)
      /\ Edges(ttree' \o ltree', N, H, part) = S
  BY <1>1 DEF Holds, Vectors
<1>4. Decode' = Edges(ttree' \o ltree', N, H, part)
  BY ONLY DecodesEdges', <1>3 DEF DecodesEdges
<1>5. graph' = S
  BY ONLY <1>2, <1>3, <1>4
<1> QED  BY ONLY <1>1, <1>5 DEF IdleHolds

\* The levels and the partitions are of the same matrix.
LEMMA SameHeight ==
  ASSUME SomeStructure, NEW t, NEW l, NEW m, NEW N, NEW H, NEW part, NEW S,
         Holds(matrixSize, t, l, m, N, H, part, S)
  PROVE  /\ \E b : Structured(H, b)
         /\ H \in Nat /\ H >= 2 /\ matrixSize = LongPow[H] /\ Vectors(t, l, m, N, H, part)
         /\ Edges(t \o l, N, H, part) = S
<1>1. /\ H \in Nat /\ H >= 2 /\ matrixSize = LongPow[H] /\ Vectors(t, l, m, N, H, part)
      /\ Edges(t \o l, N, H, part) = S
  BY VectorsParts DEF Holds
<1>2. PICK G, b : Structured(G, b)
  BY DEF SomeStructure
<1>3. matrixSize = LongPow[G] /\ G \in Nat
  BY <1>2 DEF Structured, Levels
<1>4. Height = G
  BY ONLY <1>3, HeightOfMatrix
<1>5. Height = H
  BY ONLY <1>1, HeightOfMatrix
<1> QED  BY <1>1, <1>2, <1>4, <1>5

\* The edge of a call in the matrix, and the offsets of the code.
LEMMA ArcInMatrix ==
  ASSUME EdgeAsked, NEW H \in Nat, matrixSize = LongPow[H]
  PROVE  /\ Arc \in Cells /\ Arc[1] < LongPow[H] /\ Arc[2] < LongPow[H]
         /\ \A i \in 1..H : /\ Off(H, Arc, i) = CalculateOffset(call.row, call.column, i)
                            /\ Off(H, Arc, i) \in 0..(BLOCK_SIZE - 1)
<1>1. Arc \in Cells /\ Arc[1] = call.row /\ Arc[2] = call.column
  BY DEF EdgeAsked, Arc
<1>2. ASSUME NEW i \in 1..H
      PROVE  /\ Off(H, Arc, i) = CalculateOffset(call.row, call.column, i)
             /\ Off(H, Arc, i) \in 0..(BLOCK_SIZE - 1)
  <2>1. \A e : Off(H, e, i) = CalculateOffset(e[1], e[2], i)
    BY ONLY H \in Nat, matrixSize = LongPow[H], i \in 1..H, WidthOfCode
  <2>2. Off(H, Arc, i) \in Offsets
    BY ONLY H \in Nat, i \in 1..H, <1>1, CutStep
  <2>3. Off(H, Arc, i) = CalculateOffset(Arc[1], Arc[2], i)
    BY <2>1
  <2> QED  BY <1>1, <2>2, <2>3 DEF Offsets
<1> QED  BY <1>1, <1>2 DEF EdgeAsked
-----------------------------------------------------------------------------
(* addEdge and reportEdge.                                                 *)

\* They begin in the root block.
LEMMA StartTraverseHolds ==
  ASSUME SomeStructure, IdleHolds, Asked', NEW c, StartTraverse(c), pc' # "idle", UNCHANGED graph
  PROVE  TraverseHolds'
<1>1. /\ pc = "idle" /\ pc' = "traverse" /\ iteration' = 1 /\ call' = c
      /\ position' = CalculateOffset(c.row, c.column, 1) /\ UNCHANGED matrix
  BY DEF StartTraverse, Throw, Finish, Begin
<1>2. matrixSize' = matrixSize /\ ttree' = ttree /\ ltree' = ltree
  BY <1>1 DEF matrix
<1>3. PICK m, N, H, part : Holds(matrixSize, ttree, ltree, m, N, H, part, graph)
  BY <1>1 DEF IdleHolds
<1>4. /\ H \in Nat /\ H >= 2 /\ matrixSize = LongPow[H] /\ Vectors(ttree, ltree, m, N, H, part)
  BY <1>3, SameHeight
<1>5. EdgeAsked'
  BY <1>1 DEF Asked
<1>6. Arc' \in Cells /\ Arc'[1] = c.row /\ Arc'[2] = c.column
      /\ c.row < LongPow[H] /\ c.column < LongPow[H]
  BY <1>1, <1>2, <1>4, <1>5 DEF EdgeAsked, Arc
<1>7. position' = Off(H, Arc', 1)
  <2>1. 1 \in 1..H
    BY <1>4
  <2>2. \A e : Off(H, e, 1) = CalculateOffset(e[1], e[2], 1)
    BY ONLY <1>4, <2>1, WidthOfCode
  <2>3. Off(H, Arc', 1) = CalculateOffset(Arc'[1], Arc'[2], 1)
    BY ONLY <2>2
  <2> QED  BY <1>1, <1>6, <2>3
<1>8. PICK e \in Cells : e = Arc'
  BY <1>6
<1>9. Reach(N, part, H, e, 1, Off(H, e, 1))
  BY ONLY <1>4, <1>6, <1>8, ReachStart
<1>10. Holds(matrixSize', ttree', ltree', m, N, H, part, graph')
  BY <1>2, <1>3
<1>11. Reach(N, part, H, Arc', iteration', position')
  BY <1>1, <1>7, <1>8, <1>9
<1> QED  BY ONLY <1>10, <1>11 DEF TraverseHolds

\* They go down one level.
LEMMA TraverseOneHolds ==
  ASSUME Typed, SomeStructure, Asked, TraverseHolds, TraverseOne, UNCHANGED graph
  PROVE  TraverseHolds'
<1>1. pc = "traverse" /\ Access(ttree, position) /\ Partition(iteration + 1) # 0
  BY PartitionsLeft DEF TraverseOne
<1>2. /\ iteration' = iteration + 1 /\ call' = call
      /\ position' = ChildBlock(position)
                     + CalculateOffset(call.row, call.column, iteration + 1)
      /\ matrixSize' = matrixSize /\ ttree' = ttree /\ ltree' = ltree
  BY <1>1 DEF TraverseOne, matrix
<1>3. PICK m, N, H, part : /\ Holds(matrixSize, ttree, ltree, m, N, H, part, graph)
                           /\ Reach(N, part, H, Arc, iteration, position)
  BY <1>1 DEF TraverseHolds
<1>4. /\ H \in Nat /\ H >= 2 /\ matrixSize = LongPow[H] /\ Vectors(ttree, ltree, m, N, H, part)
  BY <1>3, SameHeight
<1>5. iteration \in 1..H
  <2>1. PICK b : Structured(H, b)
    BY <1>3, SameHeight
  <2> QED  BY <1>1, <2>1 DEF Structured
<1>6. EdgeAsked
  BY <1>1 DEF Asked
<1>7. Arc \in Cells
  BY <1>6 DEF EdgeAsked
<1>8. /\ iteration + 1 \in 1..H
      /\ Reach(N, part, H, Arc, iteration + 1,
               Rank1(ttree, position + 1) * BLOCK_SIZE + Off(H, Arc, iteration + 1))
  BY ONLY <1>1, <1>3, <1>4, <1>5, <1>7, ReachDown
<1>9. Off(H, Arc, iteration + 1) = CalculateOffset(call.row, call.column, iteration + 1)
  BY ONLY <1>4, <1>6, <1>8, ArcInMatrix
<1>10. position' = Rank1(ttree, position + 1) * BLOCK_SIZE + Off(H, Arc, iteration + 1)
  BY <1>2, <1>9 DEF ChildBlock
<1>11. Arc' = Arc
  BY <1>2 DEF Arc
<1>12. Holds(matrixSize', ttree', ltree', m, N, H, part, graph')
  BY <1>2, <1>3
<1>13. Reach(N, part, H, Arc', iteration', position')
  BY ONLY <1>2, <1>8, <1>10, <1>11
<1> QED  BY ONLY <1>12, <1>13 DEF TraverseHolds

\* What holds on the way down.
LEMMA Traversing ==
  ASSUME Typed, SomeStructure, Asked, TraverseHolds, pc = "traverse"
  PROVE  \E m, N, H, part :
           /\ Holds(matrixSize, ttree, ltree, m, N, H, part, graph)
           /\ Vectors(ttree, ltree, m, N, H, part) /\ Edges(ttree \o ltree, N, H, part) = graph
           /\ matrixSize = LongPow[H]
           /\ iteration \in 1..H /\ Arc \in Cells
           /\ Reach(N, part, H, Arc, iteration, position)
<1>1. PICK m, N, H, part : /\ Holds(matrixSize, ttree, ltree, m, N, H, part, graph)
                           /\ Reach(N, part, H, Arc, iteration, position)
  BY DEF TraverseHolds
<1>2. PICK b : Structured(H, b)
  BY <1>1, SameHeight
<1>3. iteration \in 1..H
  BY <1>2 DEF Structured
<1>4. Arc \in Cells
  BY DEF Asked, EdgeAsked
<1>5. /\ matrixSize = LongPow[H] /\ Vectors(ttree, ltree, m, N, H, part)
      /\ Edges(ttree \o ltree, N, H, part) = graph
  BY <1>1 DEF Holds
<1> QED  BY ONLY <1>1, <1>3, <1>4, <1>5

\* addEdge sets the first 0 it meets.
LEMMA AddEdgeAtFirst0Holds ==
  ASSUME Typed, SomeStructure, Asked, TraverseHolds, AddEdgeAtFirst0, UNCHANGED graph
  PROVE  ExtendHolds'
<1>1. /\ pc = "traverse" /\ ~Access(ttree, position) /\ iteration \in Nat
      /\ ttree' = SetBit(ttree, position, TRUE) /\ iteration' = iteration + 1
      /\ ltree' = ltree /\ matrixSize' = matrixSize /\ call' = call /\ position' = position
  BY DEF AddEdgeAtFirst0, AtFirst0, Typed, TypeOK
<1>2. PICK m, N, H, part : /\ Holds(matrixSize, ttree, ltree, m, N, H, part, graph)
                           /\ Reach(N, part, H, Arc, iteration, position)
  BY <1>1 DEF TraverseHolds
<1>3. Arc' = Arc /\ iteration' - 1 = iteration
  BY <1>1 DEF Arc
<1>4. /\ Holds(matrixSize', ttree, ltree', m, N, H, part, graph')
      /\ Reach(N, part, H, Arc', iteration' - 1, position')
      /\ ~Access(ttree, position') /\ ttree' = SetBit(ttree, position', TRUE)
  BY <1>1, <1>2, <1>3
<1> QED  BY ONLY <1>4 DEF ExtendHolds

\* reportEdge returns whether its edge is in the graph.
LEMMA ReportEdgeReturnsHolds ==
  ASSUME Typed, SomeStructure, Asked, TraverseHolds, ReportEdgeReturns
  PROVE  Ends(graph) /\ reply' = [call |-> call, edge |-> Arc \in graph]
<1>1. /\ pc = "traverse" /\ pc' = "idle"
      /\ matrixSize' = matrixSize /\ ttree' = ttree /\ ltree' = ltree
      /\ AtFirst0 \/ AtLTree
      /\ reply' = [call |-> call, edge |-> AtLTree /\ Access(ltree, position - Len(ttree))]
  BY DEF ReportEdgeReturns, Finish, AtFirst0, AtLTree, matrix
<1>2. PICK m, N, H, part :
           /\ Holds(matrixSize, ttree, ltree, m, N, H, part, graph)
           /\ Vectors(ttree, ltree, m, N, H, part) /\ Edges(ttree \o ltree, N, H, part) = graph
           /\ matrixSize = LongPow[H]
           /\ iteration \in 1..H /\ Arc \in Cells
           /\ Reach(N, part, H, Arc, iteration, position)
  BY <1>1, Traversing
<1>3. Len(ttree) \in Nat /\ position \in Nat
  BY DEF Typed, TypeOK
<1>4. (AtLTree /\ Access(ltree, position - Len(ttree))) <=> Arc \in graph
  <2>1. CASE AtFirst0
    <3>1. position < Len(ttree) /\ ~Access(ttree, position) /\ ~AtLTree
      BY <1>3, <2>1 DEF AtFirst0, AtLTree
    <3>2. Arc \notin graph
      BY ONLY <1>2, <3>1, ReachZero
    <3> QED  BY <3>1, <3>2
  <2>2. CASE AtLTree
    <3>1. position >= Len(ttree)
      BY <2>2 DEF AtLTree
    <3>2. PICK x : AtCell(ttree, ltree, m, N, H, part, x, Arc) /\ position = At(x) + Off(H, Arc, H)
      BY ONLY <1>2, <3>1, ReachLeaf
    <3>3. Arc \in Edges(ttree \o ltree, N, H, part)
            <=> Access(ltree, (At(x) + Off(H, Arc, H)) - Len(ttree))
      BY ONLY <3>2, CellBit
    <3> QED  BY ONLY <1>2, <2>2, <3>2, <3>3
  <2> QED  BY <1>1, <2>1, <2>2
<1>5. reply' = [call |-> call, edge |-> Arc \in graph]
  <2>1. (AtLTree /\ Access(ltree, position - Len(ttree))) = (Arc \in graph)
    BY ONLY <1>4
  <2> QED  BY ONLY <1>1, <2>1
<1>6. Holds(matrixSize', ttree', ltree', m, N, H, part, graph)
  BY <1>1, <1>2
<1> QED  BY ONLY <1>1, <1>5, <1>6 DEF Ends

\* addEdge sets the bit of its edge on the last level.
LEMMA AddEdgeInLTreeHolds ==
  ASSUME Typed, SomeStructure, Asked, TraverseHolds, AddEdgeInLTree
  PROVE  Ends(graph \cup {Arc}) /\ reply' = [call |-> call]
<1>1. /\ pc = "traverse" /\ pc' = "idle" /\ position >= Len(ttree)
      /\ ltree' = SetBit(ltree, position - Len(ttree), TRUE)
      /\ matrixSize' = matrixSize /\ ttree' = ttree /\ reply' = [call |-> call]
  BY DEF AddEdgeInLTree, Finish, AtLTree
<1>2. PICK m, N, H, part :
           /\ Holds(matrixSize, ttree, ltree, m, N, H, part, graph)
           /\ Vectors(ttree, ltree, m, N, H, part) /\ Edges(ttree \o ltree, N, H, part) = graph
           /\ matrixSize = LongPow[H]
           /\ iteration \in 1..H /\ Arc \in Cells
           /\ Reach(N, part, H, Arc, iteration, position)
  BY <1>1, Traversing
<1>3. PICK x : AtCell(ttree, ltree, m, N, H, part, x, Arc) /\ position = At(x) + Off(H, Arc, H)
  BY ONLY <1>1, <1>2, ReachLeaf
<1>4. PICK e : e = Arc
  OBVIOUS
<1>5. AtCell(ttree, ltree, m, N, H, part, x, e)
  BY ONLY <1>3, <1>4
<1>6. ltree' = SetBit(ltree, (At(x) + Off(H, e, H)) - Len(ttree), TRUE)
  BY ONLY <1>1, <1>3, <1>4
<1>7. PICK v : v = ltree'
  OBVIOUS
<1>8. Marks(ttree, ltree, m, N, H, part, x, e, v)
  BY ONLY <1>5, <1>6, <1>7 DEF Marks
<1>9. /\ Vectors(ttree, v, m, N, H, part)
      /\ Edges(ttree \o v, N, H, part) = Edges(ttree \o ltree, N, H, part) \cup {e}
  BY ONLY <1>8, LeafMarked
<1>10. Holds(matrixSize', ttree', ltree', m, N, H, part, graph \cup {Arc})
  BY ONLY <1>1, <1>2, <1>4, <1>7, <1>9 DEF Holds
<1> QED  BY ONLY <1>1, <1>10 DEF Ends

\* In its loop addEdge is at block x, whose bit at offset o it has set; the block for
\* it goes before block n.
Growing(t, m, N, H, part, x, o, n) ==
  /\ Sets(t, ltree, m, N, H, part, x, o, ttree, n)
  /\ ChildBlock(position) = At(n)
  /\ matrixSize = LongPow[H] /\ H \in Nat /\ iteration \in 2..H
  /\ Edges(t \o ltree, N, H, part) = graph
  /\ Arc \in Cells /\ part[x] = Cut(H, Arc, iteration - 2) /\ o = Off(H, Arc, iteration - 1)
  /\ part[x].level = iteration - 2
  /\ iteration < H => n <= m
  /\ iteration = H => n >= m

\* Where it is.
LEMMA Extending ==
  ASSUME Typed, SomeStructure, Asked, ExtendHolds, pc = "extend"
  PROVE  \E t, m, N, H, part, x, o, n : Growing(t, m, N, H, part, x, o, n)
<1>1. PICK t, m, N, H, part :
        /\ Holds(matrixSize, t, ltree, m, N, H, part, graph)
        /\ Reach(N, part, H, Arc, iteration - 1, position)
        /\ ~Access(t, position) /\ ttree = SetBit(t, position, TRUE)
  BY DEF ExtendHolds
<1>2. /\ H \in Nat /\ H >= 2 /\ matrixSize = LongPow[H] /\ Vectors(t, ltree, m, N, H, part)
      /\ Edges(t \o ltree, N, H, part) = graph /\ \E b : Structured(H, b)
  BY <1>1, SameHeight
<1>3. PICK b : Structured(H, b)
  BY <1>2
<1> DEFINE n == Rank1(ttree, position + 1)
<1>4. /\ b \in [0..H -> Nat] /\ iteration \in 2..H
      /\ Levels(ttree, Len(ltree), H, b, iteration - 1)
      /\ n \in b[iteration - 1]..b[iteration]
      /\ ChildBlock(position) = At(n)
  BY <1>3, ExtendAt
<1>5. OnLevel(b, iteration - 1, position)
  BY <1>3 DEF Structured
<1> HIDE DEF n
<1>6. Arc \in Cells
  BY DEF Asked, EdgeAsked
<1>7. PICK x \in 0..(N - 1), o \in Offsets :
        /\ part[x] = Cut(H, Arc, (iteration - 1) - 1) /\ o = Off(H, Arc, iteration - 1)
        /\ position = At(x) + o /\ position \in Nat
        /\ x >= m <=> iteration - 1 = H
        /\ x \in Nat
  <2>1. iteration - 1 \in 1..H
    BY ONLY <1>2, <1>4
  <2> QED  BY ONLY <1>1, <1>2, <1>6, <2>1, ReachBlock
<1>8. /\ m \in Nat /\ N \in Nat /\ m <= N /\ Len(t) = At(m) /\ Len(t) + Len(ltree) = At(N)
      /\ t \in Seq(BOOLEAN) /\ Len(t) \in Nat /\ Len(ltree) \in Nat
  BY ONLY <1>2, VectorsParts
<1>9. Len(ttree) = Len(t)
  <2>1. Len(SetBit(t, position, TRUE)) = Len(t)
    BY ONLY <1>8 DEF SetBit
  <2> QED  BY ONLY <1>1, <2>1
<1>10. Len(ttree) = At(b[H - 1]) /\ Len(ttree) + Len(ltree) = At(b[H]) /\ Numbers(b, H)
  <2>1. PICK owed : owed = iteration - 1
    OBVIOUS
  <2>2. owed \in Nat /\ Levels(ttree, Len(ltree), H, b, owed)
    BY ONLY <1>4, <2>1
  <2> QED  BY ONLY <2>2, LevelsParts
<1>11. /\ b[H - 1] \in Nat /\ b[H] \in Nat /\ b[iteration - 1] \in Nat /\ b[iteration] \in Nat
       /\ b[iteration] <= b[H] /\ (iteration < H => b[iteration] <= b[H - 1])
  <2>1. H - 1 \in 0..H /\ H \in 0..H /\ iteration - 1 \in 0..H /\ iteration \in 0..H
    BY ONLY <1>2, <1>4
  <2>2. iteration <= H /\ (iteration < H => iteration <= H - 1)
    BY ONLY <1>2, <1>4
  <2> QED  BY ONLY <1>4, <1>10, <2>1, <2>2 DEF Numbers
<1>12. m = b[H - 1] /\ N = b[H]
  <2>1. At(m) = At(b[H - 1]) /\ At(N) = At(b[H])
    BY ONLY <1>8, <1>9, <1>10
  <2> QED  BY ONLY <1>8, <1>11, <2>1, AtSame
<1>13. x < b[iteration - 1]
  <2>1. At(x) + o < At(b[iteration - 1]) /\ o \in Nat
    BY <1>5, <1>7, BlockSize DEF OnLevel, Offsets
  <2>2. At(x) \in Nat /\ At(b[iteration - 1]) \in Nat
    BY ONLY <1>7, <1>11, AtOrder
  <2>3. At(x) < At(b[iteration - 1])
    BY ONLY <2>1, <2>2
  <2> QED  BY ONLY <1>7, <1>11, <2>2, <2>3, AtOrder
<1>14. n \in Nat /\ x < n /\ n <= N
  BY ONLY <1>4, <1>7, <1>11, <1>12, <1>13
<1>15. /\ iteration < H => n <= m
       /\ iteration = H => n >= m
  <2>1. iteration = H => iteration - 1 = H - 1
    OBVIOUS
  <2> QED  BY ONLY <1>4, <1>11, <1>12, <1>14, <2>1
<1>16. x \in 0..(m - 1)
  <2>1. ~(x >= m)
    BY ONLY <1>2, <1>4, <1>7
  <2> QED  BY ONLY <1>7, <1>8, <2>1
<1>17. part[x] = Cut(H, Arc, iteration - 2) /\ part[x].level = iteration - 2
  <2>1. (iteration - 1) - 1 = iteration - 2
    BY ONLY <1>4
  <2>2. part[x] = Cut(H, Arc, iteration - 2)
    BY ONLY <1>7, <2>1
  <2> QED  BY ONLY <2>2 DEF Cut, Part
<1>18. n = Rank1(ttree, At(x) + o + 1)
  BY <1>7 DEF n
<1>19. Sets(t, ltree, m, N, H, part, x, o, ttree, n)
  BY ONLY <1>1, <1>2, <1>7, <1>14, <1>16, <1>18 DEF Sets
<1>20. Growing(t, m, N, H, part, x, o, n)
  BY ONLY <1>2, <1>4, <1>6, <1>7, <1>15, <1>17, <1>19 DEF Growing
<1> QED  BY <1>20

\* What its block holds, before the loop sets the next bit or ends.
LEMMA GrowingParts ==
  ASSUME Asked, pc = "extend",
         NEW t, NEW m, NEW N, NEW H, NEW part, NEW x, NEW o, NEW n,
         Growing(t, m, N, H, part, x, o, n), NEW q, q[n] = Sub(part[x], o)
  PROVE  /\ q[n] = Cut(H, Arc, iteration - 1)
         /\ Off(H, Arc, iteration) = CalculateOffset(call.row, call.column, iteration)
         /\ Off(H, Arc, iteration) \in Offsets
<1>1. /\ matrixSize = LongPow[H] /\ H \in Nat /\ iteration \in 2..H /\ Arc \in Cells
      /\ part[x] = Cut(H, Arc, iteration - 2) /\ o = Off(H, Arc, iteration - 1)
  BY DEF Growing
<1>2. q[n] = Cut(H, Arc, iteration - 1)
  <2>1. iteration - 1 \in 1..H /\ (iteration - 1) - 1 = iteration - 2
    BY ONLY <1>1
  <2>2. Cut(H, Arc, iteration - 1)
          = Sub(Cut(H, Arc, (iteration - 1) - 1), Off(H, Arc, iteration - 1))
    BY ONLY <1>1, <2>1, CutStep
  <2> QED  BY <1>1, <2>1, <2>2
<1>3. iteration \in 1..H /\ EdgeAsked
  BY <1>1 DEF Asked
<1>4. /\ Off(H, Arc, iteration) = CalculateOffset(call.row, call.column, iteration)
      /\ Off(H, Arc, iteration) \in 0..(BLOCK_SIZE - 1)
  BY ONLY <1>1, <1>3, ArcInMatrix
<1> QED  BY ONLY <1>2, <1>4 DEF Offsets

\* addEdge inserts the next block in ttree, and sets the bit for its edge.
LEMMA ExtendTTreeHolds ==
  ASSUME Typed, SomeStructure, Asked, ExtendHolds, ExtendTTree, UNCHANGED graph
  PROVE  ExtendHolds'
<1>1. /\ pc = "extend" /\ Partition(iteration) > 1 /\ iteration' = iteration + 1
      /\ matrixSize' = matrixSize /\ ltree' = ltree /\ call' = call
  BY DEF ExtendTTree
<1>2. PICK t, m, N, H, part, x, o, n : Growing(t, m, N, H, part, x, o, n)
  BY <1>1, Extending
<1>3. /\ Sets(t, ltree, m, N, H, part, x, o, ttree, n) /\ ChildBlock(position) = At(n)
      /\ matrixSize = LongPow[H] /\ H \in Nat /\ iteration \in 2..H
      /\ Edges(t \o ltree, N, H, part) = graph /\ Arc \in Cells
      /\ part[x].level = iteration - 2 /\ (iteration < H => n <= m)
  BY ONLY <1>2 DEF Growing
<1>4. iteration < H /\ iteration \in Nat
  <2>1. iteration \in Nat
    BY ONLY <1>3
  <2> QED  BY ONLY <1>1, <1>3, <2>1, PartitionSizes
<1>5. part[x].level < H - 2 /\ n <= m
  BY ONLY <1>3, <1>4
<1> DEFINE w == InsertBlock(ttree, At(n))
           e == Arc
           bit == At(n) + Off(H, e, iteration)
<1>6. PICK q : /\ Vectors(w, ltree, m + 1, N + 1, H, q)
               /\ Edges(w \o ltree, N + 1, H, q) = Edges(t \o ltree, N, H, part)
               /\ q[n] = Sub(part[x], o)
               /\ \A y \in Offsets : ~Access(w, At(n) + y)
  BY ONLY <1>3, <1>5, TreeGrows
<1>7. /\ q[n] = Cut(H, e, iteration - 1)
      /\ Off(H, e, iteration) = CalculateOffset(call.row, call.column, iteration)
      /\ Off(H, e, iteration) \in Offsets
  BY ONLY Asked, <1>1, <1>2, <1>6, GrowingParts
<1>8. position' = bit /\ ttree' = SetBit(w, bit, TRUE)
  <2>1. /\ position' = ChildBlock(position) + CalculateOffset(call.row, call.column, iteration)
        /\ ttree' = SetBit(InsertBlock(ttree, ChildBlock(position)),
                           ChildBlock(position)
                             + CalculateOffset(call.row, call.column, iteration), TRUE)
    BY DEF ExtendTTree
  <2> QED  BY <1>3, <1>7, <2>1
<1>9. n \in 0..((N + 1) - 1) /\ n \in Nat
  <2>1. N \in Nat /\ n \in 1..N
    BY ONLY <1>3, SetsParts
  <2> QED  BY ONLY <2>1
<1> HIDE DEF w
<1>10. Reach(N + 1, q, H, e, iteration, bit)
  BY ONLY <1>7, <1>9 DEF Reach
<1>11. ~Access(w, bit)
  BY ONLY <1>6, <1>7
<1> HIDE DEF bit
<1>12. Holds(matrixSize', w, ltree', m + 1, N + 1, H, q, graph')
  BY ONLY <1>1, <1>3, <1>6, graph' = graph DEF Holds
<1>13. Arc' = e /\ iteration' - 1 = iteration
  BY <1>1, <1>4 DEF Arc
<1>14. /\ Reach(N + 1, q, H, Arc', iteration' - 1, position')
       /\ ~Access(w, position') /\ ttree' = SetBit(w, position', TRUE)
  BY ONLY <1>8, <1>10, <1>11, <1>13
<1>15. \E v, i, j, h, r : /\ Holds(matrixSize', v, ltree', i, j, h, r, graph')
                          /\ Reach(j, r, h, Arc', iteration' - 1, position')
                          /\ ~Access(v, position') /\ ttree' = SetBit(v, position', TRUE)
  BY ONLY <1>12, <1>14
<1> QED  BY ONLY <1>15 DEF ExtendHolds

\* addEdge inserts the last block in ltree, and sets the bit of its edge.
LEMMA ExtendLTreeHolds ==
  ASSUME Typed, SomeStructure, Asked, ExtendHolds, ExtendLTree
  PROVE  Ends(graph \cup {Arc}) /\ reply' = [call |-> call]
<1>1. /\ pc = "extend" /\ Partition(iteration) <= 1 /\ Partition(iteration) # 0
      /\ matrixSize' = matrixSize /\ ttree' = ttree
      /\ pc' = "idle" /\ reply' = [call |-> call]
  <2>1. pc = "extend" /\ Partition(iteration) # 0
    BY PartitionsLeft DEF ExtendLTree
  <2> QED  BY <2>1 DEF ExtendLTree, Finish
<1>2. PICK t, m, N, H, part, x, o, n : Growing(t, m, N, H, part, x, o, n)
  BY <1>1, Extending
<1>3. /\ Sets(t, ltree, m, N, H, part, x, o, ttree, n) /\ ChildBlock(position) = At(n)
      /\ matrixSize = LongPow[H] /\ H \in Nat /\ iteration \in 2..H
      /\ Edges(t \o ltree, N, H, part) = graph /\ Arc \in Cells
      /\ part[x].level = iteration - 2 /\ (iteration = H => n >= m)
  BY ONLY <1>2 DEF Growing
<1>4. iteration = H
  <2>1. iteration \in Nat
    BY ONLY <1>3
  <2>2. Partition(iteration) \in Nat
    BY ONLY <1>3, <2>1, PartitionSizes
  <2>3. Partition(iteration) = 1
    BY ONLY <1>1, <2>2
  <2> QED  BY ONLY <1>3, <2>1, <2>3, PartitionSizes
<1>5. part[x].level = H - 2 /\ n >= m
  BY ONLY <1>3, <1>4
<1> DEFINE l == InsertBlock(ltree, At(n) - Len(t))
           e == Arc
<1>6. PICK q : /\ Vectors(ttree, l, m, N + 1, H, q)
               /\ Edges(ttree \o l, N + 1, H, q) = Edges(t \o ltree, N, H, part)
               /\ q[n] = Sub(part[x], o)
  BY ONLY <1>3, <1>5, LeafGrows
<1>7. /\ q[n] = Cut(H, e, H - 1)
      /\ Off(H, e, H) = CalculateOffset(call.row, call.column, iteration)
      /\ Off(H, e, H) \in Offsets
  <2>1. /\ q[n] = Cut(H, Arc, iteration - 1)
        /\ Off(H, Arc, iteration) = CalculateOffset(call.row, call.column, iteration)
        /\ Off(H, Arc, iteration) \in Offsets
    BY ONLY Asked, <1>1, <1>2, <1>6, GrowingParts
  <2> QED  BY ONLY <1>4, <2>1
<1>8. n \in 0..((N + 1) - 1) /\ n \in Nat /\ Len(ttree) = Len(t) /\ Len(t) \in Nat
  <2>1. N \in Nat /\ n \in 1..N /\ Len(ttree) = Len(t) /\ Len(t) \in Nat
    BY ONLY <1>3, SetsParts
  <2> QED  BY ONLY <2>1
<1>9. ltree' = SetBit(l, (At(n) + Off(H, e, H)) - Len(ttree), TRUE)
  <2>1. ltree' = SetBit(InsertBlock(ltree, ChildBlock(position) - Len(ttree)),
                        (ChildBlock(position) - Len(ttree))
                          + CalculateOffset(call.row, call.column, iteration), TRUE)
    BY <1>1 DEF ExtendLTree
  <2>2. ltree' = SetBit(l, (At(n) - Len(ttree)) + Off(H, e, H), TRUE)
    BY <1>3, <1>7, <1>8, <2>1
  <2>3. At(n) \in Nat /\ Off(H, e, H) \in Nat
    BY <1>7, <1>8, AtOrder, BlockSize DEF Offsets
  <2>4. (At(n) - Len(ttree)) + Off(H, e, H) = (At(n) + Off(H, e, H)) - Len(ttree)
    BY ONLY <1>8, <2>3
  <2> QED  BY ONLY <2>2, <2>4
<1> HIDE DEF l
<1>10. PICK f : f = e
  OBVIOUS
<1>11. AtCell(ttree, l, m, N + 1, H, q, n, f)
  BY ONLY <1>3, <1>6, <1>7, <1>8, <1>10 DEF AtCell
<1>12. PICK v : v = ltree'
  OBVIOUS
<1>13. Marks(ttree, l, m, N + 1, H, q, n, f, v)
  BY ONLY <1>9, <1>10, <1>11, <1>12 DEF Marks
<1>14. /\ Vectors(ttree, v, m, N + 1, H, q)
       /\ Edges(ttree \o v, N + 1, H, q) = Edges(ttree \o l, N + 1, H, q) \cup {f}
  BY ONLY <1>13, LeafMarked
<1>15. Holds(matrixSize', ttree', ltree', m, N + 1, H, q, graph \cup {Arc})
  BY ONLY <1>1, <1>3, <1>6, <1>10, <1>12, <1>14 DEF Holds
<1> QED  BY ONLY <1>1, <1>15 DEF Ends
-----------------------------------------------------------------------------
(* The activations of a running call.                                      *)

\* What they are on, in vectors that hold S.
Active(m, N, H, part, S) ==
  /\ H \in Nat /\ H >= 2 /\ matrixSize = LongPow[H] /\ N \in Nat /\ m \in Nat
  /\ Vectors(ttree, ltree, m, N, H, part) /\ Edges(ttree \o ltree, N, H, part) = S
  /\ part \in [0..(N - 1) -> Parts] /\ Along(N, part, frames)
  /\ Len(frames) \in Nat /\ Len(frames) <= H /\ Len(frames) >= 1
  /\ level = Len(frames) /\ top = frames[level]
  /\ frames \in Seq(Frames) /\ frames # <<>> /\ top \in Frames

\* Each activation is on a block of its level.
LEMMA Activations ==
  ASSUME Typed, SomeStructure, pc \in {"remove", "deleteRow", "deleteColumn", "find"},
         NEW m, NEW N, NEW H, NEW part, NEW S,
         Holds(matrixSize, ttree, ltree, m, N, H, part, S)
  PROVE  Active(m, N, H, part, S)
<1>1. /\ H \in Nat /\ H >= 2 /\ matrixSize = LongPow[H]
      /\ Vectors(ttree, ltree, m, N, H, part) /\ Edges(ttree \o ltree, N, H, part) = S
      /\ \E b : Structured(H, b)
  BY SameHeight
<1>2. PICK b : Structured(H, b)
  BY <1>1
<1>3. /\ Levels(ttree, Len(ltree), H, b, H) /\ ttree \in Seq(BOOLEAN)
      /\ frames \in Seq(Frames) /\ frames # <<>> /\ level = Len(frames)
      /\ top = frames[level] /\ top \in Frames /\ OnPath(ttree, H, b, frames)
  BY <1>2, RecursiveParts
<1>4. PICK owed : owed = H
  OBVIOUS
<1>5. owed \in Nat \ {0} /\ Levels(ttree, Len(ltree), H, b, owed)
  BY ONLY <1>1, <1>3, <1>4
<1>6. /\ Along(N, part, frames) /\ part \in [0..(N - 1) -> Parts]
      /\ Len(frames) \in 1..H /\ Len(frames) \in Nat
  BY ONLY <1>1, <1>3, <1>5, PathAlong
<1>7. N \in Nat /\ m \in Nat
  BY ONLY <1>1, VectorsParts
<1>8. Len(frames) <= H /\ Len(frames) >= 1
  BY ONLY <1>1, <1>6
<1> QED  BY ONLY <1>1, <1>3, <1>6, <1>7, <1>8 DEF Active

\* The block of the activation on top.
LEMMA ActiveTop ==
  ASSUME NEW m, NEW N, NEW H, NEW part, NEW S, Active(m, N, H, part, S)
  PROVE  \E x \in 0..(N - 1) :
           /\ top.firstAt = At(x) /\ PartAt(part, top.firstAt) = part[x]
           /\ part[x].level = level - 1 /\ x \in Nat /\ At(x) \in Nat
           /\ x >= m <=> level = H
           /\ top.firstAt >= Len(ttree) <=> level = H
           /\ Len(ttree) \in Nat
<1>1. /\ Along(N, part, frames) /\ level = Len(frames) /\ top = frames[level]
      /\ Len(frames) \in Nat /\ Len(frames) >= 1 /\ H \in Nat
      /\ Vectors(ttree, ltree, m, N, H, part)
  BY DEF Active
<1>2. level \in 1..Len(frames)
  BY ONLY <1>1
<1>3. PICK x \in 0..(N - 1) : /\ frames[level].firstAt = At(x)
                              /\ PartAt(part, frames[level].firstAt) = part[x]
                              /\ part[x].level = level - 1
  BY ONLY <1>1, <1>2 DEF Along
<1>4. 0 \in Offsets
  BY BlockSize DEF Offsets
<1>5. (x >= m <=> part[x].level = H - 1) /\ (x >= m <=> At(x) >= Len(ttree))
  BY ONLY <1>1, <1>3, <1>4, VectorOfLevel
<1>6. level - 1 = H - 1 <=> level = H
  BY ONLY <1>1
<1>7. x \in Nat /\ At(x) \in Nat
  BY ONLY <1>3, AtOrder
<1>8. top.firstAt = At(x) /\ PartAt(part, top.firstAt) = part[x]
  BY ONLY <1>1, <1>3
<1>9. Len(ttree) \in Nat
  BY ONLY <1>1, VectorsParts
<1>10. x >= m <=> level = H
  BY ONLY <1>3, <1>5, <1>6
<1>11. top.firstAt >= Len(ttree) <=> level = H
  BY ONLY <1>5, <1>8, <1>10
<1> QED  BY ONLY <1>3, <1>7, <1>8, <1>9, <1>10, <1>11
-----------------------------------------------------------------------------
(* removeEdge.                                                             *)

\* It begins at the bit for its edge in the root block.
LEMMA RemoveEdgeHolds ==
  ASSUME SomeStructure, IdleHolds, Asked', NEW row, NEW column, RemoveEdge(row, column),
         pc' # "idle", UNCHANGED graph
  PROVE  RemoveHolds'
<1>1. /\ pc = "idle" /\ pc' = "remove" /\ call' = EdgeCall("removeEdge", row, column)
      /\ frames' = <<Frame(<<row>>, <<column>>, 0, CalculateOffset(row, column, 1))>>
      /\ UNCHANGED matrix
  BY DEF RemoveEdge, Throw, Finish, Begin
<1>2. matrixSize' = matrixSize /\ ttree' = ttree /\ ltree' = ltree
  BY <1>1 DEF matrix
<1>3. PICK m, N, H, part : Holds(matrixSize, ttree, ltree, m, N, H, part, graph)
  BY <1>1 DEF IdleHolds
<1>4. H \in Nat /\ H >= 2 /\ matrixSize = LongPow[H]
  BY <1>3, SameHeight
<1>5. Arc' = <<row, column>>
  BY <1>1 DEF Arc, EdgeCall
<1>6. Off(H, Arc', 1) = CalculateOffset(row, column, 1)
  <2>1. 1 \in 1..H
    BY <1>4
  <2>2. \A e : Off(H, e, 1) = CalculateOffset(e[1], e[2], 1)
    BY ONLY <1>4, <2>1, WidthOfCode
  <2>3. Off(H, Arc', 1) = CalculateOffset(Arc'[1], Arc'[2], 1)
    BY ONLY <2>2
  <2> QED  BY <1>5, <2>3
<1>7. AtArc(H)'
  <2>1. level' = 1
    BY <1>1 DEF level
  <2>2. frames'[1].offset = CalculateOffset(row, column, 1)
    BY <1>1 DEF Frame
  <2> QED  BY <1>6, <2>1, <2>2 DEF AtArc
<1>8. Holds(matrixSize', ttree', ltree', m, N, H, part, graph')
  BY <1>2, <1>3
<1> QED  BY ONLY <1>7, <1>8 DEF RemoveHolds

\* Where deleteThisEdge is.
LEMMA Removing ==
  ASSUME Typed, SomeStructure, Asked, RemoveHolds, pc = "remove"
  PROVE  \E m, N, H, part :
           /\ Holds(matrixSize, ttree, ltree, m, N, H, part, graph) /\ AtArc(H)
           /\ Active(m, N, H, part, graph) /\ Arc \in Cells
           /\ top.offset = Off(H, Arc, level)
           /\ Cut(H, Arc, level - 1) = PartAt(part, top.firstAt)
           /\ Reach(N, part, H, Arc, level, node)
<1>1. PICK m, N, H, part : Holds(matrixSize, ttree, ltree, m, N, H, part, graph) /\ AtArc(H)
  BY DEF RemoveHolds
<1>2. Active(m, N, H, part, graph)
  BY <1>1, Activations
<1>3. /\ N \in Nat /\ H \in Nat /\ matrixSize = LongPow[H]
      /\ part \in [0..(N - 1) -> Parts] /\ Along(N, part, frames)
      /\ Len(frames) \in Nat /\ Len(frames) <= H /\ Len(frames) >= 1
      /\ level = Len(frames) /\ top = frames[level]
  BY ONLY <1>2 DEF Active
<1>4. EdgeAsked
  BY DEF Asked
<1>5. Arc \in Cells /\ Arc[1] < LongPow[H] /\ Arc[2] < LongPow[H]
  BY ONLY <1>3, <1>4, ArcInMatrix
<1>6. PICK e : e = Arc
  OBVIOUS
<1>7. PICK fs : fs = frames
  OBVIOUS
<1>8. \A i \in 1..Len(fs) : fs[i].offset = Off(H, e, i)
  BY ONLY <1>1, <1>3, <1>6, <1>7 DEF AtArc
<1>9. PICK i : i = level
  OBVIOUS
<1>10. i \in 1..Len(fs)
  BY ONLY <1>3, <1>7, <1>9
<1>11. /\ Along(N, part, fs) /\ Len(fs) \in Nat /\ Len(fs) <= H
       /\ e \in Cells /\ e[1] < LongPow[H] /\ e[2] < LongPow[H]
  BY ONLY <1>3, <1>5, <1>6, <1>7
<1>12. /\ Cut(H, e, i - 1) = PartAt(part, fs[i].firstAt)
       /\ Reach(N, part, H, e, i, fs[i].firstAt + fs[i].offset)
  BY ONLY <1>3, <1>8, <1>10, <1>11, AlongCell
<1>13. node = fs[i].firstAt + fs[i].offset
  BY ONLY <1>3, <1>7, <1>9 DEF node
<1>14. /\ top.offset = Off(H, Arc, level) /\ Cut(H, Arc, level - 1) = PartAt(part, top.firstAt)
       /\ Reach(N, part, H, Arc, level, node)
  BY ONLY <1>3, <1>6, <1>7, <1>8, <1>9, <1>10, <1>12, <1>13
<1> QED  BY ONLY <1>1, <1>2, <1>5, <1>14

\* deleteThisEdge goes down one level.
LEMMA RemoveDescendsHolds ==
  ASSUME Typed, SomeStructure, Asked, RemoveHolds, RemoveDescends, UNCHANGED graph
  PROVE  RemoveHolds'
<1>1. pc = "remove" /\ Access(ttree, node) /\ Partition(level + 1) # 0 /\ UNCHANGED matrix
  BY PartitionsLeft DEF RemoveDescends
<1>2. /\ frames' = Append(frames, Frame(top.rows, top.columns, ChildBlock(node),
                                       CalculateOffset(call.row, call.column, level + 1)))
      /\ call' = call /\ matrixSize' = matrixSize /\ ttree' = ttree /\ ltree' = ltree
  BY <1>1 DEF RemoveDescends, matrix
<1>3. PICK m, N, H, part :
           /\ Holds(matrixSize, ttree, ltree, m, N, H, part, graph) /\ AtArc(H)
           /\ Active(m, N, H, part, graph)
  BY <1>1, Removing
<1>4. H \in Nat /\ matrixSize = LongPow[H] /\ level = Len(frames) /\ Len(frames) \in Nat
  BY ONLY <1>3 DEF Active
<1>5. level + 1 \in 1..H
  <2>1. level + 1 \in Nat /\ level + 1 >= 1
    BY ONLY <1>4
  <2>2. ~(level + 1 > H)
    BY ONLY <1>1, <1>4, <2>1, PartitionSizes
  <2> QED  BY ONLY <1>4, <2>1, <2>2
<1>6. EdgeAsked
  BY <1>1 DEF Asked
<1>7. Off(H, Arc, level + 1) = CalculateOffset(call.row, call.column, level + 1)
  BY ONLY <1>4, <1>5, <1>6, ArcInMatrix
<1>8. Arc' = Arc
  BY <1>2 DEF Arc
<1>9. AtArc(H)'
  <2> DEFINE f == Frame(top.rows, top.columns, ChildBlock(node),
                        CalculateOffset(call.row, call.column, level + 1))
  <2>1. f.offset = CalculateOffset(call.row, call.column, level + 1)
    BY DEF Frame
  <2> HIDE DEF f
  <2>2. /\ Len(frames') = level + 1 /\ frames'[level + 1] = f
        /\ \A i \in 1..level : frames'[i] = frames[i]
    <3>1. frames \in Seq(Frames)
      BY <1>3 DEF Active
    <3>2. frames' = Append(frames, f)
      BY <1>2 DEF f
    <3> QED  BY ONLY <1>4, <3>1, <3>2
  <2>3. \A i \in 1..level : frames[i].offset = Off(H, Arc, i)
    BY <1>3 DEF AtArc
  <2>4. \A i \in 1..(level + 1) : i \in 1..level \/ i = level + 1
    BY ONLY <1>4
  <2>5. \A i \in 1..(level + 1) : frames'[i].offset = Off(H, Arc, i)
    BY ONLY <1>7, <2>1, <2>2, <2>3, <2>4
  <2>6. level' = level + 1
    BY <2>2 DEF level
  <2> QED  BY ONLY <1>8, <2>5, <2>6 DEF AtArc
<1>10. Holds(matrixSize', ttree', ltree', m, N, H, part, graph')
  BY <1>2, <1>3
<1> QED  BY ONLY <1>9, <1>10 DEF RemoveHolds

\* It stops at a 0: there is no such edge.
LEMMA RemoveStopsHolds ==
  ASSUME Typed, SomeStructure, Asked, RemoveHolds, RemoveStops
  PROVE  Ends(graph \ {Arc}) /\ reply' = [call |-> call]
<1>1. /\ pc = "remove" /\ top.firstAt < Len(ttree) /\ ~Access(ttree, node)
      /\ pc' = "idle" /\ reply' = [call |-> call]
      /\ matrixSize' = matrixSize /\ ttree' = ttree /\ ltree' = ltree
  BY DEF RemoveStops, Finish, matrix
<1>2. PICK m, N, H, part :
           /\ Holds(matrixSize, ttree, ltree, m, N, H, part, graph)
           /\ Active(m, N, H, part, graph) /\ Arc \in Cells
           /\ Reach(N, part, H, Arc, level, node)
  BY <1>1, Removing
<1>3. /\ Vectors(ttree, ltree, m, N, H, part) /\ Edges(ttree \o ltree, N, H, part) = graph
      /\ H \in Nat /\ level = Len(frames) /\ Len(frames) \in Nat
      /\ Len(frames) <= H /\ Len(frames) >= 1
  BY ONLY <1>2 DEF Active
<1>4. level \in 1..H
  BY ONLY <1>3
<1>5. node < Len(ttree)
  <2>1. /\ top.firstAt >= Len(ttree) <=> level = H
        /\ Len(ttree) \in Nat /\ top.firstAt \in Nat
    BY ONLY <1>2, ActiveTop
  <2>2. level # H
    BY ONLY <1>1, <2>1
  <2>3. (node >= Len(ttree) <=> level = H) /\ node \in Nat
    BY ONLY <1>2, <1>3, <1>4, ReachBlock
  <2> QED  BY ONLY <2>1, <2>2, <2>3
<1>6. Arc \notin graph
  <2>1. Arc \notin Edges(ttree \o ltree, N, H, part)
    BY ONLY <1>1, <1>2, <1>3, <1>4, <1>5, ReachZero
  <2> QED  BY ONLY <1>3, <2>1
<1>7. graph \ {Arc} = graph
  BY <1>6
<1>8. Holds(matrixSize', ttree', ltree', m, N, H, part, graph \ {Arc})
  BY ONLY <1>1, <1>2, <1>7
<1> QED  BY ONLY <1>1, <1>8 DEF Ends

\* It clears the bit of its edge in ltree, and deletes a block that is empty then.
LEMMA RemoveInLTreeHolds ==
  ASSUME Typed, SomeStructure, Asked, RemoveHolds, RemoveInLTree, GraphKept
  PROVE  \/ PruneHolds' /\ pc' = "prune"
         \/ Ends(graph \ {Arc}) /\ reply' = [call |-> call]
<1> DEFINE cleared == SetBit(ltree, LeafBlock + top.offset, FALSE)
<1>1. /\ pc = "remove" /\ top.firstAt >= Len(ttree)
      /\ matrixSize' = matrixSize /\ ttree' = ttree
  BY DEF RemoveInLTree
<1>2. PICK m, N, H, part :
           /\ Holds(matrixSize, ttree, ltree, m, N, H, part, graph) /\ AtArc(H)
           /\ Active(m, N, H, part, graph) /\ Arc \in Cells
           /\ top.offset = Off(H, Arc, level)
           /\ Cut(H, Arc, level - 1) = PartAt(part, top.firstAt)
  BY <1>1, Removing
<1>3. /\ Vectors(ttree, ltree, m, N, H, part) /\ Edges(ttree \o ltree, N, H, part) = graph
      /\ H \in Nat /\ H >= 2 /\ matrixSize = LongPow[H] /\ N \in Nat
      /\ Along(N, part, frames) /\ level = Len(frames) /\ Len(frames) \in Nat
      /\ frames \in Seq(Frames) /\ frames # <<>> /\ top = frames[level] /\ top \in Frames
  BY ONLY <1>2 DEF Active
<1>4. PICK x \in 0..(N - 1) :
        /\ top.firstAt = At(x) /\ PartAt(part, top.firstAt) = part[x]
        /\ part[x].level = level - 1 /\ x \in Nat /\ At(x) \in Nat
        /\ x >= m <=> level = H
        /\ top.firstAt >= Len(ttree) <=> level = H
        /\ Len(ttree) \in Nat
  BY ONLY <1>2, ActiveTop
<1>5. level = H
  BY ONLY <1>1, <1>4
<1>6. PICK e : e = Arc
  OBVIOUS
<1>7. AtCell(ttree, ltree, m, N, H, part, x, e)
  BY ONLY <1>2, <1>3, <1>4, <1>5, <1>6 DEF AtCell
<1>8. Off(H, e, H) \in Offsets
  BY ONLY <1>7, CellBit
<1>9. cleared = SetBit(ltree, (At(x) + Off(H, e, H)) - Len(ttree), FALSE)
  <2>1. (At(x) - Len(ttree)) + Off(H, e, H) = (At(x) + Off(H, e, H)) - Len(ttree)
    <3>1. Off(H, e, H) \in Nat
      BY <1>8, BlockSize DEF Offsets
    <3> QED  BY ONLY <1>4, <3>1
  <2>2. LeafBlock = At(x) - Len(ttree) /\ top.offset = Off(H, e, H)
    BY <1>2, <1>4, <1>5, <1>6 DEF LeafBlock
  <2> QED  BY ONLY <2>1, <2>2
<1> HIDE DEF cleared
<1>10. Unmarks(ttree, ltree, m, N, H, part, x, e, cleared)
  BY ONLY <1>7, <1>9 DEF Unmarks
<1>11. /\ Vectors(ttree, cleared, m, N, H, part)
       /\ Edges(ttree \o cleared, N, H, part) = graph \ {Arc}
  <2>1. /\ Vectors(ttree, cleared, m, N, H, part)
        /\ Edges(ttree \o cleared, N, H, part) = Edges(ttree \o ltree, N, H, part) \ {e}
    BY ONLY <1>10, LeafUnmarked
  <2> QED  BY ONLY <1>3, <1>6, <2>1
<1>12. CASE ~OnlyZeros(cleared, LeafBlock)
  <2>1. ltree' = cleared /\ pc' = "idle" /\ reply' = [call |-> call]
    BY <1>12 DEF RemoveInLTree, Finish, cleared
  <2>2. Holds(matrixSize', ttree', ltree', m, N, H, part, graph \ {Arc})
    BY ONLY <1>1, <1>3, <1>11, <2>1 DEF Holds
  <2> QED  BY ONLY <2>1, <2>2 DEF Ends
<1>13. CASE OnlyZeros(cleared, LeafBlock)
  <2>1. /\ ltree' = DeleteBlock(cleared, LeafBlock) /\ pc' = "prune" /\ frames' = Popped
        /\ call' = call
    BY <1>13 DEF RemoveInLTree, cleared
  <2>2. PICK i : i = level - 1
    OBVIOUS
  <2>3. i \in 1..(Len(frames) - 1) /\ i + 1 = level /\ i = H - 1
    BY ONLY <1>3, <1>5, <2>2
  <2>4. PICK c, n : Calling(N, part, frames, i, c, n)
    BY ONLY <1>3, <2>3, AlongCaller
  <2>5. /\ IsChild(ttree, cleared, m, N, H, part, c, frames[i].offset, n)
        /\ n >= m <=> i = H - 1
    BY ONLY <1>11, <2>4, CallingBelow
  <2>6. At(n) = top.firstAt /\ frames[i].firstAt = At(c)
    BY ONLY <1>3, <2>3, <2>4 DEF Calling
  <2>7. /\ ttree \in Seq(BOOLEAN) /\ At(c) + frames[i].offset \in 0..(Len(ttree) - 1)
        /\ Access(ttree, At(c) + frames[i].offset) /\ Len(ttree) \in Nat
    BY ONLY <2>5, ChildParts
  <2>8. /\ Popped \in Seq(Frames) /\ Len(Popped) = level - 1
        /\ \A j \in 1..(level - 1) : Popped[j] = frames[j]
    BY ONLY <1>3, PopType
  <2>9. level' = i /\ node' = At(c) + frames[i].offset /\ Arc' = Arc
    <3>1. level' = i /\ frames'[i] = frames[i]
      BY ONLY <2>1, <2>2, <2>3, <2>8 DEF level
    <3>2. node' = frames[i].firstAt + frames[i].offset
      BY ONLY <3>1 DEF node, top
    <3> QED  BY <2>1, <2>6, <3>1, <3>2 DEF Arc
  <2> DEFINE w == SetBit(ttree, At(c) + frames[i].offset, FALSE)
  <2>10. PICK q : /\ Vectors(w, ltree', m, N - 1, H, q)
                  /\ Edges(w \o ltree', N - 1, H, q) = Edges(ttree \o cleared, N, H, part)
    <3>1. PICK v : v = DeleteBlock(cleared, At(n) - Len(ttree))
      OBVIOUS
    <3>2. At(n) - Len(ttree) = LeafBlock
      BY <2>6 DEF LeafBlock
    <3>3. OnlyZeros(cleared, At(n) - Len(ttree)) /\ n >= m
      BY ONLY <1>13, <2>3, <2>5, <3>2
    <3>4. v = ltree'
      BY ONLY <2>1, <3>1, <3>2
    <3>5. PICK u : u = w
      OBVIOUS
    <3>6. LeafLoses(ttree, cleared, m, N, H, part, c, frames[i].offset, n, u, v)
      BY ONLY <2>5, <3>1, <3>3, <3>5 DEF LeafLoses
    <3>7. \E q : /\ Vectors(u, v, m, N - 1, H, q)
                 /\ Edges(u \o v, N - 1, H, q) = Edges(ttree \o cleared, N, H, part)
      BY ONLY <3>6, LeafWithers
    <3> QED  BY ONLY <3>4, <3>5, <3>7
  <2>11. ~Access(w, node') /\ ttree' = SetBit(w, node', TRUE)
    <3>1. PICK p \in Nat : p = At(c) + frames[i].offset /\ p < Len(ttree)
      BY ONLY <2>7
    <3>2. SetBit(SetBit(ttree, p, FALSE), p, TRUE) = ttree /\ ~Access(SetBit(ttree, p, FALSE), p)
      BY ONLY <2>7, <3>1, ClearedAndSet
    <3> QED  BY ONLY <1>1, <2>9, <3>1, <3>2
  <2> HIDE DEF w
  <2>12. AtArc(H)'
    <3>1. \A j \in 1..level : frames[j].offset = Off(H, Arc, j)
      BY ONLY <1>2 DEF AtArc
    <3>2. \A j \in 1..i : frames'[j].offset = Off(H, Arc, j)
      BY ONLY <1>3, <2>1, <2>2, <2>3, <2>8, <3>1
    <3> QED  BY ONLY <2>9, <3>2 DEF AtArc
  <2>13. Holds(matrixSize', w, ltree', m, N - 1, H, q, graph' \ {Arc'})
    BY ONLY <1>1, <1>3, <1>11, <2>1, <2>9, <2>10, GraphKept DEF Holds, GraphKept
  <2>14. PruneHolds'
    BY ONLY <2>11, <2>12, <2>13 DEF PruneHolds
  <2> QED  BY ONLY <2>1, <2>14
<1> QED  BY ONLY <1>12, <1>13

\* Where deleteTTreeEdge is on the way back: the tree t has lost the edge, and the
\* activations are on a path of it.
Pruned(t, m, N, H, part) ==
  /\ Vectors(t, ltree, m, N, H, part) /\ Edges(t \o ltree, N, H, part) = graph \ {Arc}
  /\ H \in Nat /\ matrixSize = LongPow[H] /\ N \in Nat
  /\ AtArc(H) /\ Along(N, part, frames)
  /\ Len(frames) \in Nat /\ Len(frames) >= 1 /\ level = Len(frames) /\ level < H
  /\ frames \in Seq(Frames) /\ frames # <<>> /\ top = frames[level]
  /\ t \in Seq(BOOLEAN) /\ SetBit(ttree, node, FALSE) = t

\* It is there when it prunes.
LEMMA Pruning ==
  ASSUME Typed, SomeStructure, PruneHolds, pc = "prune"
  PROVE  \E t, m, N, H, part : Pruned(t, m, N, H, part)
<1>1. PICK t, m, N, H, part :
        /\ Holds(matrixSize, t, ltree, m, N, H, part, graph \ {Arc})
        /\ AtArc(H)
        /\ ~Access(t, node) /\ ttree = SetBit(t, node, TRUE)
  BY DEF PruneHolds
<1>2. /\ H \in Nat /\ H >= 2 /\ matrixSize = LongPow[H] /\ Vectors(t, ltree, m, N, H, part)
      /\ Edges(t \o ltree, N, H, part) = graph \ {Arc} /\ \E b : Structured(H, b)
  BY <1>1, SameHeight
<1>3. PICK b : Structured(H, b)
  BY <1>2
<1>4. /\ Levels(ttree, Len(ltree), H, b, level)
      /\ OnPath(ttree, H, b, frames) /\ top.offset \in 0..(BLOCK_SIZE - 1)
      /\ level < H /\ Access(ttree, node)
  BY <1>3 DEF Structured, Owed, Recursive
<1>5. ttree \in Seq(BOOLEAN) /\ ltree \in Seq(BOOLEAN) /\ frames \in Seq(Frames)
  BY DEF Typed, TypeOK
<1>6. /\ Len(frames) \in 1..H /\ Len(frames) \in Nat /\ Len(frames) >= 1 /\ level = Len(frames)
      /\ frames # <<>> /\ top = frames[level] /\ level \in 1..Len(frames)
  <2>1. Len(frames) \in 1..H
    BY <1>4 DEF OnPath
  <2> QED  BY <1>2, <1>5, <2>1 DEF level, top
<1>7. /\ t \in Seq(BOOLEAN) /\ Len(t) \in Nat /\ N \in Nat
  BY ONLY <1>2, VectorsParts
<1>8. Len(ttree) = Len(t)
  <2>1. Len(SetBit(t, node, TRUE)) = Len(t)
    BY ONLY <1>7 DEF SetBit
  <2> QED  BY ONLY <1>1, <2>1
<1>9. node \in Nat /\ node < Len(t) /\ node \in 0..(Len(t) - 1)
  BY ONLY <1>4, <1>7, <1>8 DEF Access
<1>10. SetBit(ttree, node, FALSE) = t
  BY ONLY <1>1, <1>7, <1>9, SetAndCleared
<1>11. node >= At(b[level - 1]) /\ At(b[level - 1]) \in Nat
  <2>1. /\ node = frames[level].firstAt + top.offset
        /\ OnLevel(b, level, frames[level].firstAt + top.offset)
    <3>1. node = frames[level].firstAt + top.offset
      BY ONLY <1>6 DEF node
    <3>2. PICK owed : owed = level
      OBVIOUS
    <3>3. Levels(ttree, Len(ltree), H, b, owed)
      BY ONLY <1>4, <3>2
    <3> QED  BY ONLY <1>4, <1>6, <3>1, <3>3, PositionOnPath
  <2>2. b \in [0..H -> Nat] /\ level - 1 \in 0..H
    <3>1. b \in [0..H -> Nat]
      BY ONLY <1>4 DEF Levels
    <3> QED  BY ONLY <1>2, <1>4, <1>6, <3>1
  <2>3. b[level - 1] \in Nat
    BY ONLY <2>2
  <2> QED  BY ONLY <2>1, <2>3, AtOrder DEF OnLevel
<1>12. SameBits(ttree, 0, At(b[level - 1]), t, 0)
  <2> SUFFICES ASSUME NEW i \in 0..(At(b[level - 1]) - 1)
               PROVE  Access(ttree, i) <=> Access(t, i + 0)
    BY DEF SameBits
  <2>1. i \in Nat /\ i # node /\ i + 0 = i
    BY ONLY <1>9, <1>11, i \in 0..(At(b[level - 1]) - 1)
  <2>2. Access(SetBit(t, node, TRUE), i) <=> IF i = node THEN TRUE ELSE Access(t, i)
    BY <1>7, <1>9, <2>1, SetBitAccess
  <2> QED  BY ONLY <1>1, <2>1, <2>2
<1>13. OnPath(t, H, b, frames)
  <2>1. Outer(frames, level, frames)
    BY ONLY <1>6 DEF Outer
  <2>2. SameNumbers(b, b, level)
    BY DEF SameNumbers
  <2>3. PICK owed : owed = level
    OBVIOUS
  <2>4. Levels(ttree, Len(ltree), H, b, owed)
    BY ONLY <1>4, <2>3
  <2>5. ttree \in Seq(BOOLEAN)
    BY <1>5
  <2> QED  BY ONLY <1>4, <1>6, <1>7, <1>12, <2>1, <2>2, <2>4, <2>5, OuterOnPath
<1>14. Along(N, part, frames)
  <2>1. PICK owed : owed = level
    OBVIOUS
  <2>2. owed \in Nat \ {0} /\ Levels(ttree, Len(ltree), H, b, owed)
    BY ONLY <1>4, <1>6, <2>1
  <2> QED  BY ONLY <1>2, <1>5, <1>13, <2>2, PathAlong
<1>15. Pruned(t, m, N, H, part)
  BY ONLY <1>1, <1>2, <1>4, <1>5, <1>6, <1>7, <1>10, <1>14 DEF Pruned
<1> QED  BY <1>15

\* It clears the bit of the block that was deleted, and deletes its own block if that is
\* empty now.
LEMMA PruneStepHolds ==
  ASSUME Typed, SomeStructure, PruneHolds, Prune, GraphKept
  PROVE  \/ PruneHolds' /\ pc' = "prune"
         \/ Ends(graph \ {Arc}) /\ reply' = [call |-> call]
<1>1. pc = "prune" /\ matrixSize' = matrixSize /\ ltree' = ltree
  BY DEF Prune
<1>2. PICK t, m, N, H, part : Pruned(t, m, N, H, part)
  BY <1>1, Pruning
<1>3. /\ Vectors(t, ltree, m, N, H, part) /\ Edges(t \o ltree, N, H, part) = graph \ {Arc}
      /\ H \in Nat /\ matrixSize = LongPow[H] /\ N \in Nat
      /\ AtArc(H) /\ Along(N, part, frames)
      /\ Len(frames) \in Nat /\ Len(frames) >= 1 /\ level = Len(frames) /\ level < H
      /\ frames \in Seq(Frames) /\ frames # <<>> /\ top = frames[level]
      /\ t \in Seq(BOOLEAN) /\ SetBit(ttree, node, FALSE) = t
  BY ONLY <1>2 DEF Pruned
<1>4. CASE ~(level > 1 /\ OnlyZeros(t, top.firstAt))
  <2>1. ttree' = t /\ pc' = "idle" /\ reply' = [call |-> call]
    BY <1>3, <1>4 DEF Prune, Finish
  <2>2. Holds(matrixSize', ttree', ltree', m, N, H, part, graph \ {Arc})
    BY ONLY <1>1, <1>3, <2>1 DEF Holds
  <2> QED  BY ONLY <2>1, <2>2 DEF Ends
<1>5. CASE level > 1 /\ OnlyZeros(t, top.firstAt)
  <2>1. ttree' = DeleteBlock(t, top.firstAt) /\ pc' = "prune" /\ frames' = Popped /\ call' = call
    BY <1>1, <1>3, <1>5 DEF Prune
  <2>2. PICK i : i = level - 1
    OBVIOUS
  <2>3. i \in 1..(Len(frames) - 1) /\ i + 1 = level /\ i # H - 1
    BY ONLY <1>3, <1>5, <2>2
  <2>4. PICK c, n : Calling(N, part, frames, i, c, n)
    BY ONLY <1>3, <2>3, AlongCaller
  <2>5. /\ IsChild(t, ltree, m, N, H, part, c, frames[i].offset, n)
        /\ n >= m <=> i = H - 1
    BY ONLY <1>3, <2>4, CallingBelow
  <2>6. At(n) = top.firstAt /\ frames[i].firstAt = At(c)
    BY ONLY <1>3, <2>3, <2>4 DEF Calling
  <2>7. /\ At(c) + frames[i].offset \in Nat /\ At(n) \in Nat /\ Len(t) \in Nat
        /\ At(c) + frames[i].offset < At(n) /\ At(n) + BLOCK_SIZE <= Len(t) /\ n < m
        /\ Access(t, At(c) + frames[i].offset)
    <3>1. /\ N \in Nat /\ m \in 1..N /\ n \in 1..(N - 1)
          /\ At(c) + frames[i].offset \in 0..(Len(t) - 1) /\ At(n) \in Nat /\ Len(t) \in Nat
          /\ At(c) + frames[i].offset < At(n) /\ (n < m => At(n) + BLOCK_SIZE <= Len(t))
          /\ Access(t, At(c) + frames[i].offset)
      BY ONLY <2>5, ChildParts
    <3>2. n < m
      BY ONLY <2>3, <2>5, <3>1
    <3> QED  BY ONLY <3>1, <3>2
  <2>8. /\ Popped \in Seq(Frames) /\ Len(Popped) = level - 1
        /\ \A j \in 1..(level - 1) : Popped[j] = frames[j]
    BY ONLY <1>3, PopType
  <2>9. level' = i /\ node' = At(c) + frames[i].offset /\ Arc' = Arc
    <3>1. level' = i /\ frames'[i] = frames[i]
      BY ONLY <1>3, <2>1, <2>2, <2>3, <2>8 DEF level
    <3>2. node' = frames[i].firstAt + frames[i].offset
      BY ONLY <3>1 DEF node, top
    <3> QED  BY <2>1, <2>6, <3>1, <3>2 DEF Arc
  <2>10. PICK u : u = SetBit(DeleteBlock(t, At(n)), At(c) + frames[i].offset, FALSE)
    OBVIOUS
  <2>11. PICK q : /\ Vectors(u, ltree, m - 1, N - 1, H, q)
                  /\ Edges(u \o ltree, N - 1, H, q) = Edges(t \o ltree, N, H, part)
    <3>1. OnlyZeros(t, At(n))
      BY ONLY <1>5, <2>6
    <3>2. TreeLoses(t, ltree, m, N, H, part, c, frames[i].offset, n, u)
      BY ONLY <2>5, <2>7, <2>10, <3>1 DEF TreeLoses
    <3> QED  BY ONLY <3>2, TreeWithers
  <2>12. ~Access(u, node') /\ ttree' = SetBit(u, node', TRUE)
    <3>1. PICK p \in Nat : p = At(c) + frames[i].offset
      BY ONLY <2>7
    <3>2. PICK d : d = DeleteBlock(t, At(n))
      OBVIOUS
    <3>3. PICK r \in Nat : r = At(n)
      BY ONLY <2>7
    <3>4. d = DeleteBlock(t, r) /\ p < r /\ r + BLOCK_SIZE <= Len(t) /\ r \in Int
          /\ Len(t) \in Nat
      BY ONLY <2>7, <3>1, <3>2, <3>3
    <3>5. d \in Seq(BOOLEAN) /\ Len(d) = Len(t) - BLOCK_SIZE
          /\ (Access(d, p) <=> IF p < r THEN Access(t, p) ELSE Access(t, p + BLOCK_SIZE))
      BY ONLY <1>3, <3>4, p \in Nat, r \in Nat, DeleteBlockType, DeleteBlockAccess
    <3>6. p < Len(d) /\ Access(d, p)
      BY ONLY <2>7, <3>1, <3>4, <3>5, BlockSize
    <3>7. SetBit(SetBit(d, p, FALSE), p, TRUE) = d /\ ~Access(SetBit(d, p, FALSE), p)
      BY ONLY p \in Nat, <3>5, <3>6, ClearedAndSet
    <3> QED  BY ONLY <2>1, <2>6, <2>9, <2>10, <3>1, <3>2, <3>7
  <2>13. AtArc(H)'
    <3>1. \A j \in 1..level : frames[j].offset = Off(H, Arc, j)
      BY ONLY <1>3 DEF AtArc
    <3>2. \A j \in 1..i : frames'[j].offset = Off(H, Arc, j)
      BY ONLY <1>3, <2>1, <2>2, <2>3, <2>8, <3>1
    <3> QED  BY ONLY <2>9, <3>2 DEF AtArc
  <2>14. Holds(matrixSize', u, ltree', m - 1, N - 1, H, q, graph' \ {Arc'})
    BY ONLY <1>1, <1>3, <2>1, <2>9, <2>11, GraphKept DEF Holds, GraphKept
  <2>15. PruneHolds'
    BY ONLY <2>12, <2>13, <2>14 DEF PruneHolds
  <2> QED  BY ONLY <2>1, <2>15
<1> QED  BY ONLY <1>4, <1>5
-----------------------------------------------------------------------------
(* A pass over the blocks, by reportAllEdges or by deleteEntry.            *)

\* deleteEdges goes to the next offset of its block.
LEMMA NextOffsetGoesOn ==
  ASSUME Typed, AtTTreeOffset, NEW o \in BOOLEAN, NextOffset(o)
  PROVE  GoesOn(frames, level, frames', -1)
<1>1. Deleting /\ top.offset >= 0
  BY DEF AtTTreeOffset
<1>2. /\ frames \in Seq(Frames) /\ frames # <<>> /\ level = Len(frames) /\ level \in Nat \ {0}
  BY <1>1, DeletingTypes
<1>3. level \in 1..Len(frames) /\ top = frames[level] /\ top \in Frames
      /\ top.offset \in Nat \cup {-1}
  BY <1>2, TopType DEF top
<1> DEFINE f == [top EXCEPT !.offset = @ - 1, !.only0s = o]
<1>4. f \in Frames /\ NextOf(frames[level], f, -1)
  <2>1. top.offset - 1 \in Nat \cup {-1} /\ top.offset - 1 = top.offset + (-1)
    BY <1>1, <1>3
  <2>2. f \in Frames
    BY <1>3, <2>1 DEF Frames
  <2>3. /\ f.firstAt = top.firstAt /\ f.rows = top.rows /\ f.columns = top.columns
        /\ f.offset = top.offset - 1
    BY <1>3 DEF Frames
  <2> HIDE DEF f
  <2> QED  BY ONLY <1>3, <2>1, <2>2, <2>3 DEF NextOf
<1>5. frames' = [frames EXCEPT ![level] = f]
  BY <1>3 DEF NextOffset
<1> HIDE DEF f
<1>6. PICK k : k = level
  OBVIOUS
<1>7. PICK gs : gs = frames'
  OBVIOUS
<1>8. /\ frames \in Seq(Frames) /\ k \in 1..Len(frames) /\ Len(frames) = k
      /\ f \in Frames /\ NextOf(frames[k], f, -1) /\ gs = [frames EXCEPT ![k] = f]
  BY <1>2, <1>3, <1>4, <1>5, <1>6, <1>7
<1>9. GoesOn(frames, k, gs, -1)
  BY ONLY <1>8, ReplacedGoesOn
<1> QED  BY ONLY <1>6, <1>7, <1>9

\* So does findAllEdges.
LEMMA FindSkipsGoesOn ==
  ASSUME Typed, FindSkips
  PROVE  GoesOn(frames, level, frames', 1)
<1>1. pc = "find"
  BY DEF FindSkips, FindAtTTree
<1>2. /\ frames \in Seq(Frames) /\ frames # <<>> /\ level = Len(frames) /\ level \in Nat \ {0}
      /\ \A i \in 1..Len(frames) : frames[i].offset \in Nat
  BY <1>1, FindTypes
<1>3. level \in 1..Len(frames) /\ top = frames[level] /\ top \in Frames /\ top.offset \in Nat
  BY <1>2, TopType DEF top
<1> DEFINE f == [top EXCEPT !.offset = @ + 1]
<1>4. f \in Frames /\ NextOf(frames[level], f, 1)
  <2>1. top.offset + 1 \in Nat \cup {-1}
    BY <1>3
  <2>2. f \in Frames
    BY <1>3, <2>1 DEF Frames
  <2>3. /\ f.firstAt = top.firstAt /\ f.rows = top.rows /\ f.columns = top.columns
        /\ f.offset = top.offset + 1
    BY <1>3 DEF Frames
  <2> HIDE DEF f
  <2> QED  BY ONLY <1>3, <2>2, <2>3 DEF NextOf
<1>5. frames' = [frames EXCEPT ![level] = f]
  BY <1>3 DEF FindSkips
<1> HIDE DEF f
<1>6. PICK k : k = level
  OBVIOUS
<1>7. PICK gs : gs = frames'
  OBVIOUS
<1>8. /\ frames \in Seq(Frames) /\ k \in 1..Len(frames) /\ Len(frames) = k
      /\ f \in Frames /\ NextOf(frames[k], f, 1) /\ gs = [frames EXCEPT ![k] = f]
  BY <1>2, <1>3, <1>4, <1>5, <1>6, <1>7
<1>9. GoesOn(frames, k, gs, 1)
  BY ONLY <1>8, ReplacedGoesOn
<1> QED  BY ONLY <1>6, <1>7, <1>9

\* The activation that has called the one on top.
LEMMA CallerOnStack ==
  ASSUME frames \in Seq(Frames), frames # <<>>, level # 1,
         \A i \in 1..(Len(frames) - 1) : frames[i].offset \in Nat
  PROVE  \E k \in Nat : /\ k = level - 1 /\ k \in 1..Len(frames) /\ k + 1 = Len(frames)
                        /\ level = Len(frames) /\ Len(frames) \in Nat
                        /\ Popped \in Seq(Frames) /\ Len(Popped) = k
                        /\ \A i \in 1..k : Popped[i] = frames[i]
                        /\ Popped[k] = frames[k] /\ frames[k] \in Frames
                        /\ frames[k].offset \in Nat
<1>1. level \in Nat \ {0} /\ level = Len(frames)
  BY TopType
<1>2. /\ Popped \in Seq(Frames) /\ Len(Popped) = level - 1
      /\ \A i \in 1..(level - 1) : Popped[i] = frames[i]
  BY PopType
<1>3. level - 1 \in Nat /\ level - 1 \in 1..Len(frames) /\ (level - 1) + 1 = Len(frames)
      /\ level - 1 \in 1..(level - 1) /\ level - 1 \in 1..(Len(frames) - 1)
  BY <1>1
<1>4. PICK k : k = level - 1
  OBVIOUS
<1>5. frames[k] \in Frames /\ frames[k].offset \in Nat
  BY <1>3, <1>4
<1>6. Popped[k] = frames[k]
  BY <1>2, <1>3, <1>4
<1> QED  BY <1>1, <1>2, <1>3, <1>4, <1>5, <1>6

\* The caller of deleteEdges goes to the next offset of its block.
LEMMA CallerGoesOn ==
  ASSUME Typed, Deleting, level # 1, NEW still \in BOOLEAN, CallerContinues(still)
  PROVE  GoesOn(frames, level - 1, frames', -1)
<1>1. /\ frames \in Seq(Frames) /\ frames # <<>> /\ level = Len(frames)
      /\ \A i \in 1..(level - 1) : frames[i].offset \in Nat
  BY DeletingTypes
<1>2. PICK k \in Nat : /\ k = level - 1 /\ k \in 1..Len(frames) /\ k + 1 = Len(frames)
                       /\ Popped \in Seq(Frames) /\ Len(Popped) = k
                       /\ \A i \in 1..k : Popped[i] = frames[i]
                       /\ Popped[k] = frames[k] /\ frames[k] \in Frames
                       /\ frames[k].offset \in Nat
  BY <1>1, CallerOnStack
<1> DEFINE g == frames[k]
           f == [Popped[k] EXCEPT !.offset = @ - 1, !.only0s = @ /\ ~still]
<1>3. f \in Frames /\ NextOf(g, f, -1)
  <2>1. g \in Frames /\ g.offset \in Nat /\ f = [g EXCEPT !.offset = @ - 1, !.only0s = @ /\ ~still]
    BY <1>2
  <2>2. g.offset - 1 \in Nat \cup {-1} /\ g.offset - 1 = g.offset + (-1)
    BY <2>1
  <2>3. (g.only0s /\ ~still) \in BOOLEAN
    BY Zenon
  <2> HIDE DEF g, f
  <2>4. f \in Frames
    BY <2>1, <2>2, <2>3 DEF Frames
  <2>5. /\ f.firstAt = g.firstAt /\ f.rows = g.rows /\ f.columns = g.columns
        /\ f.offset = g.offset - 1
    BY <2>1 DEF Frames
  <2> QED  BY ONLY <2>2, <2>4, <2>5 DEF NextOf
<1>4. frames' = [Popped EXCEPT ![k] = f]
  BY <1>2 DEF CallerContinues
<1> HIDE DEF f
<1>5. PICK gs : gs = frames'
  OBVIOUS
<1>6. PICK hs : hs = Popped
  OBVIOUS
<1>7. /\ frames \in Seq(Frames) /\ hs \in Seq(Frames) /\ k \in 1..Len(frames) /\ Len(hs) = k
      /\ \A i \in 1..k : hs[i] = frames[i]
      /\ f \in Frames /\ NextOf(frames[k], f, -1) /\ gs = [hs EXCEPT ![k] = f]
  BY <1>1, <1>2, <1>3, <1>4, <1>5, <1>6
<1>8. GoesOn(frames, k, gs, -1)
  BY ONLY <1>7, ReplacedGoesOn
<1> QED  BY ONLY <1>2, <1>5, <1>8

\* So does that of findAllEdges.
LEMMA FindReturnsGoesOn ==
  ASSUME Typed, pc = "find", level # 1, NEW found, FindReturns(found)
  PROVE  GoesOn(frames, level - 1, frames', 1)
<1>1. /\ frames \in Seq(Frames) /\ frames # <<>> /\ level = Len(frames)
      /\ \A i \in 1..Len(frames) : frames[i].offset \in Nat
  BY FindTypes
<1>2. PICK k \in Nat : /\ k = level - 1 /\ k \in 1..Len(frames) /\ k + 1 = Len(frames)
                       /\ Popped \in Seq(Frames) /\ Len(Popped) = k
                       /\ \A i \in 1..k : Popped[i] = frames[i]
                       /\ Popped[k] = frames[k] /\ frames[k] \in Frames
                       /\ frames[k].offset \in Nat
  <2>1. \A i \in 1..(Len(frames) - 1) : frames[i].offset \in Nat
    BY <1>1
  <2> QED  BY <1>1, <2>1, CallerOnStack
<1> DEFINE g == frames[k]
           f == [Popped[k] EXCEPT !.offset = @ + 1]
<1>3. f \in Frames /\ NextOf(g, f, 1)
  <2>1. g \in Frames /\ g.offset \in Nat /\ f = [g EXCEPT !.offset = @ + 1]
    BY <1>2
  <2>2. g.offset + 1 \in Nat \cup {-1}
    BY <2>1
  <2> HIDE DEF g, f
  <2>4. f \in Frames
    BY <2>1, <2>2 DEF Frames
  <2>5. /\ f.firstAt = g.firstAt /\ f.rows = g.rows /\ f.columns = g.columns
        /\ f.offset = g.offset + 1
    BY <2>1 DEF Frames
  <2> QED  BY ONLY <2>4, <2>5 DEF NextOf
<1>4. frames' = [Popped EXCEPT ![k] = f]
  BY <1>2 DEF FindReturns
<1> HIDE DEF f
<1>5. PICK gs : gs = frames'
  OBVIOUS
<1>6. PICK hs : hs = Popped
  OBVIOUS
<1>7. /\ frames \in Seq(Frames) /\ hs \in Seq(Frames) /\ k \in 1..Len(frames) /\ Len(hs) = k
      /\ \A i \in 1..k : hs[i] = frames[i]
      /\ f \in Frames /\ NextOf(frames[k], f, 1) /\ gs = [hs EXCEPT ![k] = f]
  BY <1>1, <1>2, <1>3, <1>4, <1>5, <1>6
<1>8. GoesOn(frames, k, gs, 1)
  BY ONLY <1>7, ReplacedGoesOn
<1> QED  BY ONLY <1>2, <1>5, <1>8

\* A vertex of a list has a slice.
LEMMA SliceThere ==
  ASSUME NEW H \in Nat, matrixSize = LongPow[H], level \in 1..H,
         NEW v, NEW A, NEW L, NEW x \in Nat, x < LongPow[H], x \in A,
         Lists(v, A, L, H, level - 1, x \div Width(H, level - 1))
  PROVE  Slices(v, Digit(H, x, level)) # {}
<1>1. PICK i : i = level
  OBVIOUS
<1>2. i \in 1..H /\ level \in 1..H
  BY <1>1
<1>3. /\ Digit(H, x, i) \in 0..(K - 1)
      /\ x \div Width(H, i) = K * (x \div Width(H, i - 1)) + Digit(H, x, i)
      /\ x \div Width(H, i - 1) \in Nat
  BY ONLY H \in Nat, x \in Nat, <1>2, DigitOfQuotient
<1> DEFINE c == x \div Width(H, i - 1)
           o == Digit(H, x, i)
<1>4. Lists(v, A, L, H, i - 1, c) /\ c \in Nat /\ o \in 0..(K - 1)
      /\ x \div Width(H, i) = K * c + o
  BY <1>1, <1>3
<1> HIDE DEF c, o
<1>5. \E p \in 1..Len(v), q \in 1..Len(v) : SliceOf(v, H, i, o, p, q)
  BY ONLY H \in Nat, x \in Nat, x < LongPow[H], x \in A, <1>2, <1>4, SliceExists
<1>6. PICK p \in 1..Len(v), q \in 1..Len(v) : SliceOf(v, H, level, o, p, q)
  BY <1>1, <1>5
<1>7. PICK s : s = SubSeq(v, p, q)
  OBVIOUS
<1>8. s \in Slices(v, o)
  BY ONLY H \in Nat, matrixSize = LongPow[H], <1>2, <1>6, <1>7, SlicesOf
<1>9. o = Digit(H, x, level)
  BY <1>1 DEF o
<1> QED  BY ONLY <1>8, <1>9

\* A slice of a list is a list for the next level.
LEMMA SliceListed ==
  ASSUME NEW H \in Nat, matrixSize = LongPow[H], level \in 1..H,
         NEW v, NEW A, NEW L, NEW c \in Nat, Lists(v, A, L, H, level - 1, c),
         NEW o \in 0..(K - 1), NEW s \in Slices(v, o)
  PROVE  Lists(s, A, L, H, level, K * c + o)
<1>1. PICK i : i = level
  OBVIOUS
<1>2. i \in 1..H /\ level \in 1..H /\ Lists(v, A, L, H, i - 1, c)
  BY <1>1
<1>3. PICK p \in 1..Len(v), q \in 1..Len(v) : SliceOf(v, H, level, o, p, q) /\ s = SubSeq(v, p, q)
  BY ONLY H \in Nat, matrixSize = LongPow[H], s \in Slices(v, o), <1>2, SlicesOf
<1>4. SliceOf(v, H, i, o, p, q)
  BY <1>1, <1>3
<1>5. Lists(SubSeq(v, p, q), A, L, H, i, K * c + o)
  BY ONLY H \in Nat, c \in Nat, o \in 0..(K - 1), p \in 1..Len(v), q \in 1..Len(v), <1>2, <1>4, SliceLists
<1> QED  BY ONLY <1>1, <1>3, <1>5

\* Where the top activation is, in terms of its partition.
LEMMA TopParts ==
  ASSUME NEW m, NEW N, NEW H, NEW part, NEW E, Active(m, N, H, part, E)
  PROVE  /\ level \in 1..H /\ level \in 1..Len(frames) /\ H \in Nat /\ matrixSize = LongPow[H]
         /\ PartAt(part, top.firstAt) \in Parts
         /\ PartAt(part, top.firstAt).level = level - 1
         /\ PartAt(part, top.firstAt).row \in Nat /\ PartAt(part, top.firstAt).column \in Nat
         /\ level = Len(frames) /\ top = frames[level]
<1>1. /\ H \in Nat /\ matrixSize = LongPow[H] /\ part \in [0..(N - 1) -> Parts]
      /\ Len(frames) \in Nat /\ Len(frames) <= H /\ Len(frames) >= 1
      /\ level = Len(frames) /\ top = frames[level]
  BY DEF Active
<1>2. PICK x \in 0..(N - 1) : /\ PartAt(part, top.firstAt) = part[x]
                              /\ part[x].level = level - 1
  BY ActiveTop
<1>3. part[x] \in Parts
  BY ONLY <1>1, x \in 0..(N - 1)
<1>4. part[x].row \in Nat /\ part[x].column \in Nat
  BY ONLY <1>3 DEF Parts
<1>5. level \in 1..H /\ level \in 1..Len(frames)
  BY ONLY <1>1
<1> QED  BY ONLY <1>1, <1>2, <1>3, <1>4, <1>5

\* An edge that the pass is looking for, at the offset it is at, has slices.
LEMMA SlicesNeeded ==
  ASSUME NEW m, NEW N, NEW H, NEW part, NEW E, Active(m, N, H, part, E),
         NEW A, NEW B, NEW L, PassLists(H, part, frames, A, B, L),
         NEW e \in Cells, e[1] < LongPow[H], e[2] < LongPow[H], e[1] \in A, e[2] \in B,
         Cut(H, e, level - 1) = PartAt(part, top.firstAt), Off(H, e, level) = top.offset
  PROVE  RowSlices # {} /\ ColumnSlices # {}
<1>1. /\ level \in 1..H /\ level \in 1..Len(frames) /\ H \in Nat /\ matrixSize = LongPow[H]
      /\ top = frames[level]
  BY TopParts
<1>2. /\ Lists(top.rows, A, L, H, level - 1, PartAt(part, top.firstAt).row)
      /\ Lists(top.columns, B, L, H, level - 1, PartAt(part, top.firstAt).column)
  BY <1>1 DEF PassLists
<1>3. e[1] \in Nat /\ e[2] \in Nat
  BY DEF Cells
<1>4. /\ PartAt(part, top.firstAt).row = e[1] \div Width(H, level - 1)
      /\ PartAt(part, top.firstAt).column = e[2] \div Width(H, level - 1)
  <2>1. /\ Cut(H, e, level - 1).row = e[1] \div Width(H, level - 1)
        /\ Cut(H, e, level - 1).column = e[2] \div Width(H, level - 1)
    BY DEF Cut, Part
  <2> QED  BY ONLY <2>1, Cut(H, e, level - 1) = PartAt(part, top.firstAt)
<1>5. top.offset \div K = Digit(H, e[1], level) /\ top.offset % K = Digit(H, e[2], level)
  <2>1. PICK i : i = level
    OBVIOUS
  <2>2. i \in 1..H
    BY <1>1, <2>1
  <2>3. Off(H, e, i) \div K = Digit(H, e[1], i) /\ Off(H, e, i) % K = Digit(H, e[2], i)
    BY ONLY <1>1, <2>2, e \in Cells, CutStep
  <2> QED  BY ONLY <2>1, <2>3, Off(H, e, level) = top.offset
<1>6. Slices(top.rows, Digit(H, e[1], level)) # {}
  <2>1. Lists(top.rows, A, L, H, level - 1, e[1] \div Width(H, level - 1))
    BY ONLY <1>2, <1>4
  <2> QED  BY ONLY <1>1, <1>3, <2>1, e[1] < LongPow[H], e[1] \in A, SliceThere
<1>7. Slices(top.columns, Digit(H, e[2], level)) # {}
  <2>1. Lists(top.columns, B, L, H, level - 1, e[2] \div Width(H, level - 1))
    BY ONLY <1>2, <1>4
  <2> QED  BY ONLY <1>1, <1>3, <2>1, e[2] < LongPow[H], e[2] \in B, SliceThere
<1> QED  BY ONLY <1>5, <1>6, <1>7 DEF RowSlices, ColumnSlices

\* The activation that is pushed is on the part at the offset, with its vertices.
LEMMA SlicesBelow ==
  ASSUME NEW m, NEW N, NEW H, NEW part, NEW E, Active(m, N, H, part, E),
         NEW A, NEW B, NEW L, PassLists(H, part, frames, A, B, L),
         Access(ttree, node), top.offset \in Offsets,
         NEW rs \in RowSlices, NEW cs \in ColumnSlices
  PROVE  /\ level < H
         /\ Lists(rs, A, L, H, level, PartAt(part, ChildBlock(node)).row)
         /\ Lists(cs, B, L, H, level, PartAt(part, ChildBlock(node)).column)
<1>1. /\ level \in 1..H /\ level \in 1..Len(frames) /\ H \in Nat /\ matrixSize = LongPow[H]
      /\ PartAt(part, top.firstAt).row \in Nat /\ PartAt(part, top.firstAt).column \in Nat
      /\ top = frames[level]
  BY TopParts
<1>2. /\ Lists(top.rows, A, L, H, level - 1, PartAt(part, top.firstAt).row)
      /\ Lists(top.columns, B, L, H, level - 1, PartAt(part, top.firstAt).column)
  BY <1>1 DEF PassLists
<1>3. PICK x \in 0..(N - 1) : /\ top.firstAt = At(x) /\ PartAt(part, top.firstAt) = part[x]
                              /\ (x >= m <=> level = H)
  BY ActiveTop
<1>4. Vectors(ttree, ltree, m, N, H, part)
  BY DEF Active
<1>5. PICK y : y = Rank1(ttree, At(x) + top.offset + 1)
  OBVIOUS
<1>6. Access(ttree, At(x) + top.offset) /\ ChildBlock(node) = y * BLOCK_SIZE
  BY <1>3, <1>5 DEF node, ChildBlock
<1>7. /\ x < m /\ y \in 1..(N - 1) /\ part[y] = Sub(part[x], top.offset)
      /\ y * BLOCK_SIZE = At(y)
  BY ONLY top.offset \in Offsets, x \in 0..(N - 1), <1>4, <1>5, <1>6, BlockBelow
<1>8. PartAt(part, ChildBlock(node)) = Sub(PartAt(part, top.firstAt), top.offset)
  <2>1. y \in Nat
    BY ONLY <1>7
  <2>2. PartAt(part, At(y)) = part[y]
    BY ONLY <2>1, PartAtBlock
  <2> QED  BY ONLY <1>3, <1>6, <1>7, <2>2
<1>9. top.offset \div K \in 0..(K - 1) /\ top.offset % K \in 0..(K - 1)
  BY ONLY top.offset \in Offsets, OffsetDigits DEF Offsets
<1>10. rs \in Slices(top.rows, top.offset \div K) /\ cs \in Slices(top.columns, top.offset % K)
  BY DEF RowSlices, ColumnSlices
<1>11. Lists(rs, A, L, H, level, K * PartAt(part, top.firstAt).row + (top.offset \div K))
  BY ONLY <1>1, <1>2, <1>9, <1>10, SliceListed
<1>12. Lists(cs, B, L, H, level, K * PartAt(part, top.firstAt).column + (top.offset % K))
  BY ONLY <1>1, <1>2, <1>9, <1>10, SliceListed
<1>13. /\ PartAt(part, ChildBlock(node)).row
            = K * PartAt(part, top.firstAt).row + (top.offset \div K)
       /\ PartAt(part, ChildBlock(node)).column
            = K * PartAt(part, top.firstAt).column + (top.offset % K)
  BY ONLY <1>8 DEF Sub, Part
<1>14. level < H
  <2>1. N \in Nat /\ m \in Nat
    BY DEF Active
  <2>2. ~(x >= m)
    BY ONLY <1>7, <2>1, x \in 0..(N - 1)
  <2> QED  BY ONLY <1>1, <1>3, <2>2
<1> QED  BY ONLY <1>11, <1>12, <1>13, <1>14

\* A partition agrees with itself.
LEMMA SamePart ==
  ASSUME NEW fs, NEW k, NEW part
  PROVE  Agree(fs, k, part, part)
BY DEF Agree

\* At a 0, or where it has no vertices to look for, the pass goes to the next offset
\* past no edge.
LEMMA PassSkips ==
  ASSUME NEW m, NEW N, NEW H, NEW part, NEW E, Active(m, N, H, part, E),
         NEW G, NEW A, NEW B, NEW L, NEW s \in {-1, 1}, NEW F,
         Pass(frames, H, part, G, A, B, L, s, F), \A e \in G : e \in F \/ e \in E,
         NEW gs, GoesOn(frames, level, gs, s),
         RowSlices = {} \/ ColumnSlices = {} \/ ~Access(ttree, node)
  PROVE  Pass(gs, H, part, G, A, B, L, s, F)
<1>1. /\ level \in 1..H /\ level \in 1..Len(frames) /\ H \in Nat
      /\ level = Len(frames) /\ top = frames[level]
  BY TopParts
<1>2. /\ Vectors(ttree, ltree, m, N, H, part) /\ Edges(ttree \o ltree, N, H, part) = E
      /\ frames \in Seq(Frames) /\ N \in Nat /\ m \in Nat
  BY DEF Active
<1>3. PICK n \in Nat : n + 1 = level /\ n = level - 1
  <2>1. level - 1 \in Nat /\ (level - 1) + 1 = level
    BY ONLY <1>1
  <2> QED  BY ONLY <2>1
<1>4. MovesOn(frames, n, gs, s, H, part, part)
  <2>1. PICK k : k = level
    OBVIOUS
  <2>2. k \in 1..Len(frames) /\ k <= H /\ GoesOn(frames, k, gs, s) /\ n + 1 = k
    BY <1>1, <1>3, <2>1
  <2>3. Agree(frames, k, part, part)
    BY SamePart
  <2> QED  BY ONLY n \in Nat, s \in {-1, 1}, <1>1, <1>2, <2>2, <2>3, GoesOnMoves
<1>5. ASSUME NEW e \in G, n + 1 < H, Cut(H, e, n) = PartAt(part, frames[n + 1].firstAt),
             Off(H, e, n + 1) = frames[n + 1].offset, e[1] \in A, e[2] \in B, e \notin F
      PROVE  FALSE
  <2>1. e \in Edges(ttree \o ltree, N, H, part)
    BY <1>2, <1>5
  <2>2. Mapped(ttree \o ltree, m, N, H, part)
    BY ONLY <1>2, VectorsParts
  <2>3. e \in Cells /\ e[1] < LongPow[H] /\ e[2] < LongPow[H]
    BY ONLY <2>1, <2>2, EdgesInMatrix
  <2>4. Cut(H, e, level - 1) = PartAt(part, top.firstAt) /\ Off(H, e, level) = top.offset
    BY <1>1, <1>3, <1>5
  <2>5. PassLists(H, part, frames, A, B, L)
    BY DEF Pass
  <2>6. RowSlices # {} /\ ColumnSlices # {}
    BY ONLY Active(m, N, H, part, E), <1>5, <2>3, <2>4, <2>5, SlicesNeeded
  <2>7. ~Access(ttree, node)
    BY <2>6
  <2>8. PICK x \in 0..(N - 1) : /\ top.firstAt = At(x) /\ PartAt(part, top.firstAt) = part[x]
                                /\ (x >= m <=> level = H)
    BY ActiveTop
  <2>9. x \in 0..(m - 1)
    BY ONLY <1>1, <1>2, <1>3, <1>5, <2>8, x \in 0..(N - 1)
  <2>10. top.offset \in Offsets
    <3>1. PICK i : i = level
      OBVIOUS
    <3>2. Off(H, e, i) \in Offsets
      BY ONLY <1>1, <2>3, <3>1, CutStep
    <3> QED  BY ONLY <2>4, <3>1, <3>2
  <2>11. node = At(x) + top.offset
    BY <2>8 DEF node
  <2>12. Bit(ttree \o ltree, x, top.offset) <=> Access(ttree, At(x) + top.offset)
    BY ONLY <1>2, <2>9, <2>10, UpperBits
  <2>13. ~Bit(ttree \o ltree, x, top.offset)
    BY ONLY <2>7, <2>11, <2>12
  <2>14. /\ n \in 0..(H - 1) /\ part[x] = Cut(H, e, n)
         /\ ~Bit(ttree \o ltree, x, Off(H, e, n + 1))
    BY ONLY <1>1, <1>3, <2>4, <2>8, <2>13
  <2>15. e \notin Edges(ttree \o ltree, N, H, part)
    BY ONLY <2>2, <2>14, x \in 0..(N - 1), NoEdgeBelow
  <2> QED  BY ONLY <2>1, <2>15
<1>6. Len(frames) = n + 1
  BY ONLY <1>1, <1>3
<1>7. \A e \in G : (/\ n + 1 < H /\ Cut(H, e, n) = PartAt(part, frames[n + 1].firstAt)
                    /\ Off(H, e, n + 1) = frames[n + 1].offset
                    /\ e[1] \in A /\ e[2] \in B) => e \in F
  BY ONLY <1>5
<1> QED
  BY ONLY n \in Nat, Pass(frames, H, part, G, A, B, L, s, F), <1>4, <1>6, <1>7, PassStep

\* At a 1 the pass goes down, past no edge either.
LEMMA PassDescends ==
  ASSUME NEW m, NEW N, NEW H, NEW part, NEW E, Active(m, N, H, part, E),
         NEW G, NEW A, NEW B, NEW L, NEW s \in {-1, 1}, NEW F,
         Pass(frames, H, part, G, A, B, L, s, F),
         Access(ttree, node), top.offset \in Offsets,
         NEW rs \in RowSlices, NEW cs \in ColumnSlices, NEW f \in Frames,
         f = Frame(rs, cs, ChildBlock(node), IF s = 1 THEN 0 ELSE BLOCK_SIZE - 1),
         NEW gs, gs = Append(frames, f)
  PROVE  Pass(gs, H, part, G, A, B, L, s, F)
<1>1. PassLists(H, part, frames, A, B, L)
  BY DEF Pass
<1>2. /\ level < H
      /\ Lists(rs, A, L, H, level, PartAt(part, ChildBlock(node)).row)
      /\ Lists(cs, B, L, H, level, PartAt(part, ChildBlock(node)).column)
  BY ONLY Active(m, N, H, part, E), Access(ttree, node), top.offset \in Offsets,
          rs \in RowSlices, cs \in ColumnSlices, <1>1, SlicesBelow
<1>3. /\ f.rows = rs /\ f.columns = cs /\ f.firstAt = ChildBlock(node)
      /\ f.offset = IF s = 1 THEN 0 ELSE BLOCK_SIZE - 1
  BY DEF Frame
<1>4. /\ H \in Nat /\ level = Len(frames) /\ frames \in Seq(Frames) /\ Len(frames) \in Nat
  BY DEF Active
<1>5. PICK n : n = level
  OBVIOUS
<1>6. Len(gs) = n + 1 /\ gs[n + 1] = f /\ \A i \in 1..n : gs[i] = frames[i]
  BY ONLY <1>4, <1>5, gs = Append(frames, f), f \in Frames
<1>7. n \in Nat /\ Len(frames) = n /\ n + 1 <= H
  BY ONLY <1>2, <1>4, <1>5
<1>8. gs[n + 1].offset = IF s = 1 THEN 0 ELSE BLOCK_SIZE - 1
  BY ONLY <1>3, <1>6
<1>9. /\ Lists(gs[n + 1].rows, A, L, H, n, PartAt(part, gs[n + 1].firstAt).row)
      /\ Lists(gs[n + 1].columns, B, L, H, n, PartAt(part, gs[n + 1].firstAt).column)
  BY ONLY <1>2, <1>3, <1>5, <1>6
<1> QED
  BY ONLY s \in {-1, 1}, Pass(frames, H, part, G, A, B, L, s, F), <1>4, <1>6, <1>7, <1>8, <1>9,
          PassPush

\* When the activation on top returns, the pass has passed its cells.
LEMMA PassComesBack ==
  ASSUME NEW m, NEW N, NEW H, NEW part, NEW E, Active(m, N, H, part, E),
         NEW G, NEW A, NEW B, NEW L, NEW s \in {-1, 1}, NEW F,
         Pass(frames, H, part, G, A, B, L, s, F),
         level # 1, NEW gs, GoesOn(frames, level - 1, gs, s),
         NEW q, Agree(frames, level - 1, part, q),
         level < H => IF s = 1 THEN top.offset >= BLOCK_SIZE ELSE top.offset < 0,
         NEW D, D \subseteq G,
         \A e \in G : e \in D <=> \/ e \in F
                                  \/ /\ level = H
                                     /\ Cut(H, e, H - 1) = PartAt(part, top.firstAt)
                                     /\ e[1] \in A /\ e[2] \in B
  PROVE  Pass(gs, H, q, G, A, B, L, s, D)
<1>1. /\ H \in Nat /\ level = Len(frames) /\ frames \in Seq(Frames) /\ Len(frames) \in Nat
      /\ Len(frames) <= H /\ Len(frames) >= 1 /\ top = frames[level] /\ top \in Frames
      /\ part \in [0..(N - 1) -> Parts] /\ Along(N, part, frames)
  BY DEF Active
<1>2. PICK n \in Nat : n + 2 = level /\ n + 1 = level - 1
  <2>1. level - 2 \in Nat /\ (level - 2) + 2 = level /\ (level - 2) + 1 = level - 1
    BY ONLY <1>1, level # 1
  <2> QED  BY ONLY <2>1
<1>3. PICK k : k = level - 1
  OBVIOUS
<1>4. k \in 1..Len(frames) /\ k <= H /\ n + 1 = k
  BY ONLY <1>1, <1>2, <1>3
<1>5. GoesOn(frames, k, gs, s) /\ Agree(frames, k, part, q)
  BY <1>3
<1>6. MovesOn(frames, n, gs, s, H, part, q)
  BY ONLY n \in Nat, s \in {-1, 1}, <1>1, <1>4, <1>5, GoesOnMoves
<1>7. top.offset \in Int
  <2>1. top.offset \in Nat \cup {-1}
    BY ONLY <1>1 DEF Frames
  <2> QED  BY ONLY <2>1
<1>8. Len(frames) = n + 2 /\ n + 2 <= H /\ frames[n + 2] = top
  BY ONLY <1>1, <1>2
<1>9. n + 2 < H => IF s = 1 THEN frames[n + 2].offset >= BLOCK_SIZE ELSE frames[n + 2].offset < 0
  BY <1>2, <1>8
<1>10. Moves(frames, n + 1, gs, s) /\ Agree(frames, n + 1, part, q)
  BY ONLY <1>6 DEF MovesOn
<1>11. Returns(N, part, frames, n, gs, s, H, q)
  BY ONLY s \in {-1, 1}, <1>1, <1>7, <1>8, <1>9, <1>10 DEF Returns
<1>12. \A e \in G : e \in D <=> \/ e \in F
                                \/ /\ n + 2 = H
                                   /\ Cut(H, e, H - 1) = PartAt(part, frames[n + 2].firstAt)
                                   /\ e[1] \in A /\ e[2] \in B
  BY <1>2, <1>8
<1> QED
  BY ONLY n \in Nat, Pass(frames, H, part, G, A, B, L, s, F), D \subseteq G, <1>6, <1>11, <1>12,
          PassReturn

\* When it is above the last level, they have been passed before.
LEMMA PassGoesBack ==
  ASSUME NEW m, NEW N, NEW H, NEW part, NEW E, Active(m, N, H, part, E), level < H,
         NEW G, NEW A, NEW B, NEW L, NEW s \in {-1, 1}, NEW F,
         Pass(frames, H, part, G, A, B, L, s, F),
         level # 1, NEW gs, GoesOn(frames, level - 1, gs, s),
         NEW q, Agree(frames, level - 1, part, q),
         IF s = 1 THEN top.offset >= BLOCK_SIZE ELSE top.offset < 0
  PROVE  Pass(gs, H, q, G, A, B, L, s, F)
<1>1. level # H
  BY ONLY level < H, Active(m, N, H, part, E), TopParts
<1>2. F \subseteq G
  BY DEF Pass
<1>3. PICK D : D = F
  OBVIOUS
<1>4. D \subseteq G
  BY ONLY <1>2, <1>3
<1>5. \A e \in G : e \in D <=> \/ e \in F
                                \/ /\ level = H
                                   /\ Cut(H, e, H - 1) = PartAt(part, top.firstAt)
                                   /\ e[1] \in A /\ e[2] \in B
  BY ONLY <1>1, <1>3
<1>6. level < H => IF s = 1 THEN top.offset >= BLOCK_SIZE ELSE top.offset < 0
  OBVIOUS
<1>7. Pass(gs, H, q, G, A, B, L, s, D)
  BY ONLY Active(m, N, H, part, E), s \in {-1, 1}, Pass(frames, H, part, G, A, B, L, s, F),
          level # 1, GoesOn(frames, level - 1, gs, s), Agree(frames, level - 1, part, q),
          <1>4, <1>5, <1>6, PassComesBack
<1> QED  BY <1>3, <1>7

\* The first activation, at its last offset.
AtEnd(s) == /\ level = 1 /\ s \in {-1, 1}
            /\ IF s = 1 THEN top.offset >= BLOCK_SIZE ELSE top.offset < 0

\* The pass has passed all its edges then.
LEMMA PassEnds ==
  ASSUME NEW m, NEW N, NEW H, NEW part, NEW E, Active(m, N, H, part, E),
         NEW G, NEW A, NEW B, NEW L, NEW s, NEW F,
         Pass(frames, H, part, G, A, B, L, s, F), AtEnd(s)
  PROVE  \A e \in G : Cut(H, e, 0) = Whole => (e \in F <=> e[1] \in A /\ e[2] \in B)
<1>1. PICK fs : fs = frames
  OBVIOUS
<1>2. /\ H \in Nat /\ H >= 2 /\ Len(fs) = 1 /\ top = fs[1] /\ top \in Frames
      /\ Along(N, part, fs) /\ Pass(fs, H, part, G, A, B, L, s, F)
      /\ s \in {-1, 1}
  BY <1>1 DEF Active, AtEnd
<1>3. PartAt(part, fs[1].firstAt) = Whole
  BY ONLY <1>2 DEF Along
<1>4. top.offset \in Int
  <2>1. top.offset \in Nat \cup {-1}
    BY ONLY <1>2 DEF Frames
  <2> QED  BY ONLY <2>1
<1>5. fs[1].offset \in Int
  BY ONLY <1>2, <1>4
<1>6. IF s = 1 THEN fs[1].offset >= BLOCK_SIZE ELSE fs[1].offset < 0
  BY <1>2 DEF AtEnd
<1>7. SUFFICES ASSUME NEW e \in G, Cut(H, e, 0) = Whole
               PROVE  e \in F <=> e[1] \in A /\ e[2] \in B
  OBVIOUS
<1>8. G \subseteq Cells /\ \A c \in G : c \in F <=> c[1] \in A /\ c[2] \in B /\ Passed(fs, H, part, c, s)
  BY ONLY <1>2 DEF Pass
<1>9. Passed(fs, H, part, e, s)
  <2>1. e \in Cells /\ PartAt(part, fs[1].firstAt) = Cut(H, e, 0)
    BY ONLY <1>3, <1>7, <1>8
  <2> QED  BY ONLY <1>2, <1>5, <1>6, <2>1, WholePassed
<1> QED  BY ONLY <1>7, <1>8, <1>9
-----------------------------------------------------------------------------
(* reportAllEdges.                                                         *)

\* There are findings only while it runs.
NoFindings == pc # "find" => findings = <<>>

\* v has no element twice.
Once(v) == \A i, j \in 1..Len(v) : v[i] = v[j] => i = j

\* v has every element of S once.
Enumerates(v, S) == v \in Seq(S) /\ Elements(v) = S /\ Once(v)

\* It has found the edges that its activations have passed, each of them once.
FindHolds ==
  pc = "find" =>
    /\ Once(findings)
    /\ \E m, N, H, part :
         /\ Holds(matrixSize, ttree, ltree, m, N, H, part, graph)
         /\ Pass(frames, H, part, graph, Elements(call.A), Elements(call.B), Nat, 1, Elements(findings))

\* It replies with a list of the edges that were asked for.
Reported ==
  \E v : /\ Enumerates(v, graph \cap (Elements(call.A) \X Elements(call.B)))
         /\ reply' = [call |-> call, edges |-> v]

\* A sequence has the elements of its parts, and none twice if no part has and they share none.
LEMMA ConcatOnce ==
  ASSUME NEW X, NEW v \in Seq(X), NEW w \in Seq(X)
  PROVE  /\ Elements(v \o w) = Elements(v) \cup Elements(w)
         /\ Once(v) /\ Once(w) /\ Elements(v) \cap Elements(w) = {} => Once(v \o w)
<1> DEFINE u == v \o w
<1>1. /\ Len(v) \in Nat /\ Len(w) \in Nat /\ Len(u) = Len(v) + Len(w)
      /\ \A i \in 1..Len(v) : u[i] = v[i]
      /\ \A i \in 1..Len(w) : u[Len(v) + i] = w[i]
  OBVIOUS
<1> HIDE DEF u
<1>2. ASSUME NEW i \in 1..Len(u)
      PROVE  \/ i \in 1..Len(v) /\ u[i] = v[i]
             \/ \E k \in 1..Len(w) : i = Len(v) + k /\ u[i] = w[k]
  <2>1. CASE i <= Len(v)
    BY <1>1, <2>1
  <2>2. CASE i > Len(v)
    <3>1. i - Len(v) \in 1..Len(w) /\ i = Len(v) + (i - Len(v))
      BY <1>1, <2>2
    <3> QED  BY <1>1, <3>1
  <2> QED  BY <1>1, <2>1, <2>2
<1>3. ASSUME NEW i \in 1..Len(w) PROVE Len(v) + i \in 1..Len(u)
  BY <1>1
<1>4. \A i \in 1..Len(v) : i \in 1..Len(u)
  BY <1>1
<1>5. Elements(u) = Elements(v) \cup Elements(w)
  <2>1. \A x \in Elements(u) : x \in Elements(v) \cup Elements(w)
    BY ONLY <1>2 DEF Elements
  <2>2. \A x \in Elements(v) : x \in Elements(u)
    BY ONLY <1>1, <1>4 DEF Elements
  <2>3. \A x \in Elements(w) : x \in Elements(u)
    BY ONLY <1>1, <1>3 DEF Elements
  <2> QED  BY <2>1, <2>2, <2>3
<1>6. ASSUME Once(v), Once(w), Elements(v) \cap Elements(w) = {} PROVE Once(u)
  <2>1. ASSUME NEW i \in 1..Len(v), NEW k \in 1..Len(w) PROVE v[i] # w[k]
    BY ONLY <1>6, <2>1 DEF Elements
  <2> SUFFICES ASSUME NEW i \in 1..Len(u), NEW j \in 1..Len(u), u[i] = u[j] PROVE i = j
    BY DEF Once
  <2> QED  BY ONLY <1>2, <1>6, <2>1, u[i] = u[j], i \in 1..Len(u), j \in 1..Len(u) DEF Once
<1> QED  BY <1>5, <1>6 DEF u

\* A sequence is one of its elements.
LEMMA SequenceOfElements ==
  ASSUME NEW X, NEW v \in Seq(X)
  PROVE  v \in Seq(Elements(v))
<1>1. v \in [1..Len(v) -> X] /\ Len(v) \in Nat
  OBVIOUS
<1>2. \A i \in 1..Len(v) : v[i] \in Elements(v)
  BY DEF Elements
<1>3. v \in [1..Len(v) -> Elements(v)]
  BY <1>1, <1>2
<1> QED  BY <1>1, <1>3

\* Only findAllEdges adds findings.
LEMMA NextNoFindings == NoFindings /\ [Next]_vars => NoFindings'
<1> SUFFICES ASSUME NoFindings, [Next]_vars PROVE NoFindings'
  OBVIOUS
<1>1. CASE Call
  <2>1. \/ pc = "idle" /\ pc' # "idle" /\ findings' = findings
        \/ findings' = <<>>
    BY <1>1 DEF Call, InsertEntry, DeleteEntry, AddEdge, RemoveEdge, ReportEdge, ReportAllEdges,
                StartTraverse, Begin, Throw, Finish
  <2> QED  BY <2>1 DEF NoFindings
<1>2. CASE Step
  <2>1. \/ findings' = <<>>
        \/ pc = "find" /\ pc' = pc
        \/ pc # "find" /\ findings' = findings
    BY <1>2 DEF Step, TraverseOne, ReportEdgeReturns, AddEdgeInLTree, AddEdgeAtFirst0, ExtendTTree,
                ExtendLTree, RemoveDescends, RemoveStops, RemoveInLTree, Prune, CollectOthers,
                DeleteSkips, DeleteKeeps, DeleteDescends, DeleteReturns, DeleteInLTree,
                FindSkips, FindDescends, FindDone, FindInLTree, FindAtTTree, FindReturns,
                AtTTreeOffset, Deleting, NextOffset, CallerContinues, PassReturns, Throw, Finish,
                AtFirst0, AtLTree
  <2> QED  BY <2>1 DEF NoFindings
<1>3. CASE UNCHANGED vars
  BY <1>3 DEF NoFindings, vars, locals
<1> QED  BY <1>1, <1>2, <1>3 DEF Next

\* The vertices of a query are in the matrix, and are not all the numbers.
LEMMA QueryInMatrix ==
  ASSUME QueryAsked
  PROVE  /\ call.A \in Seq(Nat) /\ call.B \in Seq(Nat)
         /\ \A v \in Elements(call.A) \cup Elements(call.B) : v < matrixSize
<1>1. <<call.A, call.B>> \in Queries /\ \A v \in Elements(call.A) \cup Elements(call.B) : v < matrixSize
  BY DEF QueryAsked
<1>2. <<call.A, call.B>> \in Seq(Nat) \X Seq(Nat)
  BY ONLY <1>1, BoundsAssumption
<1> QED  BY ONLY <1>1, <1>2

\* sortAndCheckVector gives a list of them.
LEMMA SortedLists ==
  ASSUME NEW H \in Nat, NEW v \in Seq(Nat), NEW w \in Sorted(Elements(v)), NEW L,
         \A x \in Elements(v) : x < LongPow[H]
  PROVE  Lists(w, Elements(v), L, H, 0, 0)
<1>1. w \in Seq(Nat) /\ Ascending(w) /\ Elements(w) = Elements(v)
  BY SortedAscends
<1>2. ASSUME NEW j \in 1..Len(w) PROVE w[j] < LongPow[H]
  <2>1. w[j] \in Elements(w)
    BY <1>2 DEF Elements
  <2> QED  BY <1>1, <2>1
<1>3. ASSUME NEW j \in 1..Len(w) PROVE w[j] <= LongPow[H]
  <2>1. w[j] < LongPow[H] /\ w[j] \in Nat
    BY <1>1, <1>2, <1>3
  <2>2. LongPow[H] \in Nat
    BY ONLY H \in Nat, LongPowPositive
  <2> QED  BY ONLY <2>1, <2>2
<1>4. Lists(w, Elements(w), L, H, 0, 0)
  <2>1. w \in Seq(Nat) /\ Ascending(w) /\ \A j \in 1..Len(w) : w[j] <= LongPow[H]
    BY ONLY <1>1, <1>3
  <2>2. L \subseteq Elements(w) \/ \A j \in 1..Len(w) : w[j] < LongPow[H]
    BY ONLY <1>2
  <2> QED  BY ONLY H \in Nat, <2>1, <2>2, ListsWhole
<1> QED  BY ONLY <1>1, <1>4

\* It begins with nothing passed.
LEMMA ReportAllEdgesHolds ==
  ASSUME SomeStructure, IdleHolds, NoFindings, Asked', NEW A, NEW B, ReportAllEdges(A, B),
         pc' # "idle", UNCHANGED graph
  PROVE  FindHolds'
<1>1. PICK rs \in Sorted(Elements(A)), cs \in Sorted(Elements(B)) :
        frames' = <<Frame(rs, cs, 0, 0)>>
  BY DEF ReportAllEdges, Throw, Finish
<1>2. /\ pc = "idle" /\ pc' = "find" /\ call' = [op |-> "reportAllEdges", A |-> A, B |-> B]
      /\ UNCHANGED <<matrix, findings>>
  BY DEF ReportAllEdges, Throw, Finish, Begin
<1>3. matrixSize' = matrixSize /\ ttree' = ttree /\ ltree' = ltree /\ findings' = <<>>
  BY <1>2 DEF matrix, NoFindings
<1>4. PICK m, N, H, part : Holds(matrixSize, ttree, ltree, m, N, H, part, graph)
  BY <1>2 DEF IdleHolds
<1>5. /\ H \in Nat /\ H >= 2 /\ matrixSize = LongPow[H] /\ Vectors(ttree, ltree, m, N, H, part)
      /\ Edges(ttree \o ltree, N, H, part) = graph
  BY <1>4, SameHeight
<1>6. call'.A = A /\ call'.B = B
  BY <1>2
<1>7. /\ A \in Seq(Nat) /\ B \in Seq(Nat)
      /\ \A v \in Elements(A) \cup Elements(B) : v < LongPow[H]
  <2>1. QueryAsked'
    BY <1>2 DEF Asked
  <2>2. <<call'.A, call'.B>> \in Queries
        /\ \A v \in Elements(call'.A) \cup Elements(call'.B) : v < matrixSize'
    BY <2>1 DEF QueryAsked
  <2>3. <<A, B>> \in Queries /\ \A v \in Elements(A) \cup Elements(B) : v < LongPow[H]
    BY <1>3, <1>5, <1>6, <2>2
  <2>4. <<A, B>> \in Seq(Nat) \X Seq(Nat)
    BY ONLY <2>3, BoundsAssumption
  <2> QED  BY ONLY <2>3, <2>4
<1>8. Lists(rs, Elements(A), Nat, H, 0, 0) /\ Lists(cs, Elements(B), Nat, H, 0, 0)
  <2>1. (\A x \in Elements(A) : x < LongPow[H]) /\ \A x \in Elements(B) : x < LongPow[H]
    BY ONLY <1>7
  <2> QED  BY ONLY <1>1, <1>5, <1>7, <2>1, SortedLists
<1>9. PICK fs : fs = frames'
  OBVIOUS
<1>10. Len(fs) = 1 /\ fs[1] = Frame(rs, cs, 0, 0)
  BY <1>1, <1>9
<1>11. /\ fs[1].rows = rs /\ fs[1].columns = cs /\ fs[1].firstAt = 0 /\ fs[1].offset = 0
  BY ONLY <1>10 DEF Frame
<1>12. PartAt(part, fs[1].firstAt) = Whole
  <2>1. part[0] = Whole
    BY ONLY <1>5, VectorsParts DEF Mapped, Named
  <2>2. PartAt(part, At(0)) = part[0] /\ At(0) = 0
    BY PartAtBlock, AtOrder
  <2> QED  BY ONLY <1>11, <2>1, <2>2
<1>13. graph \subseteq Cells
  BY ONLY <1>5 DEF Edges
<1>14. PICK s : s = 1
  OBVIOUS
<1>15. /\ s \in {-1, 1} /\ fs[1].offset = IF s = 1 THEN 0 ELSE BLOCK_SIZE - 1
  BY ONLY <1>11, <1>14
<1>16. /\ Lists(fs[1].rows, Elements(A), Nat, H, 0, 0)
       /\ Lists(fs[1].columns, Elements(B), Nat, H, 0, 0)
  BY ONLY <1>8, <1>11
<1>17. Pass(fs, H, part, graph, Elements(A), Elements(B), Nat, s, {})
  BY ONLY <1>5, <1>10, <1>12, <1>13, <1>15, <1>16, PassStart
<1>18. Elements(findings') = {} /\ Once(findings')
  <2>1. Len(findings') = 0
    BY ONLY <1>3
  <2> QED  BY ONLY <2>1 DEF Elements, Once
<1>19. Pass(frames', H, part, graph', Elements(call'.A), Elements(call'.B), Nat, 1, Elements(findings'))
  BY ONLY <1>3, <1>6, <1>9, <1>14, <1>17, <1>18, graph' = graph
<1>20. Holds(matrixSize', ttree', ltree', m, N, H, part, graph')
  BY ONLY <1>3, <1>4, graph' = graph
<1> QED  BY ONLY <1>18, <1>19, <1>20 DEF FindHolds

\* Where findAllEdges is.
LEMMA Finding ==
  ASSUME Typed, SomeStructure, FindHolds, pc = "find"
  PROVE  \E m, N, H, part :
           /\ Holds(matrixSize, ttree, ltree, m, N, H, part, graph)
           /\ Active(m, N, H, part, graph)
           /\ Pass(frames, H, part, graph, Elements(call.A), Elements(call.B), Nat, 1, Elements(findings))
<1>1. PICK m, N, H, part :
        /\ Holds(matrixSize, ttree, ltree, m, N, H, part, graph)
        /\ Pass(frames, H, part, graph, Elements(call.A), Elements(call.B), Nat, 1, Elements(findings))
  BY DEF FindHolds
<1>2. Active(m, N, H, part, graph)
  BY <1>1, Activations
<1> QED  BY ONLY <1>1, <1>2

\* It goes on with other activations, in the same matrix.
LEMMA FindGoesOn ==
  ASSUME UNCHANGED <<matrix, call, graph>>, Once(findings'),
         NEW m, NEW N, NEW H, NEW part,
         Holds(matrixSize, ttree, ltree, m, N, H, part, graph),
         Pass(frames', H, part, graph, Elements(call.A), Elements(call.B), Nat, 1, Elements(findings'))
  PROVE  FindHolds'
<1>1. /\ matrixSize' = matrixSize /\ ttree' = ttree /\ ltree' = ltree
      /\ call' = call /\ graph' = graph
  BY DEF matrix
<1>2. /\ Holds(matrixSize', ttree', ltree', m, N, H, part, graph')
      /\ Pass(frames', H, part, graph', Elements(call'.A), Elements(call'.B), Nat, 1, Elements(findings'))
  BY <1>1
<1> QED  BY ONLY <1>2, Once(findings') DEF FindHolds

\* findAllEdges skips an offset without an edge that is asked for.
LEMMA FindSkipsHolds ==
  ASSUME Typed, SomeStructure, FindHolds, FindSkips, UNCHANGED graph
  PROVE  FindHolds'
<1>1. /\ pc = "find" /\ UNCHANGED <<matrix, call, graph>> /\ findings' = findings
      /\ RowSlices = {} \/ ColumnSlices = {} \/ ~Access(ttree, node)
  BY DEF FindSkips, FindAtTTree
<1>2. PICK m, N, H, part :
           /\ Holds(matrixSize, ttree, ltree, m, N, H, part, graph)
           /\ Active(m, N, H, part, graph)
           /\ Pass(frames, H, part, graph, Elements(call.A), Elements(call.B), Nat, 1, Elements(findings))
  BY <1>1, Finding
<1>3. PICK A : A = Elements(call.A)
  OBVIOUS
<1>4. PICK B : B = Elements(call.B)
  OBVIOUS
<1>5. PICK s : s = 1
  OBVIOUS
<1>6. PICK gs : gs = frames'
  OBVIOUS
<1>7. GoesOn(frames, level, gs, s)
  BY <1>5, <1>6, FindSkipsGoesOn
<1>8. Pass(frames, H, part, graph, A, B, Nat, s, Elements(findings))
  BY <1>2, <1>3, <1>4, <1>5
<1>9. s \in {-1, 1} /\ \A e \in graph : e \in Elements(findings) \/ e \in graph
  BY <1>5
<1>10. Pass(gs, H, part, graph, A, B, Nat, s, Elements(findings))
  BY ONLY <1>1, <1>2, <1>7, <1>8, <1>9, PassSkips
<1>11. Pass(frames', H, part, graph, Elements(call.A), Elements(call.B), Nat, 1, Elements(findings'))
  BY ONLY <1>1, <1>3, <1>4, <1>5, <1>6, <1>10
<1>12. Once(findings')
  BY ONLY <1>1, FindHolds DEF FindHolds
<1> QED  BY ONLY <1>1, <1>2, <1>11, <1>12, FindGoesOn

\* It goes down to the edges of a 1.
LEMMA FindDescendsHolds ==
  ASSUME Typed, SomeStructure, FindHolds, FindDescends, UNCHANGED graph
  PROVE  FindHolds'
<1>1. /\ pc = "find" /\ UNCHANGED <<matrix, call, graph>> /\ findings' = findings
      /\ top.offset < BLOCK_SIZE /\ Access(ttree, node)
  BY DEF FindDescends, FindAtTTree
<1>2. PICK rs \in RowSlices, cs \in ColumnSlices :
        frames' = Append(frames, Frame(rs, cs, ChildBlock(node), 0))
  BY DEF FindDescends
<1>3. PICK m, N, H, part :
           /\ Holds(matrixSize, ttree, ltree, m, N, H, part, graph)
           /\ Active(m, N, H, part, graph)
           /\ Pass(frames, H, part, graph, Elements(call.A), Elements(call.B), Nat, 1, Elements(findings))
  BY <1>1, Finding
<1>4. PICK A : A = Elements(call.A)
  OBVIOUS
<1>5. PICK B : B = Elements(call.B)
  OBVIOUS
<1>6. PICK s : s = 1
  OBVIOUS
<1>7. PICK gs : gs = frames'
  OBVIOUS
<1>8. frames \in Seq(Frames) /\ frames # <<>> /\ ttree \in Seq(BOOLEAN)
      /\ level = Len(frames) /\ level \in 1..Len(frames)
      /\ \A i \in 1..Len(frames) : frames[i].offset \in Nat
  BY <1>1, FindTypes DEF Typed, TypeOK
<1>9. top.offset \in Offsets
  <2>1. top.offset \in Nat
    BY <1>8 DEF top
  <2> QED  BY <1>1, <2>1, BlockSize DEF Offsets
<1>10. PICK f : f = Frame(rs, cs, ChildBlock(node), 0)
  OBVIOUS
<1>11. f \in Frames
  <2>1. rs \in Seq(Nat) /\ cs \in Seq(Nat)
    BY <1>8, SlicesOfTop
  <2>2. ChildBlock(node) \in Nat
    BY <1>8, Rank1Type, BlockSize DEF ChildBlock
  <2>3. 0 \in Nat \cup {-1}
    OBVIOUS
  <2> QED  BY ONLY <1>10, <2>1, <2>2, <2>3, FrameType
<1>12. /\ s \in {-1, 1} /\ gs = Append(frames, f)
       /\ f = Frame(rs, cs, ChildBlock(node), IF s = 1 THEN 0 ELSE BLOCK_SIZE - 1)
  BY <1>2, <1>6, <1>7, <1>10
<1>13. Pass(frames, H, part, graph, A, B, Nat, s, Elements(findings))
  BY <1>3, <1>4, <1>5, <1>6
<1>14. Pass(gs, H, part, graph, A, B, Nat, s, Elements(findings))
  BY ONLY rs \in RowSlices, cs \in ColumnSlices, <1>1, <1>3, <1>9, <1>11, <1>12, <1>13, PassDescends
<1>15. Pass(frames', H, part, graph, Elements(call.A), Elements(call.B), Nat, 1, Elements(findings'))
  BY ONLY <1>1, <1>4, <1>5, <1>6, <1>7, <1>14
<1>16. Once(findings')
  BY ONLY <1>1, FindHolds DEF FindHolds
<1> QED  BY ONLY <1>1, <1>3, <1>15, <1>16, FindGoesOn

\* An activation of findAllEdges that has looked at all offsets returns; the first one
\* has found all the edges that were asked for.
LEMMA FindDoneHolds ==
  ASSUME Typed, SomeStructure, FindHolds, FindDone, GraphKept
  PROVE  \/ FindHolds' /\ pc' = "find"
         \/ Ends(graph) /\ Reported
<1>1. /\ pc = "find" /\ Partition(level) > 1 /\ top.offset = BLOCK_SIZE /\ FindReturns(<<>>)
      /\ UNCHANGED matrix
  BY DEF FindDone, FindAtTTree, FindReturns
<1>2. PICK m, N, H, part :
           /\ Holds(matrixSize, ttree, ltree, m, N, H, part, graph)
           /\ Active(m, N, H, part, graph)
           /\ Pass(frames, H, part, graph, Elements(call.A), Elements(call.B), Nat, 1, Elements(findings))
  BY <1>1, Finding
<1>3. PICK A : A = Elements(call.A)
  OBVIOUS
<1>4. PICK B : B = Elements(call.B)
  OBVIOUS
<1>5. PICK s : s = 1
  OBVIOUS
<1>6. Pass(frames, H, part, graph, A, B, Nat, s, Elements(findings))
  BY <1>2, <1>3, <1>4, <1>5
<1>7. /\ level \in 1..H /\ level \in 1..Len(frames) /\ H \in Nat /\ matrixSize = LongPow[H]
      /\ level = Len(frames) /\ top = frames[level]
  BY ONLY <1>2, TopParts
<1>8. /\ Vectors(ttree, ltree, m, N, H, part) /\ Edges(ttree \o ltree, N, H, part) = graph
      /\ H >= 2 /\ Along(N, part, frames)
  BY ONLY <1>2 DEF Active
<1>9. level < H
  <2>1. level \in Nat
    BY ONLY <1>7
  <2> QED  BY ONLY <1>1, <1>7, <2>1, PartitionSizes
<1>10. PICK F : F = Elements(findings)
  OBVIOUS
<1>11. findings \in Seq(Nat \X Nat) /\ Once(findings) /\ findings \o <<>> = findings
  <2>1. findings \in Seq(Nat \X Nat)
    BY DEF Typed, TypeOK
  <2>2. Once(findings)
    BY ONLY <1>1, FindHolds DEF FindHolds
  <2>3. findings \o <<>> = findings
    BY ONLY <2>1
  <2> QED  BY ONLY <2>1, <2>2, <2>3
<1>12. CASE level = 1
  <2>1. pc' = "idle" /\ reply' = [call |-> call, edges |-> findings]
    BY ONLY <1>1, <1>11, <1>12 DEF FindReturns, Finish
  <2>5. s \in {-1, 1}
    BY ONLY <1>5
  <2>6. ASSUME NEW e \in graph PROVE e \in F <=> e[1] \in A /\ e[2] \in B
    <3>1. e \in Edges(ttree \o ltree, N, H, part) /\ Mapped(ttree \o ltree, m, N, H, part)
      BY ONLY <1>8, <2>6, VectorsParts
    <3>2. Cut(H, e, 0) = Whole
      BY ONLY <3>1, EdgesInMatrix
    <3>3. AtEnd(s)
      BY ONLY <1>1, <1>5, <1>12, <2>5, BlockSize DEF AtEnd
    <3>4. Active(m, N, H, part, graph)
      BY ONLY <1>2
    <3>5. \A c \in graph : Cut(H, c, 0) = Whole => (c \in F <=> c[1] \in A /\ c[2] \in B)
      BY ONLY <1>6, <1>10, <3>3, <3>4, PassEnds
    <3> QED
      BY ONLY <2>6, <3>2, <3>5
  <2>7. F \subseteq graph /\ graph \subseteq Cells
    BY ONLY <1>6, <1>10 DEF Pass
  <2>8. \A e : e \in F <=> e \in graph \cap (A \X B)
    <3> SUFFICES ASSUME NEW e PROVE e \in F <=> e \in graph \cap (A \X B)
      OBVIOUS
    <3>1. CASE e \in graph
      <4>1. e \in Nat \X Nat
        BY ONLY <2>7, <3>1 DEF Cells
      <4>2. e \in A \X B <=> e[1] \in A /\ e[2] \in B
        BY ONLY <4>1
      <4> QED  BY ONLY <2>6, <3>1, <4>2
    <3>2. CASE e \notin graph
      BY ONLY <2>7, <3>2
    <3> QED  BY ONLY <3>1, <3>2
  <2>9. Enumerates(findings, graph \cap (A \X B))
    <3>1. Elements(findings) = graph \cap (A \X B)
      BY ONLY <1>10, <2>8
    <3>2. findings \in Seq(Elements(findings))
      BY ONLY <1>11, SequenceOfElements
    <3> QED  BY ONLY <1>11, <3>1, <3>2 DEF Enumerates
  <2>10. Holds(matrixSize', ttree', ltree', m, N, H, part, graph)
    BY <1>1, <1>2 DEF matrix
  <2>11. Ends(graph)
    BY ONLY <2>1, <2>10 DEF Ends
  <2>12. Reported
    BY ONLY <1>3, <1>4, <2>1, <2>9 DEF Reported
  <2> QED  BY ONLY <2>11, <2>12
<1>13. CASE level # 1
  <2>1. pc' = "find" /\ UNCHANGED <<matrix, call, graph>> /\ findings' = findings
    BY <1>1, <1>11, <1>13 DEF FindReturns, GraphKept
  <2>2. PICK gs : gs = frames'
    OBVIOUS
  <2>3. GoesOn(frames, level - 1, gs, s)
    BY <1>1, <1>5, <1>13, <2>2, FindReturnsGoesOn
  <2>4. Agree(frames, level - 1, part, part)
    BY ONLY SamePart
  <2>5. s \in {-1, 1} /\ (level < H => IF s = 1 THEN top.offset >= BLOCK_SIZE ELSE top.offset < 0)
    BY ONLY <1>1, <1>5, BlockSize
  <2>6. /\ Active(m, N, H, part, graph) /\ level < H
        /\ Pass(frames, H, part, graph, A, B, Nat, s, Elements(findings))
    BY ONLY <1>2, <1>6, <1>9
  <2>7. Pass(gs, H, part, graph, A, B, Nat, s, Elements(findings))
    BY ONLY <1>9, <1>13, <2>3, <2>4, <2>5, <2>6, PassGoesBack
  <2>8. Pass(frames', H, part, graph, Elements(call.A), Elements(call.B), Nat, 1, Elements(findings'))
    BY ONLY <1>3, <1>4, <1>5, <2>1, <2>2, <2>7
  <2>9. FindHolds'
    BY ONLY <1>2, <1>11, <2>1, <2>8, FindGoesOn
  <2> QED  BY ONLY <2>1, <2>9
<1> QED  BY ONLY <1>12, <1>13

\* On the last level a list that is not for all the vertices has just those of A.
LEMMA EntriesOnLeaf ==
  ASSUME NEW H \in Nat, NEW d, NEW v, NEW A, NEW L, ~(L \subseteq A), NEW c, Lists(v, A, L, H, d, c),
         NEW x
  PROVE  x \in Elements(v) <=> x \in Nat /\ x < LongPow[H] /\ x \in A /\ x \div Width(H, d) = c
<1>1. /\ v \in Seq(Nat) /\ \A j \in 1..Len(v) : v[j] < LongPow[H]
      /\ \A y \in Nat : y < LongPow[H] => (y \in Elements(v) <=> y \in A /\ y \div Width(H, d) = c)
  BY DEF Lists
<1>2. x \in Elements(v) => x \in Nat /\ x < LongPow[H]
  BY ONLY <1>1 DEF Elements
<1> QED  BY ONLY <1>1, <1>2

\* A cell is in the partition with its row and its column.
LEMMA CellIn ==
  ASSUME NEW H, NEW e, NEW d, NEW l \in Parts, l.level = d
  PROVE  Cut(H, e, d) = l <=> e[1] \div Width(H, d) = l.row /\ e[2] \div Width(H, d) = l.column
<1>1. l = Part(d, l.row, l.column)
  BY DEF Parts, Part
<1>2. Cut(H, e, d) = Part(d, e[1] \div Width(H, d), e[2] \div Width(H, d))
  BY DEF Cut
<1>3. Part(d, e[1] \div Width(H, d), e[2] \div Width(H, d)) = Part(d, l.row, l.column)
        <=> e[1] \div Width(H, d) = l.row /\ e[2] \div Width(H, d) = l.column
  BY ONLY PartEqual
<1> QED  BY ONLY <1>1, <1>2, <1>3

\* findEdgesInLTree finds the edges of A \X B in its partition.
LEMMA FoundEdges ==
  ASSUME NEW m, NEW N, NEW H, NEW part, NEW E, Active(m, N, H, part, E), level = H,
         NEW A, NEW B, ~(Nat \subseteq A), ~(Nat \subseteq B),
         PassLists(H, part, frames, A, B, Nat),
         NEW e
  PROVE  e \in LeafEdges <=> /\ e \in E /\ Cut(H, e, H - 1) = PartAt(part, top.firstAt)
                             /\ e[1] \in A /\ e[2] \in B
<1>1. PICK x \in 0..(N - 1) :
           /\ top.firstAt = At(x) /\ PartAt(part, top.firstAt) = part[x]
           /\ part[x].level = level - 1 /\ x \in Nat /\ At(x) \in Nat /\ Len(ttree) \in Nat
  BY ONLY Active(m, N, H, part, E), ActiveTop
<1>2. /\ level \in 1..H /\ level \in 1..Len(frames) /\ H \in Nat /\ matrixSize = LongPow[H]
      /\ part[x] \in Parts /\ top = frames[level]
  BY ONLY Active(m, N, H, part, E), <1>1, TopParts
<1>3. /\ Vectors(ttree, ltree, m, N, H, part) /\ Edges(ttree \o ltree, N, H, part) = E
  BY ONLY Active(m, N, H, part, E) DEF Active
<1>4. /\ Lists(top.rows, A, Nat, H, H - 1, part[x].row)
      /\ Lists(top.columns, B, Nat, H, H - 1, part[x].column)
  BY ONLY PassLists(H, part, frames, A, B, Nat), level = H, <1>1, <1>2 DEF PassLists
<1>5. e \in E => e \in Cells /\ e[1] < LongPow[H] /\ e[2] < LongPow[H]
  <2>1. Mapped(ttree \o ltree, m, N, H, part)
    BY ONLY <1>3, VectorsParts
  <2> QED  BY ONLY <1>3, <2>1, EdgesInMatrix DEF Edges
<1>6. e \in Elements(top.rows) \X Elements(top.columns) => e \in Cells
  <2>1. \A y : y \in Elements(top.rows) => y \in Nat
    BY ONLY <1>4 DEF Lists, Elements
  <2>2. \A y : y \in Elements(top.columns) => y \in Nat
    BY ONLY <1>4 DEF Lists, Elements
  <2> QED  BY ONLY <2>1, <2>2 DEF Cells
<1>7. CASE e \in Cells
  <2>1. e[1] \in Elements(top.rows) <=>
          e[1] \in Nat /\ e[1] < LongPow[H] /\ e[1] \in A /\ e[1] \div Width(H, H - 1) = part[x].row
    <3>1. H \in Nat /\ Lists(top.rows, A, Nat, H, H - 1, part[x].row)
      BY ONLY <1>2, <1>4
    <3>2. \A y : y \in Elements(top.rows) <=>
                   y \in Nat /\ y < LongPow[H] /\ y \in A /\ y \div Width(H, H - 1) = part[x].row
      BY ONLY <3>1, ~(Nat \subseteq A), EntriesOnLeaf
    <3> QED  BY ONLY <3>2
  <2>2. e[2] \in Elements(top.columns) <=>
          e[2] \in Nat /\ e[2] < LongPow[H] /\ e[2] \in B /\ e[2] \div Width(H, H - 1) = part[x].column
    <3>1. H \in Nat /\ Lists(top.columns, B, Nat, H, H - 1, part[x].column)
      BY ONLY <1>2, <1>4
    <3> QED  BY ONLY <3>1, ~(Nat \subseteq B), EntriesOnLeaf
  <2>3. e \in Elements(top.rows) \X Elements(top.columns) <=>
          e[1] \in Elements(top.rows) /\ e[2] \in Elements(top.columns)
    <3>1. e = <<e[1], e[2]>>
      BY ONLY <1>7 DEF Cells
    <3> QED  BY ONLY <3>1
  <2>4. e[1] \in Nat /\ e[2] \in Nat
    BY ONLY <1>7 DEF Cells
  <2>5. Cut(H, e, H - 1) = part[x] <=> /\ e[1] \div Width(H, H - 1) = part[x].row
                                      /\ e[2] \div Width(H, H - 1) = part[x].column
    <3>1. PICK d : d = H - 1
      OBVIOUS
    <3>2. part[x] \in Parts /\ part[x].level = d
      BY ONLY level = H, <1>1, <1>2, <3>1
    <3>3. Cut(H, e, d) = part[x] <=> /\ e[1] \div Width(H, d) = part[x].row
                                     /\ e[2] \div Width(H, d) = part[x].column
      BY ONLY <3>2, CellIn
    <3> QED  BY ONLY <3>1, <3>3
  <2>6. ASSUME Cut(H, e, H - 1) = part[x]
        PROVE  e \in E <=> Access(ltree, LeafBlock + CalculateOffset(e[1], e[2], level))
    <3>1. AtCell(ttree, ltree, m, N, H, part, x, e)
      BY ONLY <1>1, <1>3, <1>7, <2>6 DEF AtCell
    <3>2. /\ e \in E <=> Access(ltree, (At(x) + Off(H, e, H)) - Len(ttree))
          /\ Off(H, e, H) \in Offsets
      BY ONLY <1>3, <3>1, CellBit
    <3>3. Off(H, e, H) = CalculateOffset(e[1], e[2], level)
      <4>1. H \in 1..H
        BY ONLY level = H, <1>2
      <4> QED  BY ONLY level = H, <1>2, <4>1, WidthOfCode
    <3>4. Off(H, e, H) \in Int
      BY ONLY <3>2, BlockSize DEF Offsets
    <3>5. (At(x) + Off(H, e, H)) - Len(ttree) = LeafBlock + CalculateOffset(e[1], e[2], level)
      <4>1. ASSUME NEW a \in Int, NEW b \in Int, NEW c \in Int PROVE (a + b) - c = (a - c) + b
        OBVIOUS
      <4> QED  BY ONLY <1>1, <3>3, <3>4, <4>1 DEF LeafBlock
    <3> QED  BY ONLY <3>2, <3>5
  <2>7. e \in LeafEdges <=>
          /\ e \in Elements(top.rows) \X Elements(top.columns)
          /\ Access(ltree, LeafBlock + CalculateOffset(e[1], e[2], level))
    BY ONLY DEF LeafEdges
  <2> QED  BY ONLY <1>1, <1>5, <2>1, <2>2, <2>3, <2>4, <2>5, <2>6, <2>7
<1>8. CASE e \notin Cells
  BY ONLY <1>5, <1>6, <1>8 DEF LeafEdges
<1> QED  BY ONLY <1>7, <1>8

\* The vertices of a query are not all the numbers.
LEMMA QueryNotAll ==
  ASSUME QueryAsked, matrixSize \in Nat
  PROVE  ~(Nat \subseteq Elements(call.A)) /\ ~(Nat \subseteq Elements(call.B))
<1>1. \A v \in Elements(call.A) \cup Elements(call.B) : v < matrixSize
  BY QueryInMatrix
<1>2. ~(matrixSize < matrixSize)
  OBVIOUS
<1> QED  BY ONLY <1>1, <1>2, matrixSize \in Nat

\* findEdgesInLTree finds the edges of its block.
LEMMA FindInLTreeHolds ==
  ASSUME Typed, SomeStructure, Asked, FindHolds, FindInLTree, GraphKept
  PROVE  FindHolds' /\ pc' = "find"
<1>1. pc = "find" /\ Partition(level) <= 1
  BY DEF FindInLTree
<1>2. PICK m, N, H, part :
           /\ Holds(matrixSize, ttree, ltree, m, N, H, part, graph)
           /\ Active(m, N, H, part, graph)
           /\ Pass(frames, H, part, graph, Elements(call.A), Elements(call.B), Nat, 1, Elements(findings))
  BY <1>1, Finding
<1>3. PICK A : A = Elements(call.A)
  OBVIOUS
<1>4. PICK B : B = Elements(call.B)
  OBVIOUS
<1>5. PICK s : s = 1
  OBVIOUS
<1>6. Pass(frames, H, part, graph, A, B, Nat, s, Elements(findings))
  BY <1>2, <1>3, <1>4, <1>5
<1>7. /\ level \in 1..H /\ level \in 1..Len(frames) /\ H \in Nat /\ matrixSize = LongPow[H]
      /\ level = Len(frames) /\ top = frames[level]
  BY ONLY <1>2, TopParts
<1>8. H >= 2
  BY ONLY <1>2 DEF Active
<1>9. level = H
  <2>1. level \in Nat
    BY ONLY <1>7
  <2>2. Partition(level) > 1 <=> level < H
    BY ONLY <1>7, <2>1, PartitionSizes
  <2>3. Partition(level) \in Nat
    BY ONLY <1>7, <2>1, PartitionSizes
  <2> QED  BY ONLY <1>1, <1>7, <2>1, <2>2, <2>3
<1>10. level # 1
  BY ONLY <1>7, <1>8, <1>9
<1>11. PICK found \in Listed(LeafEdges) : FindReturns(found)
  <2>1. Partition(level) # 0
    BY <1>1, PartitionsLeft
  <2> QED  BY <2>1 DEF FindInLTree
<1>12. pc' = "find" /\ UNCHANGED <<matrix, call, graph>> /\ findings' = findings \o found
  BY <1>1, <1>10, <1>11 DEF FindReturns, GraphKept
<1>13. PICK gs : gs = frames'
  OBVIOUS
<1>14. GoesOn(frames, level - 1, gs, s)
  BY <1>1, <1>5, <1>10, <1>11, <1>13, FindReturnsGoesOn
<1>15. Agree(frames, level - 1, part, part)
  BY ONLY SamePart
<1>16. ~(Nat \subseteq A) /\ ~(Nat \subseteq B)
  <2>1. QueryAsked /\ matrixSize \in Nat
    BY <1>1 DEF Asked, Typed, TypeOK
  <2> QED  BY ONLY <1>3, <1>4, <2>1, QueryNotAll
<1>17. \A e : e \in LeafEdges <=>
                /\ e \in graph /\ Cut(H, e, H - 1) = PartAt(part, top.firstAt)
                /\ e[1] \in A /\ e[2] \in B
  <2>1. PassLists(H, part, frames, A, B, Nat) /\ Active(m, N, H, part, graph)
    BY ONLY <1>2, <1>6 DEF Pass
  <2> QED  BY ONLY <1>9, <1>16, <2>1, FoundEdges
<1>18. /\ findings \in Seq(Nat \X Nat) /\ Once(findings) /\ found \in Seq(Nat \X Nat)
       /\ Elements(found) = LeafEdges /\ Once(found)
  <2>1. frames # <<>>
    BY <1>1, FindTypes
  <2>2. LeafEdges \in SUBSET (Nat \X Nat) /\ IsFiniteSet(LeafEdges)
    BY <2>1, LeafEdgesType
  <2>3. /\ found \in Seq(Nat \X Nat) /\ Elements(found) = LeafEdges
        /\ \A i, j \in 1..Len(found) : found[i] = found[j] => i = j
    BY ONLY <1>11, <2>2, ListedType
  <2>4. findings \in Seq(Nat \X Nat)
    BY DEF Typed, TypeOK
  <2>5. Once(findings)
    BY ONLY <1>1, FindHolds DEF FindHolds
  <2> QED  BY ONLY <2>3, <2>4, <2>5 DEF Once
<1>19. PICK D : D = Elements(findings')
  OBVIOUS
<1>20. Elements(findings) \cap LeafEdges = {}
  <2>1. SUFFICES ASSUME NEW e, e \in Elements(findings), e \in LeafEdges PROVE FALSE
    OBVIOUS
  <2>2. e \in graph /\ e \in Cells /\ Passed(frames, H, part, e, s)
    BY ONLY <1>6, <2>1 DEF Pass
  <2>3. Cut(H, e, H - 1) = PartAt(part, frames[H].firstAt)
    BY ONLY <1>7, <1>9, <1>17, <2>1
  <2>4. /\ part \in [0..(N - 1) -> Parts] /\ Along(N, part, frames) /\ Len(frames) = H
        /\ H \in Nat /\ s \in {-1, 1}
    BY ONLY <1>2, <1>5, <1>7, <1>9 DEF Active
  <2> QED  BY ONLY <2>2, <2>3, <2>4, NotPassedYet
<1>21. D = Elements(findings) \cup LeafEdges /\ Once(findings')
  BY ONLY <1>12, <1>18, <1>19, <1>20, ConcatOnce
<1>22. D \subseteq graph
  BY ONLY <1>6, <1>17, <1>21 DEF Pass
<1>23. \A e \in graph : e \in D <=> \/ e \in Elements(findings)
                                    \/ /\ level = H
                                       /\ Cut(H, e, H - 1) = PartAt(part, top.firstAt)
                                       /\ e[1] \in A /\ e[2] \in B
  BY ONLY <1>9, <1>17, <1>21
<1>24. Pass(gs, H, part, graph, A, B, Nat, s, D)
  <2>1. Active(m, N, H, part, graph)
    BY ONLY <1>2
  <2>2. s \in {-1, 1}
    BY ONLY <1>5
  <2>3. level < H => IF s = 1 THEN top.offset >= BLOCK_SIZE ELSE top.offset < 0
    BY ONLY <1>7, <1>9
  <2> QED
    BY ONLY <1>6, <1>10, <1>14, <1>15, <1>22, <1>23, <2>1, <2>2, <2>3, PassComesBack
<1>25. Pass(frames', H, part, graph, Elements(call.A), Elements(call.B), Nat, 1, Elements(findings'))
  BY ONLY <1>3, <1>4, <1>5, <1>12, <1>13, <1>19, <1>24
<1>26. FindHolds'
  BY ONLY <1>2, <1>12, <1>21, <1>25, FindGoesOn
<1> QED  BY ONLY <1>12, <1>26
-----------------------------------------------------------------------------
(* deleteEntry.                                                            *)

\* The edges, the rows and the columns that the pass of deleteEdges is over.
OnPass == IF pc = "deleteRow" THEN graph ELSE {e \in graph : e[1] # call.a}
PassRows == IF pc = "deleteRow" THEN {call.a} ELSE live
PassColumns == IF pc = "deleteRow" THEN live ELSE {call.a}

\* While it erases the free columns from allOthers, the edges are all there.
CollectHolds ==
  pc = "collect" =>
    /\ \E m, N, H, part : Holds(matrixSize, ttree, ltree, m, N, H, part, graph)
    /\ frames[1].rows = <<call.a>> /\ frames[1].firstAt = 0
    /\ frames[1].offset = BLOCK_SIZE - 1
    /\ Remaining(frames[1].columns, freeColumns, firstFreeColumn, iteration)

\* deleteEdges has deleted the edges that its activations have passed.
DeleteHolds ==
  Deleting =>
    \E m, N, H, part, E :
      /\ Holds(matrixSize, ttree, ltree, m, N, H, part, E) /\ E \subseteq OnPass
      /\ Pass(frames, H, part, OnPass, PassRows, PassColumns, live, -1, OnPass \ E)

\* The vertices in use are numbers up to the size of the matrix.
LEMMA LiveInMatrix ==
  ASSUME Typed, firstFreeColumn <= matrixSize + 1
  PROVE  matrixSize \in Nat /\ live \subseteq Nat /\ \A x \in live : x <= matrixSize
<1>1. matrixSize \in Nat /\ firstFreeColumn \in Nat
  BY DEF Typed, TypeOK
<1>2. live \subseteq 0..(firstFreeColumn - 1)
  BY DEF live
<1> QED  BY <1>1, <1>2

\* The row pass begins, with all the vertices in use in allOthers.
LEMMA RowPassStarts ==
  ASSUME Typed, ColumnsInOrder,
         NEW m, NEW N, NEW H, NEW part, NEW S, Holds(matrixSize, ttree, ltree, m, N, H, part, S),
         NEW a \in Nat, a < matrixSize, NEW fs, Len(fs) = 1,
         fs[1].rows = <<a>>, fs[1].firstAt = 0, fs[1].offset = BLOCK_SIZE - 1,
         Remaining(fs[1].columns, freeColumns, firstFreeColumn, 0)
  PROVE  Pass(fs, H, part, S, {a}, live, live, -1, {})
<1>1. /\ matrixSize = LongPow[H] /\ Vectors(ttree, ltree, m, N, H, part)
      /\ Edges(ttree \o ltree, N, H, part) = S
  BY DEF Holds
<1>2. Mapped(ttree \o ltree, m, N, H, part)
  BY ONLY <1>1, VectorsParts
<1>3. H \in Nat /\ H >= 2 /\ N \in Nat /\ 0 \in 0..(N - 1) /\ part[0] = Whole
  BY ONLY <1>1, <1>2, VectorsParts DEF Mapped, Named
<1>4. PartAt(part, fs[1].firstAt) = Whole
  <2>1. 0 \in Nat /\ At(0) = 0
    BY BlockSize DEF At
  <2> QED  BY ONLY fs[1].firstAt = 0, <1>3, <2>1, PartAtBlock
<1>5. S \subseteq Cells
  BY ONLY <1>1, <1>2, EdgesInMatrix
<1>6. PICK v : v = fs[1].columns
  OBVIOUS
<1>7. firstFreeColumn \in Nat /\ freeColumns \in Seq(Nat) /\ firstFreeColumn <= matrixSize + 1
  BY DEF Typed, TypeOK, ColumnsInOrder
<1>8. Elements(v) = live
  BY ONLY Remaining(fs[1].columns, freeColumns, firstFreeColumn, 0), <1>6, <1>7, RemainingDone DEF live
<1>9. v \in Seq(Nat) /\ Ascending(v)
  BY <1>6 DEF Remaining
<1>10. \A j \in 1..Len(v) : v[j] <= LongPow[H]
  <2>1. \A x \in live : x <= LongPow[H]
    BY <1>1, <1>7, LiveInMatrix
  <2> QED  BY ONLY <1>8, <2>1 DEF Elements
<1>11. Lists(v, Elements(v), live, H, 0, 0)
  BY ONLY <1>3, <1>8, <1>9, <1>10, ListsWhole
<1>12. Lists(fs[1].columns, live, live, H, 0, 0)
  BY ONLY <1>6, <1>8, <1>11
<1>13. Lists(fs[1].rows, {a}, live, H, 0, 0)
  BY <1>1, <1>3, ListsOne
<1>14. PICK s \in {-1, 1} : s = -1
  OBVIOUS
<1>15. fs[1].offset = IF s = 1 THEN 0 ELSE BLOCK_SIZE - 1
  BY <1>14
<1>16. Pass(fs, H, part, S, {a}, live, live, s, {})
  BY ONLY Len(fs) = 1, <1>3, <1>4, <1>5, <1>12, <1>13, <1>15, PassStart
<1> QED  BY ONLY <1>14, <1>16

\* It begins with all the edges there.
LEMMA RowPassHolds ==
  ASSUME Typed, ColumnsInOrder, Asked', pc' = "deleteRow", UNCHANGED <<matrix, bookkeeping, graph>>,
         NEW m, NEW N, NEW H, NEW part, Holds(matrixSize, ttree, ltree, m, N, H, part, graph),
         Len(frames') = 1, frames'[1].rows = <<call'.a>>, frames'[1].firstAt = 0,
         frames'[1].offset = BLOCK_SIZE - 1,
         Remaining(frames'[1].columns, freeColumns, firstFreeColumn, 0)
  PROVE  DeleteHolds'
<1>1. call'.a \in Nat /\ call'.a < matrixSize
  <2>1. EntryAsked'
    BY DEF Asked
  <2>2. matrixSize' = matrixSize
    BY DEF matrix
  <2> QED  BY <2>1, <2>2, BoundsAssumption DEF EntryAsked
<1>2. PICK a : a = call'.a
  OBVIOUS
<1>3. PICK fs : fs = frames'
  OBVIOUS
<1>4. a \in Nat /\ a < matrixSize /\ Len(fs) = 1 /\ fs[1].rows = <<a>> /\ fs[1].firstAt = 0
      /\ fs[1].offset = BLOCK_SIZE - 1
      /\ Remaining(fs[1].columns, freeColumns, firstFreeColumn, 0)
  BY <1>1, <1>2, <1>3
<1>5. Pass(fs, H, part, graph, {a}, live, live, -1, {})
  BY ONLY Typed, ColumnsInOrder, Holds(matrixSize, ttree, ltree, m, N, H, part, graph), <1>4,
          RowPassStarts
<1>6. OnPass' = graph /\ PassRows' = {a} /\ PassColumns' = live /\ live' = live
  BY <1>2 DEF OnPass, PassRows, PassColumns, live, bookkeeping
<1>7. /\ Holds(matrixSize', ttree', ltree', m, N, H, part, graph) /\ graph \subseteq OnPass'
      /\ Pass(frames', H, part, OnPass', PassRows', PassColumns', live', -1, OnPass' \ graph)
  <2>1. matrixSize' = matrixSize /\ ttree' = ttree /\ ltree' = ltree
    BY DEF matrix
  <2>2. graph \ graph = {}
    OBVIOUS
  <2> QED
    BY ONLY Holds(matrixSize, ttree, ltree, m, N, H, part, graph), <1>3, <1>5, <1>6, <2>1, <2>2
<1> QED  BY ONLY <1>7 DEF DeleteHolds

\* deleteEntry begins.
LEMMA DeleteEntryHolds ==
  ASSUME Typed, SomeStructure, ColumnsInOrder, IdleHolds, Asked', NEW a, DeleteEntry(a),
         pc' # "idle", UNCHANGED graph
  PROVE  CollectHolds' /\ DeleteHolds'
<1>1. /\ pc = "idle" /\ call' = [op |-> "deleteEntry", a |-> a]
      /\ pc' = (IF freeColumns = <<>> THEN "deleteRow" ELSE "collect")
      /\ iteration' = Len(freeColumns)
      /\ frames' = <<Frame(<<a>>, [i \in 1..firstFreeColumn |-> i - 1], 0, BLOCK_SIZE - 1)>>
      /\ UNCHANGED <<matrix, bookkeeping, graph>>
  BY DEF DeleteEntry, Begin, Throw, Finish
<1>2. PICK m, N, H, part : Holds(matrixSize, ttree, ltree, m, N, H, part, graph)
  BY <1>1 DEF IdleHolds
<1>3. /\ Len(frames') = 1 /\ frames'[1].rows = <<call'.a>> /\ frames'[1].firstAt = 0
      /\ frames'[1].offset = BLOCK_SIZE - 1
      /\ frames'[1].columns = [i \in 1..firstFreeColumn |-> i - 1]
  BY <1>1 DEF Frame
<1>4. firstFreeColumn \in Nat /\ freeColumns \in Seq(Nat)
  BY DEF Typed, TypeOK
<1>5. Remaining(frames'[1].columns, freeColumns, firstFreeColumn, Len(freeColumns))
  BY ONLY <1>3, <1>4, RemainingStart
<1>6. CASE pc' = "collect"
  <2>1. /\ Remaining(frames'[1].columns, freeColumns', firstFreeColumn', iteration')
        /\ Holds(matrixSize', ttree', ltree', m, N, H, part, graph')
    BY ONLY <1>1, <1>2, <1>5 DEF matrix, bookkeeping
  <2>2. CollectHolds'
    BY ONLY <1>3, <2>1 DEF CollectHolds
  <2>3. DeleteHolds'
    BY <1>6 DEF DeleteHolds, Deleting
  <2> QED  BY <2>2, <2>3
<1>7. CASE pc' = "deleteRow"
  <2>1. Remaining(frames'[1].columns, freeColumns, firstFreeColumn, 0)
    BY <1>1, <1>5, <1>7
  <2>2. DeleteHolds'
    BY ONLY Typed, ColumnsInOrder, Asked', <1>1, <1>2, <1>3, <1>7, <2>1, RowPassHolds
  <2>3. CollectHolds'
    BY <1>7 DEF CollectHolds
  <2> QED  BY <2>2, <2>3
<1> QED  BY <1>1, <1>6, <1>7

\* It erases a free column from allOthers.
LEMMA CollectOthersHolds ==
  ASSUME Typed, SomeStructure, ColumnsInOrder, CollectHolds, Asked', CollectOthers, UNCHANGED graph
  PROVE  CollectHolds' /\ DeleteHolds'
<1>1. /\ pc = "collect"
      /\ frames' = [frames EXCEPT ![1].columns = Erase(@, freeColumns[iteration], 1)]
      /\ iteration' = iteration - 1
      /\ pc' = (IF iteration = 1 THEN "deleteRow" ELSE "collect")
      /\ UNCHANGED <<matrix, bookkeeping, graph>> /\ call' = call
  BY DEF CollectOthers
<1>2. PICK m, N, H, part : Holds(matrixSize, ttree, ltree, m, N, H, part, graph)
  BY <1>1 DEF CollectHolds
<1>3. /\ frames[1].rows = <<call.a>> /\ frames[1].firstAt = 0
      /\ frames[1].offset = BLOCK_SIZE - 1
      /\ Remaining(frames[1].columns, freeColumns, firstFreeColumn, iteration)
  BY <1>1 DEF CollectHolds
<1>4. /\ frames \in Seq(Frames) /\ Len(frames) = 1 /\ frames[1] \in Frames
      /\ iteration \in 1..Len(freeColumns) /\ firstFreeColumn \in Nat
      /\ freeColumns[iteration] < Len(frames[1].columns)
  BY <1>1, CollectInRange DEF SomeStructure
<1>5. PICK w : w = Erase(frames[1].columns, freeColumns[iteration], 1)
  OBVIOUS
<1>6. /\ Len(frames') = 1 /\ frames'[1].rows = <<call'.a>> /\ frames'[1].firstAt = 0
      /\ frames'[1].offset = BLOCK_SIZE - 1
      /\ frames'[1].columns = w
  BY ONLY <1>1, <1>3, <1>4, <1>5 DEF Frames
<1>7. Remaining(w, freeColumns, firstFreeColumn, iteration - 1)
  <2>1. freeColumns \in Seq(Nat) /\ Ascending(freeColumns)
    BY ColumnsInOrderParts DEF Typed, TypeOK
  <2> QED  BY ONLY <1>3, <1>4, <1>5, <2>1, RemainingStep
<1>8. CASE iteration # 1
  <2>1. /\ Remaining(frames'[1].columns, freeColumns', firstFreeColumn', iteration')
        /\ Holds(matrixSize', ttree', ltree', m, N, H, part, graph') /\ pc' = "collect"
    BY ONLY <1>1, <1>2, <1>6, <1>7, <1>8 DEF matrix, bookkeeping
  <2>2. CollectHolds'
    BY ONLY <1>6, <2>1 DEF CollectHolds
  <2>3. DeleteHolds'
    BY <2>1 DEF DeleteHolds, Deleting
  <2> QED  BY <2>2, <2>3
<1>9. CASE iteration = 1
  <2>1. Remaining(frames'[1].columns, freeColumns, firstFreeColumn, 0) /\ pc' = "deleteRow"
    BY <1>1, <1>6, <1>7, <1>9
  <2>2. DeleteHolds'
    BY ONLY Typed, ColumnsInOrder, Asked', <1>1, <1>2, <1>6, <2>1, RowPassHolds
  <2>3. CollectHolds'
    BY <2>1 DEF CollectHolds
  <2> QED  BY <2>2, <2>3
<1> QED  BY <1>8, <1>9

\* Where deleteEdges is: G, A and B are what the pass is over, F what it has deleted.
DeletePass(m, N, H, part, E, G, A, B, F) ==
  /\ Holds(matrixSize, ttree, ltree, m, N, H, part, E)
  /\ Active(m, N, H, part, E)
  /\ E \subseteq G /\ F = G \ E
  /\ G = OnPass /\ A = PassRows /\ B = PassColumns
  /\ Pass(frames, H, part, G, A, B, live, -1, F)

\* There is such a pass whenever deleteEdges runs.
LEMMA DeletingPass ==
  ASSUME Typed, SomeStructure, DeleteHolds, Deleting
  PROVE  \E m, N, H, part, E, G, A, B, F : DeletePass(m, N, H, part, E, G, A, B, F)
<1>1. PICK m, N, H, part, E :
      /\ Holds(matrixSize, ttree, ltree, m, N, H, part, E) /\ E \subseteq OnPass
      /\ Pass(frames, H, part, OnPass, PassRows, PassColumns, live, -1, OnPass \ E)
  BY DEF DeleteHolds
<1>2. Active(m, N, H, part, E)
  BY <1>1, Activations DEF Deleting
<1>3. DeletePass(m, N, H, part, E, OnPass, PassRows, PassColumns, OnPass \ E)
  BY ONLY <1>1, <1>2 DEF DeletePass
<1> QED  BY ONLY <1>3

\* The pass goes on, with the edges D deleted.
LEMMA DeleteGoesOn ==
  ASSUME UNCHANGED <<pc, call, graph, bookkeeping>>,
         NEW G, NEW A, NEW B, G = OnPass, A = PassRows, B = PassColumns,
         NEW m, NEW N, NEW H, NEW part, NEW E, E \subseteq G,
         Holds(matrixSize', ttree', ltree', m, N, H, part, E),
         NEW D, D = G \ E, NEW s, s = -1,
         Pass(frames', H, part, G, A, B, live, s, D)
  PROVE  DeleteHolds'
<1>1. OnPass' = OnPass /\ PassRows' = PassRows /\ PassColumns' = PassColumns /\ live' = live
  BY DEF OnPass, PassRows, PassColumns, live, bookkeeping
<1>2. /\ Holds(matrixSize', ttree', ltree', m, N, H, part, E) /\ E \subseteq OnPass'
      /\ Pass(frames', H, part, OnPass', PassRows', PassColumns', live', -1, OnPass' \ E)
  BY <1>1
<1> QED  BY ONLY <1>2 DEF DeleteHolds

\* deleteEdges goes to the next offset at a 0, or where it has no vertices to look for.
LEMMA DeleteSkipsHolds ==
  ASSUME Typed, SomeStructure, DeleteHolds, DeleteSkips \/ DeleteKeeps, UNCHANGED graph
  PROVE  DeleteHolds' /\ pc' = pc
<1>1. /\ AtTTreeOffset /\ UNCHANGED <<matrix, bookkeeping, pc, call, graph>>
      /\ RowSlices = {} \/ ColumnSlices = {} \/ ~Access(ttree, node)
  BY DEF DeleteSkips, DeleteKeeps, NextOffset
<1>2. PICK m, N, H, part, E, G, A, B, F : DeletePass(m, N, H, part, E, G, A, B, F)
  BY <1>1, DeletingPass DEF AtTTreeOffset
<1>3. /\ Active(m, N, H, part, E) /\ E \subseteq G /\ F = G \ E
      /\ G = OnPass /\ A = PassRows /\ B = PassColumns
      /\ Holds(matrixSize, ttree, ltree, m, N, H, part, E)
  BY <1>2 DEF DeletePass
<1>4. PICK s : s = -1
  OBVIOUS
<1>5. Pass(frames, H, part, G, A, B, live, s, F) /\ s \in {-1, 1}
  BY ONLY <1>2, <1>4 DEF DeletePass
<1>6. PICK gs : gs = frames'
  OBVIOUS
<1>7. GoesOn(frames, level, gs, s)
  <2>1. CASE DeleteSkips
    <3>1. top.only0s \in BOOLEAN
      <4>1. top \in Frames
        BY ONLY <1>3 DEF Active
      <4> QED  BY ONLY <4>1 DEF Frames
    <3>2. NextOffset(top.only0s)
      BY <2>1 DEF DeleteSkips
    <3>3. GoesOn(frames, level, frames', -1)
      BY ONLY Typed, <1>1, <3>1, <3>2, NextOffsetGoesOn
    <3> QED  BY ONLY <1>4, <1>6, <3>3
  <2>2. CASE DeleteKeeps
    <3>1. PICK b \in BOOLEAN : b = FALSE
      OBVIOUS
    <3>2. NextOffset(b)
      BY <2>2, <3>1 DEF DeleteKeeps
    <3>3. GoesOn(frames, level, frames', -1)
      BY ONLY Typed, <1>1, <3>2, NextOffsetGoesOn
    <3> QED  BY ONLY <1>4, <1>6, <3>3
  <2> QED  BY <2>1, <2>2
<1>8. \A e \in G : e \in F \/ e \in E
  BY ONLY <1>3
<1>9. Pass(gs, H, part, G, A, B, live, s, F)
  <2>1. Active(m, N, H, part, E)
    BY ONLY <1>3
  <2>2. RowSlices = {} \/ ColumnSlices = {} \/ ~Access(ttree, node)
    BY ONLY <1>1
  <2>3. Pass(frames, H, part, G, A, B, live, s, F)
    BY ONLY <1>5
  <2>4. s \in {-1, 1}
    BY ONLY <1>5
  <2> QED  BY ONLY <1>7, <1>8, <2>1, <2>2, <2>3, <2>4, PassSkips
<1>10. Holds(matrixSize', ttree', ltree', m, N, H, part, E)
  BY ONLY <1>1, <1>3 DEF matrix
<1>11. DeleteHolds'
  BY ONLY <1>1, <1>3, <1>4, <1>6, <1>9, <1>10, DeleteGoesOn
<1> QED  BY ONLY <1>1, <1>11

\* The offset of the activation on top.
LEMMA DeletingOffset ==
  ASSUME Typed, SomeStructure, Deleting
  PROVE  /\ top.offset \in -1..(BLOCK_SIZE - 1)
         /\ top.offset >= 0 => top.offset \in Offsets
<1>1. PICK H, b : Structured(H, b)
  BY DEF SomeStructure
<1>2. top.offset \in -1..BLOCK_SIZE /\ top.offset < BLOCK_SIZE
  BY <1>1 DEF Structured, Deleting, Recursive
<1> QED  BY ONLY <1>2, BlockSize DEF Offsets

\* deleteEdges goes down to the entries of a 1.
LEMMA DeleteDescendsHolds ==
  ASSUME Typed, SomeStructure, DeleteHolds, DeleteDescends, UNCHANGED graph
  PROVE  DeleteHolds' /\ pc' = pc
<1>1. /\ AtTTreeOffset /\ UNCHANGED <<matrix, bookkeeping, pc, call, graph>>
      /\ Access(ttree, node) /\ Deleting /\ top.offset >= 0
  BY DEF DeleteDescends, AtTTreeOffset
<1>2. PICK rs \in RowSlices, cs \in ColumnSlices :
        frames' = Append(frames, Frame(rs, cs, ChildBlock(node), BLOCK_SIZE - 1))
  BY DEF DeleteDescends
<1>3. PICK m, N, H, part, E, G, A, B, F : DeletePass(m, N, H, part, E, G, A, B, F)
  BY <1>1, DeletingPass
<1>4. /\ Active(m, N, H, part, E) /\ E \subseteq G /\ F = G \ E
      /\ G = OnPass /\ A = PassRows /\ B = PassColumns
      /\ Holds(matrixSize, ttree, ltree, m, N, H, part, E)
  BY <1>3 DEF DeletePass
<1>5. PICK s : s = -1
  OBVIOUS
<1>6. Pass(frames, H, part, G, A, B, live, s, F) /\ s \in {-1, 1}
  BY ONLY <1>3, <1>5 DEF DeletePass
<1>7. PICK gs : gs = frames'
  OBVIOUS
<1>8. top.offset \in Offsets
  BY <1>1, DeletingOffset
<1>9. PICK f : f = Frame(rs, cs, ChildBlock(node), BLOCK_SIZE - 1)
  OBVIOUS
<1>10. f \in Frames
  <2>1. /\ frames \in Seq(Frames) /\ frames # <<>> /\ ttree \in Seq(BOOLEAN)
        /\ \A i \in 1..Len(frames) : frames[i].offset \in Nat
    <3>1. /\ frames \in Seq(Frames) /\ frames # <<>> /\ level = Len(frames)
          /\ \A i \in 1..(level - 1) : frames[i].offset \in Nat
      BY <1>1, DeletingTypes
    <3>2. ttree \in Seq(BOOLEAN)
      BY DEF Typed, TypeOK
    <3>3. frames[level].offset \in Nat
      BY ONLY <1>8, BlockSize DEF top, Offsets
    <3>4. Len(frames) \in Nat
      BY ONLY <3>1
    <3> QED  BY ONLY <3>1, <3>2, <3>3, <3>4
  <2>2. rs \in Seq(Nat) /\ cs \in Seq(Nat)
    BY <2>1, SlicesOfTop
  <2>3. ChildBlock(node) \in Nat
    BY <2>1, Rank1Type, BlockSize DEF ChildBlock
  <2>4. BLOCK_SIZE - 1 \in Nat \cup {-1}
    BY BlockSize
  <2> QED  BY ONLY <1>9, <2>2, <2>3, <2>4, FrameType
<1>11. /\ gs = Append(frames, f)
       /\ f = Frame(rs, cs, ChildBlock(node), IF s = 1 THEN 0 ELSE BLOCK_SIZE - 1)
  BY <1>2, <1>5, <1>7, <1>9
<1>12. Pass(gs, H, part, G, A, B, live, s, F)
  <2>1. Active(m, N, H, part, E)
    BY ONLY <1>4
  <2>2. Access(ttree, node)
    BY ONLY <1>1
  <2> QED
    BY ONLY rs \in RowSlices, cs \in ColumnSlices, <1>6, <1>8, <1>10, <1>11, <2>1, <2>2, PassDescends
<1>13. Holds(matrixSize', ttree', ltree', m, N, H, part, E)
  BY ONLY <1>1, <1>4 DEF matrix
<1>14. DeleteHolds'
  BY ONLY <1>1, <1>4, <1>5, <1>7, <1>12, <1>13, DeleteGoesOn
<1> QED  BY ONLY <1>1, <1>14

\* When a block is deleted, those of the callers of its activation keep their partitions.
LEMMA CallersAgree ==
  ASSUME NEW m, NEW N, NEW H, NEW part, NEW E, Active(m, N, H, part, E),
         NEW n \in Nat, top.firstAt = At(n), NEW q, \A x \in 0..(n - 1) : q[x] = part[x]
  PROVE  Agree(frames, level - 1, part, q)
<1>1. /\ Along(N, part, frames) /\ level = Len(frames) /\ Len(frames) \in Nat /\ N \in Nat
      /\ top = frames[level]
  BY DEF Active
<1>2. SUFFICES ASSUME NEW i \in 1..(level - 1)
               PROVE  PartAt(q, frames[i].firstAt) = PartAt(part, frames[i].firstAt)
  BY DEF Agree
<1>3. i \in 1..Len(frames) /\ level \in 1..Len(frames) /\ i < level
  BY ONLY <1>1, <1>2
<1>4. PICK x \in 0..(N - 1) : /\ frames[i].firstAt = At(x)
                              /\ PartAt(part, frames[i].firstAt) = part[x]
  BY ONLY <1>1, <1>3 DEF Along
<1>5. frames[i].firstAt < frames[level].firstAt
  BY ONLY <1>1, <1>3 DEF Along
<1>6. x \in Nat /\ At(x) < At(n)
  BY ONLY <1>1, <1>4, <1>5, top.firstAt = At(n)
<1>7. x < n
  BY ONLY <1>6, n \in Nat, AtOrder
<1>8. x \in 0..(n - 1)
  BY ONLY <1>6, <1>7, n \in Nat
<1>9. PartAt(q, frames[i].firstAt) = q[x]
  BY ONLY <1>4, <1>6, PartAtBlock
<1> QED  BY ONLY <1>4, <1>8, <1>9, \A y \in 0..(n - 1) : q[y] = part[y]

\* ltree after deleteEdgesFromLTree has cleared the bits of its block.
ClearedLTree == [i \in 1..Len(ltree) |-> ltree[i] /\ i - 1 - LeafBlock \notin LeafCells]

\* The edges of A \X B in its partition are gone.
LEMMA LeafClears ==
  ASSUME NEW m, NEW N, NEW H, NEW part, NEW E, Active(m, N, H, part, E), level = H,
         NEW A, NEW B, NEW L, PassLists(H, part, frames, A, B, L),
         \A e \in E : e[1] \in L /\ e[2] \in L
  PROVE  \E S : /\ Vectors(ttree, ClearedLTree, m, N, H, part)
                /\ Edges(ttree \o ClearedLTree, N, H, part) = S
                /\ \A e : e \in S <=> /\ e \in E
                                      /\ ~(/\ Cut(H, e, H - 1) = PartAt(part, top.firstAt)
                                           /\ e[1] \in A /\ e[2] \in B)
<1>1. PICK x \in 0..(N - 1) :
           /\ top.firstAt = At(x) /\ PartAt(part, top.firstAt) = part[x]
           /\ part[x].level = level - 1 /\ x \in Nat /\ At(x) \in Nat /\ Len(ttree) \in Nat
           /\ x >= m <=> level = H
  BY ONLY Active(m, N, H, part, E), ActiveTop
<1>2. /\ level \in 1..H /\ level \in 1..Len(frames) /\ H \in Nat /\ matrixSize = LongPow[H]
      /\ part[x] \in Parts /\ top = frames[level]
  BY ONLY Active(m, N, H, part, E), <1>1, TopParts
<1>3. /\ Vectors(ttree, ltree, m, N, H, part) /\ Edges(ttree \o ltree, N, H, part) = E
      /\ m \in Nat /\ N \in Nat
  BY ONLY Active(m, N, H, part, E) DEF Active
<1>4. PICK r \in Nat, c \in Nat : part[x] = Part(H - 1, r, c) /\ r = part[x].row /\ c = part[x].column
  BY ONLY level = H, <1>1, <1>2 DEF Parts, Part
<1>5. /\ Lists(top.rows, A, L, H, H - 1, r) /\ Lists(top.columns, B, L, H, H - 1, c)
  BY ONLY PassLists(H, part, frames, A, B, L), level = H, <1>1, <1>2, <1>4 DEF PassLists
<1>6. H \in Nat \ {0}
  BY ONLY <1>2
<1>7. /\ LeafCells \subseteq Offsets
      /\ \A e \in Cells :
              /\ e[1] < LongPow[H] /\ e[2] < LongPow[H] /\ e[1] \in L /\ e[2] \in L
              /\ Cut(H, e, H - 1) = Part(H - 1, r, c)
              => (Off(H, e, H) \in LeafCells <=> e[1] \in A /\ e[2] \in B)
  BY ONLY level = H, <1>2, <1>5, <1>6, LeafCellsAre
<1>8. PICK v : v = ClearedLTree
  OBVIOUS
<1>9. v = [i \in 1..Len(ltree) |-> ltree[i] /\ (i - 1) - (At(x) - Len(ttree)) \notin LeafCells]
  BY ONLY <1>1, <1>8 DEF ClearedLTree, LeafBlock
<1>10. x \in m..(N - 1)
  BY ONLY level = H, <1>1, <1>3
<1>11. PICK S : S = Edges(ttree \o v, N, H, part)
  OBVIOUS
<1>12. PICK C \in SUBSET Offsets : C = LeafCells
  BY ONLY <1>7
<1>13. /\ Vectors(ttree, v, m, N, H, part)
       /\ \A e \in Cells :
            e \in Edges(ttree \o v, N, H, part) <=>
              /\ e \in Edges(ttree \o ltree, N, H, part)
              /\ ~(part[x] = Cut(H, e, H - 1) /\ Off(H, e, H) \in C)
  <2>1. v = [i \in 1..Len(ltree) |-> ltree[i] /\ (i - 1) - (At(x) - Len(ttree)) \notin C]
    BY ONLY <1>9, <1>12
  <2>2. Clears(ttree, ltree, m, N, H, part, x, C, v)
    BY ONLY <1>3, <1>10, <2>1, C \in SUBSET Offsets DEF Clears
  <2> QED  BY ONLY <2>2, LeafCleared
<1>14. S \subseteq Cells /\ E \subseteq Cells /\ \A e \in E : e[1] < LongPow[H] /\ e[2] < LongPow[H]
  <2>1. Mapped(ttree \o ltree, m, N, H, part) /\ Mapped(ttree \o v, m, N, H, part)
    BY ONLY <1>3, <1>13, VectorsParts
  <2> QED  BY ONLY <1>3, <1>11, <2>1, EdgesInMatrix
<1>15. ASSUME NEW e
       PROVE  e \in S <=> /\ e \in E
                          /\ ~(/\ Cut(H, e, H - 1) = PartAt(part, top.firstAt)
                               /\ e[1] \in A /\ e[2] \in B)
  <2>1. CASE e \in E
    <3>1. e \in Cells /\ e[1] < LongPow[H] /\ e[2] < LongPow[H] /\ e[1] \in L /\ e[2] \in L
      BY ONLY <1>14, <2>1, \A f \in E : f[1] \in L /\ f[2] \in L
    <3>2. Cut(H, e, H - 1) = part[x] => (Off(H, e, H) \in LeafCells <=> e[1] \in A /\ e[2] \in B)
      BY ONLY <1>4, <1>7, <3>1
    <3>3. e \in S <=> e \in E /\ ~(part[x] = Cut(H, e, H - 1) /\ Off(H, e, H) \in LeafCells)
      BY ONLY <1>3, <1>11, <1>12, <1>13, <3>1
    <3> QED  BY ONLY <1>1, <3>2, <3>3
  <2>2. CASE e \notin E
    <3>1. e \in S => e \in E
      BY ONLY <1>3, <1>11, <1>13, <1>14
    <3> QED  BY ONLY <2>2, <3>1
  <2> QED  BY ONLY <2>1, <2>2
<1> QED  BY ONLY <1>8, <1>11, <1>13, <1>15

\* The edges are between vertices in use.
Inside == graph \subseteq live \X live

\* An activation that has seen only 0s has a block of 0s at its end.
LEMMA OnlyZerosSeen ==
  ASSUME Typed, SomeStructure, Deleting, top.offset < 0, Partition(level) > 1, top.only0s
  PROVE  OnlyZeros(ttree, top.firstAt)
<1>1. PICK H, b : Structured(H, b)
  BY DEF SomeStructure
<1>2. /\ matrixSize = LongPow[H] /\ H \in Nat /\ level \in 1..Len(frames) /\ top = frames[level]
      /\ level \in Nat
  BY <1>1, RecursiveParts DEF Deleting
<1>3. ZerosAbove(ttree, H, frames)
  BY <1>1 DEF Structured, Deleting
<1>4. level < H
  BY ONLY Partition(level) > 1, <1>2, PartitionSizes
<1>5. \A o \in (top.offset + 1)..(BLOCK_SIZE - 1) : ~Access(ttree, top.firstAt + o)
  <2>1. frames[level].only0s
    BY <1>2
  <2> QED  BY ONLY <1>2, <1>3, <1>4, <2>1 DEF ZerosAbove
<1>6. top.offset = -1
  BY DeletingOffset, BlockSize
<1>7. \A o \in 0..(BLOCK_SIZE - 1) : ~Access(ttree, top.firstAt + o)
  BY ONLY <1>5, <1>6, BlockSize
<1> QED  BY ONLY <1>7 DEF OnlyZeros

\* An activation of deleteEdges in ttree returns to its caller: its block goes if it is of 0s.
LEMMA DeleteReturnsHolds ==
  ASSUME Typed, SomeStructure, DeleteHolds, DeleteReturns, level # 1, UNCHANGED graph
  PROVE  DeleteHolds' /\ pc' = pc
<1>1. /\ Deleting /\ Partition(level) > 1 /\ top.offset < 0
      /\ ttree' = (IF top.only0s THEN SetBit(DeleteBlock(ttree, top.firstAt), CallerNode, FALSE)
                               ELSE ttree)
      /\ CallerContinues(~top.only0s)
      /\ ltree' = ltree /\ matrixSize' = matrixSize
  BY DEF DeleteReturns
<1>2. UNCHANGED <<pc, call, graph, bookkeeping>>
  BY <1>1 DEF CallerContinues
<1>3. PICK m, N, H, part, E, G, A, B, F : DeletePass(m, N, H, part, E, G, A, B, F)
  BY <1>1, DeletingPass
<1>4. /\ Active(m, N, H, part, E) /\ E \subseteq G /\ F = G \ E
      /\ G = OnPass /\ A = PassRows /\ B = PassColumns
      /\ Holds(matrixSize, ttree, ltree, m, N, H, part, E)
  BY <1>3 DEF DeletePass
<1>5. PICK s : s = -1
  OBVIOUS
<1>6. Pass(frames, H, part, G, A, B, live, s, F) /\ s \in {-1, 1}
  BY ONLY <1>3, <1>5 DEF DeletePass
<1>7. /\ level \in 1..H /\ level \in 1..Len(frames) /\ H \in Nat /\ matrixSize = LongPow[H]
      /\ level = Len(frames) /\ top = frames[level]
  BY ONLY <1>4, TopParts
<1>8. level < H
  <2>1. level \in Nat
    BY ONLY <1>7
  <2> QED  BY ONLY <1>1, <1>7, <2>1, PartitionSizes
<1>9. PICK gs : gs = frames'
  OBVIOUS
<1>10. GoesOn(frames, level - 1, gs, s)
  <2>1. PICK b \in BOOLEAN : CallerContinues(b)
    <3>1. (~top.only0s) \in BOOLEAN
      OBVIOUS
    <3> QED  BY <1>1, <3>1
  <2> QED  BY <1>1, <1>5, <1>9, <2>1, CallerGoesOn
<1>11. \E M, P, q : /\ Holds(matrixSize', ttree', ltree', M, P, H, q, E)
                    /\ Agree(frames, level - 1, part, q)
  <2>1. CASE ~top.only0s
    <3>1. Holds(matrixSize', ttree', ltree', m, N, H, part, E)
      BY <1>1, <1>4, <2>1
    <3> QED  BY ONLY <3>1, SamePart
  <2>2. CASE top.only0s
    <3>1. OnlyZeros(ttree, top.firstAt)
      BY ONLY Typed, SomeStructure, <1>1, <2>2, OnlyZerosSeen
    <3>2. PICK i : i = level - 1
      OBVIOUS
    <3>3. i \in 1..(Len(frames) - 1) /\ i + 1 = level /\ i # H - 1
      BY ONLY <1>7, <1>8, <3>2, level # 1
    <3>4. /\ Along(N, part, frames) /\ Len(frames) \in Nat /\ N \in Nat
          /\ Vectors(ttree, ltree, m, N, H, part) /\ Edges(ttree \o ltree, N, H, part) = E
      BY ONLY <1>4 DEF Active
    <3>5. PICK c, n : Calling(N, part, frames, i, c, n)
      BY ONLY <3>3, <3>4, AlongCaller
    <3>6. /\ IsChild(ttree, ltree, m, N, H, part, c, frames[i].offset, n)
          /\ n >= m <=> i = H - 1
      BY ONLY <3>4, <3>5, CallingBelow
    <3>7. At(n) = top.firstAt /\ frames[i].firstAt = At(c)
      BY ONLY <1>7, <3>3, <3>5 DEF Calling
    <3>8. n \in Nat /\ n < m
      <4>1. n \in 1..(N - 1) /\ m \in 1..N
        BY ONLY <3>6, ChildParts
      <4> QED  BY ONLY <3>3, <3>4, <3>6, <4>1
    <3>9. PICK w : w = ttree'
      OBVIOUS
    <3>10. w = SetBit(DeleteBlock(ttree, At(n)), At(c) + frames[i].offset, FALSE)
      <4>1. CallerNode = At(c) + frames[i].offset
        BY ONLY <3>2, <3>7 DEF CallerNode
      <4> QED  BY ONLY <1>1, <2>2, <3>7, <3>9, <4>1
    <3>11. TreeLoses(ttree, ltree, m, N, H, part, c, frames[i].offset, n, w)
      BY ONLY <3>1, <3>6, <3>7, <3>8, <3>10 DEF TreeLoses
    <3>12. PICK q : /\ Vectors(w, ltree, m - 1, N - 1, H, q)
                    /\ Edges(w \o ltree, N - 1, H, q) = Edges(ttree \o ltree, N, H, part)
                    /\ \A x \in 0..(n - 1) : q[x] = part[x]
      BY ONLY <3>11, TreeWithers
    <3>13. Agree(frames, level - 1, part, q)
      BY ONLY <1>4, <3>7, <3>8, <3>12, CallersAgree
    <3>14. Holds(matrixSize', ttree', ltree', m - 1, N - 1, H, q, E)
      BY ONLY <1>1, <1>7, <3>4, <3>9, <3>12 DEF Holds
    <3> QED  BY ONLY <3>13, <3>14
  <2> QED  BY ONLY <2>1, <2>2
<1>12. PICK M, P, q : /\ Holds(matrixSize', ttree', ltree', M, P, H, q, E)
                      /\ Agree(frames, level - 1, part, q)
  BY ONLY <1>11
<1>13. F \subseteq G /\ \A e \in G : e \in F <=> \/ e \in F
                                                 \/ /\ level = H
                                                    /\ Cut(H, e, H - 1) = PartAt(part, top.firstAt)
                                                    /\ e[1] \in A /\ e[2] \in B
  BY ONLY <1>4, <1>7, <1>8
<1>14. Pass(gs, H, q, G, A, B, live, s, F)
  <2>1. Active(m, N, H, part, E)
    BY ONLY <1>4
  <2>2. s \in {-1, 1} /\ Pass(frames, H, part, G, A, B, live, s, F)
    BY ONLY <1>6
  <2>3. level < H => IF s = 1 THEN top.offset >= BLOCK_SIZE ELSE top.offset < 0
    BY ONLY <1>1, <1>5
  <2> QED
    BY ONLY level # 1, <1>10, <1>12, <1>13, <2>1, <2>2, <2>3, PassComesBack
<1>15. DeleteHolds'
  BY ONLY <1>2, <1>4, <1>5, <1>9, <1>12, <1>14, DeleteGoesOn
<1> QED  BY ONLY <1>2, <1>15

\* deleteEdgesFromLTree clears the edges of its block, which goes if it is of 0s then.
LEMMA DeleteInLTreeHolds ==
  ASSUME Typed, SomeStructure, Inside, DeleteHolds, DeleteInLTree, GraphKept
  PROVE  DeleteHolds' /\ pc' = pc
<1> DEFINE only0s == OnlyZeros(ClearedLTree, LeafBlock)
<1>1. Deleting /\ Partition(level) <= 1 /\ Partition(level) # 0
  <2>1. Deleting /\ Partition(level) <= 1
    BY DEF DeleteInLTree
  <2> QED  BY <2>1, PartitionsLeft
<1>2. PICK m, N, H, part, E, G, A, B, F : DeletePass(m, N, H, part, E, G, A, B, F)
  BY <1>1, DeletingPass
<1>3. /\ Active(m, N, H, part, E) /\ E \subseteq G /\ F = G \ E
      /\ G = OnPass /\ A = PassRows /\ B = PassColumns
      /\ Holds(matrixSize, ttree, ltree, m, N, H, part, E)
  BY <1>2 DEF DeletePass
<1>4. PICK s : s = -1
  OBVIOUS
<1>5. Pass(frames, H, part, G, A, B, live, s, F) /\ s \in {-1, 1}
  BY ONLY <1>2, <1>4 DEF DeletePass
<1>6. /\ level \in 1..H /\ level \in 1..Len(frames) /\ H \in Nat /\ matrixSize = LongPow[H]
      /\ level = Len(frames) /\ top = frames[level]
  BY ONLY <1>3, TopParts
<1>7. level = H
  <2>1. level \in Nat
    BY ONLY <1>6
  <2>2. Partition(level) > 1 <=> level < H
    BY ONLY <1>6, <2>1, PartitionSizes
  <2>3. Partition(level) \in Nat
    BY ONLY <1>6, <2>1, PartitionSizes
  <2> QED  BY ONLY <1>1, <1>6, <2>1, <2>2, <2>3
<1>8. /\ Along(N, part, frames) /\ Len(frames) \in Nat /\ N \in Nat /\ H >= 2
      /\ Vectors(ttree, ltree, m, N, H, part) /\ Edges(ttree \o ltree, N, H, part) = E
  BY ONLY <1>3 DEF Active
<1>9. level # 1
  BY ONLY <1>6, <1>7, <1>8
<1>10. /\ ltree' = (IF only0s THEN DeleteBlock(ClearedLTree, LeafBlock) ELSE ClearedLTree)
       /\ ttree' = (IF only0s THEN SetBit(ttree, CallerNode, FALSE) ELSE ttree)
       /\ CallerContinues(~only0s) /\ matrixSize' = matrixSize
  BY <1>1, <1>9 DEF DeleteInLTree, ClearedLTree
<1> HIDE DEF only0s
<1>11. UNCHANGED <<pc, call, graph, bookkeeping>>
  BY <1>1, <1>10 DEF CallerContinues, Deleting, GraphKept
<1>12. PICK gs : gs = frames'
  OBVIOUS
<1>13. GoesOn(frames, level - 1, gs, s)
  <2>1. PICK b \in BOOLEAN : CallerContinues(b)
    <3>1. (~only0s) \in BOOLEAN
      OBVIOUS
    <3> QED  BY <1>10, <3>1
  <2> QED  BY <1>1, <1>4, <1>9, <1>12, <2>1, CallerGoesOn
<1>14. PICK S : /\ Vectors(ttree, ClearedLTree, m, N, H, part)
                /\ Edges(ttree \o ClearedLTree, N, H, part) = S
                /\ \A e : e \in S <=> /\ e \in E
                                      /\ ~(/\ Cut(H, e, H - 1) = PartAt(part, top.firstAt)
                                           /\ e[1] \in A /\ e[2] \in B)
  <2>1. PassLists(H, part, frames, A, B, live)
    BY ONLY <1>5 DEF Pass
  <2>2. \A e \in E : e[1] \in live /\ e[2] \in live
    <3>1. E \subseteq graph
      BY ONLY <1>3 DEF OnPass
    <3> QED  BY ONLY <3>1, Inside DEF Inside
  <2>3. Active(m, N, H, part, E)
    BY ONLY <1>3
  <2> QED  BY ONLY <1>7, <2>1, <2>2, <2>3, LeafClears
<1>15. S \subseteq E /\ S \subseteq G
  BY ONLY <1>3, <1>14
<1>16. PICK D : D = G \ S
  OBVIOUS
<1>17. D \subseteq G /\ \A e \in G : e \in D <=> \/ e \in F
                                                 \/ /\ level = H
                                                    /\ Cut(H, e, H - 1) = PartAt(part, top.firstAt)
                                                    /\ e[1] \in A /\ e[2] \in B
  BY ONLY <1>3, <1>7, <1>14, <1>16
<1>18. \E M, P, q : /\ Holds(matrixSize', ttree', ltree', M, P, H, q, S)
                    /\ Agree(frames, level - 1, part, q)
  <2>1. CASE ~only0s
    <3>1. Holds(matrixSize', ttree', ltree', m, N, H, part, S)
      BY ONLY <1>6, <1>10, <1>14, <2>1 DEF Holds
    <3> QED  BY ONLY <3>1, SamePart
  <2>2. CASE only0s
    <3>2. PICK i : i = level - 1
      OBVIOUS
    <3>3. i \in 1..(Len(frames) - 1) /\ i + 1 = level /\ i = H - 1
      BY ONLY <1>6, <1>7, <1>9, <3>2
    <3>5. PICK c, n : Calling(N, part, frames, i, c, n)
      BY ONLY <1>8, <3>3, AlongCaller
    <3>6. /\ IsChild(ttree, ClearedLTree, m, N, H, part, c, frames[i].offset, n)
          /\ n >= m <=> i = H - 1
      BY ONLY <1>14, <3>5, CallingBelow
    <3>7. At(n) = top.firstAt /\ frames[i].firstAt = At(c)
      BY ONLY <1>6, <3>3, <3>5 DEF Calling
    <3>8. n \in Nat /\ n >= m
      <4>1. n \in 1..(N - 1) /\ m \in 1..N
        BY ONLY <3>6, ChildParts
      <4> QED  BY ONLY <3>3, <1>8, <3>6, <4>1
    <3>9. At(n) - Len(ttree) = LeafBlock
      BY ONLY <3>7 DEF LeafBlock
    <3>10. PICK w : w = ttree'
      OBVIOUS
    <3>11. PICK v : v = ltree'
      OBVIOUS
    <3>12. w = SetBit(ttree, At(c) + frames[i].offset, FALSE)
      <4>1. CallerNode = At(c) + frames[i].offset
        BY ONLY <3>2, <3>7 DEF CallerNode
      <4> QED  BY ONLY <1>10, <2>2, <3>10, <4>1
    <3>13. v = DeleteBlock(ClearedLTree, At(n) - Len(ttree))
      BY ONLY <1>10, <2>2, <3>9, <3>11
    <3>14. OnlyZeros(ClearedLTree, At(n) - Len(ttree))
      BY ONLY <2>2, <3>9 DEF only0s
    <3>15. LeafLoses(ttree, ClearedLTree, m, N, H, part, c, frames[i].offset, n, w, v)
      BY ONLY <3>6, <3>8, <3>12, <3>13, <3>14 DEF LeafLoses
    <3>16. PICK q : /\ Vectors(w, v, m, N - 1, H, q)
                    /\ Edges(w \o v, N - 1, H, q) = Edges(ttree \o ClearedLTree, N, H, part)
                    /\ \A x \in 0..(n - 1) : q[x] = part[x]
      BY ONLY <3>15, LeafWithers
    <3>17. Agree(frames, level - 1, part, q)
      BY ONLY <1>3, <3>7, <3>8, <3>16, CallersAgree
    <3>18. Holds(matrixSize', ttree', ltree', m, N - 1, H, q, S)
      BY ONLY <1>6, <1>10, <1>14, <3>10, <3>11, <3>16 DEF Holds
    <3> QED  BY ONLY <3>17, <3>18
  <2> QED  BY ONLY <2>1, <2>2
<1>19. PICK M, P, q : /\ Holds(matrixSize', ttree', ltree', M, P, H, q, S)
                      /\ Agree(frames, level - 1, part, q)
  BY ONLY <1>18
<1>20. Pass(gs, H, q, G, A, B, live, s, D)
  <2>1. Active(m, N, H, part, E)
    BY ONLY <1>3
  <2>2. s \in {-1, 1} /\ Pass(frames, H, part, G, A, B, live, s, F)
    BY ONLY <1>5
  <2>3. level < H => IF s = 1 THEN top.offset >= BLOCK_SIZE ELSE top.offset < 0
    BY ONLY <1>6, <1>7
  <2> QED
    BY ONLY <1>9, <1>13, <1>17, <1>19, <2>1, <2>2, <2>3, PassComesBack
<1>21. DeleteHolds'
  BY ONLY <1>3, <1>4, <1>11, <1>12, <1>15, <1>16, <1>19, <1>20, DeleteGoesOn
<1> QED  BY ONLY <1>11, <1>21

\* The edges of A \X B are gone when the first activation has looked at all offsets.
LEMMA DeletePassEnds ==
  ASSUME NEW m, NEW N, NEW H, NEW part, NEW E, NEW G, NEW A, NEW B, NEW F,
         DeletePass(m, N, H, part, E, G, A, B, F), level = 1, top.offset < 0
  PROVE  \A e : e \in E <=> e \in G /\ ~(e[1] \in A /\ e[2] \in B)
<1>1. /\ Active(m, N, H, part, E) /\ E \subseteq G /\ F = G \ E
  BY DEF DeletePass
<1>2. PICK s : s = -1
  OBVIOUS
<1>3. Pass(frames, H, part, G, A, B, live, s, F)
  BY ONLY DeletePass(m, N, H, part, E, G, A, B, F), <1>2 DEF DeletePass
<1>4. AtEnd(s)
  BY ONLY <1>2, level = 1, top.offset < 0 DEF AtEnd
<1>5. \A e \in G : Cut(H, e, 0) = Whole => (e \in F <=> e[1] \in A /\ e[2] \in B)
  BY ONLY <1>1, <1>3, <1>4, PassEnds
<1>6. \A e \in E : Cut(H, e, 0) = Whole
  <2>1. Vectors(ttree, ltree, m, N, H, part) /\ Edges(ttree \o ltree, N, H, part) = E
    BY ONLY <1>1 DEF Active
  <2>2. Mapped(ttree \o ltree, m, N, H, part)
    BY ONLY <2>1, VectorsParts
  <2> QED  BY ONLY <2>1, <2>2, EdgesInMatrix
<1>7. \A e \in F : e[1] \in A /\ e[2] \in B
  BY ONLY <1>3 DEF Pass
<1> QED  BY ONLY <1>1, <1>5, <1>6, <1>7

\* The row pass ends: the edges from the vertex are gone, and the column pass begins.
LEMMA RowPassEndsHolds ==
  ASSUME Typed, SomeStructure, Inside, DeleteHolds, DeleteReturns, level = 1,
         pc = "deleteRow", UNCHANGED graph
  PROVE  DeleteHolds' /\ pc' = "deleteColumn"
<1>1. /\ Deleting /\ top.offset < 0
      /\ ttree' = ttree /\ ltree' = ltree /\ matrixSize' = matrixSize
      /\ frames' = <<Frame(top.columns, top.rows, 0, BLOCK_SIZE - 1)>>
      /\ UNCHANGED <<call, graph, bookkeeping>> /\ pc' = "deleteColumn"
  BY DEF DeleteReturns, PassReturns
<1>2. PICK m, N, H, part, E, G, A, B, F : DeletePass(m, N, H, part, E, G, A, B, F)
  BY <1>1, DeletingPass
<1>3. /\ Active(m, N, H, part, E) /\ G = graph /\ A = {call.a} /\ B = live
      /\ Holds(matrixSize, ttree, ltree, m, N, H, part, E)
  BY <1>2 DEF DeletePass, OnPass, PassRows, PassColumns
<1>4. \A e : e \in E <=> e \in G /\ ~(e[1] \in A /\ e[2] \in B)
  BY ONLY <1>1, <1>2, level = 1, DeletePassEnds
<1>5. \A e : e \in E <=> e \in graph /\ e[1] # call.a
  <2>1. \A e \in graph : e[2] \in live
    BY DEF Inside
  <2> QED  BY ONLY <1>3, <1>4, <2>1
<1>6. PICK a : a = call.a
  OBVIOUS
<1>7. /\ OnPass' = E /\ PassRows' = live /\ PassColumns' = {a} /\ live' = live
  <2>1. E = {e \in graph : e[1] # call.a}
    BY ONLY <1>5
  <2> QED  BY ONLY <1>1, <1>6, <2>1 DEF OnPass, PassRows, PassColumns, live, bookkeeping
<1>8. /\ H \in Nat /\ H >= 2 /\ Along(N, part, frames) /\ top = frames[1]
      /\ Vectors(ttree, ltree, m, N, H, part) /\ Edges(ttree \o ltree, N, H, part) = E
      /\ Len(frames) = 1
  BY ONLY <1>3, level = 1 DEF Active
<1>9. PartAt(part, frames[1].firstAt) = Whole
  BY ONLY <1>8 DEF Along
<1>10. /\ Lists(top.rows, {a}, live, H, 0, 0) /\ Lists(top.columns, live, live, H, 0, 0)
  <2>1. PassLists(H, part, frames, A, B, live)
    BY ONLY <1>2 DEF DeletePass, Pass
  <2>2. 1 \in 1..Len(frames) /\ 1 - 1 = 0
    BY ONLY <1>8
  <2>3. /\ Lists(frames[1].rows, A, live, H, 0, PartAt(part, frames[1].firstAt).row)
        /\ Lists(frames[1].columns, B, live, H, 0, PartAt(part, frames[1].firstAt).column)
    BY ONLY <2>1, <2>2 DEF PassLists
  <2>4. Whole.row = 0 /\ Whole.column = 0
    BY DEF Whole, Part
  <2> QED  BY ONLY <1>3, <1>6, <1>8, <1>9, <2>3, <2>4
<1>11. PICK fs : fs = frames'
  OBVIOUS
<1>12. /\ Len(fs) = 1 /\ fs[1].rows = top.columns /\ fs[1].columns = top.rows
       /\ fs[1].firstAt = 0 /\ fs[1].offset = BLOCK_SIZE - 1
  BY ONLY <1>1, <1>11 DEF Frame
<1>13. PartAt(part, fs[1].firstAt) = Whole
  <2>1. Mapped(ttree \o ltree, m, N, H, part)
    BY ONLY <1>8, VectorsParts
  <2>2. part[0] = Whole
    BY ONLY <2>1 DEF Mapped, Named
  <2>3. 0 \in Nat /\ At(0) = 0
    BY BlockSize DEF At
  <2> QED  BY ONLY <1>12, <2>2, <2>3, PartAtBlock
<1>14. E \subseteq Cells
  <2>1. Mapped(ttree \o ltree, m, N, H, part)
    BY ONLY <1>8, VectorsParts
  <2> QED  BY ONLY <1>8, <2>1, EdgesInMatrix
<1>15. PICK s \in {-1, 1} : s = -1
  OBVIOUS
<1>16. fs[1].offset = IF s = 1 THEN 0 ELSE BLOCK_SIZE - 1
  BY ONLY <1>12, <1>15
<1>17. Pass(fs, H, part, E, live, {a}, live, s, {})
  <2>1. Lists(fs[1].rows, live, live, H, 0, 0) /\ Lists(fs[1].columns, {a}, live, H, 0, 0)
    BY ONLY <1>10, <1>12
  <2>2. H \in Nat /\ H >= 2 /\ Len(fs) = 1
    BY ONLY <1>8, <1>12
  <2> QED  BY ONLY <1>13, <1>14, <1>16, <2>1, <2>2, PassStart
<1>18. /\ Holds(matrixSize', ttree', ltree', m, N, H, part, E) /\ E \subseteq OnPass'
       /\ Pass(frames', H, part, OnPass', PassRows', PassColumns', live', -1, OnPass' \ E)
  <2>1. E \ E = {}
    OBVIOUS
  <2> QED  BY ONLY <1>1, <1>3, <1>7, <1>11, <1>15, <1>17, <2>1
<1> QED  BY ONLY <1>1, <1>18 DEF DeleteHolds

\* The column pass ends: the edges to the vertex are gone too, and it is freed.
LEMMA ColumnPassEndsHolds ==
  ASSUME Typed, SomeStructure, Inside, DeleteHolds, DeleteReturns, level = 1,
         pc = "deleteColumn"
  PROVE  /\ Ends({e \in graph : e[1] # call.a /\ e[2] # call.a})
         /\ reply' = [call |-> call] /\ FreeColumn(call.a) /\ matrixSize' = matrixSize
<1>1. /\ Deleting /\ top.offset < 0 /\ pc' = "idle"
      /\ ttree' = ttree /\ ltree' = ltree /\ matrixSize' = matrixSize
      /\ reply' = [call |-> call] /\ FreeColumn(call.a)
  BY DEF DeleteReturns, PassReturns, Finish
<1>2. PICK m, N, H, part, E, G, A, B, F : DeletePass(m, N, H, part, E, G, A, B, F)
  BY <1>1, DeletingPass
<1>3. /\ G = {e \in graph : e[1] # call.a} /\ A = live /\ B = {call.a}
      /\ Holds(matrixSize, ttree, ltree, m, N, H, part, E)
  BY <1>2 DEF DeletePass, OnPass, PassRows, PassColumns
<1>4. \A e : e \in E <=> e \in G /\ ~(e[1] \in A /\ e[2] \in B)
  BY ONLY <1>1, <1>2, level = 1, DeletePassEnds
<1>5. \A e : e \in E <=> e \in graph /\ e[1] # call.a /\ e[2] # call.a
  <2>1. \A e \in graph : e[1] \in live
    BY DEF Inside
  <2> QED  BY ONLY <1>3, <1>4, <2>1
<1>6. E = {e \in graph : e[1] # call.a /\ e[2] # call.a}
  BY ONLY <1>5
<1>7. Holds(matrixSize', ttree', ltree', m, N, H, part, E)
  BY ONLY <1>1, <1>3
<1>8. Ends(E)
  BY ONLY <1>1, <1>7 DEF Ends
<1> QED  BY ONLY <1>1, <1>6, <1>8
-----------------------------------------------------------------------------
(* The vertices.                                                           *)

\* FreeColumn frees its vertex.
LEMMA VertexFreed ==
  ASSUME Typed, ColumnsInOrder, NEW a \in live, FreeColumn(a)
  PROVE  \A x : x \in live' <=> x \in live /\ x # a
<1>1. firstFreeColumn \in Nat /\ freeColumns \in Seq(Nat)
  BY DEF Typed, TypeOK
<1>2. a \in 0..(firstFreeColumn - 1) /\ a \notin Elements(freeColumns)
  BY DEF live
<1>3. CASE a = firstFreeColumn - 1
  <2>1. firstFreeColumn' = firstFreeColumn - 1 /\ freeColumns' = freeColumns
    BY <1>3 DEF FreeColumn
  <2>2. ASSUME NEW x PROVE x \in 0..(firstFreeColumn' - 1) <=> x \in 0..(firstFreeColumn - 1) /\ x # a
    BY ONLY <1>1, <1>2, <1>3, <2>1
  <2>3. Elements(freeColumns') = Elements(freeColumns)
    BY ONLY <2>1
  <2> QED  BY ONLY <2>2, <2>3 DEF live
<1>4. CASE a # firstFreeColumn - 1
  <2>1. firstFreeColumn' = firstFreeColumn /\ freeColumns' \in PushSorted(freeColumns, a)
    BY <1>4 DEF FreeColumn
  <2>2. PICK n \in 0..Len(freeColumns) :
          freeColumns' = [i \in 1..(Len(freeColumns) + 1) |->
             IF i <= n THEN freeColumns[i] ELSE IF i = n + 1 THEN a ELSE freeColumns[i - 1]]
    BY <2>1 DEF PushSorted
  <2>3. PICK l \in Nat : l = Len(freeColumns)
    BY <1>1
  <2>4. PICK w : w = freeColumns'
    OBVIOUS
  <2>5. PICK v : v = freeColumns
    OBVIOUS
  <2>6. n \in 0..l /\ v \in Seq(Nat) /\ l = Len(v)
    BY ONLY <1>1, <2>3, <2>5, n \in 0..Len(freeColumns)
  <2>7. w = [i \in 1..(l + 1) |-> IF i <= n THEN v[i] ELSE IF i = n + 1 THEN a ELSE v[i - 1]]
    BY ONLY <2>2, <2>3, <2>4, <2>5
  <2>8. w \in Seq(Nat) /\ Len(w) = l + 1
    <3>1. a \in Nat
      BY ONLY <1>1, <1>2
    <3>2. w \in [1..(l + 1) -> Nat]
      <4>1. ASSUME NEW i \in 1..(l + 1)
            PROVE  (IF i <= n THEN v[i] ELSE IF i = n + 1 THEN a ELSE v[i - 1]) \in Nat
        BY ONLY <2>6, <3>1, i \in 1..(l + 1), l \in Nat
      <4> QED  BY ONLY <2>7, <4>1
    <3>3. l + 1 \in Nat
      BY ONLY l \in Nat
    <3> QED  BY ONLY <3>2, <3>3, FunctionIsSeq
  <2>9. ASSUME NEW x PROVE x \in Elements(w) <=> x \in Elements(v) \/ x = a
    <3>1. ASSUME NEW i \in 1..Len(v) PROVE v[i] \in Elements(w)
      <4>1. CASE i <= n
        <5>1. i \in 1..(l + 1) /\ w[i] = v[i]
          BY ONLY <2>6, <2>7, <3>1, <4>1, l \in Nat
        <5> QED  BY ONLY <2>8, <5>1 DEF Elements
      <4>2. CASE i > n
        <5>1. i + 1 \in 1..(l + 1) /\ ~(i + 1 <= n) /\ i + 1 # n + 1 /\ (i + 1) - 1 = i
          BY ONLY <2>6, <3>1, <4>2, l \in Nat
        <5>2. w[i + 1] = v[i]
          BY ONLY <2>7, <5>1
        <5> QED  BY ONLY <2>8, <5>1, <5>2 DEF Elements
      <4> QED  BY ONLY <2>6, <3>1, <4>1, <4>2
    <3>2. a \in Elements(w)
      <4>1. n + 1 \in 1..(l + 1) /\ ~(n + 1 <= n)
        BY ONLY <2>6, l \in Nat
      <4>2. w[n + 1] = a
        BY ONLY <2>7, <4>1
      <4> QED  BY ONLY <2>8, <4>1, <4>2 DEF Elements
    <3>3. ASSUME NEW i \in 1..Len(w) PROVE w[i] \in Elements(v) \/ w[i] = a
      <4>1. i \in 1..(l + 1)
        BY ONLY <2>8, <3>3
      <4>2. w[i] = IF i <= n THEN v[i] ELSE IF i = n + 1 THEN a ELSE v[i - 1]
        BY ONLY <2>7, <4>1
      <4>3. i <= n => i \in 1..Len(v)
        BY ONLY <2>6, <4>1, l \in Nat
      <4>4. ~(i <= n) /\ i # n + 1 => i - 1 \in 1..Len(v)
        BY ONLY <2>6, <4>1, l \in Nat
      <4> QED  BY ONLY <4>2, <4>3, <4>4 DEF Elements
    <3> QED  BY ONLY <3>1, <3>2, <3>3 DEF Elements
  <2> QED  BY ONLY <1>2, <2>1, <2>4, <2>5, <2>9 DEF live
<1> QED  BY ONLY <1>3, <1>4

\* increaseMatrixSize with a 1 in the root block: a new root block above it.
LEMMA TreeRises ==
  ASSUME NEW t, NEW l, NEW m, NEW N, NEW H, NEW part, Vectors(t, l, m, N, H, part)
  PROVE  \E q : /\ Vectors(Risen(t), l, m + 1, N + 1, H + 1, q)
                /\ Edges(Risen(t) \o l, N + 1, H + 1, q) = Edges(t \o l, N, H, part)
<1>0. PICK w : w = Risen(t)
  OBVIOUS
<1>1. /\ t \in Seq(BOOLEAN) /\ l \in Seq(BOOLEAN) /\ Mapped(t \o l, m, N, H, part)
      /\ m \in Nat /\ Len(t) \in Nat /\ Len(t) = At(m)
  BY ONLY Vectors(t, l, m, N, H, part), VectorsParts
<1>2. PICK u : u = InsertBlock(t, 0)
  OBVIOUS
<1>3. u \in Seq(BOOLEAN) /\ Len(u) = Len(t) + BLOCK_SIZE
  <2>1. 0 \in Int
    OBVIOUS
  <2> QED  BY ONLY <1>1, <1>2, <2>1, InsertBlockType
<1>4. 0 \in Nat /\ 0 < Len(u) /\ TRUE \in BOOLEAN /\ 0 <= Len(t)
  BY ONLY <1>1, <1>3, BlockSize
<1>5. SetBit(u, 0, TRUE) \o l = SetBit(u \o l, 0, TRUE)
  BY ONLY <1>1, <1>3, <1>4, ChangeFirst
<1>6. u \o l = InsertBlock(t \o l, 0)
  BY ONLY <1>1, <1>2, <1>4, ChangeFirst
<1>7. PICK W : W = w \o l
  OBVIOUS
<1>8. PICK B : B = t \o l
  OBVIOUS
<1>9. W = Risen(B)
  BY ONLY <1>0, <1>2, <1>5, <1>6, <1>7, <1>8 DEF Risen
<1>10. Mapped(B, m, N, H, part)
  BY ONLY <1>1, <1>8
<1>11. PICK q : q = RisenParts(N, part)
  OBVIOUS
<1>12. /\ Mapped(W, m + 1, N + 1, H + 1, q)
       /\ Edges(W, N + 1, H + 1, q) = Edges(B, N, H, part)
  BY ONLY <1>9, <1>10, <1>11, MappedRises
<1>13. w \in Seq(BOOLEAN) /\ Len(w) = At(m + 1)
  <2>1. SetBit(u, 0, TRUE) \in Seq(BOOLEAN) /\ Len(SetBit(u, 0, TRUE)) = Len(u)
    BY ONLY <1>3, <1>4, SetBitType
  <2>2. At(m + 1) = At(m) + BLOCK_SIZE
    BY ONLY <1>1, AtNext
  <2> QED  BY ONLY <1>0, <1>1, <1>2, <1>3, <2>1, <2>2 DEF Risen
<1>14. Vectors(w, l, m + 1, N + 1, H + 1, q)
  BY ONLY <1>1, <1>7, <1>12, <1>13 DEF Vectors
<1> QED  BY ONLY <1>0, <1>7, <1>8, <1>12, <1>14

\* With no 1 in the root block there is no other block, and no edge.
LEMMA FlatTree ==
  ASSUME SomeStructure, Typed, pc = "idle", Rank1(ttree, BLOCK_SIZE) = 0,
         NEW m, NEW N, NEW H, NEW part, NEW S, Holds(matrixSize, ttree, ltree, m, N, H, part, S)
  PROVE  /\ S = {}
         /\ \A G \in Nat : G >= 2 => \E q : /\ Vectors(ttree, ltree, 1, 1, G, q)
                                            /\ Edges(ttree \o ltree, 1, G, q) = {}
<1>1. PICK b : Structured(H, b)
  BY SameHeight
<1>2. /\ H \in Nat /\ H >= 2 /\ matrixSize = LongPow[H] /\ Vectors(ttree, ltree, m, N, H, part)
      /\ Edges(ttree \o ltree, N, H, part) = S
  BY SameHeight
<1>3. Levels(ttree, Len(ltree), H, b, H)
  BY <1>1, NothingOwed
<1>4. ttree \in Seq(BOOLEAN) /\ ltree \in Seq(BOOLEAN) /\ Len(ltree) \in Nat
  BY DEF Typed, TypeOK
<1>5. Len(ttree) = BLOCK_SIZE /\ Len(ltree) = 0
  BY ONLY <1>3, <1>4, Rank1(ttree, BLOCK_SIZE) = 0, OnlyRootBlock
<1>6. PICK B : B = ttree \o ltree /\ Joined(B, ttree, ltree) /\ B \in Seq(BOOLEAN)
  BY ONLY <1>4, JoinedVectors
<1>7. Len(B) = BLOCK_SIZE
  BY ONLY <1>5, <1>6, BlockSize DEF Joined
<1>8. \A o \in Offsets : ~Access(B, o)
  <2> SUFFICES ASSUME NEW o \in Offsets PROVE ~Access(B, o)
    OBVIOUS
  <2>1. o \in Nat /\ o < BLOCK_SIZE /\ o <= BLOCK_SIZE /\ BLOCK_SIZE \in Nat
    BY ONLY o \in Offsets, BlockSize DEF Offsets
  <2>2. ~Access(ttree, o)
    <3>1. Rank1(ttree, o) \in Nat
      BY ONLY <1>4, Rank1Type
    <3> QED  BY ONLY <1>4, <2>1, <3>1, Rank1(ttree, BLOCK_SIZE) = 0, RankGrows
  <2> QED  BY ONLY <1>5, <1>6, <2>1, <2>2 DEF Joined
<1>9. PICK p : p = [x \in 0..0 |-> Whole]
  OBVIOUS
<1>10. \A G \in Nat : G >= 2 => Mapped(B, 1, 1, G, p) /\ Edges(B, 1, G, p) = {}
  BY ONLY <1>6, <1>7, <1>8, <1>9, RootMapped
<1>11. S = {}
  <2>1. Mapped(ttree \o ltree, m, N, H, part)
    BY ONLY <1>2, VectorsParts
  <2>2. Decode = Edges(ttree \o ltree, N, H, part)
    BY ONLY <1>2, <2>1, DecodeIsEdges DEF DecodesEdges
  <2>3. Mapped(ttree \o ltree, 1, 1, H, p) /\ Edges(ttree \o ltree, 1, H, p) = {}
    BY ONLY <1>2, <1>6, <1>10
  <2>4. Decode = Edges(ttree \o ltree, 1, H, p)
    BY ONLY <1>2, <2>3, DecodeIsEdges DEF DecodesEdges
  <2> QED  BY ONLY <1>2, <2>2, <2>3, <2>4
<1>12. Len(ttree) = At(1)
  <2>1. At(0) = 0 /\ At(0 + 1) = At(0) + BLOCK_SIZE /\ BLOCK_SIZE \in Nat
    BY AtNext, AtOrder, BlockSize
  <2> QED  BY ONLY <1>5, <2>1
<1>13. ASSUME NEW G \in Nat, G >= 2
       PROVE  Vectors(ttree, ltree, 1, 1, G, p) /\ Edges(ttree \o ltree, 1, G, p) = {}
  BY ONLY <1>4, <1>6, <1>10, <1>12, <1>13 DEF Vectors
<1> QED  BY ONLY <1>11, <1>13

\* increaseMatrixSize keeps the edges.
LEMMA MatrixRises ==
  ASSUME SomeStructure, Typed, pc = "idle", IncreaseMatrixSize,
         NEW m, NEW N, NEW H, NEW part, NEW S, Holds(matrixSize, ttree, ltree, m, N, H, part, S)
  PROVE  \E M, P, q : Holds(matrixSize', ttree', ltree', M, P, H + 1, q, S)
<1>1. /\ H \in Nat /\ H >= 2 /\ matrixSize = LongPow[H] /\ Vectors(ttree, ltree, m, N, H, part)
      /\ Edges(ttree \o ltree, N, H, part) = S
  BY SameHeight
<1>2. matrixSize' = LongPow[H + 1] /\ ltree' = ltree /\ H + 1 \in Nat /\ H + 1 >= 2
  <2>1. LongPow[H + 1] = K * LongPow[H] /\ LongPow[H] \in Nat
    BY <1>1, LongPowGrows, LongPowPositive
  <2>2. LongPow[H] * K = K * LongPow[H]
    BY <2>1, KAssumption
  <2> QED  BY <1>1, <2>1, <2>2 DEF IncreaseMatrixSize
<1>3. CASE Rank1(ttree, BLOCK_SIZE) > 0
  <2>1. PICK w : w = ttree'
    OBVIOUS
  <2>2. w = Risen(ttree)
    BY <1>3, <2>1 DEF IncreaseMatrixSize, Risen
  <2>3. PICK q : /\ Vectors(w, ltree, m + 1, N + 1, H + 1, q)
                 /\ Edges(w \o ltree, N + 1, H + 1, q) = Edges(ttree \o ltree, N, H, part)
    BY ONLY <1>1, <2>2, TreeRises
  <2>4. Holds(matrixSize', ttree', ltree', m + 1, N + 1, H + 1, q, S)
    BY ONLY <1>1, <1>2, <2>1, <2>3 DEF Holds
  <2> QED  BY ONLY <2>4
<1>4. CASE ~(Rank1(ttree, BLOCK_SIZE) > 0)
  <2>1. ttree' = ttree
    BY <1>4 DEF IncreaseMatrixSize
  <2>2. Rank1(ttree, BLOCK_SIZE) = 0
    <3>1. ttree \in Seq(BOOLEAN)
      BY DEF Typed, TypeOK
    <3> QED  BY ONLY <1>4, <3>1, Rank1Type
  <2>3. S = {} /\ \E q : /\ Vectors(ttree, ltree, 1, 1, H + 1, q)
                         /\ Edges(ttree \o ltree, 1, H + 1, q) = {}
    BY ONLY SomeStructure, Typed, pc = "idle", <1>2, <2>2,
            Holds(matrixSize, ttree, ltree, m, N, H, part, S), FlatTree
  <2>4. PICK q : /\ Vectors(ttree, ltree, 1, 1, H + 1, q)
                 /\ Edges(ttree \o ltree, 1, H + 1, q) = {}
    BY ONLY <2>3
  <2>5. Holds(matrixSize', ttree', ltree', 1, 1, H + 1, q, S)
    BY ONLY <1>2, <2>1, <2>3, <2>4 DEF Holds
  <2> QED  BY ONLY <2>5
<1> QED  BY ONLY <1>3, <1>4
-----------------------------------------------------------------------------
(* insertEntry.                                                            *)

\* Without the first element of an ascending vector.
LEMMA TailElements ==
  ASSUME NEW v \in Seq(Nat), v # <<>>, Ascending(v)
  PROVE  /\ Head(v) \in Elements(v)
         /\ \A x \in Elements(v) : Head(v) <= x
         /\ \A x : x \in Elements(Tail(v)) <=> x \in Elements(v) /\ x # Head(v)
<1>1. PICK n \in Nat : n = Len(v) /\ n >= 1
  OBVIOUS
<1>2. PICK w : w = Tail(v)
  OBVIOUS
<1>3. PICK h : h = Head(v)
  OBVIOUS
<1>4. Len(w) = n - 1 /\ h = v[1] /\ \A i \in 1..(n - 1) : w[i] = v[i + 1]
  BY <1>1, <1>2, <1>3
<1>5. ASSUME NEW i \in 1..n, i # 1 PROVE h < v[i] /\ i - 1 \in 1..(n - 1) /\ w[i - 1] = v[i]
  <2>1. 1 \in 1..n /\ 1 < i
    BY ONLY <1>1, <1>5
  <2>2. v[1] < v[i]
    BY ONLY <1>1, <1>5, <2>1, Ascending(v) DEF Ascending
  <2>3. i - 1 \in 1..(n - 1) /\ (i - 1) + 1 = i
    BY ONLY <1>1, <1>5
  <2> QED  BY ONLY <1>4, <2>2, <2>3
<1>6. \A i \in 1..n : v[i] \in Nat
  BY ONLY <1>1, v \in Seq(Nat)
<1>7. 1 \in 1..n
  BY ONLY <1>1
<1>8. h \in Elements(v)
  BY ONLY <1>1, <1>4, <1>7 DEF Elements
<1>9. \A x \in Elements(v) : h <= x
  <2>1. ASSUME NEW i \in 1..n PROVE h <= v[i]
    <3>1. CASE i = 1
      BY ONLY <1>4, <1>6, <1>7, <3>1
    <3>2. CASE i # 1
      <4>1. h < v[i] /\ h \in Nat /\ v[i] \in Nat
        BY ONLY <1>4, <1>5, <1>6, <1>7, <2>1, <3>2
      <4> QED  BY ONLY <4>1
    <3> QED  BY ONLY <3>1, <3>2
  <2> QED  BY ONLY <1>1, <2>1 DEF Elements
<1>10. ASSUME NEW i \in 1..n PROVE v[i] \in Elements(w) \/ v[i] = h
  <2>1. CASE i = 1
    BY ONLY <1>4, <2>1
  <2>2. CASE i # 1
    BY ONLY <1>4, <1>5, <1>10, <2>2 DEF Elements
  <2> QED  BY ONLY <2>1, <2>2
<1>11. ASSUME NEW j \in 1..(n - 1) PROVE w[j] \in Elements(v) /\ w[j] # h
  <2>1. j + 1 \in 1..n /\ j + 1 # 1
    BY ONLY <1>1, <1>11
  <2>2. w[j] = v[j + 1] /\ h < v[j + 1] /\ h \in Nat
    BY ONLY <1>4, <1>5, <1>6, <1>7, <1>11, <2>1
  <2> QED  BY ONLY <1>1, <1>6, <2>1, <2>2 DEF Elements
<1>12. \A x : x \in Elements(w) <=> x \in Elements(v) /\ x # h
  BY ONLY <1>1, <1>4, <1>10, <1>11 DEF Elements
<1> QED  BY ONLY <1>2, <1>3, <1>8, <1>9, <1>12

\* insertEntry returns the smallest number that is not in use.
LEMMA VertexInserted ==
  ASSUME Typed, ColumnsInOrder, firstFreeColumn <= MaxVertices, InsertEntry
  PROVE  /\ firstFreeColumn' <= MaxVertices
         /\ \E v \in 0..(MaxVertices - 1) :
              /\ v \notin live /\ \A u \in Nat : u < v => u \in live
              /\ reply' = [call |-> [op |-> "insertEntry"], vertex |-> v]
              /\ \A x : x \in live' <=> x \in live \/ x = v
<1>1. firstFreeColumn \in Nat /\ freeColumns \in Seq(Nat) /\ MaxVertices \in Nat
  BY BoundsAssumption DEF Typed, TypeOK
<1>2. Ascending(freeColumns) /\ Below(freeColumns, firstFreeColumn)
  BY ColumnsInOrderParts
<1>3. PICK c : c = freeColumns
  OBVIOUS
<1>4. PICK f : f = firstFreeColumn
  OBVIOUS
<1>5. CASE freeColumns # <<>>
  <2>1. /\ freeColumns' = Tail(freeColumns) /\ firstFreeColumn' = firstFreeColumn
        /\ reply' = [call |-> [op |-> "insertEntry"], vertex |-> Head(freeColumns)]
    BY <1>5 DEF InsertEntry, Finish
  <2>2. PICK v : v = Head(freeColumns)
    OBVIOUS
  <2>3. PICK w : w = Tail(freeColumns)
    OBVIOUS
  <2>4. /\ v \in Elements(c) /\ \A x \in Elements(c) : v <= x
        /\ \A x : x \in Elements(w) <=> x \in Elements(c) /\ x # v
    BY ONLY <1>1, <1>2, <1>3, <1>5, <2>2, <2>3, TailElements
  <2>5. v \in Nat /\ v < f
    BY ONLY <1>1, <1>2, <1>3, <1>4, <2>4 DEF Elements, Below
  <2>6. v \in 0..(MaxVertices - 1) /\ v \in 0..(f - 1)
    BY ONLY <1>1, <1>4, <2>5, firstFreeColumn <= MaxVertices
  <2>7. v \notin live
    BY ONLY <1>3, <2>4 DEF live
  <2>8. ASSUME NEW u \in Nat, u < v PROVE u \in live
    <3>1. u \in 0..(f - 1) /\ ~(v <= u)
      BY ONLY <1>1, <1>4, <2>5, <2>8
    <3> QED  BY ONLY <1>3, <1>4, <2>4, <3>1 DEF live
  <2>9. ASSUME NEW x PROVE x \in live' <=> x \in live \/ x = v
    BY ONLY <1>3, <1>4, <2>1, <2>3, <2>4, <2>6 DEF live
  <2> QED  BY ONLY <2>1, <2>2, <2>6, <2>7, <2>8, <2>9, firstFreeColumn <= MaxVertices
<1>6. CASE freeColumns = <<>>
  <2>1. /\ freeColumns' = freeColumns /\ firstFreeColumn' = firstFreeColumn + 1
        /\ firstFreeColumn < MaxVertices
        /\ reply' = [call |-> [op |-> "insertEntry"], vertex |-> firstFreeColumn]
    BY <1>6 DEF InsertEntry, Finish
  <2>2. Elements(freeColumns) = {} /\ Elements(freeColumns') = {}
    <3>1. Len(freeColumns) = 0
      BY <1>6
    <3>2. \A x : x \notin Elements(freeColumns)
      BY ONLY <3>1 DEF Elements
    <3> QED  BY ONLY <2>1, <3>2
  <2>3. f \in 0..(MaxVertices - 1) /\ f + 1 <= MaxVertices
    BY ONLY <1>1, <1>4, <2>1
  <2>4. \A x : x \in live <=> x \in 0..(f - 1)
    BY ONLY <1>4, <2>2 DEF live
  <2>5. \A x : x \in live' <=> x \in 0..((f + 1) - 1)
    BY ONLY <1>4, <2>1, <2>2 DEF live
  <2>6. \A u \in Nat : u < f => u \in 0..(f - 1)
    BY ONLY <1>1, <1>4
  <2>7. f \notin 0..(f - 1)
    BY ONLY <1>1, <1>4
  <2>8. \A x : x \in 0..((f + 1) - 1) <=> x \in 0..(f - 1) \/ x = f
    BY ONLY <1>1, <1>4
  <2> QED  BY ONLY <1>4, <2>1, <2>3, <2>4, <2>5, <2>6, <2>7, <2>8
<1> QED  BY ONLY <1>5, <1>6

\* It keeps the edges.
LEMMA InsertEntryHolds ==
  ASSUME Typed, SomeStructure, IdleHolds, InsertEntry
  PROVE  Ends(graph)
<1>1. pc = "idle" /\ pc' = "idle"
  BY DEF InsertEntry, Finish
<1>2. PICK m, N, H, part : Holds(matrixSize, ttree, ltree, m, N, H, part, graph)
  BY <1>1 DEF IdleHolds
<1>3. UNCHANGED matrix \/ IncreaseMatrixSize
  BY DEF InsertEntry
<1>4. CASE UNCHANGED matrix
  <2>1. matrixSize' = matrixSize /\ ttree' = ttree /\ ltree' = ltree
    BY <1>4 DEF matrix
  <2> QED  BY ONLY <1>1, <1>2, <2>1 DEF Ends
<1>5. CASE IncreaseMatrixSize
  <2>1. \E M, P, q : Holds(matrixSize', ttree', ltree', M, P, H + 1, q, graph)
    BY ONLY Typed, SomeStructure, <1>1, <1>2, <1>5, MatrixRises
  <2> QED  BY ONLY <1>1, <2>1 DEF Ends
<1> QED  BY ONLY <1>3, <1>4, <1>5
-----------------------------------------------------------------------------
(* The invariant of the running call.                                      *)

\* What the vectors hold, whatever runs.
AllHolds ==
  /\ IdleHolds /\ TraverseHolds /\ ExtendHolds /\ RemoveHolds /\ PruneHolds
  /\ FindHolds /\ CollectHolds /\ DeleteHolds

\* The vertices are below the bound, and edges join vertices in use.
GraphInv ==
  /\ AllHolds /\ Asked /\ NoFindings /\ Inside /\ firstFreeColumn <= MaxVertices

\* What is known of the vectors by themselves.
Sound == Typed /\ SomeStructure /\ ColumnsInOrder /\ Unanswered

\* While the call goes on, AllHolds says what holds of this kind of call.
LEMMA RunningHolds ==
  /\ pc' = "traverse" /\ TraverseHolds' => AllHolds'
  /\ pc' = "extend" /\ ExtendHolds' => AllHolds'
  /\ pc' = "remove" /\ RemoveHolds' => AllHolds'
  /\ pc' = "prune" /\ PruneHolds' => AllHolds'
  /\ pc' = "find" /\ FindHolds' => AllHolds'
  /\ pc' \in {"collect", "deleteRow", "deleteColumn"} /\ CollectHolds' /\ DeleteHolds' => AllHolds'
  /\ pc' = "idle" /\ IdleHolds' => AllHolds'
<1>1. pc' = "traverse" /\ TraverseHolds' => AllHolds'
  BY DEF AllHolds, IdleHolds, ExtendHolds, RemoveHolds, PruneHolds, FindHolds, CollectHolds,
         DeleteHolds, Deleting
<1>2. pc' = "extend" /\ ExtendHolds' => AllHolds'
  BY DEF AllHolds, IdleHolds, TraverseHolds, RemoveHolds, PruneHolds, FindHolds, CollectHolds,
         DeleteHolds, Deleting
<1>3. pc' = "remove" /\ RemoveHolds' => AllHolds'
  BY DEF AllHolds, IdleHolds, TraverseHolds, ExtendHolds, PruneHolds, FindHolds, CollectHolds,
         DeleteHolds, Deleting
<1>4. pc' = "prune" /\ PruneHolds' => AllHolds'
  BY DEF AllHolds, IdleHolds, TraverseHolds, ExtendHolds, RemoveHolds, FindHolds, CollectHolds,
         DeleteHolds, Deleting
<1>5. pc' = "find" /\ FindHolds' => AllHolds'
  BY DEF AllHolds, IdleHolds, TraverseHolds, ExtendHolds, RemoveHolds, PruneHolds, CollectHolds,
         DeleteHolds, Deleting
<1>6. pc' \in {"collect", "deleteRow", "deleteColumn"} /\ CollectHolds' /\ DeleteHolds'
        => AllHolds'
  BY DEF AllHolds, IdleHolds, TraverseHolds, ExtendHolds, RemoveHolds, PruneHolds, FindHolds
<1>7. pc' = "idle" /\ IdleHolds' => AllHolds'
  BY DEF AllHolds, TraverseHolds, ExtendHolds, RemoveHolds, PruneHolds, FindHolds, CollectHolds,
         DeleteHolds, Deleting
<1> QED  BY ONLY <1>1, <1>2, <1>3, <1>4, <1>5, <1>6, <1>7

\* A call returns with the edges S.
Answers(S) ==
  \/ /\ EdgeAsked /\ call.op = "addEdge" /\ call.row \in live /\ call.column \in live
     /\ S = graph \cup {Arc} /\ reply' = [call |-> call] /\ UNCHANGED bookkeeping
  \/ /\ EdgeAsked /\ call.op = "removeEdge"
     /\ S = graph \ {Arc} /\ reply' = [call |-> call] /\ UNCHANGED bookkeeping
  \/ /\ EdgeAsked /\ call.op = "reportEdge" /\ call.row \in live /\ call.column \in live
     /\ S = graph /\ reply' = [call |-> call, edge |-> Arc \in graph] /\ UNCHANGED bookkeeping
  \/ QueryAsked /\ S = graph /\ UNCHANGED bookkeeping /\ Reported
  \/ /\ EntryAsked /\ S = {e \in graph : e[1] # call.a /\ e[2] # call.a}
     /\ reply' = [call |-> call] /\ FreeColumn(call.a)

\* Either the call goes on or it returns.
Runs == \/ pc' # "idle" /\ AllHolds'
        \/ \E S : Ends(S) /\ Answers(S)

\* A step of addEdge or reportEdge.
LEMMA EdgeStepRuns ==
  ASSUME Sound, GraphInv, GraphKept,
         \/ TraverseOne \/ ReportEdgeReturns \/ AddEdgeInLTree
         \/ AddEdgeAtFirst0 \/ ExtendTTree \/ ExtendLTree
  PROVE  Runs
<1>1. /\ Typed /\ SomeStructure /\ Asked /\ TraverseHolds /\ ExtendHolds
  BY DEF Sound, GraphInv, AllHolds
<1>2. CASE TraverseOne
  <2>1. pc' = "traverse"
    BY <1>1, <1>2, PartitionsLeft DEF TraverseOne
  <2>2. UNCHANGED graph
    BY <2>1 DEF GraphKept
  <2>3. TraverseHolds'
    BY ONLY <1>1, <1>2, <2>2, TraverseOneHolds
  <2> QED  BY ONLY <2>1, <2>3, RunningHolds DEF Runs
<1>3. CASE ReportEdgeReturns
  <2>1. Ends(graph) /\ reply' = [call |-> call, edge |-> Arc \in graph]
    BY ONLY <1>1, <1>3, ReportEdgeReturnsHolds
  <2>2. pc = "traverse" /\ call.op = "reportEdge" /\ UNCHANGED bookkeeping
    BY ONLY <1>3 DEF ReportEdgeReturns, AtFirst0, AtLTree
  <2>3. EdgeAsked /\ call.row \in live /\ call.column \in live
    BY ONLY <1>1, <2>2 DEF Asked
  <2>4. Answers(graph)
    BY ONLY <2>1, <2>2, <2>3 DEF Answers
  <2> QED  BY ONLY <2>1, <2>4 DEF Runs
<1>4. CASE AddEdgeInLTree
  <2>1. Ends(graph \cup {Arc}) /\ reply' = [call |-> call]
    BY ONLY <1>1, <1>4, AddEdgeInLTreeHolds
  <2>2. pc = "traverse" /\ call.op = "addEdge" /\ UNCHANGED bookkeeping
    BY ONLY <1>4 DEF AddEdgeInLTree, AtLTree
  <2>3. EdgeAsked /\ call.row \in live /\ call.column \in live
    BY ONLY <1>1, <2>2 DEF Asked
  <2>4. Answers(graph \cup {Arc})
    BY ONLY <2>1, <2>2, <2>3 DEF Answers
  <2> QED  BY ONLY <2>1, <2>4 DEF Runs
<1>5. CASE AddEdgeAtFirst0
  <2>1. pc' = "extend"
    BY ONLY <1>5 DEF AddEdgeAtFirst0
  <2>2. UNCHANGED graph
    BY <2>1 DEF GraphKept
  <2>3. ExtendHolds'
    BY ONLY <1>1, <1>5, <2>2, AddEdgeAtFirst0Holds
  <2> QED  BY ONLY <2>1, <2>3, RunningHolds DEF Runs
<1>6. CASE ExtendTTree
  <2>1. pc' = "extend"
    BY ONLY <1>6 DEF ExtendTTree
  <2>2. UNCHANGED graph
    BY <2>1 DEF GraphKept
  <2>3. ExtendHolds'
    BY ONLY <1>1, <1>6, <2>2, ExtendTTreeHolds
  <2> QED  BY ONLY <2>1, <2>3, RunningHolds DEF Runs
<1>7. CASE ExtendLTree
  <2>1. Ends(graph \cup {Arc}) /\ reply' = [call |-> call]
    BY ONLY <1>1, <1>7, ExtendLTreeHolds
  <2>2. pc = "extend" /\ UNCHANGED bookkeeping
    BY ONLY <1>7 DEF ExtendLTree
  <2>3. EdgeAsked /\ call.op = "addEdge" /\ call.row \in live /\ call.column \in live
    BY ONLY <1>1, <2>2 DEF Asked
  <2>4. Answers(graph \cup {Arc})
    BY ONLY <2>1, <2>2, <2>3 DEF Answers
  <2> QED  BY ONLY <2>1, <2>4 DEF Runs
<1> QED  BY <1>2, <1>3, <1>4, <1>5, <1>6, <1>7

\* A step of removeEdge.
LEMMA RemoveStepRuns ==
  ASSUME Sound, GraphInv, GraphKept,
         RemoveDescends \/ RemoveStops \/ RemoveInLTree \/ Prune
  PROVE  Runs
<1>1. /\ Typed /\ SomeStructure /\ Asked /\ RemoveHolds /\ PruneHolds
  BY DEF Sound, GraphInv, AllHolds
<1>2. pc \in {"remove", "prune"} /\ UNCHANGED bookkeeping
  BY DEF RemoveDescends, RemoveStops, RemoveInLTree, Prune
<1>3. EdgeAsked /\ call.op = "removeEdge"
  BY ONLY <1>1, <1>2 DEF Asked
<1>4. Ends(graph \ {Arc}) /\ reply' = [call |-> call] => Runs
  <2>1. reply' = [call |-> call] => Answers(graph \ {Arc})
    BY ONLY <1>2, <1>3 DEF Answers
  <2> QED  BY ONLY <2>1 DEF Runs
<1>5. PruneHolds' /\ pc' = "prune" => Runs
  BY ONLY RunningHolds DEF Runs
<1>6. CASE RemoveDescends
  <2>1. pc' = "remove"
    BY <1>1, <1>6, PartitionsLeft DEF RemoveDescends
  <2>2. UNCHANGED graph
    BY <2>1 DEF GraphKept
  <2>3. RemoveHolds'
    BY ONLY <1>1, <1>6, <2>2, RemoveDescendsHolds
  <2> QED  BY ONLY <2>1, <2>3, RunningHolds DEF Runs
<1>7. CASE RemoveStops
  BY ONLY <1>1, <1>4, <1>7, RemoveStopsHolds
<1>8. CASE RemoveInLTree
  BY ONLY <1>1, <1>4, <1>5, <1>8, GraphKept, RemoveInLTreeHolds
<1>9. CASE Prune
  BY ONLY <1>1, <1>4, <1>5, <1>9, GraphKept, PruneStepHolds
<1> QED  BY <1>6, <1>7, <1>8, <1>9

\* A step of reportAllEdges.
LEMMA FindStepRuns ==
  ASSUME Sound, GraphInv, GraphKept,
         FindSkips \/ FindDescends \/ FindDone \/ FindInLTree
  PROVE  Runs
<1>1. /\ Typed /\ SomeStructure /\ Asked /\ FindHolds
  BY DEF Sound, GraphInv, AllHolds
<1>2. pc = "find" /\ UNCHANGED bookkeeping
  BY DEF FindSkips, FindDescends, FindDone, FindAtTTree, FindInLTree, FindReturns
<1>3. QueryAsked
  BY ONLY <1>1, <1>2 DEF Asked
<1>4. FindHolds' /\ pc' = "find" => Runs
  BY ONLY RunningHolds DEF Runs
<1>5. CASE FindSkips \/ FindDescends
  <2>1. pc' = "find"
    BY ONLY <1>2, <1>5 DEF FindSkips, FindDescends
  <2>2. UNCHANGED graph
    BY <2>1 DEF GraphKept
  <2>3. FindHolds'
    BY ONLY <1>1, <1>5, <2>2, FindSkipsHolds, FindDescendsHolds
  <2> QED  BY ONLY <1>4, <2>1, <2>3
<1>6. CASE FindDone
  <2>1. \/ FindHolds' /\ pc' = "find"
        \/ Ends(graph) /\ Reported
    BY ONLY <1>1, <1>6, GraphKept, FindDoneHolds
  <2>2. Reported => Answers(graph)
    BY ONLY <1>2, <1>3 DEF Answers
  <2>3. Ends(graph) /\ Answers(graph) => Runs
    BY DEF Runs
  <2> QED  BY ONLY <1>4, <2>1, <2>2, <2>3
<1>7. CASE FindInLTree
  BY ONLY <1>1, <1>4, <1>7, GraphKept, FindInLTreeHolds
<1> QED  BY <1>5, <1>6, <1>7

\* A step of deleteEntry.
LEMMA DeleteStepRuns ==
  ASSUME Sound, GraphInv, GraphKept, Asked',
         \/ CollectOthers \/ DeleteSkips \/ DeleteKeeps \/ DeleteDescends
         \/ DeleteReturns \/ DeleteInLTree
  PROVE  Runs
<1>1. /\ Typed /\ SomeStructure /\ ColumnsInOrder /\ Asked /\ Inside /\ CollectHolds /\ DeleteHolds
  BY DEF Sound, GraphInv, AllHolds
<1>2. pc' \in {"collect", "deleteRow", "deleteColumn"} /\ CollectHolds' /\ DeleteHolds' => Runs
  BY ONLY RunningHolds DEF Runs
<1>3. pc' \in {"deleteRow", "deleteColumn"} /\ DeleteHolds' => Runs
  <2>1. pc' \in {"deleteRow", "deleteColumn"} => CollectHolds'
    BY DEF CollectHolds
  <2> QED  BY ONLY <1>2, <2>1
<1>4. CASE CollectOthers
  <2>1. pc' \in {"collect", "deleteRow"}
    BY ONLY <1>4 DEF CollectOthers
  <2>2. UNCHANGED graph
    BY <2>1 DEF GraphKept
  <2>3. CollectHolds' /\ DeleteHolds'
    BY ONLY <1>1, <1>4, <2>2, Asked', CollectOthersHolds
  <2> QED  BY ONLY <1>2, <2>1, <2>3
<1>5. CASE DeleteSkips \/ DeleteKeeps
  <2>1. pc' = pc /\ pc \in {"deleteRow", "deleteColumn"}
    BY ONLY <1>5 DEF DeleteSkips, DeleteKeeps, AtTTreeOffset, Deleting, NextOffset
  <2>2. UNCHANGED graph
    BY <2>1 DEF GraphKept
  <2>3. DeleteHolds'
    BY ONLY <1>1, <1>5, <2>2, DeleteSkipsHolds
  <2> QED  BY ONLY <1>3, <2>1, <2>3
<1>6. CASE DeleteDescends
  <2>1. pc' = pc /\ pc \in {"deleteRow", "deleteColumn"}
    BY ONLY <1>6 DEF DeleteDescends, AtTTreeOffset, Deleting
  <2>2. UNCHANGED graph
    BY <2>1 DEF GraphKept
  <2>3. DeleteHolds'
    BY ONLY <1>1, <1>6, <2>2, DeleteDescendsHolds
  <2> QED  BY ONLY <1>3, <2>1, <2>3
<1>7. CASE DeleteInLTree
  <2>1. pc \in {"deleteRow", "deleteColumn"}
    BY ONLY <1>7 DEF DeleteInLTree, Deleting
  <2>2. DeleteHolds' /\ pc' = pc
    BY ONLY <1>1, <1>7, GraphKept, DeleteInLTreeHolds
  <2> QED  BY ONLY <1>3, <2>1, <2>2
<1>8. CASE DeleteReturns /\ level # 1
  <2>1. pc' = pc /\ pc \in {"deleteRow", "deleteColumn"}
    BY ONLY <1>8 DEF DeleteReturns, Deleting, CallerContinues
  <2>2. UNCHANGED graph
    BY <2>1 DEF GraphKept
  <2>3. DeleteHolds'
    BY ONLY <1>1, <1>8, <2>2, DeleteReturnsHolds
  <2> QED  BY ONLY <1>3, <2>1, <2>3
<1>9. CASE DeleteReturns /\ level = 1 /\ pc = "deleteRow"
  <2>1. pc' = "deleteColumn"
    BY ONLY <1>9 DEF DeleteReturns, PassReturns
  <2>2. UNCHANGED graph
    BY <2>1 DEF GraphKept
  <2>3. DeleteHolds'
    BY ONLY <1>1, <1>9, <2>2, RowPassEndsHolds
  <2> QED  BY ONLY <1>3, <2>1, <2>3
<1>10. CASE DeleteReturns /\ level = 1 /\ pc = "deleteColumn"
  <2>1. /\ Ends({e \in graph : e[1] # call.a /\ e[2] # call.a})
        /\ reply' = [call |-> call] /\ FreeColumn(call.a)
    BY ONLY <1>1, <1>10, ColumnPassEndsHolds
  <2>2. EntryAsked
    BY ONLY <1>1, <1>10 DEF Asked
  <2>3. Answers({e \in graph : e[1] # call.a /\ e[2] # call.a})
    BY ONLY <2>1, <2>2 DEF Answers
  <2> QED  BY ONLY <2>1, <2>3 DEF Runs
<1>11. DeleteReturns => pc \in {"deleteRow", "deleteColumn"}
  BY DEF DeleteReturns, Deleting
<1> QED  BY <1>4, <1>5, <1>6, <1>7, <1>8, <1>9, <1>10, <1>11

\* A step of a running call.
LEMMA StepRunsOn ==
  ASSUME Sound, GraphInv, GraphKept, Asked', Step
  PROVE  Runs
BY EdgeStepRuns, RemoveStepRuns, FindStepRuns, DeleteStepRuns DEF Step

\* A call that refuses its arguments.
Refuses ==
  /\ UNCHANGED bookkeeping
  /\ \/ \E e \in Arcs, op \in {"addEdge", "reportEdge"} :
          /\ ~(e[1] \in live /\ e[2] \in live)
          /\ reply' = [call |-> EdgeCall(op, e[1], e[2]), throws |-> "invalid_argument"]
     \/ \E a \in Deletions :
          /\ a \notin live
          /\ reply' = [call |-> [op |-> "deleteEntry", a |-> a], throws |-> "invalid_argument"]
     \/ \E q \in Queries :
          /\ ~(Accepted(q[1]) /\ Accepted(q[2]))
          /\ reply' = [call   |-> [op |-> "reportAllEdges", A |-> q[1], B |-> q[2]],
                       throws |-> "invalid_argument"]

\* A call begins, or refuses its arguments, or, when it is insertEntry, has ended.
Begins == \/ pc' # "idle" /\ AllHolds' /\ reply' = NoReply /\ UNCHANGED bookkeeping
          \/ Ends(graph) /\ (Refuses \/ InsertEntry)

\* Nothing has changed when it refuses them.
LEMMA RefusalHolds ==
  ASSUME IdleHolds, pc = "idle", pc' = "idle", UNCHANGED matrix
  PROVE  Ends(graph)
<1>1. PICK m, N, H, part : Holds(matrixSize, ttree, ltree, m, N, H, part, graph)
  BY DEF IdleHolds
<1>2. matrixSize' = matrixSize /\ ttree' = ttree /\ ltree' = ltree
  BY DEF matrix
<1> QED  BY ONLY pc' = "idle", <1>1, <1>2 DEF Ends

\* The root block of the matrix has a level below it.
LEMMA FirstPartition ==
  ASSUME IdleHolds, SomeStructure, pc = "idle"
  PROVE  Partition(1) \in Nat /\ Partition(1) > 0
<1>1. PICK m, N, H, part : Holds(matrixSize, ttree, ltree, m, N, H, part, graph)
  BY DEF IdleHolds
<1>2. H \in Nat /\ H >= 2 /\ matrixSize = LongPow[H]
  BY <1>1, SameHeight
<1> QED  BY ONLY <1>2, PartitionSizes, 1 \in Nat

\* addEdge or reportEdge begins.
LEMMA TraverseBegins ==
  ASSUME Sound, GraphInv, GraphKept, Asked', NEW e \in Arcs, NEW op \in {"addEdge", "reportEdge"},
         StartTraverse(EdgeCall(op, e[1], e[2]))
  PROVE  Begins
<1>1. Typed /\ SomeStructure /\ IdleHolds
  BY DEF Sound, GraphInv, AllHolds
<1>2. PICK c : c = EdgeCall(op, e[1], e[2])
  OBVIOUS
<1>3. StartTraverse(c) /\ c.row = e[1] /\ c.column = e[2]
  BY <1>2 DEF EdgeCall
<1>4. CASE pc' # "idle"
  <2>1. UNCHANGED graph
    BY ONLY <1>4, GraphKept DEF GraphKept
  <2>2. TraverseHolds'
    BY ONLY <1>1, <1>3, <1>4, <2>1, Asked', StartTraverseHolds
  <2>3. pc' = "traverse" /\ reply' = NoReply /\ UNCHANGED bookkeeping
    BY ONLY <1>3, <1>4 DEF StartTraverse, Begin, Throw, Finish
  <2> QED  BY ONLY <2>2, <2>3, RunningHolds DEF Begins
<1>5. CASE pc' = "idle"
  <2>1. /\ ~(Occupied(c.row) /\ Occupied(c.column) /\ Partition(1) > 0)
        /\ pc = "idle" /\ UNCHANGED <<matrix, bookkeeping>>
        /\ reply' = [call |-> c, throws |-> "invalid_argument"]
    BY ONLY <1>3, <1>5 DEF StartTraverse, Begin, Throw, Finish
  <2>2. Partition(1) > 0
    BY ONLY <1>1, <2>1, FirstPartition
  <2>3. e[1] \in Nat /\ e[2] \in Nat
    BY BoundsAssumption
  <2>4. ~(e[1] \in live /\ e[2] \in live)
    <3>1. ~(Occupied(e[1]) /\ Occupied(e[2]))
      BY ONLY <1>3, <2>1, <2>2
    <3>2. (Occupied(e[1]) <=> e[1] \in live) /\ (Occupied(e[2]) <=> e[2] \in live)
      BY ONLY <1>1, <2>3, OccupiedIsLive
    <3> QED  BY ONLY <3>1, <3>2
  <2>5. UNCHANGED matrix /\ UNCHANGED bookkeeping
    BY ONLY <2>1
  <2>6. Ends(graph)
    BY ONLY <1>1, <1>5, <2>1, <2>5, RefusalHolds
  <2>7. reply' = [call |-> EdgeCall(op, e[1], e[2]), throws |-> "invalid_argument"]
    BY ONLY <1>2, <2>1
  <2>8. Refuses
    BY ONLY <2>4, <2>5, <2>7, e \in Arcs, op \in {"addEdge", "reportEdge"} DEF Refuses
  <2> QED  BY ONLY <2>6, <2>8 DEF Begins
<1> QED  BY ONLY <1>4, <1>5

\* removeEdge begins.
LEMMA RemoveBegins ==
  ASSUME Sound, GraphInv, GraphKept, Asked', NEW row, NEW column, RemoveEdge(row, column)
  PROVE  Begins
<1>1. Typed /\ SomeStructure /\ IdleHolds
  BY DEF Sound, GraphInv, AllHolds
<1>2. Partition(1) \in Nat /\ Partition(1) > 0
  <2>1. pc = "idle"
    BY DEF RemoveEdge
  <2> QED  BY ONLY <1>1, <2>1, FirstPartition
<1>3. Partition(1) # 0
  BY ONLY <1>2
<1>4. pc' = "remove" /\ reply' = NoReply /\ UNCHANGED bookkeeping
  BY ONLY <1>3, RemoveEdge(row, column) DEF RemoveEdge, Begin
<1>5. UNCHANGED graph
  BY ONLY <1>4, GraphKept DEF GraphKept
<1>6. RemoveHolds'
  BY ONLY <1>1, <1>4, <1>5, Asked', RemoveEdge(row, column), RemoveEdgeHolds
<1> QED  BY ONLY <1>4, <1>6, RunningHolds DEF Begins

\* deleteEntry begins.
LEMMA DeleteBegins ==
  ASSUME Sound, GraphInv, GraphKept, Asked', NEW a \in Deletions, DeleteEntry(a)
  PROVE  Begins
<1>1. Typed /\ SomeStructure /\ ColumnsInOrder /\ IdleHolds
  BY DEF Sound, GraphInv, AllHolds
<1>2. CASE pc' # "idle"
  <2>1. UNCHANGED graph
    BY ONLY <1>2, GraphKept DEF GraphKept
  <2>2. CollectHolds' /\ DeleteHolds'
    BY ONLY <1>1, <1>2, <2>1, Asked', DeleteEntry(a), DeleteEntryHolds
  <2>3. pc' \in {"collect", "deleteRow"} /\ reply' = NoReply /\ UNCHANGED bookkeeping
    BY ONLY <1>2, DeleteEntry(a) DEF DeleteEntry, Begin, Throw, Finish
  <2> QED  BY ONLY <1>2, <2>2, <2>3, RunningHolds DEF Begins
<1>3. CASE pc' = "idle"
  <2>1. /\ ~Occupied(a) /\ pc = "idle" /\ UNCHANGED <<matrix, bookkeeping>>
        /\ reply' = [call |-> [op |-> "deleteEntry", a |-> a], throws |-> "invalid_argument"]
    BY ONLY <1>3, DeleteEntry(a) DEF DeleteEntry, Begin, Throw, Finish
  <2>2. a \in Nat
    BY BoundsAssumption
  <2>3. a \notin live
    BY ONLY <1>1, <2>1, <2>2, OccupiedIsLive
  <2>4. UNCHANGED matrix /\ UNCHANGED bookkeeping
    BY ONLY <2>1
  <2>5. Ends(graph)
    BY ONLY <1>1, <1>3, <2>1, <2>4, RefusalHolds
  <2>6. Refuses
    BY ONLY <2>1, <2>3, <2>4, a \in Deletions DEF Refuses
  <2> QED  BY ONLY <2>5, <2>6 DEF Begins
<1> QED  BY ONLY <1>2, <1>3

\* reportAllEdges begins.
LEMMA FindBegins ==
  ASSUME Sound, GraphInv, GraphKept, Asked', NEW q \in Queries, ReportAllEdges(q[1], q[2])
  PROVE  Begins
<1>1. Typed /\ SomeStructure /\ IdleHolds /\ NoFindings
  BY DEF Sound, GraphInv, AllHolds
<1>2. CASE pc' # "idle"
  <2>1. UNCHANGED graph
    BY ONLY <1>2, GraphKept DEF GraphKept
  <2>2. FindHolds'
    BY ONLY <1>1, <1>2, <2>1, Asked', ReportAllEdges(q[1], q[2]), ReportAllEdgesHolds
  <2>3. pc' = "find" /\ reply' = NoReply /\ UNCHANGED bookkeeping
    BY ONLY <1>2, ReportAllEdges(q[1], q[2]) DEF ReportAllEdges, Begin, Throw, Finish
  <2> QED  BY ONLY <1>2, <2>2, <2>3, RunningHolds DEF Begins
<1>3. CASE pc' = "idle"
  <2>1. /\ ~(Accepted(q[1]) /\ Accepted(q[2])) /\ pc = "idle"
        /\ UNCHANGED <<matrix, bookkeeping>>
        /\ reply' = [call   |-> [op |-> "reportAllEdges", A |-> q[1], B |-> q[2]],
                     throws |-> "invalid_argument"]
    BY ONLY <1>3, ReportAllEdges(q[1], q[2]) DEF ReportAllEdges, Begin, Throw, Finish
  <2>2. UNCHANGED matrix /\ UNCHANGED bookkeeping
    BY ONLY <2>1
  <2>3. Ends(graph)
    BY ONLY <1>1, <1>3, <2>1, <2>2, RefusalHolds
  <2>4. Refuses
    BY ONLY <2>1, <2>2, q \in Queries DEF Refuses
  <2> QED  BY ONLY <2>3, <2>4 DEF Begins
<1> QED  BY ONLY <1>2, <1>3

\* A client's call.
LEMMA CallBegins ==
  ASSUME Sound, GraphInv, GraphKept, Asked', Call
  PROVE  Begins
<1>1. ASSUME InsertEntry PROVE Begins
  <2>1. Typed /\ SomeStructure /\ IdleHolds
    BY DEF Sound, GraphInv, AllHolds
  <2>2. Ends(graph)
    BY ONLY <1>1, <2>1, InsertEntryHolds
  <2> QED  BY ONLY <1>1, <2>2 DEF Begins
<1>2. ASSUME NEW a \in Deletions, DeleteEntry(a) PROVE Begins
  BY ONLY <1>2, Sound, GraphInv, GraphKept, Asked', DeleteBegins
<1>3. ASSUME NEW e \in Arcs, AddEdge(e[1], e[2]) \/ ReportEdge(e[1], e[2]) PROVE Begins
  <2>1. PICK op \in {"addEdge", "reportEdge"} : StartTraverse(EdgeCall(op, e[1], e[2]))
    BY ONLY <1>3 DEF AddEdge, ReportEdge
  <2> QED  BY ONLY <1>3, <2>1, Sound, GraphInv, GraphKept, Asked', TraverseBegins
<1>4. ASSUME NEW e \in Arcs, RemoveEdge(e[1], e[2]) PROVE Begins
  BY ONLY <1>4, Sound, GraphInv, GraphKept, Asked', RemoveBegins
<1>5. ASSUME NEW q \in Queries, ReportAllEdges(q[1], q[2]) PROVE Begins
  BY ONLY <1>5, Sound, GraphInv, GraphKept, Asked', FindBegins
<1> QED  BY ONLY Call, <1>1, <1>2, <1>3, <1>4, <1>5 DEF Call
-----------------------------------------------------------------------------
(* The graph of AbstractGraph.                                             *)

\* The vertices are the same.
LEMMA SameVertices ==
  ASSUME GraphInv, UNCHANGED bookkeeping
  PROVE  live' = live /\ firstFreeColumn' <= MaxVertices
BY DEF GraphInv, bookkeeping, live

\* What an action of AbstractGraph is, and what it keeps.
Acts == Graph!Next /\ Inside' /\ firstFreeColumn' <= MaxVertices

\* addEdge returns: its edge is in the graph.
LEMMA AddEdgeActs ==
  ASSUME GraphInv, EdgeAsked, call.op = "addEdge", call.row \in live, call.column \in live,
         graph' = graph \cup {Arc}, reply' = [call |-> call], UNCHANGED bookkeeping
  PROVE  Acts
<1>1. live' = live /\ firstFreeColumn' <= MaxVertices
  BY SameVertices
<1>2. PICK e \in Arcs : e = Arc /\ e[1] = call.row /\ e[2] = call.column
  BY DEF EdgeAsked, Arc
<1>3. call = [op |-> "addEdge", row |-> e[1], column |-> e[2]]
  BY <1>2 DEF EdgeAsked, EdgeCall
<1>4. e = <<e[1], e[2]>>
  BY <1>2 DEF Arc
<1>5. Graph!AddEdge(e[1], e[2])
  <2>1. reply' = [call |-> [op |-> "addEdge", row |-> e[1], column |-> e[2]]]
    BY ONLY <1>3, reply' = [call |-> call]
  <2>2. {e[1], e[2]} \subseteq live
    BY ONLY <1>2, call.row \in live, call.column \in live
  <2>3. graph' = graph \cup {<<e[1], e[2]>>}
    BY ONLY <1>2, <1>4, graph' = graph \cup {Arc}
  <2> QED  BY ONLY <1>1, <2>1, <2>2, <2>3 DEF Graph!AddEdge
<1>6. Inside'
  <2>1. graph \subseteq live \X live
    BY DEF GraphInv, Inside
  <2>2. e \in live \X live
    BY ONLY <1>2, <1>4, call.row \in live, call.column \in live
  <2>3. graph' = graph \cup {e}
    BY ONLY <1>2, graph' = graph \cup {Arc}
  <2> QED  BY ONLY <1>1, <2>1, <2>2, <2>3 DEF Inside
<1> QED  BY ONLY <1>1, <1>5, <1>6 DEF Acts, Graph!Next

\* removeEdge returns: its edge is not in the graph.
LEMMA RemoveEdgeActs ==
  ASSUME GraphInv, EdgeAsked, call.op = "removeEdge",
         graph' = graph \ {Arc}, reply' = [call |-> call], UNCHANGED bookkeeping
  PROVE  Acts
<1>1. live' = live /\ firstFreeColumn' <= MaxVertices
  BY SameVertices
<1>2. PICK e \in Arcs : e = Arc /\ e[1] = call.row /\ e[2] = call.column
  BY DEF EdgeAsked, Arc
<1>3. call = [op |-> "removeEdge", row |-> e[1], column |-> e[2]]
  BY <1>2 DEF EdgeAsked, EdgeCall
<1>4. e = <<e[1], e[2]>>
  BY <1>2 DEF Arc
<1>5. Graph!RemoveEdge(e[1], e[2])
  <2>1. reply' = [call |-> [op |-> "removeEdge", row |-> e[1], column |-> e[2]]]
    BY ONLY <1>3, reply' = [call |-> call]
  <2>2. graph' = graph \ {<<e[1], e[2]>>}
    BY ONLY <1>2, <1>4, graph' = graph \ {Arc}
  <2> QED  BY ONLY <1>1, <2>1, <2>2 DEF Graph!RemoveEdge
<1>6. Inside'
  <2>1. graph \subseteq live \X live
    BY DEF GraphInv, Inside
  <2> QED  BY ONLY <1>1, <2>1, graph' = graph \ {Arc} DEF Inside
<1> QED  BY ONLY <1>1, <1>5, <1>6 DEF Acts, Graph!Next

\* reportEdge returns whether its edge is in the graph.
LEMMA ReportEdgeActs ==
  ASSUME GraphInv, EdgeAsked, call.op = "reportEdge", call.row \in live, call.column \in live,
         graph' = graph, reply' = [call |-> call, edge |-> Arc \in graph], UNCHANGED bookkeeping
  PROVE  Acts
<1>1. live' = live /\ firstFreeColumn' <= MaxVertices
  BY SameVertices
<1>2. PICK e \in Arcs : e = Arc /\ e[1] = call.row /\ e[2] = call.column
  BY DEF EdgeAsked, Arc
<1>3. call = [op |-> "reportEdge", row |-> e[1], column |-> e[2]]
  BY <1>2 DEF EdgeAsked, EdgeCall
<1>4. Arc = <<e[1], e[2]>>
  BY <1>2 DEF Arc
<1>5. Graph!ReportEdge(e[1], e[2])
  <2>1. reply' = [call |-> [op |-> "reportEdge", row |-> e[1], column |-> e[2]],
                  edge |-> <<e[1], e[2]>> \in graph]
    BY ONLY <1>3, <1>4, reply' = [call |-> call, edge |-> Arc \in graph], Zenon
  <2>2. {e[1], e[2]} \subseteq live
    BY ONLY <1>2, call.row \in live, call.column \in live
  <2> QED  BY ONLY <1>1, <2>1, <2>2, graph' = graph DEF Graph!ReportEdge
<1>6. Inside'
  <2>1. graph \subseteq live \X live
    BY DEF GraphInv, Inside
  <2> QED  BY ONLY <1>1, <2>1, graph' = graph DEF Inside
<1> QED  BY ONLY <1>1, <1>5, <1>6 DEF Acts, Graph!Next

\* The elements of a sequence, as AbstractGraph has them.
LEMMA SameElements == \A v \in Seq(Nat) : Graph!Elements(v) = Elements(v)
BY DEF Graph!Elements, Elements

\* A list with every element once, as AbstractGraph has it.
LEMMA EnumeratesIsListOf ==
  ASSUME NEW v, NEW S, Enumerates(v, S)
  PROVE  Graph!IsListOf(v, S)
<1>1. v \in Seq(S) /\ DOMAIN v = 1..Len(v)
  BY DEF Enumerates
<1>2. Graph!Elements(v) = S
  BY ONLY <1>1, Enumerates(v, S) DEF Enumerates, Elements, Graph!Elements
<1> QED  BY ONLY <1>1, <1>2, Enumerates(v, S) DEF Enumerates, Once, Graph!IsListOf

\* reportAllEdges accepts vectors of vertices in use that are not empty.
LEMMA AcceptedVertices ==
  ASSUME Typed, NEW v \in Seq(Nat)
  PROVE  Accepted(v) <=> Elements(v) # {} /\ Elements(v) \subseteq live
<1>1. \A i \in 1..Len(v) : v[i] \in Elements(v) /\ v[i] \in Nat
  BY DEF Elements
<1>2. Elements(v) \subseteq Nat
  BY DEF Elements
<1>3. v # <<>> <=> Elements(v) # {}
  <2>1. CASE v = <<>>
    <3>1. Len(v) = 0
      BY <2>1
    <3>2. \A x : x \notin Elements(v)
      BY ONLY <3>1 DEF Elements
    <3> QED  BY ONLY <2>1, <3>2
  <2>2. CASE v # <<>>
    <3>1. 1 \in 1..Len(v)
      BY <2>2
    <3> QED  BY ONLY <1>1, <2>2, <3>1
  <2> QED  BY ONLY <2>1, <2>2
<1>4. \A a \in Elements(v) : Occupied(a) <=> a \in live
  BY ONLY <1>2, Typed, OccupiedIsLive
<1> QED  BY ONLY <1>3, <1>4 DEF Accepted

\* reportAllEdges returns the edges between its vertices.
LEMMA ReportAllEdgesActs ==
  ASSUME Typed, GraphInv, QueryAsked, graph' = graph, UNCHANGED bookkeeping, Reported
  PROVE  Acts
<1>1. live' = live /\ firstFreeColumn' <= MaxVertices
  BY SameVertices
<1>2. PICK q \in Queries : q = <<call.A, call.B>>
  BY DEF QueryAsked
<1>3. PICK A : A = q[1]
  OBVIOUS
<1>4. PICK B : B = q[2]
  OBVIOUS
<1>5. A \in Seq(Nat) /\ B \in Seq(Nat) /\ A = call.A /\ B = call.B
  BY <1>2, <1>3, <1>4, BoundsAssumption
<1>6. call = [op |-> "reportAllEdges", A |-> A, B |-> B] /\ Accepted(A) /\ Accepted(B)
  BY <1>5 DEF QueryAsked
<1>7. Graph!Elements(A) = Elements(A) /\ Graph!Elements(B) = Elements(B)
  BY ONLY <1>5, SameElements
<1>8. /\ Elements(A) # {} /\ Elements(A) \subseteq live
      /\ Elements(B) # {} /\ Elements(B) \subseteq live
  BY ONLY Typed, <1>5, <1>6, AcceptedVertices
<1>9. Graph!ReportAllEdges(A, B)
  <2>1. PICK v : /\ Enumerates(v, graph \cap (Elements(A) \X Elements(B)))
                 /\ reply' = [call |-> call, edges |-> v]
    BY ONLY <1>5, Reported DEF Reported
  <2>2. /\ "edges" \in DOMAIN reply' /\ reply'.edges = v
        /\ reply' = [call |-> [op |-> "reportAllEdges", A |-> A, B |-> B], edges |-> v]
    BY ONLY <1>6, <2>1
  <2>3. Graph!IsListOf(v, graph \cap (Graph!Elements(A) \X Graph!Elements(B)))
    BY ONLY <1>7, <2>1, EnumeratesIsListOf
  <2> QED  BY ONLY <1>1, <1>7, <1>8, <2>2, <2>3, graph' = graph DEF Graph!ReportAllEdges
<1>10. Inside'
  <2>1. graph \subseteq live \X live
    BY DEF GraphInv, Inside
  <2> QED  BY ONLY <1>1, <2>1, graph' = graph DEF Inside
<1> QED  BY ONLY <1>1, <1>3, <1>4, <1>9, <1>10 DEF Acts, Graph!Next

\* deleteEntry returns: its vertex is gone, with its edges.
LEMMA DeleteEntryActs ==
  ASSUME Clients, Typed, ColumnsInOrder, GraphInv, EntryAsked,
         graph' = {e \in graph : e[1] # call.a /\ e[2] # call.a},
         reply' = [call |-> call], FreeColumn(call.a)
  PROVE  Acts
<1>1. PICK a : a = call.a
  OBVIOUS
<1>2. a \in 0..(MaxVertices - 1) /\ a \in live /\ call = [op |-> "deleteEntry", a |-> a]
  BY <1>1 DEF EntryAsked, Clients
<1>3. FreeColumn(a) /\ graph' = {e \in graph : e[1] # a /\ e[2] # a}
  BY <1>1
<1>4. \A x : x \in live' <=> x \in live /\ x # a
  BY ONLY Typed, ColumnsInOrder, <1>2, <1>3, VertexFreed
<1>5. firstFreeColumn' <= MaxVertices
  <2>1. firstFreeColumn' = firstFreeColumn \/ firstFreeColumn' = firstFreeColumn - 1
    BY ONLY <1>3 DEF FreeColumn
  <2>2. firstFreeColumn \in Nat /\ MaxVertices \in Nat /\ firstFreeColumn <= MaxVertices
    BY BoundsAssumption DEF Typed, TypeOK, GraphInv
  <2> QED  BY ONLY <2>1, <2>2
<1>6. Graph!DeleteEntry(a)
  <2>1. reply' = [call |-> [op |-> "deleteEntry", a |-> a]]
    BY ONLY <1>2, reply' = [call |-> call]
  <2>2. live' = live \ {a}
    BY ONLY <1>4
  <2>3. graph' = {e \in graph : a \notin {e[1], e[2]}}
    BY ONLY <1>3
  <2> QED  BY ONLY <1>2, <2>1, <2>2, <2>3 DEF Graph!DeleteEntry
<1>7. Inside'
  <2>1. graph \subseteq live \X live
    BY DEF GraphInv, Inside
  <2>2. ASSUME NEW e \in graph' PROVE e \in live' \X live'
    <3>1. e \in live \X live /\ e[1] # a /\ e[2] # a
      BY ONLY <1>3, <2>1, <2>2
    <3>2. e[1] \in live' /\ e[2] \in live' /\ e = <<e[1], e[2]>>
      BY ONLY <1>4, <3>1
    <3> QED  BY ONLY <3>2
  <2> QED  BY ONLY <2>2 DEF Inside
<1> QED  BY ONLY <1>2, <1>5, <1>6, <1>7 DEF Acts, Graph!Next

\* A call returns.
LEMMA ReturnsAct ==
  ASSUME Clients, Sound, GraphInv, NEW S, Answers(S), graph' = S
  PROVE  Acts
<1>1. Typed /\ ColumnsInOrder
  BY DEF Sound
<1> QED  BY <1>1, AddEdgeActs, RemoveEdgeActs, ReportEdgeActs, ReportAllEdgesActs,
            DeleteEntryActs DEF Answers

\* A call refuses its arguments.
LEMMA RefusalActs ==
  ASSUME Clients, Typed, GraphInv, Refuses, graph' = graph
  PROVE  Acts
<1>1. live' = live /\ firstFreeColumn' <= MaxVertices
  BY SameVertices DEF Refuses
<1>2. Inside'
  <2>1. graph \subseteq live \X live
    BY DEF GraphInv, Inside
  <2> QED  BY ONLY <1>1, <2>1, graph' = graph DEF Inside
<1>3. ASSUME NEW e \in Arcs, NEW op \in {"addEdge", "reportEdge"}, ~(e[1] \in live /\ e[2] \in live),
             reply' = [call |-> EdgeCall(op, e[1], e[2]), throws |-> "invalid_argument"]
      PROVE  Graph!Next
  <2>1. ~({e[1], e[2]} \subseteq live)
    BY ONLY <1>3
  <2>2. reply' = [call   |-> [op |-> op, row |-> e[1], column |-> e[2]],
                  throws |-> "invalid_argument"]
    BY ONLY <1>3 DEF EdgeCall
  <2>3. CASE op = "addEdge"
    <3>1. Graph!AddEdge(e[1], e[2])
      BY ONLY <1>1, <2>1, <2>2, <2>3, graph' = graph DEF Graph!AddEdge, Graph!Refuse
    <3> QED  BY ONLY <1>3, <3>1 DEF Graph!Next
  <2>4. CASE op = "reportEdge"
    <3>1. Graph!ReportEdge(e[1], e[2])
      BY ONLY <1>1, <2>1, <2>2, <2>4, graph' = graph DEF Graph!ReportEdge, Graph!Refuse
    <3> QED  BY ONLY <1>3, <3>1 DEF Graph!Next
  <2> QED  BY ONLY <1>3, <2>3, <2>4
<1>4. ASSUME NEW a \in Deletions, a \notin live,
             reply' = [call |-> [op |-> "deleteEntry", a |-> a], throws |-> "invalid_argument"]
      PROVE  Graph!Next
  <2>1. a \in 0..(MaxVertices - 1)
    BY <1>4 DEF Clients
  <2>2. Graph!DeleteEntry(a)
    BY ONLY <1>1, <1>4, graph' = graph DEF Graph!DeleteEntry, Graph!Refuse
  <2> QED  BY ONLY <2>1, <2>2 DEF Graph!Next
<1>5. ASSUME NEW q \in Queries, ~(Accepted(q[1]) /\ Accepted(q[2])),
             reply' = [call   |-> [op |-> "reportAllEdges", A |-> q[1], B |-> q[2]],
                       throws |-> "invalid_argument"]
      PROVE  Graph!Next
  <2>1. PICK A : A = q[1]
    OBVIOUS
  <2>2. PICK B : B = q[2]
    OBVIOUS
  <2>3. A \in Seq(Nat) /\ B \in Seq(Nat)
    BY ONLY <1>5, <2>1, <2>2, BoundsAssumption
  <2>4. Graph!Elements(A) = Elements(A) /\ Graph!Elements(B) = Elements(B)
    BY ONLY <2>3, SameElements
  <2>5. ~(/\ Elements(A) # {} /\ Elements(A) \subseteq live
          /\ Elements(B) # {} /\ Elements(B) \subseteq live)
    <3>1. ~(Accepted(A) /\ Accepted(B))
      BY ONLY <1>5, <2>1, <2>2
    <3> QED  BY ONLY Typed, <2>3, <3>1, AcceptedVertices
  <2>6. Graph!ReportAllEdges(A, B)
    BY ONLY <1>1, <1>5, <2>1, <2>2, <2>4, <2>5, graph' = graph
       DEF Graph!ReportAllEdges, Graph!Refuse
  <2> QED  BY ONLY <1>5, <2>1, <2>2, <2>6 DEF Graph!Next
<1>6. Graph!Next
  BY ONLY Refuses, <1>3, <1>4, <1>5 DEF Refuses
<1> QED  BY ONLY <1>1, <1>2, <1>6 DEF Acts

\* insertEntry.
LEMMA InsertEntryActs ==
  ASSUME Typed, ColumnsInOrder, GraphInv, InsertEntry, graph' = graph
  PROVE  Acts
<1>1. firstFreeColumn <= MaxVertices /\ graph \subseteq live \X live
  BY DEF GraphInv, Inside
<1>2. /\ firstFreeColumn' <= MaxVertices
      /\ \E v \in 0..(MaxVertices - 1) :
           /\ v \notin live /\ \A u \in Nat : u < v => u \in live
           /\ reply' = [call |-> [op |-> "insertEntry"], vertex |-> v]
           /\ \A x : x \in live' <=> x \in live \/ x = v
  BY ONLY <1>1, Typed, ColumnsInOrder, InsertEntry, VertexInserted
<1>3. PICK v \in 0..(MaxVertices - 1) :
        /\ v \notin live /\ \A u \in Nat : u < v => u \in live
        /\ reply' = [call |-> [op |-> "insertEntry"], vertex |-> v]
        /\ \A x : x \in live' <=> x \in live \/ x = v
  BY ONLY <1>2
<1>4. live' = live \cup {v}
  BY ONLY <1>3
<1>5. ASSUME NEW u \in (0..(MaxVertices - 1)) \ live PROVE v <= u
  <2>1. u \in Nat /\ v \in Nat
    BY ONLY <1>5, BoundsAssumption
  <2>2. ~(u < v)
    BY ONLY <1>3, <1>5, <2>1
  <2> QED  BY ONLY <2>1, <2>2
<1>6. Graph!InsertEntry
  BY ONLY <1>3, <1>4, <1>5, graph' = graph DEF Graph!InsertEntry
<1>7. Inside'
  BY ONLY <1>1, <1>4, graph' = graph DEF Inside
<1> QED  BY ONLY <1>2, <1>6, <1>7 DEF Acts, Graph!Next

\* The call goes on: its client sees nothing, or has read the last reply.
LEMMA GoesOnActs ==
  ASSUME GraphInv, graph' = graph, UNCHANGED bookkeeping, reply' = reply \/ reply' = NoReply
  PROVE  [Graph!Next]_(Graph!vars) /\ Inside' /\ firstFreeColumn' <= MaxVertices
<1>1. live' = live /\ firstFreeColumn' <= MaxVertices
  BY SameVertices
<1>2. Inside'
  <2>1. graph \subseteq live \X live
    BY DEF GraphInv, Inside
  <2> QED  BY ONLY <1>1, <2>1, graph' = graph DEF Inside
<1>3. CASE reply' = reply
  BY ONLY <1>1, <1>2, <1>3, graph' = graph DEF Graph!vars
<1>4. CASE reply' = NoReply
  <2>1. Graph!Consume
    BY ONLY <1>1, <1>4, graph' = graph DEF Graph!Consume, Graph!NoReply, NoReply, NoCall
  <2> QED  BY ONLY <1>1, <1>2, <2>1 DEF Graph!Next
<1> QED  BY <1>3, <1>4

\* Every step of the program keeps the invariant, and is a step of the graph or none.
LEMMA NextActs ==
  ASSUME Clients, Sound, GraphInv, DecodesEdges', GNext
  PROVE  GraphInv' /\ [Graph!Next]_(Graph!vars)
<1>1. Typed /\ SomeStructure /\ ColumnsInOrder /\ Unanswered /\ Asked /\ NoFindings
  BY DEF Sound, GraphInv
<1>2. Next /\ graph' = (IF pc' = "idle" THEN Decode' ELSE graph)
  BY DEF GNext
<1>3. GraphKept
  BY ONLY <1>2 DEF GraphKept
<1>4. [Next]_vars
  BY ONLY <1>2
<1>5. Asked'
  BY ONLY Clients, <1>1, <1>4, NextAsked
<1>6. NoFindings'
  BY ONLY <1>1, <1>4, NextNoFindings
<1>7. ASSUME NEW S, Ends(S) PROVE AllHolds' /\ graph' = S
  <2>1. IdleHolds' /\ graph' = S
    BY ONLY <1>2, <1>7, DecodesEdges', EndsIdle
  <2>2. pc' = "idle"
    BY ONLY <1>7 DEF Ends
  <2> QED  BY ONLY <2>1, <2>2, RunningHolds
<1>8. AllHolds' /\ Inside' /\ firstFreeColumn' <= MaxVertices /\ [Graph!Next]_(Graph!vars)
  <2>1. CASE Call
    <3>1. Begins
      BY ONLY Sound, GraphInv, <1>3, <1>5, <2>1, CallBegins
    <3>2. CASE pc' # "idle" /\ AllHolds' /\ reply' = NoReply /\ UNCHANGED bookkeeping
      <4>1. graph' = graph
        BY ONLY <1>3, <3>2 DEF GraphKept
      <4> QED  BY ONLY GraphInv, <3>2, <4>1, GoesOnActs
    <3>3. CASE Ends(graph) /\ (Refuses \/ InsertEntry)
      <4>1. AllHolds' /\ graph' = graph
        BY ONLY <1>7, <3>3
      <4>2. Acts
        BY ONLY Clients, GraphInv, <1>1, <3>3, <4>1, RefusalActs, InsertEntryActs
      <4> QED  BY ONLY <4>1, <4>2 DEF Acts
    <3> QED  BY ONLY <3>1, <3>2, <3>3 DEF Begins
  <2>2. CASE Step
    <3>1. Runs
      BY ONLY Sound, GraphInv, <1>3, <1>5, <2>2, StepRunsOn
    <3>2. CASE pc' # "idle" /\ AllHolds'
      <4>1. graph' = graph
        BY ONLY <1>3, <3>2 DEF GraphKept
      <4>2. UNCHANGED bookkeeping
        <5>1. UNCHANGED <<call, freeColumns, firstFreeColumn, matrixSize>>
          BY ONLY <2>2, <3>2, StepGoesOn
        <5> QED  BY ONLY <5>1 DEF bookkeeping
      <4>3. reply' = reply
        BY ONLY <1>1, <2>2, <3>2, StepReplies
      <4> QED  BY ONLY GraphInv, <3>2, <4>1, <4>2, <4>3, GoesOnActs
    <3>3. ASSUME NEW S, Ends(S), Answers(S)
          PROVE  /\ AllHolds' /\ Inside' /\ firstFreeColumn' <= MaxVertices
                 /\ [Graph!Next]_(Graph!vars)
      <4>1. AllHolds' /\ graph' = S
        BY ONLY <1>7, <3>3
      <4>2. Acts
        BY ONLY Clients, Sound, GraphInv, <3>3, <4>1, ReturnsAct
      <4> QED  BY ONLY <4>1, <4>2 DEF Acts
    <3> QED  BY ONLY <3>1, <3>2, <3>3 DEF Runs
  <2> QED  BY ONLY <1>2, <2>1, <2>2 DEF Next
<1> QED  BY ONLY <1>5, <1>6, <1>8 DEF GraphInv

\* A step that changes nothing keeps the invariant.
LEMMA StutterActs ==
  ASSUME GraphInv, UNCHANGED gvars
  PROVE  GraphInv' /\ [Graph!Next]_(Graph!vars)
<1>1. /\ UNCHANGED <<ttree, ltree, matrixSize, freeColumns, firstFreeColumn>>
      /\ UNCHANGED <<pc, call, iteration, position, frames, findings, reply, graph>>
  BY DEF gvars, vars, matrix, bookkeeping, locals
<1>2. IdleHolds' /\ TraverseHolds' /\ ExtendHolds'
  <2>1. Arc' = Arc
    BY ONLY <1>1 DEF Arc
  <2>2. IdleHolds /\ TraverseHolds /\ ExtendHolds
    BY DEF GraphInv, AllHolds
  <2> QED  BY ONLY <1>1, <2>1, <2>2 DEF IdleHolds, TraverseHolds, ExtendHolds
<1>3. RemoveHolds' /\ PruneHolds'
  <2>1. Arc' = Arc /\ level' = level /\ node' = node
    BY ONLY <1>1 DEF Arc, level, node, top
  <2>2. \A H : AtArc(H)' <=> AtArc(H)
    BY ONLY <1>1, <2>1 DEF AtArc
  <2>3. RemoveHolds /\ PruneHolds
    BY DEF GraphInv, AllHolds
  <2> QED  BY ONLY <1>1, <2>1, <2>2, <2>3 DEF RemoveHolds, PruneHolds
<1>4. FindHolds' /\ CollectHolds'
  <2>1. FindHolds /\ CollectHolds
    BY DEF GraphInv, AllHolds
  <2> QED  BY ONLY <1>1, <2>1 DEF FindHolds, CollectHolds
<1>5. live' = live
  BY ONLY <1>1 DEF live
<1>6. DeleteHolds'
  <2>1. OnPass' = OnPass /\ PassRows' = PassRows /\ PassColumns' = PassColumns
    BY ONLY <1>1, <1>5 DEF OnPass, PassRows, PassColumns
  <2>2. Deleting' <=> Deleting
    BY ONLY <1>1 DEF Deleting
  <2>3. DeleteHolds
    BY DEF GraphInv, AllHolds
  <2> QED  BY ONLY <1>1, <1>5, <2>1, <2>2, <2>3 DEF DeleteHolds
<1>7. Asked'
  <2>1. Asked
    BY DEF GraphInv
  <2>2. Arc' = Arc
    BY ONLY <1>1 DEF Arc
  <2>3. \A v : Accepted(v)' <=> Accepted(v)
    BY ONLY <1>1 DEF Accepted, Occupied
  <2>4. (EdgeAsked' <=> EdgeAsked) /\ (EntryAsked' <=> EntryAsked)
    BY ONLY <1>1, <1>5, <2>2 DEF EdgeAsked, EntryAsked
  <2>5. QueryAsked' <=> QueryAsked
    BY ONLY <1>1 DEF QueryAsked, Accepted, Occupied
  <2> QED  BY ONLY <1>1, <1>5, <2>1, <2>4, <2>5 DEF Asked
<1>8. NoFindings' /\ Inside' /\ firstFreeColumn' <= MaxVertices
  BY ONLY <1>1, <1>5, GraphInv DEF GraphInv, NoFindings, Inside
<1>9. UNCHANGED Graph!vars
  BY ONLY <1>1, <1>5 DEF Graph!vars
<1> QED  BY ONLY <1>2, <1>3, <1>4, <1>6, <1>7, <1>8, <1>9 DEF GraphInv, AllHolds

\* It holds at the start, with a graph without edges.
LEMMA InitActs ==
  ASSUME TallMatrices, Clients, GInit
  PROVE  GraphInv /\ Graph!Init
<1>1. Init /\ graph = {}
  BY DEF GInit
<1>2. PICK H \in Nat : /\ matrixSize = LongPow[H] /\ H >= 2
                       /\ Mapped(ttree \o ltree, 1, 1, H, [x \in 0..0 |-> Whole])
                       /\ Edges(ttree \o ltree, 1, H, [x \in 0..0 |-> Whole]) = {}
                       /\ Len(ttree) = At(1)
  BY ONLY TallMatrices, <1>1, InitMapped
<1>3. PICK p : p = [x \in 0..0 |-> Whole]
  OBVIOUS
<1>4. /\ pc = "idle" /\ findings = <<>> /\ reply = NoReply /\ freeColumns = <<>> /\ ltree = <<>>
      /\ ttree = [i \in 1..BLOCK_SIZE |-> FALSE]
  BY <1>1 DEF Init, Idle
<1>5. firstFreeColumn \in 0..MaxVertices
  BY <1>1, BoundsAssumption DEF Init, New, WithSize, Clients
<1>6. ttree \in Seq(BOOLEAN) /\ ltree \in Seq(BOOLEAN)
  <2>1. ttree \in [1..BLOCK_SIZE -> BOOLEAN]
    BY ONLY <1>4
  <2> QED  BY ONLY <1>4, <2>1, BlockSize, FunctionIsSeq
<1>7. Holds(matrixSize, ttree, ltree, 1, 1, H, p, graph)
  BY ONLY <1>1, <1>2, <1>3, <1>6 DEF Holds, Vectors
<1>8. AllHolds
  BY ONLY <1>4, <1>7
     DEF AllHolds, IdleHolds, TraverseHolds, ExtendHolds, RemoveHolds, PruneHolds, FindHolds,
         CollectHolds, DeleteHolds, Deleting
<1>9. Asked /\ NoFindings /\ Inside
  BY ONLY <1>1, <1>4 DEF Asked, NoFindings, Inside
<1>10. GraphInv
  <2>1. firstFreeColumn <= MaxVertices
    BY ONLY <1>5, BoundsAssumption
  <2> QED  BY ONLY <1>8, <1>9, <2>1 DEF GraphInv
<1>11. Graph!Init
  <2>1. \A x : x \notin Elements(freeColumns)
    <3>1. Len(freeColumns) = 0
      BY ONLY <1>4
    <3> QED  BY ONLY <3>1 DEF Elements
  <2>2. \A x : x \in live <=> x \in 0..(firstFreeColumn - 1)
    BY ONLY <2>1 DEF live
  <2>3. \A x \in live : x \in 0..(MaxVertices - 1)
    BY ONLY <1>5, <2>2, BoundsAssumption
  <2>4. ASSUME NEW v \in live, NEW u \in 0..(MaxVertices - 1), u < v PROVE u \in live
    <3>1. v \in 0..(firstFreeColumn - 1)
      BY ONLY <2>2, <2>4
    <3>2. u \in 0..(firstFreeColumn - 1)
      BY ONLY <1>5, <2>4, <3>1, BoundsAssumption
    <3> QED  BY ONLY <2>2, <3>2
  <2>5. reply = Graph!NoReply
    BY ONLY <1>4 DEF Graph!NoReply, NoReply, NoCall
  <2> QED  BY ONLY <1>1, <2>3, <2>4, <2>5 DEF Graph!Init
<1> QED  BY ONLY <1>10, <1>11

\* GraphInv is inductive, with what is known of the vectors by themselves.
LEMMA AlwaysGraphInv ==
  ASSUME TallMatrices, Clients
  PROVE  GSpec => [](Sound /\ GraphInv)
<1>1. Spec => []Sound
  <2>1. Init => Unanswered
    BY DEF Init, Idle, Unanswered
  <2>2. Typed /\ SomeStructure /\ Ordered /\ Unanswered => Sound
    BY DEF Sound, Ordered
  <2> QED
    BY <2>1, <2>2, NextUnanswered, AlwaysTyped, AlwaysStructured, AlwaysOrdered, PTL DEF Spec
<1>2. GInit => GraphInv
  BY InitActs
<1>3. Sound /\ GraphInv /\ DecodesEdges' /\ [GNext]_gvars => GraphInv'
  BY NextActs, StutterActs
<1> QED
  BY <1>1, <1>2, <1>3, HistoryOnly, DecodeIsEdges, PTL DEF GSpec

\* Between calls every edge joins two vertices that are in use: a vertex number that is
\* handed out again by insertEntry has no edges left from its last use.
THEOREM DeletedVerticesLeaveNoEdges ==
  ASSUME TallMatrices, Clients
  PROVE  GSpec => []UnusedRowsAreEmpty
<1>1. GraphInv => UnusedRowsAreEmpty
  BY DEF GraphInv, Inside, UnusedRowsAreEmpty
<1> QED
  BY <1>1, AlwaysGraphInv, PTL

\* A client that keeps to the matrix sees a graph with atomic operations: whatever the
\* step of a running call, the edges that the vectors hold change once, when it returns,
\* and the reply is the one that AbstractGraph gives.
THEOREM TreeImplementsGraph ==
  ASSUME TallMatrices, Clients
  PROVE  GSpec => ImplementsGraph
<1>1. GInit => Graph!Init
  BY InitActs
<1>2. Sound /\ GraphInv /\ DecodesEdges' /\ [GNext]_gvars => [Graph!Next]_(Graph!vars)
  BY NextActs, StutterActs
<1> QED
  BY <1>1, <1>2, AlwaysGraphInv, DecodeIsEdges, PTL DEF GSpec, ImplementsGraph, Graph!Spec
=============================================================================
