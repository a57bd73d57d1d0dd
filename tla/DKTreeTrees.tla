----------------------------- MODULE DKTreeTrees -----------------------------
(***************************************************************************)
(* The dynamic k^2-tree on top of its two B+trees.  DKTree takes TTree and *)
(* LTree for the bit vectors ttree and ltree; here each of its steps also  *)
(* makes the calls of the B+trees that the code makes, with the two paths  *)
(* tPath and lPath, and the trees work them off one by one before DKTree   *)
(* goes on.  `todo` lists the calls that are still to be made or answered, *)
(* and with each read the answer DKTree has acted on.                      *)
(***************************************************************************)
EXTENDS DKTreeGraph

CONSTANTS NodeSizeMax,   \* the most children of an internal node
          LeafSizeMax    \* the most blocks of a leaf

VARIABLES
  tNode, tRoot, tPath, tPc, tCall, tAt, tLeaf, tBefore, tDelta, tReply, \* DKTree::ttree
  lNode, lRoot, lPath, lPc, lCall, lAt, lLeaf, lBefore, lDelta, lReply, \* DKTree::ltree
  todo

T == INSTANCE TTree WITH
       node <- tNode, root <- tRoot, path <- tPath, pc <- tPc, call <- tCall,
       at <- tAt, leaf <- tLeaf, before <- tBefore, delta <- tDelta, reply <- tReply,
       BlockSize <- BLOCK_SIZE, CountsOnes <- TRUE,
       MaxBlocks <- 0, MaxOnes <- 0, Probes <- {}

L == INSTANCE LTree WITH
       node <- lNode, root <- lRoot, path <- lPath, pc <- lPc, call <- lCall,
       at <- lAt, leaf <- lLeaf, before <- lBefore, delta <- lDelta, reply <- lReply,
       BlockSize <- BLOCK_SIZE, CountsOnes <- FALSE,
       MaxBlocks <- 0, MaxOnes <- 0, Probes <- {}

tvars == <<tNode, tRoot, tPath, tPc, tCall, tAt, tLeaf, tBefore, tDelta, tReply>>
lvars == <<lNode, lRoot, lPath, lPc, lCall, lAt, lLeaf, lBefore, lDelta, lReply>>
treeVars == <<tvars, lvars, todo>>
allVars == <<gvars, treeVars>>
-----------------------------------------------------------------------------
(* The calls of the trees.                                                 *)

Asked(tree, c) == <<[tree |-> tree, call |-> c]>>
AskedFor(tree, c, answer) == <<[tree |-> tree, call |-> c, answer |-> answer]>>

AccessOf(tree, bits, p) ==
  AskedFor(tree, [op |-> "access", n |-> p, withPath |-> TRUE], Access(bits, p))
SetBitOf(tree, p, b) ==
  Asked(tree, [op |-> "setBit", n |-> p, b |-> b, withPath |-> TRUE])

tAccess(p) == AccessOf("ttree", ttree, p)
lAccess(p) == AccessOf("ltree", ltree, p)
tRank1(p) ==
  AskedFor("ttree", [op |-> "rank1", n |-> p, withPath |-> TRUE], Rank1(ttree, p))
tSetBit(p, b) == SetBitOf("ttree", p, b)
lSetBit(p, b) == SetBitOf("ltree", p, b)

insertBlockTtree(p) == Asked("ttree", [op |-> "insertBlock", n |-> p, withPath |-> TRUE])
insertBlockLtree(p) == Asked("ltree", [op |-> "insertBlock", n |-> p, withPath |-> TRUE])
deleteBlockTtree(p) == Asked("ttree", [op |-> "deleteBlock", n |-> p, withPath |-> TRUE])
deleteBlockLtree(p) == Asked("ltree", [op |-> "deleteBlock", n |-> p, withPath |-> TRUE])

\* The calls one after the other.
InTurn(calls(_), n) ==
  LET upTo[i \in 0..n] == IF i = 0 THEN <<>> ELSE upTo[i - 1] \o calls(i - 1)
  IN  upTo[n]

\* The loop that looks for a 1 in the block of `tree` at p, now `bits`; it
\* stops at the first.
ReadBlock(tree, bits, p) ==
  LET read(i) == IF \E j \in 0..(i - 1) : Access(bits, p + j) THEN <<>>
                 ELSE AccessOf(tree, bits, p + i)
  IN  InTurn(read, BLOCK_SIZE)

\* The loops over the cells a row and a column of the slices meet in.
Cells == [n \in 0..(Len(top.rows) * Len(top.columns) - 1) |->
            LeafBlock + CalculateOffset(top.rows[(n \div Len(top.columns)) + 1],
                                        top.columns[(n % Len(top.columns)) + 1],
                                        level)]

NumberOfCells == Len(top.rows) * Len(top.columns)

(***************************************************************************)
(* The step that DKTree takes makes these calls.                           *)
(***************************************************************************)
Makes(calls) == todo' = calls /\ UNCHANGED <<tvars, lvars>>

Quiet == todo = <<>>
-----------------------------------------------------------------------------
(* The steps of DKTree.                                                    *)

TraverseInTTree ==
  /\ TraverseOne
  /\ Makes(tAccess(position)
           \o (IF Partition(iteration + 1) = 0 THEN <<>> ELSE tRank1(position + 1)))

ReportInTrees ==
  /\ ReportEdgeReturns
  /\ Makes(IF AtLTree THEN lAccess(position - Len(ttree)) ELSE tAccess(position))

AddInLTree ==
  /\ AddEdgeInLTree
  /\ Makes(lSetBit(position - Len(ttree), TRUE))

AddInTTree ==
  /\ AddEdgeAtFirst0
  /\ Makes(tAccess(position) \o tSetBit(position, TRUE))

ExtendInTTree ==
  LET insertAt == ChildBlock(position)
  IN  /\ ExtendTTree
      /\ Makes(tRank1(position + 1) \o insertBlockTtree(insertAt)
               \o tSetBit(insertAt + CalculateOffset(call.row, call.column, iteration), TRUE))

ExtendInLTree ==
  LET insertAt == ChildBlock(position) - Len(ttree)
  IN  /\ ExtendLTree
      /\ Makes(tRank1(position + 1) \o insertBlockLtree(insertAt)
               \o (IF Partition(iteration) = 0 THEN <<>>
                   ELSE lSetBit(insertAt + CalculateOffset(call.row, call.column, iteration),
                                TRUE)))

RemoveInTTree ==
  /\ RemoveDescends
  /\ Makes(tAccess(node) \o tRank1(node + 1))

StopInTTree ==
  /\ RemoveStops
  /\ Makes(tAccess(node))

ClearInLTree ==
  LET cleared == SetBit(ltree, LeafBlock + top.offset, FALSE)
  IN  /\ RemoveInLTree
      /\ Makes(lSetBit(LeafBlock + top.offset, FALSE)
               \o ReadBlock("ltree", cleared, LeafBlock)
               \o (IF OnlyZeros(cleared, LeafBlock) THEN deleteBlockLtree(LeafBlock)
                   ELSE <<>>))

PruneInTTree ==
  LET cleared == SetBit(ttree, node, FALSE)
  IN  /\ Prune
      /\ Makes(tSetBit(node, FALSE)
               \o (IF level = 1 THEN <<>> ELSE ReadBlock("ttree", cleared, top.firstAt))
               \o (IF level > 1 /\ OnlyZeros(cleared, top.firstAt)
                   THEN deleteBlockTtree(top.firstAt) ELSE <<>>))

SkipInTTree == DeleteSkips /\ Makes(tAccess(node))

KeepInTTree == DeleteKeeps /\ Makes(tAccess(node))

DescendInTTree == DeleteDescends /\ Makes(tAccess(node) \o tRank1(node + 1))

ReturnInTTree ==
  /\ DeleteReturns
  /\ Makes(IF level > 1 /\ top.only0s
           THEN deleteBlockTtree(top.firstAt) \o tSetBit(CallerNode, FALSE) ELSE <<>>)

ClearCellsInLTree ==
  LET cleared == [i \in 1..Len(ltree) |->
                    ltree[i] /\ i - 1 - LeafBlock \notin LeafCells]
      only0s  == OnlyZeros(cleared, LeafBlock)
      clear(n) == lSetBit(Cells[n], FALSE)
  IN  /\ DeleteInLTree
      /\ Makes(IF Partition(level) = 0 THEN <<>>
               ELSE InTurn(clear, NumberOfCells)
                    \o ReadBlock("ltree", cleared, LeafBlock)
                    \o (IF only0s THEN deleteBlockLtree(LeafBlock) ELSE <<>>)
                    \o (IF only0s /\ level > 1 THEN tSetBit(CallerNode, FALSE) ELSE <<>>))

FindSkipsInTTree ==
  /\ FindSkips
  /\ Makes(IF RowSlices = {} \/ ColumnSlices = {} THEN <<>> ELSE tAccess(node))

FindInTTree == FindDescends /\ Makes(tAccess(node) \o tRank1(node + 1))

FindCellsInLTree ==
  LET find(n) == lAccess(Cells[n])
  IN  /\ FindInLTree
      /\ Makes(IF Partition(level) = 0 THEN <<>> ELSE InTurn(find, NumberOfCells))

\* Steps that reach neither tree.
NoTree == (CollectOthers \/ FindDone) /\ Makes(<<>>)

StepInTrees ==
  \/ TraverseInTTree \/ ReportInTrees \/ AddInLTree \/ AddInTTree
  \/ ExtendInTTree \/ ExtendInLTree
  \/ RemoveInTTree \/ StopInTTree \/ ClearInLTree \/ PruneInTTree
  \/ SkipInTTree \/ KeepInTTree \/ DescendInTTree \/ ReturnInTTree \/ ClearCellsInLTree
  \/ FindSkipsInTTree \/ FindInTTree \/ FindCellsInLTree \/ NoTree
-----------------------------------------------------------------------------
(* The calls of the clients.                                               *)

Grows == freeColumns = <<>> /\ firstFreeColumn > matrixSize

\* increaseMatrixSize is the only one that reaches a tree at once.
ClientCall(A) ==
  /\ A
  /\ Makes(IF ~(reply'.call.op = "insertEntry" /\ Grows) THEN <<>>
           ELSE tRank1(BLOCK_SIZE)
                \o (IF Rank1(ttree, BLOCK_SIZE) > 0
                    THEN insertBlockTtree(0) \o tSetBit(0, TRUE) ELSE <<>>))

Recorded(A) == Quiet /\ A /\ graph' = IF pc' = "idle" THEN Decode' ELSE graph
-----------------------------------------------------------------------------
(* The steps of the trees.                                                 *)

Pop(treePc) == todo' = IF treePc = "idle" THEN Tail(todo) ELSE todo

TTreeStep ==
  /\ todo # <<>> /\ Head(todo).tree = "ttree"
  /\ \/ T!Ask(Head(todo).call) /\ UNCHANGED todo
     \/ T!Run /\ Pop(tPc')
  /\ UNCHANGED <<gvars, lvars>>

LTreeStep ==
  /\ todo # <<>> /\ Head(todo).tree = "ltree"
  /\ \/ L!Ask(Head(todo).call) /\ UNCHANGED todo
     \/ L!RunLtree /\ Pop(lPc')
  /\ UNCHANGED <<gvars, tvars>>

TreeStep == TTreeStep \/ LTreeStep

\* new TTree() and new LTree(); ttree->insertBlock(0).
TreesInit ==
  /\ GInit /\ T!Init /\ L!InitLtree
  /\ todo = Asked("ttree", [op |-> "insertBlock", n |-> 0, withPath |-> FALSE])

TreesNext == Recorded(ClientCall(Call)) \/ Recorded(StepInTrees) \/ TreeStep

TreesSpec == TreesInit /\ [][TreesNext]_allVars
-----------------------------------------------------------------------------
(***************************************************************************)
(* When their calls are done, the B+trees hold the two bit vectors DKTree  *)
(* takes them for, and their bits() is the length it computes positions    *)
(* with.  (That a tree is never called outside what it accepts is the      *)
(* absence of deadlock: the call would not begin.)                         *)
(***************************************************************************)
VectorsAgree ==
  Quiet => /\ T!Contents = ttree /\ T!bits(tNode[tRoot]) = Len(ttree)
           /\ L!Contents = ltree /\ L!bits(lNode[lRoot]) = Len(ltree)

(***************************************************************************)
(* Every bit and every rank a B+tree returns, found along the path it kept *)
(* through the calls before, is the one DKTree has acted on.               *)
(***************************************************************************)
AnswersAgree ==
  [][todo # <<>> /\ Len(todo') < Len(todo) /\ "answer" \in DOMAIN Head(todo) =>
       Head(todo).answer = IF Head(todo).tree = "ttree" THEN tReply'.result
                                                        ELSE lReply'.result]_allVars
=============================================================================
