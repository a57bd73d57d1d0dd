--------------------------- MODULE MCDKTreeTrees ---------------------------
(***************************************************************************)
(* Instances of DKTreeTrees for TLC.  The trees are told apart as in       *)
(* MCTTree; no step reads `graph`.                                         *)
(***************************************************************************)
EXTENDS DKTreeTrees

TView == INSTANCE MCTTree WITH
       node <- tNode, root <- tRoot, path <- tPath, pc <- tPc, call <- tCall,
       at <- tAt, leaf <- tLeaf, before <- tBefore, delta <- tDelta, reply <- tReply,
       BlockSize <- BLOCK_SIZE, CountsOnes <- TRUE,
       MaxBlocks <- 0, MaxOnes <- 0, Probes <- {}

LView == INSTANCE MCTTree WITH
       node <- lNode, root <- lRoot, path <- lPath, pc <- lPc, call <- lCall,
       at <- lAt, leaf <- lLeaf, before <- lBefore, delta <- lDelta, reply <- lReply,
       BlockSize <- BLOCK_SIZE, CountsOnes <- FALSE,
       MaxBlocks <- 0, MaxOnes <- 0, Probes <- {}

TreesView == <<vars, TView!TreeView, LView!TreeView, todo>>

\* An 8 x 8 matrix with 8 vertices that grows to 16 x 16 with the tenth.
TreesArcs == {<<0, 1>>, <<1, 6>>, <<3, 2>>, <<7, 7>>, <<8, 0>>}
TreesQueries == { << <<0, 3, 7, 6>>, <<1, 2, 7>> >> }
=============================================================================
