---------------------------- MODULE DKTreeGraph ----------------------------
(***************************************************************************)
(* The graph a dynamic k^2-tree holds, and the properties of DKTree.       *)
(* `graph` is a history variable: the edges decoded from the two bit       *)
(* vectors when no call is running.                                        *)
(***************************************************************************)
EXTENDS DKTree, FiniteSetsExt

VARIABLE graph

gvars == <<vars, graph>>

\* matrixSize = K ^ Height.
Height == CHOOSE h \in 0..matrixSize : LongPow[h] = matrixSize

(***************************************************************************)
(* The edges the vectors hold.  A node of level i is a partition of the    *)
(* matrix whose bit is 1, with the position of its block of children: the  *)
(* root block is at 0 and the block below the 1 at p is block number       *)
(* rank1(p + 1) of ttree followed by ltree.  The 1s of the last level are  *)
(* the edges.                                                              *)
(***************************************************************************)
Decode ==
  LET bits == ttree \o ltree
      children(n) ==
        {[row    |-> K * n.row + (o \div K),
          column |-> K * n.column + (o % K),
          block  |-> Rank1(bits, n.block + o + 1) * BLOCK_SIZE] :
            o \in {x \in 0..(BLOCK_SIZE - 1) : Access(bits, n.block + x)}}
      nodes[i \in 0..Height] ==
        IF i = 0 THEN {[row |-> 0, column |-> 0, block |-> 0]}
                 ELSE UNION {children(n) : n \in nodes[i - 1]}
  IN  {<<n.row, n.column>> : n \in nodes[Height]}

GInit == Init /\ graph = {}
GNext == Next /\ graph' = IF pc' = "idle" THEN Decode' ELSE graph
GSpec == GInit /\ [][GNext]_gvars

\* The program runs: a call that has started takes its next step.
FairSpec == GSpec /\ WF_vars(Step)
-----------------------------------------------------------------------------
(* The layout the bit vectors should have for `graph`.  A node of level i  *)
(* is the number that the first i offsets of a path spell in base          *)
(* BLOCK_SIZE; level i lists the blocks of the nodes of level i - 1 that   *)
(* hold an edge, in ascending order.                                       *)

Nodes(i) ==
  LET path[e \in graph, l \in 0..Height] ==
        IF l = 0 THEN 0
        ELSE BLOCK_SIZE * path[e, l - 1] + CalculateOffset(e[1], e[2], l)
  IN  IF i = 0 THEN {0} ELSE {path[e, i] : e \in graph}

LevelBits(i) ==
  LET parents == Nodes(i - 1)
      nth(j)  == CHOOSE n \in parents : Cardinality({m \in parents : m < n}) = j
      nodes   == Nodes(i)
  IN  [b \in 1..(BLOCK_SIZE * Cardinality(parents)) |->
         BLOCK_SIZE * nth((b - 1) \div BLOCK_SIZE) + ((b - 1) % BLOCK_SIZE) \in nodes]

Layout(levels) ==
  LET upTo[i \in 0..Height] ==
        IF i = 0 THEN <<>>
        ELSE upTo[i - 1] \o (IF i \in levels THEN LevelBits(i) ELSE <<>>)
  IN  upTo[Height]

live == (0..(firstFreeColumn - 1)) \ Elements(freeColumns)
-----------------------------------------------------------------------------
(* Invariants of the graph (those of the vectors alone are in DKTree).     *)

(***************************************************************************)
(* Between calls the vectors are the level-order layout of the graph and   *)
(* nothing else: they do not depend on the calls that built them, and hold *)
(* no all-zero block below the root.                                       *)
(***************************************************************************)
LayoutOfGraph ==
  pc = "idle" => /\ ttree = Layout(1..(Height - 1))
                 /\ ltree = Layout({Height})

(***************************************************************************)
(* An edge joins vertices that are in use, so a vertex number that is      *)
(* handed out again has no edges left over ("unused places in the matrix   *)
(* have 0 everywhere", DKTree.cpp:162).                                    *)
(***************************************************************************)
UnusedRowsAreEmpty == pc = "idle" => graph \subseteq live \X live
-----------------------------------------------------------------------------
(* Actions, refinement, liveness.                                          *)

\* A call that throws leaves the matrix and the vertices as they were.
Throws == reply'.call.op # "none" /\ "throws" \in DOMAIN reply'
FailedCallsChangeNothing ==
  [][Throws => UNCHANGED <<matrix, bookkeeping, graph>>]_gvars

\* The program does what a graph with atomic operations does, one whose
\* removeEdge accepts any vertex.
Graph == INSTANCE AbstractGraph WITH
           Vertices <- 0..(MaxVertices - 1), edges <- graph, ChecksRemoval <- FALSE
ImplementsGraph == Graph!Spec

\* The program does what DKTree.h promises: removeEdge too "@throws illegal
\* argument exception if row or column is not present in the matrix" (DKTree.h:72).
Header == INSTANCE AbstractGraph WITH
            Vertices <- 0..(MaxVertices - 1), edges <- graph, ChecksRemoval <- TRUE
ImplementsHeader == Header!Spec

\* Every call returns.
CallsReturn == pc # "idle" ~> pc = "idle"
=============================================================================
