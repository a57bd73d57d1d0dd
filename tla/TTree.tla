------------------------------- MODULE TTree -------------------------------
(***************************************************************************)
(* What the B+tree of TTree.cpp is for: the bits of its leaves, read from  *)
(* left to right, are the bit vector that DKTree works on.  Everything     *)
(* here is defined by recursion over the tree.                             *)
(***************************************************************************)
EXTENDS BPlusTree

(***************************************************************************)
(* The bits below each node.  (A node that was merged away keeps its size, *)
(* but no pointers.)                                                       *)
(***************************************************************************)
BitsOf ==
  LET bitsOf[n \in DOMAIN node] ==
        LET below(P) == IF P = nullptr THEN <<>> ELSE bitsOf[P]
        IN  IF node[n].isLeaf THEN node[n].bv
            ELSE Concat([i \in Slots |-> below(node[n].entries[i].P)], node[n].size)
  IN  bitsOf

Contents == BitsOf[root]

(***************************************************************************)
(* The tree implements the bit vector: each operation acts where it        *)
(* changes or reads the leaf, with the answer of the bit vector, and no    *)
(* step of a search, of the counters or of the balancing changes what the  *)
(* tree contains.                                                          *)
(***************************************************************************)
Vector == INSTANCE BitSequence WITH vector <- Contents

ImplementsVector == Vector!Spec

(***************************************************************************)
(* The distance of a node from the root, and from the leaves below it.     *)
(***************************************************************************)
DepthOf ==
  LET depth[n \in Live] == IF HasParent(n) THEN 1 + depth[node[n].parent] ELSE 0
  IN  depth

HeightOf ==
  LET height[n \in Live] ==
        IF node[n].isLeaf THEN 0 ELSE 1 + height[node[n].entries[0].P]
  IN  height

(***************************************************************************)
(* All leaves are at the same depth.                                       *)
(***************************************************************************)
Balanced ==
  LET depth == DepthOf
  IN  \A m, n \in Live : node[m].isLeaf /\ node[n].isLeaf => depth[m] = depth[n]

(***************************************************************************)
(* A call ends: each of its steps goes to a later phase or, within its     *)
(* phase, one node further along a path that is finite.                    *)
(***************************************************************************)
Phase == CASE pc = "up" -> 5 [] pc = "down" -> 4 [] pc = "count" -> 3
           [] pc \in {"upper", "lower"} -> 2 [] pc = "idle" -> 1

StepsLeft == CASE pc = "up" -> Len(path)
               [] pc = "down" -> HeightOf[at]
               [] pc \in {"count", "upper", "lower"} -> DepthOf[at]
               [] pc = "idle" -> 0

CallsAdvance ==
  [][pc # "idle" => \/ Phase' < Phase
                    \/ Phase' = Phase /\ StepsLeft' < StepsLeft]_vars

=============================================================================
