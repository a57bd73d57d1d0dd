------------------------------- MODULE MCTTree -------------------------------
(***************************************************************************)
(* Instances of the B+tree for TLC.  Addresses carry no meaning: states    *)
(* are told apart by TreeView, the tree unfolded from its root, with the   *)
(* current node and the nodes of the path marked.  No step reads `reply`.   *)
(***************************************************************************)
EXTENDS TTree

Marks(n) == [at |-> n = at, leaf |-> n = leaf,
             path |-> {i \in DOMAIN path : path[i].node = n}]

Unfolded ==
  LET tree[n \in DOMAIN node] ==
        LET x == node[n]
            child(i) == IF x.entries[i].P \in DOMAIN node
                        THEN <<x.entries[i].b, x.entries[i].o, tree[x.entries[i].P],
                               node[x.entries[i].P].parent = n>>
                        ELSE <<x.entries[i].b, x.entries[i].o>>
        IN  IF x.isLeaf THEN <<x.indexInParent, x.bv, Marks(n)>>
            ELSE <<x.indexInParent, x.size, [i \in Slots |-> child(i)], Marks(n)>>
  IN  tree

PathNumbers == [i \in DOMAIN path |-> [path[i] EXCEPT !.node = nullptr]]

\* Comparing node with itself makes TLC compute its functions, which it would
\* otherwise keep as expressions in states it has not fingerprinted.
TreeView == <<node = node, Unfolded[root], HasParent(root), PathNumbers,
              pc, call, before, delta>>

=============================================================================
