----------------------------- MODULE BPlusTree -----------------------------
(***************************************************************************)
(* The B+tree of TTree.cpp.  A leaf holds a bit vector; an internal node   *)
(* holds entries <b, o, P>: a child P and the numbers of bits and ones     *)
(* below it.  Blocks are inserted and deleted in leaves, and nodes that    *)
(* become too large or too small spill to a sibling, steal from one, split *)
(* or merge.  LTree.cpp is the same tree without the counters of ones: the *)
(* constant CountsOnes tells the two apart.                                *)
(*                                                                         *)
(* A call runs as a sequence of steps: one per iteration of the loops of   *)
(* findLeaf2 and updateCounters, one per activation of checkSizeUpper and  *)
(* checkSizeLower.  The caller's path, the finger kept from call to call,  *)
(* belongs to the state; so does the wrapper in DKTree.cpp that installs a *)
(* new root and clears the path.  A call may also do without a path.       *)
(***************************************************************************)
EXTENDS Integers, Sequences, FiniteSets

CONSTANTS
  BlockSize,     \* the number of bits of a block (parameters.cpp: k * k)
  NodeSizeMax,   \* the most children of an internal node (3)
  LeafSizeMax,   \* the most blocks of a leaf (B / BLOCK_SIZE)
  CountsOnes,    \* TRUE for TTree, FALSE for LTree
  MaxBlocks,     \* bound: no block is inserted beyond this many
  MaxOnes,       \* bound: no bit is set beyond this many
  Probes         \* bound: the positions given to access, setBit and rank1

ASSUME SizesAssumption == /\ BlockSize \in Nat /\ BlockSize >= 1
                          /\ NodeSizeMax \in Nat /\ NodeSizeMax >= 3
                          /\ LeafSizeMax \in Nat /\ LeafSizeMax >= 1
ASSUME UseAssumption == /\ CountsOnes \in BOOLEAN
                        /\ MaxBlocks \in Nat /\ MaxOnes \in Nat
                        /\ Probes \subseteq Nat

VARIABLES
  node,   \* the nodes by address: what `new` has allocated and not deleted
  root,   \* the caller's pointer to the root
  path,   \* the caller's path: one Nesbo per internal node, root first
  pc,     \* what the current call is doing
  call,   \* the current call and its arguments
  at,     \* `current` in the loops, `this` in the recursion
  leaf,   \* the leaf findLeaf has found
  before, \* the local variables bitsBefore (b) and onesBefore (o)
  delta,  \* the arguments dBits (b) and dOnes (o) of updateCounters
  reply   \* what the last call returned

vars == <<node, root, path, pc, call, at, leaf, before, delta, reply>>
locals == <<call, at, leaf, before, delta>>

nodeSizeMin == (NodeSizeMax + 1) \div 2
leafSizeMin == (LeafSizeMax + 1) \div 2

nullptr == 0

Slots == 0..NodeSizeMax   \* one more than the maximum

EmptyEntry == [b |-> 0, o |-> 0, P |-> nullptr]

CountOnes(bv) ==
  IF CountsOnes THEN Cardinality({i \in DOMAIN bv : bv[i]}) ELSE 0

(***************************************************************************)
(* Nodes.  The union of the code is a record with the fields of both       *)
(* variants; `size` is that of InternalNode.                               *)
(***************************************************************************)
LeafNode(bv, parent) ==
  [isLeaf |-> TRUE, parent |-> parent, indexInParent |-> 0,
   bv |-> bv, size |-> 0, entries |-> [i \in Slots |-> EmptyEntry]]

InternalNode(entries, size, parent) ==
  [isLeaf |-> FALSE, parent |-> parent, indexInParent |-> 0,
   bv |-> <<>>, size |-> size, entries |-> entries]

(***************************************************************************)
(* The sum of f over the first n slots.                                    *)
(***************************************************************************)
SumBelow(f, n) ==
  LET sum[i \in 0..n] == IF i = 0 THEN 0 ELSE sum[i - 1] + f[i - 1]
  IN  sum[n]

BitsBelow(x, n) == SumBelow([i \in Slots |-> x.entries[i].b], n)
OnesBelow(x, n) == SumBelow([i \in Slots |-> x.entries[i].o], n)

bits(x) == IF x.isLeaf THEN Len(x.bv) ELSE BitsBelow(x, NodeSizeMax + 1)
ones(x) == IF x.isLeaf THEN CountOnes(x.bv) ELSE OnesBelow(x, NodeSizeMax + 1)
size(x) == IF x.isLeaf THEN Len(x.bv) \div BlockSize ELSE x.size

EntryOf(heap, P) == [b |-> bits(heap[P]), o |-> ones(heap[P]), P |-> P]

(***************************************************************************)
(* Changes of the nodes: `heap` is the function from addresses to nodes.   *)
(* Place gives node n new entries, and the children in the slots `moved`   *)
(* their index.                                                            *)
(***************************************************************************)
WithIndex(heap, entries, moved) ==
  [m \in DOMAIN heap |->
    IF \E i \in moved : entries[i].P = m
    THEN [heap[m] EXCEPT !.indexInParent = CHOOSE i \in moved : entries[i].P = m]
    ELSE heap[m]]

Place(heap, n, entries, newSize, moved) ==
  [WithIndex(heap, entries, moved) EXCEPT ![n].entries = entries, ![n].size = newSize]

Inserted(old, len, idx, entry) ==
  [i \in Slots |-> IF i = idx THEN entry
                   ELSE IF i \in (idx + 1)..len THEN old[i - 1]
                   ELSE old[i]]

\* Mutant: the entries move up, but only the new one gets its index.
InsertEntryOnly(heap, n, idx, entry) ==
  LET x == heap[n]
  IN  Place(heap, n, Inserted(x.entries, x.size, idx, entry), x.size + 1, {idx})

InsertEntry(heap, n, idx, entry) ==
  LET x == heap[n]
  IN  Place(heap, n, Inserted(x.entries, x.size, idx, entry), x.size + 1, idx..x.size)

AppendEntry(heap, n, entry) == InsertEntry(heap, n, heap[n].size, entry)

\* Mutant: the last slot keeps its pointer.
RemoveEntryKeepingP(heap, n, idx) ==
  LET old == heap[n].entries
      len == heap[n].size - 1
  IN  Place(heap, n,
            [i \in Slots |-> IF i = len THEN [EmptyEntry EXCEPT !.P = old[i].P]
                             ELSE IF i \in idx..(len - 1) THEN old[i + 1]
                             ELSE old[i]],
            len, idx..(len - 1))

Removed(old, len, idx) ==
  [i \in Slots |-> IF i = len - 1 THEN EmptyEntry
                   ELSE IF i \in idx..(len - 2) THEN old[i + 1]
                   ELSE old[i]]

RemoveEntry(heap, n, idx) ==
  LET x == heap[n]
  IN  Place(heap, n, Removed(x.entries, x.size, idx), x.size - 1, idx..(x.size - 2))

PopFirst(heap, n) == RemoveEntry(heap, n, 0)
PopLast(heap, n) == RemoveEntry(heap, n, heap[n].size - 1)

AddToEntry(heap, n, idx, dBits, dOnes) ==
  [heap EXCEPT ![n].entries[idx].b = @ + dBits,
               ![n].entries[idx].o = @ + dOnes]

WithBits(heap, n, bv) == [heap EXCEPT ![n].bv = bv]

Allocate(heap, n, new) == [m \in DOMAIN heap \cup {n} |-> IF m = n THEN new ELSE heap[m]]

(***************************************************************************)
(* The sequences in the first n slots, one after the other.                *)
(***************************************************************************)
Concat(f, n) ==
  LET upTo[i \in 0..n] == IF i = 0 THEN <<>> ELSE upTo[i - 1] \o f[i - 1]
  IN  upTo[n]

(***************************************************************************)
(* The destructors: what `delete` frees, in order.  An internal node       *)
(* deletes the child in each of its slots, also in those beyond its size.  *)
(***************************************************************************)

Freed(heap) ==
  LET freed[n \in DOMAIN heap] ==
        LET below(P) == IF P = nullptr THEN <<>> ELSE freed[P]
            parts == [i \in Slots |-> below(heap[n].entries[i].P)]
        IN  Append(Concat(parts, NodeSizeMax + 1), n)
  IN  freed

Delete(heap, n) ==
  LET freed == Freed(heap)[n]
  IN  [m \in DOMAIN heap \ {freed[i] : i \in DOMAIN freed} |-> heap[m]]

(***************************************************************************)
(* The address `new` returns: one that is not in use.                      *)
(***************************************************************************)
Unused(heap) ==
  CHOOSE n \in 1..(Cardinality(DOMAIN heap) + 1) : n \notin DOMAIN heap

Prefix(s, n) == SubSeq(s, 1, n)
Suffix(s, n) == SubSeq(s, n + 1, Len(s))   \* without the first n

(***************************************************************************)
(* moveLeft, moveRight: the first (last) child or block of `n` goes to the *)
(* sibling before (after) it.                                              *)
(***************************************************************************)
Shift(heap, parent, from, to, dBits, dOnes) ==
  AddToEntry(AddToEntry(heap, parent, from, -dBits, -dOnes), parent, to, dBits, dOnes)

moveLeftInternal(heap, n) ==
  LET parent == heap[n].parent
      idx == heap[n].indexInParent
      sibling == heap[parent].entries[idx - 1].P
      toMove == heap[n].entries[0]
      adopted == [PopFirst(heap, n) EXCEPT ![toMove.P].parent = sibling]
  IN  Shift(AppendEntry(adopted, sibling, toMove), parent, idx, idx - 1,
            toMove.b, toMove.o)

\* Mutant: the child is appended to the sibling on the right.
moveRightToEnd(heap, n) ==
  LET parent == heap[n].parent
      idx == heap[n].indexInParent
      sibling == heap[parent].entries[idx + 1].P
      toMove == heap[n].entries[heap[n].size - 1]
      adopted == [PopLast(heap, n) EXCEPT ![toMove.P].parent = sibling]
  IN  Shift(AppendEntry(adopted, sibling, toMove), parent, idx, idx + 1,
            toMove.b, toMove.o)

moveRightInternal(heap, n) ==
  LET parent == heap[n].parent
      idx == heap[n].indexInParent
      sibling == heap[parent].entries[idx + 1].P
      toMove == heap[n].entries[heap[n].size - 1]
      adopted == [PopLast(heap, n) EXCEPT ![toMove.P].parent = sibling]
  IN  Shift(InsertEntry(adopted, sibling, 0, toMove), parent, idx, idx + 1,
            toMove.b, toMove.o)

moveLeftLeaf(heap, n) ==
  LET parent == heap[n].parent
      idx == heap[n].indexInParent
      sibling == heap[parent].entries[idx - 1].P
      block == Prefix(heap[n].bv, BlockSize)
      moved == WithBits(WithBits(heap, sibling, heap[sibling].bv \o block),
                        n, Suffix(heap[n].bv, BlockSize))
  IN  Shift(moved, parent, idx, idx - 1, BlockSize, CountOnes(block))

\* Mutant: the block is appended to the sibling on the right.
moveRightAppending(heap, n) ==
  LET parent == heap[n].parent
      idx == heap[n].indexInParent
      sibling == heap[parent].entries[idx + 1].P
      lo == Len(heap[n].bv) - BlockSize
      block == Suffix(heap[n].bv, lo)
      moved == WithBits(WithBits(heap, sibling, heap[sibling].bv \o block),
                        n, Prefix(heap[n].bv, lo))
  IN  Shift(moved, parent, idx, idx + 1, BlockSize, CountOnes(block))

moveRightLeaf(heap, n) ==
  LET parent == heap[n].parent
      idx == heap[n].indexInParent
      sibling == heap[parent].entries[idx + 1].P
      lo == Len(heap[n].bv) - BlockSize
      block == Suffix(heap[n].bv, lo)
      moved == WithBits(WithBits(heap, sibling, block \o heap[sibling].bv),
                        n, Prefix(heap[n].bv, lo))
  IN  Shift(moved, parent, idx, idx + 1, BlockSize, CountOnes(block))

MoveLeft(heap, n) ==
  IF heap[n].isLeaf THEN moveLeftLeaf(heap, n) ELSE moveLeftInternal(heap, n)
MoveRight(heap, n) ==
  IF heap[n].isLeaf THEN moveRightLeaf(heap, n) ELSE moveRightInternal(heap, n)


(***************************************************************************)
(* splitLeaf, splitInternal: the second half of node n moves to a new      *)
(* node; the root gets a new root above it, another node a new sibling.    *)
(***************************************************************************)
\* Mutant: the middle is not rounded to a block.
HalveAnywhere(heap, n, new) ==
  LET mid == Len(heap[n].bv) \div 2
  IN  Allocate(WithBits(heap, n, Prefix(heap[n].bv, mid)), new,
               LeafNode(Suffix(heap[n].bv, mid), heap[n].parent))

HalveLeaf(heap, n, new) ==
  LET half == Len(heap[n].bv) \div 2
      mid == half - (half % BlockSize)
  IN  Allocate(WithBits(heap, n, Prefix(heap[n].bv, mid)), new,
               LeafNode(Suffix(heap[n].bv, mid), heap[n].parent))

LowerHalf(old, len, mid) ==
  [i \in Slots |-> IF i < mid \/ i >= len THEN old[i] ELSE EmptyEntry]

UpperHalf(old, len, mid) ==
  [i \in Slots |-> IF mid + i < len THEN old[mid + i] ELSE EmptyEntry]

AdoptAll(heap, entries, slots, parent) ==
  [m \in DOMAIN heap |->
    IF \E i \in slots : entries[i].P = m
    THEN [heap[m] EXCEPT !.parent = parent] ELSE heap[m]]

\* Mutant: the children of the second half keep their parent.
HalveNotAdopting(heap, n, new) ==
  LET old == heap[n].entries
      len == heap[n].size
      mid == len \div 2
      upper == UpperHalf(old, len, mid)
      halved == Place(heap, n, LowerHalf(old, len, mid), mid, {})
  IN  Place(Allocate(halved, new, InternalNode(upper, len - mid, heap[n].parent)),
            new, upper, len - mid, 0..(len - mid - 1))

HalveInternal(heap, n, new) ==
  LET old == heap[n].entries
      len == heap[n].size
      mid == len \div 2
      upper == UpperHalf(old, len, mid)
      adopted == AdoptAll(heap, old, mid..(len - 1), new)
      halved == Place(adopted, n, LowerHalf(old, len, mid), mid, {})
  IN  Place(Allocate(halved, new, InternalNode(upper, len - mid, heap[n].parent)),
            new, upper, len - mid, 0..(len - mid - 1))

Halve(heap, n, new) ==
  IF heap[n].isLeaf THEN HalveLeaf(heap, n, new) ELSE HalveInternal(heap, n, new)

AddRoot(heap, left, right, new) ==
  LET entries == [i \in Slots |-> CASE i = 0 -> EntryOf(heap, left)
                                    [] i = 1 -> EntryOf(heap, right)
                                    [] OTHER -> EmptyEntry]
      adopted == [heap EXCEPT ![left].parent = new, ![right].parent = new]
  IN  Place(Allocate(adopted, new, InternalNode(entries, 2, nullptr)),
            new, entries, 2, {0, 1})

\* Mutant: the counters of the node that was split are not reduced.
AddSiblingOnly(heap, n, new) ==
  InsertEntry(heap, heap[n].parent, heap[n].indexInParent + 1, EntryOf(heap, new))

AddSibling(heap, n, new) ==
  LET parent == heap[n].parent
      idx == heap[n].indexInParent
      entry == EntryOf(heap, new)
  IN  InsertEntry(AddToEntry(heap, parent, idx, -entry.b, -entry.o),
                  parent, idx + 1, entry)

(***************************************************************************)
(* mergeLeaf, mergeInternal: the node in slot i + 1 of `parent` gives all  *)
(* it has to the node in slot i and loses its entry.  The code does not    *)
(* delete it.                                                              *)
(***************************************************************************)
\* Mutant: the counters of the left node are not increased.
MergeLeafUncounted(heap, parent, i) ==
  LET left == heap[parent].entries[i].P
      right == heap[parent].entries[i + 1].P
  IN  RemoveEntry(WithBits(heap, left, heap[left].bv \o heap[right].bv), parent, i + 1)

MergeLeaf(heap, parent, i) ==
  LET left == heap[parent].entries[i].P
      right == heap[parent].entries[i + 1].P
      gone == heap[parent].entries[i + 1]
      merged == WithBits(heap, left, heap[left].bv \o heap[right].bv)
  IN  RemoveEntry(AddToEntry(merged, parent, i, gone.b, gone.o), parent, i + 1)

\* Mutant: the right node itself becomes a child of the left one.
MergeNesting(heap, parent, i) ==
  LET left == heap[parent].entries[i].P
      right == heap[parent].entries[i + 1].P
      gone == heap[parent].entries[i + 1]
      removed == AddToEntry(RemoveEntry(heap, parent, i + 1), parent, i, gone.b, gone.o)
  IN  AppendEntry([removed EXCEPT ![right].parent = left], left, gone)

Joined(old, len, more, n) ==
  [j \in Slots |-> IF j \in len..(len + n - 1) THEN more[j - len] ELSE old[j]]

Emptied(more, n) ==
  [j \in Slots |-> IF j < n THEN [more[j] EXCEPT !.P = nullptr] ELSE more[j]]

MergeInternal(heap, parent, i) ==
  LET left == heap[parent].entries[i].P
      right == heap[parent].entries[i + 1].P
      old == heap[left].entries
      more == heap[right].entries
      len == heap[left].size
      n == heap[right].size
      adopted == AdoptAll(heap, more, 0..(n - 1), left)
      emptied == [adopted EXCEPT ![right].entries = Emptied(more, n)]
      merged == Place(emptied, left, Joined(old, len, more, n), len + n, len..(len + n - 1))
  IN  AddToEntry(RemoveEntry(merged, parent, i + 1), parent, i,
                 BitsBelow(heap[right], n), OnesBelow(heap[right], n))

Merge(heap, parent, i) ==
  IF heap[heap[parent].entries[i].P].isLeaf
  THEN MergeLeaf(heap, parent, i) ELSE MergeInternal(heap, parent, i)

-----------------------------------------------------------------------------
(***************************************************************************)
(* A call begins, and returns.                                             *)
(***************************************************************************)
NoCall == [op |-> "none"]
NoDelta == [b |-> 0, o |-> 0]

\* TTree(bv): a root that is a leaf.
New(bv) ==
  /\ node = [n \in {1} |-> LeafNode(bv, nullptr)]
  /\ root = 1
  /\ path = <<>>
  /\ pc = "idle"
  /\ call = NoCall
  /\ at = nullptr
  /\ leaf = nullptr
  /\ before = NoDelta
  /\ delta = NoDelta
  /\ reply = NoCall

Init == New(<<>>)

Begin(c) ==
  /\ pc = "idle"
  /\ call' = c
  /\ IF c.withPath /\ path # <<>>
     THEN pc' = "up" /\ at' = at
     ELSE pc' = "down" /\ at' = root
  /\ UNCHANGED <<node, root, path, leaf, before, delta, reply>>

Return ==
  /\ pc' = "idle"
  /\ call' = NoCall
  /\ at' = nullptr
  /\ leaf' = nullptr
  /\ before' = NoDelta
  /\ delta' = NoDelta

(***************************************************************************)
(* The wrappers insertBlockTtree, deleteBlockTtree, ... of DKTree.cpp take *)
(* the new root and clear the path.                                        *)
(***************************************************************************)
ReturnRoot(newRoot) ==
  /\ Return
  /\ root' = newRoot
  /\ path' = <<>>
  /\ UNCHANGED reply

Parent(n) == node[node[n].parent]
HasParent(n) == node[n].parent # nullptr

Positions == 0..(bits(node[root]) - 1)
BlockPositions == {n \in 0..bits(node[root]) : n % BlockSize = 0}

ChildrenOf(n) == {node[n].entries[i].P : i \in Slots} \ {nullptr}
Live == {root} \cup UNION {ChildrenOf(n) : n \in DOMAIN node}

OnesSet == UNION {{<<n, i>> : i \in {j \in DOMAIN node[n].bv : node[n].bv[j]}} : n \in Live}

(***************************************************************************)
(* What the code calls a tree with: a position the operation has, and no   *)
(* mixture of calls that keep the path and calls that do not (`path` is    *)
(* nullptr), which would leave the path behind the tree.                   *)
(***************************************************************************)
Accepts(c) ==
  /\ ~c.withPath => path = <<>>
  /\ c.n \in CASE c.op = "insertBlock" -> BlockPositions
               [] c.op = "deleteBlock" -> BlockPositions \cap Positions
               [] c.op = "rank1" -> Positions \cup {bits(node[root])}
               [] OTHER -> Positions
  /\ c.op = "rank1" => CountsOnes

Ask(c) == Accepts(c) /\ Begin(c)

insertBlock == \E n \in BlockPositions, w \in BOOLEAN :
  /\ bits(node[root]) < MaxBlocks * BlockSize
  /\ Ask([op |-> "insertBlock", n |-> n, withPath |-> w])

deleteBlock == \E n \in BlockPositions, w \in BOOLEAN :
  Ask([op |-> "deleteBlock", n |-> n, withPath |-> w])

setBit == \E n \in Probes, b \in BOOLEAN, w \in BOOLEAN :
  /\ b => Cardinality(OnesSet) < MaxOnes
  /\ Ask([op |-> "setBit", n |-> n, b |-> b, withPath |-> w])

access == \E n \in Probes, w \in BOOLEAN :
  Ask([op |-> "access", n |-> n, withPath |-> w])

rank1 == \E n \in Probes, w \in BOOLEAN :
  Ask([op |-> "rank1", n |-> n, withPath |-> w])

(***************************************************************************)
(* findLeaf2.  While the subtree below the last entry of the path does not *)
(* hold bit n, go up; from there, or from the root, go down.  A call       *)
(* without a path goes down from the root and keeps none (findLeaf).       *)
(***************************************************************************)
Top == path[Len(path)]

\* Mutant: the position just after the subtree counts as inside.
OutsideStrictly(n, nesbo) ==
  n < nesbo.bitsBefore \/ nesbo.bitsBefore + nesbo.size < n

Outside(n, nesbo) ==
  n < nesbo.bitsBefore \/ nesbo.bitsBefore + nesbo.size <= n

GoUp ==
  /\ pc = "up"
  /\ Outside(call.n, Top)
  /\ path' = SubSeq(path, 1, Len(path) - 1)
  /\ IF Len(path) = 1 THEN pc' = "down" /\ at' = Top.node ELSE UNCHANGED <<pc, at>>
  /\ UNCHANGED <<node, root, call, leaf, before, delta, reply>>

TurnDown ==
  /\ pc = "up"
  /\ ~Outside(call.n, Top)
  /\ pc' = "down"
  /\ at' = node[Top.node].entries[Top.index].P
  /\ before' = [b |-> Top.bitsBefore, o |-> Top.onesBefore]
  /\ UNCHANGED <<node, root, path, call, leaf, delta, reply>>

(***************************************************************************)
(* findChild: the first child that ends after bit n, or the last child if  *)
(* n is the number of bits.  Beyond that the code throws a range_error,    *)
(* and the model has no step.                                              *)
(***************************************************************************)
FindChild(x, n, i) ==
  /\ i \in 0..(x.size - 1)
  /\ BitsBelow(x, i) <= n
  /\ \/ n < BitsBelow(x, i + 1)
     \/ i = x.size - 1 /\ n = BitsBelow(x, x.size)

Descend ==
  /\ pc = "down"
  /\ ~node[at].isLeaf
  /\ \E i \in Slots :
       /\ FindChild(node[at], call.n - before.b, i)
       /\ \A j \in 0..(i - 1) : ~FindChild(node[at], call.n - before.b, j)
       /\ LET next == node[at].entries[i]
          IN  /\ before' = [b |-> before.b + BitsBelow(node[at], i),
                            o |-> before.o + OnesBelow(node[at], i)]
              /\ path' = IF call.withPath
                         THEN Append(path, [node |-> at, index |-> i, size |-> next.b,
                                            bitsBefore |-> before'.b,
                                            onesBefore |-> before'.o])
                         ELSE path
              /\ at' = next.P
  /\ UNCHANGED <<node, root, pc, call, leaf, delta, reply>>

(***************************************************************************)
(* The leaf is found: what each operation does there.                      *)
(***************************************************************************)
AtLeaf(op) == pc = "down" /\ node[at].isLeaf /\ call.op = op

Answer(result) ==
  /\ reply' = [op |-> call.op, n |-> call.n, result |-> result]
  /\ Return
  /\ UNCHANGED <<node, root, path>>

AccessLeaf ==
  /\ AtLeaf("access")
  /\ Answer(node[at].bv[call.n - before.b + 1])

RankLeaf ==
  /\ AtLeaf("rank1")
  /\ Answer(before.o + CountOnes(Prefix(node[at].bv, call.n - before.b)))

Update(dBits, dOnes) ==
  /\ delta' = [b |-> dBits, o |-> dOnes]
  /\ leaf' = at
  /\ pc' = "count"
  /\ UNCHANGED <<root, path, call, at, before>>

InsertInLeaf ==
  /\ AtLeaf("insertBlock")
  /\ LET bv == node[at].bv
         start == call.n - before.b
     IN  node' = WithBits(node, at, Prefix(bv, start) \o [i \in 1..BlockSize |-> FALSE]
                                    \o Suffix(bv, start))
  /\ Update(BlockSize, 0)
  /\ reply' = [op |-> call.op, n |-> call.n]

\* Mutant: the ones are counted from the beginning of the leaf.
DeleteCountingAll ==
  /\ AtLeaf("deleteBlock")
  /\ LET bv == node[at].bv
         start == call.n - before.b
         end == start + BlockSize
     IN  /\ node' = WithBits(node, at, Prefix(bv, start) \o Suffix(bv, end))
         /\ Update(-BlockSize, -CountOnes(Prefix(bv, end)))
  /\ reply' = [op |-> call.op, n |-> call.n]

DeleteInLeaf ==
  /\ AtLeaf("deleteBlock")
  /\ LET bv == node[at].bv
         start == call.n - before.b
         end == start + BlockSize
     IN  /\ node' = WithBits(node, at, Prefix(bv, start) \o Suffix(bv, end))
         /\ Update(-BlockSize, -CountOnes(SubSeq(bv, start + 1, end)))
  /\ reply' = [op |-> call.op, n |-> call.n]

SetReply(changed) ==
  [op |-> call.op, n |-> call.n, b |-> call.b, result |-> changed]

SetLeavesBit ==
  /\ AtLeaf("setBit")
  /\ node[at].bv[call.n - before.b + 1] = call.b
  /\ reply' = SetReply(FALSE)
  /\ Return
  /\ UNCHANGED <<node, root, path>>

SetInLeaf ==
  /\ AtLeaf("setBit")
  /\ node[at].bv[call.n - before.b + 1] # call.b
  /\ node' = WithBits(node, at, [node[at].bv EXCEPT ![call.n - before.b + 1] = call.b])
  /\ reply' = SetReply(TRUE)
  /\ IF CountsOnes THEN Update(0, IF call.b THEN 1 ELSE -1)
     ELSE Return /\ UNCHANGED <<root, path>>

(***************************************************************************)
(* updateCounters: from the leaf up, the entry of each node in its parent. *)
(***************************************************************************)
\* Mutant: `current` stays where it is.
UpdateCountersStuck ==
  /\ pc = "count"
  /\ HasParent(at)
  /\ node' = AddToEntry(node, node[at].parent, node[at].indexInParent, delta.b, delta.o)
  /\ UNCHANGED <<root, path, pc, call, at, leaf, before, delta, reply>>

UpdateCounters ==
  /\ pc = "count"
  /\ HasParent(at)
  /\ node' = AddToEntry(node, node[at].parent, node[at].indexInParent, delta.b, delta.o)
  /\ at' = node[at].parent
  /\ UNCHANGED <<root, path, pc, call, leaf, before, delta, reply>>

BlockCounted ==
  /\ pc = "count"
  /\ ~HasParent(at)
  /\ call.op # "setBit"
  /\ pc' = IF call.op = "insertBlock" THEN "upper" ELSE "lower"
  /\ at' = leaf
  /\ UNCHANGED <<node, root, path, call, leaf, before, delta, reply>>

\* Mutant: the entry whose subtree begins with the bit is adjusted as well.
BitCountedInclusive ==
  /\ pc = "count"
  /\ ~HasParent(at)
  /\ call.op = "setBit"
  /\ path' = [i \in DOMAIN path |->
               IF call.n <= path[i].bitsBefore
               THEN [path[i] EXCEPT !.onesBefore = @ + delta.o] ELSE path[i]]
  /\ Return
  /\ UNCHANGED <<node, root, reply>>

BitCounted ==
  /\ pc = "count"
  /\ ~HasParent(at)
  /\ call.op = "setBit"
  /\ path' = [i \in DOMAIN path |->
               IF call.n < path[i].bitsBefore
               THEN [path[i] EXCEPT !.onesBefore = @ + delta.o] ELSE path[i]]
  /\ Return
  /\ UNCHANGED <<node, root, reply>>

(***************************************************************************)
(* checkSizeUpper, with trySpill and split.                                *)
(***************************************************************************)
SizeMax(n) == IF node[n].isLeaf THEN LeafSizeMax ELSE NodeSizeMax
SizeMin(n) == IF node[n].isLeaf THEN leafSizeMin ELSE nodeSizeMin

HasLeft(n) == HasParent(n) /\ node[n].indexInParent > 0
HasRight(n) == HasParent(n) /\ node[n].indexInParent + 1 < Parent(n).size
Left(n) == Parent(n).entries[node[n].indexInParent - 1].P
Right(n) == Parent(n).entries[node[n].indexInParent + 1].P

TooLarge == pc = "upper" /\ size(node[at]) > SizeMax(at)

\* Mutant: a full sibling is spilled to.
SpillsAlways == HasLeft(at) /\ size(node[Left(at)]) <= SizeMax(at)

SpillsLeft == HasLeft(at) /\ size(node[Left(at)]) < SizeMax(at)
SpillsRight == HasRight(at) /\ size(node[Right(at)]) < SizeMax(at)

FitsAbove ==
  /\ pc = "upper"
  /\ size(node[at]) <= SizeMax(at)
  /\ ReturnRoot(root)
  /\ UNCHANGED node

SpillLeft ==
  /\ TooLarge
  /\ SpillsLeft
  /\ node' = MoveLeft(node, at)
  /\ ReturnRoot(root)

SpillRight ==
  /\ TooLarge
  /\ ~SpillsLeft
  /\ SpillsRight
  /\ node' = MoveRight(node, at)
  /\ ReturnRoot(root)

SplitRoot ==
  /\ TooLarge
  /\ ~HasParent(at)
  /\ LET newNode == Unused(node)
         halved == Halve(node, at, newNode)
         newRoot == Unused(halved)
     IN  /\ node' = AddRoot(halved, at, newNode, newRoot)
         /\ ReturnRoot(newRoot)

Split ==
  /\ TooLarge
  /\ HasParent(at)
  /\ ~SpillsLeft
  /\ ~SpillsRight
  /\ LET newNode == Unused(node)
     IN  node' = AddSibling(Halve(node, at, newNode), at, newNode)
  /\ at' = node[at].parent
  /\ UNCHANGED <<root, path, pc, call, leaf, before, delta, reply>>

(***************************************************************************)
(* checkSizeLower, with trySteal and merge.  A root that is left with one  *)
(* child is deleted, once its entry points to the child no more, and the   *)
(* child takes its place.                                                  *)
(***************************************************************************)
TooSmall ==
  /\ pc = "lower"
  /\ size(node[at]) < SizeMin(at)
  /\ HasParent(at) \/ (~node[at].isLeaf /\ size(node[at]) < 2)

\* Mutant: a sibling of minimal size is stolen from.
StealsAlways == HasLeft(at) /\ size(node[Left(at)]) >= SizeMin(at)

StealsLeft == HasLeft(at) /\ size(node[Left(at)]) > SizeMin(at)
StealsRight == HasRight(at) /\ size(node[Right(at)]) > SizeMin(at)

FitsBelow ==
  /\ pc = "lower"
  /\ ~TooSmall
  /\ ReturnRoot(root)
  /\ UNCHANGED node

StealFromLeft ==
  /\ TooSmall
  /\ StealsLeft
  /\ node' = MoveRight(node, Left(at))
  /\ ReturnRoot(root)

StealFromRight ==
  /\ TooSmall
  /\ ~StealsLeft
  /\ StealsRight
  /\ node' = MoveLeft(node, Right(at))
  /\ ReturnRoot(root)

MergeRoot ==
  /\ TooSmall
  /\ ~HasParent(at)
  /\ LET child == node[at].entries[0].P
         rest == Delete([node EXCEPT ![at].entries[0].P = nullptr], at)
     IN  /\ node' = [rest EXCEPT ![child].parent = nullptr, ![child].indexInParent = 0]
         /\ ReturnRoot(child)

MergeNodes ==
  /\ TooSmall
  /\ HasParent(at)
  /\ ~StealsLeft
  /\ ~StealsRight
  /\ LET idx == node[at].indexInParent
     IN  node' = Merge(node, node[at].parent, IF idx > 0 THEN idx - 1 ELSE idx)
  /\ at' = node[at].parent
  /\ UNCHANGED <<root, path, pc, call, leaf, before, delta, reply>>

Start == insertBlock \/ deleteBlock \/ setBit \/ access \/ rank1

Search == GoUp \/ TurnDown \/ Descend

UseLeaf == \/ AccessLeaf \/ RankLeaf \/ InsertInLeaf \/ DeleteInLeaf
           \/ SetLeavesBit \/ SetInLeaf

Count == UpdateCounters \/ BlockCounted \/ BitCounted

checkSizeUpper == FitsAbove \/ SpillLeft \/ SpillRight \/ SplitRoot \/ Split

checkSizeLower ==
  FitsBelow \/ StealFromLeft \/ StealFromRight \/ MergeRoot \/ MergeNodes

Run == Search \/ UseLeaf \/ Count \/ checkSizeUpper \/ checkSizeLower

Next == Start \/ Run

Spec == Init /\ [][Next]_vars

-----------------------------------------------------------------------------
(***************************************************************************)
(* What the nodes, the path and the local variables always are.            *)
(***************************************************************************)
Entries == [b : Nat, o : Nat, P : Nat]
Nodes == [isLeaf : BOOLEAN, parent : Nat, indexInParent : Slots,
          bv : Seq(BOOLEAN), size : 0..(NodeSizeMax + 1), entries : [Slots -> Entries]]
Nesbos == [node : Nat, index : Slots, size : Nat, bitsBefore : Nat, onesBefore : Nat]
Calls == [op : {"insertBlock", "deleteBlock", "access", "rank1"}, n : Nat,
          withPath : BOOLEAN]
         \cup [op : {"setBit"}, n : Nat, b : BOOLEAN, withPath : BOOLEAN]

TypeOK ==
  /\ DOMAIN node \in SUBSET (Nat \ {nullptr})
  /\ \A n \in DOMAIN node : node[n] \in Nodes
  /\ root \in DOMAIN node
  /\ path \in Seq(Nesbos)
  /\ pc \in {"idle", "up", "down", "count", "upper", "lower"}
  /\ call \in Calls \cup {NoCall}
  /\ at \in DOMAIN node \cup {nullptr}
  /\ leaf \in DOMAIN node \cup {nullptr}
  /\ before \in [b : Nat, o : Nat]
  /\ delta \in [b : {0, BlockSize, -BlockSize}, o : (-BlockSize)..1]

(***************************************************************************)
(* Every node in the tree is where its parent and its index say, every     *)
(* slot beyond the size is empty, and the root has no parent: the first    *)
(* part of validate() in TTreeTest.cpp, here also while a call runs.       *)
(***************************************************************************)
Linked ==
  /\ ~HasParent(root)
  /\ \A n \in Live : ~node[n].isLeaf =>
       \A i \in Slots :
         LET entry == node[n].entries[i]
         IN  IF i < node[n].size
             THEN /\ entry.P \in DOMAIN node
                  /\ node[entry.P].parent = n
                  /\ node[entry.P].indexInParent = i
             ELSE entry = EmptyEntry

(***************************************************************************)
(* The counters of an entry are the bits and ones of its child, but for    *)
(* the one entry updateCounters is about to reach: the other part of       *)
(* validate().  Spilling, stealing, splitting and merging keep them.       *)
(***************************************************************************)
Pending(n) == IF pc = "count" /\ n = at THEN delta ELSE NoDelta

CountersCurrent ==
  \A n \in Live : ~node[n].isLeaf =>
    \A i \in 0..(node[n].size - 1) :
      LET entry == node[n].entries[i]
      IN  /\ bits(node[entry.P]) = entry.b + Pending(entry.P).b
          /\ ones(node[entry.P]) = entry.o + Pending(entry.P).o

(***************************************************************************)
(* The sizes of a B+tree: validateSize() of TTreeTest.cpp.  While a call   *)
(* runs only the node it is working on may be one too large or one too     *)
(* small, which is what the extra slot of InternalNode and the extra block *)
(* of BitVector are for.  Leaves hold whole blocks.                        *)
(***************************************************************************)
Slack(n, op) ==
  IF /\ call.op = op
     /\ \/ pc = "count" /\ n = leaf
        \/ pc \in {"upper", "lower"} /\ n = at
  THEN 1 ELSE 0

SizesInBounds ==
  \A n \in Live :
    /\ size(node[n]) <= SizeMax(n) + Slack(n, "insertBlock")
    /\ n # root => size(node[n]) >= SizeMin(n) - Slack(n, "deleteBlock")
    /\ (n = root /\ ~node[n].isLeaf) => size(node[n]) >= 2 - Slack(n, "deleteBlock")
    /\ Len(node[n].bv) % BlockSize = 0

(***************************************************************************)
(* The path the caller keeps from call to call leads from the root towards *)
(* a leaf, and its sizes and sums are those of the tree as it is now, when *)
(* findLeaf2 uses it.                                                      *)
(***************************************************************************)
PathUsed == pc \in {"idle", "up", "down"} \/ call.op = "setBit"

PathEnd == node[Top.node].entries[Top.index].P

PathCurrent ==
  PathUsed =>
    /\ path # <<>> => path[1].node = root
    /\ \A i \in DOMAIN path :
         LET x == node[path[i].node]
             above == IF i = 1 THEN [b |-> 0, o |-> 0]
                      ELSE [b |-> path[i - 1].bitsBefore, o |-> path[i - 1].onesBefore]
         IN  /\ path[i].index < x.size
             /\ path[i].size = x.entries[path[i].index].b
             /\ path[i].bitsBefore = above.b + BitsBelow(x, path[i].index)
             /\ path[i].onesBefore = above.o + OnesBelow(x, path[i].index)
             /\ i < Len(path) => path[i + 1].node = x.entries[path[i].index].P
    /\ (pc = "idle" /\ path # <<>>) => node[PathEnd].isLeaf
    /\ (pc = "down" /\ path # <<>>) => /\ PathEnd = at
                                       /\ before = [b |-> Top.bitsBefore, o |-> Top.onesBefore]

(***************************************************************************)
(* The search ends in a leaf that holds what the operation needs: the bit, *)
(* or the whole block it deletes.  On the way findChild never throws.      *)
(***************************************************************************)
LeafHoldsPosition ==
  pc = "down" =>
    LET offset == call.n - before.b
        needed == CASE call.op \in {"access", "setBit"} -> 1
                    [] call.op = "deleteBlock" -> BlockSize
                    [] OTHER -> 0
    IN  /\ offset >= 0
        /\ offset + needed <= bits(node[at])

=============================================================================
