# A verification of dk2tree

dk2tree keeps a dynamic directed graph in compressed form: the adjacency matrix
is a k^2-tree whose bits are stored in two B+trees that can insert and delete
blocks of bits. This directory models the program in TLA+, checks the models
with TLC on small instances, and proves theorems about them with TLAPS.

## The system

The program is single-threaded, keeps nothing on disk and has no callbacks. What
is hard about it is index arithmetic over data that moves: positions that are
computed, held across recursive calls, and used after blocks before or behind
them were inserted or deleted.

| part | state | operations | talks to |
|---|---|---|---|
| `DKTree` (DKTree.cpp, DKTree.h) | `ttree`, `ltree`, `freeColumns`, `firstFreeColumn`, `matrixSize`, finger paths `tPath`, `lPath` | `addEdge`, `removeEdge`, `reportEdge`, `reportAllEdges`, `insertEntry`, `deleteEntry`, constructors, `withSize` | calls `access`, `setBit`, `rank1`, `insertBlock`, `deleteBlock`, `bits` of both trees |
| `TTree` (TTree.cpp, TTree.h) | a B+tree of nodes; leaves hold up to 252 bits; each entry of an internal node counts the bits `b` and ones `o` below it | the same bit vector operations, by splitting, spilling, stealing and merging nodes | `BitVector` in the leaves; the caller's path of internal nodes |
| `LTree` (LTree.cpp, LTree.h) | as `TTree`, without the counters of ones | as `TTree`, without `rank1` | `BitVector` |
| `BitVector` (BitVector.h) | an array of 64-bit words and a length | `get`, `set`, `rank1`, `rangeRank1`, `insert`, `append`, `erase` | - |
| parameters (parameters.cpp) | `k`, `BLOCK_SIZE`, `B`, `nodeSizeMax/Min`, `leafSizeMax/Min` | - | all of them |
| loader (MakeGraphFromFile.cpp) | a counter of vertices | reads pairs, calls `insertEntry` and `addEdge` | `DKTree` |
| programs and tests | the input files | `main` loads a graph, adds, removes and reports edges and deletes the tree; unit tests; `validate()` and `validateSize()` of TTreeTest.cpp state what a B+tree must satisfy | all of them |

What makes each part correct:

- `DKTree`: the two vectors taken together are the level-order listing of the
  k^2-tree of exactly the edges that were added and not removed; a vertex that is
  handed out has no edges; every operation acts as one atomic step on a graph.
- `TTree`, `LTree`: the concatenation of the leaves is the bit vector the
  operations describe, the counters are those of the subtrees, and the sizes of
  the nodes stay within the limits of a B+tree.
- loader and `main`: the graph has exactly the edges of the lines read, no vertex of
  the input has to do without a row, each answer is the one the files call for, and
  what is deleted at the end is every node of the trees, once.
- `BitVector`: the operations on words are the operations on the sequence of
  bits, whatever the bits beyond the length are, and ranks are counts of ones.

## The modules

| module | what it is |
|---|---|
| `AbstractGraph` | a directed graph on live vertices with atomic operations: what `DKTree` promises its clients, with a `removeEdge` that refuses absent vertices (`ChecksRemoval`, as DKTree.h:72 says) or accepts any (as the code does) |
| `DKTree` | `DKTree.cpp`: the calls as sequences of steps, the invariants of the vectors alone |
| `DKTreeGraph` | the graph decoded from the vectors (a history variable), its layout, the refinement to `AbstractGraph` in both versions, termination |
| `DKTreeClient` | a history of what clients asked for, and sentences of `DKTree.h` that the code does not keep |
| `BitSequence` | one sequence of bits with atomic operations: what a B+tree promises `DKTree` |
| `BPlusTree` | `TTree.cpp` as a heap of nodes: searches with the caller's path, counters, spilling, stealing, splitting, merging; its invariants |
| `TTree` | what the tree contains, the refinement to `BitSequence`, balance, termination |
| `LTree` | `LTree.cpp`: the same tree with `CountsOnes = FALSE`, under the names of its functions |
| `DKTreeTrees` | `DKTree` on top of a `TTree` and an `LTree`: the calls each step makes of the trees, with `tPath` and `lPath` |
| `Tests`, `TTreeTests` | the tests of DKTreeTest.cpp, LargeGraphTest.cpp and TTreeTest.cpp as scripts of calls and assertions |
| `Programs` | `main`, the loader and the tests on top of `DKTreeTrees`, from the constructor to the destructor |
| `BitStrings` | two sequences of bits: what `BitVector` promises a leaf and its sibling |
| `BitVector` | `BitVector.h`: shifts, masks and counts on words, and the refinement to `BitStrings` |
| `MC...` | instances for TLC |
| `DKTreeLemmas` | lemmas: powers of k, the bit vector operators, slices; type correctness of `DKTree` |
| `DKTreeProofs` | the theorems about the invariants of `DKTree` |
| `DKTreePartitions` | lemmas: the blocks of the vectors and the parts of the matrix they stand for, the edges they hold, and what setting bits and inserting or deleting blocks does to these |
| `DKTreeGraphProofs` | the theorems about `DKTreeGraph`: `DKTree` implements `AbstractGraph` |
| `TTreeHeaps`, `TTreeSplits` | lemmas: sums and counts of blocks; what each operator on the heap of nodes does to a tree |
| `TTreeProofs` | the theorems about the invariants of `BPlusTree`, balance and the measure of a call |
| `TreeVectors` | the bits the leaves spell; `TTree` implements `BitSequence`; `LTree` implements `BPlusTree`, has its invariants, and implements `BitSequence` |

### How `DKTree` corresponds to the code

`ttree` and `ltree` are sequences of Booleans: the B+trees are used as the bit
vectors they promise to be. Positions stay 0-based. `freeColumns`,
`firstFreeColumn` and `matrixSize` are the fields of that name. The finger paths
are left out here: they are an index into the B+trees, and `DKTreeTrees` has them.

A call is a sequence of steps, one per iteration of a loop or level of a
recursion; `pc` says where it is, `call` which one it is, and `reply` holds what
it returned until the next call begins.

| `pc` | code |
|---|---|
| `traverse` | the loop of `traverseToFirst0OrEndOfTTree`, for `addEdge` and `reportEdge` |
| `extend` | the loop of `addEdge` after it has set the first 0 |
| `remove`, `prune` | `deleteThisEdge` on the way down, `deleteTTreeEdge` on the way back |
| `collect` | the loop of `deleteEntry` that erases the free columns from `allOthers` |
| `deleteRow`, `deleteColumn` | the two calls of `deleteEdges` |
| `find` | `findAllEdges` |

`iteration` and `position` are the local variables of `addEdge` and
`reportEdge` (and the loop counter of `deleteEntry`). `frames` is the stack of
activations of a recursive function. A frame holds the rows and columns of its
`VectorData` as the slices they denote, `firstAt`, the loop's `offset` and
`only0s`; its `iteration` is its depth. `Slices` is `splitEntriesOnOffset`: the
slice of an offset begins at the first entry with that offset and ends where the
next begins, exactly as the code computes it, also for vectors that are not
sorted. `sort` and `unique` are modelled by their result. `findings` is the vector of
that name, in the order in which edges are pushed: `LeafEdges` are the edges the two loops of
`findEdgesInLTree` meet, and `Listed` puts them in the order of the loops.

An access outside a vector reads 0 and a write there does nothing;
`PositionsInRange` says that no step of the passing runs ever makes one. In a
matrix of side 1 or k the program does index below 0 (deleteEdges computes
`firstAt - ttree->bits()`); such matrices appear in one run only, whose
counterexample ends at the exception the code throws before any such access.

### How `DKTreeTrees` corresponds to the code

The module has the variables of `DKTreeGraph`, those of a `TTree` and those of an
`LTree`. Each step of `DKTree` is conjoined with the calls of the trees that the
code makes in it, in their order, with the conditions that skip some: a loop that
stops at the first 1 reads no further, a block is deleted only if it is empty, a
call that throws makes no calls after it. They go to the list `todo`, and the
trees work them off, one step of a tree at a time, before the next step of
`DKTree`. A read in `todo` carries the answer `DKTree` has acted on, and
`AnswersAgree` compares it with what the tree returns. A call that a tree does not
accept (a position behind its end) never begins, and the deadlock check finds it.

The reads that only compute positions from `bits()` make no call in `todo`:
`bits()` changes nothing, and `VectorsAgree` says that it is the length of the
vector. The block in `ttree` that the constructor inserts is the first entry of
`todo`.

### How `Programs` corresponds to the code

`phase` is the loop the program is in, `line` the next line of the file that
loop reads (or the next of the ten rounds of `reportAllEdges`). A file is the
sequence of pairs that `>>` reads. `LoadVertex` is an iteration of the inner
loop of the loader, `LoadEdge` the call after it. An exception reaches no handler in `main`,
so the program is aborted; a test catches the one it waits for. `expected` holds
the fields the reply must have: what a test asserts, or for `main` what its files
say. A test is the sequence of its calls. What `reportAllEdges` finds is compared as the
test does it: entry by entry in the order in which it was found, where the test asserts
that (`edges`), and sorted, where the test sorts it first or compares it in any order
(`sorted`, which `GraphReply` adds to the reply; `main` only prints the edges). The
tests of `TTree` use a tree without a path (`findLeaf` with nullptr) and the
constructor that takes a size, and what they ask of `validate` is in the invariants
of `BPlusTree`.

`Freed` lists what `delete` frees, in order: the children in every slot of an
internal node, also those beyond its size, and then the node.

### How `BPlusTree`, `TTree` and `LTree` correspond to the code

`node` is the heap: a function from the addresses in use to nodes. A node is a
record with the fields of `TTree` and of both variants of its union. `root` and
`path` belong to the caller: `DKTree` keeps a pointer to each tree and one path
per tree, and its wrappers (DKTree.cpp:553-583) install the root that an insertion
or deletion returns and clear the path; that is `ReturnRoot`. The path is kept
after a search, a read or a `setBit`, so that the next search begins where the
last one ended.

| `pc` | code |
|---|---|
| `up` | the first loop of `findLeaf2`, up the path |
| `down` | the second loop, with `findChild`; then what the operation does in the leaf |
| `count` | `updateCounters`; for `setBit` then the loop that changes the path |
| `upper` | one activation of `checkSizeUpper`, with `trySpill` and `split` |
| `lower` | one activation of `checkSizeLower`, with `trySteal` and `merge` |

`findChild` throws a `range_error` for a position behind the last bit. The model
has no step for it: the runs check for deadlock, and so show that it never
happens. The helpers that change nodes (`InsertEntry`, `moveLeftLeaf`,
`HalveInternal`, `MergeLeaf`, ...) are functions of the heap, one per function of
the code. The leaf of a node is a sequence of bits here: its words are the
subject of `BitVector`. `new` returns the smallest address that is not in use;
`TreeView` tells states apart by the tree alone, so addresses, nodes that were
leaked and `reply`, which no step reads, do not multiply states. Properties of
steps are checked on every step all the same.

`setBit` adjusts the sums of the entries of the path that begin behind the bit.
Since the path has just been used to find the bit, there is never such an entry:
the loop changes nothing, and the mutant `BitCountedInclusive` shows what a
wider condition would do.

`LTree.cpp` is a copy of `TTree.cpp` without the counters of ones: its `setBit`
ends in the leaf, and it has no `rank1`. `LTree` extends `TTree`, assumes
`CountsOnes = FALSE`, names the functions of that file (with the ending `Ltree` where
`TTree.cpp` has the same name) and maps each to the actions it shares; its specification
is `SpecLtree`.

### How `BitVector` corresponds to the code

A word is a number below 2^W, its highest bit the first; `shl` drops what leaves
the word. `insert` and `erase` are the functions of the code: split the first
word, move by whole words, move by bits, join, `recompute`. Two vectors, `left`
and `right`, are used as a leaf and its sibling use them; each action cites the
call it stands for. Where the code would read or write the word after the array
(`erase` at the end of a full vector, BitVector.h:227, which `splitLeaf` of a full
leaf makes) it reaches the counts of the same vector and writes back what it read;
the model leaves the vector as it is.

## The runs

| run | instance | properties | result |
|---|---|---|---|
| `grow` | k = 2, 4 x 4 with vertices 0..2, up to 6 vertices (8 x 8), 7 arcs, 4 queries | all invariants, `FailedCallsChangeNothing`, `ImplementsGraph`, `CallsReturn` | pass, 123,518 states |
| `deep` | 16 x 16 with 9 vertices, 7 arcs, 3 vertices to delete, 2 queries | `FramesCurrent`, `LayoutOfGraph`, `ImplementsGraph` | pass, 41,027 states |
| `leaves` | blocks of 2 bits, leaves of 2 to 3 blocks, nodes of 2 to 3 children, up to 10 blocks, at most one 1, every position read and written | `TypeOK`, `Linked`, `CountersCurrent`, `SizesInBounds`, `PathCurrent`, `LeafHoldsPosition`, `Balanced`, `ImplementsVector`, `CallsAdvance` | pass, 307,347 states |
| `levels` | blocks of 1 bit, leaves of one block, up to 9 blocks: three levels of internal nodes | `Linked`, `CountersCurrent`, `SizesInBounds`, `Balanced`, `ImplementsVector` | pass, 121,046 states |
| `ltree` | blocks of 2 bits, leaves of 1 to 2 blocks, up to 8 blocks | `CountersCurrent`, `LeafHoldsPosition`, `ImplementsVector` | pass, 356,106 states |
| `words` | vectors of three words of four bits, in blocks of 2, at most one 1 inside and one beyond the length | `RanksAreCounts`, `ImplementsStrings` | pass, 53,361 states |
| `trees` | k = 2, 8 x 8 with 8 vertices, up to 10 (16 x 16), 5 arcs, 2 vertices to delete, one query; leaves of one block, nodes of up to 3 children | `VectorsAgree`, `AnswersAgree` | pass, 254,022 states |
| `programs` | 7 inputs of `main`, 162 choices of pairs in `largeTest`, the tests of DKTreeTest.cpp and TTreeTest.cpp; leaves of three blocks | `LoadedSoFar`, `InsideMatrix`, `RepliesAsExpected`, `DestructorsFreeAll`, `ProgramEnds` | pass, 50,578 states |
| `spare` | 4 x 4 full, clients name any vertex they were given | `ReportEdgeIsRight` | violation |
| `absent` | 4 x 4 with vertices 0..2, the arcs (0,1) and (1,3) | `ImplementsHeader` | violation |
| `power1` | the 2 x 2 matrix of `withSize(2)` | `AddEdgeThrowsOnlyIfAbsent` | violation |
| `stale` | as `words`, with inserts of two words | `InsertedBitsAreZero` | violation |

The passing runs of `DKTree` have `WithinMatrix = TRUE`: clients name only vertices below
`matrixSize`. `spare` shows why the refinement needs that. `InsideMatrix` shows that
the tests and the loader keep to it: the loader makes one vertex more than the file
names, up front, so the matrix grows before the last vertex of the file needs a row.
The vertex made up front may itself be without a row (16 vertices in the file fill
the 16 x 16 matrix), and `main` can be asked for it: its files of negative and of
positive edges may hold any number. `programs` therefore has `WithinMatrix = FALSE`
and files that do so. The program then reads and writes at vertex 0, as in `spare`: with
one of the inputs `main` adds (16, 1), removes it, and finds that (0, 1), an edge of the
input, has gone. What `main` answers then is no longer what its files say, so
`RepliesAsExpected` leaves out the inputs that name a vertex without a row, in one of the
two files or among the nodes of the last report, once they are loaded (`NamesRowless`);
the other properties of the run hold for them too.

What the properties say:

- `ColumnsInOrder`: `freeColumns` is strictly ascending and below
  `firstFreeColumn`, which is at most one past the matrix.
- `BlockPerOne`, `PositionsInRange`: the number of blocks is one more than the
  number of ones in `ttree` except while a call is between a bit and its block,
  and every position about to be used is inside the vectors.
- `LevelsAgree`: the code tells `ttree` from `ltree` in two ways, by the
  position in `deleteThisEdge` and in the traversal, by the partition size in
  `addEdge`, `deleteEdges` and `findAllEdges`. They always agree.
- `FramesCurrent`: the positions held by the activations of the recursions are
  still those of their nodes after deeper activations deleted blocks.
- `LayoutOfGraph`: between calls the vectors are a function of the graph and the
  height alone, with no all-zero block below the root.
- `UnusedRowsAreEmpty`: no edge touches a vertex that is not in use.
- `FailedCallsChangeNothing`: a call that throws changed nothing.
- `ImplementsGraph`: every call acts at its last step as the operation of
  `AbstractGraph`, and no other step is visible. `graph` is the matrix decoded
  from the vectors whenever no call runs, `live` are the vertices below
  `firstFreeColumn` that are not in `freeColumns`. Calls on vertices that are not live
  are refused, but for `removeEdge`, which returns (`ChecksRemoval` is FALSE).
  `reportAllEdges` lists each edge that was asked for once, in any order.
- `ImplementsHeader`: the same with `ChecksRemoval` TRUE, as DKTree.h has it.
- `CallsReturn`: every call ends.
- `Linked`, `CountersCurrent`, `SizesInBounds`: what `validate()` and
  `validateSize()` of TTreeTest.cpp check after a test, here at every step: the
  links of nodes, the counters but for the one entry still to be counted, the
  sizes but for the one node the call is working on. The slot and the block that
  the code allots beyond the maxima are never exceeded.
- `PathCurrent`: the path the caller keeps is a path of the tree as it is, with
  the sums of the tree as it is.
- `LeafHoldsPosition`: the search ends in the leaf that holds the bit, or all of
  the block to be deleted; no block lies across two leaves.
- `Balanced`: all leaves are at one depth.
- `ImplementsVector`: each operation acts in its leaf as the operation of
  `BitSequence`, and no step of searching, counting or balancing changes the
  sequence the leaves spell.
- `CallsAdvance`: each step of a call comes closer to its end, by a measure that is
  a natural number: phases in their order and, within a phase, the length of the
  path, the height or the depth of the current node. With no deadlock, a call
  that keeps taking steps returns; this needs no liveness check.
- `VectorsAgree`, `AnswersAgree`: when their calls are done, the two B+trees hold the
  vectors `DKTree` takes them for, and every bit and rank found along the path kept
  from earlier calls is the one `DKTree` has acted on.
- `LoadedSoFar`: while the file is read, the graph has exactly the edges of the lines
  read so far, repeated lines included.
- `InsideMatrix`: every vertex a test names, and every vertex in a line of an input
  file, has a row in the matrix when it is named.
- `RepliesAsExpected`: every reply is the one the files of `main` call for, as long as
  they name no vertex without a row, or what the test asserts, the order of findings
  included where it asserts that; an exception comes exactly where one is expected.
- `DestructorsFreeAll`: whenever the program could delete a tree, the destructors free
  each of its nodes once. (The nodes that merges leak are no longer in the tree.)
- `ProgramEnds`: every program comes to its end.
- `RanksAreCounts`, `ImplementsStrings`: the words of a leaf behave as the sequence
  of bits, and its ranks, by counts of words and by masks, are counts of ones.

### Bounds, and why they are enough

`MaxVertices = 6` with `Sizes = {3}` lets the matrix grow once, from two levels
to three, with the matrix empty, with edges in the first partition only, and with
edges elsewhere. The arcs of `grow` share blocks of the last level (0,0 and 0,1),
share only the root (1,3 and 3,2), and use the new part of the matrix (4,0; 2,4;
4,5), so that blocks appear and disappear at every level. `deep` has four levels:
a deletion can empty blocks at three levels of `ttree` while activations above
hold positions, and vertices 0, 7 and 8 have rows and columns in different
partitions. The queries have unsorted vectors with doubles, a vector with a
vertex that may be deleted, and an empty one. All bounds are CONSTANTS named in
the configurations.

The B+trees have the real `nodeSizeMax = 3` and smaller leaves. `leaves` has leaves
of an odd size as the program has (63 blocks), so that a full leaf splits into
equal halves; `ltree` has an even size, where the middle falls inside a block and
has to be rounded. Ten blocks make trees of two levels of internal nodes with
every kind of step on leaves. In `levels` leaves hold one block, so every insertion
splits or spills and nine blocks reach three levels: internal nodes spill,
steal, split and merge below the root, to both sides. One 1 suffices to tell
apart where bits are moved to, since it may be at any position.

In `trees` leaves hold one block, so a tree of a few blocks has two levels of
internal nodes and each path two entries; the 8 x 8 matrix has two levels in
`ttree`, and the tenth vertex makes it grow, with and without edges.

`programs` runs each program once: a program has one behaviour. The files of
`main` make the matrix grow before and after it has edges, repeat an edge, have
negative edges that are also in the input, name vertices that exist nowhere, the
vertex made up front, and ask for no vertex at all or too many. `Rounds` is the 10
of the source. Leaves of three blocks make trees of several levels out of few
blocks, so the large tests are run with smaller parameters: `LargeRandomTest` with
12 vertices and 72 edges (100 and 5000), the random graphs with 8 vertices (1000)
and three choices of edges, each deletion they may draw included, `BPlusTest0`
with 52 bits (51200), `BPlusTest1` and `BPlusTest2` with 32 blocks, checks every 8 and
ones every 3 (1024, 32 and 17), `largeTest` with 3 vertices and two edges. The
others have the parameters of the source.

Three words of four bits make a first, a middle and a last word, and blocks of two
bits that lie at the beginning and the end of words.

### Fairness

`FairSpec` adds `WF_vars(Step)`: a call that has begun takes its next step. The
program is one thread that executes the call to its end, so nothing can keep a
step from being taken. Nothing is assumed of the clients. `PSpec` assumes the same of
a program, `main` included: it is one thread, which runs until it returns or is
aborted; that the files are finite is in `Files`.

### What the violations show

- `spare` (DKTree.cpp:155): `insertEntry` grows the matrix when
  `firstFreeColumn > matrixSize`, one vertex late. Vertex `matrixSize` has no
  row of its own: its edges are read and written at vertex 0 modulo the matrix,
  and become edges of vertex 0 for good when the matrix grows.
- `power1` (DKTree.cpp:494): the constructors put a root block into `ttree`
  whatever the power, so a matrix with one level has it in the wrong tree:
  `addEdge` changes both trees and then throws "partition size is 0".
- `absent` (DKTree.cpp:80): `removeEdge` does not call `checkArgument`. DKTree.h:72 says
  "@throws illegal argument exception if row or column is not present in the matrix";
  with vertices 0, 1 and 2, `removeEdge(1, 3)` returns. `ImplementsGraph` therefore
  compares the code with a graph whose `removeEdge` accepts any vertex: nothing is
  changed then, since no edge touches a vertex that is not in use.
- `stale` (BitVector.h:232): an `erase` of more words than follow it leaves their
  ones beyond the length, and a later `insert` of whole words has them among the
  bits it inserts. The trees insert single blocks, whose zeros are shifted in, or
  overwrite what they insert, so they are not affected: `words` allows ones beyond
  the length and finds nothing wrong.

Seen while modelling, without a run of their own:

- `mergeLeaf` and `mergeInternal` say that they delete the right node ("Update the b
  and o for `left`, and delete `right`", TTree.cpp:648; "Delete the right child",
  TTree.cpp:623) and only take it out of its parent: the model's heap keeps it, outside
  the tree. LTree.cpp does the same. No answer depends on it.
- An `erase` at the end of a full vector reads and writes the word after the array
  (BitVector.h:227), as said above.
- `graphWithXEntriesRandomDeleteAndFind` reads `findings[i]` also when all findings have been
  compared (DKTreeTest.cpp:536), which is past the end, and takes a number modulo
  the number of edges, which may be 0. The scripts compare the sorted findings with
  the sorted edges and begin with at least one edge.

## What is proved

TLAPS checks every proof. The theorems about `DKTree` are for every `K >= 2`, every
choice of calls and every initial matrix; those of them that need the levels of the
tree leave out the smallest matrices (`TallMatrices`, below), and the two that are
about the graph ask of clients what the passing runs do (`Clients`, below). Those
about `BPlusTree` are for every block size, every maximum of at least three children
and one block, and every choice of calls, with and without a path. They assume only
the named assumptions of those modules.

### `DKTree`

- `TypeCorrect`: `Spec => []TypeOK`. `TypeOK` is not inductive: the offset
  of a descent is a natural number only if the partition sizes are positive, so
  `Typed` adds that the matrix is never empty, that levels count from 1, and that
  only `deleteEdges` has activations past their last offset. Each action has a
  lemma that it keeps `Typed`.
- `ColumnsStayInOrder`: `Spec => []ColumnsInOrder`. The strengthening
  `Ordered` adds that the vertex `deleteEntry` works on is still in use, from
  `checkArgument` to the step that frees it: that is why the push_back never makes
  a double and why lowering `firstFreeColumn` leaves no free column above it. The
  bound on `firstFreeColumn` rests on `K >= 2`: one growth makes room for two.
- `BlocksMatchOnes`, `PositionsStayInRange`, `TestsForTheLastLevelAgree` and
  `ActivationsStayCurrent`: `BlockPerOne`, `PositionsInRange`, `LevelsAgree` and
  `FramesCurrent` always hold, given `TallMatrices`.

The four follow from one inductive invariant, `SomeStructure`: there is a height `H` and
there are numbers `b[0] .. b[H]` of blocks such that level `d` of the matrix is the
blocks from `b[d - 1]` to `b[d] - 1` (`Levels`), and each level has as many blocks as
the level above has ones. That last equation is what a step breaks and a later step
mends, so it is owed at one level at a time: `addEdge` owes a block below the bit it
has just set (`pc = "extend"`), and the way back of a deletion owes a bit above the
block it has just deleted (`"prune"`). `OnPath` says that the activations on the stack
are on blocks of consecutive levels, each the block below the bit its caller is at, and
`ZerosAbove` that the bits a recursion found to be 0 still are. From this, every
position, its level, and the three tests for the last level follow by arithmetic, also
while blocks before and behind them are inserted and deleted.

`TallMatrices` says that the initial power is at least 2, or the initial size more than
`K`. It is not a convenience: with a matrix of side 1 or k the constructor puts the
root block into the wrong tree, and the four properties fail (run `power1`). No bound of
the runs is assumed for these four, `WithinMatrix` neither.

### The refinement of `AbstractGraph`

- `FailedCallsLeaveTheGraph` (`FailedCallsChangeNothing`, given `TallMatrices`): the
  only steps that throw are the first steps of calls (`Unanswered`: a call that runs
  has no reply yet, and a later throw would need a partition of size 0, which
  `SomeStructure` excludes), so nothing has been changed by then.
- `DeletedVerticesLeaveNoEdges` (`UnusedRowsAreEmpty`) and `TreeImplementsGraph`
  (`ImplementsGraph`), given `TallMatrices` and `Clients`.

`Clients` says that `WithinMatrix` is TRUE, that the vertices given to `deleteEntry` are
below `MaxVertices`, and that no constructor is asked for more. The first is a
restriction of clients, and run `spare` shows what happens without it: a vertex that the
matrix has no row for, which `insertEntry` does hand out, shares the row of vertex 0.
The two others keep the graph among the vertices `AbstractGraph` has
(`0..(MaxVertices - 1)`, for any `MaxVertices`); they restrict no behaviour of the code.
The runs `grow` and `deep`, which check `ImplementsGraph`, satisfy both hypotheses.

`DKTreePartitions` reads the two vectors, one after the other, as a list of blocks and
gives every block the part of the matrix it stands for: a level, and its row and column
among the partitions of that level (`Mapped`: the numbering is one to one, block 0
has the whole matrix, and each 1 of a block leads to the block of that part of its
partition). The edges the vectors hold are the bits of the blocks of the last level
(`Edges`), and `DecodeIsEdges` shows that this is what `Decode`, the history variable
`graph`, computes by recursion. Lemmas say what each change does: to set a bit of the
last level adds an edge, to clear it takes one away, to insert a block of zeros or to
delete one leaves the edges alone and moves the later blocks, and to grow puts a block
above a root that is not empty, whose part becomes the first of level 1.

`Holds` says that the vectors are such a listing of a given set of edges. The
inductive invariant `GraphInv` has, for each place a call can be, what they hold
then: `IdleHolds` and `TraverseHolds`, the graph; `ExtendHolds`, the graph, but for
a bit that is set and has no block below it yet; `RemoveHolds`, the graph, and the
activations are on the blocks above the edge; `PruneHolds`, the graph without the
edge, but for the bit above a block that has just been deleted; `CollectHolds`, the
graph, while the list of columns has the live vertices and the free ones still to be
erased from it; `DeleteHolds`, the graph without the edges of the row or column that
the recursion has passed; `FindHolds`, the graph, while `findings` has the edges
asked for among those it has passed, each of them once: no cell of the block that
`findEdgesInLTree` goes through has been passed before (`NotPassedYet`). A recursion
has `Passed` a cell if one of its activations is on a block above the cell, at an
offset beyond the cell's; it may skip an offset because the rows or columns of the call have none there (`PassLists`:
each activation has those that fall into its part) or because its bit is 0 and there
is no edge below it. `Asked` keeps the arguments as `checkArgument` found them,
`Inside` that every edge joins two live vertices, and firstFreeColumn is at most
`MaxVertices`.

So a call begins with `Consume` of `AbstractGraph`, its running steps are stutters, and
it acts once, when it returns, as the atomic operation of its name, with the same
reply; a call that throws is `Refuse`. The graph is the one whose `removeEdge` accepts
any vertex (`ChecksRemoval` is FALSE): run `absent` shows that the other one is not
implemented.

### `BPlusTree`

`TypeCorrect`, `TreeLinked`, `TreeCountersCurrent`, `TreeSizesInBounds`,
`TreePathCurrent` and `TreeLeafHoldsPosition` state the six invariants of the
module. They follow from one inductive invariant, `IInv`: there is a set `T` of
nodes with heights `h` that is a tree below the root (`Tree`), what is out of date in
it is what the current phase allows (`Shaped`: one counter in `count`, one size in
`upper` and `lower`, nothing else), and the path and the local variables lead where the
call needs to go (`Route`). `T` and `h` are bound by quantifiers rather than defined:
`h` cannot be defined without recursion, and the proof names them at each step (a
split adds a node to `T`, a merge takes one away). That `T` is the set of nodes that can
be reached is a lemma (`GoodLive`).

The heap is changed by small operators that tear a tree apart and mend it. Their
lemmas are about a `Forest`: trees with several roots `R`, of which the nodes in `N` have
entries that say nothing for the moment. `RemoveEntry` makes a root of a child,
`InsertEntry` takes a root in, `Place` brings a node of `N` back; `moveLeft`, `split`
and `merge` are sequences of these. For the counters the lemmas say how far each is
from what it counts (`SameGap`), so that they hold whether or not the counters are
right at the time, and the sizes are carried along by arithmetic on `SizeOf`.

`TreeBalanced` states `Balanced`, whose depths are a recursive function: the heights of
`IInv` make the depth of each leaf the height of the root. `TreeCallsAdvance` states
`CallsAdvance`, the property that each step lowers a measure that is a natural number:
since the steps of a call cannot go on for ever, this is the termination of every
operation, but for the deadlock TLC checks for.

`CountsOnes` is a constant of these proofs. `LTreeIsTree` shows that each step of
`LTree` is one of this tree, with FALSE for the constant, so that `LTree` has all these
invariants; `LTreeCountersCurrent` and `LTreeLeafHoldsPosition` state those its run checks.

### The refinement of `BitSequence`

`TreeImplementsVector` and `LTreeImplementsVector`: both trees implement the bit vector,
for every sequence of calls and every shape of the tree. The bits below a node are a
recursive function of its height; `TreeVectors` proves its equation and then works with
it alone. `Spot` and `Hole` say of a node what is spelled before it and after
it, so that changing what a node spells changes the sequence there and
nowhere else. The invariant `VInv` is `IInv` and `Reading`: what the call has added up on
its way down is the number of bits before the node it is at (`Held`, `Located`), so
that the leaf it ends in, and the position there, are those of the position asked for
(`Asked`). Steps that search, count, spill, steal, split or merge then keep the
sequence (a step of the model, a stutter of `BitSequence`), and the steps in a leaf
change it as the operation says. The entry whose counter is out of date in `count`
and the node whose size is out of bounds in `upper` and `lower` do not matter to it:
what a tree spells depends on its leaves and links alone.

### What is only model-checked

Liveness (`CallsReturn`, `ProgramEnds`); the composition (`DKTreeTrees`, `Programs`);
`RanksAreCounts` and `ImplementsStrings` of `BitVector`, whose words are numbers taken
apart by powers of two, which no installed prover reasons about; and
`LayoutOfGraph` of `DKTreeGraph`, the vectors bit for bit. `TreeImplementsGraph` needs,
and proves, which edges the vectors hold, but neither the order of the blocks within a
level nor that a call leaves no block of zeros below the root.
`VectorsAgree` and `AnswersAgree` of the composition are about the
instances of `TTree` and `LTree` inside `DKTreeTrees`: a theorem of a module is not
available to the prover under the substitutions of `INSTANCE`, so they would need the
proofs of `TreeVectors` a second and a third time.

`LongPow`, `SumBelow`, `Freed` and the functions for heights, spelled bits and decoded
blocks are recursive functions; that they satisfy their
equations is proved (`LongPowEquation`, `Sums`, `FreedTable`, ...), by the least
counterexample, since the induction theorems of the library cannot be used. A recursive
function is a `CHOOSE`, and the SMT backend of this version of tlapm takes an equation
with an expanded `CHOOSE` for the property chosen by, without asking that something
has it. No proof relies on that: such equations are proved by Zenon, and every other step
uses the equations by name.

## What is not modelled

- `DKTreeTrees` composes `DKTree` with its two B+trees as one model; the words of the
  leaves are composed by the abstract specification `BitStrings` only: with them,
  every bit of a leaf would be a variable of three modules.
- `height`, `depth` and `memoryUsage`, which change nothing and which no operation calls,
  and printing.
- The tests of BitVectorTest.cpp, which compare `BitVector` with a vector of bits as the
  run `words` does for every short sequence of operations; the tests of `sort`; the
  timers; googletest.
- `DKTree` ends a call only by returning or by throwing: running out of memory is not
  modelled.

## Plan

1. `DKTree` with its abstract graph (done).
2. `TTree` and `LTree` with the caller's path, `BitVector` (done).
3. Composition: `DKTree` over a `TTree` and an `LTree` with their paths (done).
4. The loader, `main` and the tests on top of it, with the destructors (done).
5. Proofs about `BPlusTree`: all its invariants (done).
6. Proofs about `DKTree`: the invariants of the vectors (done).
7. Proofs about `TTree` and `LTree`: the refinement of `BitSequence`, balance and the
   measure of a call (done).
8. Proofs about `DKTreeGraph`: the refinement of `AbstractGraph` (done).
