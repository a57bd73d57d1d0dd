------------------------------- MODULE Tests -------------------------------
(***************************************************************************)
(* The tests of DKTreeTest.cpp, and largeTest of LargeGraphTest.cpp, as    *)
(* scripts: the calls a test makes of its tree, each with what the test    *)
(* asserts of the reply.  `edges` are the findings of reportAllEdges in    *)
(* the order the code finds them in, `sorted` the findings where the test  *)
(* sorts them before it looks.  A test that asserts only the first of the  *)
(* findings is given them all.  Printing is left out.                      *)
(***************************************************************************)
EXTENDS Integers, Sequences

(***************************************************************************)
(* A step of a script: a call and the fields its reply must have.          *)
(***************************************************************************)
Anything == [x \in {} |-> x]
Throws == [throws |-> "invalid_argument"]

Calls(c) == <<[call |-> c, expect |-> Anything]>>
Asserts(c, expect) == <<[call |-> c, expect |-> expect]>>

insertEntry == [op |-> "insertEntry"]
deleteEntry(a) == [op |-> "deleteEntry", a |-> a]
addEdge(a, b) == [op |-> "addEdge", row |-> a, column |-> b]
removeEdge(a, b) == [op |-> "removeEdge", row |-> a, column |-> b]
reportEdge(a, b) == [op |-> "reportEdge", row |-> a, column |-> b]
reportAllEdges(A, B) == [op |-> "reportAllEdges", A |-> A, B |-> B]

Reports(a, b, edge) == Asserts(reportEdge(a, b), [edge |-> edge])

\* Loops: the script for each i in turn, for each element of s, for each cell.
Loop(lo, hi, body(_)) ==
  LET upTo[i \in (lo - 1)..hi] == IF i < lo THEN <<>> ELSE upTo[i - 1] \o body(i)
  IN  upTo[hi]

Inserts(n) == LET insert(i) == Asserts(insertEntry, [vertex |-> i - 1])
              IN  Loop(1, n, insert)

Each(s, do(_, _)) == LET one(i) == do(s[i][1], s[i][2]) IN Loop(1, Len(s), one)

Adds(s) == LET add(a, b) == Calls(addEdge(a, b)) IN Each(s, add)
AllReported(s) == LET report(a, b) == Reports(a, b, TRUE) IN Each(s, report)

UpTo(n) == [i \in 1..n |-> i - 1]   \* the vector 0, 1, ..., n - 1
-----------------------------------------------------------------------------
\* The numbers of the entries are not only different, as is asserted.
insertOneEntry == Inserts(1)
insertTwoEntries == Inserts(2)

errorShouldBeThrown ==
  Inserts(2) \o Reports(0, 1, FALSE) \o Asserts(reportEdge(0, 2), Throws)

findNoEdge == Inserts(2) \o Reports(0, 1, FALSE) \o Reports(1, 0, FALSE)

find1PosEdge ==
  Inserts(2) \o Calls(addEdge(0, 1)) \o Reports(0, 1, TRUE) \o Reports(1, 0, FALSE)

findSecondBlockPosEdge ==
  Inserts(5) \o Calls(addEdge(4, 4)) \o Reports(0, 4, FALSE) \o Reports(4, 4, TRUE)

Corners(a, b) == << <<a, a>>, <<a, b>>, <<b, a>>, <<b, b>> >>
CornersReported(a, b) == AllReported(<< <<a, a>>, <<a, b>>, <<b, a>>, <<b, a>> >>)

findOuterCorners == Inserts(16) \o Adds(Corners(0, 15)) \o CornersReported(0, 15)

findCenter == Inserts(16) \o Adds(Corners(7, 8)) \o CornersReported(7, 8)

increaseTableSizeAfterAddingAnEdge ==
  LET insert(i) == Asserts(insertEntry, [vertex |-> i])
  IN  Inserts(16) \o Calls(addEdge(0, 0)) \o Loop(16, 31, insert)
      \o Adds(Tail(Corners(0, 31))) \o CornersReported(0, 31)

addAndDeleteLeftCornerEdge ==
  Inserts(1) \o Calls(addEdge(0, 0)) \o Calls(removeEdge(0, 0)) \o Reports(0, 0, FALSE)

addAndDeleteSingleEntry ==
  Inserts(1) \o Calls(addEdge(0, 0)) \o Calls(deleteEntry(0))

addAndDeleteLeftmiddleEdgeOthersStayTrue ==
  LET insert(i) == Calls(insertEntry) \o Calls(addEdge(0, i))
      report(i) == Reports(0, i, i # 8)
  IN  Loop(0, 15, insert) \o Calls(removeEdge(0, 8)) \o Loop(0, 15, report)

\* n and m are 100 and 5000 in the source.
LargeRandomTest(n, m) ==
  LET step == (n * n) \div m
      add(i) == IF i % step = 0 THEN Calls(addEdge(i \div n, i % n)) ELSE <<>>
      check(i) == Reports(i \div n, i % n, i % step = 0)
                  \o Calls(removeEdge(i \div n, i % n))
  IN  Inserts(n) \o Loop(0, n * n - 1, add) \o Loop(0, n * n - 1, check)

reportAllEdgesEmptyMatrixNoEdgesException == Asserts(reportAllEdges(<<>>, <<>>), Throws)

reportAllEdges1Edge ==
  Inserts(1) \o Calls(addEdge(0, 0))
  \o Asserts(reportAllEdges(<<0>>, <<0>>), [edges |-> << <<0, 0>> >>])

reportAllEdgesOneAAllB ==
  LET edges == << <<6, 2>>, <<6, 5>>, <<6, 8>>, <<6, 13>> >>
  IN  Inserts(16) \o Adds(edges) \o AllReported(edges)
      \o Asserts(reportAllEdges(<<6>>, UpTo(16)), [edges |-> edges])

reportAllEdgesOneBAllA ==
  LET edges == << <<2, 6>>, <<5, 6>>, <<8, 6>>, <<13, 6>> >>
  IN  Inserts(16) \o Adds(edges) \o AllReported(edges)
      \o Asserts(reportAllEdges(UpTo(16), <<6>>), [edges |-> edges])

addAndDeleteLeftmiddleEdgesOthersStayTrue ==
  LET valid == <<0, 1, 2, 3, 4, 5, 7, 8, 9, 10, 11, 12, 13, 14, 15>>
  IN  Inserts(16)
      \o Adds(<< <<1, 2>>, <<1, 3>>, <<1, 4>>, <<2, 9>>, <<3, 0>>, <<3, 1>>, <<3, 6>>,
                 <<5, 7>>, <<5, 8>>, <<6, 2>>, <<6, 5>>, <<6, 8>>, <<6, 13>>, <<7, 6>>,
                 <<8, 6>>, <<9, 6>>, <<11, 4>>, <<13, 6>>, <<15, 6>> >>)
      \o Calls(deleteEntry(6))
      \o Asserts(reportAllEdges(valid, valid),
                 [edges |-> << <<1, 2>>, <<1, 3>>, <<3, 0>>, <<3, 1>>, <<1, 4>>, <<5, 7>>,
                               <<2, 9>>, <<5, 8>>, <<11, 4>> >>])

addEdgeAfterDeletingEdgeGivesDeletedEdge ==
  Inserts(16) \o Calls(deleteEntry(6)) \o Asserts(insertEntry, [vertex |-> 6])

addEdgeAfterDeletingMultipleEdgesGivesDeletedEdgeWithLowestIndex ==
  Inserts(16) \o Calls(deleteEntry(6)) \o Calls(deleteEntry(4))
  \o Asserts(insertEntry, [vertex |-> 4])

(***************************************************************************)
(* The random tests: x is 1000 in the source, and each pair is an edge     *)
(* with probability 1/100.  `edges` are the pairs that are, sorted, and    *)
(* the entry deleted is the row of one of them.                            *)
(***************************************************************************)
graphWithXEntriesRandomSet(x, edges) ==
  Inserts(x) \o Adds(edges)
  \o Asserts(reportAllEdges(UpTo(x), UpTo(x)), [sorted |-> edges])

graphWithXEntriesRandomDeleteAndFind(x, edges, entry) ==
  LET others == SelectSeq(UpTo(x), LAMBDA v : v # entry)
  IN  graphWithXEntriesRandomSet(x, edges) \o Calls(deleteEntry(entry))
      \o Asserts(reportAllEdges(others, others),
                 [sorted |-> SelectSeq(edges, LAMBDA e : entry \notin {e[1], e[2]})])

\* The edges are the random pairs of largeTest, the last one the pair reported.
largeTest(edges) ==
  LET added == SubSeq(edges, 1, Len(edges) - 1)
      last == edges[Len(edges)]
  IN  Adds(added) \o Reports(last[1], last[2], last \in {added[i] : i \in DOMAIN added})
=============================================================================
