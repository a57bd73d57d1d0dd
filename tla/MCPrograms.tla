----------------------------- MODULE MCPrograms -----------------------------
(* Instances of Programs for TLC. *)
EXTENDS Programs

\* The matrix has 16 rows: the first file makes it grow, and so does the fourth,
\* before it has an edge.  The last two fill it, and the very last names the vertex
\* made up front, whose edge (16, 1) is then (0, 1).
MCFiles ==
  {[input |-> << <<0, 1>>, <<3, 0>>, <<16, 2>>, <<3, 3>> >>,
    neg |-> << <<2, 2>>, <<17, 0>> >>, pos |-> << <<3, 0>>, <<16, 2>> >>, nodes |-> 17],
   [input |-> << <<1, 0>>, <<1, 0>> >>,
    neg |-> << <<1, 0>>, <<0, 1>> >>, pos |-> << <<1, 0>> >>, nodes |-> 3],
   [input |-> << <<0, 2>> >>, neg |-> << <<4, 0>> >>, pos |-> <<>>, nodes |-> 2],
   [input |-> << <<16, 1>> >>, neg |-> <<>>, pos |-> << <<16, 1>> >>, nodes |-> 0],
   [input |-> <<>>, neg |-> <<>>, pos |-> <<>>, nodes |-> 1],
   [input |-> << <<15, 0>> >>, neg |-> << <<14, 1>> >>, pos |-> << <<15, 0>> >>, nodes |-> 2],
   [input |-> << <<15, 0>>, <<0, 1>> >>,
    neg |-> << <<16, 1>> >>, pos |-> << <<0, 1>> >>, nodes |-> 2]}

RandomEdges == {<< <<0, 2>> >>, << <<0, 0>>, <<2, 1>>, <<4, 2>> >>,
                << <<0, 7>>, <<1, 1>>, <<3, 2>>, <<7, 3>>, <<7, 7>> >>}

MCScripts ==
  {S!insertOneEntry, S!insertTwoEntries,
   S!errorShouldBeThrown, S!findNoEdge, S!find1PosEdge, S!findSecondBlockPosEdge,
   S!findOuterCorners, S!findCenter, S!increaseTableSizeAfterAddingAnEdge,
   S!addAndDeleteLeftCornerEdge, S!addAndDeleteSingleEntry,
   S!addAndDeleteLeftmiddleEdgeOthersStayTrue, S!LargeRandomTest(12, 72),
   S!reportAllEdgesEmptyMatrixNoEdgesException, S!reportAllEdges1Edge,
   S!reportAllEdgesOneAAllB, S!reportAllEdgesOneBAllA,
   S!addAndDeleteLeftmiddleEdgesOthersStayTrue,
   S!addEdgeAfterDeletingEdgeGivesDeletedEdge,
   S!addEdgeAfterDeletingMultipleEdgesGivesDeletedEdgeWithLowestIndex}
  \cup {S!graphWithXEntriesRandomSet(8, edges) : edges \in RandomEdges}
  \cup UNION {{S!graphWithXEntriesRandomDeleteAndFind(8, edges, edges[i][1]) :
                 i \in DOMAIN edges} : edges \in RandomEdges}

Pairs == (0..2) \X (0..2)

MCLargeTests == {[size |-> 3, script |-> S!largeTest(edges)] :
                   edges \in Pairs \X {<<2, 0>>, <<1, 2>>} \X Pairs}

MCTreeTests ==
  {TS!AccessSetBit, TS!InsertDelete, TS!BPlusTest0(52), TS!BPlusTest1(32, 8, 3),
   TS!BPlusTest2(32, 8, 3), TS!BPlusTest3}

NoArcs == {}
=============================================================================
