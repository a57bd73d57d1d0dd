------------------------------ MODULE Programs ------------------------------
(***************************************************************************)
(* The programs of the repository, on top of the whole tree: main.cpp with *)
(* the loader of MakeGraphFromFile.cpp, and the tests of modules Tests and *)
(* TTreeTests.  One step per iteration of their loops.  A program that     *)
(* does not catch an exception is aborted.                                 *)
(***************************************************************************)
EXTENDS DKTreeTrees, TLC

CONSTANTS
  Files,      \* the inputs of main: edge lists input, pos and neg, the number of nodes
  Rounds,     \* how often main reports all edges (10)
  Scripts,    \* the scripts of tests, each run on DKTree() and then deleted
  LargeTests, \* records of the size of a largeTest and its script
  TreeTests   \* records of the size of a TTree and the script of its test

S == INSTANCE Tests
SX == INSTANCE SequencesExt
TS == INSTANCE TTreeTests WITH BlockSize <- BLOCK_SIZE

VARIABLES
  file,      \* the input of main
  phase,     \* the loop the program is in
  line,      \* the next line of the file that is read, or the next round
  size,      \* local variable of the loader
  script,    \* what is left of a test
  expected   \* the fields the reply to the last call must have

programVars == <<file, phase, line, size, script, expected>>
pvars == <<allVars, programVars>>

Over == phase \in {"end", "treeEnd", "aborted"}

NoFile == [input |-> <<>>, pos |-> <<>>, neg |-> <<>>, nodes |-> 0]

PInit ==
  /\ line = 1 /\ size = 0 /\ expected = S!Anything
  /\ \/ /\ TreesInit /\ New(4) /\ phase = "new"
        /\ file \in Files /\ script = <<>>
     \/ /\ TreesInit /\ New(4) /\ phase = "test"
        /\ file = NoFile /\ script \in Scripts
     \/ \E test \in LargeTests :
          /\ TreesInit /\ WithSize(test.size) /\ phase = "largeTest"
          /\ file = NoFile /\ script = test.script
     \/ \E test \in TreeTests :   \* uses a TTree alone
          /\ GInit /\ New(4) /\ L!InitLtree /\ todo = <<>> /\ phase = "treeTest"
          /\ T!New([i \in 1..test.bits |-> FALSE])
          /\ file = NoFile /\ script = test.script

(***************************************************************************)
(* The program makes the call A when the one before has returned.          *)
(***************************************************************************)
Returned == Quiet /\ pc = "idle" /\ ~Over

Threw == "throws" \in DOMAIN reply

Invoke(A, expect) ==
  /\ Returned
  /\ Recorded(ClientCall(A))
  /\ expected' = expect
-----------------------------------------------------------------------------
(* makeGraphFromFile.                                                      *)

a == file.input[line][1]
b == file.input[line][2]

FirstVertex ==
  /\ phase = "new"
  /\ Invoke(InsertEntry, S!Anything)
  /\ phase' = "load"
  /\ UNCHANGED <<file, line, size, script>>

Loading == phase = "load" /\ line <= Len(file.input) /\ ~Threw

LoadVertex ==
  /\ Loading
  /\ a >= size \/ b >= size
  /\ Invoke(InsertEntry, S!Anything)
  /\ size' = size + 1
  /\ UNCHANGED <<file, phase, line, script>>

\* Mutant: the loader does not look at b.
LoadEdgeForRow ==
  /\ Loading
  /\ a < size
  /\ Invoke(AddEdge(a, b), S!Anything)
  /\ line' = line + 1
  /\ UNCHANGED <<file, phase, size, script>>

LoadEdge ==
  /\ Loading
  /\ a < size /\ b < size
  /\ Invoke(AddEdge(a, b), S!Anything)
  /\ line' = line + 1
  /\ UNCHANGED <<file, phase, size, script>>
-----------------------------------------------------------------------------
(* main.                                                                   *)

\* The vertices are 0..size: those of the file, and the one made up front.
Unless(vertices, expect) == IF vertices \subseteq 0..size THEN expect ELSE S!Throws

Edges(list) == {list[i] : i \in DOMAIN list}
Left == Edges(file.input) \ Edges(file.neg)

\* A line of the list in this phase is read, and the call made for it.
Reads(p, list) == phase = p /\ line <= Len(list) /\ ~Threw

NextLine == line' = line + 1 /\ UNCHANGED <<file, phase, size, script>>

AddNegative ==
  /\ Reads("addNeg", file.neg)
  /\ LET e == file.neg[line]
     IN  Invoke(AddEdge(e[1], e[2]), Unless({e[1], e[2]}, S!Anything))
  /\ NextLine

\* Mutant: the negative edges are added once more.
AddNegativeAgain ==
  /\ Reads("removeNeg", file.neg)
  /\ LET e == file.neg[line]
     IN  Invoke(AddEdge(e[1], e[2]), Unless({e[1], e[2]}, S!Anything))
  /\ NextLine

RemoveNegative ==
  /\ Reads("removeNeg", file.neg)
  /\ LET e == file.neg[line] IN Invoke(RemoveEdge(e[1], e[2]), S!Anything)
  /\ NextLine

Report(e) ==
  /\ Invoke(ReportEdge(e[1], e[2]), Unless({e[1], e[2]}, [edge |-> e \in Left]))
  /\ NextLine

ReportNegative == Reads("reportNeg", file.neg) /\ Report(file.neg[line])
ReportPositive == Reads("reportPos", file.pos) /\ Report(file.pos[line])

AllNodes == S!UpTo(file.nodes)

InAll == IF file.nodes = 0 THEN S!Throws
         ELSE Unless(Elements(AllNodes),
                     [sorted |-> SX!SetToSortSeq(
                                   Left \cap (Elements(AllNodes) \X Elements(AllNodes)), Before)])

\* Mutant: the rounds are not counted.
ReportForever ==
  /\ phase = "reportAll" /\ line <= Rounds /\ ~Threw
  /\ Invoke(ReportAllEdges(AllNodes, AllNodes), InAll)
  /\ UNCHANGED <<file, phase, line, size, script>>

ReportAll ==
  /\ phase = "reportAll" /\ line <= Rounds /\ ~Threw
  /\ Invoke(ReportAllEdges(AllNodes, AllNodes), InAll)
  /\ NextLine

\* The phases of main, how many lines each reads, and the phase after it.
Lines == [load |-> Len(file.input), addNeg |-> Len(file.neg), removeNeg |-> Len(file.neg),
          reportNeg |-> Len(file.neg), reportPos |-> Len(file.pos), reportAll |-> Rounds]
After == [load |-> "addNeg", addNeg |-> "removeNeg", removeNeg |-> "reportNeg",
          reportNeg |-> "reportPos", reportPos |-> "reportAll", reportAll |-> "delete"]

PhaseDone ==
  /\ phase \in DOMAIN Lines
  /\ Returned /\ ~Threw
  /\ line > Lines[phase]
  /\ phase' = After[phase]
  /\ line' = 1
  /\ UNCHANGED <<allVars, file, size, script, expected>>
-----------------------------------------------------------------------------
(* The tests, and the end of a program.                                    *)

Operation(c) ==
  \/ c.op = "insertEntry" /\ InsertEntry
  \/ c.op = "deleteEntry" /\ DeleteEntry(c.a)
  \/ c.op = "addEdge" /\ AddEdge(c.row, c.column)
  \/ c.op = "removeEdge" /\ RemoveEdge(c.row, c.column)
  \/ c.op = "reportEdge" /\ ReportEdge(c.row, c.column)
  \/ c.op = "reportAllEdges" /\ ReportAllEdges(c.A, c.B)

Testing == phase \in {"test", "largeTest", "treeTest"}

\* A test catches the exception it waits for; afterwards it is gone.
Uncaught == Threw /\ phase # "delete" /\ ~(Testing /\ expected = S!Throws)

TestCalls ==
  /\ phase \in {"test", "largeTest"} /\ script # <<>> /\ ~Uncaught
  /\ Invoke(Operation(Head(script).call), Head(script).expect)
  /\ script' = Tail(script)
  /\ UNCHANGED <<file, phase, line, size>>

\* A test of TTree calls it at any position, unlike DKTree.
TreeTestCalls ==
  /\ phase = "treeTest" /\ script # <<>> /\ Returned
  /\ T!Begin(Head(script).call)
  /\ todo' = Asked("ttree", Head(script).call)
  /\ expected' = Head(script).expect
  /\ script' = Tail(script)
  /\ UNCHANGED <<gvars, lvars, file, phase, line, size>>

\* largeTest returns its tree to the caller, and a test of TTree leaves its own.
TestDone ==
  /\ Testing /\ script = <<>>
  /\ Returned /\ ~Uncaught
  /\ phase' = [test |-> "delete", largeTest |-> "end", treeTest |-> "treeEnd"][phase]
  /\ UNCHANGED <<allVars, file, line, size, script, expected>>

Abort ==
  /\ Returned /\ Uncaught
  /\ phase' = "aborted"
  /\ UNCHANGED <<allVars, file, line, size, script, expected>>

DeleteTree ==
  /\ phase = "delete" /\ Returned
  /\ tNode' = T!Delete(tNode, tRoot)
  /\ lNode' = L!Delete(lNode, lRoot)
  /\ phase' = "end"
  /\ UNCHANGED <<gvars, tRoot, tPath, tPc, tCall, tAt, tLeaf, tBefore, tDelta, tReply,
                 lRoot, lPath, lPc, lCall, lAt, lLeaf, lBefore, lDelta, lReply, todo,
                 file, line, size, script, expected>>

Terminated == Over /\ UNCHANGED pvars

ProgramStep == \/ FirstVertex \/ LoadVertex \/ LoadEdge
               \/ AddNegative \/ RemoveNegative \/ ReportNegative \/ ReportPositive
               \/ ReportAll \/ PhaseDone
               \/ TestCalls \/ TreeTestCalls \/ TestDone \/ Abort \/ DeleteTree

TreeOfProgramStep == (Recorded(StepInTrees) \/ TreeStep) /\ UNCHANGED programVars

PNext == ProgramStep \/ TreeOfProgramStep \/ Terminated

\* A program is one thread that runs.
PSpec == PInit /\ [][PNext]_pvars /\ WF_pvars(ProgramStep \/ TreeOfProgramStep)
-----------------------------------------------------------------------------
(***************************************************************************)
(* While the file is read, the graph has exactly the edges of the lines    *)
(* read so far: "a DKTree containing exactly the edges specified by the    *)
(* file" (MakeGraphFromFile.cpp:15).                                       *)
(***************************************************************************)
LoadedSoFar ==
  phase = "load" /\ pc = "idle" => graph = {file.input[i] : i \in 1..(line - 1)}

(***************************************************************************)
(* The matrix has a row for every vertex of the input file that a call is  *)
(* about, and for every vertex a test names, though insertEntry hands out  *)
(* one more vertex than there are rows: the loader's first vertex keeps    *)
(* the matrix one vertex ahead of the file.  The files of negative and     *)
(* positive edges may name that vertex as well, which is in no line of the *)
(* input; it has no row while `size` is the side of the matrix.            *)
(***************************************************************************)
HasRow(v) == (Testing \/ v < size) => v < matrixSize

InsideMatrix ==
  /\ call \in EdgeCalls => HasRow(call.row) /\ HasRow(call.column)
  /\ frames # <<>> =>
       \A v \in Elements(frames[1].rows) \cup Elements(frames[1].columns) : HasRow(v)

(***************************************************************************)
(* Every reply is the one the program's input calls for: in main, the      *)
(* edges of the input file that are not in the file of negative edges, or  *)
(* an exception if there is no such vertex; in the tests, what they        *)
(* assert.  Main's input must not name the vertex made up front while that *)
(* has no row: its edges would be those of vertex 0 (run `spare`).         *)
(***************************************************************************)
NamesRowless ==
  /\ phase \notin {"new", "load"} /\ size >= matrixSize
  /\ \/ file.nodes > size
     \/ \E e \in Edges(file.neg) \cup Edges(file.pos) : size \in {e[1], e[2]}

\* What the tests look at in the reply: also the edges when they have sorted them.
GraphReply ==
  IF "edges" \notin DOMAIN reply THEN reply
  ELSE [call |-> reply.call, edges |-> reply.edges, sorted |-> SortSeq(reply.edges, Before)]

TreeReply ==
  [x \in DOMAIN tReply \cup {"bits"} |-> IF x = "bits" THEN T!bits(tNode[tRoot]) ELSE tReply[x]]

RepliesAsExpected ==
  Quiet /\ pc = "idle" /\ ~NamesRowless =>
    LET answer == IF phase \in {"treeTest", "treeEnd"} THEN TreeReply ELSE GraphReply
    IN  IF Threw THEN expected = S!Throws
        ELSE \A field \in DOMAIN expected :
               field \in DOMAIN answer /\ answer[field] = expected[field]

(***************************************************************************)
(* Whenever the trees are at rest, their destructors would delete every    *)
(* node of the tree, and none twice.                                       *)
(***************************************************************************)
FreesAll(freed, nodes) ==
  /\ \A i, j \in DOMAIN freed : freed[i] = freed[j] => i = j
  /\ {freed[i] : i \in DOMAIN freed} = nodes

DestructorsFreeAll ==
  Returned => /\ FreesAll(T!Freed(tNode)[tRoot], T!Live)
              /\ FreesAll(L!Freed(lNode)[lRoot], L!Live)

(***************************************************************************)
(* Every program comes to its end.                                         *)
(***************************************************************************)
ProgramEnds == <>Over
=============================================================================
