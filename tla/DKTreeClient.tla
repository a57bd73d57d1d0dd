---------------------------- MODULE DKTreeClient ----------------------------
(***************************************************************************)
(* DKTree as its clients see it: `asked` is the graph the calls that       *)
(* returned have asked for, whatever the bit vectors hold.  The properties *)
(* are sentences of DKTree.h.                                              *)
(***************************************************************************)
EXTENDS DKTreeGraph

VARIABLE asked

cvars == <<gvars, asked>>

Returned(r, op) == r.call.op = op /\ "throws" \notin DOMAIN r

Pair(c) == <<c.row, c.column>>

AskedAfter(r) ==
  IF Returned(r, "addEdge")          THEN asked \cup {Pair(r.call)}
  ELSE IF Returned(r, "removeEdge")  THEN asked \ {Pair(r.call)}
  ELSE IF Returned(r, "deleteEntry") THEN {e \in asked : r.call.a \notin {e[1], e[2]}}
  ELSE asked

CSpec == /\ GInit /\ asked = {}
         /\ [][GNext /\ asked' = AskedAfter(reply')]_cvars

\* "@return true if there is an edge from a to b, false otherwise" (DKTree.h:106).
ReportEdgeIsRight ==
  Returned(reply, "reportEdge") => (reply.edge <=> Pair(reply.call) \in asked)

\* addEdge: "@throws illegal argument exception if row or column is not
\* present in the matrix" (DKTree.h:63), and for nothing else.
AddEdgeThrowsOnlyIfAbsent ==
  [][reply'.call.op = "addEdge" /\ ~Returned(reply', "addEdge") =>
       ~(Occupied(reply'.call.row) /\ Occupied(reply'.call.column))]_cvars
=============================================================================
