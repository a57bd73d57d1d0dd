--------------------------- MODULE AbstractGraph ---------------------------
(***************************************************************************)
(* What a dynamic k^2-tree promises its clients: a directed graph on a set *)
(* of live vertices, every operation atomic, as DKTree.h declares them.    *)
(* An operation refuses a vertex that is not live; removeEdge does where   *)
(* ChecksRemoval says so: DKTree.h:72 promises it, DKTree.cpp:80 does not  *)
(* look.                                                                   *)
(***************************************************************************)
EXTENDS Naturals, Sequences

CONSTANTS Vertices,    \* the vertex numbers clients may name
          Arcs,        \* the pairs clients add, remove and query
          Queries,     \* the pairs <<A, B>> of vectors given to reportAllEdges
          ChecksRemoval  \* TRUE: removeEdge refuses a vertex that is not live

VARIABLES live,        \* the vertices present in the graph
          edges,       \* the directed edges
          reply        \* what the last call returned, until the client moves on

vars == <<live, edges, reply>>

Elements(v) == {v[i] : i \in DOMAIN v}

\* s has every element of S once, in any order.
IsListOf(s, S) == /\ s \in Seq(S)
               /\ Elements(s) = S
               /\ \A i, j \in DOMAIN s : s[i] = s[j] => i = j

NoReply == [call |-> [op |-> "none"]]

Init == /\ live \subseteq Vertices
        /\ \A v \in live, u \in Vertices : u < v => u \in live
        /\ edges = {}
        /\ reply = NoReply

Refuse(call) == /\ reply' = [call |-> call, throws |-> "invalid_argument"]
                /\ UNCHANGED <<live, edges>>

(***************************************************************************)
(* The client has read the reply.                                          *)
(***************************************************************************)
Consume == /\ reply' = NoReply
           /\ UNCHANGED <<live, edges>>

AddEdge(row, column) ==
  LET call == [op |-> "addEdge", row |-> row, column |-> column]
  IN  \/ /\ reply' = [call |-> call]
         /\ {row, column} \subseteq live
         /\ edges' = edges \cup {<<row, column>>}
         /\ UNCHANGED live
      \/ /\ Refuse(call)
         /\ ~ ({row, column} \subseteq live)

(***************************************************************************)
(* A removeEdge that does not look at its vertices finds no edge at one    *)
(* that is not live.                                                       *)
(***************************************************************************)
RemoveEdge(row, column) ==
  LET call == [op |-> "removeEdge", row |-> row, column |-> column]
  IN  \/ /\ reply' = [call |-> call]
         /\ {row, column} \subseteq live \/ ~ChecksRemoval
         /\ edges' = edges \ {<<row, column>>}
         /\ UNCHANGED live
      \/ /\ ChecksRemoval
         /\ Refuse(call)
         /\ ~ ({row, column} \subseteq live)

ReportEdge(row, column) ==
  LET call == [op |-> "reportEdge", row |-> row, column |-> column]
  IN  \/ /\ reply' = [call |-> call, edge |-> <<row, column>> \in edges]
         /\ {row, column} \subseteq live
         /\ UNCHANGED <<live, edges>>
      \/ /\ Refuse(call)
         /\ ~ ({row, column} \subseteq live)

ReportAllEdges(A, B) ==
  LET call  == [op |-> "reportAllEdges", A |-> A, B |-> B]
      valid == /\ Elements(A) # {} /\ Elements(A) \subseteq live
               /\ Elements(B) # {} /\ Elements(B) \subseteq live
  IN  \/ /\ "edges" \in DOMAIN reply'
         /\ reply' = [call |-> call, edges |-> reply'.edges]
         /\ IsListOf(reply'.edges, edges \cap (Elements(A) \X Elements(B)))
         /\ valid
         /\ UNCHANGED <<live, edges>>
      \/ /\ Refuse(call)
         /\ ~valid

(***************************************************************************)
(* The new vertex is the smallest number that is not in use.               *)
(***************************************************************************)
InsertEntry ==
  \E v \in Vertices \ live :
     /\ reply' = [call |-> [op |-> "insertEntry"], vertex |-> v]
     /\ \A u \in Vertices \ live : v <= u
     /\ live' = live \cup {v}
     /\ UNCHANGED edges

(***************************************************************************)
(* Deleting a vertex deletes its edges, both ways.                         *)
(***************************************************************************)
DeleteEntry(a) ==
  LET call == [op |-> "deleteEntry", a |-> a]
  IN  \/ /\ reply' = [call |-> call]
         /\ a \in live
         /\ live' = live \ {a}
         /\ edges' = {e \in edges : a \notin {e[1], e[2]}}
      \/ /\ Refuse(call)
         /\ a \notin live

Next == \/ Consume
        \/ InsertEntry
        \/ \E a \in Vertices : DeleteEntry(a)
        \/ \E e \in Arcs : \/ AddEdge(e[1], e[2])
                           \/ RemoveEdge(e[1], e[2])
                           \/ ReportEdge(e[1], e[2])
        \/ \E q \in Queries : ReportAllEdges(q[1], q[2])

Spec == Init /\ [][Next]_vars
=============================================================================
