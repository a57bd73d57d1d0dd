--------------------------- MODULE MCDKTreeClient ---------------------------
(* Instances of DKTreeClient for TLC. *)
EXTENDS DKTreeClient

\* In a 4 x 4 matrix, vertex 4 is handed out before the matrix grows.
SpareArcs == {<<0, 1>>, <<4, 1>>, <<1, 4>>}

\* The 2 x 2 matrix of withSize(2).
SmallArcs == {<<0, 1>>, <<1, 1>>}

NoQueries == {}
=============================================================================
