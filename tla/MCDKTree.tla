------------------------------ MODULE MCDKTree ------------------------------
(* Instances of DKTreeGraph for TLC. *)
EXTENDS DKTreeGraph

\* A 4 x 4 matrix with 3 vertices that grows to 8 x 8 with the sixth vertex.
GrowArcs == {<<0, 0>>, <<0, 1>>, <<1, 3>>, <<3, 2>>, <<4, 0>>, <<2, 4>>, <<4, 5>>}
GrowQueries == { << <<0>>, <<1, 0>> >>,
                 << <<3, 1, 0, 1>>, <<2, 3, 0>> >>,
                 << <<4, 2>>, <<4, 0>> >>,
                 << <<>>, <<0>> >> }

\* The 4 x 4 matrix has a row 3, but no vertex 3.
AbsentArcs == {<<0, 1>>, <<1, 3>>}
NoQueries == {}

\* A 16 x 16 matrix with 9 vertices: ttree has three levels.
DeepArcs == {<<0, 0>>, <<0, 1>>, <<8, 0>>, <<8, 8>>, <<4, 7>>, <<5, 7>>, <<3, 8>>}
DeepQueries == { << <<8, 0, 5>>, <<0, 8, 7>> >>,
                 << <<3, 4>>, <<8, 7, 1>> >> }
=============================================================================
