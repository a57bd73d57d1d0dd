------------------------------ MODULE MCLTree ------------------------------
(***************************************************************************)
(* An instance of LTree for TLC; states are told apart as in MCTTree.      *)
(***************************************************************************)
EXTENDS MCTTree, LTree

=============================================================================
