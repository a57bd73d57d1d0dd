---------------------------- MODULE MCBitVector ----------------------------
(***************************************************************************)
(* An instance of BitVector for TLC; no step reads `op`.                   *)
(***************************************************************************)
EXTENDS BitVector

Vectors == <<left, right>>

=============================================================================
