---------------------------- MODULE BitSequence ----------------------------
(***************************************************************************)
(* What the two B+trees promise to DKTree: one sequence of bits, in which  *)
(* blocks of BlockSize zeros can be inserted and blocks be deleted, bits   *)
(* be read and set, and ones be counted.  Every operation is one step.     *)
(* Positions are 0-based, as in the code.                                  *)
(***************************************************************************)
EXTENDS Integers, Sequences, FiniteSets

CONSTANT BlockSize

VARIABLES
  vector, \* the sequence
  reply   \* the last operation and what it returned

Blocks == {p \in 0..Len(vector) : p % BlockSize = 0}

OnesBefore(s, n) == Cardinality({i \in DOMAIN s : i <= n /\ s[i]})

Init == /\ vector = <<>>
        /\ reply = [op |-> "none"]

Insert(n) ==
  /\ n \in Blocks
  /\ vector' = SubSeq(vector, 1, n) \o [i \in 1..BlockSize |-> FALSE]
             \o SubSeq(vector, n + 1, Len(vector))
  /\ reply' = [op |-> "insertBlock", n |-> n]

Delete(n) ==
  /\ n \in Blocks \ {Len(vector)}
  /\ vector' = SubSeq(vector, 1, n) \o SubSeq(vector, n + BlockSize + 1, Len(vector))
  /\ reply' = [op |-> "deleteBlock", n |-> n]

Set(n, b) ==
  /\ n \in 0..(Len(vector) - 1)
  /\ vector' = [vector EXCEPT ![n + 1] = b]
  /\ reply' = [op |-> "setBit", n |-> n, b |-> b, result |-> vector[n + 1] # b]

Access(n) ==
  /\ n \in 0..(Len(vector) - 1)
  /\ reply' = [op |-> "access", n |-> n, result |-> vector[n + 1]]
  /\ UNCHANGED vector

Rank(n) ==
  /\ n \in 0..Len(vector)
  /\ reply' = [op |-> "rank1", n |-> n, result |-> OnesBefore(vector, n)]
  /\ UNCHANGED vector

Next == \E n \in 0..Len(vector) :
          \/ Insert(n) \/ Delete(n) \/ Access(n) \/ Rank(n)
          \/ \E b \in BOOLEAN : Set(n, b)

Spec == Init /\ [][Next]_<<vector, reply>>
=============================================================================
