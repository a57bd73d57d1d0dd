----------------------------- MODULE BitStrings -----------------------------
(***************************************************************************)
(* What BitVector promises to a leaf and its sibling: two sequences of     *)
(* bits of at most Capacity bits each.  Positions are 0-based.             *)
(***************************************************************************)
EXTENDS Integers, Sequences

CONSTANT Capacity

VARIABLES
  left, right,  \* the two sequences
  op            \* the last operation and its arguments

Slice(s, lo, hi) == SubSeq(s, lo + 1, hi)

Spliced(s, n, t) == Slice(s, 0, n) \o t \o Slice(s, n, Len(s))

Init == left = <<>> /\ right = <<>> /\ op = <<"none">>

Set(n, b) ==
  /\ op' = <<"set", n, b>>
  /\ left' = [left EXCEPT ![n + 1] = b]
  /\ UNCHANGED right

Insert(n, size) ==
  /\ op' = <<"insert", n, size>>
  /\ left' = Spliced(left, n, [i \in 1..size |-> FALSE])
  /\ UNCHANGED right

Erase(lo, hi) ==
  /\ op' = <<"erase", lo, hi>>
  /\ left' = Slice(left, 0, lo) \o Slice(left, hi, Len(left))
  /\ UNCHANGED right

AppendFrom(lo, hi) ==
  /\ op' = <<"append", lo, hi>>
  /\ left' = left \o Slice(right, lo, hi)
  /\ UNCHANGED right

InsertFrom(n, lo, hi) ==
  /\ op' = <<"insertFrom", n, lo, hi>>
  /\ right' = Spliced(right, n, Slice(left, lo, hi))
  /\ UNCHANGED left

Copy(lo, hi) ==
  /\ op' = <<"copy", lo, hi>>
  /\ right' = Slice(left, lo, hi)
  /\ UNCHANGED left

Next ==
  \/ \E n \in 0..(Len(left) - 1), b \in BOOLEAN : Set(n, b)
  \/ \E n \in 0..Len(left), size \in 1..(Capacity - Len(left)) : Insert(n, size)
  \/ \E lo \in 0..Len(left) : \E hi \in lo..Len(left) :
       \/ Erase(lo, hi)
       \/ Copy(lo, hi)
       \/ /\ Len(right) + hi - lo <= Capacity
          /\ \E n \in 0..Len(right) : InsertFrom(n, lo, hi)
  \/ \E lo \in 0..Len(right) : \E hi \in lo..Len(right) :
       Len(left) + hi - lo <= Capacity /\ AppendFrom(lo, hi)

Spec == Init /\ [][Next]_<<left, right, op>>
=============================================================================
