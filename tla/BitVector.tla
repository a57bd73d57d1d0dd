----------------------------- MODULE BitVector -----------------------------
(***************************************************************************)
(* The bit vector of BitVector.h: an array of words, the highest bit of a  *)
(* word first, with the number of ones of each word beside it.  Words are  *)
(* numbers below 2^W; shifts drop what leaves the word.  Two vectors, a    *)
(* leaf and its sibling, are operated on as leaves do it.                  *)
(***************************************************************************)
EXTENDS Integers, Sequences, FiniteSets

CONSTANTS
  W,        \* the bits of a word (64)
  LENGTH,   \* the words of a vector (4)
  Step,     \* positions and sizes are multiples of Step (BLOCK_SIZE)
  Sizes,    \* the numbers of zeros inserted; the leaves insert one block
  MaxOnes,  \* bound: no vector gets more ones than this
  MaxRest   \* bound: nor more ones beyond its length

ASSUME WordsAssumption == /\ W \in Nat /\ W >= 1
                          /\ LENGTH \in Nat /\ LENGTH >= 1
                          /\ Step \in Nat /\ Step >= 1
                          /\ Sizes \subseteq Nat \ {0}
                          /\ MaxOnes \in Nat /\ MaxRest \in Nat

VARIABLES
  left, right,  \* two vectors
  op            \* the last operation and its arguments

Words == 0..(LENGTH - 1)
Capacity == W * LENGTH

shl(x, s) == (x * 2^s) % 2^W
shr(x, s) == x \div 2^s

bitOf(x, i) == shr(x, W - 1 - i) % 2 = 1

onesIn(x) == Cardinality({i \in 0..(W - 1) : bitOf(x, i)})

EmptyVector == [bits |-> 0, data |-> [i \in Words |-> 0], block_counts |-> [i \in Words |-> 0]]

(***************************************************************************)
(* operator[], set.                                                        *)
(***************************************************************************)
get(v, n) == bitOf(v.data[n \div W], n % W)

set(v, n, b) ==
  LET block == n \div W
      mask == 2^(W - 1 - (n % W))
  IN  IF get(v, n) = b THEN v
      ELSE IF b THEN [v EXCEPT !.data[block] = @ + mask, !.block_counts[block] = @ + 1]
           ELSE [v EXCEPT !.data[block] = @ - mask, !.block_counts[block] = @ - 1]

(***************************************************************************)
(* rank1, rangeRank1: whole words by their counts, the rest by a mask.     *)
(* countOnesRaw of an empty range shifts a zero mask by W; whatever the    *)
(* shift does, the word it masks, which may be the one after the last,     *)
(* counts for nothing.                                                     *)
(***************************************************************************)
countBlocks(v, lo, hi) ==
  LET sum[i \in lo..(IF lo < hi THEN hi ELSE lo)] ==
        IF i = lo THEN 0 ELSE sum[i - 1] + v.block_counts[i - 1]
  IN  sum[IF lo < hi THEN hi ELSE lo]

countOnesRaw(v, lo, hi) ==
  LET block == lo \div W
      end == hi - block * W
  IN  IF lo = hi THEN 0
      ELSE onesIn(shr(v.data[block], W - end) % 2^(hi - lo))

rank1(v, n) ==
  LET end_blocks == n - (n % W)
  IN  countBlocks(v, 0, end_blocks \div W) + countOnesRaw(v, end_blocks, n)

rangeRank1(v, lo, hi) ==
  LET blockLo == (lo + W - 1) \div W
      blockHi == hi \div W
  IN  IF blockLo > blockHi THEN countOnesRaw(v, lo, hi)
      ELSE countOnesRaw(v, lo, blockLo * W) + countBlocks(v, blockLo, blockHi)
           + countOnesRaw(v, blockHi * W, hi)

(***************************************************************************)
(* insert, erase.  The word of the first position is split: its first part *)
(* stays, its last `m` bits move with the words behind it, by whole words  *)
(* and then by bits.  Bits that move beyond the array are dropped.         *)
(***************************************************************************)
lastBits(x, m) == x % 2^m
firstBits(x, m) == x - (x % 2^m)

\* Mutant: the counts are computed from the word after the first position.
recomputeNext(v, start) ==
  [v EXCEPT !.block_counts = [i \in Words |-> IF i > start \div W THEN onesIn(v.data[i]) ELSE @[i]]]

recompute(v, start) ==
  [v EXCEPT !.block_counts = [i \in Words |-> IF i >= start \div W THEN onesIn(v.data[i]) ELSE @[i]]]

wordsUp(d, from, n) ==
  [i \in Words |-> IF i >= from + n THEN d[i - n]
                   ELSE IF i >= from /\ n > 0 /\ i + n < LENGTH THEN 0 ELSE d[i]]

bitsUp(d, from, n) ==
  [i \in Words |-> IF n = 0 \/ i < from THEN d[i]
                   ELSE IF i = from THEN shr(d[i], n)
                   ELSE shr(d[i], n) + shl(d[i - 1], W - n)]

wordsDown(d, from, n) ==
  [i \in Words |-> IF i < from \/ n = 0 THEN d[i]
                   ELSE IF i + n < LENGTH THEN d[i + n]
                   ELSE IF i - n >= from THEN 0 ELSE d[i]]

bitsDown(d, from, n) ==
  [i \in Words |-> IF n = 0 \/ i < from THEN d[i]
                   ELSE IF i + 1 < LENGTH THEN shl(d[i], n) + shr(d[i + 1], W - n)
                   ELSE shl(d[i], n)]

\* Mutant: the words are moved without the split of the first one.
insertWholeWord(v, begin, size) ==
  LET start == begin \div W
      moved == bitsUp(wordsUp(v.data, start, size \div W), start, size % W)
  IN  recompute([v EXCEPT !.data = moved, !.bits = @ + size], begin)

insert(v, begin, size) ==
  LET start == begin \div W
      m == W - (begin % W)
      split == [i \in Words |-> IF i = start THEN lastBits(v.data[i], m) ELSE v.data[i]]
      moved == bitsUp(wordsUp(split, start, size \div W), start, size % W)
      joined == [i \in Words |-> IF i = start THEN moved[i] + firstBits(v.data[i], m)
                                 ELSE moved[i]]
  IN  recompute([v EXCEPT !.data = joined, !.bits = @ + size], begin)

(***************************************************************************)
(* With lo at the end of the array the code reads data[LENGTH] and writes  *)
(* back what it read: no word of the array changes.                        *)
(***************************************************************************)
erase(v, lo, hi) ==
  LET amount == hi - lo
      start == lo \div W
      m == W - (lo % W)
      split == [i \in Words |-> IF i = start THEN lastBits(v.data[i], m) ELSE v.data[i]]
      moved == bitsDown(wordsDown(split, start, amount \div W), start, amount % W)
      joined == [i \in Words |-> IF i = start
                                 THEN lastBits(moved[i], m) + firstBits(v.data[i], m)
                                 ELSE moved[i]]
  IN  recompute([v EXCEPT !.data = joined, !.bits = @ - amount], lo)

insertFrom(v, begin, from, lo, hi) ==
  LET filled[i \in 0..(hi - lo)] ==
        IF i = 0 THEN insert(v, begin, hi - lo)
        ELSE set(filled[i - 1], begin + i - 1, get(from, lo + i - 1))
  IN  recompute(filled[hi - lo], begin)

append(v, from, lo, hi) == insertFrom(v, v.bits, from, lo, hi)

subVector(from, lo, hi) == erase(erase(from, hi, from.bits), 0, lo)

-----------------------------------------------------------------------------
(***************************************************************************)
(* A leaf and its sibling use the operations.                              *)
(***************************************************************************)
Steps(lo, hi) == {n \in lo..hi : n % Step = 0}

countAll(v) == rank1(v, v.bits)

RestBounded(v) == Cardinality({n \in v.bits..(Capacity - 1) : get(v, n)}) <= MaxRest

Init == left = EmptyVector /\ right = EmptyVector /\ op = <<"none">>

Set == \E n \in 0..(left.bits - 1), b \in BOOLEAN :
  /\ b => countAll(left) < MaxOnes
  /\ op' = <<"set", n, b>>
  /\ left' = set(left, n, b)
  /\ UNCHANGED right

Insert == \E n \in Steps(0, left.bits), size \in Sizes :
  /\ left.bits + size <= Capacity
  /\ op' = <<"insert", n, size>>
  /\ left' = insert(left, n, size)
  /\ UNCHANGED right

Erase == \E lo \in Steps(0, left.bits) : \E hi \in Steps(lo, left.bits) :
  /\ op' = <<"erase", lo, hi>>
  /\ left' = erase(left, lo, hi)
  /\ RestBounded(left')
  /\ UNCHANGED right

AppendFrom == \E lo \in Steps(0, right.bits) : \E hi \in Steps(lo + 1, right.bits) :
  /\ left.bits + hi - lo <= Capacity
  /\ countAll(left) + rangeRank1(right, lo, hi) <= MaxOnes
  /\ op' = <<"append", lo, hi>>
  /\ left' = append(left, right, lo, hi)
  /\ UNCHANGED right

InsertFrom == \E lo \in Steps(0, left.bits) : \E hi \in Steps(lo + 1, left.bits) :
  /\ right.bits + hi - lo <= Capacity
  /\ countAll(right) + rangeRank1(left, lo, hi) <= MaxOnes
  /\ \E n \in Steps(0, right.bits) :
       /\ op' = <<"insertFrom", n, lo, hi>>
       /\ right' = insertFrom(right, n, left, lo, hi)
  /\ UNCHANGED left

Copy == \E lo \in Steps(0, left.bits) : \E hi \in Steps(lo, left.bits) :
  /\ op' = <<"copy", lo, hi>>
  /\ right' = subVector(left, lo, hi)
  /\ RestBounded(right')
  /\ UNCHANGED left

Next == Set \/ Insert \/ Erase \/ AppendFrom \/ InsertFrom \/ Copy

Spec == Init /\ [][Next]_<<left, right, op>>

-----------------------------------------------------------------------------
(***************************************************************************)
(* The sequence of bits a vector stands for.                               *)
(***************************************************************************)
Value(v) == [i \in 1..v.bits |-> get(v, i - 1)]

(***************************************************************************)
(* Every operation is that of a sequence of bits.                          *)
(***************************************************************************)
Strings == INSTANCE BitStrings WITH left <- Value(left), right <- Value(right)

ImplementsStrings == Strings!Spec

(***************************************************************************)
(* The counts of the words are current, so that ranks by words and by bits *)
(* agree: rank1 and rangeRank1 count the ones of the sequence.             *)
(***************************************************************************)
RanksAreCounts ==
  \A v \in {left, right} :
    LET count(lo, hi) == Cardinality({n \in lo..(hi - 1) : get(v, n)})
    IN  \A hi \in 0..v.bits :
          /\ rank1(v, hi) = count(0, hi)
          /\ \A lo \in 0..hi : rangeRank1(v, lo, hi) = count(lo, hi)

(***************************************************************************)
(* insert "inserts `size` 0-bits at position `begin`" (BitVector.h:138).   *)
(* An erase of more words than follow it leaves their ones beyond the      *)
(* length, and an insert by whole words does not clear them; by less than  *)
(* a word it shifts zeros in.                                              *)
(***************************************************************************)
InsertedBitsAreZero ==
  op[1] = "insert" => \A n \in op[2]..(op[2] + op[3] - 1) : ~get(left, n)

=============================================================================
