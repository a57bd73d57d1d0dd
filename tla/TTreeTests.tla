----------------------------- MODULE TTreeTests -----------------------------
(***************************************************************************)
(* The tests of TTreeTest.cpp as scripts: the calls a test makes of a tree *)
(* that keeps no path, with what it asserts of access, rank1, setBit and   *)
(* bits.  What validate and validateSize assert are invariants of          *)
(* BPlusTree; a test is a record of the size of the tree it begins with    *)
(* and its script.                                                         *)
(***************************************************************************)
EXTENDS Tests, FiniteSets

CONSTANTS BlockSize, LeafSizeMax

B == LeafSizeMax * BlockSize

Operation(op, n) == [op |-> op, n |-> n, withPath |-> FALSE]
Setting(n) == [op |-> "setBit", n |-> n, b |-> TRUE, withPath |-> FALSE]

insertBlock(n) == Calls(Operation("insertBlock", n))
deleteBlock(n) == Calls(Operation("deleteBlock", n))
setBit(n) == Asserts(Setting(n), [result |-> TRUE])
access(n, b) == Asserts(Operation("access", n), [result |-> b])
rank1(n, r) == Asserts(Operation("rank1", n), [result |-> r])

setBlock(n) == LET set(j) == setBit(n + j) IN Loop(0, BlockSize - 1, set)

\* The tree holds the bits of v, and its ranks are theirs.
treeEqualsVec(v) ==
  LET rank(i) == Cardinality({j \in 1..i : v[j]})
      bitsOf(step) == <<[step[1] EXCEPT !.expect = [result |-> @.result, bits |-> Len(v)]]>>
      read(i) == bitsOf(access(i, v[i + 1])) \o bitsOf(rank1(i, rank(i)))
  IN  Loop(0, Len(v) - 1, read) \o bitsOf(rank1(Len(v), rank(Len(v))))

Every(n, period) == n % period = 0
-----------------------------------------------------------------------------
AccessSetBit ==
  LET unset(n) == access(n, FALSE)
      set(n) == access(n, n \in {13, 17})
  IN  [bits |-> 20,
       script |-> Loop(10, 19, unset) \o setBit(13) \o setBit(17) \o Loop(10, 19, set)
                  \o rank1(10, 0) \o rank1(15, 1) \o rank1(20, 2)]

\* B / 2 may lie inside a block, as it does for the B of the program.
InsertDelete ==
  LET mid == B \div 2
  IN  [bits |-> B,
       script |-> setBit(mid - 1) \o setBit(mid) \o setBit(B - 1)
                  \o insertBlock(mid) \o deleteBlock(B)
                  \o treeEqualsVec([i \in 1..B |-> i - 1 \in {mid - 1, mid + BlockSize}])]

\* n is 51200 in the source.
BPlusTest0(n) ==
  LET insert(i) == IF Every(i, BlockSize) THEN insertBlock(i) ELSE <<>>
      set(i) == IF i * i < n THEN setBit(i * i) ELSE <<>>
  IN  [bits |-> 0,
       script |-> Loop(0, n - 1, insert) \o Loop(0, n - 1, set)
                  \o treeEqualsVec([i \in 1..n |-> \E j \in 0..(n - 1) : i - 1 = j * j])]

(***************************************************************************)
(* BPlusTest1 inserts at the end and deletes from the front, BPlusTest2    *)
(* the other way round.  numBlocks, checkInterval and the period of the    *)
(* blocks of ones are 1024, 32 and 17 in the source.                       *)
(***************************************************************************)
BPlusTest1(numBlocks, checkInterval, period) ==
  LET ref == [i \in 1..(numBlocks * BlockSize) |-> Every((i - 1) \div BlockSize, period)]
      checked(i, lo, hi) ==
        IF Every(i + 1, checkInterval)
        THEN treeEqualsVec(SubSeq(ref, lo * BlockSize + 1, hi * BlockSize)) ELSE <<>>
      insert(i) == insertBlock(i * BlockSize)
                   \o (IF Every(i, period) THEN setBlock(i * BlockSize) ELSE <<>>)
                   \o checked(i, 0, i + 1)
      delete(i) == deleteBlock(0) \o checked(i, i + 1, numBlocks)
  IN  [bits |-> 0,
       script |-> Loop(0, numBlocks - 1, insert) \o treeEqualsVec(ref)
                  \o Loop(0, numBlocks - 1, delete)]

BPlusTest2(numBlocks, checkInterval, period) ==
  LET ref == [i \in 1..(numBlocks * BlockSize) |->
                Every(numBlocks - 1 - ((i - 1) \div BlockSize), period)]
      checked(i, lo, hi) ==
        IF Every(i, checkInterval)
        THEN treeEqualsVec(SubSeq(ref, lo * BlockSize + 1, hi * BlockSize)) ELSE <<>>
      insert(i) == insertBlock(0)
                   \o (IF Every(i, period) THEN setBlock(0) ELSE <<>>)
                   \o checked(i + 1, numBlocks - 1 - i, numBlocks)
      delete(d) == LET last == numBlocks - 1 - d
                   IN  deleteBlock(last * BlockSize) \o checked(last, 0, last)
  IN  [bits |-> 0,
       script |-> Loop(0, numBlocks - 1, insert) \o treeEqualsVec(ref)
                  \o Loop(0, numBlocks - 1, delete)]

\* Leaves full of ones, then blocks of zeros between them, then only these.
BPlusTest3 ==
  LET numBlocks == 4 * LeafSizeMax
      len == numBlocks * BlockSize
      insertOnes(i) == insertBlock(0) \o setBlock(0)
      insertBetween(i) == insertBlock(2 * i * BlockSize)
      delete(i) == deleteBlock(i * BlockSize)
  IN  [bits |-> 0,
       script |-> Loop(0, numBlocks - 1, insertOnes)
                  \o treeEqualsVec([i \in 1..len |-> TRUE])
                  \o Loop(0, numBlocks - 1, insertBetween)
                  \o treeEqualsVec([i \in 1..(2 * len) |-> ((i - 1) \div BlockSize) % 2 = 1])
                  \o Loop(1, numBlocks, delete)
                  \o treeEqualsVec([i \in 1..len |-> FALSE])]
=============================================================================
