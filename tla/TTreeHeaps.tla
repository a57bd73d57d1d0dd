----------------------------- MODULE TTreeHeaps -----------------------------
(***************************************************************************)
(* What the operators of the B+tree return, for every size of a node and   *)
(* of a leaf.  First sums over the slots of a node, numbers of ones, and   *)
(* lengths that are whole numbers of blocks; then what moving, splitting   *)
(* and merging nodes does to a tree.  Each of those lemmas is about one    *)
(* operator of BPlusTree that returns a changed heap: a tree stays a tree, *)
(* and each counter keeps its distance from what it counts, but where the  *)
(* lemma says otherwise.                                                   *)
(***************************************************************************)
EXTENDS TTree, TLAPS, WellFoundedInduction, FunctionTheorems, FiniteSetTheorems,
        SequenceTheorems

\* Induction over 0..m for a set that holds 0, and with each number the next.
LEMMA UpTo ==
  ASSUME NEW m \in Nat, NEW S, 0 \in S,
         \A i \in 0..(m - 1) : i \in S => i + 1 \in S
  PROVE  \A i \in 0..m : i \in S
<1> DEFINE less == OpToRel(<, Nat)
           Bad == {i \in 0..m : i \notin S}
<1>1. \A i, j \in Nat : i < j => <<i, j>> \in less
  BY DEF OpToRel
<1>2. IsWellFoundedOn(less, Nat)
  BY NatLessThanWellFounded
<1> SUFFICES ASSUME Bad # {} PROVE FALSE
  OBVIOUS
<1>3. Bad \in SUBSET Nat
  OBVIOUS
<1> HIDE DEF less
<1>4. PICK i \in Bad : \A j \in Bad : ~ (<<j, i>> \in less)
  <2> HIDE DEF Bad
  <2> QED  BY <1>2, <1>3, WFMin
<1>5. i # 0 /\ i - 1 \in 0..(m - 1) /\ i - 1 < i
  OBVIOUS
<1>6. i - 1 \in S
  <2>1. i \in Nat /\ i - 1 \in Nat
    BY <1>5
  <2>2. <<i - 1, i>> \in less
    BY <1>1, <1>5, <2>1
  <2>3. i - 1 \notin Bad
    BY <1>4, <2>2
  <2> QED  BY <1>5, <2>3
<1> QED
  BY <1>5, <1>6

-----------------------------------------------------------------------------
(* SumBelow: the recursive definition has a solution for every length.     *)

\* Whatever is summed here: a number for each slot.
Numbers == [Slots -> Int]

SumStep(s, f, n) == [i \in 0..n |-> IF i = 0 THEN 0 ELSE s[i - 1] + f[i - 1]]

\* There is a table of the sums of the first 0, 1, ..., n slots.
LEMMA SumTable ==
  ASSUME NEW f \in Numbers, NEW n \in 0..(NodeSizeMax + 1)
  PROVE  \E s \in [0..n -> Int] : s = SumStep(s, f, n)
<1> DEFINE S == {i \in 0..(NodeSizeMax + 1) : \E s \in [0..i -> Int] : s = SumStep(s, f, i)}
<1>1. 0 \in S
  <2>1. [i \in 0..0 |-> 0] = SumStep([i \in 0..0 |-> 0], f, 0)
    BY DEF SumStep
  <2> QED  BY <2>1, SizesAssumption
<1>2. ASSUME NEW i \in 0..NodeSizeMax, i \in S PROVE i + 1 \in S
  <2>1. PICK s \in [0..i -> Int] : s = SumStep(s, f, i)
    BY <1>2
  <2> DEFINE t == [j \in 0..(i + 1) |-> IF j = i + 1 THEN s[i] + f[i] ELSE s[j]]
  <2>2. f[i] \in Int
    BY SizesAssumption DEF Numbers, Slots
  <2>3. t \in [0..(i + 1) -> Int]
    BY <2>2
  <2>4. ASSUME NEW j \in 0..(i + 1)
        PROVE  t[j] = IF j = 0 THEN 0 ELSE t[j - 1] + f[j - 1]
    <3>1. ASSUME NEW l \in 0..i PROVE s[l] = IF l = 0 THEN 0 ELSE s[l - 1] + f[l - 1]
      BY <2>1 DEF SumStep
    <3> QED  BY <3>1, SizesAssumption
  <2>5. t = SumStep(t, f, i + 1)
    BY <2>3, <2>4 DEF SumStep
  <2> HIDE DEF t
  <2> QED  BY <2>3, <2>5, SizesAssumption
<1> HIDE DEF S
<1>3. \A i \in 0..(NodeSizeMax + 1) : i \in S
  BY <1>1, <1>2, UpTo, SizesAssumption
<1> QED
  BY <1>3 DEF S

\* Two such tables agree where both are defined.
LEMMA SumTablesAgree ==
  ASSUME NEW f, NEW m \in Nat, NEW n \in Nat, m <= n,
         NEW s, s = SumStep(s, f, m), NEW t, t = SumStep(t, f, n)
  PROVE  s[m] = t[m]
<1> DEFINE S == {i \in 0..m : s[i] = t[i]}
<1>1. 0 \in S
  BY DEF SumStep
<1>2. ASSUME NEW i \in 0..(m - 1), i \in S PROVE i + 1 \in S
  <2>1. s[i + 1] = s[i] + f[i]
    BY DEF SumStep
  <2>2. t[i + 1] = t[i] + f[i]
    BY DEF SumStep
  <2> QED  BY <1>2, <2>1, <2>2
<1> HIDE DEF S
<1>3. m \in S
  BY <1>1, <1>2, UpTo
<1> QED
  BY <1>3 DEF S

\* A sum is an integer; over no slot it is 0; over one more it grows by that one.
LEMMA Sums ==
  ASSUME NEW f \in Numbers
  PROVE  /\ SumBelow(f, 0) = 0
         /\ \A n \in 0..(NodeSizeMax + 1) : SumBelow(f, n) \in Int
         /\ \A n \in Slots : SumBelow(f, n + 1) = SumBelow(f, n) + f[n]
<1> DEFINE table(n) == CHOOSE s : s = [i \in 0..n |-> IF i = 0 THEN 0 ELSE s[i - 1] + f[i - 1]]
<1>1. ASSUME NEW n \in 0..(NodeSizeMax + 1)
      PROVE  /\ table(n) = SumStep(table(n), f, n)
             /\ SumBelow(f, n) = table(n)[n]
             /\ SumBelow(f, n) \in Int
  <2>1. PICK s \in [0..n -> Int] : s = SumStep(s, f, n)
    BY SumTable
  <2>2. \E t : t = [i \in 0..n |-> IF i = 0 THEN 0 ELSE t[i - 1] + f[i - 1]]
    BY <2>1 DEF SumStep
  <2>3. table(n) = [i \in 0..n |-> IF i = 0 THEN 0 ELSE table(n)[i - 1] + f[i - 1]]
    BY <2>2, Zenon
  <2>4. SumBelow(f, n) = table(n)[n]
    BY Zenon DEF SumBelow
  <2> HIDE DEF table
  <2>5. table(n) = SumStep(table(n), f, n)
    BY <2>3 DEF SumStep
  <2>6. table(n)[n] = s[n]
    BY <2>1, <2>5, SumTablesAgree, SizesAssumption
  <2> QED  BY <2>1, <2>4, <2>5, <2>6, SizesAssumption
<1> HIDE DEF table
<1>2. SumBelow(f, 0) = 0
  BY <1>1, SizesAssumption DEF SumStep
<1>3. ASSUME NEW n \in Slots PROVE SumBelow(f, n + 1) = SumBelow(f, n) + f[n]
  <2>1. n \in 0..(NodeSizeMax + 1) /\ n + 1 \in 0..(NodeSizeMax + 1) /\ n \in Nat
    BY SizesAssumption DEF Slots
  <2>2. table(n)[n] = table(n + 1)[n]
    BY <1>1, <2>1, SumTablesAgree
  <2>3. table(n + 1)[n + 1] = table(n + 1)[n] + f[n]
    BY <1>1, <2>1 DEF SumStep
  <2> QED  BY <1>1, <2>1, <2>2, <2>3
<1> QED
  BY <1>1, <1>2, <1>3

\* From slot a to slot c, g is what f is from slot b.
Copies(g, a, c, f, b) == \A i \in a..(c - 1) : g[i] = f[(i - a) + b]

\* Equal stretches of two functions, from a to c and from b to d, have equal sums.
LEMMA SameStretch ==
  ASSUME NEW f \in Numbers, NEW g \in Numbers,
         NEW a \in Nat, NEW b \in Nat, NEW c \in Nat, NEW d \in Nat,
         a <= c, c - a = d - b, c <= NodeSizeMax + 1, d <= NodeSizeMax + 1,
         Copies(g, a, c, f, b)
  PROVE  SumBelow(g, c) - SumBelow(g, a) = SumBelow(f, d) - SumBelow(f, b)
<1> DEFINE S == {i \in 0..(c - a) : SumBelow(g, a + i) - SumBelow(g, a)
                                    = SumBelow(f, b + i) - SumBelow(f, b)}
<1>1. 0 \in S
  <2>1. a + 0 = a /\ b + 0 = b /\ a \in 0..(NodeSizeMax + 1) /\ b \in 0..(NodeSizeMax + 1)
    BY SizesAssumption
  <2> QED  BY <2>1, Sums
<1>2. ASSUME NEW i \in 0..(c - a - 1), i \in S PROVE i + 1 \in S
  <2>1. a + i \in Slots /\ b + i \in Slots /\ a \in 0..(NodeSizeMax + 1)
        /\ b \in 0..(NodeSizeMax + 1)
    BY SizesAssumption DEF Slots
  <2>2. f[b + i] \in Int /\ g[a + i] = f[b + i]
    <3>1. a + i \in a..(c - 1) /\ ((a + i) - a) + b = b + i
      OBVIOUS
    <3> QED  BY <2>1, <3>1 DEF Numbers, Copies
  <2>3. SumBelow(g, (a + i) + 1) = SumBelow(g, a + i) + g[a + i]
    BY <2>1, Sums
  <2>4. SumBelow(f, (b + i) + 1) = SumBelow(f, b + i) + f[b + i]
    BY <2>1, Sums
  <2>5. SumBelow(g, a + i) \in Int /\ SumBelow(g, a) \in Int
        /\ SumBelow(f, b + i) \in Int /\ SumBelow(f, b) \in Int
    BY <2>1, Sums, SizesAssumption DEF Slots
  <2>6. (a + i) + 1 = a + (i + 1) /\ (b + i) + 1 = b + (i + 1)
    BY SizesAssumption
  <2> QED  BY <1>2, <2>2, <2>3, <2>4, <2>5, <2>6
<1> HIDE DEF S
<1>3. c - a \in S
  BY <1>1, <1>2, UpTo
<1>4. a + (c - a) = c /\ b + (c - a) = d
  OBVIOUS
<1> QED
  BY <1>3, <1>4 DEF S

\* Two functions that agree below slot n have the same sum below it.
LEMMA SameBelow ==
  ASSUME NEW f \in Numbers, NEW g \in Numbers, NEW n \in 0..(NodeSizeMax + 1),
         \A i \in 0..(n - 1) : g[i] = f[i]
  PROVE  SumBelow(g, n) = SumBelow(f, n)
<1>1. n \in Nat /\ n <= NodeSizeMax + 1 /\ Copies(g, 0, n, f, 0)
  BY SizesAssumption DEF Copies
<1>2. SumBelow(g, n) - SumBelow(g, 0) = SumBelow(f, n) - SumBelow(f, 0)
  BY <1>1, SameStretch
<1> QED
  BY <1>2, Sums

\* A stretch of zeros adds nothing.
LEMMA ZeroStretch ==
  ASSUME NEW f \in Numbers, NEW a \in Nat, NEW b \in Nat, a <= b, b <= NodeSizeMax + 1,
         \A i \in a..(b - 1) : f[i] = 0
  PROVE  SumBelow(f, b) = SumBelow(f, a)
<1> DEFINE S == {i \in 0..(b - a) : SumBelow(f, a + i) = SumBelow(f, a)}
<1>1. 0 \in S
  BY a + 0 = a
<1>2. ASSUME NEW i \in 0..(b - a - 1), i \in S PROVE i + 1 \in S
  <2>1. a + i \in Slots /\ f[a + i] = 0 /\ a \in 0..(NodeSizeMax + 1)
    BY SizesAssumption DEF Slots
  <2>2. SumBelow(f, (a + i) + 1) = SumBelow(f, a + i) + f[a + i]
    BY <2>1, Sums
  <2>3. SumBelow(f, a) \in Int
    BY <2>1, Sums
  <2>4. (a + i) + 1 = a + (i + 1)
    OBVIOUS
  <2> QED  BY <1>2, <2>1, <2>2, <2>3, <2>4
<1> HIDE DEF S
<1>3. b - a \in S
  BY <1>1, <1>2, UpTo
<1> QED
  BY <1>3, a + (b - a) = b DEF S

\* A change by d in slot j changes the sums that reach beyond it by d.
LEMMA ChangedSum ==
  ASSUME NEW f \in Numbers, NEW g \in Numbers, NEW j \in Slots, NEW d \in Int,
         g[j] = f[j] + d, \A i \in Slots \ {j} : g[i] = f[i],
         NEW n \in 0..(NodeSizeMax + 1)
  PROVE  SumBelow(g, n) = SumBelow(f, n) + (IF j < n THEN d ELSE 0)
<1>1. j \in Nat /\ j + 1 \in 0..(NodeSizeMax + 1) /\ f[j] \in Int
      /\ j \in 0..(NodeSizeMax + 1)
  BY SizesAssumption DEF Slots, Numbers
<1>2. SumBelow(f, n) \in Int
  BY Sums
<1>3. CASE ~(j < n)
  <2>1. \A i \in 0..(n - 1) : g[i] = f[i]
    BY <1>1, <1>3, SizesAssumption DEF Slots
  <2> QED  BY <1>2, <1>3, <2>1, SameBelow
<1>4. CASE j < n
  <2>1. \A i \in 0..(j - 1) : g[i] = f[i]
    BY <1>1, <1>4, SizesAssumption DEF Slots
  <2>2. SumBelow(g, j) = SumBelow(f, j)
    BY <1>1, <2>1, SameBelow
  <2>3. /\ SumBelow(f, j) \in Int
        /\ SumBelow(f, j + 1) = SumBelow(f, j) + f[j]
        /\ SumBelow(g, j + 1) = SumBelow(g, j) + g[j]
    BY <1>1, Sums
  <2>4. PICK m \in Nat : m = j + 1
    BY <1>1
  <2>5. Copies(g, m, n, f, m)
    BY <1>1, <1>4, <2>4, SizesAssumption DEF Slots, Copies
  <2>6. SumBelow(g, n) - SumBelow(g, m) = SumBelow(f, n) - SumBelow(f, m)
    <3>1. n \in Nat /\ m <= n /\ n - m = n - m /\ n <= NodeSizeMax + 1
      BY <1>1, <1>4, <2>4, SizesAssumption
    <3> QED  BY <2>5, <3>1, SameStretch
  <2>7. SumBelow(g, n) \in Int /\ SumBelow(g, j + 1) \in Int
    BY <1>1, Sums
  <2> QED  BY <1>1, <1>2, <1>4, <2>2, <2>3, <2>4, <2>6, <2>7
<1> QED
  BY <1>3, <1>4

\* Sums of naturals are naturals and grow with the number of slots.
LEMMA NaturalSums ==
  ASSUME NEW f \in [Slots -> Nat]
  PROVE  /\ \A n \in 0..(NodeSizeMax + 1) : SumBelow(f, n) \in Nat
         /\ \A m, n \in 0..(NodeSizeMax + 1) : m <= n => SumBelow(f, m) <= SumBelow(f, n)
<1>1. f \in Numbers
  BY DEF Numbers
<1>2. ASSUME NEW m \in 0..(NodeSizeMax + 1), NEW n \in 0..(NodeSizeMax + 1), m <= n
      PROVE  SumBelow(f, m) <= SumBelow(f, n)
  <2> DEFINE S == {i \in 0..(n - m) : SumBelow(f, m) <= SumBelow(f, m + i)}
  <2>1. 0 \in S
    BY <1>1, <1>2, Sums, m + 0 = m, SizesAssumption
  <2>2. ASSUME NEW i \in 0..(n - m - 1), i \in S PROVE i + 1 \in S
    <3>1. m + i \in Slots /\ f[m + i] \in Nat
      BY <1>2, SizesAssumption DEF Slots
    <3>2. SumBelow(f, (m + i) + 1) = SumBelow(f, m + i) + f[m + i]
      BY <1>1, <3>1, Sums
    <3>3. SumBelow(f, m) \in Int /\ SumBelow(f, m + i) \in Int
      BY <1>1, <3>1, Sums, SizesAssumption DEF Slots
    <3>4. (m + i) + 1 = m + (i + 1) /\ i + 1 \in 0..(n - m)
      BY <1>2, SizesAssumption
    <3> QED  BY <2>2, <3>1, <3>2, <3>3, <3>4
  <2> HIDE DEF S
  <2>3. n - m \in S
    BY <1>2, <2>1, <2>2, UpTo, SizesAssumption
  <2> QED  BY <2>3, m + (n - m) = n, SizesAssumption DEF S
<1>3. ASSUME NEW n \in 0..(NodeSizeMax + 1) PROVE SumBelow(f, n) \in Nat
  <2>1. SumBelow(f, 0) <= SumBelow(f, n)
    BY <1>2, SizesAssumption
  <2> QED  BY <1>1, <2>1, Sums
<1> QED
  BY <1>2, <1>3

-----------------------------------------------------------------------------
(* The sum over all slots, when entries are inserted, removed, halved or   *)
(* joined: f and g stand for the counters of bits or of ones before and    *)
(* after.                                                                  *)

Total(f) == SumBelow(f, NodeSizeMax + 1)

\* g is f with the number v in slot idx, the numbers from there to len moved up.
WithNumber(g, f, len, idx, v) ==
  \A i \in Slots : g[i] = IF i = idx THEN v
                        ELSE IF i \in (idx + 1)..len THEN f[i - 1] ELSE f[i]

\* The sum of an insertion is the old sum and the new number.
LEMMA InsertedSum ==
  ASSUME NEW f \in Numbers, NEW g \in Numbers, NEW len \in 0..NodeSizeMax,
         NEW idx \in 0..len, NEW v \in Int,
         \A i \in Slots : i >= len => f[i] = 0,
         WithNumber(g, f, len, idx, v)
  PROVE  Total(g) = Total(f) + v
<1>1. PICK m \in Nat, end \in Nat, all \in Nat :
        m = idx + 1 /\ end = len + 1 /\ all = NodeSizeMax + 1
  BY SizesAssumption
<1>2. /\ {idx, len, m, end, all} \subseteq 0..(NodeSizeMax + 1)
      /\ {idx, len} \subseteq Nat /\ idx \in Slots /\ end <= all /\ len <= all
  BY <1>1, SizesAssumption DEF Slots
<1>3. SumBelow(g, idx) = SumBelow(f, idx)
  BY <1>2, SameBelow, SizesAssumption DEF Slots, WithNumber
<1>4. SumBelow(g, m) = SumBelow(g, idx) + v
  <2>1. idx + 1 = m /\ g[idx] = v
    BY <1>1, <1>2 DEF WithNumber
  <2> QED  BY <1>2, <2>1, Sums
<1>5. SumBelow(g, end) - SumBelow(g, m) = SumBelow(f, len) - SumBelow(f, idx)
  <2>1. Copies(g, m, end, f, idx)
    <3> SUFFICES ASSUME NEW i \in m..(end - 1) PROVE g[i] = f[(i - m) + idx]
      BY DEF Copies
    <3>1. i \in (idx + 1)..len /\ i - 1 = (i - m) + idx /\ i \in Slots /\ i # idx
      BY <1>1, <1>2, SizesAssumption DEF Slots
    <3> QED  BY <3>1 DEF WithNumber
  <2>2. m <= end /\ end - m = len - idx /\ end <= NodeSizeMax + 1 /\ len <= NodeSizeMax + 1
        /\ idx \in Nat /\ len \in Nat
    BY <1>1, <1>2, SizesAssumption
  <2> QED  BY <2>1, <2>2, SameStretch, SizesAssumption
<1>6. SumBelow(f, all) = SumBelow(f, len)
  <2>1. \A i \in len..(all - 1) : f[i] = 0
    BY <1>1, <1>2, SizesAssumption DEF Slots
  <2> QED  BY <1>1, <1>2, <2>1, ZeroStretch
<1>7. SumBelow(g, all) = SumBelow(g, end)
  <2>1. \A i \in end..(all - 1) : g[i] = 0
    BY <1>1, <1>2, SizesAssumption DEF Slots, WithNumber
  <2> QED  BY <1>1, <1>2, <2>1, ZeroStretch
<1>8. /\ SumBelow(g, idx) \in Int /\ SumBelow(f, idx) \in Int
      /\ SumBelow(f, len) \in Int /\ SumBelow(g, end) \in Int
  BY <1>2, Sums
<1> QED
  BY <1>1, <1>3, <1>4, <1>5, <1>6, <1>7, <1>8 DEF Total

\* The sum of a removal is the old sum without the number removed.
LEMMA RemovedSum ==
  ASSUME NEW f \in Numbers, NEW g \in Numbers, NEW len \in 1..(NodeSizeMax + 1),
         NEW idx \in 0..(len - 1),
         \A i \in Slots : g[i] = IF i = len - 1 THEN 0
                               ELSE IF i \in idx..(len - 2) THEN f[i + 1] ELSE f[i]
  PROVE  Total(g) = Total(f) - f[idx]
<1>1. PICK m \in Nat, last \in Nat, all \in Nat :
        m = idx + 1 /\ last = len - 1 /\ all = NodeSizeMax + 1
  BY SizesAssumption
<1>2. /\ {idx, m, last, len, all} \subseteq 0..(NodeSizeMax + 1)
      /\ {idx, len} \subseteq Nat /\ {idx, last} \subseteq Slots
      /\ idx <= last /\ last <= len /\ len <= all
  BY <1>1, SizesAssumption DEF Slots
<1>3. SumBelow(g, idx) = SumBelow(f, idx)
  BY <1>2, SameBelow, SizesAssumption DEF Slots
<1>4. SumBelow(f, m) = SumBelow(f, idx) + f[idx] /\ f[idx] \in Int
  BY <1>1, <1>2, Sums DEF Numbers
<1>5. SumBelow(g, last) - SumBelow(g, idx) = SumBelow(f, len) - SumBelow(f, m)
  <2>1. Copies(g, idx, last, f, m)
    <3> SUFFICES ASSUME NEW i \in idx..(last - 1) PROVE g[i] = f[(i - idx) + m]
      BY DEF Copies
    <3>1. i \in idx..(len - 2) /\ i + 1 = (i - idx) + m /\ i \in Slots /\ i # len - 1
      BY <1>1, <1>2, SizesAssumption DEF Slots
    <3> QED  BY <3>1
  <2> QED  BY <1>1, <1>2, <2>1, SameStretch, SizesAssumption
<1>6. SumBelow(g, len) = SumBelow(g, last)
  <2>1. last + 1 = len /\ g[last] = 0
    BY <1>1, <1>2
  <2>2. SumBelow(g, last) \in Int
    BY <1>2, Sums
  <2>3. SumBelow(g, last + 1) = SumBelow(g, last) + g[last]
    BY <1>2, Sums
  <2> QED  BY <2>1, <2>2, <2>3
<1>7. SumBelow(g, all) - SumBelow(g, len) = SumBelow(f, all) - SumBelow(f, len)
  <2>1. Copies(g, len, all, f, len)
    BY <1>1, <1>2, SizesAssumption DEF Slots, Copies
  <2> QED  BY <1>1, <1>2, <2>1, SameStretch, SizesAssumption
<1>8. /\ SumBelow(g, idx) \in Int /\ SumBelow(f, idx) \in Int
      /\ SumBelow(g, last) \in Int /\ SumBelow(f, len) \in Int
      /\ SumBelow(g, all) \in Int /\ SumBelow(f, all) \in Int
  BY <1>2, Sums
<1> QED
  BY <1>1, <1>3, <1>4, <1>5, <1>6, <1>7, <1>8 DEF Total

\* The halves of a node have its sum together.
LEMMA HalvedSum ==
  ASSUME NEW f \in Numbers, NEW lower \in Numbers, NEW upper \in Numbers,
         NEW len \in 0..(NodeSizeMax + 1), NEW mid \in 0..len,
         \A i \in Slots : i >= len => f[i] = 0,
         \A i \in Slots : lower[i] = IF i < mid \/ i >= len THEN f[i] ELSE 0,
         \A i \in Slots : upper[i] = IF mid + i < len THEN f[mid + i] ELSE 0
  PROVE  Total(lower) + Total(upper) = Total(f)
<1>1. PICK r \in Nat, all \in Nat : r = len - mid /\ all = NodeSizeMax + 1
  BY SizesAssumption
<1>2. /\ {mid, len, r, all} \subseteq 0..(NodeSizeMax + 1)
      /\ {mid, len} \subseteq Nat /\ mid <= all /\ len <= all /\ r <= all
  BY <1>1, SizesAssumption
<1>3. SumBelow(lower, mid) = SumBelow(f, mid)
  BY <1>2, SameBelow, SizesAssumption DEF Slots
<1>4. SumBelow(lower, all) = SumBelow(lower, mid)
  <2>1. \A i \in mid..(all - 1) : lower[i] = 0
    BY <1>1, <1>2, SizesAssumption DEF Slots
  <2> QED  BY <1>1, <1>2, <2>1, ZeroStretch
<1>5. SumBelow(upper, r) - SumBelow(upper, 0) = SumBelow(f, len) - SumBelow(f, mid)
  <2>1. Copies(upper, 0, r, f, mid)
    <3> SUFFICES ASSUME NEW i \in 0..(r - 1) PROVE upper[i] = f[(i - 0) + mid]
      BY DEF Copies
    <3>1. i \in Slots /\ mid + i < len /\ (i - 0) + mid = mid + i
      BY <1>1, <1>2, SizesAssumption DEF Slots
    <3> QED  BY <3>1
  <2> QED  BY <1>1, <1>2, <2>1, SameStretch, SizesAssumption
<1>6. SumBelow(upper, all) = SumBelow(upper, r)
  <2>1. \A i \in r..(all - 1) : upper[i] = 0
    BY <1>1, <1>2, SizesAssumption DEF Slots
  <2> QED  BY <1>1, <1>2, <2>1, ZeroStretch
<1>7. SumBelow(f, all) = SumBelow(f, len)
  <2>1. \A i \in len..(all - 1) : f[i] = 0
    BY <1>1, <1>2, SizesAssumption DEF Slots
  <2> QED  BY <1>1, <1>2, <2>1, ZeroStretch
<1>8. /\ SumBelow(upper, 0) = 0 /\ SumBelow(upper, r) \in Int
      /\ SumBelow(f, mid) \in Int /\ SumBelow(f, len) \in Int
  BY <1>2, Sums
<1> QED
  BY <1>1, <1>3, <1>4, <1>5, <1>6, <1>7, <1>8 DEF Total

\* Joining adds the sum of what is joined.
LEMMA JoinedSum ==
  ASSUME NEW f \in Numbers, NEW more \in Numbers, NEW g \in Numbers,
         NEW len \in Nat, NEW n \in Nat, len + n <= NodeSizeMax + 1,
         \A i \in Slots : i >= len => f[i] = 0,
         \A i \in Slots : g[i] = IF i \in len..(len + n - 1) THEN more[i - len] ELSE f[i]
  PROVE  Total(g) = Total(f) + SumBelow(more, n)
<1>1. PICK end \in Nat, all \in Nat : end = len + n /\ all = NodeSizeMax + 1
  BY SizesAssumption
<1>2. {len, n, end, all} \subseteq 0..(NodeSizeMax + 1) /\ len <= all /\ end <= all
  BY <1>1, SizesAssumption
<1>3. SumBelow(g, len) = SumBelow(f, len)
  BY <1>2, SameBelow, SizesAssumption DEF Slots
<1>4. SumBelow(g, end) - SumBelow(g, len) = SumBelow(more, n) - SumBelow(more, 0)
  <2>1. Copies(g, len, end, more, 0)
    <3> SUFFICES ASSUME NEW i \in len..(end - 1) PROVE g[i] = more[(i - len) + 0]
      BY DEF Copies
    <3>1. i \in Slots /\ i \in len..(len + n - 1) /\ (i - len) + 0 = i - len
      BY <1>1, <1>2, SizesAssumption DEF Slots
    <3> QED  BY <3>1
  <2> QED  BY <1>1, <1>2, <2>1, SameStretch, SizesAssumption
<1>5. SumBelow(f, all) = SumBelow(f, len)
  <2>1. \A i \in len..(all - 1) : f[i] = 0
    BY <1>1, <1>2, SizesAssumption DEF Slots
  <2> QED  BY <1>1, <1>2, <2>1, ZeroStretch
<1>6. SumBelow(g, all) = SumBelow(g, end)
  <2>1. \A i \in end..(all - 1) : g[i] = 0
    BY <1>1, <1>2, SizesAssumption DEF Slots
  <2> QED  BY <1>1, <1>2, <2>1, ZeroStretch
<1>7. /\ SumBelow(more, 0) = 0 /\ SumBelow(more, n) \in Int
      /\ SumBelow(f, len) \in Int /\ SumBelow(g, end) \in Int
  BY <1>2, Sums
<1> QED
  BY <1>1, <1>3, <1>4, <1>5, <1>6, <1>7 DEF Total

-----------------------------------------------------------------------------
(* Bit vectors: their ones, and the parts they are made of.                *)

Ones(bv) == {i \in DOMAIN bv : bv[i]}

\* The ones of a bit vector are positions in it.
LEMMA OnesType ==
  ASSUME NEW bv \in Seq(BOOLEAN)
  PROVE  /\ Ones(bv) \subseteq 1..Len(bv) /\ IsFiniteSet(Ones(bv))
         /\ CountOnes(bv) = (IF CountsOnes THEN Cardinality(Ones(bv)) ELSE 0)
         /\ CountOnes(bv) \in 0..Len(bv)
<1>1. Len(bv) \in Nat /\ DOMAIN bv = 1..Len(bv)
  OBVIOUS
<1>2. IsFiniteSet(1..Len(bv)) /\ Cardinality(1..Len(bv)) = Len(bv)
  BY <1>1, FS_Interval
<1>3. Ones(bv) \in SUBSET (1..Len(bv))
  BY <1>1 DEF Ones
<1>4. IsFiniteSet(Ones(bv)) /\ Cardinality(Ones(bv)) <= Len(bv)
  BY <1>2, <1>3, FS_Subset
<1>5. Cardinality(Ones(bv)) \in Nat
  BY <1>4, FS_CardinalityType
<1>6. CountOnes(bv) = (IF CountsOnes THEN Cardinality(Ones(bv)) ELSE 0)
  BY DEF CountOnes, Ones
<1> QED
  BY <1>1, <1>3, <1>4, <1>5, <1>6, UseAssumption

\* As many bits are set in two vectors together as in both.
LEMMA OnesOfConcat ==
  ASSUME NEW a \in Seq(BOOLEAN), NEW c \in Seq(BOOLEAN)
  PROVE  CountOnes(a \o c) = CountOnes(a) + CountOnes(c)
<1> DEFINE l == Len(a)
           Up == {i \in (l + 1)..(l + Len(c)) : c[i - l]}
           f == [i \in Ones(c) |-> i + l]
<1>1. a \o c \in Seq(BOOLEAN) /\ l \in Nat /\ Len(c) \in Nat
  OBVIOUS
<1>2. Ones(a \o c) = Ones(a) \cup Up
  BY <1>1 DEF Ones
<1>3. Ones(a) \cap Up = {}
  BY <1>1 DEF Ones
<1>4. IsFiniteSet(Up) /\ Cardinality(Up) = Cardinality(Ones(c))
  <2>1. f \in [Ones(c) -> Up]
    BY <1>1 DEF Ones
  <2>2. \A i, j \in Ones(c) : f[i] = f[j] => i = j
    BY <1>1 DEF Ones
  <2>3. \A j \in Up : \E i \in Ones(c) : f[i] = j
    <3> SUFFICES ASSUME NEW j \in Up PROVE \E i \in Ones(c) : f[i] = j
      OBVIOUS
    <3>1. j - l \in Ones(c) /\ f[j - l] = j
      BY <1>1 DEF Ones
    <3> QED  BY <3>1
  <2> HIDE DEF f, Up
  <2>4. f \in Bijection(Ones(c), Up)
    BY <2>1, <2>2, <2>3, Fun_IsBij
  <2>5. ExistsBijection(Ones(c), Up)
    BY <2>4 DEF ExistsBijection
  <2> QED  BY <2>5, OnesType, FS_Bijection
<1> HIDE DEF Up
<1>5. Cardinality({}) = 0
  BY FS_EmptySet
<1>6. Cardinality(Ones(a \o c))
      = Cardinality(Ones(a)) + Cardinality(Ones(c)) - Cardinality({})
  BY <1>2, <1>3, <1>4, OnesType, FS_Union
<1>7. Cardinality(Ones(a)) \in Nat /\ Cardinality(Ones(c)) \in Nat
  BY OnesType, FS_CardinalityType
<1>8. \A bv \in Seq(BOOLEAN) :
        CountOnes(bv) = IF CountsOnes THEN Cardinality(Ones(bv)) ELSE 0
  BY OnesType
<1>9. /\ CountOnes(a \o c) = IF CountsOnes THEN Cardinality(Ones(a \o c)) ELSE 0
      /\ CountOnes(a) = IF CountsOnes THEN Cardinality(Ones(a)) ELSE 0
      /\ CountOnes(c) = IF CountsOnes THEN Cardinality(Ones(c)) ELSE 0
  BY <1>1, <1>8
<1>10. CASE CountsOnes
  BY <1>5, <1>6, <1>7, <1>9, <1>10
<1>11. CASE ~CountsOnes
  BY <1>9, <1>11
<1> QED
  BY <1>10, <1>11

\* A vector is its first n bits and those without the first n.
LEMMA PrefixSuffix ==
  ASSUME NEW bv \in Seq(BOOLEAN), NEW n \in 0..Len(bv)
  PROVE  /\ Prefix(bv, n) \in Seq(BOOLEAN) /\ Len(Prefix(bv, n)) = n
         /\ Suffix(bv, n) \in Seq(BOOLEAN) /\ Len(Suffix(bv, n)) = Len(bv) - n
         /\ Prefix(bv, n) \o Suffix(bv, n) = bv
         /\ CountOnes(Prefix(bv, n)) + CountOnes(Suffix(bv, n)) = CountOnes(bv)
<1>1. Prefix(bv, n) \in Seq(BOOLEAN) /\ Len(Prefix(bv, n)) = n
  BY DEF Prefix
<1>2. Suffix(bv, n) \in Seq(BOOLEAN) /\ Len(Suffix(bv, n)) = Len(bv) - n
  BY DEF Suffix
<1>3. Prefix(bv, n) \o Suffix(bv, n) = bv
  <2>1. 1 \in 1..(Len(bv) + 1) /\ n \in (1 - 1)..Len(bv) /\ Len(bv) \in n..Len(bv)
    OBVIOUS
  <2>2. SubSeq(bv, 1, n) \o SubSeq(bv, n + 1, Len(bv)) = SubSeq(bv, 1, Len(bv))
    BY <2>1, ConcatAdjacentSubSeq
  <2> QED  BY <2>2, SubSeqFull DEF Prefix, Suffix
<1> QED
  BY <1>1, <1>2, <1>3, OnesOfConcat

\* Changing a bit changes the number of ones by one.
LEMMA OnesOfChange ==
  ASSUME NEW bv \in Seq(BOOLEAN), NEW i \in 1..Len(bv), NEW v \in BOOLEAN, bv[i] # v
  PROVE  /\ [bv EXCEPT ![i] = v] \in Seq(BOOLEAN)
         /\ Len([bv EXCEPT ![i] = v]) = Len(bv)
         /\ CountOnes([bv EXCEPT ![i] = v])
            = CountOnes(bv) + (IF CountsOnes THEN IF v THEN 1 ELSE -1 ELSE 0)
<1> DEFINE c == [bv EXCEPT ![i] = v]
<1>1. c \in Seq(BOOLEAN) /\ Len(c) = Len(bv)
  OBVIOUS
<1>2. Ones(c) = IF v THEN Ones(bv) \cup {i} ELSE Ones(bv) \ {i}
  BY DEF Ones
<1>3. v <=> i \notin Ones(bv)
  BY DEF Ones
<1>4. IsFiniteSet(Ones(bv)) /\ Cardinality(Ones(bv)) \in Nat
  BY OnesType, FS_CardinalityType
<1> HIDE DEF c
<1>5. Cardinality(Ones(c)) = Cardinality(Ones(bv)) + (IF v THEN 1 ELSE -1)
  <2>1. CASE v
    BY <1>2, <1>3, <1>4, <2>1, FS_AddElement
  <2>2. CASE ~v
    BY <1>2, <1>3, <1>4, <2>2, FS_RemoveElement
  <2> QED  BY <2>1, <2>2
<1>6. CountOnes(c) = CountOnes(bv) + (IF CountsOnes THEN IF v THEN 1 ELSE -1 ELSE 0)
  BY <1>1, <1>4, <1>5, OnesType
<1> QED
  BY <1>1, <1>6 DEF c

\* A block of new bits holds no one.
LEMMA OnesOfZeros ==
  LET zeros == [i \in 1..BlockSize |-> FALSE]
  IN  zeros \in Seq(BOOLEAN) /\ Len(zeros) = BlockSize /\ CountOnes(zeros) = 0
<1> DEFINE zeros == [i \in 1..BlockSize |-> FALSE]
<1>1. zeros \in Seq(BOOLEAN) /\ Len(zeros) = BlockSize
  BY SizesAssumption
<1>2. Ones(zeros) = {}
  BY DEF Ones
<1> HIDE DEF zeros
<1>3. CountOnes(zeros) = 0
  BY <1>1, <1>2, OnesType, FS_EmptySet
<1> QED
  BY <1>1, <1>3 DEF zeros

-----------------------------------------------------------------------------
(* Whole numbers of blocks.                                                *)

Whole(n) == n % BlockSize = 0

\* A whole number of blocks is so many times the size of a block.
LEMMA WholeIsProduct ==
  /\ \A q \in Int : Whole(q * BlockSize) /\ (q * BlockSize) \div BlockSize = q
  /\ \A n \in Int : Whole(n) => n \div BlockSize \in Int
                                /\ n = (n \div BlockSize) * BlockSize
<1>1. ASSUME NEW q \in Int PROVE Whole(q * BlockSize) /\ (q * BlockSize) \div BlockSize = q
  BY SizesAssumption DEF Whole
<1>2. ASSUME NEW n \in Int, Whole(n)
      PROVE  n \div BlockSize \in Int /\ n = (n \div BlockSize) * BlockSize
  BY <1>2, SizesAssumption DEF Whole
<1> QED
  BY <1>1, <1>2

\* Sums and differences of whole numbers of blocks are whole.
LEMMA WholeSums ==
  /\ Whole(0) /\ Whole(BlockSize) /\ Whole(-BlockSize)
  /\ \A m, n \in Int : Whole(m) /\ Whole(n) => Whole(m + n) /\ Whole(m - n)
<1>1. 0 = 0 * BlockSize /\ BlockSize = 1 * BlockSize /\ -BlockSize = (-1) * BlockSize
  BY SizesAssumption
<1>2. ASSUME NEW m \in Int, NEW n \in Int, Whole(m), Whole(n) PROVE Whole(m + n) /\ Whole(m - n)
  <2>1. PICK p \in Int : m = p * BlockSize
    BY <1>2, WholeIsProduct
  <2>2. PICK q \in Int : n = q * BlockSize
    BY <1>2, WholeIsProduct
  <2>3. m + n = (p + q) * BlockSize /\ m - n = (p - q) * BlockSize
    BY <2>1, <2>2, SizesAssumption
  <2>4. p + q \in Int /\ p - q \in Int
    OBVIOUS
  <2> QED  BY <2>3, <2>4, WholeIsProduct
<1> QED
  BY <1>1, <1>2, WholeIsProduct, -1 \in Int, 0 \in Int, 1 \in Int

\* Between a whole number of blocks and a larger one lies a block.
LEMMA WholeGap ==
  \A m, n \in Int : Whole(m) /\ Whole(n) /\ m < n => m + BlockSize <= n
<1> SUFFICES ASSUME NEW m \in Int, NEW n \in Int, Whole(m), Whole(n), m < n
             PROVE  m + BlockSize <= n
  OBVIOUS
<1>1. PICK p \in Int : m = p * BlockSize
  BY WholeIsProduct
<1>2. PICK q \in Int : n = q * BlockSize
  BY WholeIsProduct
<1>3. p < q
  BY <1>1, <1>2, SizesAssumption
<1>4. (p + 1) * BlockSize <= q * BlockSize
  BY <1>3, SizesAssumption
<1>5. (p + 1) * BlockSize = p * BlockSize + BlockSize
  BY SizesAssumption
<1> QED
  BY <1>1, <1>2, <1>4, <1>5

\* A leaf of l blocks is split after (l \div 2) blocks.
LEMMA MiddleOfLeaf ==
  ASSUME NEW l \in Nat
  PROVE  LET half == (l * BlockSize) \div 2
         IN  half - (half % BlockSize) = (l \div 2) * BlockSize
<1> DEFINE half == (l * BlockSize) \div 2
           q == l \div 2
<1>1. q \in Nat /\ (l = 2 * q \/ l = 2 * q + 1)
  OBVIOUS
<1>2. CASE l = 2 * q
  <2>1. l * BlockSize = 2 * (q * BlockSize) /\ q * BlockSize \in Nat
    BY <1>1, <1>2, SizesAssumption
  <2>2. half = q * BlockSize
    BY <2>1
  <2>3. half % BlockSize = 0
    BY <1>1, <2>2, WholeIsProduct DEF Whole
  <2> QED  BY <2>1, <2>2, <2>3
<1>3. CASE l = 2 * q + 1
  <2>1. l * BlockSize = 2 * (q * BlockSize) + BlockSize /\ q * BlockSize \in Nat
    BY <1>1, <1>3, SizesAssumption
  <2>2. PICK r \in Nat : half = q * BlockSize + r /\ r < BlockSize
    <3>1. BlockSize \div 2 \in Nat /\ BlockSize \div 2 < BlockSize
      BY SizesAssumption
    <3>2. half = q * BlockSize + BlockSize \div 2
      BY <2>1, SizesAssumption
    <3> QED  BY <3>1, <3>2
  <2>3. half % BlockSize = r
    <3> DEFINE d == half \div BlockSize
               e == half % BlockSize
    <3>1. d \in Int /\ e \in 0..(BlockSize - 1) /\ half = d * BlockSize + e
      BY <2>1, SizesAssumption
    <3> HIDE DEF d, e
    <3>2. ~(d < q)
      <4>1. d < q => (d + 1) * BlockSize <= q * BlockSize
        BY <1>1, <3>1, SizesAssumption
      <4>2. (d + 1) * BlockSize = d * BlockSize + BlockSize
        BY <3>1, SizesAssumption
      <4> QED  BY <1>1, <2>1, <2>2, <3>1, <4>1, <4>2, SizesAssumption
    <3>3. ~(q < d)
      <4>1. q < d => (q + 1) * BlockSize <= d * BlockSize
        BY <1>1, <3>1, SizesAssumption
      <4>2. (q + 1) * BlockSize = q * BlockSize + BlockSize
        BY <1>1, SizesAssumption
      <4> QED  BY <1>1, <2>1, <2>2, <3>1, <4>1, <4>2, SizesAssumption
    <3>4. d = q
      BY <1>1, <3>1, <3>2, <3>3
    <3> QED  BY <2>1, <2>2, <3>1, <3>4, SizesAssumption DEF e
  <2> QED  BY <2>1, <2>2, <2>3
<1> QED
  BY <1>1, <1>2, <1>3

-----------------------------------------------------------------------------
\* Nodes whose counters may be wrong, even negative, while a call runs.
RoughNodes ==
  [isLeaf : BOOLEAN, parent : Nat, indexInParent : Slots, bv : Seq(BOOLEAN),
   size : 0..(NodeSizeMax + 1), entries : [Slots -> [b : Int, o : Int, P : Nat]]]

Heap(heap) == /\ heap \in [DOMAIN heap -> RoughNodes]
              /\ DOMAIN heap \subseteq Nat \ {nullptr}
              /\ IsFiniteSet(DOMAIN heap)

Bs(entries) == [i \in Slots |-> entries[i].b]
Os(entries) == [i \in Slots |-> entries[i].o]

\* The fields of node m, by name: the proofs seldom look into the records.
IsLeaf(heap, m) == heap[m].isLeaf
Up(heap, m) == heap[m].parent
Index(heap, m) == heap[m].indexInParent
Bv(heap, m) == heap[m].bv
Width(heap, m) == heap[m].size
Row(heap, m) == heap[m].entries
Bits(heap, m) == bits(heap[m])
OnesAt(heap, m) == ones(heap[m])

\* The entry in slot i of a row, and the child it points to.
Slot(row, i) == row[i]
Kid(row, i) == row[i].P

\* The entries in the slots of D point to different children.
Distinct(row, D) == \A i, j \in D : Kid(row, i) = Kid(row, j) => i = j

Strings == Seq(BOOLEAN)
Rows == [Slots -> [b : Int, o : Int, P : Nat]]

\* What Place can be given.
Placeable(row, len, moved) ==
  /\ row \in Rows /\ len \in 0..(NodeSizeMax + 1)
  /\ moved \subseteq Slots /\ Distinct(row, moved)

\* The nodes keep their kind, their bits and, but for n, their rows.
Keeps(heap, H, n) ==
  /\ Heap(H) /\ DOMAIN H = DOMAIN heap
  /\ \A m \in DOMAIN heap : IsLeaf(H, m) = IsLeaf(heap, m) /\ Bv(H, m) = Bv(heap, m)
  /\ \A m \in DOMAIN heap \ {n} : Width(H, m) = Width(heap, m) /\ Row(H, m) = Row(heap, m)

\* They keep their place.
Stays(heap, H) ==
  \A m \in DOMAIN heap : Up(H, m) = Up(heap, m) /\ Index(H, m) = Index(heap, m)

\* The bits and ones of a node, by its kind.
LEMMA Amounts ==
  ASSUME NEW x \in RoughNodes
  PROVE  /\ Bs(x.entries) \in Numbers /\ Os(x.entries) \in Numbers
         /\ x.isLeaf => bits(x) = Len(x.bv) /\ ones(x) = CountOnes(x.bv)
         /\ ~x.isLeaf => bits(x) = Total(Bs(x.entries)) /\ ones(x) = Total(Os(x.entries))
         /\ bits(x) \in Int /\ ones(x) \in Int
<1>1. Bs(x.entries) \in Numbers /\ Os(x.entries) \in Numbers
  BY DEF Bs, Os, Numbers, RoughNodes
<1>2. x.isLeaf => bits(x) = Len(x.bv) /\ ones(x) = CountOnes(x.bv)
  BY DEF bits, ones
<1>3. ~x.isLeaf => bits(x) = Total(Bs(x.entries)) /\ ones(x) = Total(Os(x.entries))
  BY DEF bits, ones, BitsBelow, OnesBelow, Total, Bs, Os
<1>4. Total(Bs(x.entries)) \in Int /\ Total(Os(x.entries)) \in Int
  BY <1>1, Sums, SizesAssumption DEF Total
<1>5. Len(x.bv) \in Int /\ CountOnes(x.bv) \in Int
  BY OnesType DEF RoughNodes
<1> QED
  BY <1>1, <1>2, <1>3, <1>4, <1>5

\* The same by name.
LEMMA NamedAmounts ==
  ASSUME NEW heap, Heap(heap), NEW m \in DOMAIN heap
  PROVE  /\ heap[m] \in RoughNodes /\ m \in Nat \ {nullptr}
         /\ Up(heap, m) \in Nat /\ Index(heap, m) \in Slots
         /\ Width(heap, m) \in 0..(NodeSizeMax + 1)
         /\ Bv(heap, m) \in Seq(BOOLEAN) /\ Row(heap, m) \in Rows
         /\ Bs(Row(heap, m)) \in Numbers /\ Os(Row(heap, m)) \in Numbers
         /\ Bits(heap, m) \in Int /\ OnesAt(heap, m) \in Int
         /\ IsLeaf(heap, m) => /\ Bits(heap, m) = Len(Bv(heap, m))
                               /\ OnesAt(heap, m) = CountOnes(Bv(heap, m))
         /\ ~IsLeaf(heap, m) => /\ Bits(heap, m) = Total(Bs(Row(heap, m)))
                                /\ OnesAt(heap, m) = Total(Os(Row(heap, m)))
<1> DEFINE x == heap[m]
<1>1. x \in RoughNodes /\ m \in Nat \ {nullptr}
  BY DEF Heap
<1>2. /\ x.parent \in Nat /\ x.indexInParent \in Slots
      /\ x.size \in 0..(NodeSizeMax + 1)
      /\ x.bv \in Seq(BOOLEAN) /\ x.entries \in Rows
  BY <1>1 DEF RoughNodes, Rows
<1> HIDE DEF x
<1>3. /\ Bs(x.entries) \in Numbers /\ Os(x.entries) \in Numbers
      /\ x.isLeaf => bits(x) = Len(x.bv) /\ ones(x) = CountOnes(x.bv)
      /\ ~x.isLeaf => bits(x) = Total(Bs(x.entries)) /\ ones(x) = Total(Os(x.entries))
      /\ bits(x) \in Int /\ ones(x) \in Int
  BY <1>1, Amounts
<1> QED
  BY <1>1, <1>2, <1>3 DEF x, IsLeaf, Up, Index, Width, Bv, Row, Bits, OnesAt

\* Nodes of one kind with the same bits and the same row hold the same.
LEMMA SameAmounts ==
  ASSUME NEW heap, NEW H, NEW m, IsLeaf(H, m) = IsLeaf(heap, m),
         Bv(H, m) = Bv(heap, m), Row(H, m) = Row(heap, m)
  PROVE  Bits(H, m) = Bits(heap, m) /\ OnesAt(H, m) = OnesAt(heap, m)
<1>1. ASSUME NEW x, NEW y, x.isLeaf = y.isLeaf, x.bv = y.bv, x.entries = y.entries
      PROVE  bits(x) = bits(y) /\ ones(x) = ones(y)
  BY <1>1 DEF bits, ones, BitsBelow, OnesBelow
<1> QED
  BY <1>1 DEF IsLeaf, Bv, Row, Bits, OnesAt

-----------------------------------------------------------------------------
(* The fields of the changed nodes.                                        *)

\* Place changes the entries and size of n and the index of what it moves.
LEMMA PlaceFields ==
  ASSUME NEW heap, Heap(heap), NEW n \in DOMAIN heap,
         NEW entries, NEW newSize, NEW moved, Placeable(entries, newSize, moved)
  PROVE  LET H == Place(heap, n, entries, newSize, moved)
         IN  /\ Keeps(heap, H, n) /\ Row(H, n) = entries /\ Width(H, n) = newSize
             /\ \A m \in DOMAIN heap :
                  /\ Up(H, m) = Up(heap, m)
                  /\ (\A i \in moved : Kid(entries, i) # m) => Index(H, m) = Index(heap, m)
             /\ \A i \in moved : Kid(entries, i) \in DOMAIN heap
                                   => Index(H, Kid(entries, i)) = i
<1> DEFINE W == WithIndex(heap, entries, moved)
           H == Place(heap, n, entries, newSize, moved)
           Hit(m) == \E i \in moved : Kid(entries, i) = m
           spot(m) == CHOOSE i \in moved : Kid(entries, i) = m
<1> USE DEF Placeable
<1>1. ASSUME NEW m \in DOMAIN heap, Hit(m)
      PROVE  spot(m) \in moved /\ Kid(entries, spot(m)) = m
  BY <1>1, Zenon
<1>2. W = [m \in DOMAIN heap |-> IF Hit(m) THEN [heap[m] EXCEPT !.indexInParent = spot(m)]
                                 ELSE heap[m]]
  BY DEF WithIndex, Kid
<1>3. H = [W EXCEPT ![n].entries = entries, ![n].size = newSize]
  BY DEF Place
<1> HIDE DEF W, H, spot
<1>4. ASSUME NEW m \in DOMAIN heap
      PROVE  /\ W[m] \in RoughNodes
             /\ W[m].isLeaf = heap[m].isLeaf /\ W[m].parent = heap[m].parent
             /\ W[m].bv = heap[m].bv /\ W[m].entries = heap[m].entries
             /\ W[m].size = heap[m].size
             /\ W[m].indexInParent = IF Hit(m) THEN spot(m) ELSE heap[m].indexInParent
  <2>1. heap[m] \in RoughNodes
    BY DEF Heap
  <2>2. CASE Hit(m)
    <3>1. spot(m) \in Slots
      BY <1>1, <2>2
    <3>2. W[m] = [heap[m] EXCEPT !.indexInParent = spot(m)]
      BY <1>2, <2>2
    <3> QED  BY <2>1, <2>2, <3>1, <3>2 DEF RoughNodes
  <2>3. CASE ~Hit(m)
    BY <1>2, <2>1, <2>3 DEF RoughNodes
  <2> QED  BY <2>2, <2>3
<1>5. DOMAIN W = DOMAIN heap
  BY <1>2
<1>6. /\ H = [m \in DOMAIN heap |-> H[m]]
      /\ \A m \in DOMAIN heap \ {n} : H[m] = W[m]
      /\ H[n] = [W[n] EXCEPT !.entries = entries, !.size = newSize]
  <2> HIDE DEF Placeable, Hit
  <2>1. PICK V : V = [W EXCEPT ![n].entries = entries]
    OBVIOUS
  <2>2. /\ DOMAIN V = DOMAIN heap /\ \A m \in DOMAIN heap \ {n} : V[m] = W[m]
        /\ V[n] = [W[n] EXCEPT !.entries = entries]
    BY <1>5, <2>1
  <2>3. H = [V EXCEPT ![n].size = newSize]
    BY <1>3, <2>1
  <2>4. /\ H = [m \in DOMAIN heap |-> H[m]]
        /\ \A m \in DOMAIN heap \ {n} : H[m] = V[m]
        /\ H[n] = [V[n] EXCEPT !.size = newSize]
    BY <2>2, <2>3
  <2>5. H[n] = [W[n] EXCEPT !.entries = entries, !.size = newSize]
    BY <2>2, <2>4
  <2> QED  BY <2>2, <2>4, <2>5
<1>7. ASSUME NEW m \in DOMAIN heap
      PROVE  /\ H[m] \in RoughNodes
             /\ H[m].isLeaf = heap[m].isLeaf /\ H[m].parent = heap[m].parent
             /\ H[m].bv = heap[m].bv
             /\ H[m].entries = IF m = n THEN entries ELSE heap[m].entries
             /\ H[m].size = IF m = n THEN newSize ELSE heap[m].size
             /\ H[m].indexInParent = IF Hit(m) THEN spot(m) ELSE heap[m].indexInParent
  <2> HIDE DEF Hit
  <2>1. CASE m # n
    BY <1>4, <1>6, <2>1
  <2>2. CASE m = n
    <3>1. PICK w \in RoughNodes : w = W[n]
      BY <1>4
    <3>2. H[m] = [w EXCEPT !.entries = entries, !.size = newSize]
      BY <1>6, <2>2, <3>1
    <3>3. /\ H[m] \in RoughNodes
          /\ H[m].isLeaf = w.isLeaf /\ H[m].parent = w.parent /\ H[m].bv = w.bv
          /\ H[m].entries = entries /\ H[m].size = newSize
          /\ H[m].indexInParent = w.indexInParent
      BY <3>1, <3>2 DEF RoughNodes, Rows
    <3> QED  BY <1>4, <2>2, <3>1, <3>3
  <2> QED  BY <2>1, <2>2
<1>8. DOMAIN H = DOMAIN heap /\ Heap(H)
  BY <1>6, <1>7 DEF Heap
<1>9. ASSUME NEW i \in moved, Kid(entries, i) \in DOMAIN heap
      PROVE  Index(H, Kid(entries, i)) = i
  <2>1. PICK c \in DOMAIN heap : c = Kid(entries, i)
    BY <1>9
  <2>2. Hit(c) /\ spot(c) = i
    BY <1>1, <2>1 DEF Distinct
  <2> QED  BY <1>7, <2>1, <2>2 DEF Index
<1>10. Keeps(heap, H, n) /\ Row(H, n) = entries /\ Width(H, n) = newSize
  BY <1>7, <1>8 DEF Keeps, IsLeaf, Bv, Width, Row
<1>11. ASSUME NEW m \in DOMAIN heap
       PROVE  /\ Up(H, m) = Up(heap, m)
              /\ ~Hit(m) => Index(H, m) = Index(heap, m)
  BY <1>7 DEF Up, Index
<1> QED
  BY <1>9, <1>10, <1>11 DEF H

\* AddToEntry changes the two counters of one entry.
LEMMA AddToEntryFields ==
  ASSUME NEW heap, Heap(heap), NEW n \in DOMAIN heap, NEW idx \in Slots,
         NEW dBits \in Int, NEW dOnes \in Int
  PROVE  LET H == AddToEntry(heap, n, idx, dBits, dOnes)
             old == Row(heap, n)
         IN  /\ Keeps(heap, H, n) /\ Stays(heap, H) /\ Width(H, n) = Width(heap, n)
             /\ \A i \in Slots : Kid(Row(H, n), i) = Kid(old, i)
             /\ \A i \in Slots \ {idx} : Slot(Row(H, n), i) = Slot(old, i)
             /\ Slot(Row(H, n), idx).b = Slot(old, idx).b + dBits
             /\ Slot(Row(H, n), idx).o = Slot(old, idx).o + dOnes
<1> DEFINE e == heap[n].entries
           new == [b |-> e[idx].b + dBits, o |-> e[idx].o + dOnes, P |-> e[idx].P]
           x == [heap[n] EXCEPT !.entries = [e EXCEPT ![idx] = new]]
           H == AddToEntry(heap, n, idx, dBits, dOnes)
<1>1. heap[n] \in RoughNodes /\ e \in [Slots -> [b : Int, o : Int, P : Nat]]
  BY DEF Heap, RoughNodes
<1>2. H = [heap EXCEPT ![n] = x]
  <2>1. /\ DOMAIN H = DOMAIN heap /\ \A m \in DOMAIN heap \ {n} : H[m] = heap[m]
        /\ H = [m \in DOMAIN heap |-> H[m]]
    BY DEF AddToEntry, Heap
  <2>2. H[n] = [heap[n] EXCEPT !.entries[idx].b = @ + dBits, !.entries[idx].o = @ + dOnes]
    BY DEF AddToEntry, Heap
  <2>3. H[n] = [heap[n] EXCEPT !.entries = [e EXCEPT ![idx].b = @ + dBits, ![idx].o = @ + dOnes]]
    BY <1>1, <2>2 DEF RoughNodes
  <2>4. [e EXCEPT ![idx].b = @ + dBits, ![idx].o = @ + dOnes] = [e EXCEPT ![idx] = new]
    BY <1>1
  <2> QED  BY <2>1, <2>3, <2>4 DEF Heap
<1>3. new \in [b : Int, o : Int, P : Nat]
  BY <1>1
<1>4. /\ x \in RoughNodes /\ x.entries = [e EXCEPT ![idx] = new]
      /\ x.isLeaf = heap[n].isLeaf /\ x.parent = heap[n].parent /\ x.bv = heap[n].bv
      /\ x.size = heap[n].size /\ x.indexInParent = heap[n].indexInParent
  <2> HIDE DEF new
  <2> QED  BY <1>1, <1>3 DEF RoughNodes
<1> HIDE DEF x, H, new
<1>5. DOMAIN H = DOMAIN heap /\ H[n] = x /\ \A m \in DOMAIN heap \ {n} : H[m] = heap[m]
  BY <1>2 DEF Heap
<1>6. Heap(H)
  BY <1>2, <1>4 DEF Heap
<1>7. Keeps(heap, H, n) /\ Stays(heap, H) /\ Width(H, n) = Width(heap, n)
  BY <1>4, <1>5, <1>6 DEF Keeps, Stays, IsLeaf, Bv, Width, Row, Up, Index
<1>8. Row(H, n) = [e EXCEPT ![idx] = new] /\ Row(heap, n) = e
  BY <1>4, <1>5 DEF Row
<1>9. /\ \A i \in Slots : Kid(Row(H, n), i) = Kid(e, i)
      /\ \A i \in Slots \ {idx} : Slot(Row(H, n), i) = Slot(e, i)
      /\ Slot(Row(H, n), idx).b = Slot(e, idx).b + dBits
      /\ Slot(Row(H, n), idx).o = Slot(e, idx).o + dOnes
  BY <1>1, <1>8 DEF new, Kid, Slot
<1> QED
  BY <1>7, <1>8, <1>9 DEF H

\* WithBits changes the bits of one leaf.
LEMMA WithBitsFields ==
  ASSUME NEW heap, Heap(heap), NEW n \in DOMAIN heap, NEW bv \in Seq(BOOLEAN)
  PROVE  LET H == WithBits(heap, n, bv)
         IN  /\ Heap(H) /\ DOMAIN H = DOMAIN heap /\ Stays(heap, H) /\ Bv(H, n) = bv
             /\ \A m \in DOMAIN heap \ {n} : Bv(H, m) = Bv(heap, m)
             /\ \A m \in DOMAIN heap : /\ IsLeaf(H, m) = IsLeaf(heap, m)
                                       /\ Width(H, m) = Width(heap, m)
                                       /\ Row(H, m) = Row(heap, m)
<1> DEFINE H == WithBits(heap, n, bv)
<1>1. /\ Heap(H) /\ DOMAIN H = DOMAIN heap
      /\ \A m \in DOMAIN heap :
           /\ H[m].isLeaf = heap[m].isLeaf /\ H[m].parent = heap[m].parent
           /\ H[m].indexInParent = heap[m].indexInParent
           /\ H[m].size = heap[m].size /\ H[m].entries = heap[m].entries
           /\ H[m].bv = IF m = n THEN bv ELSE heap[m].bv
  BY DEF WithBits, Heap, RoughNodes
<1> HIDE DEF H
<1>2. /\ Heap(H) /\ DOMAIN H = DOMAIN heap /\ Stays(heap, H) /\ Bv(H, n) = bv
      /\ \A m \in DOMAIN heap \ {n} : Bv(H, m) = Bv(heap, m)
      /\ \A m \in DOMAIN heap : /\ IsLeaf(H, m) = IsLeaf(heap, m)
                                /\ Width(H, m) = Width(heap, m)
                                /\ Row(H, m) = Row(heap, m)
  BY <1>1 DEF Stays, IsLeaf, Bv, Width, Row, Up, Index
<1> QED
  BY <1>2 DEF H

\* Allocate adds a node.
LEMMA AllocateFields ==
  ASSUME NEW heap, Heap(heap), NEW n \in Nat \ {nullptr}, n \notin DOMAIN heap,
         NEW new \in RoughNodes
  PROVE  LET H == Allocate(heap, n, new)
         IN  /\ Heap(H) /\ DOMAIN H = DOMAIN heap \cup {n}
             /\ IsLeaf(H, n) = new.isLeaf /\ Bv(H, n) = new.bv /\ Width(H, n) = new.size
             /\ Row(H, n) = new.entries /\ Up(H, n) = new.parent
             /\ \A m \in DOMAIN heap :
                  /\ IsLeaf(H, m) = IsLeaf(heap, m) /\ Bv(H, m) = Bv(heap, m)
                  /\ Width(H, m) = Width(heap, m) /\ Row(H, m) = Row(heap, m)
                  /\ Up(H, m) = Up(heap, m) /\ Index(H, m) = Index(heap, m)
<1> DEFINE H == Allocate(heap, n, new)
<1>1. DOMAIN H = DOMAIN heap \cup {n} /\ H[n] = new /\ \A m \in DOMAIN heap : H[m] = heap[m]
  BY DEF Allocate
<1>2. IsFiniteSet(DOMAIN heap \cup {n})
  BY FS_AddElement DEF Heap
<1>3. H = [m \in DOMAIN H |-> H[m]]
  BY DEF Allocate
<1>4. H \in [DOMAIN H -> RoughNodes]
  BY <1>1, <1>3 DEF Heap
<1>5. Heap(H)
  BY <1>1, <1>2, <1>4 DEF Heap
<1> HIDE DEF H
<1>6. /\ IsLeaf(H, n) = new.isLeaf /\ Bv(H, n) = new.bv /\ Width(H, n) = new.size
      /\ Row(H, n) = new.entries /\ Up(H, n) = new.parent
  BY <1>1 DEF IsLeaf, Bv, Width, Row, Up, Index
<1>7. ASSUME NEW m \in DOMAIN heap
      PROVE  /\ IsLeaf(H, m) = IsLeaf(heap, m) /\ Bv(H, m) = Bv(heap, m)
             /\ Width(H, m) = Width(heap, m) /\ Row(H, m) = Row(heap, m)
             /\ Up(H, m) = Up(heap, m) /\ Index(H, m) = Index(heap, m)
  BY <1>1 DEF IsLeaf, Bv, Width, Row, Up, Index
<1> QED
  BY <1>1, <1>5, <1>6, <1>7 DEF H

\* A child that changes hands gets another parent.
Adopted(heap, c, p) == [heap EXCEPT ![c].parent = p]

\* Nothing else changes.
LEMMA AdoptFields ==
  ASSUME NEW heap, Heap(heap), NEW c \in DOMAIN heap, NEW p \in Nat
  PROVE  LET H == Adopted(heap, c, p)
         IN  /\ Keeps(heap, H, nullptr) /\ Up(H, c) = p
             /\ \A m \in DOMAIN heap \ {c} : Up(H, m) = Up(heap, m)
             /\ \A m \in DOMAIN heap : Index(H, m) = Index(heap, m)
<1> DEFINE H == Adopted(heap, c, p)
<1>1. /\ Heap(H) /\ DOMAIN H = DOMAIN heap
      /\ \A m \in DOMAIN heap :
           /\ H[m].isLeaf = heap[m].isLeaf /\ H[m].bv = heap[m].bv
           /\ H[m].indexInParent = heap[m].indexInParent
           /\ H[m].size = heap[m].size /\ H[m].entries = heap[m].entries
           /\ H[m].parent = IF m = c THEN p ELSE heap[m].parent
  BY DEF Heap, RoughNodes, Adopted
<1> HIDE DEF H
<1>2. /\ Keeps(heap, H, nullptr) /\ Up(H, c) = p
      /\ \A m \in DOMAIN heap \ {c} : Up(H, m) = Up(heap, m)
      /\ \A m \in DOMAIN heap : Index(H, m) = Index(heap, m)
  BY <1>1 DEF Keeps, IsLeaf, Bv, Width, Row, Up, Index
<1> QED
  BY <1>2 DEF H

\* There is always an address that is not in use.
LEMMA UnusedAddress ==
  ASSUME NEW heap, Heap(heap)
  PROVE  Unused(heap) \in Nat \ {nullptr} /\ Unused(heap) \notin DOMAIN heap
<1> DEFINE c == Cardinality(DOMAIN heap)
<1>1. c \in Nat /\ IsFiniteSet(DOMAIN heap)
  BY FS_CardinalityType DEF Heap
<1>2. IsFiniteSet(1..(c + 1)) /\ Cardinality(1..(c + 1)) = c + 1
  BY <1>1, FS_Interval
<1>3. ~(1..(c + 1) \subseteq DOMAIN heap)
  <2> HIDE DEF c
  <2> QED  BY <1>1, <1>2, FS_Subset DEF c
<1>4. \E n \in 1..(c + 1) : n \notin DOMAIN heap
  BY <1>3
<1>5. Unused(heap) \in 1..(c + 1) /\ Unused(heap) \notin DOMAIN heap
  BY <1>4, Zenon DEF Unused
<1> QED
  BY <1>1, <1>5 DEF nullptr

-----------------------------------------------------------------------------
(* Trees, and what a moment of a change leaves of them.                    *)

\* The entries of a node that has no child.
NoChildren == [Slots -> [b : Nat, o : Nat, P : {nullptr}]]

\* Slot i of n, one of its first `size`, points to c, and c knows it.
Points(heap, h, n, i, c) ==
  /\ ~IsLeaf(heap, n) /\ i < Width(heap, n)
  /\ Kid(Row(heap, n), i) = c
  /\ Up(heap, c) = n /\ Index(heap, c) = i
  /\ h[n] = h[c] + 1

\* Every entry of n points to a child that is no root, or is empty.
Rooted(heap, h, C, n) ==
  \A i \in Slots : IF i < Width(heap, n)
                   THEN /\ Kid(Row(heap, n), i) \in C
                        /\ Points(heap, h, n, i, Kid(Row(heap, n), i))
                   ELSE Slot(Row(heap, n), i) = EmptyEntry

\* The parent of c is in D and points to it.
Hangs(heap, h, D, c) ==
  /\ Up(heap, c) \in D /\ Index(heap, c) \in Slots
  /\ Points(heap, h, Up(heap, c), Index(heap, c), c)

\* T are the nodes of the trees and R among them the roots, to which no entry
\* points; N are the nodes whose entries say nothing for the moment; h is the
\* height of a node above the leaves.
Forest(heap, T, R, N, h) ==
  /\ Heap(heap) /\ T \subseteq DOMAIN heap /\ R \subseteq T /\ h \in [Nat -> Nat]
  /\ \A m \in T : IsLeaf(heap, m) <=> h[m] = 0
  /\ \A m \in DOMAIN heap : m \notin T \/ IsLeaf(heap, m) => Row(heap, m) \in NoChildren
  /\ \A n \in T \ N : ~IsLeaf(heap, n) => Rooted(heap, h, T \ R, n)
  /\ \A c \in T \ R : Hangs(heap, h, T \ N, c)

\* The entry that points to m.
Entry(heap, m) == Slot(Row(heap, Up(heap, m)), Index(heap, m))

\* What a forest says of one node.
LEMMA ForestFields ==
  ASSUME NEW heap, NEW T, NEW R, NEW N, NEW h, Forest(heap, T, R, N, h), NEW m \in T
  PROVE  /\ Heap(heap) /\ m \in DOMAIN heap /\ m \in Nat \ {nullptr} /\ h[m] \in Nat
         /\ Width(heap, m) \in 0..(NodeSizeMax + 1) /\ Row(heap, m) \in Rows
         /\ Up(heap, m) \in Nat /\ Index(heap, m) \in Slots
         /\ Bits(heap, m) \in Int /\ OnesAt(heap, m) \in Int
<1>1. Heap(heap) /\ m \in DOMAIN heap /\ h \in [Nat -> Nat]
  BY DEF Forest
<1>2. m \in Nat \ {nullptr} /\ h[m] \in Nat
  BY <1>1, NamedAmounts
<1> QED
  BY <1>1, <1>2, NamedAmounts

\* What an entry of a row is.
LEMMA RowFields ==
  ASSUME NEW row \in Rows, NEW i \in Slots
  PROVE  /\ Slot(row, i) \in [b : Int, o : Int, P : Nat]
         /\ Slot(row, i).b \in Int /\ Slot(row, i).o \in Int
         /\ Kid(row, i) = Slot(row, i).P /\ Kid(row, i) \in Nat
         /\ Bs(row)[i] = Slot(row, i).b /\ Os(row)[i] = Slot(row, i).o
         /\ Bs(row) \in Numbers /\ Os(row) \in Numbers
<1>1. row[i] \in [b : Int, o : Int, P : Nat]
  BY DEF Rows
<1>2. Bs(row) \in Numbers /\ Os(row) \in Numbers
  BY DEF Bs, Os, Numbers, Rows
<1> QED
  BY <1>1, <1>2 DEF Slot, Kid, Bs, Os

\* The first children of n.
FirstKids(row, n) == {Kid(row, i) : i \in {j \in Slots : j < n}}
Kids(heap, n) == FirstKids(Row(heap, n), Width(heap, n))

\* The children of a node of a forest are where their index says.
LEMMA KidsOf ==
  ASSUME NEW heap, NEW T, NEW R, NEW N, NEW h, Forest(heap, T, R, N, h),
         NEW n \in T \ N, ~IsLeaf(heap, n)
  PROVE  /\ Kids(heap, n) \subseteq T \ R
         /\ \A c \in T \ R : c \in Kids(heap, n) <=> Up(heap, c) = n
         /\ \A i \in Slots :
              IF i < Width(heap, n)
              THEN LET c == Kid(Row(heap, n), i)
                   IN  /\ c \in T \ R /\ Up(heap, c) = n /\ Index(heap, c) = i
                       /\ h[n] = h[c] + 1 /\ c \in Kids(heap, n)
                       /\ Entry(heap, c) = Slot(Row(heap, n), i)
              ELSE Slot(Row(heap, n), i) = EmptyEntry
<1>1. ASSUME NEW i \in Slots, i < Width(heap, n), NEW c, c = Kid(Row(heap, n), i)
      PROVE  /\ c \in T \ R /\ Up(heap, c) = n /\ Index(heap, c) = i
             /\ h[n] = h[c] + 1 /\ c \in Kids(heap, n)
             /\ Entry(heap, c) = Slot(Row(heap, n), i)
  <2>1. c \in T \ R /\ Points(heap, h, n, i, c)
    BY <1>1 DEF Forest, Rooted
  <2>2. c \in Kids(heap, n)
    BY <1>1 DEF Kids, FirstKids
  <2> QED  BY <2>1, <2>2 DEF Points, Entry
<1>2. ASSUME NEW i \in Slots, ~(i < Width(heap, n))
      PROVE  Slot(Row(heap, n), i) = EmptyEntry
  BY <1>2 DEF Forest, Rooted
<1>3. ASSUME NEW c \in Kids(heap, n) PROVE c \in T \ R /\ Up(heap, c) = n
  <2>1. PICK i \in Slots : i < Width(heap, n) /\ c = Kid(Row(heap, n), i)
    BY DEF Kids, FirstKids
  <2> QED  BY <1>1, <2>1
<1>4. ASSUME NEW c \in T \ R, Up(heap, c) = n PROVE c \in Kids(heap, n)
  BY <1>4 DEF Forest, Hangs, Points, Kids, FirstKids
<1> QED
  BY <1>1, <1>2, <1>3, <1>4

\* When the entries of a node are left out of account, its children are roots.
LEMMA BlankForest ==
  ASSUME NEW heap, NEW T, NEW R, NEW N, NEW h, Forest(heap, T, R, N, h),
         NEW n \in T \ N, ~IsLeaf(heap, n),
         NEW S, S = R \cup Kids(heap, n), NEW M, M = N \cup {n}
  PROVE  Forest(heap, T, S, M, h)
<1> DEFINE kids == Kids(heap, n)
<1>1. kids \subseteq T \ R /\ \A c \in T \ R : c \in kids <=> Up(heap, c) = n
  BY KidsOf
<1> HIDE DEF kids
<1>2. ASSUME NEW m \in T \ (N \cup {n}), ~IsLeaf(heap, m)
      PROVE  Rooted(heap, h, T \ (R \cup kids), m)
  <2>1. Rooted(heap, h, T \ R, m)
    BY <1>2 DEF Forest
  <2>2. ASSUME NEW i \in Slots, i < Width(heap, m), Kid(Row(heap, m), i) \in kids
        PROVE  FALSE
    BY <1>1, <2>1, <2>2 DEF Rooted, Points
  <2> QED  BY <2>1, <2>2 DEF Rooted
<1>3. ASSUME NEW c \in T \ (R \cup kids)
      PROVE  Hangs(heap, h, T \ (N \cup {n}), c)
  <2>1. Hangs(heap, h, T \ N, c) /\ Up(heap, c) # n
    BY <1>1 DEF Forest
  <2> QED  BY <2>1 DEF Hangs
<1>4. Forest(heap, T, R \cup kids, N \cup {n}, h)
  BY <1>1, <1>2, <1>3 DEF Forest
<1> QED
  BY <1>4 DEF kids

\* A row of len entries: the slots from there on are empty.
Ends(row, len) == \A i \in Slots : ~(i < len) => Slot(row, i) = EmptyEntry

\* The entries before slot len point to different children.
Apart(row, len) == \A i, j \in Slots : i < len /\ j < len /\ Kid(row, i) = Kid(row, j) => i = j

\* The entries given to node n point to roots that take their place in it.
Fills(heap, h, R, n, row, len, moved) ==
  /\ Placeable(row, len, moved) /\ Ends(row, len) /\ Apart(row, len)
  /\ \A i \in moved : i < len
  /\ \A i \in Slots : i < len => /\ Kid(row, i) \in R /\ Up(heap, Kid(row, i)) = n
                                 /\ h[n] = h[Kid(row, i)] + 1
                                 /\ i \notin moved => Index(heap, Kid(row, i)) = i

\* Place puts such a node into account again.
LEMMA PlaceForest ==
  ASSUME NEW heap, NEW T, NEW R, NEW N, NEW h, Forest(heap, T, R, N, h),
         NEW n \in T, n \in N, ~IsLeaf(heap, n),
         NEW row, NEW len, NEW moved, Fills(heap, h, R, n, row, len, moved),
         NEW S, S = R \ FirstKids(row, len), NEW M, M = N \ {n}
  PROVE  LET H == Place(heap, n, row, len, moved)
             kids == FirstKids(row, len)
         IN  /\ Forest(H, T, S, M, h)
             /\ Keeps(heap, H, n) /\ Width(H, n) = len /\ Row(H, n) = row
             /\ \A m \in DOMAIN heap : Up(H, m) = Up(heap, m)
             /\ \A m \in DOMAIN heap \ kids : Index(H, m) = Index(heap, m)
             /\ \A m \in T \ R : Entry(H, m) = Entry(heap, m)
<1> DEFINE H == Place(heap, n, row, len, moved)
           kids == FirstKids(row, len)
<1>1. Heap(heap) /\ n \in DOMAIN heap /\ T \subseteq DOMAIN heap /\ R \subseteq T
  BY DEF Forest
<1>2. /\ row \in Rows /\ len \in 0..(NodeSizeMax + 1) /\ moved \in SUBSET Slots
      /\ Distinct(row, moved) /\ Placeable(row, len, moved)
  BY DEF Fills, Placeable
<1> HIDE DEF H
<1>3. /\ Keeps(heap, H, n) /\ Row(H, n) = row /\ Width(H, n) = len
      /\ \A m \in DOMAIN heap :
           /\ Up(H, m) = Up(heap, m)
           /\ (\A i \in moved : Kid(row, i) # m) => Index(H, m) = Index(heap, m)
      /\ \A i \in moved : Kid(row, i) \in DOMAIN heap => Index(H, Kid(row, i)) = i
  BY <1>1, <1>2, PlaceFields DEF H
<1>4. ASSUME NEW i \in Slots, i < len, NEW c, c = Kid(row, i)
      PROVE  /\ c \in R /\ c \in kids /\ Up(H, c) = n /\ Index(H, c) = i /\ h[n] = h[c] + 1
  <2>1. /\ c \in R /\ Up(heap, c) = n /\ h[n] = h[c] + 1
        /\ i \notin moved => Index(heap, c) = i
    BY <1>4 DEF Fills
  <2>2. c \in DOMAIN heap /\ c \in kids
    BY <1>1, <1>4, <2>1 DEF FirstKids
  <2> HIDE DEF kids
  <2>3. CASE i \in moved
    BY <1>3, <1>4, <2>1, <2>2, <2>3
  <2>4. CASE i \notin moved
    <3>1. \A j \in moved : Kid(row, j) # c
      BY <1>2, <1>4, <2>4 DEF Fills, Apart
    <3> QED  BY <1>3, <1>4, <2>1, <2>2, <2>4, <3>1
  <2> QED  BY <2>3, <2>4
<1>5. ASSUME NEW m \in DOMAIN heap \ kids PROVE Index(H, m) = Index(heap, m)
  <2>1. \A i \in moved : Kid(row, i) # m
    BY <1>2, <1>4 DEF Fills
  <2> QED  BY <1>3, <2>1
<1>6. kids \subseteq R
  BY <1>4 DEF FirstKids
<1>7. ASSUME NEW c \in kids PROVE Hangs(H, h, T \ (N \ {n}), c)
  <2>1. PICK i \in Slots : i < len /\ c = Kid(row, i)
    BY DEF FirstKids
  <2> HIDE DEF kids
  <2>2. Up(H, c) = n /\ Index(H, c) = i /\ h[n] = h[c] + 1
    BY <1>4, <2>1
  <2>3. ~IsLeaf(H, n)
    BY <1>1, <1>3 DEF Keeps
  <2> QED  BY <1>3, <2>1, <2>2, <2>3 DEF Hangs, Points
<1> HIDE DEF kids
<1>8. ASSUME NEW c \in T \ R
      PROVE  /\ Hangs(H, h, (T \ N) \ {n}, c) /\ Entry(H, c) = Entry(heap, c)
             /\ Up(H, c) = Up(heap, c) /\ Index(H, c) = Index(heap, c)
  <2>1. Hangs(heap, h, T \ N, c)
    BY DEF Forest
  <2>2. Up(heap, c) # n /\ c \in DOMAIN heap /\ Up(heap, c) \in DOMAIN heap
    BY <1>1, <2>1 DEF Hangs
  <2>3. Up(H, c) = Up(heap, c) /\ Index(H, c) = Index(heap, c)
    BY <1>3, <1>5, <1>6, <2>2
  <2>4. PICK p \in DOMAIN heap \ {n} : p = Up(heap, c)
    BY <2>2
  <2>5. IsLeaf(H, p) = IsLeaf(heap, p) /\ Width(H, p) = Width(heap, p) /\ Row(H, p) = Row(heap, p)
    BY <1>3, <2>4 DEF Keeps
  <2> QED  BY <2>1, <2>3, <2>4, <2>5 DEF Points, Hangs, Entry
<1>9. ASSUME NEW m \in T \ (N \ {n}), ~IsLeaf(H, m)
      PROVE  Rooted(H, h, T \ (R \ kids), m)
  <2>1. CASE m = n
    <3>1. ASSUME NEW i \in Slots, i < len
          PROVE  /\ Kid(row, i) \in T \ (R \ kids) /\ Points(H, h, n, i, Kid(row, i))
      <4>1. PICK c : c = Kid(row, i)
        OBVIOUS
      <4>2. c \in R /\ c \in kids /\ Up(H, c) = n /\ Index(H, c) = i /\ h[n] = h[c] + 1
        BY <1>4, <3>1, <4>1
      <4> QED  BY <1>1, <1>3, <1>9, <2>1, <3>1, <4>1, <4>2 DEF Points
    <3>2. \A i \in Slots : ~(i < len) => Slot(row, i) = EmptyEntry
      BY DEF Fills, Ends
    <3> QED  BY <1>3, <2>1, <3>1, <3>2 DEF Rooted
  <2>2. CASE m # n
    <3>1. m \in T \ N /\ m \in DOMAIN heap
      BY <1>1, <2>2
    <3>2. /\ ~IsLeaf(heap, m) /\ Width(H, m) = Width(heap, m) /\ Row(H, m) = Row(heap, m)
      BY <1>3, <1>9, <2>2, <3>1 DEF Keeps
    <3>3. Rooted(heap, h, T \ R, m)
      BY <3>1, <3>2 DEF Forest
    <3>4. ASSUME NEW i \in Slots, i < Width(heap, m), NEW c, c = Kid(Row(heap, m), i)
          PROVE  c \in T \ (R \ kids) /\ Points(H, h, m, i, c)
      <4>1. c \in T \ R /\ Points(heap, h, m, i, c)
        BY <3>3, <3>4 DEF Rooted
      <4> QED  BY <1>8, <4>1, <3>2, <1>9 DEF Points
    <3> QED  BY <3>2, <3>3, <3>4 DEF Rooted
  <2> QED  BY <2>1, <2>2
<1>10. ASSUME NEW c \in T \ (R \ kids)
       PROVE  Hangs(H, h, T \ (N \ {n}), c)
  BY <1>7, <1>8 DEF Hangs
<1>11. Forest(H, T, R \ kids, N \ {n}, h)
  <2>1. /\ Heap(H) /\ T \subseteq DOMAIN H /\ R \ kids \subseteq T /\ h \in [Nat -> Nat]
        /\ \A m \in T : IsLeaf(H, m) <=> h[m] = 0
    BY <1>1, <1>3 DEF Forest, Keeps
  <2>2. \A m \in DOMAIN H : m \notin T \/ IsLeaf(H, m) => Row(H, m) \in NoChildren
    BY <1>1, <1>3 DEF Forest, Keeps
  <2> QED  BY <1>9, <1>10, <2>1, <2>2 DEF Forest
<1> QED
  BY <1>3, <1>5, <1>8, <1>11 DEF H, kids

\* Such an entry is found where its slot is.
LEMMA FilledEntry ==
  ASSUME NEW heap, NEW T, NEW R, NEW N, NEW h, Forest(heap, T, R, N, h),
         NEW n \in T \ N, ~IsLeaf(heap, n), NEW i \in Slots, i < Width(heap, n)
  PROVE  LET c == Kid(Row(heap, n), i)
         IN  Entry(heap, c) = Slot(Row(heap, n), i) /\ Index(heap, c) = i /\ Up(heap, c) = n
  BY KidsOf

\* Node m has the same kind and the same children in both heaps.
Alike(heap, H, m) ==
  /\ IsLeaf(H, m) = IsLeaf(heap, m) /\ Width(H, m) = Width(heap, m)
  /\ \A i \in Slots :
       /\ Kid(Row(H, m), i) = Kid(Row(heap, m), i)
       /\ ~(i < Width(heap, m)) => Slot(Row(H, m), i) = Slot(Row(heap, m), i)

\* A heap that differs from a forest only in numbers and bits is a forest.
LEMMA SameForest ==
  ASSUME NEW heap, NEW T, NEW R, NEW N, NEW h, Forest(heap, T, R, N, h),
         NEW H, Heap(H), DOMAIN H = DOMAIN heap, Stays(heap, H),
         \A m \in DOMAIN heap : Alike(heap, H, m),
         \A m \in DOMAIN heap : m \notin T \/ IsLeaf(heap, m) => Row(H, m) = Row(heap, m)
  PROVE  Forest(H, T, R, N, h)
<1> USE DEF Alike
<1>1. T \subseteq DOMAIN heap
  BY DEF Forest
<1>2. ASSUME NEW n, NEW i \in Slots, NEW c \in T, n \in T, Points(heap, h, n, i, c)
      PROVE  Points(H, h, n, i, c)
  BY <1>1, <1>2 DEF Points, Stays
<1>3. ASSUME NEW n \in T \ N, ~IsLeaf(H, n) PROVE Rooted(H, h, T \ R, n)
  <2>1. n \in DOMAIN heap /\ Rooted(heap, h, T \ R, n)
    BY <1>1, <1>3 DEF Forest
  <2> QED  BY <1>2, <2>1 DEF Rooted
<1>4. ASSUME NEW c \in T \ R PROVE Hangs(H, h, T \ N, c)
  <2>1. c \in DOMAIN heap /\ Hangs(heap, h, T \ N, c)
    BY <1>1 DEF Forest
  <2> QED  BY <1>2, <2>1 DEF Hangs, Stays
<1>5. /\ R \subseteq T /\ h \in [Nat -> Nat] /\ \A m \in T : IsLeaf(H, m) <=> h[m] = 0
      /\ \A m \in DOMAIN H : m \notin T \/ IsLeaf(H, m) => Row(H, m) \in NoChildren
  BY <1>1 DEF Forest
<1> QED
  BY <1>1, <1>3, <1>4, <1>5 DEF Forest

\* Row g holds the entries of slots a, a + 1, ... of f in its slots from b to c - 1.
Carries(g, b, c, f, a) ==
  \A i \in Slots : b <= i /\ i < c => /\ Slot(g, i) = Slot(f, (i - b) + a)
                                      /\ Kid(g, i) = Kid(f, (i - b) + a)

\* What the row is without the entry in slot idx.
LEMMA RemovedRow ==
  ASSUME NEW old \in Rows, NEW len \in 1..(NodeSizeMax + 1), NEW idx \in 0..(len - 1),
         Ends(old, len)
  PROVE  LET g == Removed(old, len, idx)
         IN  /\ g \in Rows /\ Ends(g, len - 1)
             /\ Carries(g, 0, idx, old, 0) /\ Carries(g, idx, len - 1, old, idx + 1)
             /\ Total(Bs(g)) = Total(Bs(old)) - Slot(old, idx).b
             /\ Total(Os(g)) = Total(Os(old)) - Slot(old, idx).o
<1> DEFINE g == Removed(old, len, idx)
<1>1. PICK last \in 0..NodeSizeMax : last = len - 1 /\ idx <= last /\ idx \in Slots
  BY SizesAssumption DEF Slots
<1>2. /\ EmptyEntry \in [b : Int, o : Int, P : Nat]
      /\ \A i \in idx..(len - 2) : i + 1 \in Slots
  BY <1>1, SizesAssumption DEF EmptyEntry, nullptr, Slots
<1>3. g \in Rows
  BY <1>2 DEF Removed, Rows
<1>4. \A i \in Slots : Slot(g, i) = IF i = last THEN EmptyEntry
                                    ELSE IF i \in idx..(len - 2) THEN Slot(old, i + 1)
                                    ELSE Slot(old, i)
  BY <1>1 DEF Removed, Slot
<1> HIDE DEF g
<1>5. Ends(g, last)
  <2>1. ASSUME NEW i \in Slots, ~(i < last), i # last
        PROVE  ~(i < len) /\ i \notin idx..(len - 2)
    BY <1>1, <2>1, SizesAssumption DEF Slots
  <2> QED  BY <1>4, <2>1 DEF Ends
<1>6. Carries(g, 0, idx, old, 0)
  <2>1. ASSUME NEW i \in Slots, i < idx
        PROVE  i # last /\ i \notin idx..(len - 2) /\ (i - 0) + 0 = i
    BY <1>1, <2>1, SizesAssumption DEF Slots
  <2>2. ASSUME NEW i \in Slots, i < idx PROVE Slot(g, i) = Slot(old, i)
    BY <1>4, <2>1, <2>2
  <2>3. ASSUME NEW i \in Slots, i < idx PROVE Kid(g, i) = Kid(old, i)
    BY <1>3, <2>2, <2>3, RowFields
  <2> QED  BY <2>1, <2>2, <2>3 DEF Carries
<1>7. Carries(g, idx, last, old, idx + 1)
  <2>1. ASSUME NEW i \in Slots, idx <= i, i < last
        PROVE  /\ i # last /\ i \in idx..(len - 2) /\ (i - idx) + (idx + 1) = i + 1
               /\ i + 1 \in Slots
    BY <1>1, <2>1, SizesAssumption DEF Slots
  <2>2. ASSUME NEW i \in Slots, idx <= i, i < last PROVE Slot(g, i) = Slot(old, i + 1)
    BY <1>4, <2>1, <2>2
  <2>3. ASSUME NEW i \in Slots, idx <= i, i < last PROVE Kid(g, i) = Kid(old, i + 1)
    BY <1>3, <2>1, <2>2, <2>3, RowFields
  <2> QED  BY <2>1, <2>2, <2>3 DEF Carries
<1>8. /\ Bs(old) \in Numbers /\ Os(old) \in Numbers /\ Bs(g) \in Numbers /\ Os(g) \in Numbers
      /\ Bs(old)[idx] = Slot(old, idx).b /\ Os(old)[idx] = Slot(old, idx).o
  BY <1>1, <1>3, RowFields
<1>9. /\ \A i \in Slots : Bs(g)[i] = IF i = len - 1 THEN 0
                                     ELSE IF i \in idx..(len - 2) THEN Bs(old)[i + 1]
                                     ELSE Bs(old)[i]
      /\ \A i \in Slots : Os(g)[i] = IF i = len - 1 THEN 0
                                     ELSE IF i \in idx..(len - 2) THEN Os(old)[i + 1]
                                     ELSE Os(old)[i]
  BY <1>1, <1>2, <1>4 DEF Bs, Os, Slot, EmptyEntry
<1>10. Total(Bs(g)) = Total(Bs(old)) - Bs(old)[idx]
  BY <1>8, <1>9, RemovedSum
<1>11. Total(Os(g)) = Total(Os(old)) - Os(old)[idx]
  BY <1>8, <1>9, RemovedSum
<1> QED
  BY <1>1, <1>3, <1>5, <1>6, <1>7, <1>8, <1>10, <1>11 DEF g

\* What the row is with another entry in slot idx.
LEMMA InsertedRow ==
  ASSUME NEW old \in Rows, NEW len \in 0..NodeSizeMax, NEW idx \in 0..len,
         Ends(old, len), NEW e \in [b : Int, o : Int, P : Nat]
  PROVE  LET g == Inserted(old, len, idx, e)
         IN  /\ g \in Rows /\ Ends(g, len + 1) /\ Slot(g, idx) = e /\ Kid(g, idx) = e.P
             /\ Carries(g, 0, idx, old, 0) /\ Carries(g, idx + 1, len + 1, old, idx)
             /\ Total(Bs(g)) = Total(Bs(old)) + e.b
             /\ Total(Os(g)) = Total(Os(old)) + e.o
<1> DEFINE g == Inserted(old, len, idx, e)
<1>1. idx \in Slots /\ len \in Slots /\ idx \in Nat /\ len \in Nat
  BY SizesAssumption DEF Slots
<1>2. \A i \in (idx + 1)..len : i - 1 \in Slots
  BY <1>1, SizesAssumption DEF Slots
<1>3. g \in Rows
  BY <1>2 DEF Inserted, Rows
<1>4. \A i \in Slots : Slot(g, i) = IF i = idx THEN e
                                    ELSE IF i \in (idx + 1)..len THEN Slot(old, i - 1)
                                    ELSE Slot(old, i)
  BY <1>1 DEF Inserted, Slot
<1> HIDE DEF g
<1>5. Ends(g, len + 1)
  <2>1. ASSUME NEW i \in Slots, ~(i < len + 1)
        PROVE  ~(i < len) /\ i # idx /\ i \notin (idx + 1)..len
    BY <1>1, <2>1, SizesAssumption DEF Slots
  <2> QED  BY <1>4, <2>1 DEF Ends
<1>6. Carries(g, 0, idx, old, 0)
  <2>1. ASSUME NEW i \in Slots, i < idx
        PROVE  i # idx /\ i \notin (idx + 1)..len /\ (i - 0) + 0 = i
    BY <1>1, <2>1, SizesAssumption DEF Slots
  <2>2. ASSUME NEW i \in Slots, i < idx PROVE Slot(g, i) = Slot(old, i)
    BY <1>4, <2>1, <2>2
  <2>3. ASSUME NEW i \in Slots, i < idx PROVE Kid(g, i) = Kid(old, i)
    BY <1>3, <2>2, <2>3, RowFields
  <2> QED  BY <2>1, <2>2, <2>3 DEF Carries
<1>7. Carries(g, idx + 1, len + 1, old, idx)
  <2>1. ASSUME NEW i \in Slots, idx + 1 <= i, i < len + 1
        PROVE  /\ i # idx /\ i \in (idx + 1)..len /\ (i - (idx + 1)) + idx = i - 1
               /\ i - 1 \in Slots
    BY <1>1, <2>1, SizesAssumption DEF Slots
  <2>2. ASSUME NEW i \in Slots, idx + 1 <= i, i < len + 1 PROVE Slot(g, i) = Slot(old, i - 1)
    BY <1>4, <2>1, <2>2
  <2>3. ASSUME NEW i \in Slots, idx + 1 <= i, i < len + 1 PROVE Kid(g, i) = Kid(old, i - 1)
    BY <1>3, <2>1, <2>2, <2>3, RowFields
  <2> QED  BY <2>1, <2>2, <2>3 DEF Carries
<1>8. /\ Bs(old) \in Numbers /\ Os(old) \in Numbers /\ Bs(g) \in Numbers /\ Os(g) \in Numbers
      /\ e.b \in Int /\ e.o \in Int
      /\ \A i \in Slots : i >= len => Bs(old)[i] = 0 /\ Os(old)[i] = 0
  <2>1. ASSUME NEW i \in Slots, i >= len PROVE Bs(old)[i] = 0 /\ Os(old)[i] = 0
    <3>1. Slot(old, i) = EmptyEntry
      BY <1>1, <2>1, SizesAssumption DEF Ends, Slots
    <3> QED  BY <3>1, RowFields DEF EmptyEntry
  <2>2. Bs(old) \in Numbers /\ Os(old) \in Numbers /\ Bs(g) \in Numbers /\ Os(g) \in Numbers
    BY <1>1, <1>3, RowFields
  <2>3. e.b \in Int /\ e.o \in Int
    OBVIOUS
  <2> QED  BY <2>1, <2>2, <2>3
<1>9. WithNumber(Bs(g), Bs(old), len, idx, e.b) /\ WithNumber(Os(g), Os(old), len, idx, e.o)
  BY <1>1, <1>2, <1>4 DEF Bs, Os, Slot, WithNumber
<1>10. Total(Bs(g)) = Total(Bs(old)) + e.b
  BY <1>8, <1>9, InsertedSum
<1>11. Total(Os(g)) = Total(Os(old)) + e.o
  BY <1>8, <1>9, InsertedSum
<1>12. Slot(g, idx) = e /\ Kid(g, idx) = e.P
  BY <1>1, <1>3, <1>4, RowFields
<1> QED
  BY <1>3, <1>5, <1>6, <1>7, <1>10, <1>11, <1>12 DEF g

\* RemoveEntry makes a root of the child it removes.
LEMMA RemoveForest ==
  ASSUME NEW heap, NEW T, NEW R, NEW N, NEW h, Forest(heap, T, R, N, h),
         NEW p \in T \ N, ~IsLeaf(heap, p), NEW idx \in Slots, idx < Width(heap, p),
         NEW c, c = Kid(Row(heap, p), idx), NEW S, S = R \cup {c}
  PROVE  LET H == RemoveEntry(heap, p, idx)
         IN  /\ Forest(H, T, S, N, h) /\ Keeps(heap, H, p)
             /\ Width(H, p) = Width(heap, p) - 1
             /\ Carries(Row(H, p), 0, idx, Row(heap, p), 0)
             /\ Carries(Row(H, p), idx, Width(H, p), Row(heap, p), idx + 1)
             /\ Bits(H, p) = Bits(heap, p) - Slot(Row(heap, p), idx).b
             /\ OnesAt(H, p) = OnesAt(heap, p) - Slot(Row(heap, p), idx).o
             /\ \A m \in DOMAIN heap : Up(H, m) = Up(heap, m)
             /\ \A m \in T \ S : Entry(H, m) = Entry(heap, m)
             /\ \A m \in T : m \in R \/ Up(heap, m) # p => Index(H, m) = Index(heap, m)
<1> DEFINE H == RemoveEntry(heap, p, idx)
           kids == Kids(heap, p)
<1>1. /\ Heap(heap) /\ p \in DOMAIN heap /\ T \subseteq DOMAIN heap /\ R \subseteq T
      /\ Row(heap, p) \in Rows /\ Width(heap, p) \in 0..(NodeSizeMax + 1)
  <2>1. T \subseteq DOMAIN heap /\ R \subseteq T
    BY DEF Forest
  <2> QED  BY <2>1, ForestFields
<1>2. PICK old \in Rows, len \in 1..(NodeSizeMax + 1), last \in 0..NodeSizeMax :
        old = Row(heap, p) /\ len = Width(heap, p) /\ last = len - 1 /\ idx <= last
  BY <1>1, SizesAssumption DEF Slots
<1>3. /\ kids \subseteq T \ R
      /\ \A m \in T \ R : m \in kids <=> Up(heap, m) = p
  BY KidsOf
<1>4. ASSUME NEW i \in Slots, i < len, NEW k, k = Kid(old, i)
      PROVE  /\ k \in kids /\ Up(heap, k) = p /\ Index(heap, k) = i /\ h[p] = h[k] + 1
             /\ Entry(heap, k) = Slot(old, i)
  BY <1>2, <1>4, KidsOf
<1>5. Ends(old, len)
  BY <1>2, KidsOf DEF Ends
<1>6. c \in kids /\ c \in T \ R
  BY <1>2, <1>3, <1>4
<1> DEFINE g == Removed(old, len, idx)
           moved == idx..(len - 2)
           kept == FirstKids(g, last)
<1>7. /\ g \in Rows /\ Ends(g, last)
      /\ Carries(g, 0, idx, old, 0) /\ Carries(g, idx, last, old, idx + 1)
      /\ Total(Bs(g)) = Total(Bs(old)) - Slot(old, idx).b
      /\ Total(Os(g)) = Total(Os(old)) - Slot(old, idx).o
  <2>1. idx \in 0..(len - 1)
    BY <1>2, SizesAssumption DEF Slots
  <2> QED  BY <1>2, <1>5, <2>1, RemovedRow
<1>8. H = Place(heap, p, g, last, moved)
  BY <1>2 DEF RemoveEntry, Row, Width
<1> HIDE DEF H, g, kids
<1> DEFINE Same(i, j) == /\ Slot(g, i) = Slot(old, j) /\ Kid(g, i) = Kid(old, j)
                         /\ (IF i < idx THEN j = i ELSE j = i + 1)
<1>9. ASSUME NEW i \in Slots, i < last
      PROVE  \E j \in Slots : j < len /\ j # idx /\ Same(i, j)
  <2>1. CASE i < idx
    <3>1. 0 <= i /\ (i - 0) + 0 = i /\ i < len /\ i # idx
      BY <1>2, <1>9, <2>1, SizesAssumption DEF Slots
    <3> QED  BY <1>7, <2>1, <3>1 DEF Carries
  <2>2. CASE ~(i < idx)
    <3>1. idx <= i /\ (i - idx) + (idx + 1) = i + 1 /\ i + 1 \in Slots /\ i + 1 < len
          /\ i + 1 # idx
      BY <1>2, <1>9, <2>2, SizesAssumption DEF Slots
    <3> QED  BY <1>7, <1>9, <2>2, <3>1 DEF Carries
  <2> QED  BY <2>1, <2>2
<1>10. ASSUME NEW j \in Slots, j < len, j # idx
       PROVE  \E i \in Slots : i < last /\ Same(i, j)
  <2>1. CASE j < idx
    <3>1. 0 <= j /\ (j - 0) + 0 = j /\ j < last
      BY <1>2, <2>1, SizesAssumption DEF Slots
    <3> QED  BY <1>7, <2>1, <3>1 DEF Carries
  <2>2. CASE ~(j < idx)
    <3>1. PICK i \in Slots : j = i + 1 /\ i < last /\ idx <= i /\ ~(i < idx)
                             /\ (i - idx) + (idx + 1) = j
      <4>1. j - 1 \in Slots /\ j = (j - 1) + 1 /\ j - 1 < last /\ idx <= j - 1
        BY <1>2, <1>10, <2>2, SizesAssumption DEF Slots
      <4> QED  BY <4>1, <1>2, SizesAssumption DEF Slots
    <3> QED  BY <1>7, <3>1 DEF Carries
  <2> QED  BY <2>1, <2>2
<1>11. ASSUME NEW i \in Slots, i < last, NEW k, k = Kid(g, i)
       PROVE  /\ k \in kids /\ k # c /\ Up(heap, k) = p /\ h[p] = h[k] + 1
              /\ Entry(heap, k) = Slot(g, i) /\ k \in kept
              /\ Index(heap, k) = IF i < idx THEN i ELSE i + 1
  <2>1. PICK j \in Slots : j < len /\ j # idx /\ Same(i, j)
    BY <1>9, <1>11
  <2>2. /\ k \in kids /\ Up(heap, k) = p /\ Index(heap, k) = j /\ h[p] = h[k] + 1
        /\ Entry(heap, k) = Slot(old, j)
    BY <1>4, <1>11, <2>1
  <2>3. Index(heap, c) = idx
    BY <1>2, <1>4
  <2>4. k \in kept
    BY <1>11 DEF FirstKids
  <2> QED  BY <2>1, <2>2, <2>3, <2>4
<1>12. kept = kids \ {c}
  <2>1. ASSUME NEW k \in kept PROVE k \in kids \ {c}
    BY <1>11 DEF FirstKids
  <2>2. ASSUME NEW k \in kids, k # c PROVE k \in kept
    <3>1. PICK j \in Slots : j < len /\ k = Kid(old, j)
      BY <1>2 DEF kids, Kids, FirstKids
    <3>2. PICK i \in Slots : i < last /\ Same(i, j)
      BY <1>2, <1>10, <2>2, <3>1
    <3> QED  BY <3>1, <3>2 DEF FirstKids
  <2> QED  BY <2>1, <2>2
<1>13. PICK R1, N1 : R1 = R \cup kids /\ N1 = N \cup {p}
  OBVIOUS
<1>14. Forest(heap, T, R1, N1, h)
  BY <1>13, BlankForest DEF kids
<1>15. Fills(heap, h, R1, p, g, last, moved)
  <2>1. /\ moved \subseteq Slots
        /\ \A i \in Slots : i < last => (i \in moved <=> ~(i < idx))
        /\ \A i \in moved : i < last
    BY <1>2, SizesAssumption DEF Slots
  <2>2. Apart(g, last)
    <3>1. ASSUME NEW i \in Slots, NEW j \in Slots, i < last, j < last, Kid(g, i) = Kid(g, j)
          PROVE  i = j
      <4>1. (IF i < idx THEN i ELSE i + 1) = (IF j < idx THEN j ELSE j + 1)
        BY <1>11, <3>1
      <4> QED  BY <1>2, <4>1, SizesAssumption DEF Slots
    <3> QED  BY <3>1 DEF Apart
  <2>3. Placeable(g, last, moved)
    BY <1>2, <1>7, <2>1, <2>2, SizesAssumption DEF Placeable, Distinct, Apart
  <2>4. ASSUME NEW i \in Slots, i < last
        PROVE  /\ Kid(g, i) \in R1 /\ Up(heap, Kid(g, i)) = p
               /\ h[p] = h[Kid(g, i)] + 1
               /\ i \notin moved => Index(heap, Kid(g, i)) = i
    BY <1>11, <1>13, <2>1, <2>4
  <2> HIDE DEF moved
  <2> QED  BY <1>7, <2>1, <2>2, <2>3, <2>4, Zenon DEF Fills
<1> HIDE DEF moved, kept
<1>16. PICK R2, N2 : R2 = R1 \ kept /\ N2 = N1 \ {p}
  OBVIOUS
<1>17. R2 = S /\ N2 = N
  BY <1>3, <1>6, <1>12, <1>13, <1>16
<1>18. /\ Forest(H, T, R2, N2, h)
       /\ Keeps(heap, H, p) /\ Width(H, p) = last /\ Row(H, p) = g
       /\ \A m \in DOMAIN heap : Up(H, m) = Up(heap, m)
       /\ \A m \in DOMAIN heap \ kept : Index(H, m) = Index(heap, m)
       /\ \A m \in T \ R1 : Entry(H, m) = Entry(heap, m)
  <2>1. p \in T /\ p \in N1 /\ ~IsLeaf(heap, p)
    BY <1>13
  <2> DEFINE P == Place(heap, p, g, last, moved)
             first == FirstKids(g, last)
  <2>2. R2 = R1 \ first
    BY <1>16 DEF kept
  <2>3. /\ Forest(P, T, R2, N2, h)
        /\ Keeps(heap, P, p) /\ Width(P, p) = last /\ Row(P, p) = g
        /\ \A m \in DOMAIN heap : Up(P, m) = Up(heap, m)
        /\ \A m \in DOMAIN heap \ first : Index(P, m) = Index(heap, m)
        /\ \A m \in T \ R1 : Entry(P, m) = Entry(heap, m)
    BY <1>14, <1>15, <1>16, <2>1, <2>2, PlaceForest, Z3
  <2> HIDE DEF P
  <2> QED  BY <1>8, <2>3 DEF P, kept
<1>19. ASSUME NEW m \in T \ S PROVE Entry(H, m) = Entry(heap, m)
  <2>1. CASE m \notin kids
    BY <1>13, <1>18, <2>1
  <2>2. CASE m \in kids
    <3>1. PICK i \in Slots : i < last /\ m = Kid(g, i)
      BY <1>12, <2>2 DEF kept, FirstKids
    <3>2. Entry(heap, m) = Slot(g, i)
      BY <1>11, <3>1
    <3>3. p \in T \ N /\ ~IsLeaf(H, p) /\ Forest(H, T, S, N, h)
      BY <1>1, <1>17, <1>18 DEF Keeps
    <3>4. Entry(H, m) = Slot(g, i)
      BY <1>18, <3>1, <3>3, KidsOf
    <3> QED  BY <3>2, <3>4
  <2> QED  BY <2>1, <2>2
<1>20. ASSUME NEW m \in T, m \in R \/ Up(heap, m) # p
       PROVE  Index(H, m) = Index(heap, m)
  BY <1>1, <1>3, <1>12, <1>18, <1>20
<1>21. /\ Bits(H, p) = Bits(heap, p) - Slot(old, idx).b
       /\ OnesAt(H, p) = OnesAt(heap, p) - Slot(old, idx).o
  <2>1. ~IsLeaf(H, p) /\ Heap(H) /\ p \in DOMAIN H
    BY <1>1, <1>18 DEF Keeps
  <2> QED  BY <1>1, <1>2, <1>7, <1>18, <2>1, NamedAmounts
<1> QED
  BY <1>2, <1>7, <1>17, <1>18, <1>19, <1>20, <1>21 DEF H

\* InsertEntry makes a child of a root that has the node as its parent.
LEMMA InsertForest ==
  ASSUME NEW heap, NEW T, NEW R, NEW N, NEW h, Forest(heap, T, R, N, h),
         NEW p \in T \ N, ~IsLeaf(heap, p), Width(heap, p) <= NodeSizeMax,
         NEW idx \in Slots, idx <= Width(heap, p),
         NEW e \in [b : Int, o : Int, P : Nat],
         NEW c \in R, c = e.P, Up(heap, c) = p, h[p] = h[c] + 1,
         NEW S, S = R \ {c}
  PROVE  LET H == InsertEntry(heap, p, idx, e)
         IN  /\ Forest(H, T, S, N, h) /\ Keeps(heap, H, p)
             /\ Width(H, p) = Width(heap, p) + 1
             /\ Carries(Row(H, p), 0, idx, Row(heap, p), 0)
             /\ Carries(Row(H, p), idx + 1, Width(H, p), Row(heap, p), idx)
             /\ Kid(Row(H, p), idx) = c
             /\ Bits(H, p) = Bits(heap, p) + e.b
             /\ OnesAt(H, p) = OnesAt(heap, p) + e.o
             /\ \A m \in DOMAIN heap : Up(H, m) = Up(heap, m)
             /\ Entry(H, c) = e /\ \A m \in T \ R : Entry(H, m) = Entry(heap, m)
             /\ \A m \in T : m # c /\ (m \in R \/ Up(heap, m) # p)
                               => Index(H, m) = Index(heap, m)
<1> DEFINE H == InsertEntry(heap, p, idx, e)
           kids == Kids(heap, p)
<1>1. /\ Heap(heap) /\ p \in DOMAIN heap /\ T \subseteq DOMAIN heap /\ R \subseteq T
      /\ Row(heap, p) \in Rows /\ Width(heap, p) \in 0..(NodeSizeMax + 1)
  <2>1. T \subseteq DOMAIN heap /\ R \subseteq T
    BY DEF Forest
  <2> QED  BY <2>1, ForestFields
<1>2. PICK old \in Rows, len \in 0..NodeSizeMax, end \in 1..(NodeSizeMax + 1) :
        old = Row(heap, p) /\ len = Width(heap, p) /\ end = len + 1 /\ idx < end
  BY <1>1, SizesAssumption DEF Slots
<1>3. /\ kids \subseteq T \ R
      /\ \A m \in T \ R : m \in kids <=> Up(heap, m) = p
  BY KidsOf
<1>4. ASSUME NEW i \in Slots, i < len, NEW k, k = Kid(old, i)
      PROVE  /\ k \in kids /\ Up(heap, k) = p /\ Index(heap, k) = i /\ h[p] = h[k] + 1
             /\ Entry(heap, k) = Slot(old, i)
  BY <1>2, <1>4, KidsOf
<1>5. Ends(old, len)
  BY <1>2, KidsOf DEF Ends
<1>6. c \notin kids
  BY <1>3
<1> DEFINE g == Inserted(old, len, idx, e)
           moved == idx..len
           kept == FirstKids(g, end)
<1>7. /\ g \in Rows /\ Ends(g, end) /\ Slot(g, idx) = e /\ Kid(g, idx) = c
      /\ Carries(g, 0, idx, old, 0) /\ Carries(g, idx + 1, end, old, idx)
      /\ Total(Bs(g)) = Total(Bs(old)) + e.b
      /\ Total(Os(g)) = Total(Os(old)) + e.o
  <2>1. idx \in 0..len
    BY <1>2, SizesAssumption DEF Slots
  <2> QED  BY <1>2, <1>5, <2>1, InsertedRow
<1>8. H = Place(heap, p, g, end, moved)
  BY <1>2 DEF InsertEntry, Row, Width
<1> HIDE DEF H, g, kids
<1> DEFINE Same(i, j) == /\ Slot(g, i) = Slot(old, j) /\ Kid(g, i) = Kid(old, j)
                         /\ (IF j < idx THEN i = j ELSE i = j + 1)
<1>9. ASSUME NEW i \in Slots, i < end, i # idx
      PROVE  \E j \in Slots : j < len /\ Same(i, j)
  <2>1. CASE i < idx
    <3>1. 0 <= i /\ (i - 0) + 0 = i /\ i < len
      BY <1>2, <1>9, <2>1, SizesAssumption DEF Slots
    <3> QED  BY <1>7, <2>1, <3>1 DEF Carries
  <2>2. CASE ~(i < idx)
    <3>1. PICK j \in Slots : /\ i = j + 1 /\ j < len /\ ~(j < idx) /\ idx + 1 <= i
                             /\ (i - (idx + 1)) + idx = j
      <4>1. i - 1 \in Slots /\ i = (i - 1) + 1 /\ i - 1 < len /\ idx <= i - 1
        BY <1>2, <1>9, <2>2, SizesAssumption DEF Slots
      <4> QED  BY <4>1, <1>2, SizesAssumption DEF Slots
    <3> QED  BY <1>7, <1>9, <3>1 DEF Carries
  <2> QED  BY <2>1, <2>2
<1>10. ASSUME NEW j \in Slots, j < len
       PROVE  \E i \in Slots : i < end /\ i # idx /\ Same(i, j)
  <2>1. CASE j < idx
    <3>1. 0 <= j /\ (j - 0) + 0 = j /\ j < end /\ j # idx
      BY <1>2, <2>1, SizesAssumption DEF Slots
    <3> QED  BY <1>7, <2>1, <3>1 DEF Carries
  <2>2. CASE ~(j < idx)
    <3>1. PICK i \in Slots : /\ i = j + 1 /\ i < end /\ idx + 1 <= i /\ i # idx
                             /\ (i - (idx + 1)) + idx = j
      <4>1. j + 1 \in Slots /\ j + 1 < end /\ idx < j + 1
        BY <1>2, <1>10, <2>2, SizesAssumption DEF Slots
      <4> QED  BY <4>1, <1>2, SizesAssumption DEF Slots
    <3> QED  BY <1>7, <2>2, <3>1 DEF Carries
  <2> QED  BY <2>1, <2>2
<1>11. ASSUME NEW i \in Slots, i < end, NEW k, k = Kid(g, i)
       PROVE  /\ k \in kids \cup {c} /\ Up(heap, k) = p /\ h[p] = h[k] + 1 /\ k \in kept
              /\ IF i = idx THEN k = c
                 ELSE /\ k \in kids /\ Entry(heap, k) = Slot(g, i)
                      /\ i = IF Index(heap, k) < idx THEN Index(heap, k)
                             ELSE Index(heap, k) + 1
  <2>1. k \in kept
    BY <1>11 DEF FirstKids
  <2>2. CASE i = idx
    BY <1>7, <1>11, <2>1, <2>2
  <2>3. CASE i # idx
    <3>1. PICK j \in Slots : j < len /\ Same(i, j)
      BY <1>9, <1>11, <2>3
    <3>2. /\ k \in kids /\ Up(heap, k) = p /\ Index(heap, k) = j /\ h[p] = h[k] + 1
          /\ Entry(heap, k) = Slot(old, j)
      BY <1>4, <1>11, <3>1
    <3> QED  BY <2>1, <2>3, <3>1, <3>2
  <2> QED  BY <2>2, <2>3
<1>12. kept = kids \cup {c}
  <2>1. ASSUME NEW k \in kept PROVE k \in kids \cup {c}
    BY <1>11 DEF FirstKids
  <2>2. ASSUME NEW k \in kids PROVE k \in kept
    <3>1. PICK j \in Slots : j < len /\ k = Kid(old, j)
      BY <1>2 DEF kids, Kids, FirstKids
    <3>2. PICK i \in Slots : i < end /\ Same(i, j)
      BY <1>2, <1>10, <3>1
    <3> QED  BY <3>1, <3>2 DEF FirstKids
  <2>3. c \in kept
    BY <1>2, <1>7 DEF FirstKids
  <2> QED  BY <2>1, <2>2, <2>3
<1>13. PICK R1, N1 : R1 = R \cup kids /\ N1 = N \cup {p}
  OBVIOUS
<1>14. Forest(heap, T, R1, N1, h)
  BY <1>13, BlankForest DEF kids
<1>15. Fills(heap, h, R1, p, g, end, moved)
  <2>1. /\ moved \subseteq Slots
        /\ \A i \in Slots : i < end => (i \in moved <=> ~(i < idx))
        /\ \A i \in moved : i < end
    BY <1>2, SizesAssumption DEF Slots
  <2>2. Apart(g, end)
    <3>1. ASSUME NEW i \in Slots, NEW j \in Slots, i < end, j < end, Kid(g, i) = Kid(g, j)
          PROVE  i = j
      BY <1>6, <1>11, <3>1
    <3> QED  BY <3>1 DEF Apart
  <2>3. Placeable(g, end, moved)
    BY <1>2, <1>7, <2>1, <2>2, SizesAssumption DEF Placeable, Distinct, Apart
  <2>4. ASSUME NEW i \in Slots, i < end
        PROVE  /\ Kid(g, i) \in R1 /\ Up(heap, Kid(g, i)) = p
               /\ h[p] = h[Kid(g, i)] + 1
               /\ i \notin moved => Index(heap, Kid(g, i)) = i
    <3>1. PICK k : k = Kid(g, i)
      OBVIOUS
    <3>2. k \in R1 /\ Up(heap, k) = p /\ h[p] = h[k] + 1
      BY <1>11, <1>13, <2>4, <3>1
    <3>3. ASSUME i < idx PROVE Index(heap, k) = i
      <4>1. k \in kids /\ i = IF Index(heap, k) < idx THEN Index(heap, k) ELSE Index(heap, k) + 1
        BY <1>11, <2>4, <3>1, <3>3, SizesAssumption DEF Slots
      <4>2. Index(heap, k) \in Slots
        BY <1>1, <1>3, <4>1, NamedAmounts
      <4> QED  BY <3>3, <4>1, <4>2, SizesAssumption DEF Slots
    <3> QED  BY <2>1, <2>4, <3>1, <3>2, <3>3
  <2> HIDE DEF moved
  <2> QED  BY <1>7, <2>1, <2>2, <2>3, <2>4, Zenon DEF Fills
<1> HIDE DEF moved, kept
<1>16. PICK R2, N2 : R2 = R1 \ kept /\ N2 = N1 \ {p}
  OBVIOUS
<1>17. R2 = S /\ N2 = N
  BY <1>3, <1>6, <1>12, <1>13, <1>16
<1>18. /\ Forest(H, T, R2, N2, h)
       /\ Keeps(heap, H, p) /\ Width(H, p) = end /\ Row(H, p) = g
       /\ \A m \in DOMAIN heap : Up(H, m) = Up(heap, m)
       /\ \A m \in DOMAIN heap \ kept : Index(H, m) = Index(heap, m)
       /\ \A m \in T \ R1 : Entry(H, m) = Entry(heap, m)
  <2>1. p \in T /\ p \in N1
    BY <1>13
  <2>2. R2 = R1 \ FirstKids(g, end) /\ N2 = N1 \ {p}
    BY <1>16 DEF kept
  <2> DEFINE G == Place(heap, p, g, end, moved)
  <2>3. /\ Forest(G, T, R2, N2, h)
        /\ Keeps(heap, G, p) /\ Width(G, p) = end /\ Row(G, p) = g
        /\ \A m \in DOMAIN heap : Up(G, m) = Up(heap, m)
        /\ \A m \in DOMAIN heap \ FirstKids(g, end) : Index(G, m) = Index(heap, m)
        /\ \A m \in T \ R1 : Entry(G, m) = Entry(heap, m)
    BY <1>14, <1>15, <2>1, <2>2, PlaceForest
  <2> HIDE DEF G
  <2> QED  BY <1>8, <2>3 DEF kept, G
<1>19. ASSUME NEW i \in Slots, i < end PROVE Entry(H, Kid(g, i)) = Slot(g, i)
  <2>1. p \in T \ N /\ ~IsLeaf(H, p) /\ Forest(H, T, S, N, h)
    BY <1>1, <1>17, <1>18 DEF Keeps
  <2> QED  BY <1>18, <1>19, <2>1, KidsOf
<1>20. ASSUME NEW m \in T \ R PROVE Entry(H, m) = Entry(heap, m)
  <2>1. CASE m \notin kids
    BY <1>13, <1>18, <2>1
  <2>2. CASE m \in kids
    <3>1. PICK i \in Slots : i < end /\ m = Kid(g, i)
      BY <1>12, <2>2 DEF kept, FirstKids
    <3>2. Entry(heap, m) = Slot(g, i)
      BY <1>6, <1>11, <2>2, <3>1
    <3> QED  BY <1>19, <3>1, <3>2
  <2> QED  BY <2>1, <2>2
<1>21. Entry(H, c) = e
  BY <1>2, <1>7, <1>19
<1>22. ASSUME NEW m \in T, m # c, m \in R \/ Up(heap, m) # p
       PROVE  Index(H, m) = Index(heap, m)
  BY <1>1, <1>3, <1>12, <1>18, <1>22
<1>23. /\ Bits(H, p) = Bits(heap, p) + e.b
       /\ OnesAt(H, p) = OnesAt(heap, p) + e.o
  <2>1. ~IsLeaf(H, p) /\ Heap(H) /\ p \in DOMAIN H
    BY <1>1, <1>18 DEF Keeps
  <2> QED  BY <1>1, <1>2, <1>7, <1>18, <2>1, NamedAmounts
<1> QED
  BY <1>2, <1>7, <1>17, <1>18, <1>20, <1>21, <1>22, <1>23 DEF H

\* Nodes that keep their rows and their bits hold what they held.
LEMMA KeptNodes ==
  ASSUME NEW heap, NEW H, NEW n, Keeps(heap, H, n)
  PROVE  /\ DOMAIN H = DOMAIN heap
         /\ \A m \in DOMAIN heap :
              /\ IsLeaf(H, m) = IsLeaf(heap, m) /\ Bv(H, m) = Bv(heap, m)
              /\ m # n => /\ Width(H, m) = Width(heap, m) /\ Row(H, m) = Row(heap, m)
                         /\ Bits(H, m) = Bits(heap, m) /\ OnesAt(H, m) = OnesAt(heap, m)
<1>1. ASSUME NEW m \in DOMAIN heap, m # n
      PROVE  Bits(H, m) = Bits(heap, m) /\ OnesAt(H, m) = OnesAt(heap, m)
  BY <1>1, SameAmounts DEF Keeps
<1> QED
  BY <1>1 DEF Keeps

\* AddToEntry changes the entry of one child.
LEMMA AddForest ==
  ASSUME NEW heap, NEW T, NEW R, NEW N, NEW h, Forest(heap, T, R, N, h),
         NEW p \in T \ N, ~IsLeaf(heap, p), NEW idx \in Slots, idx < Width(heap, p),
         NEW c, c = Kid(Row(heap, p), idx), NEW dBits \in Int, NEW dOnes \in Int
  PROVE  LET H == AddToEntry(heap, p, idx, dBits, dOnes)
         IN  /\ Forest(H, T, R, N, h) /\ Keeps(heap, H, p) /\ Stays(heap, H)
             /\ Width(H, p) = Width(heap, p)
             /\ \A i \in Slots : Kid(Row(H, p), i) = Kid(Row(heap, p), i)
             /\ c \in T \ R
             /\ Entry(H, c).b = Entry(heap, c).b + dBits
             /\ Entry(H, c).o = Entry(heap, c).o + dOnes
             /\ \A m \in T \ R : m # c => Entry(H, m) = Entry(heap, m)
             /\ Bits(H, p) = Bits(heap, p) + dBits
             /\ OnesAt(H, p) = OnesAt(heap, p) + dOnes
<1> DEFINE H == AddToEntry(heap, p, idx, dBits, dOnes)
<1>1. /\ Heap(heap) /\ p \in DOMAIN heap /\ T \subseteq DOMAIN heap /\ Row(heap, p) \in Rows
  <2>1. T \subseteq DOMAIN heap
    BY DEF Forest
  <2> QED  BY <2>1, ForestFields
<1> HIDE DEF H
<1>2. /\ Keeps(heap, H, p) /\ Stays(heap, H) /\ Width(H, p) = Width(heap, p)
      /\ \A i \in Slots : Kid(Row(H, p), i) = Kid(Row(heap, p), i)
      /\ \A i \in Slots \ {idx} : Slot(Row(H, p), i) = Slot(Row(heap, p), i)
      /\ Slot(Row(H, p), idx).b = Slot(Row(heap, p), idx).b + dBits
      /\ Slot(Row(H, p), idx).o = Slot(Row(heap, p), idx).o + dOnes
  BY <1>1, AddToEntryFields DEF H
<1>3. Heap(H) /\ DOMAIN H = DOMAIN heap
  BY <1>2 DEF Keeps
<1>4. Forest(H, T, R, N, h)
  <2>1. ASSUME NEW m \in DOMAIN heap
        PROVE  /\ Alike(heap, H, m)
               /\ m \notin T \/ IsLeaf(heap, m) => Row(H, m) = Row(heap, m)
    <3>1. CASE m = p
      <4>1. \A i \in Slots : ~(i < Width(heap, p)) => i # idx
        OBVIOUS
      <4> QED  BY <1>1, <1>2, <3>1, <4>1 DEF Alike, Keeps
    <3>2. CASE m # p
      BY <1>2, <3>2 DEF Keeps, Alike
    <3> QED  BY <3>1, <3>2
  <2> QED  BY <1>2, <1>3, <2>1, SameForest
<1>5. c \in T \ R /\ Entry(heap, c) = Slot(Row(heap, p), idx)
  BY KidsOf
<1>6. ~IsLeaf(H, p)
  BY <1>1, <1>2 DEF Keeps
<1>7. Entry(H, c) = Slot(Row(H, p), idx)
  BY <1>2, <1>4, <1>6, KidsOf
<1>8. ASSUME NEW m \in T \ R, m # c PROVE Entry(H, m) = Entry(heap, m)
  <2>1. Up(H, m) = Up(heap, m) /\ Index(H, m) = Index(heap, m)
    BY <1>1, <1>2 DEF Stays
  <2>2. Hangs(heap, h, T \ N, m)
    BY DEF Forest
  <2>3. CASE Up(heap, m) = p
    <3>1. Index(heap, m) \in Slots \ {idx}
      BY <1>8, <2>2, <2>3 DEF Hangs, Points
    <3> QED  BY <1>2, <2>1, <2>3, <3>1 DEF Entry
  <2>4. CASE Up(heap, m) # p
    <3>1. PICK q \in DOMAIN heap \ {p} : q = Up(heap, m)
      BY <1>1, <2>2, <2>4 DEF Hangs
    <3> QED  BY <1>2, <2>1, <3>1 DEF Entry, Keeps
  <2> QED  BY <2>3, <2>4
<1>9. /\ Bits(H, p) = Bits(heap, p) + dBits
      /\ OnesAt(H, p) = OnesAt(heap, p) + dOnes
  <2>1. PICK old \in Rows, new \in Rows : old = Row(heap, p) /\ new = Row(H, p)
    BY <1>1, <1>3, NamedAmounts
  <2>2. /\ Bits(heap, p) = Total(Bs(old)) /\ Bits(H, p) = Total(Bs(new))
        /\ OnesAt(heap, p) = Total(Os(old)) /\ OnesAt(H, p) = Total(Os(new))
    BY <1>1, <1>3, <1>6, <2>1, NamedAmounts
  <2>3. /\ {Bs(old), Os(old), Bs(new), Os(new)} \subseteq Numbers
        /\ \A i \in Slots : /\ Bs(old)[i] = Slot(old, i).b /\ Bs(new)[i] = Slot(new, i).b
                            /\ Os(old)[i] = Slot(old, i).o /\ Os(new)[i] = Slot(new, i).o
    BY RowFields
  <2>4. /\ Bs(new)[idx] = Bs(old)[idx] + dBits /\ Os(new)[idx] = Os(old)[idx] + dOnes
        /\ \A i \in Slots \ {idx} : Bs(new)[i] = Bs(old)[i]
        /\ \A i \in Slots \ {idx} : Os(new)[i] = Os(old)[i]
    BY <1>2, <2>1, <2>3
  <2>5. PICK all \in 0..(NodeSizeMax + 1) : all = NodeSizeMax + 1 /\ idx < all
    BY SizesAssumption DEF Slots
  <2>6. SumBelow(Bs(new), all) = SumBelow(Bs(old), all) + dBits
    BY <2>3, <2>4, <2>5, ChangedSum
  <2>7. SumBelow(Os(new), all) = SumBelow(Os(old), all) + dOnes
    BY <2>3, <2>4, <2>5, ChangedSum
  <2> QED  BY <2>2, <2>5, <2>6, <2>7 DEF Total
<1> QED
  BY <1>2, <1>4, <1>5, <1>7, <1>8, <1>9 DEF H

\* WithBits changes what one leaf holds.
LEMMA WithBitsForest ==
  ASSUME NEW heap, NEW T, NEW R, NEW N, NEW h, Forest(heap, T, R, N, h),
         NEW n \in T, NEW bv \in Strings, IsLeaf(heap, n)
  PROVE  LET H == WithBits(heap, n, bv)
         IN  /\ Forest(H, T, R, N, h) /\ DOMAIN H = DOMAIN heap /\ Stays(heap, H)
             /\ Bv(H, n) = bv /\ \A m \in DOMAIN heap : m # n => Bv(H, m) = Bv(heap, m)
             /\ \A m \in DOMAIN heap : /\ IsLeaf(H, m) = IsLeaf(heap, m)
                                       /\ Width(H, m) = Width(heap, m)
                                       /\ Row(H, m) = Row(heap, m)
             /\ \A m \in T : m # n => /\ Bits(H, m) = Bits(heap, m)
                                      /\ OnesAt(H, m) = OnesAt(heap, m)
             /\ \A m \in T \ R : Entry(H, m) = Entry(heap, m)
<1> DEFINE H == WithBits(heap, n, bv)
<1>1. Heap(heap) /\ n \in DOMAIN heap /\ T \subseteq DOMAIN heap
  BY DEF Forest
<1> HIDE DEF H
<1>2. /\ Heap(H) /\ DOMAIN H = DOMAIN heap /\ Stays(heap, H) /\ Bv(H, n) = bv
      /\ \A m \in DOMAIN heap \ {n} : Bv(H, m) = Bv(heap, m)
      /\ \A m \in DOMAIN heap : /\ IsLeaf(H, m) = IsLeaf(heap, m)
                                /\ Width(H, m) = Width(heap, m)
                                /\ Row(H, m) = Row(heap, m)
  BY <1>1, WithBitsFields DEF H, Strings
<1>3. Forest(H, T, R, N, h)
  <2>1. \A m \in DOMAIN heap : Alike(heap, H, m)
    BY <1>2 DEF Alike
  <2> QED  BY <1>2, <2>1, SameForest
<1>5. ASSUME NEW m \in T, m # n
      PROVE  Bits(H, m) = Bits(heap, m) /\ OnesAt(H, m) = OnesAt(heap, m)
  BY <1>1, <1>2, <1>5, SameAmounts
<1>6. ASSUME NEW m \in T \ R PROVE Entry(H, m) = Entry(heap, m)
  <2>1. Up(heap, m) \in DOMAIN heap
    BY <1>1 DEF Forest, Hangs
  <2> QED  BY <1>1, <1>2, <2>1 DEF Entry, Stays
<1> QED
  BY <1>2, <1>3, <1>5, <1>6 DEF H

\* A root may be given any parent.
LEMMA AdoptForest ==
  ASSUME NEW heap, NEW T, NEW R, NEW N, NEW h, Forest(heap, T, R, N, h),
         NEW c \in R, NEW p \in Nat
  PROVE  LET H == Adopted(heap, c, p)
         IN  /\ Forest(H, T, R, N, h) /\ Keeps(heap, H, nullptr) /\ Up(H, c) = p
             /\ \A m \in DOMAIN heap : m # c => Up(H, m) = Up(heap, m)
             /\ \A m \in DOMAIN heap : Index(H, m) = Index(heap, m)
             /\ \A m \in T \ R : Entry(H, m) = Entry(heap, m)
             /\ \A m \in T : Bits(H, m) = Bits(heap, m) /\ OnesAt(H, m) = OnesAt(heap, m)
             /\ \A m \in T : Width(H, m) = Width(heap, m) /\ Row(H, m) = Row(heap, m)
<1> DEFINE H == Adopted(heap, c, p)
<1>1. Heap(heap) /\ c \in DOMAIN heap /\ T \subseteq DOMAIN heap /\ R \subseteq T
  BY DEF Forest
<1> HIDE DEF H
<1>2. /\ Keeps(heap, H, nullptr) /\ Up(H, c) = p
      /\ \A m \in DOMAIN heap \ {c} : Up(H, m) = Up(heap, m)
      /\ \A m \in DOMAIN heap : Index(H, m) = Index(heap, m)
  BY <1>1, AdoptFields DEF H
<1>3. /\ Heap(H) /\ DOMAIN H = DOMAIN heap
      /\ \A m \in DOMAIN heap : /\ IsLeaf(H, m) = IsLeaf(heap, m)
                                /\ Width(H, m) = Width(heap, m)
                                /\ Row(H, m) = Row(heap, m) /\ Bv(H, m) = Bv(heap, m)
  BY <1>1, <1>2 DEF Keeps, Heap
<1>4. ASSUME NEW n \in T, NEW i, NEW m \in T \ R, Points(heap, h, n, i, m)
      PROVE  Points(H, h, n, i, m)
  BY <1>1, <1>2, <1>3, <1>4 DEF Points
<1>5. ASSUME NEW n \in T \ N, ~IsLeaf(H, n) PROVE Rooted(H, h, T \ R, n)
  <2>1. n \in DOMAIN heap /\ Rooted(heap, h, T \ R, n)
    BY <1>1, <1>3, <1>5 DEF Forest
  <2> QED  BY <1>3, <1>4, <2>1 DEF Rooted
<1>6. ASSUME NEW m \in T \ R
      PROVE  /\ Hangs(H, h, T \ N, m) /\ Up(H, m) = Up(heap, m) /\ Index(H, m) = Index(heap, m)
             /\ Up(heap, m) \in DOMAIN heap
  <2>1. m \in DOMAIN heap /\ m # c /\ Hangs(heap, h, T \ N, m)
    BY <1>1 DEF Forest
  <2> QED  BY <1>1, <1>2, <1>4, <2>1 DEF Hangs
<1>7. Forest(H, T, R, N, h)
  <2>1. /\ R \subseteq T /\ h \in [Nat -> Nat] /\ \A m \in T : IsLeaf(H, m) <=> h[m] = 0
        /\ \A m \in DOMAIN H : m \notin T \/ IsLeaf(H, m) => Row(H, m) \in NoChildren
    BY <1>1, <1>3 DEF Forest
  <2> QED  BY <1>1, <1>3, <1>5, <1>6, <2>1 DEF Forest
<1>8. \A m \in T \ R : Entry(H, m) = Entry(heap, m)
  BY <1>3, <1>6 DEF Entry
<1>9. \A m \in T : Bits(H, m) = Bits(heap, m) /\ OnesAt(H, m) = OnesAt(heap, m)
  BY <1>1, <1>3, SameAmounts
<1> QED
  BY <1>1, <1>2, <1>3, <1>7, <1>8, <1>9 DEF H

-----------------------------------------------------------------------------
(* Children and blocks that move between neighbours: a tree stays a tree,  *)
(* and each counter keeps its distance from what it counts.                *)

\* The entry of m is as far from what m holds as it was.
SameGap(heap, H, m) ==
  /\ Bits(H, m) - Entry(H, m).b = Bits(heap, m) - Entry(heap, m).b
  /\ OnesAt(H, m) - Entry(H, m).o = OnesAt(heap, m) - Entry(heap, m).o

\* The roots keep what is above them.
SameRoots(heap, H, R) == \A m \in R : Up(H, m) = Up(heap, m)

\* The entry of a node in a forest.
LEMMA EntryFields ==
  ASSUME NEW heap, NEW T, NEW R, NEW N, NEW h, Forest(heap, T, R, N, h), NEW m \in T \ R
  PROVE  /\ Up(heap, m) \in T \ N /\ ~IsLeaf(heap, Up(heap, m))
         /\ Index(heap, m) \in Slots /\ Index(heap, m) < Width(heap, Up(heap, m))
         /\ Kid(Row(heap, Up(heap, m)), Index(heap, m)) = m
         /\ h[Up(heap, m)] = h[m] + 1
         /\ Entry(heap, m) \in [b : Int, o : Int, P : Nat] /\ Entry(heap, m).P = m
         /\ Entry(heap, m).b \in Int /\ Entry(heap, m).o \in Int
<1>1. Hangs(heap, h, T \ N, m)
  BY DEF Forest
<1>2. PICK p \in T \ N, i \in Slots : p = Up(heap, m) /\ i = Index(heap, m)
  BY <1>1 DEF Hangs
<1>3. /\ ~IsLeaf(heap, p) /\ i < Width(heap, p) /\ Kid(Row(heap, p), i) = m
      /\ h[p] = h[m] + 1
  BY <1>1, <1>2 DEF Hangs, Points
<1>4. Row(heap, p) \in Rows
  BY ForestFields
<1>5. PICK row \in Rows : row = Row(heap, p)
  BY <1>4
<1>6. Entry(heap, m) = Slot(row, i)
  BY <1>2, <1>5 DEF Entry
<1> QED
  BY <1>2, <1>3, <1>5, <1>6, RowFields

SameKids(g, f) == \A i \in Slots : Kid(g, i) = Kid(f, i)

\* Node m has its kind, its bits and its children in both heaps.
SameNode(heap, H, m) ==
  /\ IsLeaf(H, m) = IsLeaf(heap, m) /\ Bv(H, m) = Bv(heap, m)
  /\ Width(H, m) = Width(heap, m) /\ SameKids(Row(H, m), Row(heap, m))

\* The child in slot j of n is now in slot k of s.
MovedKid(heap, H, T, n, s, j, k) ==
  /\ \A m \in T : m # n /\ m # s => SameNode(heap, H, m)
  /\ ~IsLeaf(H, n) /\ ~IsLeaf(H, s) /\ Kid(Row(H, s), k) = Kid(Row(heap, n), j)
  /\ Width(H, n) = Width(heap, n) - 1 /\ Width(H, s) = Width(heap, s) + 1
  /\ Carries(Row(H, n), 0, j, Row(heap, n), 0)
  /\ Carries(Row(H, n), j, Width(H, n), Row(heap, n), j + 1)
  /\ Carries(Row(H, s), 0, k, Row(heap, s), 0)
  /\ Carries(Row(H, s), k + 1, Width(H, s), Row(heap, s), k)

\* A child moves from n to its sibling, and their parent is told: what
\* moveLeftInternal and moveRightInternal have in common.
MoveChild(heap, p, from, to, j, k) ==
  LET n == heap[p].entries[from].P
      sibling == heap[p].entries[to].P
      entry == heap[n].entries[j]
      adopted == Adopted(RemoveEntry(heap, n, j), entry.P, sibling)
  IN  Shift(InsertEntry(adopted, sibling, k, entry), p, from, to, entry.b, entry.o)

\* The child changes hands and every counter keeps its distance.
LEMMA MoveChildForest ==
  ASSUME NEW heap, NEW T, NEW R, NEW N, NEW h, Forest(heap, T, R, N, h),
         NEW p \in T \ N, ~IsLeaf(heap, p),
         NEW from \in Slots, NEW to \in Slots, from # to,
         from < Width(heap, p), to < Width(heap, p),
         NEW n, n = Kid(Row(heap, p), from), n \notin N, ~IsLeaf(heap, n),
         NEW s, s = Kid(Row(heap, p), to), s \notin N, Width(heap, s) <= NodeSizeMax,
         NEW j \in Slots, j < Width(heap, n), NEW k \in Slots, k <= Width(heap, s)
  PROVE  LET H == MoveChild(heap, p, from, to, j, k)
         IN  /\ Forest(H, T, R, N, h) /\ DOMAIN H = DOMAIN heap
             /\ \A m \in T : /\ IsLeaf(H, m) = IsLeaf(heap, m) /\ Bv(H, m) = Bv(heap, m)
                             /\ m \notin {n, s} => Width(H, m) = Width(heap, m)
             /\ Width(H, n) = Width(heap, n) - 1 /\ Width(H, s) = Width(heap, s) + 1
             /\ SameRoots(heap, H, R) /\ \A m \in T \ R : SameGap(heap, H, m)
             /\ MovedKid(heap, H, T, n, s, j, k)
<1>1. /\ Heap(heap) /\ T \subseteq DOMAIN heap /\ R \subseteq T
      /\ p \in DOMAIN heap /\ h[p] \in Nat
  <2>1. T \subseteq DOMAIN heap /\ R \subseteq T
    BY DEF Forest
  <2> QED  BY <2>1, ForestFields
<1>2. /\ n \in T \ R /\ Up(heap, n) = p /\ Index(heap, n) = from /\ h[p] = h[n] + 1
      /\ s \in T \ R /\ Up(heap, s) = p /\ Index(heap, s) = to /\ h[p] = h[s] + 1
  BY KidsOf
<1>3. h[n] \in Nat /\ h[s] \in Nat /\ n \in DOMAIN heap /\ s \in DOMAIN heap
      /\ Width(heap, s) \in 0..(NodeSizeMax + 1)
  BY <1>2, ForestFields
<1>4. ~IsLeaf(heap, s)
  BY <1>2, <1>3 DEF Forest
<1>5. PICK e \in [b : Int, o : Int, P : Nat], c \in Nat :
        /\ e = Slot(Row(heap, n), j) /\ c = e.P /\ c = Kid(Row(heap, n), j)
  <2>1. Row(heap, n) \in Rows
    BY <1>2, ForestFields
  <2> QED  BY <2>1, RowFields
<1>6. c \in T \ R /\ Up(heap, c) = n /\ h[n] = h[c] + 1 /\ Entry(heap, c) = e
  BY <1>2, <1>5, KidsOf
<1>7. c \in DOMAIN heap /\ h[c] \in Nat /\ e.b \in Int /\ e.o \in Int /\ s \in Nat
  BY <1>2, <1>5, <1>6, ForestFields
<1>8. n # s /\ p # n /\ p # s /\ c # n /\ c # s /\ c # p
  BY <1>1, <1>2, <1>3, <1>6, <1>7
<1> DEFINE A == RemoveEntry(heap, n, j)
           B == Adopted(A, c, s)
           C == InsertEntry(B, s, k, e)
           D == AddToEntry(C, p, from, -e.b, -e.o)
           H == AddToEntry(D, p, to, e.b, e.o)
<1>9. MoveChild(heap, p, from, to, j, k) = H
  BY <1>2, <1>5 DEF MoveChild, Shift, Kid, Row, Slot
<1>10. PICK Q : Q = R \cup {c}
  OBVIOUS
<1> HIDE DEF A, B, C, D, H
<1>11. /\ Forest(A, T, Q, N, h) /\ Keeps(heap, A, n) /\ Width(A, n) = Width(heap, n) - 1
       /\ Carries(Row(A, n), 0, j, Row(heap, n), 0)
       /\ Carries(Row(A, n), j, Width(A, n), Row(heap, n), j + 1)
       /\ Bits(A, n) = Bits(heap, n) - e.b /\ OnesAt(A, n) = OnesAt(heap, n) - e.o
       /\ \A m \in DOMAIN heap : Up(A, m) = Up(heap, m)
       /\ \A m \in T \ Q : Entry(A, m) = Entry(heap, m)
       /\ \A m \in T : m \in R \/ Up(heap, m) # n => Index(A, m) = Index(heap, m)
  <2>1. n \in T \ N /\ c = Kid(Row(heap, n), j)
    BY <1>2, <1>5
  <2>2. /\ Forest(A, T, Q, N, h) /\ Keeps(heap, A, n) /\ Width(A, n) = Width(heap, n) - 1
        /\ Carries(Row(A, n), 0, j, Row(heap, n), 0)
        /\ Carries(Row(A, n), j, Width(A, n), Row(heap, n), j + 1)
        /\ Bits(A, n) = Bits(heap, n) - Slot(Row(heap, n), j).b
        /\ OnesAt(A, n) = OnesAt(heap, n) - Slot(Row(heap, n), j).o
        /\ \A m \in DOMAIN heap : Up(A, m) = Up(heap, m)
        /\ \A m \in T \ Q : Entry(A, m) = Entry(heap, m)
        /\ \A m \in T : m \in R \/ Up(heap, m) # n => Index(A, m) = Index(heap, m)
    BY <1>10, <2>1, RemoveForest DEF A
  <2> QED  BY <1>5, <2>2
<1>12. /\ DOMAIN A = DOMAIN heap /\ Index(A, n) = from /\ Index(A, s) = to
       /\ \A m \in T : m # n => /\ Bits(A, m) = Bits(heap, m)
                                /\ OnesAt(A, m) = OnesAt(heap, m)
                                /\ Width(A, m) = Width(heap, m)
                                /\ Row(A, m) = Row(heap, m)
       /\ \A m \in T : IsLeaf(A, m) = IsLeaf(heap, m) /\ Bv(A, m) = Bv(heap, m)
  BY <1>1, <1>2, <1>8, <1>11, KeptNodes
<1>13. /\ Forest(B, T, Q, N, h) /\ Keeps(A, B, nullptr) /\ Up(B, c) = s
       /\ \A m \in DOMAIN A : m # c => Up(B, m) = Up(A, m)
       /\ \A m \in DOMAIN A : Index(B, m) = Index(A, m)
       /\ \A m \in T \ Q : Entry(B, m) = Entry(A, m)
       /\ \A m \in T : Bits(B, m) = Bits(A, m) /\ OnesAt(B, m) = OnesAt(A, m)
       /\ \A m \in T : Width(B, m) = Width(A, m) /\ Row(B, m) = Row(A, m)
  <2>1. c \in Q /\ Forest(A, T, Q, N, h)
    BY <1>10, <1>11
  <2> QED  BY <1>7, <2>1, AdoptForest DEF B
<1>14. /\ DOMAIN B = DOMAIN heap
       /\ \A m \in T : IsLeaf(B, m) = IsLeaf(heap, m) /\ Bv(B, m) = Bv(heap, m)
  BY <1>1, <1>12, <1>13 DEF Keeps
<1>15. R = Q \ {c} /\ c \in Q /\ s \in T \ N /\ ~IsLeaf(B, s) /\ Width(B, s) = Width(heap, s)
  BY <1>2, <1>4, <1>6, <1>8, <1>10, <1>12, <1>13, <1>14
<1>16. /\ Forest(C, T, R, N, h) /\ Keeps(B, C, s) /\ Width(C, s) = Width(heap, s) + 1
       /\ Carries(Row(C, s), 0, k, Row(B, s), 0) /\ Kid(Row(C, s), k) = c
       /\ Carries(Row(C, s), k + 1, Width(C, s), Row(B, s), k)
       /\ Bits(C, s) = Bits(B, s) + e.b /\ OnesAt(C, s) = OnesAt(B, s) + e.o
       /\ \A m \in DOMAIN B : Up(C, m) = Up(B, m)
       /\ Entry(C, c) = e /\ \A m \in T \ Q : Entry(C, m) = Entry(B, m)
       /\ \A m \in T : m # c /\ (m \in Q \/ Up(B, m) # s) => Index(C, m) = Index(B, m)
  <2>1. Up(B, c) = s /\ h[s] = h[c] + 1
    BY <1>2, <1>6, <1>3, <1>7, <1>13
  <2>2. /\ Width(B, s) <= NodeSizeMax /\ k <= Width(B, s) /\ c = e.P
        /\ Forest(B, T, Q, N, h)
    BY <1>5, <1>13, <1>15
  <2>3. /\ Forest(C, T, R, N, h) /\ Keeps(B, C, s) /\ Width(C, s) = Width(B, s) + 1
        /\ Carries(Row(C, s), 0, k, Row(B, s), 0) /\ Kid(Row(C, s), k) = c
        /\ Carries(Row(C, s), k + 1, Width(C, s), Row(B, s), k)
        /\ Bits(C, s) = Bits(B, s) + e.b /\ OnesAt(C, s) = OnesAt(B, s) + e.o
        /\ \A m \in DOMAIN B : Up(C, m) = Up(B, m)
        /\ Entry(C, c) = e /\ \A m \in T \ Q : Entry(C, m) = Entry(B, m)
        /\ \A m \in T : m # c /\ (m \in Q \/ Up(B, m) # s) => Index(C, m) = Index(B, m)
    BY <1>15, <2>1, <2>2, InsertForest DEF C
  <2> QED  BY <1>15, <2>3
<1>17. /\ DOMAIN C = DOMAIN heap
       /\ \A m \in T : m # s => /\ Bits(C, m) = Bits(B, m) /\ OnesAt(C, m) = OnesAt(B, m)
                                /\ Width(C, m) = Width(B, m) /\ Row(C, m) = Row(B, m)
       /\ \A m \in T : IsLeaf(C, m) = IsLeaf(heap, m) /\ Bv(C, m) = Bv(heap, m)
  BY <1>1, <1>14, <1>16, KeptNodes
<1>18. /\ Up(C, n) = p /\ Index(C, n) = from /\ Up(C, s) = p /\ Index(C, s) = to
  BY <1>2, <1>3, <1>8, <1>11, <1>12, <1>13, <1>14, <1>16
<1>19. /\ ~IsLeaf(C, p) /\ from < Width(C, p) /\ to < Width(C, p) /\ Width(C, p) = Width(heap, p)
       /\ n = Kid(Row(C, p), from) /\ s = Kid(Row(C, p), to)
  <2>1. Width(C, p) = Width(heap, p) /\ ~IsLeaf(C, p)
    BY <1>8, <1>12, <1>13, <1>17
  <2> QED  BY <1>2, <1>16, <1>18, <2>1, EntryFields
<1>20. /\ Forest(D, T, R, N, h) /\ Keeps(C, D, p) /\ Stays(C, D)
       /\ Width(D, p) = Width(C, p)
       /\ \A i \in Slots : Kid(Row(D, p), i) = Kid(Row(C, p), i)
       /\ Entry(D, n).b = Entry(C, n).b + (-e.b) /\ Entry(D, n).o = Entry(C, n).o + (-e.o)
       /\ \A m \in T \ R : m # n => Entry(D, m) = Entry(C, m)
       /\ Bits(D, p) = Bits(C, p) + (-e.b) /\ OnesAt(D, p) = OnesAt(C, p) + (-e.o)
  <2>1. -e.b \in Int /\ -e.o \in Int
    BY <1>7
  <2> QED  BY <1>16, <1>19, <2>1, AddForest DEF D
<1>21. /\ DOMAIN D = DOMAIN heap
       /\ \A m \in T : m # p => /\ Bits(D, m) = Bits(C, m) /\ OnesAt(D, m) = OnesAt(C, m)
                                /\ Row(D, m) = Row(C, m)
       /\ \A m \in T : /\ IsLeaf(D, m) = IsLeaf(heap, m) /\ Bv(D, m) = Bv(heap, m)
                       /\ Width(D, m) = Width(C, m)
  BY <1>1, <1>17, <1>20, KeptNodes
<1>22. /\ Forest(H, T, R, N, h) /\ Keeps(D, H, p) /\ Stays(D, H)
       /\ Width(H, p) = Width(D, p)
       /\ \A i \in Slots : Kid(Row(H, p), i) = Kid(Row(D, p), i)
       /\ Entry(H, s).b = Entry(D, s).b + e.b /\ Entry(H, s).o = Entry(D, s).o + e.o
       /\ \A m \in T \ R : m # s => Entry(H, m) = Entry(D, m)
       /\ Bits(H, p) = Bits(D, p) + e.b /\ OnesAt(H, p) = OnesAt(D, p) + e.o
  <2>1. ~IsLeaf(D, p) /\ to < Width(D, p) /\ s = Kid(Row(D, p), to)
    BY <1>1, <1>19, <1>20, <1>21
  <2> QED  BY <1>7, <1>20, <2>1, AddForest DEF H
<1>23. /\ DOMAIN H = DOMAIN heap
       /\ \A m \in T : m # p => /\ Bits(H, m) = Bits(D, m) /\ OnesAt(H, m) = OnesAt(D, m)
                                /\ Row(H, m) = Row(D, m)
       /\ \A m \in T : /\ IsLeaf(H, m) = IsLeaf(heap, m) /\ Bv(H, m) = Bv(heap, m)
                       /\ Width(H, m) = Width(D, m)
  BY <1>1, <1>21, <1>22, KeptNodes
<1>24. ASSUME NEW m \in T \ R PROVE SameGap(heap, H, m)
  <2>1. /\ Bits(heap, m) \in Int /\ OnesAt(heap, m) \in Int
        /\ Entry(heap, m).b \in Int /\ Entry(heap, m).o \in Int
    BY ForestFields, EntryFields
  <2>2. Entry(C, m) = Entry(heap, m)
    BY <1>6, <1>10, <1>11, <1>13, <1>16
  <2>3. CASE m = n
    BY <1>2, <1>7, <1>8, <1>11, <1>13, <1>17, <1>20, <1>21, <1>22, <1>23, <2>1, <2>2, <2>3
       DEF SameGap
  <2>4. CASE m = s
    BY <1>2, <1>7, <1>8, <1>12, <1>13, <1>16, <1>20, <1>21, <1>22, <1>23, <2>1, <2>2, <2>4
       DEF SameGap
  <2>5. CASE m = p
    BY <1>7, <1>8, <1>12, <1>13, <1>17, <1>20, <1>22, <2>1, <2>2, <2>5 DEF SameGap
  <2>6. CASE m \notin {n, s, p}
    BY <1>12, <1>13, <1>17, <1>20, <1>21, <1>22, <1>23, <2>2, <2>6 DEF SameGap
  <2> QED  BY <2>3, <2>4, <2>5, <2>6
<1>25. /\ Width(H, n) = Width(heap, n) - 1 /\ Width(H, s) = Width(heap, s) + 1
       /\ \A m \in T : m \notin {n, s} => Width(H, m) = Width(heap, m)
  BY <1>2, <1>8, <1>11, <1>12, <1>13, <1>16, <1>17, <1>21, <1>23
<1>26. SameRoots(heap, H, R)
  <2>1. ASSUME NEW m \in R PROVE Up(H, m) = Up(heap, m)
    <3>1. m # c /\ m \in DOMAIN heap
      BY <1>1, <1>6
    <3> QED
      BY <3>1, <1>11, <1>12, <1>13, <1>14, <1>16, <1>17, <1>20, <1>21, <1>22 DEF Stays
  <2> QED  BY <2>1 DEF SameRoots
<1>27. MovedKid(heap, H, T, n, s, j, k)
  <2>1. ASSUME NEW m \in T, m # n, m # s PROVE SameNode(heap, H, m)
    <3>1. Row(C, m) = Row(heap, m) /\ Width(H, m) = Width(heap, m)
      BY <1>12, <1>13, <1>17, <1>25, <2>1
    <3>2. SameKids(Row(H, m), Row(heap, m))
      BY <1>20, <1>21, <1>22, <1>23, <3>1 DEF SameKids
    <3> QED  BY <1>23, <3>1, <3>2 DEF SameNode
  <2>2. /\ Row(H, n) = Row(A, n) /\ Row(H, s) = Row(C, s) /\ Row(B, s) = Row(heap, s)
        /\ Width(H, n) = Width(A, n) /\ Width(H, s) = Width(C, s)
    BY <1>2, <1>8, <1>11, <1>12, <1>13, <1>16, <1>17, <1>21, <1>23
  <2>3. ~IsLeaf(H, n) /\ ~IsLeaf(H, s)
    BY <1>2, <1>4, <1>23
  <2> QED  BY <1>5, <1>11, <1>16, <1>25, <2>1, <2>2, <2>3 DEF MovedKid
<1> QED
  BY <1>9, <1>22, <1>23, <1>24, <1>25, <1>26, <1>27

\* The counters of two children of p change by as much as what they hold does.
LEMMA ShiftForest ==
  ASSUME NEW heap, NEW T, NEW R, NEW N, NEW h, Forest(heap, T, R, N, h),
         NEW p \in T \ N, ~IsLeaf(heap, p),
         NEW from \in Slots, NEW to \in Slots, from # to,
         from < Width(heap, p), to < Width(heap, p),
         NEW n, n = Kid(Row(heap, p), from), NEW s, s = Kid(Row(heap, p), to),
         NEW dBits \in Int, NEW dOnes \in Int
  PROVE  LET H == Shift(heap, p, from, to, dBits, dOnes)
         IN  /\ Forest(H, T, R, N, h) /\ DOMAIN H = DOMAIN heap /\ SameRoots(heap, H, R)
             /\ \A m \in T : /\ IsLeaf(H, m) = IsLeaf(heap, m) /\ Bv(H, m) = Bv(heap, m)
                             /\ Width(H, m) = Width(heap, m)
                             /\ Bits(H, m) = Bits(heap, m) /\ OnesAt(H, m) = OnesAt(heap, m)
             /\ Entry(H, n).b = Entry(heap, n).b - dBits
             /\ Entry(H, n).o = Entry(heap, n).o - dOnes
             /\ Entry(H, s).b = Entry(heap, s).b + dBits
             /\ Entry(H, s).o = Entry(heap, s).o + dOnes
             /\ \A m \in T \ R : m # n /\ m # s => Entry(H, m) = Entry(heap, m)
             /\ \A m \in T : SameKids(Row(H, m), Row(heap, m))
<1> DEFINE D == AddToEntry(heap, p, from, -dBits, -dOnes)
           H == AddToEntry(D, p, to, dBits, dOnes)
<1>1. /\ T \subseteq DOMAIN heap /\ p \in DOMAIN heap
      /\ n \in T \ R /\ Index(heap, n) = from /\ s \in T \ R /\ Index(heap, s) = to
  <2>1. T \subseteq DOMAIN heap
    BY DEF Forest
  <2> QED  BY <2>1, KidsOf
<1>2. n # s
  BY <1>1
<1>3. Shift(heap, p, from, to, dBits, dOnes) = H
  BY DEF Shift
<1>4. /\ Bits(heap, p) \in Int /\ OnesAt(heap, p) \in Int
      /\ Entry(heap, n).b \in Int /\ Entry(heap, n).o \in Int
  BY <1>1, ForestFields, EntryFields
<1> HIDE DEF D, H
<1>5. /\ Forest(D, T, R, N, h) /\ Keeps(heap, D, p) /\ Stays(heap, D) /\ Width(D, p) = Width(heap, p)
      /\ \A i \in Slots : Kid(Row(D, p), i) = Kid(Row(heap, p), i)
      /\ Entry(D, n).b = Entry(heap, n).b + (-dBits)
      /\ Entry(D, n).o = Entry(heap, n).o + (-dOnes)
      /\ \A m \in T \ R : m # n => Entry(D, m) = Entry(heap, m)
      /\ Bits(D, p) = Bits(heap, p) + (-dBits) /\ OnesAt(D, p) = OnesAt(heap, p) + (-dOnes)
  <2>1. -dBits \in Int /\ -dOnes \in Int
    OBVIOUS
  <2> QED  BY <2>1, AddForest DEF D
<1>6. /\ DOMAIN D = DOMAIN heap
      /\ \A m \in T : /\ m # p => /\ Bits(D, m) = Bits(heap, m)
                                  /\ OnesAt(D, m) = OnesAt(heap, m)
                                  /\ Row(D, m) = Row(heap, m)
                      /\ IsLeaf(D, m) = IsLeaf(heap, m) /\ Bv(D, m) = Bv(heap, m)
                      /\ Width(D, m) = Width(heap, m)
  BY <1>1, <1>5, KeptNodes
<1>7. /\ Forest(H, T, R, N, h) /\ Keeps(D, H, p) /\ Stays(D, H) /\ Width(H, p) = Width(D, p)
      /\ \A i \in Slots : Kid(Row(H, p), i) = Kid(Row(D, p), i)
      /\ Entry(H, s).b = Entry(D, s).b + dBits /\ Entry(H, s).o = Entry(D, s).o + dOnes
      /\ \A m \in T \ R : m # s => Entry(H, m) = Entry(D, m)
      /\ Bits(H, p) = Bits(D, p) + dBits /\ OnesAt(H, p) = OnesAt(D, p) + dOnes
  <2>1. ~IsLeaf(D, p) /\ to < Width(D, p) /\ s = Kid(Row(D, p), to)
    BY <1>1, <1>5, <1>6
  <2> QED  BY <1>5, <2>1, AddForest DEF H
<1>8. /\ DOMAIN H = DOMAIN heap
      /\ \A m \in T : /\ m # p => /\ Bits(H, m) = Bits(D, m)
                                  /\ OnesAt(H, m) = OnesAt(D, m)
                                  /\ Row(H, m) = Row(D, m)
                      /\ IsLeaf(H, m) = IsLeaf(heap, m) /\ Bv(H, m) = Bv(heap, m)
                      /\ Width(H, m) = Width(heap, m)
  BY <1>1, <1>6, <1>7, KeptNodes
<1>9. Bits(H, p) = Bits(heap, p) /\ OnesAt(H, p) = OnesAt(heap, p)
  BY <1>4, <1>5, <1>7
<1>10. /\ Entry(H, n).b = Entry(heap, n).b - dBits
       /\ Entry(H, n).o = Entry(heap, n).o - dOnes
       /\ Entry(H, s).b = Entry(heap, s).b + dBits
       /\ Entry(H, s).o = Entry(heap, s).o + dOnes
  BY <1>1, <1>2, <1>4, <1>5, <1>7
<1>11. \A m \in T \ R : m # n /\ m # s => Entry(H, m) = Entry(heap, m)
  BY <1>5, <1>7
<1>12. \A m \in T : Bits(H, m) = Bits(heap, m) /\ OnesAt(H, m) = OnesAt(heap, m)
  BY <1>6, <1>8, <1>9
<1>13. SameRoots(heap, H, R)
  <2>1. ASSUME NEW m \in R PROVE Up(H, m) = Up(heap, m)
    <3>1. m \in DOMAIN heap
      BY <1>1 DEF Forest
    <3> QED  BY <3>1, <1>5, <1>6, <1>7 DEF Stays
  <2> QED  BY <2>1 DEF SameRoots
<1>14. \A m \in T : SameKids(Row(H, m), Row(heap, m))
  BY <1>5, <1>6, <1>7, <1>8 DEF SameKids
<1> QED
  BY <1>3, <1>7, <1>8, <1>10, <1>11, <1>12, <1>13, <1>14

\* There are so many more bits and ones in `more` than in `less`.
Exceeds(more, less, dBits, dOnes) ==
  Len(more) = Len(less) + dBits /\ CountOnes(more) = CountOnes(less) + dOnes

\* The leaves n and s have other bits.
MovedBits(heap, H, T, n, s, rest, more) ==
  /\ \A m \in T : m # n /\ m # s => SameNode(heap, H, m)
  /\ IsLeaf(H, n) /\ Bv(H, n) = rest /\ IsLeaf(H, s) /\ Bv(H, s) = more

\* Bits move from leaf n to its sibling, and their parent is told: what
\* moveLeftLeaf and moveRightLeaf have in common.
LEMMA MoveBitsForest ==
  ASSUME NEW heap, NEW T, NEW R, NEW N, NEW h, Forest(heap, T, R, N, h),
         NEW p \in T \ N, ~IsLeaf(heap, p),
         NEW from \in Slots, NEW to \in Slots, from # to,
         from < Width(heap, p), to < Width(heap, p),
         NEW n, n = Kid(Row(heap, p), from), IsLeaf(heap, n),
         NEW s, s = Kid(Row(heap, p), to), IsLeaf(heap, s),
         NEW rest \in Strings, NEW more \in Strings,
         NEW dBits \in Int, NEW dOnes \in Int,
         Exceeds(Bv(heap, n), rest, dBits, dOnes), Exceeds(more, Bv(heap, s), dBits, dOnes)
  PROVE  LET H == Shift(WithBits(WithBits(heap, s, more), n, rest), p, from, to, dBits, dOnes)
         IN  /\ Forest(H, T, R, N, h) /\ DOMAIN H = DOMAIN heap
             /\ \A m \in T : /\ IsLeaf(H, m) = IsLeaf(heap, m)
                             /\ m # n /\ m # s => Bv(H, m) = Bv(heap, m)
                             /\ Width(H, m) = Width(heap, m)
             /\ Bv(H, n) = rest /\ Bv(H, s) = more
             /\ SameRoots(heap, H, R) /\ \A m \in T \ R : SameGap(heap, H, m)
             /\ MovedBits(heap, H, T, n, s, rest, more)
<1> DEFINE A == WithBits(heap, s, more)
           B == WithBits(A, n, rest)
           H == Shift(B, p, from, to, dBits, dOnes)
<1>1. /\ Heap(heap) /\ T \subseteq DOMAIN heap
      /\ n \in T \ R /\ Index(heap, n) = from /\ s \in T \ R /\ Index(heap, s) = to
      /\ n \in DOMAIN heap /\ s \in DOMAIN heap /\ p \in DOMAIN heap
  <2>1. T \subseteq DOMAIN heap /\ Heap(heap)
    BY DEF Forest
  <2> QED  BY <2>1, KidsOf
<1>2. n # s /\ p # n /\ p # s
  BY <1>1
<1>3. /\ Bits(heap, n) = Len(Bv(heap, n)) /\ OnesAt(heap, n) = CountOnes(Bv(heap, n))
      /\ Bits(heap, s) = Len(Bv(heap, s)) /\ OnesAt(heap, s) = CountOnes(Bv(heap, s))
  BY <1>1, NamedAmounts
<1> HIDE DEF A, B, H
<1>4. /\ Forest(A, T, R, N, h) /\ DOMAIN A = DOMAIN heap /\ Stays(heap, A)
      /\ Bv(A, s) = more /\ \A m \in DOMAIN heap : m # s => Bv(A, m) = Bv(heap, m)
      /\ \A m \in DOMAIN heap : /\ IsLeaf(A, m) = IsLeaf(heap, m)
                                /\ Width(A, m) = Width(heap, m)
                                /\ Row(A, m) = Row(heap, m)
      /\ \A m \in T : m # s => /\ Bits(A, m) = Bits(heap, m)
                               /\ OnesAt(A, m) = OnesAt(heap, m)
      /\ \A m \in T \ R : Entry(A, m) = Entry(heap, m)
  BY <1>1, WithBitsForest DEF A
<1>5. /\ Forest(B, T, R, N, h) /\ DOMAIN B = DOMAIN A /\ Stays(A, B)
      /\ Bv(B, n) = rest /\ \A m \in DOMAIN A : m # n => Bv(B, m) = Bv(A, m)
      /\ \A m \in DOMAIN A : /\ IsLeaf(B, m) = IsLeaf(A, m)
                             /\ Width(B, m) = Width(A, m)
                             /\ Row(B, m) = Row(A, m)
      /\ \A m \in T : m # n => /\ Bits(B, m) = Bits(A, m)
                               /\ OnesAt(B, m) = OnesAt(A, m)
      /\ \A m \in T \ R : Entry(B, m) = Entry(A, m)
  <2>1. IsLeaf(A, n)
    BY <1>1, <1>4
  <2> QED  BY <1>1, <1>4, <2>1, WithBitsForest DEF B
<1>6. /\ Forest(H, T, R, N, h) /\ DOMAIN H = DOMAIN B /\ SameRoots(B, H, R)
      /\ \A m \in T : /\ IsLeaf(H, m) = IsLeaf(B, m) /\ Bv(H, m) = Bv(B, m)
                      /\ Width(H, m) = Width(B, m)
                      /\ Bits(H, m) = Bits(B, m) /\ OnesAt(H, m) = OnesAt(B, m)
      /\ Entry(H, n).b = Entry(B, n).b - dBits
      /\ Entry(H, n).o = Entry(B, n).o - dOnes
      /\ Entry(H, s).b = Entry(B, s).b + dBits
      /\ Entry(H, s).o = Entry(B, s).o + dOnes
      /\ \A m \in T \ R : m # n /\ m # s => Entry(H, m) = Entry(B, m)
      /\ \A m \in T : SameKids(Row(H, m), Row(B, m))
  <2>1. /\ ~IsLeaf(B, p) /\ from < Width(B, p) /\ to < Width(B, p)
        /\ n = Kid(Row(B, p), from) /\ s = Kid(Row(B, p), to)
    BY <1>1, <1>4, <1>5
  <2> QED  BY <1>5, <2>1, ShiftForest DEF H
<1>7. ASSUME NEW m \in T \ R PROVE SameGap(heap, H, m)
  <2>1. /\ Bits(heap, m) \in Int /\ OnesAt(heap, m) \in Int
        /\ Entry(heap, m).b \in Int /\ Entry(heap, m).o \in Int
    BY ForestFields, EntryFields
  <2>2. Entry(B, m) = Entry(heap, m)
    BY <1>4, <1>5
  <2>6. /\ Bits(B, n) = Bits(heap, n) - dBits /\ OnesAt(B, n) = OnesAt(heap, n) - dOnes
        /\ Bits(B, s) = Bits(heap, s) + dBits /\ OnesAt(B, s) = OnesAt(heap, s) + dOnes
    <3>1. IsLeaf(B, n) /\ Bv(B, n) = rest /\ IsLeaf(B, s) /\ Bv(B, s) = more
      BY <1>1, <1>2, <1>4, <1>5
    <3>2. Heap(B) /\ n \in DOMAIN B /\ s \in DOMAIN B
      BY <1>1, <1>4, <1>5 DEF Forest
    <3>3. /\ Bits(B, n) = Len(rest) /\ OnesAt(B, n) = CountOnes(rest)
          /\ Bits(B, s) = Len(more) /\ OnesAt(B, s) = CountOnes(more)
      BY <3>1, <3>2, NamedAmounts
    <3>4. Len(rest) \in Int /\ CountOnes(rest) \in Int
      BY OnesType DEF Strings
    <3> QED  BY <1>3, <3>3, <3>4 DEF Exceeds
  <2>3. CASE m = n
    BY <1>1, <1>6, <2>1, <2>2, <2>3, <2>6 DEF SameGap
  <2>4. CASE m = s
    BY <1>1, <1>6, <2>1, <2>2, <2>4, <2>6 DEF SameGap
  <2>5. CASE m # n /\ m # s
    BY <1>4, <1>5, <1>6, <2>2, <2>5 DEF SameGap
  <2> QED  BY <2>3, <2>4, <2>5
<1>8. /\ DOMAIN H = DOMAIN heap /\ Bv(H, n) = rest /\ Bv(H, s) = more
      /\ \A m \in T : /\ IsLeaf(H, m) = IsLeaf(heap, m)
                      /\ m # n /\ m # s => Bv(H, m) = Bv(heap, m)
                      /\ Width(H, m) = Width(heap, m)
  BY <1>1, <1>2, <1>4, <1>5, <1>6
<1>9. SameRoots(heap, H, R)
  <2>1. ASSUME NEW m \in R PROVE Up(H, m) = Up(heap, m)
    <3>1. m \in DOMAIN heap
      BY <1>1 DEF Forest
    <3> QED  BY <3>1, <1>4, <1>5, <1>6 DEF Stays, SameRoots
  <2> QED  BY <2>1 DEF SameRoots
<1>10. MovedBits(heap, H, T, n, s, rest, more)
  <2>1. \A m \in T : SameKids(Row(H, m), Row(heap, m))
    BY <1>1, <1>4, <1>5, <1>6
  <2>2. \A m \in T : m # n /\ m # s => SameNode(heap, H, m)
    BY <1>8, <2>1 DEF SameNode
  <2> QED  BY <1>1, <1>8, <2>2 DEF MovedBits
<1> QED
  BY <1>6, <1>7, <1>8, <1>9, <1>10 DEF A, B, H

-----------------------------------------------------------------------------
(* Sizes.                                                                  *)

SizeOf(heap, m) == size(heap[m])
Blocks(l) == l \div BlockSize

\* Every leaf holds whole blocks; an internal node has no bits of its own.
AllWhole(heap, T) == \A m \in T : Whole(Len(Bv(heap, m)))

\* Whole blocks are counted by division.
LEMMA Quotients ==
  /\ Blocks(BlockSize) = 1 /\ Blocks(-BlockSize) = -1
  /\ \A m, n \in Int : Whole(m) /\ Whole(n) => /\ Blocks(m + n) = Blocks(m) + Blocks(n)
                                               /\ Blocks(m - n) = Blocks(m) - Blocks(n)
  /\ \A m \in Int : Whole(m) => Blocks(m) \in Int
  /\ \A m \in Nat : Whole(m) => Blocks(m) \in Nat /\ (m = 0 \/ (Blocks(m) >= 1 /\ BlockSize <= m))
<1>1. ASSUME NEW m \in Int, NEW n \in Int, Whole(m), Whole(n)
      PROVE  Blocks(m + n) = Blocks(m) + Blocks(n) /\ Blocks(m - n) = Blocks(m) - Blocks(n)
  <2>1. PICK p \in Int : m = p * BlockSize /\ p = Blocks(m)
    BY <1>1, WholeIsProduct DEF Blocks
  <2>2. PICK q \in Int : n = q * BlockSize /\ q = Blocks(n)
    BY <1>1, WholeIsProduct DEF Blocks
  <2>3. m + n = (p + q) * BlockSize /\ m - n = (p - q) * BlockSize
    BY <2>1, <2>2, SizesAssumption
  <2>4. p + q \in Int /\ p - q \in Int
    OBVIOUS
  <2>5. Blocks(m + n) = p + q /\ Blocks(m - n) = p - q
    BY <2>3, <2>4, WholeIsProduct DEF Blocks
  <2> QED  BY <2>1, <2>2, <2>5
<1>2. Blocks(BlockSize) = 1 /\ Blocks(-BlockSize) = -1
  <2>1. BlockSize = 1 * BlockSize /\ -BlockSize = (-1) * BlockSize
    BY SizesAssumption
  <2> QED  BY <2>1, WholeIsProduct, 1 \in Int, -1 \in Int DEF Blocks
<1>3. \A m \in Int : Whole(m) => Blocks(m) \in Int
  BY WholeIsProduct DEF Blocks
<1>4. ASSUME NEW m \in Nat, Whole(m)
      PROVE  Blocks(m) \in Nat /\ (m = 0 \/ (Blocks(m) >= 1 /\ BlockSize <= m))
  <2>1. PICK p \in Int : m = p * BlockSize /\ p = Blocks(m)
    BY <1>4, WholeIsProduct DEF Blocks
  <2>2. p >= 0
    BY <2>1, SizesAssumption
  <2>3. m = 0 \/ p >= 1
    BY <2>1, <2>2, SizesAssumption
  <2>4. p >= 1 => BlockSize <= m
    BY <2>1, <2>2, SizesAssumption
  <2> QED  BY <2>1, <2>2, <2>3, <2>4
<1> QED
  BY <1>1, <1>2, <1>3, <1>4

\* The size of a node, by its kind.
LEMMA SizeFields ==
  ASSUME NEW heap, NEW m
  PROVE  SizeOf(heap, m) = IF IsLeaf(heap, m) THEN Blocks(Len(Bv(heap, m))) ELSE Width(heap, m)
  BY DEF SizeOf, size, Blocks, IsLeaf, Bv, Width

\* What a child or a block moved from n to s changes.
Moved(heap, H, T, R, n, s) ==
  /\ DOMAIN H = DOMAIN heap /\ AllWhole(H, T)
  /\ \A m \in T : /\ IsLeaf(H, m) = IsLeaf(heap, m)
                  /\ m # n /\ m # s => SizeOf(H, m) = SizeOf(heap, m)
  /\ SizeOf(H, n) = SizeOf(heap, n) - 1 /\ SizeOf(H, s) = SizeOf(heap, s) + 1
  /\ SameRoots(heap, H, R) /\ \A m \in T \ R : SameGap(heap, H, m)

\* A neighbour of n below the same parent.
Neighbours(heap, T, R, N, n, s) ==
  /\ n \in T \ (R \cup N) /\ s \in T \ (R \cup N) /\ n # s /\ Up(heap, s) = Up(heap, n)

\* What a forest says of two neighbours.
LEMMA NeighbourFields ==
  ASSUME NEW heap, NEW T, NEW R, NEW N, NEW h, Forest(heap, T, R, N, h),
         NEW n, NEW s, Neighbours(heap, T, R, N, n, s)
  PROVE  /\ n \in T \ R /\ s \in T \ R /\ n \notin N /\ s \notin N
         /\ n \in DOMAIN heap /\ s \in DOMAIN heap
         /\ Up(heap, n) \in T \ N /\ ~IsLeaf(heap, Up(heap, n))
         /\ Index(heap, n) \in Slots /\ Index(heap, n) < Width(heap, Up(heap, n))
         /\ Index(heap, s) \in Slots /\ Index(heap, s) < Width(heap, Up(heap, n))
         /\ Index(heap, n) # Index(heap, s)
         /\ Kid(Row(heap, Up(heap, n)), Index(heap, n)) = n
         /\ Kid(Row(heap, Up(heap, n)), Index(heap, s)) = s
         /\ IsLeaf(heap, n) <=> IsLeaf(heap, s)
<1>1. n \in T \ R /\ s \in T \ R /\ n \notin N /\ s \notin N /\ Up(heap, s) = Up(heap, n) /\ n # s
  BY DEF Neighbours
<1>2. h[n] \in Nat /\ h[s] \in Nat /\ n \in DOMAIN heap /\ s \in DOMAIN heap
  BY <1>1, ForestFields
<1>3. h[n] + 1 = h[s] + 1
  BY <1>1, EntryFields
<1>4. IsLeaf(heap, n) <=> IsLeaf(heap, s)
  BY <1>1, <1>2, <1>3 DEF Forest
<1> QED
  BY <1>1, <1>2, <1>4, EntryFields

\* A block moves between leaves.
LEMMA MoveBlockForest ==
  ASSUME NEW heap, NEW T, NEW R, NEW N, NEW h, Forest(heap, T, R, N, h),
         NEW n, NEW s, Neighbours(heap, T, R, N, n, s), AllWhole(heap, T), IsLeaf(heap, n),
         NEW rest \in Strings, NEW more \in Strings, NEW dOnes \in Int,
         Exceeds(Bv(heap, n), rest, BlockSize, dOnes),
         Exceeds(more, Bv(heap, s), BlockSize, dOnes)
  PROVE  LET H == Shift(WithBits(WithBits(heap, s, more), n, rest), Up(heap, n),
                        Index(heap, n), Index(heap, s), BlockSize, dOnes)
         IN  /\ Forest(H, T, R, N, h) /\ Moved(heap, H, T, R, n, s)
             /\ MovedBits(heap, H, T, n, s, rest, more)
<1>1. /\ n \in T \ R /\ s \in T \ R /\ n # s /\ IsLeaf(heap, s)
      /\ n \in DOMAIN heap /\ s \in DOMAIN heap /\ Heap(heap)
  <2>1. /\ n \in T \ R /\ s \in T \ R /\ IsLeaf(heap, s)
        /\ n \in DOMAIN heap /\ s \in DOMAIN heap
    BY NeighbourFields
  <2>2. Heap(heap)
    BY DEF Forest
  <2>3. n # s
    BY DEF Neighbours
  <2> QED  BY <2>1, <2>2, <2>3
<1>2. PICK p \in T \ N, from \in Slots, to \in Slots :
        /\ p = Up(heap, n) /\ from = Index(heap, n) /\ to = Index(heap, s)
        /\ from # to /\ ~IsLeaf(heap, p) /\ from < Width(heap, p) /\ to < Width(heap, p)
        /\ n = Kid(Row(heap, p), from) /\ s = Kid(Row(heap, p), to)
  BY NeighbourFields
<1> DEFINE H == Shift(WithBits(WithBits(heap, s, more), n, rest), p, from, to, BlockSize, dOnes)
<1>3. /\ Forest(H, T, R, N, h) /\ DOMAIN H = DOMAIN heap
      /\ \A m \in T : /\ IsLeaf(H, m) = IsLeaf(heap, m)
                      /\ m # n /\ m # s => Bv(H, m) = Bv(heap, m)
                      /\ Width(H, m) = Width(heap, m)
      /\ Bv(H, n) = rest /\ Bv(H, s) = more
      /\ SameRoots(heap, H, R) /\ \A m \in T \ R : SameGap(heap, H, m)
      /\ MovedBits(heap, H, T, n, s, rest, more)
  <2>1. BlockSize \in Int
    BY SizesAssumption
  <2> QED  BY <1>1, <1>2, <2>1, MoveBitsForest
<1> HIDE DEF H
<1>4. PICK x \in Nat, y \in Nat, x2 \in Nat, y2 \in Nat :
        /\ x = Len(Bv(heap, n)) /\ y = Len(Bv(heap, s)) /\ x2 = Len(rest) /\ y2 = Len(more)
  <2>1. Bv(heap, n) \in Seq(BOOLEAN) /\ Bv(heap, s) \in Seq(BOOLEAN)
    BY <1>1, NamedAmounts
  <2> QED  BY <2>1 DEF Strings
<1>5. x = x2 + BlockSize /\ y2 = y + BlockSize /\ Whole(x) /\ Whole(y)
  BY <1>1, <1>4 DEF Exceeds, AllWhole
<1>6. x2 = x - BlockSize /\ x \in Int /\ y \in Int /\ BlockSize \in Int
  BY <1>5, SizesAssumption
<1>7. Whole(x2) /\ Whole(y2)
  BY <1>5, <1>6, WholeSums
<1>8. Blocks(x2) = Blocks(x) - 1 /\ Blocks(y2) = Blocks(y) + 1
  BY <1>5, <1>6, WholeSums, Quotients
<1>9. AllWhole(H, T)
  <2>1. ASSUME NEW m \in T PROVE Whole(Len(Bv(H, m)))
    BY <1>1, <1>3, <1>4, <1>7 DEF AllWhole
  <2> QED  BY <2>1 DEF AllWhole
<1>10. /\ SizeOf(H, n) = SizeOf(heap, n) - 1 /\ SizeOf(H, s) = SizeOf(heap, s) + 1
       /\ \A m \in T : m # n /\ m # s => SizeOf(H, m) = SizeOf(heap, m)
  <2>1. SizeOf(H, n) = SizeOf(heap, n) - 1 /\ SizeOf(H, s) = SizeOf(heap, s) + 1
    BY <1>1, <1>3, <1>4, <1>8, SizeFields
  <2>2. ASSUME NEW m \in T, m # n, m # s PROVE SizeOf(H, m) = SizeOf(heap, m)
    BY <1>3, <2>2, SizeFields
  <2> QED  BY <2>1, <2>2
<1> QED
  BY <1>2, <1>3, <1>9, <1>10 DEF Moved, H

\* A child moves between internal nodes.
LEMMA MoveNodeForest ==
  ASSUME NEW heap, NEW T, NEW R, NEW N, NEW h, Forest(heap, T, R, N, h),
         NEW n, NEW s, Neighbours(heap, T, R, N, n, s), AllWhole(heap, T), ~IsLeaf(heap, n),
         NEW j \in Slots, j < Width(heap, n), Width(heap, s) <= NodeSizeMax,
         NEW k \in Slots, k <= Width(heap, s)
  PROVE  LET H == MoveChild(heap, Up(heap, n), Index(heap, n), Index(heap, s), j, k)
         IN  /\ Forest(H, T, R, N, h) /\ Moved(heap, H, T, R, n, s)
             /\ MovedKid(heap, H, T, n, s, j, k)
<1>1. n \in T \ R /\ s \in T \ R /\ n # s /\ ~IsLeaf(heap, s) /\ n \notin N /\ s \notin N
  BY NeighbourFields DEF Neighbours
<1>2. PICK p \in T \ N, from \in Slots, to \in Slots :
        /\ p = Up(heap, n) /\ from = Index(heap, n) /\ to = Index(heap, s)
        /\ from # to /\ ~IsLeaf(heap, p) /\ from < Width(heap, p) /\ to < Width(heap, p)
        /\ n = Kid(Row(heap, p), from) /\ s = Kid(Row(heap, p), to)
  BY NeighbourFields
<1> DEFINE H == MoveChild(heap, p, from, to, j, k)
<1> HIDE DEF H
<1>3. /\ Forest(H, T, R, N, h) /\ DOMAIN H = DOMAIN heap
      /\ \A m \in T : /\ IsLeaf(H, m) = IsLeaf(heap, m) /\ Bv(H, m) = Bv(heap, m)
                      /\ m \notin {n, s} => Width(H, m) = Width(heap, m)
      /\ Width(H, n) = Width(heap, n) - 1 /\ Width(H, s) = Width(heap, s) + 1
      /\ SameRoots(heap, H, R) /\ \A m \in T \ R : SameGap(heap, H, m)
      /\ MovedKid(heap, H, T, n, s, j, k)
  BY <1>1, <1>2, MoveChildForest DEF H
<1>4. AllWhole(H, T)
  BY <1>3 DEF AllWhole
<1>5. SizeOf(H, n) = SizeOf(heap, n) - 1 /\ SizeOf(H, s) = SizeOf(heap, s) + 1
  BY <1>1, <1>3, SizeFields
<1>6. ASSUME NEW m \in T, m # n, m # s PROVE SizeOf(H, m) = SizeOf(heap, m)
  BY <1>3, <1>6, SizeFields
<1> QED
  BY <1>2, <1>3, <1>4, <1>5, <1>6 DEF Moved, H

HoldsBlock(bv) == BlockSize <= Len(bv)

\* The first block of a leaf goes to the end of another.
LEMMA FirstBlock ==
  ASSUME NEW bv \in Seq(BOOLEAN), NEW other \in Seq(BOOLEAN), HoldsBlock(bv)
  PROVE  LET block == Prefix(bv, BlockSize)
             rest == Suffix(bv, BlockSize)
             more == other \o block
         IN  /\ rest \in Strings /\ more \in Strings /\ CountOnes(block) \in Int
             /\ Exceeds(bv, rest, BlockSize, CountOnes(block))
             /\ Exceeds(more, other, BlockSize, CountOnes(block))
<1>1. PICK block \in Seq(BOOLEAN), rest \in Seq(BOOLEAN) :
        /\ block = Prefix(bv, BlockSize) /\ rest = Suffix(bv, BlockSize)
        /\ Len(block) = BlockSize /\ Len(rest) = Len(bv) - BlockSize
        /\ CountOnes(block) + CountOnes(rest) = CountOnes(bv)
  <2>1. BlockSize \in 0..Len(bv)
    BY SizesAssumption DEF HoldsBlock
  <2> QED  BY <2>1, PrefixSuffix
<1>2. /\ CountOnes(block) \in Int /\ CountOnes(rest) \in Int /\ CountOnes(other) \in Int
      /\ Len(bv) \in Int /\ BlockSize \in Int
  BY OnesType, SizesAssumption
<1>3. Exceeds(bv, rest, BlockSize, CountOnes(block))
  BY <1>1, <1>2 DEF Exceeds
<1>4. /\ other \o block \in Seq(BOOLEAN) /\ Len(other \o block) = Len(other) + BlockSize
      /\ CountOnes(other \o block) = CountOnes(other) + CountOnes(block)
  BY <1>1, OnesOfConcat
<1> QED
  BY <1>1, <1>2, <1>3, <1>4 DEF Exceeds, Strings

\* The last block of a leaf goes to the beginning of another.
LEMMA LastBlock ==
  ASSUME NEW bv \in Seq(BOOLEAN), NEW other \in Seq(BOOLEAN), HoldsBlock(bv)
  PROVE  LET lo == Len(bv) - BlockSize
             block == Suffix(bv, lo)
             rest == Prefix(bv, lo)
             more == block \o other
         IN  /\ rest \in Strings /\ more \in Strings /\ CountOnes(block) \in Int
             /\ Exceeds(bv, rest, BlockSize, CountOnes(block))
             /\ Exceeds(more, other, BlockSize, CountOnes(block))
<1> DEFINE lo == Len(bv) - BlockSize
           block == Suffix(bv, lo)
           rest == Prefix(bv, lo)
<1>1. lo \in 0..Len(bv)
  BY SizesAssumption DEF HoldsBlock
<1>2. /\ block \in Seq(BOOLEAN) /\ rest \in Seq(BOOLEAN)
      /\ Len(block) = Len(bv) - lo /\ Len(rest) = lo
      /\ CountOnes(rest) + CountOnes(block) = CountOnes(bv)
  BY <1>1, PrefixSuffix
<1>3. /\ CountOnes(block) \in Int /\ CountOnes(rest) \in Int /\ CountOnes(other) \in Int
      /\ BlockSize \in Int /\ Len(other) \in Int /\ Len(bv) \in Int
  BY <1>2, OnesType, SizesAssumption
<1>4. Len(block) = BlockSize /\ Len(rest) = Len(bv) - BlockSize
  BY <1>2, <1>3
<1> HIDE DEF lo, block, rest
<1>5. Exceeds(bv, rest, BlockSize, CountOnes(block))
  BY <1>2, <1>3, <1>4 DEF Exceeds
<1>6. block \o other \in Seq(BOOLEAN) /\ Len(block \o other) = BlockSize + Len(other)
  BY <1>2, <1>4, ConcatProperties
<1>7. CountOnes(block \o other) = CountOnes(block) + CountOnes(other)
  BY <1>2, OnesOfConcat
<1> QED
  BY <1>2, <1>3, <1>5, <1>6, <1>7 DEF Exceeds, Strings, lo, block, rest

\* n has something to give and its sibling, if internal, a slot to put it in.
CanMove(heap, n, s) ==
  SizeOf(heap, n) >= 1 /\ (IsLeaf(heap, n) \/ SizeOf(heap, s) <= NodeSizeMax)

\* A leaf with a block is as long as one.
LEMMA HasBlock ==
  ASSUME NEW heap, Heap(heap), NEW n \in DOMAIN heap, IsLeaf(heap, n),
         Whole(Len(Bv(heap, n))), SizeOf(heap, n) >= 1
  PROVE  HoldsBlock(Bv(heap, n))
<1>1. PICK m \in Nat : m = Len(Bv(heap, n))
  <2>1. Bv(heap, n) \in Seq(BOOLEAN)
    BY NamedAmounts
  <2> QED  BY <2>1
<1>2. Blocks(m) >= 1 /\ Whole(m)
  BY <1>1, SizeFields
<1>3. m # 0
  BY <1>2, SizesAssumption DEF Blocks
<1> QED
  BY <1>1, <1>2, <1>3, Quotients DEF HoldsBlock

\* s has got the first block or child of n at its end.
GivenLeft(heap, H, T, n, s) ==
  IF IsLeaf(heap, n)
  THEN LET bv == Bv(heap, n)
       IN  /\ HoldsBlock(bv)
           /\ MovedBits(heap, H, T, n, s, Suffix(bv, BlockSize),
                        Bv(heap, s) \o Prefix(bv, BlockSize))
  ELSE MovedKid(heap, H, T, n, s, 0, Width(heap, s))

\* s has got the last block or child of n at its beginning.
GivenRight(heap, H, T, n, s) ==
  IF IsLeaf(heap, n)
  THEN LET bv == Bv(heap, n)
           lo == Len(bv) - BlockSize
       IN  /\ HoldsBlock(bv)
           /\ MovedBits(heap, H, T, n, s, Prefix(bv, lo), Suffix(bv, lo) \o Bv(heap, s))
  ELSE MovedKid(heap, H, T, n, s, Width(heap, n) - 1, 0)

\* moveLeft moves a child or a block to the sibling before n.
LEMMA MoveLeftForest ==
  ASSUME NEW heap, NEW T, NEW R, NEW N, NEW h, Forest(heap, T, R, N, h),
         NEW n, NEW s, Neighbours(heap, T, R, N, n, s), AllWhole(heap, T),
         CanMove(heap, n, s), Index(heap, s) = Index(heap, n) - 1
  PROVE  LET H == MoveLeft(heap, n)
         IN  /\ Forest(H, T, R, N, h) /\ Moved(heap, H, T, R, n, s)
             /\ GivenLeft(heap, H, T, n, s)
<1>1. /\ n \in T /\ s \in T /\ n \in DOMAIN heap /\ s \in DOMAIN heap /\ Heap(heap)
      /\ IsLeaf(heap, n) <=> IsLeaf(heap, s)
  <2>1. Heap(heap)
    BY DEF Forest
  <2> QED  BY <2>1, NeighbourFields
<1>2. PICK p, from, to :
        /\ p = Up(heap, n) /\ from = Index(heap, n) /\ to = Index(heap, s)
        /\ n = Kid(Row(heap, p), from) /\ s = Kid(Row(heap, p), to) /\ to = from - 1
  BY NeighbourFields
<1>3. s = heap[p].entries[from - 1].P /\ p = heap[n].parent /\ from = heap[n].indexInParent
  BY <1>2 DEF Kid, Row, Up, Index
<1>4. CASE IsLeaf(heap, n)
  <2>1. Bv(heap, n) \in Seq(BOOLEAN) /\ Bv(heap, s) \in Seq(BOOLEAN)
    BY <1>1, NamedAmounts
  <2>2. HoldsBlock(Bv(heap, n))
    BY <1>1, <1>4, HasBlock DEF AllWhole, CanMove
  <2>3. PICK block, rest \in Strings, more \in Strings, dOnes \in Int :
          /\ block = Prefix(Bv(heap, n), BlockSize) /\ dOnes = CountOnes(block)
          /\ rest = Suffix(Bv(heap, n), BlockSize) /\ more = Bv(heap, s) \o block
          /\ Exceeds(Bv(heap, n), rest, BlockSize, dOnes)
          /\ Exceeds(more, Bv(heap, s), BlockSize, dOnes)
    <3>1. PICK x \in Seq(BOOLEAN), y \in Seq(BOOLEAN) : x = Bv(heap, n) /\ y = Bv(heap, s)
      BY <2>1
    <3> DEFINE block == Prefix(x, BlockSize)
               rest == Suffix(x, BlockSize)
               more == y \o block
    <3>2. /\ rest \in Strings /\ more \in Strings /\ CountOnes(block) \in Int
          /\ Exceeds(x, rest, BlockSize, CountOnes(block))
          /\ Exceeds(more, y, BlockSize, CountOnes(block))
      BY <2>2, <3>1, FirstBlock
    <3>3. block \in Strings
      <4>1. BlockSize \in 0..Len(x)
        BY <2>2, <3>1, SizesAssumption DEF HoldsBlock
      <4> QED  BY <4>1, PrefixSuffix DEF Strings
    <3> QED  BY <3>1, <3>2, <3>3
  <2>4. MoveLeft(heap, n) = Shift(WithBits(WithBits(heap, s, more), n, rest),
                                  p, from, to, BlockSize, dOnes)
    BY <1>2, <1>3, <1>4, <2>3 DEF MoveLeft, moveLeftLeaf, Bv, IsLeaf
  <2> DEFINE H == Shift(WithBits(WithBits(heap, s, more), n, rest),
                        p, from, to, BlockSize, dOnes)
  <2>5. /\ Forest(H, T, R, N, h) /\ Moved(heap, H, T, R, n, s)
        /\ MovedBits(heap, H, T, n, s, rest, more)
    BY <1>2, <1>4, <2>3, MoveBlockForest
  <2> HIDE DEF H
  <2>6. GivenLeft(heap, H, T, n, s)
    BY <1>4, <2>2, <2>3, <2>5 DEF GivenLeft
  <2> QED  BY <2>4, <2>5, <2>6 DEF H
<1>5. CASE ~IsLeaf(heap, n)
  <2>1. /\ Width(heap, n) \in 0..(NodeSizeMax + 1) /\ Width(heap, s) \in 0..(NodeSizeMax + 1)
        /\ SizeOf(heap, n) = Width(heap, n) /\ SizeOf(heap, s) = Width(heap, s)
    BY <1>1, <1>5, ForestFields, SizeFields
  <2>2. PICK k \in Slots : /\ k = Width(heap, s) /\ k <= NodeSizeMax
                            /\ k <= Width(heap, s) /\ 0 < Width(heap, n)
    BY <1>5, <2>1, SizesAssumption DEF CanMove, Slots
  <2> DEFINE A == RemoveEntry(heap, n, 0)
             c == Kid(Row(heap, n), 0)
             B == Adopted(A, c, s)
  <2>3. Width(B, s) = k
    <3>1. Width(A, s) = Width(heap, s) /\ s \in DOMAIN A /\ c \in DOMAIN A /\ Heap(A)
      <4> HIDE DEF A
      <4>1. n \in T \ N /\ 0 \in Slots /\ n # s
        BY NeighbourFields, SizesAssumption DEF Neighbours, Slots
      <4>2. PICK S : S = R \cup {c}
        OBVIOUS
      <4>3. Forest(A, T, S, N, h) /\ Keeps(heap, A, n)
        BY <1>5, <2>2, <4>1, <4>2, RemoveForest DEF A
      <4>4. c \in T /\ T \subseteq DOMAIN A /\ Heap(A)
        BY <4>2, <4>3 DEF Forest
      <4> QED  BY <1>1, <4>1, <4>3, <4>4, KeptNodes
    <3>2. s \in Nat
      BY <1>1, NamedAmounts
    <3> HIDE DEF A, c
    <3>3. Keeps(A, B, nullptr) /\ s # nullptr
      BY <1>1, <3>1, <3>2, AdoptFields, NamedAmounts
    <3> HIDE DEF B
    <3> QED  BY <2>2, <3>1, <3>3, KeptNodes
  <2>4. MoveLeft(heap, n) = MoveChild(heap, p, from, to, 0, k)
    <3>1. MoveLeft(heap, n) = moveLeftInternal(heap, n)
      BY <1>5 DEF MoveLeft, IsLeaf
    <3>2. c = heap[n].entries[0].P
      BY DEF Kid, Row
    <3>3. B = [PopFirst(heap, n) EXCEPT ![heap[n].entries[0].P].parent = s]
      BY <3>2 DEF PopFirst, Adopted
    <3>4. B[s].size = k
      BY <2>3 DEF Width
    <3>5. moveLeftInternal(heap, n)
          = Shift(InsertEntry(B, s, k, heap[n].entries[0]), p, from, to,
                  heap[n].entries[0].b, heap[n].entries[0].o)
      BY <1>2, <1>3, <3>3, <3>4 DEF moveLeftInternal, AppendEntry
    <3>6. n = heap[p].entries[from].P /\ s = heap[p].entries[to].P
      BY <1>2 DEF Kid, Row
    <3> QED  BY <3>1, <3>2, <3>5, <3>6 DEF MoveChild
  <2>5. 0 \in Slots
    BY SizesAssumption DEF Slots
  <2> HIDE DEF A, B, c
  <2> DEFINE H == MoveChild(heap, p, from, to, 0, k)
  <2>6. /\ Forest(H, T, R, N, h) /\ Moved(heap, H, T, R, n, s)
        /\ MovedKid(heap, H, T, n, s, 0, k)
    BY <1>2, <1>5, <2>2, <2>5, MoveNodeForest
  <2> HIDE DEF H
  <2>7. GivenLeft(heap, H, T, n, s)
    BY <1>5, <2>2, <2>6 DEF GivenLeft
  <2> QED  BY <2>4, <2>6, <2>7 DEF H
<1> QED
  BY <1>4, <1>5

\* moveRight moves a child or a block to the sibling after n.
LEMMA MoveRightForest ==
  ASSUME NEW heap, NEW T, NEW R, NEW N, NEW h, Forest(heap, T, R, N, h),
         NEW n, NEW s, Neighbours(heap, T, R, N, n, s), AllWhole(heap, T),
         CanMove(heap, n, s), Index(heap, s) = Index(heap, n) + 1
  PROVE  LET H == MoveRight(heap, n)
         IN  /\ Forest(H, T, R, N, h) /\ Moved(heap, H, T, R, n, s)
             /\ GivenRight(heap, H, T, n, s)
<1>1. /\ n \in T /\ s \in T /\ n \in DOMAIN heap /\ s \in DOMAIN heap /\ Heap(heap)
      /\ IsLeaf(heap, n) <=> IsLeaf(heap, s)
  <2>1. Heap(heap)
    BY DEF Forest
  <2> QED  BY <2>1, NeighbourFields
<1>2. PICK p, from, to :
        /\ p = Up(heap, n) /\ from = Index(heap, n) /\ to = Index(heap, s)
        /\ n = Kid(Row(heap, p), from) /\ s = Kid(Row(heap, p), to) /\ to = from + 1
  BY NeighbourFields
<1>3. s = heap[p].entries[from + 1].P /\ p = heap[n].parent /\ from = heap[n].indexInParent
  BY <1>2 DEF Kid, Row, Up, Index
<1>4. CASE IsLeaf(heap, n)
  <2>1. Bv(heap, n) \in Seq(BOOLEAN) /\ Bv(heap, s) \in Seq(BOOLEAN)
    BY <1>1, NamedAmounts
  <2>2. HoldsBlock(Bv(heap, n))
    BY <1>1, <1>4, HasBlock DEF AllWhole, CanMove
  <2>3. PICK x \in Seq(BOOLEAN), y \in Seq(BOOLEAN) : x = Bv(heap, n) /\ y = Bv(heap, s)
    BY <2>1
  <2> DEFINE lo == Len(x) - BlockSize
             block == Suffix(x, lo)
             rest == Prefix(x, lo)
             more == block \o y
             dOnes == CountOnes(block)
             H == Shift(WithBits(WithBits(heap, s, more), n, rest),
                        p, from, to, BlockSize, dOnes)
  <2>4. /\ rest \in Strings /\ more \in Strings /\ dOnes \in Int
        /\ Exceeds(x, rest, BlockSize, dOnes) /\ Exceeds(more, y, BlockSize, dOnes)
    BY <2>2, <2>3, LastBlock
  <2>5. MoveRight(heap, n) = H
    BY <1>2, <1>3, <1>4, <2>3 DEF MoveRight, moveRightLeaf, Bv, IsLeaf
  <2> HIDE DEF rest, more, dOnes
  <2>6. /\ Forest(H, T, R, N, h) /\ Moved(heap, H, T, R, n, s)
        /\ MovedBits(heap, H, T, n, s, rest, more)
    BY <1>2, <1>4, <2>3, <2>4, MoveBlockForest
  <2> HIDE DEF H
  <2>7. GivenRight(heap, H, T, n, s)
    BY <1>4, <2>2, <2>3, <2>6 DEF GivenRight, rest, more
  <2> QED  BY <2>5, <2>6, <2>7
<1>5. CASE ~IsLeaf(heap, n)
  <2>1. /\ Width(heap, n) \in 0..(NodeSizeMax + 1) /\ Width(heap, s) \in 0..(NodeSizeMax + 1)
        /\ SizeOf(heap, n) = Width(heap, n) /\ SizeOf(heap, s) = Width(heap, s)
    BY <1>1, <1>5, ForestFields, SizeFields
  <2>2. PICK j \in Slots : /\ j = Width(heap, n) - 1 /\ j < Width(heap, n)
                           /\ Width(heap, s) <= NodeSizeMax
                           /\ 0 \in Slots /\ 0 <= Width(heap, s)
    BY <1>5, <2>1, SizesAssumption, SMTT(30) DEF CanMove, Slots
  <2> DEFINE B == [RemoveEntry(heap, n, j) EXCEPT ![heap[n].entries[j].P].parent = s]
             H == MoveChild(heap, p, from, to, j, 0)
  <2>4. MoveRight(heap, n) = H
    <3>1. MoveRight(heap, n) = moveRightInternal(heap, n)
      BY <1>5 DEF MoveRight, IsLeaf
    <3>2. B = [PopLast(heap, n) EXCEPT ![heap[n].entries[j].P].parent = s]
      BY <2>2 DEF PopLast, Width
    <3>3. moveRightInternal(heap, n)
          = Shift(InsertEntry(B, s, 0, heap[n].entries[j]), p, from, to,
                  heap[n].entries[j].b, heap[n].entries[j].o)
      BY <1>2, <1>3, <2>2, <3>2 DEF moveRightInternal, Width
    <3>4. n = heap[p].entries[from].P /\ s = heap[p].entries[to].P
      BY <1>2 DEF Kid, Row
    <3> QED  BY <3>1, <3>3, <3>4 DEF MoveChild, Adopted
  <2>5. /\ Forest(H, T, R, N, h) /\ Moved(heap, H, T, R, n, s)
        /\ MovedKid(heap, H, T, n, s, j, 0)
    BY <1>2, <1>5, <2>2, MoveNodeForest
  <2> HIDE DEF H
  <2>6. GivenRight(heap, H, T, n, s)
    BY <1>5, <2>2, <2>5 DEF GivenRight
  <2> QED  BY <2>4, <2>5, <2>6
<1> QED
  BY <1>4, <1>5

=============================================================================
