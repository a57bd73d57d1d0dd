-------------------------- MODULE DKTreePartitions --------------------------
(***************************************************************************)
(* The blocks of the two vectors of DKTree and the partitions of the       *)
(* matrix: which partition each block belongs to, that Decode returns the  *)
(* cells whose bits are 1, what the steps that set and clear bits and      *)
(* insert and delete blocks do to both, and which cells a recursion over   *)
(* the blocks has passed.                                                  *)
(***************************************************************************)
EXTENDS DKTreeProofs, DKTreeGraph
-----------------------------------------------------------------------------
(* Numbers in base K.                                                      *)

\* Division with remainder has one result.
LEMMA DivisionUnique ==
  ASSUME NEW b \in Nat, b > 0, NEW q \in Nat, NEW r \in 0..(b - 1)
  PROVE  (b * q + r) \div b = q /\ (b * q + r) % b = r
<1> DEFINE n == b * q + r
           p == n \div b
           s == n % b
<1>1. b * q \in Nat
  OBVIOUS
<1>2. n \in Nat
  BY <1>1
<1>3. p \in Int /\ s \in 0..(b - 1) /\ n = b * p + s
  <2> HIDE DEF n
  <2> QED  BY <1>2
<1> HIDE DEF p, s
<1>4. b * (p - q) = r - s
  BY <1>3
<1>5. p - q \in Int /\ b * (p - q) < b /\ b * (p - q) > -b
  BY <1>3, <1>4
<1>6. ~(p - q >= 1)
  <2> SUFFICES ASSUME p - q >= 1 PROVE FALSE
    OBVIOUS
  <2>1. b * (p - q) >= b
    BY <1>5
  <2> QED  BY <1>5, <2>1
<1>7. ~(p - q <= -1)
  <2> SUFFICES ASSUME p - q <= -1 PROVE FALSE
    OBVIOUS
  <2>1. b * (p - q) <= -b
    BY <1>5
  <2> QED  BY <1>5, <2>1
<1>8. p = q
  BY <1>3, <1>5, <1>6, <1>7
<1>9. s = r
  BY <1>3, <1>8
<1> QED
  BY <1>8, <1>9 DEF p, s

\* The digits of a position in a block are its row and column there.
LEMMA OffsetDigits ==
  ASSUME NEW o \in 0..(BLOCK_SIZE - 1)
  PROVE  /\ o \div K \in 0..(K - 1) /\ o % K \in 0..(K - 1)
         /\ o = K * (o \div K) + (o % K)
<1>1. o \in Nat /\ K \in Nat /\ K > 0 /\ K * K \in Nat /\ o < K * K
  BY KAssumption DEF BLOCK_SIZE
<1>2. PICK q : q = o \div K
  OBVIOUS
<1>3. PICK r : r = o % K
  OBVIOUS
<1>4. q \in Nat /\ r \in 0..(K - 1) /\ o = K * q + r
  BY <1>1, <1>2, <1>3
<1>5. ~(q >= K)
  <2> SUFFICES ASSUME q >= K PROVE FALSE
    OBVIOUS
  <2>1. q - K \in Nat /\ K * q = K * K + K * (q - K) /\ K * (q - K) \in Nat
    BY <1>1, <1>4
  <2> QED  BY <1>1, <1>4, <2>1
<1> QED
  BY <1>1, <1>2, <1>3, <1>4, <1>5

\* Two digits make a position in a block.
LEMMA DigitsOffset ==
  ASSUME NEW i \in 0..(K - 1), NEW j \in 0..(K - 1)
  PROVE  /\ K * i + j \in 0..(BLOCK_SIZE - 1)
         /\ (K * i + j) \div K = i /\ (K * i + j) % K = j
<1>1. K \in Nat /\ K > 0
  BY KAssumption
<1>2. (K * i + j) \div K = i /\ (K * i + j) % K = j
  BY <1>1, DivisionUnique
<1>3. K * i \in Nat /\ K * (K - 1 - i) \in Nat /\ K * K = K * i + K * (K - 1 - i) + K
  BY <1>1
<1> QED
  BY <1>1, <1>2, <1>3 DEF BLOCK_SIZE

\* The quotient by p is the quotient by K * p and one more digit.
LEMMA NextDigit ==
  ASSUME NEW x \in Nat, NEW p \in Nat, p > 0
  PROVE  /\ (x % (K * p)) \div p \in 0..(K - 1)
         /\ x \div p = K * (x \div (K * p)) + (x % (K * p)) \div p
<1>1. K \in Nat /\ K > 0 /\ K * p \in Nat /\ K * p > 0
  BY KAssumption
<1>2. PICK m : m = K * p
  OBVIOUS
<1>3. PICK q : q = x \div m
  OBVIOUS
<1>4. PICK r : r = x % m
  OBVIOUS
<1>5. m \in Nat /\ m > 0
  BY <1>1, <1>2
<1>6. q \in Nat /\ r \in 0..(m - 1) /\ x = m * q + r
  BY <1>3, <1>4, <1>5
<1>7. PICK s : s = r \div p
  OBVIOUS
<1>8. PICK t : t = r % p
  OBVIOUS
<1>9. s \in Nat /\ t \in 0..(p - 1) /\ r = p * s + t
  BY <1>6, <1>7, <1>8
<1>10. ~(s >= K)
  <2> SUFFICES ASSUME s >= K PROVE FALSE
    OBVIOUS
  <2>1. s - K \in Nat /\ p * s = p * K + p * (s - K) /\ p * (s - K) \in Nat /\ p * K = m
    BY <1>1, <1>2, <1>9
  <2> QED  BY <1>5, <1>6, <1>9, <2>1
<1>11. PICK n : n = K * q + s
  OBVIOUS
<1>12. n \in Nat
  BY <1>1, <1>6, <1>9, <1>11
<1>13. x = p * n + t
  <2>1. PICK c \in Nat : c = K * q
    BY <1>1, <1>6
  <2>2. m * q = p * c
    BY <1>1, <1>2, <1>6, <2>1
  <2>3. p * n = p * c + p * s
    BY <1>9, <1>11, <2>1
  <2>4. p * c \in Nat /\ p * s \in Nat
    BY <1>9, <2>1
  <2> HIDE <1>2, <1>7, <1>8, <1>11
  <2> QED  BY <1>6, <1>9, <2>2, <2>3, <2>4
<1>14. x \div p = n
  BY <1>9, <1>12, <1>13, DivisionUnique
<1>15. s \in 0..(K - 1)
  BY <1>1, <1>9, <1>10
<1>16. (x % (K * p)) \div p = s /\ x \div (K * p) = q
  BY <1>2, <1>3, <1>4, <1>7
<1> QED
  BY <1>11, <1>14, <1>15, <1>16
-----------------------------------------------------------------------------
(* The partitions of the matrix.  A partition of level d is named by its   *)
(* row and column among the partitions of that level; the whole matrix is  *)
(* the one partition of level 0.                                           *)

Offsets == 0..(BLOCK_SIZE - 1)

Part(d, r, c) == [level |-> d, row |-> r, column |-> c]
Parts == [level : Nat, row : Nat, column : Nat]

Whole == Part(0, 0, 0)

\* The part of l at offset o of its block.
Sub(l, o) == Part(l.level + 1, K * l.row + (o \div K), K * l.column + (o % K))

\* The side of the partitions of level i in a matrix of side K^H, and where x falls
\* among those of its block.
Width(H, i) == LongPow[H - i]
Digit(H, x, i) == (x % Width(H, i - 1)) \div Width(H, i)

\* The partition of level i that cell e is in, and where it is in its block.
Cut(H, e, i) == Part(i, e[1] \div Width(H, i), e[2] \div Width(H, i))
Off(H, e, i) == K * Digit(H, e[1], i) + Digit(H, e[2], i)

\* These are the partitions and the offsets of the code.
LEMMA WidthOfCode ==
  ASSUME NEW H \in Nat, matrixSize = LongPow[H], NEW i \in 1..H
  PROVE  /\ Width(H, i) = Partition(i) /\ Width(H, i - 1) = Partition(i - 1)
         /\ \A x : Digit(H, x, i) = OffsetOf(x, i)
         /\ \A e : Off(H, e, i) = CalculateOffset(e[1], e[2], i)
<1>1. i \in Nat /\ i - 1 \in Nat /\ i <= H /\ i - 1 <= H
  OBVIOUS
<1>2. Width(H, i) = Partition(i) /\ Width(H, i - 1) = Partition(i - 1)
  BY <1>1, PartitionOfPower DEF Width
<1>3. \A x : Digit(H, x, i) = OffsetOf(x, i)
  BY <1>2 DEF Digit, OffsetOf
<1> QED
  BY <1>2, <1>3 DEF Off, CalculateOffset

\* Parts are equal if their levels, rows and columns are.
LEMMA PartEqual ==
  ASSUME NEW a, NEW b, NEW c, NEW x, NEW y, NEW z
  PROVE  Part(a, b, c) = Part(x, y, z) <=> a = x /\ b = y /\ c = z
<1>1. /\ Part(a, b, c).level = a /\ Part(a, b, c).row = b /\ Part(a, b, c).column = c
      /\ Part(x, y, z).level = x /\ Part(x, y, z).row = y /\ Part(x, y, z).column = z
  BY DEF Part
<1> QED
  BY <1>1

\* A part of a partition is a partition of the next level.
LEMMA SubType ==
  ASSUME NEW l \in Parts, NEW o \in Offsets
  PROVE  Sub(l, o) \in Parts /\ Sub(l, o).level = l.level + 1
<1>1. o \div K \in Nat /\ o % K \in Nat /\ K \in Nat
  BY OffsetDigits, KAssumption DEF Offsets
<1>2. K * l.row \in Nat /\ K * l.column \in Nat /\ l.level \in Nat
  BY <1>1 DEF Parts
<1> QED
  BY <1>1, <1>2 DEF Sub, Part, Parts

\* Different partitions have different parts.
LEMMA SubInjective ==
  ASSUME NEW l \in Parts, NEW n \in Parts, NEW o \in Offsets, NEW p \in Offsets,
         Sub(l, o) = Sub(n, p)
  PROVE  l = n /\ o = p
<1>1. /\ o \div K \in 0..(K - 1) /\ o % K \in 0..(K - 1) /\ o = K * (o \div K) + (o % K)
      /\ p \div K \in 0..(K - 1) /\ p % K \in 0..(K - 1) /\ p = K * (p \div K) + (p % K)
  BY OffsetDigits DEF Offsets
<1>2. /\ l.level + 1 = n.level + 1
      /\ K * l.row + (o \div K) = K * n.row + (p \div K)
      /\ K * l.column + (o % K) = K * n.column + (p % K)
  BY PartEqual DEF Sub
<1>3. /\ l.level \in Nat /\ l.row \in Nat /\ l.column \in Nat
      /\ n.level \in Nat /\ n.row \in Nat /\ n.column \in Nat
  BY DEF Parts
<1>4. l.level = n.level
  BY <1>2, <1>3
<1>5. ASSUME NEW q \in Nat, NEW s \in Nat, NEW x \in 0..(K - 1), NEW y \in 0..(K - 1),
             K * q + x = K * s + y
      PROVE  q = s /\ x = y
  <2>1. (K * q + x) \div K = q /\ (K * q + x) % K = x
    BY DivisionUnique, KAssumption
  <2>2. (K * s + y) \div K = s /\ (K * s + y) % K = y
    BY DivisionUnique, KAssumption
  <2> QED  BY <1>5, <2>1, <2>2
<1>6. l.row = n.row /\ o \div K = p \div K
  BY <1>1, <1>2, <1>3, <1>5
<1>7. l.column = n.column /\ o % K = p % K
  BY <1>1, <1>2, <1>3, <1>5
<1>8. /\ l = [level |-> l.level, row |-> l.row, column |-> l.column]
      /\ n = [level |-> n.level, row |-> n.row, column |-> n.column]
  BY DEF Parts
<1> QED
  BY <1>1, <1>4, <1>6, <1>7, <1>8

\* A partition is K times as wide as its parts.
LEMMA WidthStep ==
  ASSUME NEW H \in Nat, NEW i \in 1..H
  PROVE  /\ Width(H, i) \in Nat /\ Width(H, i) > 0
         /\ Width(H, i - 1) = K * Width(H, i)
<1>1. H - i \in Nat /\ H - (i - 1) = (H - i) + 1
  OBVIOUS
<1>2. LongPow[(H - i) + 1] = K * LongPow[H - i]
  BY <1>1, LongPowGrows
<1> QED
  BY <1>1, <1>2, LongPowPositive DEF Width

\* The offset of one coordinate is a digit, and the last one of its quotient.
LEMMA DigitOfQuotient ==
  ASSUME NEW H \in Nat, NEW i \in 1..H, NEW x \in Nat
  PROVE  /\ Digit(H, x, i) \in 0..(K - 1)
         /\ x \div Width(H, i) = K * (x \div Width(H, i - 1)) + Digit(H, x, i)
         /\ x \div Width(H, i) \in Nat /\ x \div Width(H, i - 1) \in Nat
<1>1. PICK p : p = Width(H, i)
  OBVIOUS
<1>2. p \in Nat /\ p > 0 /\ Width(H, i - 1) = K * p /\ K * p \in Nat /\ K * p > 0
  BY <1>1, WidthStep, KAssumption
<1>3. Digit(H, x, i) = (x % (K * p)) \div p
  BY <1>1, <1>2 DEF Digit
<1>4. x \div p \in Nat /\ x \div (K * p) \in Nat
  BY <1>2, DivMod
<1> QED
  BY <1>1, <1>2, <1>3, <1>4, NextDigit

Cells == Nat \X Nat

\* calculateOffset leads from the partition of a cell to its partition on the next level.
LEMMA CutStep ==
  ASSUME NEW H \in Nat, NEW i \in 1..H, NEW e \in Cells
  PROVE  /\ Off(H, e, i) \in Offsets
         /\ Off(H, e, i) \div K = Digit(H, e[1], i) /\ Off(H, e, i) % K = Digit(H, e[2], i)
         /\ Cut(H, e, i - 1) \in Parts /\ Cut(H, e, i) = Sub(Cut(H, e, i - 1), Off(H, e, i))
<1>1. e[1] \in Nat /\ e[2] \in Nat
  BY DEF Cells
<1>2. PICK r : r = Digit(H, e[1], i)
  OBVIOUS
<1>3. PICK c : c = Digit(H, e[2], i)
  OBVIOUS
<1>4. /\ r \in 0..(K - 1) /\ e[1] \div Width(H, i) = K * (e[1] \div Width(H, i - 1)) + r
      /\ c \in 0..(K - 1) /\ e[2] \div Width(H, i) = K * (e[2] \div Width(H, i - 1)) + c
      /\ e[1] \div Width(H, i - 1) \in Nat /\ e[2] \div Width(H, i - 1) \in Nat
  BY <1>1, <1>2, <1>3, DigitOfQuotient
<1>5. Off(H, e, i) = K * r + c
  BY <1>2, <1>3 DEF Off
<1>6. Off(H, e, i) \in Offsets /\ Off(H, e, i) \div K = r /\ Off(H, e, i) % K = c
  BY <1>4, <1>5, DigitsOffset DEF Offsets
<1>7. /\ Cut(H, e, i - 1).level = i - 1
      /\ Cut(H, e, i - 1).row = e[1] \div Width(H, i - 1)
      /\ Cut(H, e, i - 1).column = e[2] \div Width(H, i - 1)
  BY DEF Cut, Part
<1>8. Cut(H, e, i - 1) \in Parts
  BY <1>4 DEF Cut, Part, Parts
<1>9. Sub(Cut(H, e, i - 1), Off(H, e, i)) = Cut(H, e, i)
  <2>1. i - 1 + 1 = i
    OBVIOUS
  <2> QED  BY <1>4, <1>6, <1>7, <2>1 DEF Sub, Cut
<1> QED
  BY <1>2, <1>3, <1>6, <1>8, <1>9

\* A cell of the matrix is in its one partition of level 0, and no other cell is.
LEMMA CutWhole ==
  ASSUME NEW H \in Nat, NEW e \in Cells
  PROVE  Cut(H, e, 0) = Whole <=> e[1] < LongPow[H] /\ e[2] < LongPow[H]
<1>1. Width(H, 0) = LongPow[H] /\ LongPow[H] \in Nat /\ LongPow[H] > 0
  <2>1. H - 0 = H
    OBVIOUS
  <2> QED  BY <2>1, LongPowPositive DEF Width
<1>2. e[1] \in Nat /\ e[2] \in Nat
  BY DEF Cells
<1>3. ASSUME NEW x \in Nat PROVE x \div LongPow[H] = 0 <=> x < LongPow[H]
  <2>1. x \div LongPow[H] \in Nat /\ (x \div LongPow[H] > 0 <=> x >= LongPow[H])
    BY <1>1, DivMod
  <2> QED  BY <1>1, <2>1
<1> QED
  BY <1>1, <1>2, <1>3, PartEqual DEF Cut, Whole

\* Cells in the same partition of level H - 1 at the same offset are the same.
LEMMA CutCell ==
  ASSUME NEW H \in Nat \ {0}, NEW e \in Cells, NEW f \in Cells,
         Cut(H, e, H - 1) = Cut(H, f, H - 1), Off(H, e, H) = Off(H, f, H)
  PROVE  e = f
<1>1. H \in 1..H /\ H \in Nat
  OBVIOUS
<1>2. Cut(H, e, H) = Cut(H, f, H)
  BY <1>1, CutStep
<1>3. Width(H, H) = 1
  <2>1. H - H = 0
    OBVIOUS
  <2> QED  BY <2>1, LongPowEquation DEF Width
<1>4. e[1] \in Nat /\ e[2] \in Nat /\ f[1] \in Nat /\ f[2] \in Nat
  BY DEF Cells
<1>5. e[1] \div 1 = f[1] \div 1 /\ e[2] \div 1 = f[2] \div 1
  BY <1>2, <1>3, PartEqual DEF Cut
<1>6. \A x \in Nat : x \div 1 = x
  OBVIOUS
<1> QED
  BY <1>4, <1>5, <1>6 DEF Cells
-----------------------------------------------------------------------------
(* The partition each block belongs to.                                    *)

Bit(B, x, o) == Access(B, At(x) + o)

\* The block below a 1.
Child(B, x, o) == Rank1(B, At(x) + o + 1)

\* part names the partitions of N blocks, each its own; the first m of them are
\* above the last level.
Named(m, N, H, part) ==
  /\ part \in [0..(N - 1) -> Parts]
  /\ part[0] = Whole
  /\ \A x, y \in 0..(N - 1) : part[x] = part[y] => x = y
  /\ \A x \in 0..(N - 1) : part[x].level < H /\ (x >= m <=> part[x].level = H - 1)

\* Each 1 above the last level leads to the block of its part, and each block but
\* the first has a 1 that leads to it.
Led(B, m, N, part) ==
  /\ \A x \in 0..(m - 1), o \in Offsets :
       Bit(B, x, o) => /\ Child(B, x, o) \in 1..(N - 1)
                       /\ part[Child(B, x, o)] = Sub(part[x], o)
  /\ \A y \in 1..(N - 1) : \E x \in 0..(m - 1), o \in Offsets :
       Bit(B, x, o) /\ Child(B, x, o) = y

\* B is ttree followed by ltree.
Mapped(B, m, N, H, part) ==
  /\ B \in Seq(BOOLEAN) /\ H \in Nat /\ H >= 2
  /\ N \in Nat /\ m \in 1..N /\ Len(B) = At(N)
  /\ Named(m, N, H, part)
  /\ Led(B, m, N, part)

\* The cells whose bit is set.
Edges(B, N, H, part) ==
  {e \in Cells : \E x \in 0..(N - 1) : part[x] = Cut(H, e, H - 1) /\ Bit(B, x, Off(H, e, H))}

\* The block of a part is below the block of its partition.
LEMMA OnlyChild ==
  ASSUME NEW B, NEW m, NEW N, NEW H, NEW part, Mapped(B, m, N, H, part),
         NEW x \in 0..(N - 1), NEW y \in 0..(N - 1), NEW o \in Offsets,
         part[y] = Sub(part[x], o)
  PROVE  x < m /\ Bit(B, x, o) /\ Child(B, x, o) = y
<1>1. N \in Nat /\ m \in 1..N /\ Named(m, N, H, part) /\ Led(B, m, N, part)
  BY DEF Mapped
<1>2. \A z \in 0..(N - 1) : part[z] \in Parts
  BY <1>1 DEF Named
<1>3. part[y].level = part[x].level + 1 /\ part[x].level \in Nat
  BY <1>2, SubType DEF Parts
<1>4. y # 0
  <2>1. Whole.level = 0
    BY DEF Whole, Part
  <2> QED  BY <1>1, <1>3, <2>1 DEF Named
<1>5. PICK w \in 0..(m - 1), p \in Offsets : Bit(B, w, p) /\ Child(B, w, p) = y
  BY <1>1, <1>4 DEF Led
<1>6. w \in 0..(N - 1) /\ part[y] = Sub(part[w], p)
  BY <1>1, <1>5 DEF Led
<1>7. part[w] = part[x] /\ p = o
  <2>1. part[w] \in Parts /\ part[x] \in Parts /\ Sub(part[w], p) = Sub(part[x], o)
    BY <1>2, <1>6
  <2> QED  BY <1>5, <2>1, SubInjective
<1>8. w = x
  BY <1>1, <1>6, <1>7 DEF Named
<1> QED
  BY <1>1, <1>5, <1>7, <1>8

\* The block of level 0 is the first.
LEMMA FirstBlock ==
  ASSUME NEW B, NEW m, NEW N, NEW H, NEW part, Mapped(B, m, N, H, part),
         NEW y \in 0..(N - 1), part[y].level = 0
  PROVE  y = 0
<1>1. N \in Nat /\ m \in 1..N /\ Named(m, N, H, part) /\ Led(B, m, N, part)
  BY DEF Mapped
<1> SUFFICES ASSUME y # 0 PROVE FALSE
  OBVIOUS
<1>2. PICK w \in 0..(m - 1), p \in Offsets : Bit(B, w, p) /\ Child(B, w, p) = y
  BY <1>1 DEF Led
<1>3. w \in 0..(N - 1) /\ part[y] = Sub(part[w], p) /\ part[w] \in Parts
  BY <1>1, <1>2 DEF Led, Named
<1>4. part[y].level = part[w].level + 1 /\ part[w].level \in Nat
  BY <1>3, SubType DEF Parts
<1> QED
  BY <1>4

\* Where the partition of a cell has a block, so have the partitions it is a part of.
LEMMA BlocksAbove ==
  ASSUME NEW B, NEW m, NEW N, NEW H, NEW part, Mapped(B, m, N, H, part),
         NEW e \in Cells,
         NEW j \in 0..(H - 1), NEW y \in 0..(N - 1), part[y] = Cut(H, e, j), NEW i \in 0..j
  PROVE  \E x \in 0..(N - 1) : part[x] = Cut(H, e, i)
<1> DEFINE S == {k \in 0..j : ~ \E x \in 0..(N - 1) : part[x] = Cut(H, e, j - k)}
<1>1. /\ H \in Nat /\ N \in Nat /\ m \in 1..N
      /\ Named(m, N, H, part) /\ Led(B, m, N, part)
  BY DEF Mapped
<1>2. S = {}
  <2> SUFFICES ASSUME S # {} PROVE FALSE
    OBVIOUS
  <2>1. PICK k \in S : \A n \in S : k <= n
    <3>1. S \in SUBSET Nat
      OBVIOUS
    <3> HIDE DEF S
    <3> QED  BY <3>1, LeastNatural
  <2>2. k \in 0..j /\ k # 0
    <3>1. j - 0 = j
      OBVIOUS
    <3> QED  BY <3>1
  <2>3. k - 1 \in 0..j /\ k - 1 \notin S
    BY <2>1, <2>2
  <2>4. PICK z \in 0..(N - 1) : part[z] = Cut(H, e, j - (k - 1))
    BY <2>3
  <2>5. PICK d \in 1..H : d = j - (k - 1) /\ d - 1 = j - k
    BY <1>1, <2>2
  <2>6. part[z] = Cut(H, e, d) /\ part[z].level = d
    BY <2>4, <2>5 DEF Cut, Part
  <2>7. z # 0
    BY <1>1, <2>5, <2>6 DEF Named, Whole, Part
  <2>8. PICK w \in 0..(m - 1), p \in Offsets : Bit(B, w, p) /\ Child(B, w, p) = z
    BY <1>1, <2>7 DEF Led
  <2>9. w \in 0..(N - 1) /\ part[z] = Sub(part[w], p) /\ part[w] \in Parts
    BY <1>1, <2>8 DEF Led, Named
  <2>10. /\ Cut(H, e, d) = Sub(Cut(H, e, d - 1), Off(H, e, d))
         /\ Off(H, e, d) \in Offsets /\ Cut(H, e, d - 1) \in Parts
    BY <1>1, CutStep
  <2>11. part[w] = Cut(H, e, d - 1)
    <3>1. Sub(part[w], p) = Sub(Cut(H, e, d - 1), Off(H, e, d))
      BY <2>6, <2>9, <2>10
    <3> QED  BY <2>8, <2>9, <2>10, <3>1, SubInjective
  <2> QED  BY <2>1, <2>5, <2>9, <2>11
<1>3. j - i \in 0..j /\ j - (j - i) = i
  BY <1>1
<1> QED
  BY <1>2, <1>3

\* A cell is an edge only if every partition it is in has a block, with a 1 for
\* the next one.
LEMMA EdgePath ==
  ASSUME NEW B, NEW m, NEW N, NEW H, NEW part, Mapped(B, m, N, H, part),
         NEW e \in Edges(B, N, H, part), NEW i \in 0..(H - 1)
  PROVE  \E x \in 0..(N - 1) : part[x] = Cut(H, e, i) /\ Bit(B, x, Off(H, e, i + 1))
<1>1. H \in Nat /\ H >= 2 /\ N \in Nat
  BY DEF Mapped
<1>2. e \in Cells
  BY DEF Edges
<1>3. PICK y \in 0..(N - 1) : part[y] = Cut(H, e, H - 1) /\ Bit(B, y, Off(H, e, H))
  BY DEF Edges
<1>4. CASE i = H - 1
  <2>1. i + 1 = H
    BY <1>1, <1>4
  <2> QED  BY <1>3, <1>4, <2>1
<1>5. CASE i # H - 1
  <2>1. /\ H - 1 \in 0..(H - 1) /\ i \in 0..(H - 1) /\ i + 1 \in 0..(H - 1)
        /\ i + 1 \in 1..H /\ (i + 1) - 1 = i
    BY <1>1, <1>5
  <2>2. PICK x \in 0..(N - 1) : part[x] = Cut(H, e, i)
    BY <1>2, <1>3, <2>1, BlocksAbove
  <2>3. PICK z \in 0..(N - 1) : part[z] = Cut(H, e, i + 1)
    BY <1>2, <1>3, <2>1, BlocksAbove
  <2>4. Cut(H, e, i + 1) = Sub(Cut(H, e, i), Off(H, e, i + 1)) /\ Off(H, e, i + 1) \in Offsets
    BY <1>1, <1>2, <2>1, CutStep
  <2> QED  BY <2>2, <2>3, <2>4, OnlyChild
<1> QED
  BY <1>4, <1>5

\* A 0 on the path to a cell: the cell is no edge.
LEMMA NoEdgeBelow ==
  ASSUME NEW B, NEW m, NEW N, NEW H, NEW part, Mapped(B, m, N, H, part),
         NEW e, NEW i \in 0..(H - 1),
         NEW x \in 0..(N - 1), part[x] = Cut(H, e, i), ~Bit(B, x, Off(H, e, i + 1))
  PROVE  e \notin Edges(B, N, H, part)
<1> SUFFICES ASSUME e \in Edges(B, N, H, part) PROVE FALSE
  OBVIOUS
<1>1. PICK y \in 0..(N - 1) : part[y] = Cut(H, e, i) /\ Bit(B, y, Off(H, e, i + 1))
  BY EdgePath
<1>2. y = x
  BY <1>1 DEF Mapped, Named
<1> QED
  BY <1>1, <1>2

\* The bit of a cell in its block on the last level tells whether it is an edge.
LEMMA EdgeBit ==
  ASSUME NEW B, NEW m, NEW N, NEW H, NEW part, Mapped(B, m, N, H, part),
         NEW e \in Cells, NEW x \in 0..(N - 1), part[x] = Cut(H, e, H - 1)
  PROVE  e \in Edges(B, N, H, part) <=> Bit(B, x, Off(H, e, H))
<1>1. \A y \in 0..(N - 1) : part[y] = Cut(H, e, H - 1) => y = x
  BY DEF Mapped, Named
<1> QED
  BY <1>1 DEF Edges

\* Edges are cells of the matrix.
LEMMA EdgesInMatrix ==
  ASSUME NEW B, NEW m, NEW N, NEW H, NEW part, Mapped(B, m, N, H, part),
         NEW e \in Edges(B, N, H, part)
  PROVE  e \in Cells /\ e[1] < LongPow[H] /\ e[2] < LongPow[H] /\ Cut(H, e, 0) = Whole
<1>1. H \in Nat /\ H >= 2 /\ 0 \in 0..(H - 1) /\ Named(m, N, H, part)
  BY DEF Mapped
<1>2. e \in Cells
  BY DEF Edges
<1>3. PICK x \in 0..(N - 1) : part[x] = Cut(H, e, 0)
  BY <1>1, EdgePath
<1>4. part[x].level = 0
  BY <1>3 DEF Cut, Part
<1>5. Cut(H, e, 0) = Whole
  <2>1. x = 0
    BY <1>4, FirstBlock
  <2> QED  BY <1>1, <1>3, <2>1 DEF Named
<1> QED
  BY <1>1, <1>2, <1>5, CutWhole
-----------------------------------------------------------------------------
(* What Decode returns.                                                    *)

\* matrixSize is K ^ Height.
LEMMA HeightOfMatrix ==
  ASSUME NEW H \in Nat, matrixSize = LongPow[H]
  PROVE  Height = H
<1>1. \A n \in Nat : LongPow[n] \in Nat /\ LongPow[n] > 0
  BY LongPowPositive
<1>2. \A n \in Nat : n <= LongPow[n]
  <2> DEFINE S == {n \in Nat : ~(n <= LongPow[n])}
  <2> SUFFICES ASSUME S # {} PROVE FALSE
    OBVIOUS
  <2>1. PICK n \in S : \A j \in S : n <= j
    BY LeastNatural
  <2>2. n # 0
    BY <1>1
  <2>3. n - 1 \in Nat /\ n - 1 <= LongPow[n - 1]
    BY <2>1, <2>2
  <2>4. PICK p \in Nat : p = LongPow[n - 1] /\ p > 0
    BY <1>1, <2>3
  <2>5. LongPow[n] = K * p
    <3>1. (n - 1) + 1 = n
      BY <2>3
    <3> QED  BY <2>3, <2>4, <3>1, LongPowGrows
  <2>6. K * p >= p + p
    <3>1. K - 2 \in Nat /\ K * p = p + p + (K - 2) * p /\ (K - 2) * p \in Nat
      BY <2>4, KAssumption
    <3> QED  BY <2>4, <3>1
  <2>7. n \in Nat /\ ~(n <= K * p) /\ n - 1 <= p /\ K * p \in Nat
    BY <2>3, <2>4, <2>5, KAssumption
  <2> QED  BY <2>4, <2>6, <2>7
<1>3. ASSUME NEW h \in 0..matrixSize, LongPow[h] = matrixSize PROVE h = H
  <2>1. h \in Nat
    BY <1>1
  <2>2. ASSUME NEW i \in Nat, NEW j \in Nat, i < j PROVE LongPow[i] # LongPow[j]
    <3>1. PICK p \in Nat : p = LongPow[i] /\ p > 0
      BY <1>1
    <3>2. LongPow[j] >= K * p /\ LongPow[j] \in Nat
      BY <1>1, <2>2, <3>1, PowOrder
    <3>3. K - 2 \in Nat /\ K * p = p + p + (K - 2) * p /\ (K - 2) * p \in Nat
      BY <3>1, KAssumption
    <3> QED  BY <3>1, <3>2, <3>3
  <2> QED  BY <1>3, <2>1, <2>2
<1>4. H \in 0..matrixSize
  BY <1>1, <1>2
<1>5. \E h \in 0..matrixSize : LongPow[h] = matrixSize
  BY <1>4
<1>6. (CHOOSE h \in 0..matrixSize : LongPow[h] = matrixSize) \in 0..matrixSize
      /\ LongPow[CHOOSE h \in 0..matrixSize : LongPow[h] = matrixSize] = matrixSize
  BY <1>5, Zenon
<1>7. Height \in 0..matrixSize /\ LongPow[Height] = matrixSize
  BY <1>6, Zenon DEF Height
<1> QED
  BY <1>3, <1>7

\* The nodes of Decode below node n, and its list of the nodes of each level.
NodesBelow(B, n) ==
  {[row    |-> K * n.row + (o \div K),
    column |-> K * n.column + (o % K),
    block  |-> Rank1(B, n.block + o + 1) * BLOCK_SIZE] :
      o \in {x \in 0..(BLOCK_SIZE - 1) : Access(B, n.block + x)}}

NodeLists(B, h, g) ==
  g = [i \in 0..h |->
         IF i = 0 THEN {[row |-> 0, column |-> 0, block |-> 0]}
                  ELSE UNION {NodesBelow(B, n) : n \in g[i - 1]}]

\* Decode reads the last list.
LEMMA DecodeByLists ==
  Decode = {<<n.row, n.column>> :
              n \in (CHOOSE g : NodeLists(ttree \o ltree, Height, g))[Height]}
BY Zenon DEF Decode, NodeLists, NodesBelow

\* The node of Decode for a block.
NodeOf(part, x) == [row |-> part[x].row, column |-> part[x].column, block |-> At(x)]
NodesOn(N, part, i) == {NodeOf(part, x) : x \in {y \in 0..(N - 1) : part[y].level = i}}

\* What is below the node of a block.
LEMMA BelowNodeOf ==
  ASSUME NEW B, NEW part, NEW x, NEW n
  PROVE  n \in NodesBelow(B, NodeOf(part, x)) <=>
           \E o \in Offsets : /\ Bit(B, x, o)
                              /\ n = [row    |-> Sub(part[x], o).row,
                                      column |-> Sub(part[x], o).column,
                                      block  |-> Child(B, x, o) * BLOCK_SIZE]
<1>1. /\ NodeOf(part, x).row = part[x].row /\ NodeOf(part, x).column = part[x].column
      /\ NodeOf(part, x).block = At(x)
  BY DEF NodeOf
<1>2. \A o : /\ Sub(part[x], o).row = K * part[x].row + (o \div K)
             /\ Sub(part[x], o).column = K * part[x].column + (o % K)
  BY DEF Sub, Part
<1> QED
  BY <1>1, <1>2 DEF NodesBelow, Offsets, Bit, Child

\* The list of each level but the last has the nodes of its blocks.
LEMMA NodesOfLevel ==
  ASSUME NEW B, NEW m, NEW N, NEW H, NEW part, Mapped(B, m, N, H, part),
         NEW i \in 1..(H - 1)
  PROVE  NodesOn(N, part, i) = UNION {NodesBelow(B, n) : n \in NodesOn(N, part, i - 1)}
<1>1. /\ H \in Nat /\ H >= 2 /\ N \in Nat /\ m \in 1..N
      /\ Named(m, N, H, part) /\ Led(B, m, N, part)
  BY DEF Mapped
<1>2. \A x \in 0..(N - 1) : part[x] \in Parts /\ part[x].level \in Nat
  BY <1>1 DEF Named, Parts
<1>3. \A c : c * BLOCK_SIZE = At(c) <=> c * BLOCK_SIZE = BLOCK_SIZE * c
  BY DEF At
<1>4. ASSUME NEW x \in 0..(N - 1), NEW o \in Offsets, Bit(B, x, o), x < m
      PROVE  /\ Child(B, x, o) \in 1..(N - 1) /\ part[Child(B, x, o)] = Sub(part[x], o)
             /\ [row |-> Sub(part[x], o).row, column |-> Sub(part[x], o).column,
                 block |-> Child(B, x, o) * BLOCK_SIZE] = NodeOf(part, Child(B, x, o))
  <2>1. Child(B, x, o) \in 1..(N - 1) /\ part[Child(B, x, o)] = Sub(part[x], o)
    BY <1>1, <1>4 DEF Led
  <2>2. Child(B, x, o) * BLOCK_SIZE = At(Child(B, x, o))
    <3>1. Child(B, x, o) \in Nat /\ BLOCK_SIZE \in Nat
      BY <1>1, <2>1, BlockSize
    <3> QED  BY <3>1 DEF At
  <2> QED  BY <2>1, <2>2 DEF NodeOf
<1>5. ASSUME NEW n \in NodesOn(N, part, i)
      PROVE  \E k \in NodesOn(N, part, i - 1) : n \in NodesBelow(B, k)
  <2>1. PICK y \in 0..(N - 1) : part[y].level = i /\ n = NodeOf(part, y)
    BY DEF NodesOn
  <2>2. y # 0
    BY <1>1, <2>1 DEF Named, Whole, Part
  <2>3. PICK x \in 0..(m - 1), o \in Offsets : Bit(B, x, o) /\ Child(B, x, o) = y
    BY <1>1, <2>2 DEF Led
  <2>4. x \in 0..(N - 1) /\ x < m
    BY <1>1
  <2>5. part[y] = Sub(part[x], o)
    BY <1>4, <2>3, <2>4
  <2>6. part[x].level = i - 1
    <3>1. part[y].level = part[x].level + 1
      BY <1>2, <2>4, <2>5, SubType
    <3> QED  BY <1>2, <2>1, <2>4, <3>1
  <2>7. n \in NodesBelow(B, NodeOf(part, x))
    BY <1>4, <2>1, <2>3, <2>4, BelowNodeOf
  <2> QED  BY <2>4, <2>6, <2>7 DEF NodesOn
<1>6. ASSUME NEW k \in NodesOn(N, part, i - 1), NEW n \in NodesBelow(B, k)
      PROVE  n \in NodesOn(N, part, i)
  <2>1. PICK x \in 0..(N - 1) : part[x].level = i - 1 /\ k = NodeOf(part, x)
    BY DEF NodesOn
  <2>2. PICK o \in Offsets : /\ Bit(B, x, o)
                             /\ n = [row    |-> Sub(part[x], o).row,
                                     column |-> Sub(part[x], o).column,
                                     block  |-> Child(B, x, o) * BLOCK_SIZE]
    BY <2>1, BelowNodeOf
  <2>3. x < m
    <3>1. part[x].level # H - 1
      BY <1>1, <2>1
    <3> QED  BY <1>1, <3>1 DEF Named
  <2>4. /\ Child(B, x, o) \in 1..(N - 1) /\ part[Child(B, x, o)] = Sub(part[x], o)
        /\ n = NodeOf(part, Child(B, x, o))
    BY <1>4, <2>2, <2>3
  <2>5. Child(B, x, o) \in 0..(N - 1) /\ part[Child(B, x, o)].level = i
    <3>1. part[Child(B, x, o)].level = part[x].level + 1
      BY <1>2, <2>1, <2>4, SubType
    <3> QED  BY <1>1, <2>1, <2>4, <3>1
  <2> QED  BY <2>4, <2>5 DEF NodesOn
<1> QED
  BY <1>5, <1>6

\* The lists exist, and the last has the edges.
LEMMA ListsOfEdges ==
  ASSUME NEW B, NEW m, NEW N, NEW H, NEW part, Mapped(B, m, N, H, part)
  PROVE  /\ \E g : NodeLists(B, H, g)
         /\ \A g : NodeLists(B, H, g) =>
              g[H] = UNION {NodesBelow(B, n) : n \in NodesOn(N, part, H - 1)}
<1> DEFINE root == {[row |-> 0, column |-> 0, block |-> 0]}
           next(S) == UNION {NodesBelow(B, n) : n \in S}
           g0 == [i \in 0..H |-> IF i = H THEN next(NodesOn(N, part, H - 1))
                                          ELSE NodesOn(N, part, i)]
<1>1. H \in Nat /\ H >= 2 /\ N \in Nat /\ m \in 1..N /\ Named(m, N, H, part)
  BY DEF Mapped
<1>2. NodesOn(N, part, 0) = root
  <2>1. {y \in 0..(N - 1) : part[y].level = 0} = {0}
    <3>1. \A y \in 0..(N - 1) : part[y].level = 0 => y = 0
      BY FirstBlock
    <3>2. 0 \in 0..(N - 1) /\ part[0].level = 0
      BY <1>1 DEF Named, Whole, Part
    <3> QED  BY <3>1, <3>2
  <2>2. NodeOf(part, 0) = [row |-> 0, column |-> 0, block |-> 0]
    BY <1>1, AtOrder DEF NodeOf, Named, Whole, Part
  <2> QED  BY <2>1, <2>2 DEF NodesOn
<1>3. \A i \in 1..(H - 1) : NodesOn(N, part, i) = next(NodesOn(N, part, i - 1))
  BY NodesOfLevel
<1>4. \A g : NodeLists(B, H, g) <=>
               g = [i \in 0..H |-> IF i = 0 THEN root ELSE next(g[i - 1])]
  BY Zenon DEF NodeLists
<1> HIDE DEF root, next
<1>5. NodeLists(B, H, g0)
  <2>1. \A i \in 0..H : g0[i] = IF i = 0 THEN root ELSE next(g0[i - 1])
    BY <1>1, <1>2, <1>3
  <2>2. g0 = [i \in 0..H |-> g0[i]]
    OBVIOUS
  <2> HIDE DEF g0
  <2>3. [i \in 0..H |-> g0[i]] = [i \in 0..H |-> IF i = 0 THEN root ELSE next(g0[i - 1])]
    BY <2>1
  <2>4. g0 = [i \in 0..H |-> IF i = 0 THEN root ELSE next(g0[i - 1])]
    BY <2>2, <2>3, Zenon
  <2> QED  BY <1>4, <2>4, Zenon
<1>6. ASSUME NEW g, NodeLists(B, H, g)
      PROVE  g[H] = next(NodesOn(N, part, H - 1))
  <2>1. \A i \in 0..H : g[i] = IF i = 0 THEN root ELSE next(g[i - 1])
    <3>1. g = [i \in 0..H |-> IF i = 0 THEN root ELSE next(g[i - 1])]
      BY <1>4, <1>6, Zenon
    <3>2. PICK f : f = [i \in 0..H |-> IF i = 0 THEN root ELSE next(g[i - 1])]
      OBVIOUS
    <3>3. \A i \in 0..H : f[i] = IF i = 0 THEN root ELSE next(g[i - 1])
      BY <3>2
    <3>4. f = g
      BY <3>1, <3>2, Zenon
    <3> QED  BY <3>3, <3>4
  <2> DEFINE S == {i \in 0..(H - 1) : g[i] # NodesOn(N, part, i)}
  <2>2. S = {}
    <3> SUFFICES ASSUME S # {} PROVE FALSE
      OBVIOUS
    <3>1. PICK i \in S : \A j \in S : i <= j
      <4>1. S \in SUBSET Nat
        OBVIOUS
      <4> HIDE DEF S
      <4> QED  BY <4>1, LeastNatural
    <3>2. i # 0
      BY <1>1, <1>2, <2>1
    <3>3. i \in 1..(H - 1) /\ i \in 0..H /\ i - 1 \in 0..(H - 1)
      BY <1>1, <3>1, <3>2
    <3>4. i - 1 \notin S
      BY <3>1, <3>3
    <3>5. g[i - 1] = NodesOn(N, part, i - 1)
      BY <3>3, <3>4
    <3>6. g[i] = next(g[i - 1])
      BY <2>1, <3>2, <3>3
    <3> QED  BY <1>3, <3>1, <3>3, <3>5, <3>6
  <2>3. H - 1 \in 0..(H - 1) /\ H \in 0..H /\ H # 0
    BY <1>1
  <2>4. g[H - 1] = NodesOn(N, part, H - 1)
    BY <2>2, <2>3
  <2> QED  BY <2>1, <2>3, <2>4
<1>7. \E g : NodeLists(B, H, g)
  BY <1>5, Zenon
<1> QED
  BY <1>6, <1>7 DEF next

\* The graph that Decode returns, of any vectors in which every block belongs to a
\* partition.
DecodesEdges ==
  \A m, N, H, part :
    Mapped(ttree \o ltree, m, N, H, part) /\ matrixSize = LongPow[H]
      => Decode = Edges(ttree \o ltree, N, H, part)

\* Decode returns the cells whose bits are 1.
LEMMA DecodeIsEdges == DecodesEdges
<1> SUFFICES ASSUME NEW m, NEW N, NEW H, NEW part, Mapped(ttree \o ltree, m, N, H, part),
                    matrixSize = LongPow[H]
             PROVE  Decode = Edges(ttree \o ltree, N, H, part)
  BY DEF DecodesEdges
<1>1. PICK B : B = ttree \o ltree
  OBVIOUS
<1>2. Mapped(B, m, N, H, part)
  BY <1>1
<1>3. /\ H \in Nat /\ H >= 2 /\ N \in Nat /\ m \in 1..N
      /\ Named(m, N, H, part)
  BY <1>2 DEF Mapped
<1>4. Height = H
  BY <1>3, HeightOfMatrix
<1>5. PICK g : NodeLists(B, H, g) /\ Decode = {<<n.row, n.column>> : n \in g[H]}
  <2>1. \E g : NodeLists(B, H, g)
    BY <1>2, ListsOfEdges
  <2>2. NodeLists(B, H, CHOOSE g : NodeLists(B, H, g))
    BY <2>1, Zenon
  <2>3. Decode = {<<n.row, n.column>> : n \in (CHOOSE g : NodeLists(B, H, g))[H]}
    BY <1>1, <1>4, DecodeByLists, Zenon
  <2> QED  BY <2>2, <2>3, Zenon
<1>6. g[H] = UNION {NodesBelow(B, n) : n \in NodesOn(N, part, H - 1)}
  BY <1>2, <1>5, ListsOfEdges
<1>7. \A e : Cut(H, e, H) = Part(H, e[1] \div 1, e[2] \div 1)
  <2>1. H - H = 0
    BY <1>3
  <2>2. Width(H, H) = 1
    BY <2>1, LongPowEquation DEF Width
  <2> QED  BY <2>2 DEF Cut
<1>8. ASSUME NEW e \in Edges(B, N, H, part) PROVE e \in Decode
  <2>1. e \in Cells
    BY DEF Edges
  <2>2. PICK x \in 0..(N - 1) : part[x] = Cut(H, e, H - 1) /\ Bit(B, x, Off(H, e, H))
    BY DEF Edges
  <2>3. H \in 1..H
    BY <1>3
  <2>4. Off(H, e, H) \in Offsets /\ Cut(H, e, H) = Sub(part[x], Off(H, e, H))
    BY <1>3, <2>1, <2>2, <2>3, CutStep
  <2>5. e[1] \in Nat /\ e[2] \in Nat /\ e = <<e[1], e[2]>>
    BY <2>1 DEF Cells
  <2>6. Sub(part[x], Off(H, e, H)).row = e[1] /\ Sub(part[x], Off(H, e, H)).column = e[2]
    <3>1. Cut(H, e, H).row = e[1] \div 1 /\ Cut(H, e, H).column = e[2] \div 1
      BY <1>7 DEF Part
    <3> QED  BY <2>4, <2>5, <3>1
  <2>7. NodeOf(part, x) \in NodesOn(N, part, H - 1)
    <3>1. part[x].level = H - 1
      BY <2>2 DEF Cut, Part
    <3> QED  BY <3>1 DEF NodesOn
  <2>8. PICK n \in NodesBelow(B, NodeOf(part, x)) :
          /\ n.row = Sub(part[x], Off(H, e, H)).row
          /\ n.column = Sub(part[x], Off(H, e, H)).column
    <3> DEFINE n0 == [row    |-> Sub(part[x], Off(H, e, H)).row,
                      column |-> Sub(part[x], Off(H, e, H)).column,
                      block  |-> Child(B, x, Off(H, e, H)) * BLOCK_SIZE]
    <3>1. n0 \in NodesBelow(B, NodeOf(part, x))
      BY <2>2, <2>4, BelowNodeOf
    <3>2. /\ n0.row = Sub(part[x], Off(H, e, H)).row
          /\ n0.column = Sub(part[x], Off(H, e, H)).column
      OBVIOUS
    <3> HIDE DEF n0
    <3> QED  BY <3>1, <3>2
  <2>9. n \in g[H]
    BY <1>6, <2>7, <2>8
  <2> QED  BY <1>5, <2>5, <2>6, <2>8, <2>9
<1>9. ASSUME NEW e \in Decode PROVE e \in Edges(B, N, H, part)
  <2>1. PICK n \in g[H] : e = <<n.row, n.column>>
    BY <1>5
  <2>2. PICK k \in NodesOn(N, part, H - 1) : n \in NodesBelow(B, k)
    BY <1>6
  <2>3. PICK x \in 0..(N - 1) : part[x].level = H - 1 /\ k = NodeOf(part, x)
    BY DEF NodesOn
  <2>4. PICK o \in Offsets : /\ Bit(B, x, o)
                             /\ n = [row    |-> Sub(part[x], o).row,
                                     column |-> Sub(part[x], o).column,
                                     block  |-> Child(B, x, o) * BLOCK_SIZE]
    BY <2>2, <2>3, BelowNodeOf
  <2>5. e = <<Sub(part[x], o).row, Sub(part[x], o).column>>
    BY <2>1, <2>4
  <2>6. part[x] \in Parts /\ Sub(part[x], o) \in Parts /\ Sub(part[x], o).level = H
    <3>1. part[x] \in Parts
      BY <1>3 DEF Named
    <3>2. (H - 1) + 1 = H
      BY <1>3
    <3> QED  BY <2>3, <3>1, <3>2, SubType
  <2>7. e \in Cells /\ Part(H, e[1], e[2]) = Sub(part[x], o)
    BY <2>5, <2>6 DEF Cells, Parts, Part
  <2>8. Cut(H, e, H) = Sub(part[x], o)
    <3>1. e[1] \div 1 = e[1] /\ e[2] \div 1 = e[2]
      BY <2>7 DEF Cells
    <3> QED  BY <1>7, <2>7, <3>1
  <2>9. /\ Off(H, e, H) \in Offsets /\ Cut(H, e, H - 1) \in Parts
        /\ Cut(H, e, H) = Sub(Cut(H, e, H - 1), Off(H, e, H))
    <3>1. H \in 1..H
      BY <1>3
    <3> QED  BY <1>3, <2>7, <3>1, CutStep
  <2>10. part[x] = Cut(H, e, H - 1) /\ o = Off(H, e, H)
    <3>1. Sub(part[x], o) = Sub(Cut(H, e, H - 1), Off(H, e, H))
      BY <2>8, <2>9
    <3> QED  BY <2>6, <2>9, <3>1, SubInjective
  <2> QED  BY <2>4, <2>7, <2>10 DEF Edges
<1>10. Decode = Edges(B, N, H, part)
  BY <1>8, <1>9
<1> QED
  BY <1>1, <1>10
-----------------------------------------------------------------------------
(* ttree and ltree as one vector.                                          *)

\* Vectors with the same bits are the same.
LEMMA SameVector ==
  ASSUME NEW u \in Seq(BOOLEAN), NEW v \in Seq(BOOLEAN), Len(u) = Len(v),
         \A q \in 0..(Len(u) - 1) : Access(u, q) <=> Access(v, q)
  PROVE  u = v
<1>1. Len(u) \in Nat /\ u \in [1..Len(u) -> BOOLEAN] /\ v \in [1..Len(u) -> BOOLEAN]
  BY SeqIsFunction
<1>2. ASSUME NEW i \in 1..Len(u) PROVE u[i] = v[i]
  <2>1. i - 1 \in 0..(Len(u) - 1) /\ (i - 1) + 1 = i
    BY <1>1
  <2>2. Access(u, i - 1) <=> u[i]
    BY <2>1 DEF Access
  <2>3. Access(v, i - 1) <=> v[i]
    BY <2>1 DEF Access
  <2>4. u[i] \in BOOLEAN /\ v[i] \in BOOLEAN
    BY <1>1
  <2> QED  BY <2>1, <2>2, <2>3, <2>4
<1> QED
  BY <1>1, <1>2

\* u has the bits of t and then those of l.
Joined(u, t, l) ==
  /\ Len(t) \in Nat /\ Len(l) \in Nat /\ Len(u) = Len(t) + Len(l)
  /\ \A q \in Nat : Access(u, q) <=> \/ q < Len(t) /\ Access(t, q)
                                     \/ q >= Len(t) /\ Access(l, q - Len(t))

\* That is what t \o l has.
LEMMA JoinedVectors ==
  ASSUME NEW t \in Seq(BOOLEAN), NEW l \in Seq(BOOLEAN)
  PROVE  t \o l \in Seq(BOOLEAN) /\ Joined(t \o l, t, l)
<1>1. Len(t) \in Nat /\ Len(l) \in Nat
  OBVIOUS
<1>2. t \o l \in Seq(BOOLEAN) /\ Len(t \o l) = Len(t) + Len(l)
  OBVIOUS
<1>3. ASSUME NEW q \in Nat
      PROVE  Access(t \o l, q) <=> \/ q < Len(t) /\ Access(t, q)
                                   \/ q >= Len(t) /\ Access(l, q - Len(t))
  BY <1>1 DEF Access
<1> QED
  BY <1>1, <1>2, <1>3 DEF Joined

\* And no other vector has.
LEMMA VectorJoined ==
  ASSUME NEW t \in Seq(BOOLEAN), NEW l \in Seq(BOOLEAN), NEW u \in Seq(BOOLEAN),
         Joined(u, t, l)
  PROVE  t \o l = u
<1>1. PICK v \in Seq(BOOLEAN) : v = t \o l /\ Joined(v, t, l)
  BY JoinedVectors
<1>2. Len(u) = Len(v) /\ Len(u) \in Nat
  BY <1>1 DEF Joined
<1>3. \A q \in 0..(Len(u) - 1) : Access(u, q) <=> Access(v, q)
  BY <1>1, <1>2 DEF Joined
<1> QED
  BY <1>1, <1>2, <1>3, SameVector

\* The ranks up to the end of the first vector are its own.
LEMMA RankJoined ==
  ASSUME NEW t \in Seq(BOOLEAN), NEW l \in Seq(BOOLEAN), NEW q \in 0..Len(t)
  PROVE  Rank1(t \o l, q) = Rank1(t, q)
<1>1. PICK v \in Seq(BOOLEAN) : v = t \o l /\ Joined(v, t, l)
  BY JoinedVectors
<1>2. q \in Nat /\ SameBits(v, 0, q, t, 0)
  BY <1>1 DEF SameBits, Joined
<1> QED
  BY <1>1, <1>2, RankOfPrefix

\* A change of the first vector is the change of the two together.
LEMMA ChangeFirst ==
  ASSUME NEW t \in Seq(BOOLEAN), NEW l \in Seq(BOOLEAN), NEW p \in Nat
  PROVE  /\ \A x \in BOOLEAN : p < Len(t) => SetBit(t, p, x) \o l = SetBit(t \o l, p, x)
         /\ p <= Len(t) => InsertBlock(t, p) \o l = InsertBlock(t \o l, p)
         /\ p + BLOCK_SIZE <= Len(t) => DeleteBlock(t, p) \o l = DeleteBlock(t \o l, p)
<1>1. PICK B \in Seq(BOOLEAN) : B = t \o l /\ Joined(B, t, l)
  BY JoinedVectors
<1>2. Len(t) \in Nat /\ Len(l) \in Nat /\ Len(B) = Len(t) + Len(l)
  BY <1>1 DEF Joined
<1>3. PICK k \in Nat : k = BLOCK_SIZE /\ k >= 4
  BY BlockSize
<1>4. ASSUME NEW x \in BOOLEAN, p < Len(t)
      PROVE  SetBit(t, p, x) \o l = SetBit(B, p, x)
  <2>1. PICK s \in Seq(BOOLEAN) : s = SetBit(t, p, x) /\ Len(s) = Len(t)
    BY SetBitType
  <2>2. PICK w \in Seq(BOOLEAN) : w = SetBit(B, p, x) /\ Len(w) = Len(B)
    BY SetBitType
  <2>3. p \in 0..(Len(t) - 1) /\ p \in 0..(Len(B) - 1)
    BY <1>2, <1>4
  <2>4. \A q \in Nat : Access(s, q) <=> IF q = p THEN x ELSE Access(t, q)
    BY <2>1, <2>3, SetBitAccess
  <2>5. \A q \in Nat : Access(w, q) <=> IF q = p THEN x ELSE Access(B, q)
    BY <2>2, <2>3, SetBitAccess
  <2>6. Joined(w, s, l)
    BY <1>1, <1>2, <1>4, <2>1, <2>2, <2>4, <2>5 DEF Joined
  <2> QED  BY <2>1, <2>2, <2>6, VectorJoined
<1>5. ASSUME p <= Len(t)
      PROVE  InsertBlock(t, p) \o l = InsertBlock(B, p)
  <2> p \in Int
    OBVIOUS
  <2>1. PICK s \in Seq(BOOLEAN) : s = InsertBlock(t, p) /\ Len(s) = Len(t) + k
    BY <1>3, InsertBlockType
  <2>2. PICK w \in Seq(BOOLEAN) : w = InsertBlock(B, p) /\ Len(w) = Len(B) + k
    BY <1>3, InsertBlockType
  <2>3. p \in 0..Len(t) /\ p \in 0..Len(B)
    BY <1>2, <1>5
  <2>4. \A q \in Nat : Access(s, q) <=> \/ q < p /\ Access(t, q)
                                        \/ q >= p + k /\ Access(t, q - k)
    BY <1>3, <2>1, <2>3, InsertBlockAccess
  <2>5. \A q \in Nat : Access(w, q) <=> \/ q < p /\ Access(B, q)
                                        \/ q >= p + k /\ Access(B, q - k)
    BY <1>3, <2>2, <2>3, InsertBlockAccess
  <2>6. ASSUME NEW q \in Nat
        PROVE  Access(w, q) <=> \/ q < Len(s) /\ Access(s, q)
                                \/ q >= Len(s) /\ Access(l, q - Len(s))
    <3>1. CASE q < p
      BY <1>1, <1>2, <1>3, <1>5, <2>1, <2>4, <2>5, <3>1 DEF Joined
    <3>2. CASE p <= q /\ q < p + k
      BY <1>2, <1>3, <1>5, <2>1, <2>4, <2>5, <3>2
    <3>3. CASE q >= p + k
      <4>1. PICK r \in Nat : r = q - k
        BY <1>3, <3>3
      <4>2. Access(B, r) <=> \/ r < Len(t) /\ Access(t, r)
                             \/ r >= Len(t) /\ Access(l, r - Len(t))
        BY <1>1, <4>1 DEF Joined
      <4>3. (r < Len(t) <=> q < Len(s)) /\ r - Len(t) = q - Len(s)
        BY <1>2, <1>3, <2>1, <4>1
      <4>4. (Access(w, q) <=> Access(B, r)) /\ (Access(s, q) <=> Access(t, r))
        BY <1>3, <2>4, <2>5, <3>3, <4>1
      <4> QED  BY <1>2, <1>3, <2>1, <4>1, <4>2, <4>3, <4>4
    <3> QED  BY <1>3, <3>1, <3>2, <3>3
  <2>7. Joined(w, s, l)
    BY <1>2, <1>3, <2>1, <2>2, <2>6 DEF Joined
  <2> QED  BY <2>1, <2>2, <2>7, VectorJoined
<1>6. ASSUME p + k <= Len(t)
      PROVE  DeleteBlock(t, p) \o l = DeleteBlock(B, p)
  <2>1. PICK s \in Seq(BOOLEAN) : s = DeleteBlock(t, p)
    BY DeleteBlockType
  <2>2. PICK w \in Seq(BOOLEAN) : w = DeleteBlock(B, p)
    BY DeleteBlockType
  <2>3. p + BLOCK_SIZE <= Len(t) /\ p + BLOCK_SIZE <= Len(B)
    BY <1>2, <1>3, <1>6
  <2>4. /\ Len(s) = Len(t) - k
        /\ \A q \in Nat : Access(s, q) <=> IF q < p THEN Access(t, q) ELSE Access(t, q + k)
    BY <1>3, <2>1, <2>3, DeleteBlockAccess
  <2>5. /\ Len(w) = Len(B) - k
        /\ \A q \in Nat : Access(w, q) <=> IF q < p THEN Access(B, q) ELSE Access(B, q + k)
    BY <1>3, <2>2, <2>3, DeleteBlockAccess
  <2>6. ASSUME NEW q \in Nat
        PROVE  Access(w, q) <=> \/ q < Len(s) /\ Access(s, q)
                                \/ q >= Len(s) /\ Access(l, q - Len(s))
    <3>1. CASE q < p
      BY <1>1, <1>2, <1>3, <1>6, <2>4, <2>5, <3>1 DEF Joined
    <3>2. CASE q >= p
      <4>1. PICK r \in Nat : r = q + k
        BY <1>3
      <4>2. Access(B, r) <=> \/ r < Len(t) /\ Access(t, r)
                             \/ r >= Len(t) /\ Access(l, r - Len(t))
        BY <1>1, <4>1 DEF Joined
      <4>3. (r < Len(t) <=> q < Len(s)) /\ r - Len(t) = q - Len(s)
        BY <1>2, <1>3, <2>4, <4>1
      <4>4. (Access(w, q) <=> Access(B, r)) /\ (Access(s, q) <=> Access(t, r))
        BY <1>3, <2>4, <2>5, <3>2, <4>1
      <4> QED  BY <1>2, <1>3, <2>4, <4>1, <4>2, <4>3, <4>4
    <3> QED  BY <3>1, <3>2
  <2>7. Joined(w, s, l)
    BY <1>2, <1>3, <1>6, <2>4, <2>5, <2>6 DEF Joined
  <2> QED  BY <2>1, <2>2, <2>7, VectorJoined
<1> QED
  BY <1>1, <1>3, <1>4, <1>5, <1>6

\* A change of the second vector is a change of the two together, further on.
LEMMA ChangeSecond ==
  ASSUME NEW t \in Seq(BOOLEAN), NEW l \in Seq(BOOLEAN), NEW p \in Nat,
         NEW P \in Nat, P = Len(t) + p
  PROVE  /\ \A x \in BOOLEAN : p < Len(l) => t \o SetBit(l, p, x) = SetBit(t \o l, P, x)
         /\ p <= Len(l) => t \o InsertBlock(l, p) = InsertBlock(t \o l, P)
         /\ p + BLOCK_SIZE <= Len(l) => t \o DeleteBlock(l, p) = DeleteBlock(t \o l, P)
<1>1. PICK B \in Seq(BOOLEAN) : B = t \o l /\ Joined(B, t, l)
  BY JoinedVectors
<1>2. Len(t) \in Nat /\ Len(l) \in Nat /\ Len(B) = Len(t) + Len(l)
  BY <1>1 DEF Joined
<1>3. PICK k \in Nat : k = BLOCK_SIZE /\ k >= 4
  BY BlockSize
<1>4. p \in Int /\ P \in Int
  OBVIOUS
<1>5. ASSUME NEW q \in Nat, q >= Len(t)
      PROVE  q - Len(t) \in Nat /\ (Access(B, q) <=> Access(l, q - Len(t)))
  BY <1>1, <1>2, <1>5 DEF Joined
<1>6. ASSUME NEW q \in Nat, q < Len(t)
      PROVE  Access(B, q) <=> Access(t, q)
  BY <1>1, <1>2, <1>6 DEF Joined
<1>7. ASSUME NEW x \in BOOLEAN, p < Len(l)
      PROVE  t \o SetBit(l, p, x) = SetBit(B, P, x)
  <2>1. PICK s \in Seq(BOOLEAN) : s = SetBit(l, p, x) /\ Len(s) = Len(l)
    BY SetBitType
  <2>2. PICK w \in Seq(BOOLEAN) : w = SetBit(B, P, x) /\ Len(w) = Len(B)
    BY SetBitType
  <2>3. p \in 0..(Len(l) - 1) /\ P \in 0..(Len(B) - 1)
    BY <1>2, <1>7
  <2>4. \A q \in Nat : Access(s, q) <=> IF q = p THEN x ELSE Access(l, q)
    BY <2>1, <2>3, SetBitAccess
  <2>5. \A q \in Nat : Access(w, q) <=> IF q = P THEN x ELSE Access(B, q)
    BY <2>2, <2>3, SetBitAccess
  <2>6. ASSUME NEW q \in Nat
        PROVE  Access(w, q) <=> \/ q < Len(t) /\ Access(t, q)
                                \/ q >= Len(t) /\ Access(s, q - Len(t))
    <3>1. CASE q < Len(t)
      BY <1>2, <1>6, <2>5, <3>1
    <3>2. CASE q >= Len(t)
      <4>1. PICK r \in Nat : r = q - Len(t)
        BY <1>5, <3>2
      <4>2. (Access(B, q) <=> Access(l, r)) /\ (q = P <=> r = p)
        BY <1>2, <1>5, <3>2, <4>1
      <4> QED  BY <1>2, <2>4, <2>5, <3>2, <4>1, <4>2
    <3> QED  BY <1>2, <3>1, <3>2
  <2>7. Joined(w, t, s)
    BY <1>2, <2>1, <2>2, <2>6 DEF Joined
  <2> QED  BY <2>1, <2>2, <2>7, VectorJoined
<1>8. ASSUME p <= Len(l)
      PROVE  t \o InsertBlock(l, p) = InsertBlock(B, P)
  <2>1. PICK s \in Seq(BOOLEAN) : s = InsertBlock(l, p) /\ Len(s) = Len(l) + k
    BY <1>3, <1>4, InsertBlockType
  <2>2. PICK w \in Seq(BOOLEAN) : w = InsertBlock(B, P) /\ Len(w) = Len(B) + k
    BY <1>3, <1>4, InsertBlockType
  <2>3. p \in 0..Len(l) /\ P \in 0..Len(B)
    BY <1>2, <1>8
  <2>4. \A q \in Nat : Access(s, q) <=> \/ q < p /\ Access(l, q)
                                        \/ q >= p + k /\ Access(l, q - k)
    BY <1>3, <2>1, <2>3, InsertBlockAccess
  <2>5. \A q \in Nat : Access(w, q) <=> \/ q < P /\ Access(B, q)
                                        \/ q >= P + k /\ Access(B, q - k)
    BY <1>3, <2>2, <2>3, InsertBlockAccess
  <2>6. ASSUME NEW q \in Nat
        PROVE  Access(w, q) <=> \/ q < Len(t) /\ Access(t, q)
                                \/ q >= Len(t) /\ Access(s, q - Len(t))
    <3>1. CASE q < Len(t)
      BY <1>2, <1>3, <1>6, <2>5, <3>1
    <3>2. CASE q >= Len(t)
      <4>1. PICK r \in Nat : r = q - Len(t)
        BY <1>5, <3>2
      <4>2. (Access(B, q) <=> Access(l, r)) /\ (q < P <=> r < p) /\ (q >= P + k <=> r >= p + k)
        BY <1>2, <1>3, <1>5, <3>2, <4>1
      <4>3. CASE r >= p + k
        <5>1. PICK c \in Nat : c = q - k
          BY <1>2, <1>3, <4>1, <4>3
        <5>2. c >= Len(t) /\ c - Len(t) = r - k
          BY <1>2, <1>3, <4>1, <4>3, <5>1
        <5>3. Access(B, c) <=> Access(l, r - k)
          BY <1>5, <5>2
        <5> QED  BY <1>2, <1>3, <2>4, <2>5, <3>2, <4>1, <4>2, <4>3, <5>1, <5>3
      <4>4. CASE ~(r >= p + k)
        BY <1>2, <1>3, <2>4, <2>5, <3>2, <4>1, <4>2, <4>4
      <4> QED  BY <4>3, <4>4
    <3> QED  BY <1>2, <3>1, <3>2
  <2>7. Joined(w, t, s)
    BY <1>2, <1>3, <2>1, <2>2, <2>6 DEF Joined
  <2> QED  BY <2>1, <2>2, <2>7, VectorJoined
<1>9. ASSUME p + k <= Len(l)
      PROVE  t \o DeleteBlock(l, p) = DeleteBlock(B, P)
  <2>1. PICK s \in Seq(BOOLEAN) : s = DeleteBlock(l, p)
    BY <1>4, DeleteBlockType
  <2>2. PICK w \in Seq(BOOLEAN) : w = DeleteBlock(B, P)
    BY <1>4, DeleteBlockType
  <2>3. p + BLOCK_SIZE <= Len(l) /\ P + BLOCK_SIZE <= Len(B)
    BY <1>2, <1>3, <1>9
  <2>4. /\ Len(s) = Len(l) - k
        /\ \A q \in Nat : Access(s, q) <=> IF q < p THEN Access(l, q) ELSE Access(l, q + k)
    BY <1>3, <2>1, <2>3, DeleteBlockAccess
  <2>5. /\ Len(w) = Len(B) - k
        /\ \A q \in Nat : Access(w, q) <=> IF q < P THEN Access(B, q) ELSE Access(B, q + k)
    BY <1>3, <2>2, <2>3, DeleteBlockAccess
  <2>6. ASSUME NEW q \in Nat
        PROVE  Access(w, q) <=> \/ q < Len(t) /\ Access(t, q)
                                \/ q >= Len(t) /\ Access(s, q - Len(t))
    <3>1. CASE q < Len(t)
      BY <1>2, <1>3, <1>6, <2>5, <3>1
    <3>2. CASE q >= Len(t)
      <4>1. PICK r \in Nat : r = q - Len(t)
        BY <1>5, <3>2
      <4>2. (Access(B, q) <=> Access(l, r)) /\ (q < P <=> r < p)
        BY <1>2, <1>3, <1>5, <3>2, <4>1
      <4>3. PICK c \in Nat : c = q + k
        BY <1>3
      <4>4. c >= Len(t) /\ c - Len(t) = r + k
        BY <1>2, <1>3, <3>2, <4>1, <4>3
      <4>5. Access(B, c) <=> Access(l, r + k)
        BY <1>5, <4>4
      <4> QED  BY <1>2, <1>3, <2>4, <2>5, <3>2, <4>1, <4>2, <4>3, <4>5
    <3> QED  BY <1>2, <3>1, <3>2
  <2>7. Joined(w, t, s)
    BY <1>2, <1>3, <1>9, <2>4, <2>5, <2>6 DEF Joined
  <2> QED  BY <2>1, <2>2, <2>7, VectorJoined
<1> QED
  BY <1>1, <1>3, <1>7, <1>8, <1>9
-----------------------------------------------------------------------------
(* A new tree, and blocks that come and go.                                *)

\* Positions are numbers.
LEMMA AtPosition == \A x \in Nat, o \in Offsets : At(x) \in Nat /\ At(x) + o \in Nat
<1> SUFFICES ASSUME NEW x \in Nat, NEW o \in Offsets
             PROVE  At(x) \in Nat /\ At(x) + o \in Nat
  OBVIOUS
<1>1. o \in Nat
  BY BlockSize DEF Offsets
<1> QED
  BY <1>1, AtOrder

\* A position is before a block if its own block is.
LEMMA AtBefore ==
  \A x \in Nat, y \in Nat, o \in Offsets :
    (At(x) + o < At(y) <=> x < y) /\ (At(x) + o >= At(y) <=> x >= y)
<1> SUFFICES ASSUME NEW x \in Nat, NEW y \in Nat, NEW o \in Offsets
             PROVE  (At(x) + o < At(y) <=> x < y) /\ (At(x) + o >= At(y) <=> x >= y)
  OBVIOUS
<1>1. BLOCK_SIZE \in Nat /\ o \in 0..(BLOCK_SIZE - 1)
  BY BlockSize DEF Offsets
<1>2. At(x) \in Nat /\ At(y) \in Nat
  BY AtOrder
<1>3. x < y => At(x) + BLOCK_SIZE <= At(y)
  BY AtOrder
<1>4. x >= y => At(y) <= At(x)
  BY AtOrder
<1> QED
  BY <1>1, <1>2, <1>3, <1>4

\* A position is in one block, at one offset.
LEMMA AtSame ==
  \A x \in Nat, y \in Nat, o \in Offsets, p \in Offsets :
    At(x) + o = At(y) + p <=> x = y /\ o = p
<1> SUFFICES ASSUME NEW x \in Nat, NEW y \in Nat, NEW o \in Offsets, NEW p \in Offsets
             PROVE  At(x) + o = At(y) + p <=> x = y /\ o = p
  OBVIOUS
<1>1. BLOCK_SIZE \in Nat /\ o \in 0..(BLOCK_SIZE - 1) /\ p \in 0..(BLOCK_SIZE - 1)
  BY BlockSize DEF Offsets
<1>2. At(x) \in Nat /\ At(y) \in Nat
  BY AtOrder
<1>3. x < y => At(x) + BLOCK_SIZE <= At(y)
  BY AtOrder
<1>4. y < x => At(y) + BLOCK_SIZE <= At(x)
  BY AtOrder
<1>5. CASE x < y
  BY <1>1, <1>2, <1>3, <1>5
<1>6. CASE y < x
  BY <1>1, <1>2, <1>4, <1>6
<1>7. CASE x = y
  BY <1>1, <1>2, <1>7
<1> QED
  BY <1>5, <1>6, <1>7

\* The root block alone is a matrix of any height, and holds no edge.
LEMMA RootMapped ==
  ASSUME NEW B \in Seq(BOOLEAN), Len(B) = BLOCK_SIZE, \A o \in Offsets : ~Access(B, o),
         NEW H \in Nat, H >= 2,
         NEW part, part = [x \in 0..0 |-> Whole]
  PROVE  Mapped(B, 1, 1, H, part) /\ Edges(B, 1, H, part) = {}
<1>1. At(0) = 0 /\ At(1) = BLOCK_SIZE
  BY AtOrder, BlockSize DEF At
<1>2. \A o \in Offsets : ~Bit(B, 0, o)
  <2>1. \A o \in Offsets : 0 + o = o
    BY BlockSize DEF Offsets
  <2> QED  BY <1>1, <2>1 DEF Bit
<1>3. Whole \in Parts /\ Whole.level = 0
  BY DEF Whole, Part, Parts
<1>4. 0..(1 - 1) = {0} /\ 0..0 = {0}
  OBVIOUS
<1>5. Named(1, 1, H, part)
  BY <1>3, <1>4 DEF Named
<1>6. Led(B, 1, 1, part)
  <2>1. 1..(1 - 1) = {}
    OBVIOUS
  <2> QED  BY <1>2, <1>4, <2>1 DEF Led
<1>7. Mapped(B, 1, 1, H, part)
  BY <1>1, <1>5, <1>6 DEF Mapped
<1>8. ASSUME NEW e \in Edges(B, 1, H, part) PROVE FALSE
  <2>1. e \in Cells /\ H \in 1..H
    BY DEF Edges
  <2>2. Off(H, e, H) \in Offsets
    BY <2>1, CutStep
  <2> QED  BY <1>2, <1>4, <2>2 DEF Edges
<1> QED
  BY <1>7, <1>8

\* The number block x has when a block n has been put among the blocks.
Moved(n, x) == IF x < n THEN x ELSE x + 1

\* W is B with a block n of zeros, the child of a new 1 at offset o of block c.
Sprouts(B, N, c, o, n, W) ==
  /\ N \in Nat /\ n \in 1..N /\ c \in 0..(n - 1) /\ o \in Offsets
  /\ B \in Seq(BOOLEAN) /\ Len(B) = At(N) /\ W \in Seq(BOOLEAN) /\ Len(W) = At(N + 1)
  /\ ~Bit(B, c, o) /\ Child(W, c, o) = n
  /\ \A y \in Offsets : ~Bit(W, n, y)
  /\ \A x \in 0..(N - 1), y \in Offsets :
       Bit(W, Moved(n, x), y) <=> Bit(B, x, y) \/ (x = c /\ y = o)
  /\ \A x \in 0..(N - 1), y \in Offsets :
       Bit(B, x, y) => Child(W, Moved(n, x), y) = Moved(n, Child(B, x, y))

\* Blocks keep their order when another one is put among them.
LEMMA MovedBlocks ==
  ASSUME NEW N \in Nat, NEW n \in 0..N
  PROVE  /\ \A x \in 0..(N - 1) : Moved(n, x) \in 0..N /\ Moved(n, x) # n
         /\ \A x \in Nat, y \in Nat : Moved(n, x) = Moved(n, y) => x = y
         /\ \A y \in 0..N : y # n => \E x \in 0..(N - 1) : Moved(n, x) = y
<1>1. ASSUME NEW y \in 0..N, y # n PROVE \E x \in 0..(N - 1) : Moved(n, x) = y
  <2>1. CASE y < n
    BY <2>1 DEF Moved
  <2>2. CASE y > n
    <3>1. y - 1 \in 0..(N - 1) /\ ~(y - 1 < n) /\ (y - 1) + 1 = y
      BY <2>2
    <3> QED  BY <3>1 DEF Moved
  <2> QED  BY <1>1, <2>1, <2>2
<1> QED
  BY <1>1 DEF Moved

\* What addEdge does: it sets a 0, and puts a block of zeros where the rank of
\* the new 1 leads to.
LEMMA BlockSprouts ==
  ASSUME NEW N \in Nat, NEW B \in Seq(BOOLEAN), Len(B) = At(N),
         NEW n \in 1..N, NEW c \in 0..(n - 1), NEW o \in Offsets,
         ~Bit(B, c, o), Child(B, c, o) + 1 = n,
         NEW W, W = SetBit(InsertBlock(B, At(n)), At(c) + o, TRUE)
  PROVE  Sprouts(B, N, c, o, n, W)
<1>1. PICK k \in Nat : k = BLOCK_SIZE /\ k >= 4
  BY BlockSize
<1>a. n \in Nat /\ c \in Nat /\ c < n /\ n <= N
  OBVIOUS
<1>2. PICK P \in Nat : P = At(c) + o
  BY <1>a, AtPosition
<1>3. /\ n \in Nat /\ c \in Nat /\ N - 1 \in Int
      /\ At(n) \in Nat /\ At(n) \in Int /\ At(N) \in Nat /\ At(n) <= At(N) /\ P < At(n)
  BY <1>a, <1>2, AtBefore, AtOrder
<1>4. At(N + 1) = At(N) + k
  BY <1>1, AtNext
<1>5. PICK I \in Seq(BOOLEAN) : I = InsertBlock(B, At(n)) /\ Len(I) = Len(B) + k
  BY <1>1, <1>3, InsertBlockType
<1>6. At(n) \in 0..Len(B) /\ P \in 0..(Len(I) - 1)
  BY <1>1, <1>3, <1>5
<1>7. W = SetBit(I, P, TRUE) /\ W \in Seq(BOOLEAN) /\ Len(W) = At(N + 1)
  BY <1>2, <1>4, <1>5, SetBitType
<1>8. \A q \in Nat : Access(I, q) <=> \/ q < At(n) /\ Access(B, q)
                                      \/ q >= At(n) + k /\ Access(B, q - k)
  BY <1>1, <1>5, <1>6, InsertBlockAccess
<1>9. \A q \in Nat : Access(W, q) <=> q = P \/ Access(I, q)
  BY <1>6, <1>7, SetBitAccess
<1>10. ~Access(B, P) /\ ~Access(I, P)
  BY <1>1, <1>2, <1>3, <1>8 DEF Bit
<1>11. \A q \in Nat : Rank1(W, q) = Rank1(I, q) + (IF P < q THEN 1 ELSE 0)
  BY <1>6, <1>7, <1>10, RankSetBit
<1>12. \A q \in Nat : /\ q <= At(n) => Rank1(I, q) = Rank1(B, q)
                      /\ q >= At(n) => Rank1(I, q + k) = Rank1(B, q)
  BY <1>1, <1>5, <1>6, RankInsertBlock
<1>13. Rank1(B, P + 1) = n - 1
  <2>1. Child(B, c, o) = Rank1(B, P + 1) /\ Rank1(B, P + 1) \in Nat
    BY <1>2, Rank1Type DEF Child
  <2> QED  BY <2>1
<1>14. Child(W, c, o) = n
  <2>1. P + 1 \in Nat /\ P + 1 <= At(n) /\ P < P + 1
    BY <1>3
  <2>2. Rank1(W, P + 1) = (n - 1) + 1
    BY <1>11, <1>12, <1>13, <2>1
  <2>3. (n - 1) + 1 = n
    BY <1>3
  <2>4. Child(W, c, o) = Rank1(W, P + 1)
    BY <1>2 DEF Child
  <2> QED  BY <2>2, <2>3, <2>4
<1>15. ASSUME NEW y \in Offsets PROVE ~Bit(W, n, y)
  <2>1. PICK q \in Nat : q = At(n) + y
    BY <1>a, AtPosition
  <2>2. q >= At(n) /\ q < At(n) + k /\ q # P
    BY <1>1, <1>3, <2>1 DEF Offsets
  <2>3. ~(q < At(n)) /\ ~(q >= At(n) + k)
    BY <1>1, <1>3, <2>2
  <2>4. ~Access(W, q)
    BY <1>8, <1>9, <2>2, <2>3
  <2> QED  BY <2>1, <2>4 DEF Bit
<1>16. ASSUME NEW x \in 0..(N - 1), NEW y \in Offsets
       PROVE  /\ Bit(W, Moved(n, x), y) <=> Bit(B, x, y) \/ (x = c /\ y = o)
              /\ Bit(B, x, y) => Child(W, Moved(n, x), y) = Moved(n, Child(B, x, y))
  <2>a. x \in Nat /\ n \in Nat /\ c \in Nat
    BY <1>3
  <2>1. PICK q \in Nat : q = At(x) + y
    BY <2>a, AtPosition
  <2>b. At(x) + y < At(n) <=> x < n
    BY <2>a, AtBefore
  <2>c. At(x) + y = At(c) + o <=> x = c /\ y = o
    BY <2>a, AtSame
  <2>d. At(x + 1) = At(x) + BLOCK_SIZE /\ At(x) \in Nat /\ y \in Nat
    <3>1. y \in Nat
      BY BlockSize DEF Offsets
    <3>2. At(x) \in Nat /\ At(x + 1) = At(x) + BLOCK_SIZE
      BY <2>a, AtNext
    <3> QED  BY <3>1, <3>2
  <2>2. /\ q < At(n) <=> x < n
        /\ At(x + 1) + y = q + k
        /\ q = P <=> x = c /\ y = o
    BY <1>1, <1>2, <2>1, <2>b, <2>c, <2>d
  <2>3. Rank1(B, q + 1) \in Nat /\ Child(B, x, y) = Rank1(B, q + 1)
    BY <2>1, Rank1Type DEF Child
  <2>4. q < P => Rank1(B, q + 1) <= n - 1
    BY <1>13, RankGrows
  <2>5. q > P /\ Access(B, q) => Rank1(B, q + 1) >= n
    <3>1. P + 1 \in Nat /\ (q > P => P + 1 <= q) /\ q < q + 1 /\ q + 1 \in Nat
      OBVIOUS
    <3>2. q > P => n - 1 <= Rank1(B, q)
      BY <1>13, <3>1, RankGrows
    <3>3. Access(B, q) => Rank1(B, q) < Rank1(B, q + 1)
      BY <3>1, RankGrows
    <3>4. Rank1(B, q) \in Nat
      BY Rank1Type
    <3> QED  BY <2>3, <3>2, <3>3, <3>4
  <2>6. CASE x < n
    <3>1. Moved(n, x) = x /\ q < At(n)
      BY <2>2, <2>6 DEF Moved
    <3>a. ~(q >= At(n) + k)
      BY <1>1, <1>3, <3>1
    <3>2. Access(W, q) <=> Access(B, q) \/ (x = c /\ y = o)
      BY <1>8, <1>9, <2>2, <3>1, <3>a
    <3>3. Bit(W, x, y) <=> Bit(B, x, y) \/ (x = c /\ y = o)
      BY <2>1, <3>2 DEF Bit
    <3>4. ASSUME Bit(B, x, y) PROVE Child(W, x, y) = Moved(n, Child(B, x, y))
      <4>1. Access(B, q) /\ q # P
        BY <1>10, <2>1, <3>4 DEF Bit
      <4>2. q + 1 \in Nat /\ q + 1 <= At(n)
        BY <1>3, <3>1
      <4>3. Rank1(W, q + 1) = Rank1(B, q + 1) + (IF P < q + 1 THEN 1 ELSE 0)
        BY <1>11, <1>12, <4>2
      <4>4. CASE q < P
        <5>1. Rank1(B, q + 1) < n /\ ~(P < q + 1)
          BY <2>3, <2>4, <4>4
        <5>2. Rank1(W, q + 1) = Rank1(B, q + 1)
          <6>1. PICK r \in Nat : r = Rank1(B, q + 1)
            BY <2>3
          <6>2. Rank1(W, q + 1) = r + 0
            BY <4>3, <5>1, <6>1
          <6>3. r + 0 = r
            OBVIOUS
          <6> QED  BY <6>1, <6>2, <6>3, Zenon
        <5> QED  BY <2>1, <2>3, <5>1, <5>2 DEF Moved, Child
      <4>5. CASE q > P
        <5>1. ~(Rank1(B, q + 1) < n) /\ P < q + 1
          BY <2>3, <2>5, <4>1, <4>5
        <5>2. Rank1(W, q + 1) = Rank1(B, q + 1) + 1
          BY <2>3, <4>3, <5>1
        <5> QED  BY <2>1, <2>3, <5>1, <5>2 DEF Moved, Child
      <4>6. q < P \/ q > P
        BY <4>1
      <4> QED  BY <4>4, <4>5, <4>6
    <3> QED  BY <3>1, <3>3, <3>4
  <2>7. CASE ~(x < n)
    <3>1. Moved(n, x) = x + 1 /\ q >= At(n) /\ q > P /\ q + k > P
      BY <1>1, <1>3, <2>2, <2>7 DEF Moved
    <3>2. PICK r \in Nat : r = q + k /\ r - k = q /\ r >= At(n) + k /\ r # P /\ ~(r < At(n))
      BY <1>1, <1>3, <3>1
    <3>3. At(x + 1) + y = r /\ x # c
      BY <2>2, <2>7, <3>2
    <3>4. Access(W, r) <=> Access(B, q)
      BY <1>8, <1>9, <3>2
    <3>5. Bit(W, x + 1, y) <=> Bit(B, x, y)
      BY <2>1, <3>3, <3>4 DEF Bit
    <3>6. ASSUME Bit(B, x, y) PROVE Child(W, x + 1, y) = Child(B, x, y) + 1
      <4>1. q + 1 \in Nat /\ q + 1 >= At(n) /\ (q + 1) + k = r + 1 /\ r + 1 \in Nat /\ P < r + 1
        BY <1>1, <1>3, <3>1, <3>2
      <4>2. Rank1(I, r + 1) = Rank1(B, q + 1)
        BY <1>12, <4>1
      <4>3. Rank1(W, r + 1) = Rank1(B, q + 1) + 1
        BY <1>11, <4>1, <4>2
      <4> QED  BY <2>3, <3>3, <4>3 DEF Child
    <3>7. Bit(B, x, y) => ~(Child(B, x, y) < n)
      <4>1. Bit(B, x, y) => Access(B, q)
        BY <2>1 DEF Bit
      <4> QED  BY <2>3, <2>5, <3>1, <4>1
    <3>8. Bit(B, x, y) => Moved(n, Child(B, x, y)) = Child(B, x, y) + 1
      BY <3>7 DEF Moved
    <3> QED  BY <3>1, <3>3, <3>5, <3>6, <3>8
  <2> QED  BY <2>6, <2>7
<1> QED
  BY <1>7, <1>14, <1>15, <1>16 DEF Sprouts

\* What removeEdge and deleteEntry do: they delete a block of zeros, and clear the
\* 1 that led to it.
LEMMA BlockWithers ==
  ASSUME NEW N \in Nat, NEW W \in Seq(BOOLEAN), Len(W) = At(N + 1),
         NEW n \in 1..N, NEW c \in 0..(n - 1), NEW o \in Offsets,
         Bit(W, c, o), Child(W, c, o) = n, OnlyZeros(W, At(n)),
         NEW B, B = SetBit(DeleteBlock(W, At(n)), At(c) + o, FALSE)
  PROVE  Sprouts(B, N, c, o, n, W)
<1>a. n \in Nat /\ c \in Nat /\ c < n /\ n <= N
  OBVIOUS
<1>1. PICK k \in Nat : k = BLOCK_SIZE /\ k >= 4
  BY BlockSize
<1>2. PICK P \in Nat : P = At(c) + o
  BY <1>a, AtPosition
<1>3. /\ At(n) \in Nat /\ At(n) \in Int /\ At(N) \in Nat /\ At(n) <= At(N) /\ P < At(n)
      /\ At(N + 1) = At(N) + k
  <2>1. At(n) \in Nat /\ At(N) \in Nat /\ At(n) <= At(N)
    BY <1>a, AtOrder
  <2>2. At(c) + o < At(n)
    BY <1>a, AtBefore
  <2>3. At(N + 1) = At(N) + k
    BY <1>1, AtNext
  <2> QED  BY <1>2, <2>1, <2>2, <2>3
<1>4. At(n) + k <= Len(W)
  BY <1>3
<1>5. PICK D \in Seq(BOOLEAN) : D = DeleteBlock(W, At(n))
  BY <1>3, DeleteBlockType
<1>6. /\ Len(D) = Len(W) - k
      /\ \A q \in Nat : Access(D, q) <=> IF q < At(n) THEN Access(W, q) ELSE Access(W, q + k)
  BY <1>1, <1>3, <1>4, <1>5, DeleteBlockAccess
<1>7. Len(D) = At(N) /\ P \in 0..(Len(D) - 1)
  BY <1>1, <1>3, <1>6
<1>8. B = SetBit(D, P, FALSE) /\ B \in Seq(BOOLEAN) /\ Len(B) = At(N)
  BY <1>2, <1>5, <1>7, SetBitType
<1>9. \A q \in Nat : Access(B, q) <=> q # P /\ Access(D, q)
  <2>1. \A q \in Nat : Access(B, q) <=> IF q = P THEN FALSE ELSE Access(D, q)
    <3>1. \A x \in BOOLEAN, q \in Nat :
            Access(SetBit(D, P, x), q) <=> IF q = P THEN x ELSE Access(D, q)
      BY <1>7, SetBitAccess
    <3> QED  BY <1>8, <3>1
  <2> QED  BY <2>1
<1>10. Access(W, P) /\ Access(D, P)
  BY <1>2, <1>3, <1>6 DEF Bit
<1>11. ~Bit(B, c, o)
  BY <1>2, <1>9 DEF Bit
<1>12. Child(B, c, o) + 1 = n
  <2>1. P + 1 \in Nat /\ P + 1 <= At(n) /\ P < P + 1
    BY <1>3
  <2>2. Rank1(D, P + 1) = Rank1(W, P + 1)
    BY <1>1, <1>3, <1>4, <1>5, <2>1, RankDeleteBlock
  <2>3. Rank1(B, P + 1) = Rank1(D, P + 1) - 1
    <3>1. Rank1(B, P + 1) = Rank1(D, P + 1) + (-1)
      BY <1>7, <1>8, <1>10, <2>1, RankSetBit
    <3>2. Rank1(D, P + 1) \in Nat
      BY <1>5, Rank1Type
    <3> QED  BY <3>1, <3>2
  <2>4. Rank1(W, P + 1) = n
    BY <1>2 DEF Child
  <2>5. Child(B, c, o) = Rank1(B, P + 1)
    BY <1>2 DEF Child
  <2>6. Child(B, c, o) = n - 1
    BY <2>2, <2>3, <2>4, <2>5
  <2>7. (n - 1) + 1 = n
    OBVIOUS
  <2> QED  BY <2>6, <2>7, Zenon
<1>13. W = SetBit(InsertBlock(B, At(n)), At(c) + o, TRUE)
  <2>1. PICK I \in Seq(BOOLEAN) : I = InsertBlock(B, At(n)) /\ Len(I) = Len(B) + k
    BY <1>1, <1>3, <1>8, InsertBlockType
  <2>a. Len(B) = At(N) /\ Len(I) = At(N) + k
    BY <1>8, <2>1
  <2>b. At(n) \in 0..Len(B)
    <3>1. At(n) \in 0..At(N)
      BY <1>3
    <3> QED  BY <2>a, <3>1, Zenon
  <2>c. P \in 0..(Len(I) - 1)
    BY <1>1, <1>3, <2>a
  <2>2. At(n) \in 0..Len(B) /\ P \in 0..(Len(I) - 1)
    BY <2>b, <2>c
  <2>3. PICK V \in Seq(BOOLEAN) : V = SetBit(I, P, TRUE) /\ Len(V) = Len(I)
    BY <2>1, SetBitType
  <2>4. \A q \in Nat : Access(I, q) <=> \/ q < At(n) /\ Access(B, q)
                                        \/ q >= At(n) + k /\ Access(B, q - k)
    BY <1>1, <1>8, <2>1, <2>2, InsertBlockAccess
  <2>5. \A q \in Nat : Access(V, q) <=> q = P \/ Access(I, q)
    BY <2>2, <2>3, SetBitAccess
  <2>6. Len(V) = Len(W)
    BY <1>3, <1>8, <2>1, <2>3
  <2>7. ASSUME NEW q \in Nat PROVE Access(V, q) <=> Access(W, q)
    <3>1. CASE q < At(n)
      <4>1. ~(q >= At(n) + k)
        BY <1>1, <1>3, <3>1
      <4>2. Access(I, q) <=> q # P /\ Access(W, q)
        BY <1>6, <1>9, <2>4, <3>1, <4>1
      <4> QED  BY <1>10, <2>5, <4>2
    <3>2. CASE q >= At(n) + k
      <4>1. PICK r \in Nat : r = q - k
        BY <1>1, <1>3, <3>2
      <4>2. /\ ~(q < At(n)) /\ ~(r < At(n)) /\ r # P /\ q # P /\ r + k = q
        BY <1>1, <1>3, <3>2, <4>1
      <4>3. Access(I, q) <=> Access(B, r)
        BY <2>4, <3>2, <4>1, <4>2
      <4>4. Access(B, r) <=> Access(W, q)
        BY <1>6, <1>9, <4>2
      <4> QED  BY <2>5, <4>2, <4>3, <4>4
    <3>3. CASE q >= At(n) /\ ~(q >= At(n) + k)
      <4>1. ~(q < At(n)) /\ q # P
        BY <1>3, <3>3
      <4>2. ~Access(V, q)
        BY <2>4, <2>5, <3>3, <4>1
      <4>3. PICK i \in 0..(BLOCK_SIZE - 1) : At(n) + i = q
        <5>1. q - At(n) \in 0..(BLOCK_SIZE - 1) /\ At(n) + (q - At(n)) = q
          BY <1>1, <1>3, <3>3
        <5> QED  BY <5>1
      <4> QED  BY <4>2, <4>3 DEF OnlyZeros
    <3> QED  BY <1>3, <3>1, <3>2, <3>3
  <2>8. V = W
    BY <2>6, <2>7, SameVector
  <2> QED  BY <1>2, <2>1, <2>3, <2>8
<1> QED
  BY <1>8, <1>11, <1>12, <1>13, BlockSprouts

\* q is part, with l for one more block n.
PutAt(N, n, part, l, q) ==
  /\ q \in [0..N -> Parts] /\ q[n] = l
  /\ \A x \in 0..(N - 1) : q[Moved(n, x)] = part[x]

\* There is such a q.
LEMMA PartSprouts ==
  ASSUME NEW N \in Nat, NEW n \in 0..N, NEW part \in [0..(N - 1) -> Parts], NEW l \in Parts
  PROVE  \E q : PutAt(N, n, part, l, q)
<1> DEFINE q == [y \in 0..N |-> IF y = n THEN l ELSE part[IF y < n THEN y ELSE y - 1]]
<1>1. ASSUME NEW y \in 0..N PROVE q[y] \in Parts
  BY DEF Parts
<1>2. ASSUME NEW x \in 0..(N - 1) PROVE q[Moved(n, x)] = part[x]
  <2>1. CASE x < n
    BY <2>1 DEF Moved
  <2>2. CASE ~(x < n)
    <3>1. Moved(n, x) = x + 1 /\ x + 1 \in 0..N /\ x + 1 # n /\ ~(x + 1 < n) /\ (x + 1) - 1 = x
      BY <2>2 DEF Moved
    <3> QED  BY <3>1
  <2> QED  BY <2>1, <2>2
<1>3. q \in [0..N -> Parts]
  BY <1>1
<1>4. q[n] = l
  OBVIOUS
<1> HIDE DEF q
<1> QED
  BY <1>2, <1>3, <1>4 DEF PutAt

\* q names the partitions of the blocks of W, and those of the blocks of B as part does.
SproutsPart(B, m, N, H, part, c, o, n, W, M, q) ==
  /\ Mapped(B, m, N, H, part) /\ Sprouts(B, N, c, o, n, W) /\ c < m
  /\ \/ part[c].level = H - 2 /\ n >= m /\ M = m
     \/ part[c].level < H - 2 /\ n <= m /\ M = m + 1
  /\ q \in [0..N -> Parts] /\ q[n] = Sub(part[c], o)
  /\ \A x \in 0..(N - 1) : q[Moved(n, x)] = part[x]

\* The block that sprouts is a part of the partition of its 1.
LEMMA MappedSprouts ==
  ASSUME NEW B, NEW m, NEW N, NEW H, NEW part, NEW c, NEW o, NEW n, NEW W, NEW M, NEW q,
         SproutsPart(B, m, N, H, part, c, o, n, W, M, q)
  PROVE  /\ Mapped(W, M, N + 1, H, q)
         /\ Edges(W, N + 1, H, q) = Edges(B, N, H, part)
<1> Mapped(B, m, N, H, part) /\ Sprouts(B, N, c, o, n, W) /\ c < m
  BY DEF SproutsPart
<1> \/ part[c].level = H - 2 /\ n >= m /\ M = m
    \/ part[c].level < H - 2 /\ n <= m /\ M = m + 1
  BY DEF SproutsPart
<1> q \in [0..N -> Parts] /\ q[n] = Sub(part[c], o)
  BY DEF SproutsPart
<1> \A x \in 0..(N - 1) : q[Moved(n, x)] = part[x]
  BY DEF SproutsPart
<1>1. /\ B \in Seq(BOOLEAN) /\ H \in Nat /\ H >= 2
      /\ N \in Nat /\ m \in 1..N /\ Len(B) = At(N)
      /\ Named(m, N, H, part) /\ Led(B, m, N, part)
  BY DEF Mapped
<1>2. /\ n \in 1..N /\ c \in 0..(n - 1) /\ o \in Offsets /\ c \in 0..(N - 1)
      /\ W \in Seq(BOOLEAN) /\ Len(W) = At(N + 1)
      /\ ~Bit(B, c, o) /\ Child(W, c, o) = n
      /\ \A y \in Offsets : ~Bit(W, n, y)
  BY <1>1 DEF Sprouts
<1>3. \A x \in 0..(N - 1), y \in Offsets :
        /\ Bit(W, Moved(n, x), y) <=> Bit(B, x, y) \/ (x = c /\ y = o)
        /\ Bit(B, x, y) => Child(W, Moved(n, x), y) = Moved(n, Child(B, x, y))
  BY DEF Sprouts
<1>4. /\ \A x \in 0..(N - 1) : Moved(n, x) \in 0..N /\ Moved(n, x) # n
      /\ \A x \in Nat, y \in Nat : Moved(n, x) = Moved(n, y) => x = y
      /\ \A y \in 0..N : y # n => \E x \in 0..(N - 1) : Moved(n, x) = y
  <2>1. n \in 0..N
    BY <1>2
  <2> QED  BY <1>1, <2>1, MovedBlocks
<1>5. \A x \in 0..(N - 1) : part[x] \in Parts
  BY <1>1 DEF Named
<1>6. Sub(part[c], o) \in Parts /\ Sub(part[c], o).level = part[c].level + 1
  BY <1>2, <1>5, SubType
<1>7. n \in 0..N /\ q[n] = Sub(part[c], o)
  BY <1>2
<1>8. \A x \in 0..(N - 1) : q[Moved(n, x)] = part[x]
  OBVIOUS
<1>9. Moved(n, c) = c /\ Moved(n, 0) = 0 /\ 0 \in 0..(N - 1)
  BY <1>1, <1>2 DEF Moved
<1>10. \A x \in 0..(N - 1) : part[x] # Sub(part[c], o)
  BY <1>2, OnlyChild
<1>11. \A y \in 0..N : y = n \/ \E x \in 0..(N - 1) : y = Moved(n, x)
  BY <1>4
<1>12. Named(M, N + 1, H, q)
  <2>1. (N + 1) - 1 = N
    BY <1>1
  <2>2. q \in [0..N -> Parts]
    OBVIOUS
  <2>3. q[0] = Whole
    BY <1>1, <1>8, <1>9 DEF Named
  <2>4. ASSUME NEW x \in 0..N, NEW y \in 0..N, q[x] = q[y] PROVE x = y
    <3>1. \A u, v \in 0..(N - 1) : part[u] = part[v] => u = v
      BY <1>1 DEF Named
    <3>a. \A u \in 0..(N - 1) : q[Moved(n, u)] # q[n]
      BY <1>8, <1>10
    <3>2. CASE x = n \/ y = n
      BY <1>11, <2>4, <3>2, <3>a
    <3>3. CASE x # n /\ y # n
      <4>1. PICK u \in 0..(N - 1) : x = Moved(n, u)
        BY <1>11, <3>3
      <4>2. PICK v \in 0..(N - 1) : y = Moved(n, v)
        BY <1>11, <3>3
      <4>3. part[u] = part[v]
        BY <1>8, <2>4, <4>1, <4>2
      <4> QED  BY <3>1, <4>1, <4>2, <4>3
    <3> QED  BY <3>2, <3>3
  <2>5. ASSUME NEW x \in 0..N
        PROVE  q[x].level < H /\ (x >= M <=> q[x].level = H - 1)
    <3>1. CASE x = n
      <4>1. PICK d \in Nat : d = part[c].level
        BY <1>2, <1>5 DEF Parts
      <4>2. q[x].level = d + 1
        BY <1>6, <1>7, <3>1, <4>1
      <4>3. \/ d = H - 2 /\ n >= M
            \/ d < H - 2 /\ ~(n >= M)
        BY <1>1, <1>2, <4>1
      <4> QED  BY <1>1, <3>1, <4>2, <4>3
    <3>2. CASE x # n
      <4>1. PICK u \in 0..(N - 1) : x = Moved(n, u)
        BY <1>11, <3>2
      <4>2. q[x] = part[u] /\ part[u].level < H /\ (u >= m <=> part[u].level = H - 1)
        BY <1>1, <1>8, <4>1 DEF Named
      <4>3. x >= M <=> u >= m
        BY <1>1, <1>2, <4>1 DEF Moved
      <4> QED  BY <4>2, <4>3
    <3> QED  BY <3>1, <3>2
  <2> QED  BY <2>1, <2>2, <2>3, <2>4, <2>5 DEF Named
<1>13. M \in 1..(N + 1) /\ \A x \in 0..(N - 1) : Moved(n, x) < M <=> x < m
  <2>1. M \in 1..(N + 1)
    BY <1>1
  <2>2. ASSUME NEW x \in 0..(N - 1) PROVE Moved(n, x) < M <=> x < m
    BY <1>1, <1>2 DEF Moved
  <2> QED  BY <2>1, <2>2
<1>14. Led(W, M, N + 1, q)
  <2>1. (N + 1) - 1 = N
    BY <1>1
  <2>2. ASSUME NEW x \in 0..(M - 1), NEW y \in Offsets, Bit(W, x, y)
        PROVE  Child(W, x, y) \in 1..N /\ q[Child(W, x, y)] = Sub(q[x], y)
    <3>1. x \in 0..N /\ x # n
      BY <1>1, <1>2, <1>13, <2>2
    <3>2. PICK u \in 0..(N - 1) : x = Moved(n, u)
      BY <1>11, <3>1
    <3>a. Moved(n, u) < M
      BY <1>1, <1>13, <3>2
    <3>b. u < m
      BY <1>13, <3>a
    <3>3. u \in 0..(m - 1) /\ q[x] = part[u]
      BY <1>1, <1>8, <3>2, <3>b
    <3>4. CASE u = c /\ y = o
      BY <1>2, <1>7, <1>9, <3>2, <3>3, <3>4
    <3>5. CASE ~(u = c /\ y = o)
      <4>1. Bit(B, u, y) /\ Child(W, x, y) = Moved(n, Child(B, u, y))
        BY <1>3, <2>2, <3>2, <3>5
      <4>2. Child(B, u, y) \in 1..(N - 1) /\ part[Child(B, u, y)] = Sub(part[u], y)
        BY <1>1, <3>3, <4>1 DEF Led
      <4>3. Moved(n, Child(B, u, y)) \in 1..N
        BY <1>1, <1>2, <4>2 DEF Moved
      <4>a. Child(B, u, y) \in 0..(N - 1)
        BY <1>1, <4>2
      <4>4. q[Moved(n, Child(B, u, y))] = part[Child(B, u, y)]
        BY <1>8, <4>a
      <4> QED  BY <3>3, <4>1, <4>2, <4>3, <4>4
    <3> QED  BY <3>4, <3>5
  <2>3. ASSUME NEW y \in 1..N
        PROVE  \E x \in 0..(M - 1), p \in Offsets : Bit(W, x, p) /\ Child(W, x, p) = y
    <3>1. CASE y = n
      <4>1. c \in 0..(M - 1)
        BY <1>1, <1>2, <1>9, <1>13
      <4>2. Bit(W, c, o)
        BY <1>2, <1>3, <1>9
      <4> QED  BY <1>2, <3>1, <4>1, <4>2
    <3>2. CASE y # n
      <4>1. y \in 0..N
        BY <1>1
      <4>2. PICK z \in 0..(N - 1) : y = Moved(n, z)
        BY <1>11, <3>2, <4>1
      <4>3. z \in 1..(N - 1)
        BY <1>1, <1>2, <4>2 DEF Moved
      <4>4. PICK x \in 0..(m - 1), p \in Offsets : Bit(B, x, p) /\ Child(B, x, p) = z
        BY <1>1, <4>3 DEF Led
      <4>5. x \in 0..(N - 1)
        BY <1>1
      <4>6. Bit(W, Moved(n, x), p) /\ Child(W, Moved(n, x), p) = y
        BY <1>3, <4>2, <4>4, <4>5
      <4>7. Moved(n, x) \in 0..(M - 1)
        BY <1>1, <1>4, <1>13, <4>4, <4>5
      <4> QED  BY <4>6, <4>7
    <3> QED  BY <3>1, <3>2
  <2> QED  BY <2>1, <2>2, <2>3 DEF Led
<1>15. Mapped(W, M, N + 1, H, q)
  BY <1>1, <1>2, <1>12, <1>13, <1>14 DEF Mapped
<1>16. ASSUME NEW e \in Cells, NEW x \in 0..(N - 1), part[x] = Cut(H, e, H - 1)
       PROVE  Bit(W, Moved(n, x), Off(H, e, H)) <=> Bit(B, x, Off(H, e, H))
  <2>1. H \in 1..H
    BY <1>1
  <2>2. Off(H, e, H) \in Offsets
    BY <1>1, <2>1, CutStep
  <2>3. part[x].level = H - 1
    BY <1>16 DEF Cut, Part
  <2>4. x # c
    BY <1>1, <1>2, <2>3 DEF Named
  <2> QED  BY <1>3, <2>2, <2>4
<1>17. Edges(W, N + 1, H, q) = Edges(B, N, H, part)
  <2>1. (N + 1) - 1 = N
    BY <1>1
  <2>2. ASSUME NEW e \in Cells
        PROVE  (\E y \in 0..N : q[y] = Cut(H, e, H - 1) /\ Bit(W, y, Off(H, e, H)))
               <=> \E x \in 0..(N - 1) : part[x] = Cut(H, e, H - 1) /\ Bit(B, x, Off(H, e, H))
    <3>1. H \in 1..H
      BY <1>1
    <3>2. Off(H, e, H) \in Offsets
      BY <1>1, <3>1, CutStep
    <3>3. ASSUME NEW y \in 0..N, q[y] = Cut(H, e, H - 1), Bit(W, y, Off(H, e, H))
          PROVE  \E x \in 0..(N - 1) : part[x] = Cut(H, e, H - 1) /\ Bit(B, x, Off(H, e, H))
      <4>1. y # n
        BY <1>2, <3>2, <3>3
      <4>2. PICK u \in 0..(N - 1) : y = Moved(n, u)
        BY <1>11, <4>1
      <4> QED  BY <1>8, <1>16, <3>3, <4>2
    <3>4. ASSUME NEW x \in 0..(N - 1), part[x] = Cut(H, e, H - 1), Bit(B, x, Off(H, e, H))
          PROVE  \E y \in 0..N : q[y] = Cut(H, e, H - 1) /\ Bit(W, y, Off(H, e, H))
      BY <1>4, <1>8, <1>16, <3>4
    <3> QED  BY <3>3, <3>4
  <2> QED  BY <2>1, <2>2 DEF Edges
<1> QED
  BY <1>7, <1>8, <1>15, <1>17

\* part names the partitions of the blocks that are left in B of those in W.
WithersPart(W, M, N, H, q, c, o, n, B, m, part) ==
  /\ Mapped(W, M, N + 1, H, q) /\ Sprouts(B, N, c, o, n, W) /\ c < M
  /\ m = (IF n < M THEN M - 1 ELSE M)
  /\ part = [x \in 0..(N - 1) |-> q[Moved(n, x)]]

\* A tree that is left when the block that sprouted is gone.
LEMMA MappedWithers ==
  ASSUME NEW W, NEW M, NEW N, NEW H, NEW q, NEW c, NEW o, NEW n, NEW B, NEW m, NEW part,
         WithersPart(W, M, N, H, q, c, o, n, B, m, part)
  PROVE  /\ Mapped(B, m, N, H, part)
         /\ \A x \in 0..(N - 1) : q[Moved(n, x)] = part[x]
         /\ Edges(W, N + 1, H, q) = Edges(B, N, H, part)
<1> Mapped(W, M, N + 1, H, q) /\ Sprouts(B, N, c, o, n, W) /\ c < M
  BY DEF WithersPart
<1> m = (IF n < M THEN M - 1 ELSE M)
  BY DEF WithersPart
<1> part = [x \in 0..(N - 1) |-> q[Moved(n, x)]]
  BY DEF WithersPart
<1>1. N \in Nat /\ (N + 1) - 1 = N
  BY DEF Sprouts
<1>2. /\ W \in Seq(BOOLEAN) /\ H \in Nat /\ H >= 2
      /\ M \in 1..(N + 1) /\ Len(W) = At(N + 1)
      /\ Named(M, N + 1, H, q) /\ Led(W, M, N + 1, q)
  BY DEF Mapped
<1>3. /\ n \in 1..N /\ c \in 0..(n - 1) /\ o \in Offsets /\ c \in 0..(N - 1)
      /\ B \in Seq(BOOLEAN) /\ Len(B) = At(N)
      /\ ~Bit(B, c, o) /\ Child(W, c, o) = n
      /\ \A y \in Offsets : ~Bit(W, n, y)
  BY <1>1 DEF Sprouts
<1>4. \A x \in 0..(N - 1), y \in Offsets :
        /\ Bit(W, Moved(n, x), y) <=> Bit(B, x, y) \/ (x = c /\ y = o)
        /\ Bit(B, x, y) => Child(W, Moved(n, x), y) = Moved(n, Child(B, x, y))
  BY DEF Sprouts
<1>5. /\ \A x \in 0..(N - 1) : Moved(n, x) \in 0..N /\ Moved(n, x) # n
      /\ \A x \in Nat, y \in Nat : Moved(n, x) = Moved(n, y) => x = y
      /\ \A y \in 0..N : y # n => \E x \in 0..(N - 1) : Moved(n, x) = y
  <2>1. n \in 0..N
    BY <1>1, <1>3
  <2> QED  BY <1>1, <2>1, MovedBlocks
<1>6. \A x \in 0..(N - 1) : part[x] = q[Moved(n, x)]
  OBVIOUS
<1>7. \A y \in 0..N : q[y] \in Parts
  BY <1>1, <1>2 DEF Named
<1>8. part \in [0..(N - 1) -> Parts]
  BY <1>5, <1>7
<1>9. Moved(n, c) = c /\ Moved(n, 0) = 0 /\ 0 \in 0..(N - 1)
  BY <1>1, <1>3 DEF Moved
<1>10. m \in 1..N /\ m \in Nat
  <2>1. CASE n < M
    BY <1>1, <1>2, <1>3, <2>1
  <2>2. CASE ~(n < M)
    BY <1>1, <1>2, <1>3, <2>2
  <2> QED  BY <2>1, <2>2
<1>11. \A x \in 0..(N - 1) : (Moved(n, x) < M <=> x < m) /\ (Moved(n, x) >= M <=> x >= m)
  <2> SUFFICES ASSUME NEW x \in 0..(N - 1)
               PROVE  (Moved(n, x) < M <=> x < m) /\ (Moved(n, x) >= M <=> x >= m)
    OBVIOUS
  <2>1. CASE n < M
    BY <1>1, <1>2, <1>3, <2>1 DEF Moved
  <2>2. CASE ~(n < M)
    BY <1>1, <1>2, <1>3, <2>2 DEF Moved
  <2> QED  BY <2>1, <2>2
<1>12. Named(m, N, H, part)
  <2>1. part[0] = Whole
    BY <1>1, <1>2, <1>6, <1>9 DEF Named
  <2>2. ASSUME NEW x \in 0..(N - 1), NEW y \in 0..(N - 1), part[x] = part[y] PROVE x = y
    <3>1. \A u, v \in 0..N : q[u] = q[v] => u = v
      BY <1>1, <1>2 DEF Named
    <3>2. Moved(n, x) = Moved(n, y)
      BY <1>5, <1>6, <2>2, <3>1
    <3> QED  BY <1>5, <3>2
  <2>3. ASSUME NEW x \in 0..(N - 1)
        PROVE  part[x].level < H /\ (x >= m <=> part[x].level = H - 1)
    <3>1. Moved(n, x) \in 0..N
      BY <1>5
    <3>2. q[Moved(n, x)].level < H /\ (Moved(n, x) >= M <=> q[Moved(n, x)].level = H - 1)
      BY <1>1, <1>2, <3>1 DEF Named
    <3> QED  BY <1>6, <1>11, <3>2
  <2> QED  BY <1>8, <2>1, <2>2, <2>3 DEF Named
<1>13. Led(B, m, N, part)
  <2>1. ASSUME NEW x \in 0..(m - 1), NEW y \in Offsets, Bit(B, x, y)
        PROVE  Child(B, x, y) \in 1..(N - 1) /\ part[Child(B, x, y)] = Sub(part[x], y)
    <3>1. x \in 0..(N - 1) /\ x < m
      BY <1>1, <1>10
    <3>2. Moved(n, x) \in 0..(M - 1)
      BY <1>1, <1>2, <1>5, <1>11, <3>1
    <3>3. Bit(W, Moved(n, x), y) /\ Child(W, Moved(n, x), y) = Moved(n, Child(B, x, y))
      BY <1>4, <2>1, <3>1
    <3>4. /\ Child(W, Moved(n, x), y) \in 1..N
          /\ q[Child(W, Moved(n, x), y)] = Sub(q[Moved(n, x)], y)
      BY <1>1, <1>2, <3>2, <3>3 DEF Led
    <3>5. PICK z \in Nat : z = Child(B, x, y)
      BY <1>3, Rank1Type DEF Child
    <3>6. Moved(n, z) \in 1..N /\ q[Moved(n, z)] = Sub(part[x], y)
      BY <1>6, <3>1, <3>3, <3>4, <3>5
    <3>7. z \in 1..(N - 1)
      BY <1>1, <1>3, <3>6 DEF Moved
    <3>8. z \in 0..(N - 1)
      BY <3>7
    <3> QED  BY <1>6, <3>5, <3>6, <3>7, <3>8
  <2>2. ASSUME NEW y \in 1..(N - 1)
        PROVE  \E x \in 0..(m - 1), p \in Offsets : Bit(B, x, p) /\ Child(B, x, p) = y
    <3>1. y \in 0..(N - 1) /\ y \in Nat
      BY <1>1
    <3>2. Moved(n, y) \in 1..N /\ Moved(n, y) # n
      BY <1>1, <1>3, <1>5, <3>1 DEF Moved
    <3>3. PICK w \in 0..(M - 1), p \in Offsets : Bit(W, w, p) /\ Child(W, w, p) = Moved(n, y)
      BY <1>1, <1>2, <3>2 DEF Led
    <3>4. w \in 0..N /\ w # n
      BY <1>1, <1>2, <1>3, <3>3
    <3>5. PICK x \in 0..(N - 1) : w = Moved(n, x)
      BY <1>5, <3>4
    <3>6. ~(x = c /\ p = o)
      BY <1>3, <1>9, <3>2, <3>3, <3>5
    <3>7. Bit(B, x, p) /\ Moved(n, Child(B, x, p)) = Moved(n, y)
      BY <1>4, <3>3, <3>5, <3>6
    <3>8. Child(B, x, p) \in Nat
      BY <1>3, Rank1Type DEF Child
    <3>9. Child(B, x, p) = y
      BY <1>5, <3>1, <3>7, <3>8
    <3>10. x < m
      <4>1. w < M
        BY <1>2
      <4> QED  BY <1>11, <3>5, <4>1
    <3>11. x \in 0..(m - 1)
      BY <1>10, <3>10
    <3> QED  BY <3>7, <3>9, <3>11
  <2> QED  BY <2>1, <2>2 DEF Led
<1>14. Mapped(B, m, N, H, part)
  BY <1>1, <1>2, <1>3, <1>10, <1>12, <1>13 DEF Mapped
<1>15. ASSUME NEW e \in Cells, NEW x \in 0..(N - 1), part[x] = Cut(H, e, H - 1)
       PROVE  Bit(W, Moved(n, x), Off(H, e, H)) <=> Bit(B, x, Off(H, e, H))
  <2>1. H \in 1..H
    BY <1>2
  <2>2. Off(H, e, H) \in Offsets
    BY <1>2, <2>1, CutStep
  <2>3. part[x].level = H - 1
    BY <1>15 DEF Cut, Part
  <2>4. c < m
    BY <1>3, <1>9, <1>11
  <2>5. x # c
    BY <1>3, <1>10, <1>12, <2>3, <2>4 DEF Named
  <2> QED  BY <1>4, <2>2, <2>5
<1>16. Edges(W, N + 1, H, q) = Edges(B, N, H, part)
  <2>1. ASSUME NEW e \in Cells
        PROVE  (\E y \in 0..N : q[y] = Cut(H, e, H - 1) /\ Bit(W, y, Off(H, e, H)))
               <=> \E x \in 0..(N - 1) : part[x] = Cut(H, e, H - 1) /\ Bit(B, x, Off(H, e, H))
    <3>1. H \in 1..H
      BY <1>2
    <3>2. Off(H, e, H) \in Offsets
      BY <1>2, <3>1, CutStep
    <3>3. ASSUME NEW y \in 0..N, q[y] = Cut(H, e, H - 1), Bit(W, y, Off(H, e, H))
          PROVE  \E x \in 0..(N - 1) : part[x] = Cut(H, e, H - 1) /\ Bit(B, x, Off(H, e, H))
      <4>1. y # n
        BY <1>3, <3>2, <3>3
      <4>2. PICK u \in 0..(N - 1) : y = Moved(n, u)
        BY <1>5, <4>1
      <4> QED  BY <1>6, <1>15, <3>3, <4>2
    <3>4. ASSUME NEW x \in 0..(N - 1), part[x] = Cut(H, e, H - 1), Bit(B, x, Off(H, e, H))
          PROVE  \E y \in 0..N : q[y] = Cut(H, e, H - 1) /\ Bit(W, y, Off(H, e, H))
      BY <1>5, <1>6, <1>15, <3>4
    <3> QED  BY <3>3, <3>4
  <2> QED  BY <1>1, <2>1 DEF Edges
<1> QED
  BY <1>6, <1>14, <1>16

\* Changes of the last level leave the partitions of the blocks.
LEMMA MappedLeaves ==
  ASSUME NEW B, NEW m, NEW N, NEW H, NEW part, Mapped(B, m, N, H, part),
         NEW V \in Seq(BOOLEAN), Len(V) = Len(B),
         \A p \in Nat : p < At(m) => (Access(V, p) <=> Access(B, p))
  PROVE  Mapped(V, m, N, H, part)
<1>1. /\ B \in Seq(BOOLEAN) /\ N \in Nat /\ m \in 1..N /\ m \in Nat
      /\ Led(B, m, N, part)
  BY DEF Mapped
<1>2. ASSUME NEW x \in 0..(m - 1), NEW o \in Offsets
      PROVE  (Bit(V, x, o) <=> Bit(B, x, o)) /\ Child(V, x, o) = Child(B, x, o)
  <2>1. x \in Nat /\ x < m
    BY <1>1
  <2>2. PICK p \in Nat : p = At(x) + o
    BY <2>1, AtPosition
  <2>3. At(x) + o < At(m)
    BY <1>1, <2>1, AtBefore
  <2>4. At(m) \in Nat /\ p < At(m)
    BY <1>1, <2>2, <2>3, AtOrder
  <2>5. SameBits(V, 0, p + 1, B, 0)
    <3>1. ASSUME NEW i \in 0..((p + 1) - 1) PROVE Access(V, i) <=> Access(B, i + 0)
      <4>1. i \in Nat /\ i < At(m) /\ i + 0 = i
        BY <2>4
      <4> QED  BY <4>1
    <3> QED  BY <3>1 DEF SameBits
  <2>6. Rank1(V, p + 1) = Rank1(B, p + 1)
    BY <1>1, <2>5, p + 1 \in Nat, RankOfPrefix
  <2>7. Access(V, p) <=> Access(B, p)
    BY <2>4
  <2>8. Child(V, x, o) = Rank1(V, p + 1) /\ Child(B, x, o) = Rank1(B, p + 1)
    BY <2>2 DEF Child
  <2>9. Bit(V, x, o) <=> Bit(B, x, o)
    BY <2>2, <2>7 DEF Bit
  <2> QED  BY <2>6, <2>8, <2>9
<1>3. Led(V, m, N, part)
  <2>1. ASSUME NEW x \in 0..(m - 1), NEW o \in Offsets, Bit(V, x, o)
        PROVE  Child(V, x, o) \in 1..(N - 1) /\ part[Child(V, x, o)] = Sub(part[x], o)
    BY <1>1, <1>2, <2>1 DEF Led
  <2>2. ASSUME NEW y \in 1..(N - 1)
        PROVE  \E x \in 0..(m - 1), o \in Offsets : Bit(V, x, o) /\ Child(V, x, o) = y
    <3>1. PICK x \in 0..(m - 1), o \in Offsets : Bit(B, x, o) /\ Child(B, x, o) = y
      BY <1>1 DEF Led
    <3> QED  BY <1>2, <3>1
  <2> QED  BY <2>1, <2>2 DEF Led
<1> QED
  BY <1>3 DEF Mapped

\* Setting or clearing the bit of a cell on the last level.
LEMMA SetEdge ==
  ASSUME NEW B, NEW m, NEW N, NEW H, NEW part, Mapped(B, m, N, H, part),
         NEW e \in Cells, NEW x \in 0..(N - 1), part[x] = Cut(H, e, H - 1),
         NEW b \in BOOLEAN, NEW V, V = SetBit(B, At(x) + Off(H, e, H), b)
  PROVE  /\ Mapped(V, m, N, H, part)
         /\ b => Edges(V, N, H, part) = Edges(B, N, H, part) \cup {e}
         /\ ~b => Edges(V, N, H, part) = Edges(B, N, H, part) \ {e}
<1>1. /\ B \in Seq(BOOLEAN) /\ H \in Nat /\ H >= 2 /\ N \in Nat /\ m \in 1..N /\ m \in Nat
      /\ Len(B) = At(N) /\ Named(m, N, H, part)
  BY DEF Mapped
<1>2. x \in Nat /\ x < N /\ x >= m
  <2>1. part[x].level = H - 1
    BY DEF Cut, Part
  <2> QED  BY <1>1, <2>1 DEF Named
<1>3. \A f \in Cells : Off(H, f, H) \in Offsets
  <2>1. H \in 1..H
    BY <1>1
  <2> QED  BY <1>1, <2>1, CutStep
<1>4. PICK p \in Nat : p = At(x) + Off(H, e, H)
  BY <1>2, <1>3, AtPosition
<1>5. p >= At(m) /\ p < At(N) /\ At(m) \in Nat /\ At(N) \in Nat
  <2>1. At(x) + Off(H, e, H) >= At(m)
    BY <1>1, <1>2, <1>3, AtBefore
  <2>2. At(x) + Off(H, e, H) < At(N)
    BY <1>1, <1>2, <1>3, AtBefore
  <2> QED  BY <1>1, <1>4, <2>1, <2>2, AtOrder
<1>6. p \in 0..(Len(B) - 1)
  BY <1>1, <1>5
<1>7. V \in Seq(BOOLEAN) /\ Len(V) = Len(B) /\ V = SetBit(B, p, b)
  BY <1>1, <1>4, SetBitType
<1>8. \A z \in Nat : Access(V, z) <=> IF z = p THEN b ELSE Access(B, z)
  <2>1. \A v \in BOOLEAN, z \in Nat :
          Access(SetBit(B, p, v), z) <=> IF z = p THEN v ELSE Access(B, z)
    BY <1>1, <1>6, SetBitAccess
  <2> QED  BY <1>7, <2>1
<1>9. \A z \in Nat : z < At(m) => (Access(V, z) <=> Access(B, z))
  BY <1>5, <1>8
<1>10. Mapped(V, m, N, H, part)
  BY <1>7, <1>9, MappedLeaves
<1>11. ASSUME NEW f \in Cells, NEW y \in 0..(N - 1), part[y] = Cut(H, f, H - 1)
       PROVE  Bit(V, y, Off(H, f, H)) <=> IF f = e THEN b ELSE Bit(B, y, Off(H, f, H))
  <2>1. y \in Nat
    BY <1>1
  <2>2. PICK z \in Nat : z = At(y) + Off(H, f, H)
    BY <1>3, <2>1, AtPosition
  <2>3. At(y) + Off(H, f, H) = At(x) + Off(H, e, H) <=> y = x /\ Off(H, f, H) = Off(H, e, H)
    BY <1>2, <1>3, <2>1, AtSame
  <2>4. z = p <=> f = e
    <3>1. ASSUME y = x, Off(H, f, H) = Off(H, e, H) PROVE f = e
      <4>1. Cut(H, f, H - 1) = Cut(H, e, H - 1) /\ H \in Nat \ {0}
        BY <1>1, <1>11, <3>1
      <4> QED  BY <3>1, <4>1, CutCell
    <3>2. ASSUME f = e PROVE y = x
      BY <1>1, <1>11, <3>2 DEF Named
    <3> QED  BY <1>4, <2>2, <2>3, <3>1, <3>2
  <2>5. Access(V, z) <=> IF f = e THEN b ELSE Access(B, z)
    BY <1>8, <2>4
  <2> QED  BY <2>2, <2>5 DEF Bit
<1>12. ASSUME NEW f \in Cells
       PROVE  f \in Edges(V, N, H, part) <=> IF f = e THEN b ELSE f \in Edges(B, N, H, part)
  <2>1. CASE f = e
    <3>1. f \in Edges(V, N, H, part) <=> Bit(V, x, Off(H, e, H))
      BY <1>10, <2>1, EdgeBit
    <3>2. Bit(V, x, Off(H, e, H)) <=> b
      BY <1>11
    <3> QED  BY <2>1, <3>1, <3>2
  <2>2. CASE f # e
    <3>1. \A y \in 0..(N - 1) : part[y] = Cut(H, f, H - 1) =>
            (Bit(V, y, Off(H, f, H)) <=> Bit(B, y, Off(H, f, H)))
      BY <1>11, <2>2
    <3> QED  BY <2>2, <3>1 DEF Edges
  <2> QED  BY <2>1, <2>2
<1>13. Edges(V, N, H, part) \subseteq Cells /\ Edges(B, N, H, part) \subseteq Cells
  BY DEF Edges
<1>14. b => Edges(V, N, H, part) = Edges(B, N, H, part) \cup {e}
  BY <1>12, <1>13
<1>15. ~b => Edges(V, N, H, part) = Edges(B, N, H, part) \ {e}
  BY <1>12, <1>13
<1> QED
  BY <1>10, <1>14, <1>15

\* A partition of a matrix, in the matrix that is K times as wide.
Lift(l) == Part(l.level + 1, l.row, l.column)

\* The partitions of a matrix are partitions of the next larger one.
LEMMA LiftParts ==
  /\ \A l \in Parts : Lift(l) \in Parts /\ Lift(l).level = l.level + 1
  /\ \A l \in Parts, n \in Parts : Lift(l) = Lift(n) => l = n
  /\ \A l \in Parts, o \in Offsets : Lift(Sub(l, o)) = Sub(Lift(l), o)
<1>1. ASSUME NEW l \in Parts PROVE Lift(l) \in Parts /\ Lift(l).level = l.level + 1
  BY DEF Lift, Part, Parts
<1>2. ASSUME NEW l \in Parts, NEW n \in Parts, Lift(l) = Lift(n) PROVE l = n
  <2>1. l.level + 1 = n.level + 1 /\ l.row = n.row /\ l.column = n.column
    BY <1>2, PartEqual DEF Lift
  <2>2. l.level \in Nat /\ n.level \in Nat
    BY DEF Parts
  <2>3. l.level = n.level
    BY <2>1, <2>2
  <2> QED  BY <2>1, <2>3 DEF Parts
<1>3. ASSUME NEW l \in Parts, NEW o \in Offsets PROVE Lift(Sub(l, o)) = Sub(Lift(l), o)
  BY DEF Lift, Sub, Part
<1> QED
  BY <1>1, <1>2, <1>3

\* A cell is in the same partitions, one level further down.
LEMMA LiftCut ==
  ASSUME NEW H \in Nat \ {0}, NEW e
  PROVE  /\ Cut(H + 1, e, (H + 1) - 1) = Lift(Cut(H, e, H - 1))
         /\ Off(H + 1, e, H + 1) = Off(H, e, H)
<1>1. /\ Width(H + 1, H + 1) = Width(H, H) /\ Width(H + 1, (H + 1) - 1) = Width(H, H - 1)
      /\ (H + 1) - 1 = (H - 1) + 1
  <2>1. (H + 1) - (H + 1) = H - H /\ (H + 1) - ((H + 1) - 1) = H - (H - 1)
    OBVIOUS
  <2> QED  BY <2>1 DEF Width
<1>2. Cut(H + 1, e, (H + 1) - 1) = Lift(Cut(H, e, H - 1))
  BY <1>1 DEF Cut, Lift, Part
<1>3. \A x : Digit(H + 1, x, H + 1) = Digit(H, x, H)
  BY <1>1 DEF Digit
<1> QED
  BY <1>2, <1>3 DEF Off

\* The vector with a new first block that holds one 1, at its first bit.
Risen(B) == SetBit(InsertBlock(B, 0), 0, TRUE)

\* The partitions of the blocks of Risen(B), where those of B have the partitions
\* part: the old blocks name partitions of the first partition of the new matrix.
RisenParts(N, part) == [y \in 0..N |-> IF y = 0 THEN Whole ELSE Lift(part[y - 1])]

\* increaseMatrixSize: the old root block is the block below the first bit of the
\* new one.  No edge comes or goes.
LEMMA MappedRises ==
  ASSUME NEW B, NEW m, NEW N, NEW H, NEW part, Mapped(B, m, N, H, part)
  PROVE  /\ Mapped(Risen(B), m + 1, N + 1, H + 1, RisenParts(N, part))
         /\ Edges(Risen(B), N + 1, H + 1, RisenParts(N, part)) = Edges(B, N, H, part)
<1>0a. PICK W : W = SetBit(InsertBlock(B, 0), 0, TRUE)
  OBVIOUS
<1>0b. PICK q : q = [y \in 0..N |-> IF y = 0 THEN Whole ELSE Lift(part[y - 1])]
  OBVIOUS
<1>1. /\ B \in Seq(BOOLEAN) /\ H \in Nat /\ H >= 2 /\ H \in Nat \ {0}
      /\ N \in Nat /\ m \in 1..N /\ m \in Nat
      /\ Len(B) = At(N) /\ Named(m, N, H, part) /\ Led(B, m, N, part)
  BY DEF Mapped
<1>2. PICK k \in Nat : k = BLOCK_SIZE /\ k >= 4
  BY BlockSize
<1>3. PICK I \in Seq(BOOLEAN) : I = InsertBlock(B, 0) /\ Len(I) = Len(B) + k
  BY <1>1, <1>2, 0 \in Int, InsertBlockType
<1>4. At(N) \in Nat /\ At(N + 1) = At(N) + k
  BY <1>1, <1>2, AtNext
<1>5. 0 \in 0..Len(B) /\ 0 \in 0..(Len(I) - 1)
  BY <1>1, <1>2, <1>3, <1>4
<1>6. W = SetBit(I, 0, TRUE) /\ W \in Seq(BOOLEAN) /\ Len(W) = At(N + 1)
  BY <1>0a, <1>1, <1>3, <1>4, SetBitType
<1>7. \A z \in Nat : Access(I, z) <=> \/ z < 0 /\ Access(B, z)
                                      \/ z >= 0 + k /\ Access(B, z - k)
  BY <1>1, <1>2, <1>3, <1>5, InsertBlockAccess
<1>8. \A z \in Nat : Access(W, z) <=> z = 0 \/ Access(I, z)
  <2>1. \A v \in BOOLEAN, z \in Nat :
          Access(SetBit(I, 0, v), z) <=> IF z = 0 THEN v ELSE Access(I, z)
    BY <1>5, SetBitAccess
  <2>2. \A z \in Nat : Access(SetBit(I, 0, TRUE), z) <=> IF z = 0 THEN TRUE ELSE Access(I, z)
    BY <2>1
  <2> QED  BY <1>6, <2>2
<1>9. ~Access(I, 0)
  <2>1. ~(0 < 0) /\ ~(0 >= 0 + k)
    BY <1>2
  <2> QED  BY <1>7, <2>1
<1>10. \A z \in Nat : Rank1(W, z) = Rank1(I, z) + (IF 0 < z THEN 1 ELSE 0)
  BY <1>5, <1>6, <1>9, RankSetBit
<1>11. \A z \in Nat : z >= 0 => Rank1(I, z + k) = Rank1(B, z)
  BY <1>1, <1>2, <1>3, <1>5, RankInsertBlock
<1>12. \A z \in Nat : Rank1(B, z) \in Nat /\ Rank1(W, z + k) = Rank1(B, z) + 1
  <2> SUFFICES ASSUME NEW z \in Nat
               PROVE  Rank1(B, z) \in Nat /\ Rank1(W, z + k) = Rank1(B, z) + 1
    OBVIOUS
  <2>1. z + k \in Nat /\ 0 < z + k /\ z >= 0
    BY <1>2
  <2>2. Rank1(W, z + k) = Rank1(I, z + k) + 1
    BY <1>10, <2>1
  <2> QED  BY <1>1, <1>11, <2>1, <2>2, Rank1Type
<1>13. ASSUME NEW x \in Nat, NEW o \in Offsets
       PROVE  /\ Bit(W, x + 1, o) <=> Bit(B, x, o)
              /\ Child(W, x + 1, o) = Child(B, x, o) + 1
  <2>1. PICK z \in Nat : z = At(x) + o
    BY AtPosition
  <2>2. At(x) \in Nat /\ At(x + 1) = At(x) + BLOCK_SIZE
    BY AtNext
  <2>3. o \in Nat
    BY BlockSize DEF Offsets
  <2>4. At(x + 1) + o = z + k
    BY <1>2, <2>1, <2>2, <2>3
  <2>5. z + k \in Nat /\ ~(z + k < 0) /\ z + k >= 0 + k /\ (z + k) - k = z /\ z + k # 0
    BY <1>2
  <2>6. Access(W, z + k) <=> Access(B, z)
    BY <1>7, <1>8, <2>5
  <2>7. (z + k) + 1 = (z + 1) + k /\ z + 1 \in Nat
    BY <1>2
  <2>8. Rank1(W, (z + k) + 1) = Rank1(B, z + 1) + 1
    BY <1>12, <2>7
  <2>9. Child(W, x + 1, o) = Rank1(W, (z + k) + 1) /\ Child(B, x, o) = Rank1(B, z + 1)
    BY <2>1, <2>4 DEF Child
  <2>10. Bit(W, x + 1, o) <=> Bit(B, x, o)
    BY <2>1, <2>4, <2>6 DEF Bit
  <2> QED  BY <2>8, <2>9, <2>10
<1>14. /\ 0 \in Offsets /\ Bit(W, 0, 0) /\ Child(W, 0, 0) = 1
       /\ \A o \in Offsets : Bit(W, 0, o) => o = 0
  <2>1. At(0) = 0 /\ 0 + 0 = 0 /\ 0 + 1 = 1
    BY AtOrder
  <2>2. 0 \in Offsets
    BY BlockSize DEF Offsets
  <2>3. Bit(W, 0, 0)
    BY <1>8, <2>1 DEF Bit
  <2>4. Child(W, 0, 0) = 1
    <3>1. Rank1(W, 0 + 1) = Rank1(W, 0) + (IF Access(W, 0) THEN 1 ELSE 0)
      BY <1>6, RankNext
    <3>2. Rank1(W, 0) = 0 /\ Access(W, 0)
      BY <1>6, <1>8, RankZero
    <3> QED  BY <2>1, <3>1, <3>2 DEF Child
  <2>5. ASSUME NEW o \in Offsets, Bit(W, 0, o) PROVE o = 0
    <3>1. o \in Nat /\ o < k /\ At(0) + o = o
      BY <1>2, <2>1 DEF Offsets
    <3>2. ~(o < 0) /\ ~(o >= 0 + k)
      BY <1>2, <3>1
    <3> QED  BY <1>7, <1>8, <2>5, <3>1, <3>2 DEF Bit
  <2> QED  BY <2>2, <2>3, <2>4, <2>5
<1>15. q[0] = Whole /\ \A x \in 0..(N - 1) : x + 1 \in 0..N /\ q[x + 1] = Lift(part[x])
  <2>1. ASSUME NEW x \in 0..(N - 1) PROVE x + 1 \in 0..N /\ q[x + 1] = Lift(part[x])
    <3>1. x + 1 \in 0..N /\ x + 1 # 0 /\ (x + 1) - 1 = x
      BY <1>1
    <3> QED  BY <1>0b, <3>1
  <2> QED  BY <1>0b, <1>1, <2>1
<1>16. \A y \in 0..N : y = 0 \/ \E x \in 0..(N - 1) : y = x + 1
  <2> SUFFICES ASSUME NEW y \in 0..N, y # 0 PROVE \E x \in 0..(N - 1) : y = x + 1
    OBVIOUS
  <2>1. y - 1 \in 0..(N - 1) /\ y = (y - 1) + 1
    BY <1>1
  <2> QED  BY <2>1
<1>17. \A x \in 0..(N - 1) : part[x] \in Parts
  BY <1>1 DEF Named
<1>18. Whole \in Parts /\ Whole.level = 0 /\ Lift(Whole) = Sub(Whole, 0)
  <2>1. Whole \in Parts /\ Whole.level = 0
    BY DEF Whole, Part, Parts
  <2>2. 0 \div K = 0 /\ 0 % K = 0 /\ K * 0 + 0 = 0
    BY KAssumption, DivisionUnique, 0 \in 0..(K - 1), K * 0 + 0 = 0
  <2> QED  BY <2>1, <2>2 DEF Whole, Lift, Sub, Part
<1>19. q \in [0..N -> Parts]
  <2>1. \A y \in 0..N : q[y] \in Parts
    <3> SUFFICES ASSUME NEW y \in 0..N PROVE q[y] \in Parts
      OBVIOUS
    <3>1. CASE y = 0
      BY <1>15, <1>18, <3>1
    <3>2. CASE y # 0
      <4>1. PICK x \in 0..(N - 1) : y = x + 1
        BY <1>16, <3>2
      <4> QED  BY <1>15, <1>17, <4>1, LiftParts
    <3> QED  BY <3>1, <3>2
  <2>2. q = [y \in 0..N |-> q[y]]
    BY <1>0b, Zenon
  <2> QED  BY <2>1, <2>2
<1>20. Named(m + 1, N + 1, H + 1, q)
  <2>1. ASSUME NEW x \in 0..N, NEW y \in 0..N, q[x] = q[y] PROVE x = y
    <3>1. \A z \in 0..(N - 1) : q[z + 1] # q[0]
      <4> SUFFICES ASSUME NEW z \in 0..(N - 1) PROVE q[z + 1] # q[0]
        OBVIOUS
      <4>1. q[z + 1].level = part[z].level + 1 /\ part[z].level \in Nat
        BY <1>15, <1>17, LiftParts DEF Parts
      <4> QED  BY <1>15, <1>18, <4>1
    <3>2. CASE x = 0 \/ y = 0
      BY <1>16, <2>1, <3>1, <3>2
    <3>3. CASE x # 0 /\ y # 0
      <4>1. PICK u \in 0..(N - 1) : x = u + 1
        BY <1>16, <3>3
      <4>2. PICK v \in 0..(N - 1) : y = v + 1
        BY <1>16, <3>3
      <4>3. Lift(part[u]) = Lift(part[v])
        BY <1>15, <2>1, <4>1, <4>2
      <4>4. part[u] = part[v]
        BY <1>17, <4>3, LiftParts
      <4>5. u = v
        BY <1>1, <4>4 DEF Named
      <4> QED  BY <4>1, <4>2, <4>5
    <3> QED  BY <3>2, <3>3
  <2>2. ASSUME NEW x \in 0..N
        PROVE  q[x].level < H + 1 /\ (x >= m + 1 <=> q[x].level = (H + 1) - 1)
    <3>1. CASE x = 0
      BY <1>1, <1>15, <1>18, <3>1
    <3>2. CASE x # 0
      <4>1. PICK u \in 0..(N - 1) : x = u + 1
        BY <1>16, <3>2
      <4>2. part[u].level < H /\ (u >= m <=> part[u].level = H - 1)
        BY <1>1 DEF Named
      <4>3. PICK d \in Nat : d = part[u].level
        BY <1>17 DEF Parts
      <4>4. q[x].level = d + 1
        BY <1>15, <1>17, <4>1, <4>3, LiftParts
      <4>5. H \in Nat /\ m \in Nat
        BY <1>1
      <4>6. d + 1 < H + 1 /\ (u + 1 >= m + 1 <=> d + 1 = (H + 1) - 1)
        BY <4>2, <4>3, <4>5
      <4> QED  BY <4>1, <4>4, <4>6
    <3> QED  BY <3>1, <3>2
  <2>3. (N + 1) - 1 = N
    BY <1>1
  <2> QED  BY <1>15, <1>19, <2>1, <2>2, <2>3 DEF Named
<1>21. Led(W, m + 1, N + 1, q)
  <2>1. (N + 1) - 1 = N /\ (m + 1) - 1 = m
    BY <1>1
  <2>2. ASSUME NEW x \in 0..m, NEW o \in Offsets, Bit(W, x, o)
        PROVE  Child(W, x, o) \in 1..N /\ q[Child(W, x, o)] = Sub(q[x], o)
    <3>1. CASE x = 0
      <4>1. 0 \in 0..(N - 1) /\ 0 + 1 = 1 /\ 1 \in 1..N
        BY <1>1
      <4>2. part[0] = Whole
        BY <1>1 DEF Named
      <4>3. q[1] = Lift(Whole)
        BY <1>15, <4>1, <4>2
      <4>4. o = 0
        BY <1>14, <2>2, <3>1
      <4> QED  BY <1>14, <1>15, <1>18, <3>1, <4>1, <4>3, <4>4
    <3>2. CASE x # 0
      <4>1. PICK u \in 0..(m - 1) : x = u + 1
        <5>1. x - 1 \in 0..(m - 1) /\ x = (x - 1) + 1
          BY <1>1, <3>2
        <5> QED  BY <5>1
      <4>2. u \in Nat /\ u \in 0..(N - 1)
        BY <1>1
      <4>3. Bit(B, u, o) /\ Child(W, x, o) = Child(B, u, o) + 1
        BY <1>13, <2>2, <4>1, <4>2
      <4>4. Child(B, u, o) \in 1..(N - 1) /\ part[Child(B, u, o)] = Sub(part[u], o)
        BY <1>1, <4>3 DEF Led
      <4>5. Child(B, u, o) \in 0..(N - 1) /\ Child(B, u, o) + 1 \in 1..N
        BY <1>1, <4>4
      <4>6. q[Child(B, u, o) + 1] = Lift(Sub(part[u], o))
        BY <1>15, <4>4, <4>5
      <4>7. Lift(Sub(part[u], o)) = Sub(q[x], o)
        BY <1>15, <1>17, <4>1, <4>2, LiftParts
      <4> QED  BY <4>3, <4>5, <4>6, <4>7
    <3> QED  BY <3>1, <3>2
  <2>3. ASSUME NEW y \in 1..N
        PROVE  \E x \in 0..m, o \in Offsets : Bit(W, x, o) /\ Child(W, x, o) = y
    <3>1. CASE y = 1
      <4>1. 0 \in 0..m
        BY <1>1
      <4> QED  BY <1>14, <3>1, <4>1
    <3>2. CASE y # 1
      <4>1. y - 1 \in 1..(N - 1) /\ (y - 1) + 1 = y
        BY <1>1, <3>2
      <4>2. PICK u \in 0..(m - 1), o \in Offsets : Bit(B, u, o) /\ Child(B, u, o) = y - 1
        BY <1>1, <4>1 DEF Led
      <4>3. u \in Nat /\ u + 1 \in 0..m
        BY <1>1
      <4>4. Bit(W, u + 1, o) /\ Child(W, u + 1, o) = y
        BY <1>13, <4>1, <4>2, <4>3
      <4> QED  BY <4>3, <4>4
    <3> QED  BY <3>1, <3>2
  <2> QED  BY <2>1, <2>2, <2>3 DEF Led
<1>22. Mapped(W, m + 1, N + 1, H + 1, q)
  <2>1. H + 1 \in Nat /\ H + 1 >= 2 /\ N + 1 \in Nat /\ m + 1 \in 1..(N + 1)
    BY <1>1
  <2> QED  BY <1>6, <1>20, <1>21, <2>1 DEF Mapped
<1>23. ASSUME NEW e \in Cells
       PROVE  (\E y \in 0..N : /\ q[y] = Cut(H + 1, e, (H + 1) - 1)
                               /\ Bit(W, y, Off(H + 1, e, H + 1)))
              <=> \E x \in 0..(N - 1) : part[x] = Cut(H, e, H - 1) /\ Bit(B, x, Off(H, e, H))
  <2>1. H \in 1..H
    BY <1>1
  <2>2. Off(H, e, H) \in Offsets /\ Cut(H, e, H - 1) \in Parts
    BY <1>1, <2>1, CutStep
  <2>3. /\ Cut(H + 1, e, (H + 1) - 1) = Lift(Cut(H, e, H - 1))
        /\ Off(H + 1, e, H + 1) = Off(H, e, H)
    BY <1>1, LiftCut
  <2>4. ASSUME NEW y \in 0..N, q[y] = Lift(Cut(H, e, H - 1)), Bit(W, y, Off(H, e, H))
        PROVE  \E x \in 0..(N - 1) : part[x] = Cut(H, e, H - 1) /\ Bit(B, x, Off(H, e, H))
    <3>1. y # 0
      <4>1. Cut(H, e, H - 1).level = H - 1
        BY DEF Cut, Part
      <4>2. Lift(Cut(H, e, H - 1)).level = (H - 1) + 1
        BY <2>2, <4>1, LiftParts
      <4>3. (H - 1) + 1 # 0
        BY <1>1
      <4> QED  BY <1>15, <1>18, <2>4, <4>2, <4>3
    <3>2. PICK x \in 0..(N - 1) : y = x + 1
      BY <1>16, <3>1
    <3>3. part[x] = Cut(H, e, H - 1)
      <4>1. Lift(part[x]) = Lift(Cut(H, e, H - 1))
        BY <1>15, <2>4, <3>2
      <4> QED  BY <1>17, <2>2, <4>1, LiftParts
    <3>4. x \in Nat
      BY <1>1
    <3> QED  BY <1>13, <2>2, <2>4, <3>2, <3>3, <3>4
  <2>5. ASSUME NEW x \in 0..(N - 1), part[x] = Cut(H, e, H - 1), Bit(B, x, Off(H, e, H))
        PROVE  \E y \in 0..N : q[y] = Lift(Cut(H, e, H - 1)) /\ Bit(W, y, Off(H, e, H))
    <3>1. x \in Nat
      BY <1>1
    <3> QED  BY <1>13, <1>15, <2>2, <2>5, <3>1
  <2> QED  BY <2>3, <2>4, <2>5
<1>24. Edges(W, N + 1, H + 1, q) = Edges(B, N, H, part)
  <2>1. (N + 1) - 1 = N
    BY <1>1
  <2> QED  BY <1>23, <2>1 DEF Edges
<1>25. W = Risen(B) /\ q = RisenParts(N, part)
  BY ONLY <1>0a, <1>0b DEF Risen, RisenParts
<1> QED
  BY ONLY <1>22, <1>24, <1>25
-----------------------------------------------------------------------------
(* The vectors of vertices that the activations have.                      *)

\* A larger number has no smaller quotient.
LEMMA QuotientGrows ==
  ASSUME NEW x \in Nat, NEW y \in Nat, x <= y, NEW w \in Nat, w > 0
  PROVE  x \div w <= y \div w
<1>1. PICK p \in Nat, r \in Nat : p = x \div w /\ x = w * p + r /\ r < w
  <2>1. x \div w \in Nat /\ x % w \in 0..(w - 1)
    BY DivMod
  <2> QED  BY <2>1
<1>2. PICK q \in Nat, s \in Nat : q = y \div w /\ y = w * q + s /\ s < w
  <2>1. y \div w \in Nat /\ y % w \in 0..(w - 1)
    BY DivMod
  <2> QED  BY <2>1
<1>3. SUFFICES ASSUME q < p PROVE FALSE
  BY <1>1, <1>2
<1>4. PICK d \in Nat : p = q + 1 + d
  <2>1. p - q - 1 \in Nat /\ p = q + 1 + (p - q - 1)
    BY <1>3
  <2> QED  BY <2>1
<1>5. w * p = w * q + w + w * d /\ w * d \in Nat /\ w * p \in Nat /\ w * q \in Nat
  BY <1>4
<1> QED
  BY <1>1, <1>2, <1>5

\* Among the vertices of one partition a larger one has no smaller offset.
LEMMA DigitsAscend ==
  ASSUME NEW H \in Nat, NEW i \in 1..H, NEW x \in Nat, NEW y \in Nat, x <= y,
         x \div Width(H, i - 1) = y \div Width(H, i - 1)
  PROVE  Digit(H, x, i) <= Digit(H, y, i)
<1>1. PICK w \in Nat : w = Width(H, i) /\ w > 0
  BY WidthStep
<1>2. x \div w <= y \div w
  BY <1>1, QuotientGrows
<1>3. PICK c : c = K * (x \div Width(H, i - 1))
  OBVIOUS
<1>4. c = K * (y \div Width(H, i - 1))
  BY <1>3
<1>5. /\ Digit(H, x, i) \in 0..(K - 1) /\ x \div w = c + Digit(H, x, i)
      /\ x \div Width(H, i - 1) \in Nat
  BY <1>1, <1>3, DigitOfQuotient
<1>6. Digit(H, y, i) \in 0..(K - 1) /\ y \div w = c + Digit(H, y, i)
  BY <1>1, <1>4, DigitOfQuotient
<1>7. c \in Nat
  BY <1>3, <1>5, KAssumption
<1> QED
  BY <1>2, <1>5, <1>6, <1>7, KAssumption

\* The slice from p to q is the one of offset o on level i.
Starts(v, H, i, j) == \A k \in 1..(j - 1) : Digit(H, v[k], i) # Digit(H, v[j], i)

SliceOf(v, H, i, o, p, q) ==
  /\ p <= q /\ Starts(v, H, i, p) /\ Digit(H, v[p], i) = o
  /\ \A j \in (p + 1)..q : ~Starts(v, H, i, j)
  /\ q = Len(v) \/ Starts(v, H, i, q + 1)

\* Slices has these slices.
LEMMA SlicesOf ==
  ASSUME NEW H \in Nat, matrixSize = LongPow[H], level \in 1..H, NEW v, NEW o, NEW s
  PROVE  s \in Slices(v, o) <=>
           \E p \in 1..Len(v), q \in 1..Len(v) :
             SliceOf(v, H, level, o, p, q) /\ s = SubSeq(v, p, q)
<1>1. \A x : Digit(H, x, level) = OffsetOf(x, level)
  BY WidthOfCode
<1>2. PICK i : i = level
  OBVIOUS
<1>3. \A p : Starts(v, H, level, p) <=>
               \A k \in 1..(p - 1) : OffsetOf(v[k], level) # OffsetOf(v[p], level)
  BY <1>1 DEF Starts
<1> DEFINE Slice(p, q) ==
             /\ p <= q /\ Starts(v, H, level, p) /\ OffsetOf(v[p], level) = o
             /\ \A j \in (p + 1)..q : ~Starts(v, H, level, j)
             /\ q = Len(v) \/ Starts(v, H, level, q + 1)
<1>4. Slices(v, o) = {SubSeq(v, r[1], r[2]) :
                        r \in {x \in (1..Len(v)) \X (1..Len(v)) : Slice(x[1], x[2])}}
  BY <1>3 DEF Slices
<1>5. \A p, q : Slice(p, q) <=> SliceOf(v, H, level, o, p, q)
  BY <1>1 DEF SliceOf
<1> HIDE DEF Slice
<1>6. ASSUME NEW p \in 1..Len(v), NEW q \in 1..Len(v), Slice(p, q)
      PROVE  SubSeq(v, p, q) \in Slices(v, o)
  <2>1. <<p, q>> \in (1..Len(v)) \X (1..Len(v)) /\ <<p, q>>[1] = p /\ <<p, q>>[2] = q
    OBVIOUS
  <2> QED  BY <1>4, <1>6, <2>1
<1>7. ASSUME s \in Slices(v, o)
      PROVE  \E p \in 1..Len(v), q \in 1..Len(v) : Slice(p, q) /\ s = SubSeq(v, p, q)
  <2>1. PICK r \in (1..Len(v)) \X (1..Len(v)) : Slice(r[1], r[2]) /\ s = SubSeq(v, r[1], r[2])
    BY <1>4, <1>7
  <2> QED  BY <2>1
<1> QED
  BY <1>5, <1>6, <1>7

\* v lists, in ascending order, the vertices of A that are in partition c of level d
\* (a row of partitions, or a column), and perhaps the vertex just beyond the matrix,
\* but that only if A has all the vertices in L.
Lists(v, A, L, H, d, c) ==
  /\ v \in Seq(Nat) /\ Ascending(v)
  /\ \A j \in 1..Len(v) : v[j] <= LongPow[H]
  /\ L \subseteq A \/ \A j \in 1..Len(v) : v[j] < LongPow[H]
  /\ \A x \in Nat : x < LongPow[H] => (x \in Elements(v) <=> x \in A /\ x \div Width(H, d) = c)

\* The offset of one coordinate is a number.
LEMMA DigitIsNumber ==
  ASSUME NEW H \in Nat, NEW i \in 1..H
  PROVE  \A x \in Nat : Digit(H, x, i) \in Int /\ Digit(H, x, i) \in 0..(K - 1)
<1>1. \A x \in Nat : Digit(H, x, i) \in 0..(K - 1)
  BY DigitOfQuotient
<1> QED
  BY <1>1, KAssumption

\* The partition of the next level that x is in.
LEMMA NextPartition ==
  ASSUME NEW H \in Nat, NEW i \in 1..H, NEW x \in Nat, NEW c \in Nat, NEW o \in 0..(K - 1)
  PROVE  x \div Width(H, i) = K * c + o
         <=> x \div Width(H, i - 1) = c /\ Digit(H, x, i) = o
<1>1. PICK a \in Nat : a = x \div Width(H, i - 1)
  BY DigitOfQuotient
<1>2. PICK d \in 0..(K - 1) : d = Digit(H, x, i)
  BY DigitOfQuotient
<1>3. x \div Width(H, i) = K * a + d
  BY <1>1, <1>2, DigitOfQuotient
<1>4. (K * a + d) \div K = a /\ (K * a + d) % K = d
  BY KAssumption, DivisionUnique
<1>5. (K * c + o) \div K = c /\ (K * c + o) % K = o
  BY KAssumption, DivisionUnique
<1> QED
  BY <1>1, <1>2, <1>3, <1>4, <1>5

\* Two entries below the matrix, in order, are in the order of their offsets.
LEMMA EntriesAscend ==
  ASSUME NEW H \in Nat, NEW i \in 1..H, NEW v, NEW A, NEW L, NEW c,
         Lists(v, A, L, H, i - 1, c),
         NEW j \in 1..Len(v), NEW k \in 1..Len(v), j <= k, v[k] < LongPow[H]
  PROVE  v[j] < LongPow[H] /\ v[j] \in Nat /\ Digit(H, v[j], i) <= Digit(H, v[k], i)
<1>1. v \in Seq(Nat) /\ Ascending(v)
  BY DEF Lists
<1>2. v[j] \in Nat /\ v[k] \in Nat /\ LongPow[H] \in Nat
  BY <1>1, LongPowPositive
<1>3. v[j] <= v[k]
  BY <1>1, <1>2 DEF Ascending
<1>4. v[j] \in Elements(v) /\ v[k] \in Elements(v)
  BY DEF Elements
<1>5. v[j] < LongPow[H]
  BY <1>2, <1>3
<1>6. v[j] \div Width(H, i - 1) = c /\ v[k] \div Width(H, i - 1) = c
  BY <1>2, <1>4, <1>5 DEF Lists
<1> QED
  BY <1>2, <1>3, <1>5, <1>6, DigitsAscend

\* A slice of a list lists the vertices with its offset.
LEMMA SliceLists ==
  ASSUME NEW H \in Nat, NEW i \in 1..H, NEW v, NEW A, NEW L, NEW c \in Nat,
         Lists(v, A, L, H, i - 1, c), NEW o \in 0..(K - 1),
         NEW p \in 1..Len(v), NEW q \in 1..Len(v), SliceOf(v, H, i, o, p, q)
  PROVE  Lists(SubSeq(v, p, q), A, L, H, i, K * c + o)
<1>1. /\ v \in Seq(Nat) /\ Ascending(v) /\ Len(v) \in Nat
      /\ \A j \in 1..Len(v) : v[j] \in Nat /\ v[j] <= LongPow[H]
      /\ L \subseteq A \/ \A j \in 1..Len(v) : v[j] < LongPow[H]
  BY DEF Lists
<1>2. PICK s : s = SubSeq(v, p, q)
  OBVIOUS
<1>3. s \in Seq(Nat) /\ Len(s) = q - p + 1 /\ \A j \in 1..(q - p + 1) : s[j] = v[p + j - 1]
  <2>1. p <= q /\ p \in Int /\ q \in Int
    BY DEF SliceOf
  <2>2. \A j \in p..q : v[j] \in Nat
    BY <1>1
  <2> QED  BY <1>2, <2>1, <2>2, SubSeqProperties
<1>4. \A j \in 1..Len(s) : p + j - 1 \in p..q /\ p + j - 1 \in 1..Len(v) /\ s[j] = v[p + j - 1]
  BY <1>1, <1>3
<1>5. \A k \in p..q : k \in 1..Len(v) /\ \E j \in 1..Len(s) : s[j] = v[k]
  <2> SUFFICES ASSUME NEW k \in p..q
               PROVE  k \in 1..Len(v) /\ \E j \in 1..Len(s) : s[j] = v[k]
    OBVIOUS
  <2>1. k - p + 1 \in 1..(q - p + 1) /\ p + (k - p + 1) - 1 = k /\ k \in 1..Len(v)
    BY <1>1
  <2> QED  BY <1>3, <2>1
<1>6. Ascending(s)
  <2> SUFFICES ASSUME NEW j \in 1..Len(s), NEW k \in 1..Len(s), j < k PROVE s[j] < s[k]
    BY DEF Ascending
  <2>1. PICK a \in 1..Len(v), b \in 1..Len(v) : a = p + j - 1 /\ b = p + k - 1
    BY <1>4
  <2>2. s[j] = v[a] /\ s[k] = v[b] /\ a < b
    BY <1>3, <1>4, <2>1
  <2> QED  BY <1>1, <2>2 DEF Ascending

\* An entry of the slice has its offset.
<1>7. ASSUME NEW k \in p..q, v[k] < LongPow[H]
      PROVE  Digit(H, v[k], i) = o
  <2>1. SUFFICES ASSUME Digit(H, v[k], i) # o PROVE FALSE
    OBVIOUS
  <2>2. PICK d : d = Digit(H, v[k], i)
    OBVIOUS
  <2> DEFINE S == {j \in Nat : j \in p..k /\ Digit(H, v[j], i) = d}
  <2>3. k \in S
    BY <2>2
  <2>4. PICK j \in S : \A n \in S : j <= n
    <3> HIDE DEF S
    <3>1. S \subseteq Nat
      BY DEF S
    <3> QED  BY <2>3, <3>1, LeastNatural
  <2>5. j \in p..k /\ Digit(H, v[j], i) = d /\ j # p
    BY <2>1, <2>2, <2>4 DEF SliceOf
  <2>6. ~Starts(v, H, i, j)
    BY <2>5 DEF SliceOf
  <2>7. PICK n \in 1..(j - 1) : Digit(H, v[n], i) = d
    BY <2>5, <2>6 DEF Starts
  <2>8. n \notin S
    BY <2>4, <2>5, <2>7
  <2>9. n < p
    BY <2>5, <2>7, <2>8
  <2>10. n \in 1..Len(v) /\ k \in 1..Len(v) /\ n <= p /\ p <= k
    BY <1>1, <2>9
  <2>11. /\ v[p] < LongPow[H] /\ v[p] \in Nat /\ v[k] \in Nat
         /\ Digit(H, v[p], i) <= Digit(H, v[k], i)
    BY <1>1, <1>7, <2>10, EntriesAscend
  <2>12. v[n] \in Nat /\ Digit(H, v[n], i) <= Digit(H, v[p], i)
    BY <2>10, <2>11, EntriesAscend
  <2>13. Digit(H, v[p], i) \in Int /\ Digit(H, v[k], i) \in Int /\ Digit(H, v[p], i) = o
    BY <2>11, DigitIsNumber DEF SliceOf
  <2> QED  BY <2>1, <2>2, <2>7, <2>11, <2>12, <2>13

\* An entry with the offset of the slice is in it.
<1>8. ASSUME NEW k \in 1..Len(v), v[k] < LongPow[H], Digit(H, v[k], i) = o
      PROVE  k \in p..q
  <2>1. ~(k < p)
    <3>1. SUFFICES ASSUME k < p PROVE FALSE
      OBVIOUS
    <3>2. k \in 1..(p - 1)
      BY <1>1, <3>1
    <3>3. Digit(H, v[k], i) # Digit(H, v[p], i)
      BY <3>2 DEF SliceOf, Starts
    <3> QED  BY <1>8, <3>3 DEF SliceOf
  <2>2. ~(k > q)
    <3>1. SUFFICES ASSUME k > q PROVE FALSE
      OBVIOUS
    <3>2. q # Len(v) /\ q + 1 \in 1..Len(v) /\ q + 1 <= k /\ p <= q + 1 /\ p \in 1..((q + 1) - 1)
      BY <1>1, <3>1 DEF SliceOf
    <3>3. Starts(v, H, i, q + 1)
      BY <3>2 DEF SliceOf
    <3>4. Digit(H, v[p], i) # Digit(H, v[q + 1], i)
      BY <3>2, <3>3 DEF Starts
    <3>5. /\ v[q + 1] < LongPow[H] /\ v[q + 1] \in Nat /\ v[k] \in Nat
          /\ Digit(H, v[q + 1], i) <= Digit(H, v[k], i)
      BY <1>1, <1>8, <3>2, EntriesAscend
    <3>6. v[p] \in Nat /\ Digit(H, v[p], i) <= Digit(H, v[q + 1], i)
      BY <3>2, <3>5, EntriesAscend
    <3>7. Digit(H, v[p], i) \in Int /\ Digit(H, v[q + 1], i) \in Int /\ Digit(H, v[p], i) = o
      BY <3>5, <3>6, DigitIsNumber DEF SliceOf
    <3> QED  BY <1>8, <3>4, <3>5, <3>6, <3>7
  <2> QED  BY <2>1, <2>2
<1>9. ASSUME NEW x \in Nat, x < LongPow[H]
      PROVE  x \in Elements(s) <=> x \in A /\ x \div Width(H, i) = K * c + o
  <2>1. x \div Width(H, i) = K * c + o <=> x \div Width(H, i - 1) = c /\ Digit(H, x, i) = o
    BY NextPartition
  <2>2. x \in Elements(v) <=> x \in A /\ x \div Width(H, i - 1) = c
    BY <1>9 DEF Lists
  <2>3. ASSUME x \in Elements(s) PROVE x \in Elements(v) /\ Digit(H, x, i) = o
    <3>1. PICK j \in 1..Len(s) : x = s[j]
      BY <2>3 DEF Elements
    <3>2. p + j - 1 \in p..q /\ p + j - 1 \in 1..Len(v) /\ x = v[p + j - 1]
      BY <1>4, <3>1
    <3> QED  BY <1>7, <1>9, <3>2 DEF Elements
  <2>4. ASSUME x \in Elements(v), Digit(H, x, i) = o PROVE x \in Elements(s)
    <3>1. PICK k \in 1..Len(v) : x = v[k]
      BY <2>4 DEF Elements
    <3>2. k \in p..q
      BY <1>8, <1>9, <2>4, <3>1
    <3> QED  BY <1>5, <3>1, <3>2 DEF Elements
  <2> QED  BY <2>1, <2>2, <2>3, <2>4
<1>10. /\ \A j \in 1..Len(s) : s[j] <= LongPow[H]
       /\ L \subseteq A \/ \A j \in 1..Len(s) : s[j] < LongPow[H]
  BY <1>1, <1>4
<1> QED
  BY <1>2, <1>3, <1>6, <1>9, <1>10 DEF Lists

\* Where a vertex has the offset there is a slice.
LEMMA SliceExists ==
  ASSUME NEW H \in Nat, NEW i \in 1..H, NEW v, NEW A, NEW L, NEW c \in Nat,
         Lists(v, A, L, H, i - 1, c), NEW o \in 0..(K - 1),
         NEW x \in Nat, x < LongPow[H], x \in A, x \div Width(H, i) = K * c + o
  PROVE  \E p \in 1..Len(v), q \in 1..Len(v) : SliceOf(v, H, i, o, p, q)
<1>1. x \div Width(H, i - 1) = c /\ Digit(H, x, i) = o
  BY NextPartition
<1>2. Len(v) \in Nat /\ x \in Elements(v)
  BY <1>1 DEF Lists
<1>3. PICK k \in 1..Len(v) : x = v[k]
  BY <1>2 DEF Elements
<1> DEFINE S == {j \in Nat : j \in 1..Len(v) /\ Digit(H, v[j], i) = o}
<1>4. k \in S
  BY <1>1, <1>2, <1>3
<1>5. PICK p \in S : \A n \in S : p <= n
  <2> HIDE DEF S
  <2>1. S \subseteq Nat
    BY DEF S
  <2> QED  BY <1>4, <2>1, LeastNatural
<1>6. p \in 1..Len(v) /\ Digit(H, v[p], i) = o
  BY <1>5
<1>7. Starts(v, H, i, p)
  <2> SUFFICES ASSUME NEW n \in 1..(p - 1), Digit(H, v[n], i) = o PROVE FALSE
    BY <1>6 DEF Starts
  <2>1. n \in S /\ n < p
    BY <1>2, <1>6
  <2> QED  BY <1>5, <1>6, <2>1
<1> DEFINE T == {j \in Nat : j \in p..Len(v) /\ (j = Len(v) \/ Starts(v, H, i, j + 1))}
<1>8. Len(v) \in T
  BY <1>2, <1>6
<1>9. PICK q \in T : \A n \in T : q <= n
  <2> HIDE DEF T, S
  <2>1. T \subseteq Nat
    BY DEF T
  <2> QED  BY <1>8, <2>1, LeastNatural
<1>10. q \in p..Len(v) /\ (q = Len(v) \/ Starts(v, H, i, q + 1))
  BY <1>9
<1>11. ASSUME NEW j \in (p + 1)..q, Starts(v, H, i, j) PROVE FALSE
  <2>1. j - 1 \in Nat /\ j - 1 \in p..Len(v) /\ (j - 1) + 1 = j /\ j - 1 < q
    BY <1>2, <1>6, <1>10
  <2>2. j - 1 \in T
    BY <1>11, <2>1
  <2>3. q <= j - 1
    <3> HIDE DEF T
    <3> QED  BY <1>9, <2>2
  <2> QED  BY <1>2, <1>6, <1>10, <2>1, <2>3
<1>12. q \in 1..Len(v) /\ p <= q
  BY <1>2, <1>6, <1>10
<1> HIDE DEF S, T
<1> QED
  BY <1>6, <1>7, <1>10, <1>11, <1>12 DEF SliceOf

\* All the vertices of A, for the whole matrix.
LEMMA ListsWhole ==
  ASSUME NEW H \in Nat, NEW v \in Seq(Nat), Ascending(v), NEW L,
         \A j \in 1..Len(v) : v[j] <= LongPow[H],
         L \subseteq Elements(v) \/ \A j \in 1..Len(v) : v[j] < LongPow[H]
  PROVE  Lists(v, Elements(v), L, H, 0, 0)
<1>1. ASSUME NEW x \in Nat, x < LongPow[H] PROVE x \div Width(H, 0) = 0
  <2>1. Width(H, 0) = LongPow[H] /\ LongPow[H] \in Nat /\ LongPow[H] > 0
    <3>1. H - 0 = H
      OBVIOUS
    <3> QED  BY <3>1, LongPowPositive DEF Width
  <2>2. LongPow[H] * 0 + x = x /\ x \in 0..(LongPow[H] - 1)
    BY <1>1, <2>1
  <2> QED  BY <2>1, <2>2, DivisionUnique
<1> QED
  BY <1>1 DEF Lists

\* One vertex of the matrix.
LEMMA ListsOne ==
  ASSUME NEW H \in Nat, NEW x \in Nat, x < LongPow[H], NEW L
  PROVE  Lists(<<x>>, {x}, L, H, 0, 0)
<1>1. PICK v : v = <<x>>
  OBVIOUS
<1>2. v \in Seq(Nat) /\ Len(v) = 1 /\ v[1] = x
  BY <1>1
<1>3. Ascending(v)
  BY <1>2 DEF Ascending
<1>4. Elements(v) = {x}
  BY <1>2 DEF Elements
<1>5. \A j \in 1..Len(v) : v[j] <= LongPow[H] /\ v[j] < LongPow[H]
  <2>1. LongPow[H] \in Nat
    BY LongPowPositive
  <2> QED  BY <1>2, <2>1
<1> QED
  BY <1>1, <1>2, <1>3, <1>4, <1>5, ListsWhole

\* On the last level a vertex of a graph on L has the offset of an entry just if
\* it is in A.
LEMMA EntryOnLeaf ==
  ASSUME NEW H \in Nat \ {0}, NEW v, NEW A, NEW L, NEW c \in Nat, Lists(v, A, L, H, H - 1, c),
         NEW x \in Nat, x < LongPow[H], x \in L, x \div Width(H, H - 1) = c
  PROVE  x \in A <=> \E j \in 1..Len(v) : Digit(H, v[j], H) = Digit(H, x, H)
<1>1. ASSUME x \in A PROVE \E j \in 1..Len(v) : Digit(H, v[j], H) = Digit(H, x, H)
  <2>1. x \in Elements(v)
    BY <1>1 DEF Lists
  <2>2. PICK j \in 1..Len(v) : v[j] = x
    BY <2>1 DEF Elements
  <2> QED  BY <2>2
<1>2. ASSUME NEW j \in 1..Len(v), Digit(H, v[j], H) = Digit(H, x, H), v[j] < LongPow[H]
      PROVE  x \in A
  <2>1. v[j] \in Nat /\ v[j] \in Elements(v)
    BY DEF Lists, Elements
  <2>2. v[j] \in A /\ v[j] \div Width(H, H - 1) = c
    BY <1>2, <2>1 DEF Lists
  <2>3. H \in Nat /\ H \in 1..H
    OBVIOUS
  <2>4. /\ v[j] \div Width(H, H) = K * (v[j] \div Width(H, H - 1)) + Digit(H, v[j], H)
        /\ x \div Width(H, H) = K * (x \div Width(H, H - 1)) + Digit(H, x, H)
    BY <2>1, <2>3, DigitOfQuotient
  <2>5. Width(H, H) = 1
    <3>1. H - H = 0 /\ 0 \in Nat
      OBVIOUS
    <3>2. LongPow[0] = 1
      BY Zenon, LongPowEquation, <3>1
    <3> QED  BY <3>1, <3>2 DEF Width
  <2>6. v[j] \div 1 = v[j] /\ x \div 1 = x
    BY <2>1
  <2>7. v[j] = x
    BY <1>2, <2>2, <2>4, <2>5, <2>6
  <2> QED  BY <2>2, <2>7
<1>3. ASSUME NEW j \in 1..Len(v), Digit(H, v[j], H) = Digit(H, x, H)
      PROVE  x \in A
  <2>1. L \subseteq A \/ v[j] < LongPow[H]
    BY DEF Lists
  <2> QED  BY <1>2, <1>3, <2>1
<1> QED
  BY <1>1, <1>3

\* The offset of two vertices on the last level.
Place(H, x, y) == K * Digit(H, x, H) + Digit(H, y, H)

\* Those are the cells that deleteEdgesFromLTree clears.
LEMMA LeafCellsAre ==
  ASSUME NEW H \in Nat \ {0}, matrixSize = LongPow[H], level = H,
         NEW A, NEW B, NEW L, NEW r \in Nat, NEW c \in Nat,
         Lists(top.rows, A, L, H, H - 1, r), Lists(top.columns, B, L, H, H - 1, c)
  PROVE  /\ LeafCells \subseteq Offsets
         /\ \A e \in Cells :
              /\ e[1] < LongPow[H] /\ e[2] < LongPow[H] /\ e[1] \in L /\ e[2] \in L
              /\ Cut(H, e, H - 1) = Part(H - 1, r, c)
              => (Off(H, e, H) \in LeafCells <=> e[1] \in A /\ e[2] \in B)
<1> DEFINE rs == top.rows
           cs == top.columns
<1>1. \A x, y : Place(H, x, y) = CalculateOffset(x, y, level)
  <2>1. H \in Nat /\ H \in 1..H
    OBVIOUS
  <2>2. \A x : Digit(H, x, H) = OffsetOf(x, level)
    BY <2>1, WidthOfCode
  <2> QED  BY <2>2 DEF Place, CalculateOffset
<1>2. \A x : x \in LeafCells <=> \E i \in 1..Len(rs), j \in 1..Len(cs) :
                                   x = Place(H, rs[i], cs[j])
  <2>1. \A x : x \in LeafCells <=> \E i \in 1..Len(rs), j \in 1..Len(cs) :
                                    x = CalculateOffset(rs[i], cs[j], level)
    BY DEF LeafCells
  <2> HIDE DEF rs, cs
  <2> QED  BY <1>1, <2>1
<1> HIDE DEF rs, cs
<1>3. LeafCells \subseteq Offsets
  <2> SUFFICES ASSUME NEW i \in 1..Len(rs), NEW j \in 1..Len(cs)
               PROVE  Place(H, rs[i], cs[j]) \in Offsets
    <3> HIDE DEF LeafCells
    <3> QED  BY <1>2
  <2>1. rs[i] \in Nat /\ cs[j] \in Nat
    BY DEF Lists, rs, cs
  <2>2. H \in Nat /\ H \in 1..H
    OBVIOUS
  <2>3. Digit(H, rs[i], H) \in 0..(K - 1) /\ Digit(H, cs[j], H) \in 0..(K - 1)
    BY <2>1, <2>2, DigitIsNumber
  <2> QED  BY <2>3, DigitsOffset DEF Place, Offsets
<1>4. ASSUME NEW e \in Cells, e[1] < LongPow[H], e[2] < LongPow[H], e[1] \in L, e[2] \in L,
             Cut(H, e, H - 1) = Part(H - 1, r, c)
      PROVE  Off(H, e, H) \in LeafCells <=> e[1] \in A /\ e[2] \in B
  <2>1. Lists(rs, A, L, H, H - 1, r) /\ Lists(cs, B, L, H, H - 1, c)
    BY DEF rs, cs
  <2>2. e[1] \div Width(H, H - 1) = r /\ e[2] \div Width(H, H - 1) = c
    BY <1>4, PartEqual DEF Cut
  <2>3. e[1] \in Nat /\ e[2] \in Nat
    BY DEF Cells
  <2>4. /\ e[1] \in A <=> \E i \in 1..Len(rs) : Digit(H, rs[i], H) = Digit(H, e[1], H)
        /\ e[2] \in B <=> \E j \in 1..Len(cs) : Digit(H, cs[j], H) = Digit(H, e[2], H)
    BY <1>4, <2>1, <2>2, <2>3, EntryOnLeaf
  <2>5. ASSUME NEW i \in 1..Len(rs), NEW j \in 1..Len(cs)
        PROVE  Place(H, rs[i], cs[j]) = Off(H, e, H)
               <=> /\ Digit(H, rs[i], H) = Digit(H, e[1], H)
                   /\ Digit(H, cs[j], H) = Digit(H, e[2], H)
    <3>1. rs[i] \in Nat /\ cs[j] \in Nat /\ H \in Nat /\ H \in 1..H
      BY <2>1 DEF Lists
    <3>2. /\ Digit(H, rs[i], H) \in 0..(K - 1) /\ Digit(H, cs[j], H) \in 0..(K - 1)
          /\ Digit(H, e[1], H) \in 0..(K - 1) /\ Digit(H, e[2], H) \in 0..(K - 1)
      BY <2>3, <3>1, DigitIsNumber
    <3>3. /\ Off(H, e, H) \div K = Digit(H, e[1], H) /\ Off(H, e, H) % K = Digit(H, e[2], H)
          /\ Place(H, rs[i], cs[j]) \div K = Digit(H, rs[i], H)
          /\ Place(H, rs[i], cs[j]) % K = Digit(H, cs[j], H)
      BY <3>2, DigitsOffset DEF Off, Place
    <3>4. Off(H, e, H) = Place(H, e[1], e[2])
      BY DEF Off, Place
    <3> QED  BY <3>3, <3>4 DEF Place
  <2> HIDE DEF LeafCells
  <2>6. Off(H, e, H) \in LeafCells
        <=> \E i \in 1..Len(rs), j \in 1..Len(cs) : Place(H, rs[i], cs[j]) = Off(H, e, H)
    BY <1>2
  <2> QED  BY <2>4, <2>5, <2>6
<1> QED
  BY <1>3, <1>4

\* In a finite set of numbers, each number of elements up to the size is that of the
\* elements below some element.
LEMMA NthElement ==
  ASSUME NEW S \in SUBSET Nat, IsFiniteSet(S), NEW n \in 1..Cardinality(S)
  PROVE  \E a \in S : Cardinality({b \in S : b < a}) = n - 1
<1> DEFINE Under(a) == {b \in S : b < a}
<1>1. PICK k \in Nat : k = Cardinality(S)
  BY FS_CardinalityType
<1>2. \A a \in S : Under(a) \in SUBSET S /\ a \notin Under(a)
  OBVIOUS
<1>3. ASSUME NEW a \in S, NEW b \in S, a < b
      PROVE  Under(a) \in SUBSET Under(b) /\ a \in Under(b)
  <2>1. ASSUME NEW x \in S, x < a PROVE x < b
    <3>1. x \in Nat /\ a \in Nat /\ b \in Nat
      OBVIOUS
    <3> QED  BY <1>3, <2>1, <3>1
  <2> QED  BY <1>3, <2>1
<1> HIDE DEF Under
<1>4. ASSUME NEW a \in S
      PROVE  IsFiniteSet(Under(a)) /\ Cardinality(Under(a)) \in 0..(k - 1)
  <2>1. /\ IsFiniteSet(Under(a)) /\ Cardinality(Under(a)) <= k
        /\ k = Cardinality(Under(a)) => S = Under(a)
    BY <1>1, <1>2, FS_Subset
  <2>2. S # Under(a)
    BY <1>2
  <2>3. Cardinality(Under(a)) \in Nat
    BY <2>1, FS_CardinalityType
  <2> QED  BY <1>1, <2>1, <2>2, <2>3
<1>5. ASSUME NEW a \in S, NEW b \in S, a < b
      PROVE  Cardinality(Under(a)) # Cardinality(Under(b))
  <2>1. Under(a) \in SUBSET Under(b) /\ a \in Under(b)
    BY <1>3, <1>5
  <2>2. Cardinality(Under(b)) = Cardinality(Under(a)) => Under(b) = Under(a)
    BY <1>4, <2>1, FS_Subset
  <2> QED  BY <1>2, <2>1, <2>2
<1> DEFINE f == [a \in S |-> Cardinality(Under(a))]
<1>6. f \in Injection(S, 0..(k - 1))
  <2>1. f \in [S -> 0..(k - 1)]
    BY <1>4
  <2>2. ASSUME NEW a \in S, NEW b \in S, f[a] = f[b] PROVE a = b
    <3>1. a \in Nat /\ b \in Nat /\ Cardinality(Under(a)) = Cardinality(Under(b))
      BY <2>2
    <3> QED  BY <1>5, <3>1
  <2> QED  BY <2>1, <2>2 DEF Injection, IsInjective
<1>7. IsFiniteSet(0..(k - 1)) /\ Cardinality(0..(k - 1)) = k
  <2>1. 0 \in Int /\ k - 1 \in Int
    BY <1>1
  <2>2. /\ IsFiniteSet(0..(k - 1))
        /\ Cardinality(0..(k - 1)) = IF 0 > k - 1 THEN 0 ELSE (k - 1) - 0 + 1
    BY <2>1, FS_Interval
  <2> QED  BY <1>1, <2>2
<1>8. f \in Surjection(S, 0..(k - 1))
  <2> HIDE DEF f
  <2> QED  BY <1>1, <1>6, <1>7, FS_Injection
<1>9. n - 1 \in 0..(k - 1)
  BY <1>1
<1>10. PICK a \in S : f[a] = n - 1
  BY <1>8, <1>9 DEF Surjection
<1> QED
  BY <1>10 DEF Under

\* sortAndCheckVector gives a vector in ascending order, of the same vertices.
LEMMA SortedAscends ==
  ASSUME NEW v \in Seq(Nat), NEW w \in Sorted(Elements(v))
  PROVE  w \in Seq(Nat) /\ Ascending(w) /\ Elements(w) = Elements(v)
<1> DEFINE S == Elements(v)
           nth(n) == CHOOSE a \in S : Cardinality({b \in S : b < a}) = n - 1
<1>1. S \in SUBSET Nat /\ IsFiniteSet(S) /\ w \in Seq(Nat)
  BY ElementsType, SortedType
<1>2. w = [n \in 1..Cardinality(S) |-> nth(n)] /\ Elements(w) = S
  BY DEF Sorted
<1>3. \A n \in 1..Cardinality(S) : Cardinality({b \in S : b < nth(n)}) = n - 1 /\ nth(n) \in S
  <2> SUFFICES ASSUME NEW n \in 1..Cardinality(S)
               PROVE  Cardinality({b \in S : b < nth(n)}) = n - 1 /\ nth(n) \in S
    OBVIOUS
  <2>1. \E a \in S : Cardinality({b \in S : b < a}) = n - 1
    <3> HIDE DEF S
    <3> QED  BY <1>1, NthElement
  <2> HIDE DEF S
  <2> QED  BY <2>1, Zenon
<1> HIDE DEF nth, S
<1>4. Cardinality(S) \in Nat
  BY <1>1, FS_CardinalityType
<1>5. Len(w) = Cardinality(S)
  BY <1>1, <1>2, <1>4
<1>6. ASSUME NEW i \in 1..Len(w), NEW j \in 1..Len(w), i < j PROVE w[i] < w[j]
  <2> DEFINE Under(n) == {b \in S : b < nth(n)}
  <2>1. i \in 1..Cardinality(S) /\ j \in 1..Cardinality(S) /\ w[i] = nth(i) /\ w[j] = nth(j)
    BY <1>2, <1>5
  <2>2. nth(i) \in Nat /\ nth(j) \in Nat
    BY <1>1, <1>3, <2>1
  <2>3. Cardinality(Under(i)) = i - 1 /\ Cardinality(Under(j)) = j - 1
    BY <1>3, <2>1
  <2>4. SUFFICES ASSUME nth(j) <= nth(i) PROVE FALSE
    BY <2>1, <2>2
  <2>5. Under(j) \in SUBSET Under(i) /\ Under(i) \in SUBSET S
    <3>1. ASSUME NEW x \in S, x < nth(j) PROVE x < nth(i)
      <4>1. x \in Nat
        BY <1>1
      <4> QED  BY <2>2, <2>4, <3>1, <4>1
    <3> QED  BY <3>1
  <2> HIDE DEF Under
  <2>6. IsFiniteSet(Under(i))
    BY <1>1, <2>5, FS_Subset
  <2>7. Cardinality(Under(j)) <= Cardinality(Under(i))
    BY <2>5, <2>6, FS_Subset
  <2> QED  BY <1>6, <2>3, <2>7
<1> QED
  BY <1>1, <1>2, <1>6 DEF Ascending, S

\* allOthers in the loop of deleteEntry, when the free columns after the first t are
\* erased: what is left, in ascending order, each of the first entries at its own index.
Remaining(v, fc, ff, t) ==
  /\ v \in Seq(Nat) /\ Ascending(v)
  /\ \A x \in Nat : x \in Elements(v) <=> x < ff /\ \A k \in (t + 1)..Len(fc) : x # fc[k]
  /\ \A i \in 1..Len(v) : (\A k \in (t + 1)..Len(fc) : i - 1 < fc[k]) => v[i] = i - 1

\* The loop begins with all the vertices.
LEMMA RemainingStart ==
  ASSUME NEW ff \in Nat, NEW v, v = [i \in 1..ff |-> i - 1], NEW fc \in Seq(Nat)
  PROVE  Remaining(v, fc, ff, Len(fc))
<1>1. v \in [1..ff -> Nat]
  BY DEF Remaining
<1>2. v \in Seq(Nat) /\ Len(v) = ff
  BY <1>1, FunctionIsSeq
<1>3. Ascending(v)
  BY <1>2 DEF Ascending
<1>4. (Len(fc) + 1)..Len(fc) = {}
  OBVIOUS
<1>5. ASSUME NEW x \in Nat PROVE x \in Elements(v) <=> x < ff
  <2>1. x < ff => x + 1 \in 1..ff /\ v[x + 1] = x
    OBVIOUS
  <2>2. \A i \in 1..ff : v[i] = i - 1
    OBVIOUS
  <2> QED  BY <1>2, <2>1, <2>2 DEF Elements
<1> QED
  BY <1>2, <1>3, <1>4, <1>5 DEF Remaining

\* One of the free columns is erased, at its own index.
LEMMA RemainingStep ==
  ASSUME NEW ff \in Nat, NEW fc \in Seq(Nat), Ascending(fc), NEW t \in 1..Len(fc),
         NEW v, Remaining(v, fc, ff, t), fc[t] < Len(v)
  PROVE  Remaining(Erase(v, fc[t], 1), fc, ff, t - 1)
<1>1. PICK p \in Nat : p = fc[t]
  OBVIOUS
<1>2. PICK n \in Nat : n = Len(fc) /\ t \in 1..n /\ t \in Nat
  OBVIOUS
<1>3. \A k \in (t + 1)..n : k \in 1..n /\ fc[k] \in Nat /\ p < fc[k]
  BY <1>1, <1>2 DEF Ascending
<1>4. /\ v \in Seq(Nat) /\ Len(v) \in Nat /\ p < Len(v)
      /\ \A i \in 1..Len(v) : v[i] \in Nat
      /\ \A i, j \in 1..Len(v) : i < j => v[i] < v[j]
  BY <1>1 DEF Remaining, Ascending
<1>5. PICK w : w = Erase(v, p, 1)
  OBVIOUS
<1>6. w = [i \in 1..(Len(v) - 1) |-> IF i <= p THEN v[i] ELSE v[i + 1]]
  BY <1>5 DEF Erase
<1>7. \A i \in 1..(Len(v) - 1) : i \in 1..Len(v) /\ i + 1 \in 1..Len(v)
  BY <1>4
<1>8. w \in Seq(Nat) /\ Len(w) = Len(v) - 1
  <2>1. w \in [1..(Len(v) - 1) -> Nat]
    BY <1>4, <1>6, <1>7
  <2>2. Len(v) - 1 \in Nat
    BY <1>1, <1>4
  <2> QED  BY <2>1, <2>2, FunctionIsSeq
<1>9. ASSUME NEW i \in 1..Len(w)
      PROVE  /\ i \in 1..Len(v) /\ i + 1 \in 1..Len(v)
             /\ i <= p => w[i] = v[i]
             /\ i > p => w[i] = v[i + 1]
  <2>1. i \in 1..(Len(v) - 1) /\ i \in Int
    BY <1>4, <1>8
  <2>2. w[i] = IF i <= p THEN v[i] ELSE v[i + 1]
    BY <1>6, <2>1
  <2> QED  BY <1>1, <1>7, <2>1, <2>2
<1> HIDE <1>6
<1>10. Ascending(w)
  <2> SUFFICES ASSUME NEW i \in 1..Len(w), NEW j \in 1..Len(w), i < j PROVE w[i] < w[j]
    BY DEF Ascending
  <2>1. CASE j <= p
    <3>1. i <= p
      BY <1>8, <2>1
    <3>2. w[i] = v[i] /\ w[j] = v[j] /\ i \in 1..Len(v) /\ j \in 1..Len(v)
      BY <1>9, <2>1, <3>1
    <3> QED  BY <1>4, <3>2
  <2>2. CASE i <= p /\ j > p
    <3>1. w[i] = v[i] /\ w[j] = v[j + 1] /\ i \in 1..Len(v) /\ j + 1 \in 1..Len(v)
      BY <1>9, <2>2
    <3>2. i < j + 1
      OBVIOUS
    <3> QED  BY <1>4, <3>1, <3>2
  <2>3. CASE i > p /\ j > p
    <3>1. w[i] = v[i + 1] /\ w[j] = v[j + 1] /\ i + 1 \in 1..Len(v) /\ j + 1 \in 1..Len(v)
      BY <1>9, <2>3
    <3>2. i + 1 < j + 1
      OBVIOUS
    <3> QED  BY <1>4, <3>1, <3>2
  <2>4. \/ j <= p
        \/ i <= p /\ j > p
        \/ i > p /\ j > p
    BY <1>1, <1>8
  <2> QED  BY <2>1, <2>2, <2>3, <2>4
<1>11. p + 1 \in 1..Len(v) /\ v[p + 1] = p
  <2>1. p + 1 \in 1..Len(v) /\ (p + 1) - 1 = p
    BY <1>4
  <2>2. \A k \in (t + 1)..Len(fc) : (p + 1) - 1 < fc[k]
    BY <1>2, <1>3, <2>1
  <2>3. (p + 1 \in 1..Len(v) /\ \A k \in (t + 1)..Len(fc) : (p + 1) - 1 < fc[k])
        => v[p + 1] = (p + 1) - 1
    BY DEF Remaining
  <2> QED  BY <2>1, <2>2, <2>3
<1>12. ASSUME NEW x \in Nat
       PROVE  x \in Elements(w) <=> x < ff /\ \A k \in ((t - 1) + 1)..Len(fc) : x # fc[k]
  <2>1. (\A k \in ((t - 1) + 1)..Len(fc) : x # fc[k])
        <=> x # p /\ \A k \in (t + 1)..Len(fc) : x # fc[k]
    <3>1. (t - 1) + 1 = t
      BY <1>2
    <3>2. \A k : k \in t..n <=> k = t \/ k \in (t + 1)..n
      BY <1>2
    <3> QED  BY <1>1, <1>2, <3>1, <3>2
  <2>2. x \in Elements(v) <=> x < ff /\ \A k \in (t + 1)..Len(fc) : x # fc[k]
    BY DEF Remaining
  <2>3. ASSUME x \in Elements(w) PROVE x \in Elements(v) /\ x # p
    <3>1. PICK i \in 1..Len(w) : x = w[i]
      BY <2>3 DEF Elements
    <3>2. CASE i <= p
      <4>1. i \in 1..Len(v) /\ x = v[i]
        BY <1>9, <3>1, <3>2
      <4>2. v[i] < v[p + 1]
        BY <1>4, <1>11, <3>2, <4>1
      <4> QED  BY <1>4, <1>11, <4>1, <4>2 DEF Elements
    <3>3. CASE i > p
      <4>1. i + 1 \in 1..Len(v) /\ x = v[i + 1]
        BY <1>9, <3>1, <3>3
      <4>2. v[p + 1] < v[i + 1]
        BY <1>4, <1>11, <3>3, <4>1
      <4> QED  BY <1>4, <1>11, <4>1, <4>2 DEF Elements
    <3>4. i \in Int
      OBVIOUS
    <3> QED  BY <3>2, <3>3, <3>4
  <2>4. ASSUME x \in Elements(v), x # p PROVE x \in Elements(w)
    <3>1. PICK i \in 1..Len(v) : x = v[i]
      BY <2>4 DEF Elements
    <3>2. i # p + 1
      BY <1>11, <2>4, <3>1
    <3>3. CASE i <= p
      <4>1. i \in 1..Len(w)
        BY <1>4, <1>8, <3>3
      <4> QED  BY <1>9, <3>1, <3>3, <4>1 DEF Elements
    <3>4. CASE i > p
      <4>1. i - 1 \in 1..Len(w) /\ i - 1 > p /\ (i - 1) + 1 = i
        BY <1>1, <1>4, <1>8, <3>2, <3>4
      <4>2. w[i - 1] = x
        BY <1>9, <3>1, <4>1
      <4> QED  BY <4>1, <4>2 DEF Elements
    <3>5. i \in Int
      OBVIOUS
    <3> QED  BY <3>3, <3>4, <3>5
  <2> QED  BY <2>1, <2>2, <2>3, <2>4
<1>13. ASSUME NEW i \in 1..Len(w), \A k \in ((t - 1) + 1)..Len(fc) : i - 1 < fc[k]
       PROVE  w[i] = i - 1
  <2>1. t \in ((t - 1) + 1)..Len(fc)
    BY <1>2
  <2>2. i - 1 < p
    BY <1>1, <1>13, <2>1
  <2>3. i <= p /\ i \in 1..Len(v) /\ w[i] = v[i]
    BY <1>1, <1>9, <2>2
  <2>4. \A k \in (t + 1)..Len(fc) : i - 1 < fc[k]
    BY <1>2, <1>3, <2>2
  <2> QED  BY <2>3, <2>4 DEF Remaining
<1>14. Remaining(w, fc, ff, t - 1)
  BY <1>8, <1>10, <1>12, <1>13 DEF Remaining
<1> QED
  BY <1>1, <1>5, <1>14

\* At the end the vertices in use are left.
LEMMA RemainingDone ==
  ASSUME NEW ff \in Nat, NEW fc \in Seq(Nat), NEW v, Remaining(v, fc, ff, 0)
  PROVE  Elements(v) = (0..(ff - 1)) \ Elements(fc)
<1>1. v \in Seq(Nat)
  BY DEF Remaining
<1>2. Elements(v) \subseteq Nat
  BY <1>1, ElementsType
<1>3. ASSUME NEW x \in Nat PROVE x \in Elements(v) <=> x < ff /\ x \notin Elements(fc)
  <2>1. x \in Elements(v) <=> x < ff /\ \A k \in (0 + 1)..Len(fc) : x # fc[k]
    BY DEF Remaining
  <2> QED  BY <2>1 DEF Elements
<1>4. \A x : x \in 0..(ff - 1) <=> x \in Nat /\ x < ff
  OBVIOUS
<1> QED
  BY <1>2, <1>3, <1>4
-----------------------------------------------------------------------------
(* The two vectors, and the partitions of their blocks.                    *)

\* t and l have the bits of a matrix of H levels.
Vectors(t, l, m, N, H, part) ==
  /\ t \in Seq(BOOLEAN) /\ l \in Seq(BOOLEAN)
  /\ Len(t) = At(m)
  /\ Mapped(t \o l, m, N, H, part)

\* Their lengths.
LEMMA VectorsParts ==
  ASSUME NEW t, NEW l, NEW m, NEW N, NEW H, NEW part, Vectors(t, l, m, N, H, part)
  PROVE  /\ t \in Seq(BOOLEAN) /\ l \in Seq(BOOLEAN) /\ Mapped(t \o l, m, N, H, part)
         /\ H \in Nat /\ H >= 2 /\ N \in Nat /\ m \in Nat /\ 1 <= m /\ m <= N
         /\ Len(t) \in Nat /\ Len(l) \in Nat
         /\ Len(t) = At(m) /\ Len(t) + Len(l) = At(N) /\ Len(t \o l) = At(N)
<1>1. t \in Seq(BOOLEAN) /\ l \in Seq(BOOLEAN) /\ Mapped(t \o l, m, N, H, part)
      /\ Len(t) = At(m)
  BY DEF Vectors
<1>2. Len(t \o l) = Len(t) + Len(l) /\ Len(t) \in Nat /\ Len(l) \in Nat
  BY <1>1, JoinedVectors DEF Joined
<1>3. H \in Nat /\ H >= 2 /\ N \in Nat /\ m \in 1..N /\ Len(t \o l) = At(N)
  BY <1>1 DEF Mapped
<1> QED
  BY <1>1, <1>2, <1>3

\* The bits above the last level are in the first vector.
LEMMA UpperBits ==
  ASSUME NEW t, NEW l, NEW m, NEW N, NEW H, NEW part, Vectors(t, l, m, N, H, part),
         NEW x \in 0..(m - 1), NEW o \in Offsets
  PROVE  /\ At(x) + o \in 0..(Len(t) - 1)
         /\ Bit(t \o l, x, o) <=> Access(t, At(x) + o)
         /\ Child(t \o l, x, o) = Rank1(t, At(x) + o + 1)
<1>1. /\ t \in Seq(BOOLEAN) /\ l \in Seq(BOOLEAN) /\ m \in Nat
      /\ Len(t) \in Nat /\ Len(t) = At(m)
  BY VectorsParts
<1>2. x \in Nat /\ x < m
  BY <1>1
<1>3. PICK p \in Nat : p = At(x) + o
  BY <1>2, AtPosition
<1>4. p < Len(t)
  BY <1>1, <1>2, <1>3, AtBefore
<1>5. Access(t \o l, p) <=> Access(t, p)
  BY <1>1, <1>4, JoinedVectors DEF Joined
<1>6. p + 1 \in 0..Len(t)
  BY <1>1, <1>4
<1>7. Rank1(t \o l, p + 1) = Rank1(t, p + 1)
  BY <1>1, <1>6, RankJoined
<1> QED
  BY <1>1, <1>3, <1>4, <1>5, <1>7 DEF Bit, Child

\* Those of the last level are in the second.
LEMMA LowerBits ==
  ASSUME NEW t, NEW l, NEW m, NEW N, NEW H, NEW part, Vectors(t, l, m, N, H, part),
         NEW x \in m..(N - 1), NEW o \in Offsets
  PROVE  /\ At(x) + o >= Len(t) /\ At(x) + o \in Nat
         /\ (At(x) + o) - Len(t) \in 0..(Len(l) - 1)
         /\ Bit(t \o l, x, o) <=> Access(l, (At(x) + o) - Len(t))
         /\ ~Access(t, At(x) + o)
<1>1. /\ t \in Seq(BOOLEAN) /\ l \in Seq(BOOLEAN) /\ m \in Nat /\ N \in Nat
      /\ Len(t) \in Nat /\ Len(l) \in Nat /\ Len(t) = At(m) /\ Len(t) + Len(l) = At(N)
  BY VectorsParts
<1>2. x \in Nat /\ x >= m /\ x < N
  BY <1>1
<1>3. PICK p \in Nat : p = At(x) + o
  BY <1>2, AtPosition
<1>4. p >= Len(t) /\ p < Len(t) + Len(l)
  BY <1>1, <1>2, <1>3, AtBefore
<1>5. Access(t \o l, p) <=> Access(l, p - Len(t))
  <2>1. Joined(t \o l, t, l)
    BY <1>1, JoinedVectors
  <2>2. Access(t \o l, p) <=> \/ p < Len(t) /\ Access(t, p)
                              \/ p >= Len(t) /\ Access(l, p - Len(t))
    BY <2>1 DEF Joined
  <2> QED  BY <1>1, <1>4, <2>2
<1>6. ~Access(t, p)
  BY <1>1, <1>4 DEF Access
<1>7. Bit(t \o l, x, o) <=> Access(t \o l, p)
  BY <1>3 DEF Bit
<1>8. p - Len(t) \in 0..(Len(l) - 1)
  BY <1>1, <1>4
<1> QED
  BY <1>3, <1>4, <1>5, <1>6, <1>7, <1>8

\* The last level is where the first vector ends.
LEMMA VectorOfLevel ==
  ASSUME NEW t, NEW l, NEW m, NEW N, NEW H, NEW part, Vectors(t, l, m, N, H, part),
         NEW x \in 0..(N - 1), NEW o \in Offsets
  PROVE  /\ part[x].level < H /\ (x >= m <=> part[x].level = H - 1)
         /\ x >= m <=> At(x) + o >= Len(t)
         /\ x >= m <=> At(x) >= Len(t)
<1>1. m \in Nat /\ N \in Nat /\ Len(t) = At(m) /\ Mapped(t \o l, m, N, H, part)
  BY VectorsParts
<1>2. x \in Nat /\ 0 \in Offsets
  BY <1>1, BlockSize DEF Offsets
<1>3. At(x) + 0 = At(x)
  BY <1>2, AtOrder
<1>4. x >= m <=> At(x) + o >= Len(t)
  BY <1>1, <1>2, AtBefore
<1>5. x >= m <=> At(x) + 0 >= Len(t)
  BY <1>1, <1>2, AtBefore
<1>6. part[x].level < H /\ (x >= m <=> part[x].level = H - 1)
  BY <1>1 DEF Mapped, Named
<1> QED
  BY <1>3, <1>4, <1>5, <1>6

\* Below a 1 of the first vector is the block of its part.
LEMMA BlockBelow ==
  ASSUME NEW t, NEW l, NEW m, NEW N, NEW H, NEW part, Vectors(t, l, m, N, H, part),
         NEW x \in 0..(N - 1), NEW o \in Offsets, Access(t, At(x) + o),
         NEW y, y = Rank1(t, At(x) + o + 1)
  PROVE  /\ x < m /\ y \in 1..(N - 1) /\ part[y] = Sub(part[x], o)
         /\ y * BLOCK_SIZE = At(y)
<1>1. /\ m \in Nat /\ N \in Nat /\ Len(t) \in Nat /\ Len(t) = At(m)
      /\ Mapped(t \o l, m, N, H, part)
  BY VectorsParts
<1>2. ~(x >= m)
  <2>1. At(x) + o < Len(t)
    BY <1>1 DEF Access
  <2>2. At(x) + o \in Nat
    BY <1>1, AtPosition
  <2> QED  BY <1>1, <2>1, <2>2, VectorOfLevel
<1>3. x \in 0..(m - 1)
  BY <1>1, <1>2
<1>4. Bit(t \o l, x, o) /\ Child(t \o l, x, o) = y
  BY <1>3, UpperBits
<1>5. y \in 1..(N - 1) /\ part[y] = Sub(part[x], o)
  BY <1>1, <1>3, <1>4 DEF Mapped, Led
<1>6. y * BLOCK_SIZE = At(y)
  BY <1>1, <1>5, BlockSize DEF At
<1>7. x < m
  BY <1>1, <1>3
<1> QED
  BY <1>5, <1>6, <1>7

\* The bit of block c at offset o is set, and its block put in as block n.
SproutAt(B, m, N, H, part, c, o, n, W, M) ==
  /\ Mapped(B, m, N, H, part)
  /\ c \in 0..(m - 1) /\ o \in Offsets /\ ~Bit(B, c, o)
  /\ n \in 1..N /\ c < n /\ Child(B, c, o) + 1 = n
  /\ W = SetBit(InsertBlock(B, At(n)), At(c) + o, TRUE)
  /\ \/ part[c].level = H - 2 /\ n >= m /\ M = m
     \/ part[c].level < H - 2 /\ n <= m /\ M = m + 1

\* A block for the part of partition part[c] at offset o, whose bit was 0.
LEMMA Sprouting ==
  ASSUME NEW B, NEW m, NEW N, NEW H, NEW part, NEW c, NEW o, NEW n, NEW W, NEW M,
         SproutAt(B, m, N, H, part, c, o, n, W, M)
  PROVE  \E q : /\ Mapped(W, M, N + 1, H, q)
                /\ Edges(W, N + 1, H, q) = Edges(B, N, H, part)
                /\ q[n] = Sub(part[c], o)
                /\ \A y \in Offsets : ~Bit(W, n, y)
<1> USE DEF SproutAt
<1>1. /\ B \in Seq(BOOLEAN) /\ N \in Nat /\ m \in 1..N /\ Len(B) = At(N)
      /\ part \in [0..(N - 1) -> Parts] /\ o \in Offsets /\ n \in 1..N
  BY DEF Mapped, Named
<1>2. c \in 0..(n - 1) /\ c \in 0..(N - 1)
  BY <1>1
<1>3. Sprouts(B, N, c, o, n, W)
  BY <1>1, <1>2, BlockSprouts
<1>4. Sub(part[c], o) \in Parts
  BY <1>1, <1>2, SubType
<1>5. n \in 0..N
  BY <1>1
<1>6. PICK q : PutAt(N, n, part, Sub(part[c], o), q)
  <2>1. PICK s \in Parts : s = Sub(part[c], o)
    BY <1>4
  <2>2. N \in Nat /\ n \in 0..N /\ part \in [0..(N - 1) -> Parts]
    BY <1>1, <1>5
  <2>3. \E q : PutAt(N, n, part, s, q)
    BY ONLY <2>2, PartSprouts
  <2> QED  BY <2>1, <2>3
<1>7. c < m
  BY <1>1
<1>8. /\ Mapped(W, M, N + 1, H, q)
      /\ Edges(W, N + 1, H, q) = Edges(B, N, H, part)
  <2>1. SproutsPart(B, m, N, H, part, c, o, n, W, M, q)
    BY <1>3, <1>6, <1>7 DEF SproutsPart, PutAt
  <2> QED  BY ONLY <2>1, MappedSprouts
<1>9. \A y \in Offsets : ~Bit(W, n, y)
  BY <1>3 DEF Sprouts
<1> QED
  BY <1>6, <1>8, <1>9 DEF PutAt

\* A block of zeros is gone, and its 1 with it.
WitherAt(W, M, N, H, q, c, o, n, B, m) ==
  /\ Mapped(W, M, N, H, q)
  /\ n \in 0..(N - 1) /\ c \in 0..(N - 1) /\ c < n /\ o \in Offsets
  /\ q[n] = Sub(q[c], o) /\ OnlyZeros(W, At(n))
  /\ B = SetBit(DeleteBlock(W, At(n)), At(c) + o, FALSE)
  /\ m = (IF n < M THEN M - 1 ELSE M)

\* What is left is the tree of the same edges.
LEMMA Withering ==
  ASSUME NEW W, NEW M, NEW N, NEW H, NEW q, NEW c, NEW o, NEW n, NEW B, NEW m,
         WitherAt(W, M, N, H, q, c, o, n, B, m)
  PROVE  \E part : /\ Mapped(B, m, N - 1, H, part)
                   /\ Edges(B, N - 1, H, part) = Edges(W, N, H, q)
                   /\ \A x \in 0..(n - 1) : part[x] = q[x]
<1> USE DEF WitherAt
<1>1. W \in Seq(BOOLEAN) /\ N \in Nat /\ M \in 1..N /\ Len(W) = At(N)
  BY DEF Mapped
<1>2. c < M /\ Bit(W, c, o) /\ Child(W, c, o) = n
  BY OnlyChild
<1>3. PICK k \in Nat : k = N - 1 /\ N = k + 1
  BY <1>1
<1>4. n \in 1..k /\ c \in 0..(n - 1)
  BY <1>1, <1>3
<1>5. Len(W) = At(k + 1) /\ Mapped(W, M, k + 1, H, q)
  BY <1>1, <1>3
<1>6. Sprouts(B, k, c, o, n, W)
  BY <1>1, <1>2, <1>4, <1>5, BlockWithers
<1>7. PICK part : part = [x \in 0..(k - 1) |-> q[Moved(n, x)]]
  OBVIOUS
<1>8. /\ Mapped(B, m, k, H, part)
      /\ \A x \in 0..(k - 1) : q[Moved(n, x)] = part[x]
      /\ Edges(W, k + 1, H, q) = Edges(B, k, H, part)
  <2>1. WithersPart(W, M, k, H, q, c, o, n, B, m, part)
    BY <1>2, <1>5, <1>6, <1>7 DEF WithersPart
  <2> QED  BY ONLY <2>1, MappedWithers
<1>9. ASSUME NEW x \in 0..(n - 1) PROVE part[x] = q[x]
  <2>1. x \in 0..(k - 1) /\ Moved(n, x) = x
    BY <1>3, <1>4 DEF Moved
  <2> QED  BY <1>8, <2>1
<1> QED
  BY <1>3, <1>8, <1>9

\* A bit before a block is set before or after the block is inserted.
LEMMA SetThenInsert ==
  ASSUME NEW t \in Seq(BOOLEAN), NEW p \in Nat, NEW r \in Nat, p < r, r <= Len(t),
         NEW b \in BOOLEAN
  PROVE  InsertBlock(SetBit(t, p, b), r) = SetBit(InsertBlock(t, r), p, b)
<1>1. PICK k \in Nat : k = BLOCK_SIZE /\ k >= 4
  BY BlockSize
<1>2. PICK u \in Seq(BOOLEAN) : u = SetBit(t, p, b) /\ Len(u) = Len(t)
  BY SetBitType
<1> r \in Int
  OBVIOUS
<1>3. PICK v \in Seq(BOOLEAN) : v = InsertBlock(u, r) /\ Len(v) = Len(u) + k
  BY <1>1, InsertBlockType
<1>4. PICK s \in Seq(BOOLEAN) : s = InsertBlock(t, r) /\ Len(s) = Len(t) + k
  BY <1>1, InsertBlockType
<1>5. PICK w \in Seq(BOOLEAN) : w = SetBit(s, p, b) /\ Len(w) = Len(s)
  BY SetBitType
<1>6. Len(t) \in Nat /\ p \in 0..(Len(t) - 1) /\ p \in 0..(Len(s) - 1)
      /\ r \in 0..Len(t) /\ r \in 0..Len(u)
  BY <1>1, <1>2, <1>4
<1>7. \A q \in Nat : Access(u, q) <=> IF q = p THEN b ELSE Access(t, q)
  BY <1>2, <1>6, SetBitAccess
<1>8. \A q \in Nat : Access(w, q) <=> IF q = p THEN b ELSE Access(s, q)
  BY <1>5, <1>6, SetBitAccess
<1>9. \A q \in Nat : Access(v, q) <=> \/ q < r /\ Access(u, q)
                                      \/ q >= r + k /\ Access(u, q - k)
  BY <1>1, <1>3, <1>6, InsertBlockAccess
<1>10. \A q \in Nat : Access(s, q) <=> \/ q < r /\ Access(t, q)
                                       \/ q >= r + k /\ Access(t, q - k)
  BY <1>1, <1>4, <1>6, InsertBlockAccess
<1>11. ASSUME NEW q \in Nat PROVE Access(v, q) <=> Access(w, q)
  <2>1. CASE q < r
    BY <1>1, <1>7, <1>8, <1>9, <1>10, <2>1
  <2>2. CASE r <= q /\ q < r + k
    BY <1>1, <1>8, <1>9, <1>10, <2>2
  <2>3. CASE q >= r + k
    <3>1. q - k \in Nat /\ q - k # p /\ q # p /\ ~(q < r)
      BY <1>1, <2>3
    <3> QED  BY <1>7, <1>8, <1>9, <1>10, <2>3, <3>1
  <2> QED  BY <1>1, <2>1, <2>2, <2>3
<1>12. Len(v) = Len(w)
  BY <1>2, <1>3, <1>4, <1>5
<1>13. \A q \in 0..(Len(v) - 1) : Access(v, q) <=> Access(w, q)
  BY <1>11
<1>14. v = w
  BY <1>12, <1>13, SameVector
<1> QED
  BY <1>2, <1>3, <1>4, <1>5, <1>14

\* Setting and clearing a bit gives the vector back.
LEMMA SetAndClear ==
  ASSUME NEW t \in Seq(BOOLEAN), NEW p \in 0..(Len(t) - 1), NEW b \in BOOLEAN,
         Access(t, p) <=> b
  PROVE  SetBit(SetBit(t, p, ~b), p, b) = t
<1>1. PICK u \in Seq(BOOLEAN) : u = SetBit(t, p, ~b) /\ Len(u) = Len(t)
  BY SetBitType
<1>2. PICK v \in Seq(BOOLEAN) : v = SetBit(u, p, b) /\ Len(v) = Len(u)
  BY SetBitType
<1>3. (~b) \in BOOLEAN /\ p \in 0..(Len(u) - 1)
  BY <1>1
<1>4. \A q \in Nat : Access(u, q) <=> IF q = p THEN ~b ELSE Access(t, q)
  BY <1>1, <1>3, SetBitAccess
<1>5. \A q \in Nat : Access(v, q) <=> IF q = p THEN b ELSE Access(u, q)
  BY <1>2, <1>3, SetBitAccess
<1>6. \A q \in 0..(Len(v) - 1) : Access(v, q) <=> Access(t, q)
  BY <1>4, <1>5
<1>7. v = t
  BY <1>1, <1>2, <1>6, SameVector
<1> QED
  BY <1>1, <1>2, <1>7

\* A 0 above the last level of t has been set, and its block belongs before block n.
Sets(t, l, m, N, H, part, x, o, u, n) ==
  /\ Vectors(t, l, m, N, H, part)
  /\ x \in 0..(m - 1) /\ o \in Offsets /\ ~Access(t, At(x) + o)
  /\ u = SetBit(t, At(x) + o, TRUE)
  /\ n = Rank1(u, At(x) + o + 1) /\ x < n /\ n <= N

\* What the set bit says of the vectors taken together.
LEMMA SetsParts ==
  ASSUME NEW t, NEW l, NEW m, NEW N, NEW H, NEW part, NEW x, NEW o, NEW u, NEW n,
         Sets(t, l, m, N, H, part, x, o, u, n)
  PROVE  /\ t \in Seq(BOOLEAN) /\ l \in Seq(BOOLEAN) /\ u \in Seq(BOOLEAN)
         /\ t \o l \in Seq(BOOLEAN) /\ Mapped(t \o l, m, N, H, part)
         /\ N \in Nat /\ m \in 1..N /\ H \in Nat /\ n \in 1..N /\ x \in 0..(m - 1) /\ o \in Offsets
         /\ Len(u) = Len(t) /\ Len(t) = At(m) /\ Len(t) \in Nat /\ Len(l) \in Nat
         /\ Len(t) + Len(l) = At(N)
         /\ At(x) + o \in 0..(Len(t) - 1) /\ At(n) \in Nat /\ At(x) + o < At(n)
         /\ At(n) <= At(N) /\ (n <= m => At(n) <= Len(t)) /\ (n >= m => At(n) >= Len(t))
         /\ ~Bit(t \o l, x, o) /\ Child(t \o l, x, o) + 1 = n
<1>1. /\ Vectors(t, l, m, N, H, part)
      /\ x \in 0..(m - 1) /\ o \in Offsets /\ ~Access(t, At(x) + o)
      /\ u = SetBit(t, At(x) + o, TRUE)
      /\ n = Rank1(u, At(x) + o + 1) /\ x < n /\ n <= N
  BY DEF Sets
<1>2. /\ t \in Seq(BOOLEAN) /\ l \in Seq(BOOLEAN) /\ Mapped(t \o l, m, N, H, part)
      /\ H \in Nat /\ H >= 2 /\ N \in Nat /\ m \in Nat /\ 1 <= m /\ m <= N
      /\ Len(t) \in Nat /\ Len(l) \in Nat
      /\ Len(t) = At(m) /\ Len(t) + Len(l) = At(N) /\ Len(t \o l) = At(N)
  BY ONLY <1>1, VectorsParts
<1>3. /\ At(x) + o \in 0..(Len(t) - 1)
      /\ Bit(t \o l, x, o) <=> Access(t, At(x) + o)
      /\ Child(t \o l, x, o) = Rank1(t, At(x) + o + 1)
  BY ONLY <1>1, UpperBits
<1>4. PICK p : p = At(x) + o
  OBVIOUS
<1>5. p \in 0..(Len(t) - 1) /\ p \in Nat /\ p + 1 \in Nat /\ p < p + 1
  BY <1>2, <1>3, <1>4
<1>6. u \in Seq(BOOLEAN) /\ Len(u) = Len(t)
  <2>1. TRUE \in BOOLEAN
    OBVIOUS
  <2>2. SetBit(t, p, TRUE) \in Seq(BOOLEAN) /\ Len(SetBit(t, p, TRUE)) = Len(t)
    BY ONLY <1>2, <2>1, SetBitType
  <2> QED  BY <1>1, <1>4, <2>2
<1>7. Rank1(SetBit(t, p, TRUE), p + 1) = Rank1(t, p + 1) + 1
  <2>1. Access(t, p) <=> ~TRUE
    BY <1>1, <1>4
  <2>2. Rank1(SetBit(t, p, TRUE), p + 1)
          = Rank1(t, p + 1) + (IF p < p + 1 THEN IF TRUE THEN 1 ELSE -1 ELSE 0)
    BY ONLY <1>2, <1>5, <2>1, RankSetBit
  <2> QED  BY ONLY <1>5, <2>2
<1>8. Rank1(t, p + 1) \in Nat
  BY ONLY <1>2, Rank1Type
<1>9. Child(t \o l, x, o) + 1 = n
  BY <1>1, <1>3, <1>4, <1>7
<1>10. n \in 1..N /\ x \in Nat /\ n \in Nat /\ m \in 1..N
  <2>1. n = Rank1(t, p + 1) + 1
    BY ONLY <1>1, <1>4, <1>7
  <2>2. n \in Nat
    BY ONLY <1>8, <2>1
  <2>3. x \in Nat
    BY ONLY <1>1, <1>2
  <2>4. x < n /\ n <= N
    BY ONLY <1>1
  <2>5. N \in Nat /\ m \in Nat /\ 1 <= m /\ m <= N
    BY ONLY <1>2
  <2> QED  BY ONLY <2>2, <2>3, <2>4, <2>5
<1>11. At(n) \in Nat /\ At(x) + o < At(n) /\ At(n) <= At(N)
  BY <1>1, <1>2, <1>10, AtOrder, AtBefore
<1>12. (n <= m => At(n) <= Len(t)) /\ (n >= m => At(n) >= Len(t))
  BY <1>2, <1>10, AtOrder
<1>13. t \o l \in Seq(BOOLEAN)
  BY ONLY <1>2, JoinedVectors
<1>14. ~Bit(t \o l, x, o)
  BY ONLY <1>1, <1>3
<1> QED
  BY ONLY <1>1, <1>2, <1>3, <1>6, <1>9, <1>10, <1>11, <1>12, <1>13, <1>14, Zenon

\* The block of the new 1 is inserted in the first vector, above the last level.
LEMMA TreeGrows ==
  ASSUME NEW t, NEW l, NEW m, NEW N, NEW H, NEW part, NEW x, NEW o, NEW u, NEW n,
         Sets(t, l, m, N, H, part, x, o, u, n), part[x].level < H - 2, n <= m
  PROVE  \E q : /\ Vectors(InsertBlock(u, At(n)), l, m + 1, N + 1, H, q)
                /\ Edges(InsertBlock(u, At(n)) \o l, N + 1, H, q) = Edges(t \o l, N, H, part)
                /\ q[n] = Sub(part[x], o)
                /\ \A y \in Offsets : ~Access(InsertBlock(u, At(n)), At(n) + y)
<1>1. /\ t \in Seq(BOOLEAN) /\ l \in Seq(BOOLEAN) /\ u \in Seq(BOOLEAN)
      /\ t \o l \in Seq(BOOLEAN) /\ Mapped(t \o l, m, N, H, part)
      /\ N \in Nat /\ m \in 1..N /\ H \in Nat /\ n \in 1..N /\ x \in 0..(m - 1) /\ o \in Offsets
      /\ Len(u) = Len(t) /\ Len(t) = At(m) /\ Len(t) \in Nat /\ Len(l) \in Nat
      /\ At(x) + o \in 0..(Len(t) - 1) /\ At(n) \in Nat /\ At(x) + o < At(n)
      /\ (n <= m => At(n) <= Len(t))
      /\ ~Bit(t \o l, x, o) /\ Child(t \o l, x, o) + 1 = n
  BY ONLY Sets(t, l, m, N, H, part, x, o, u, n), SetsParts
<1>2. n <= m /\ part[x].level < H - 2
  OBVIOUS
<1>3. u = SetBit(t, At(x) + o, TRUE) /\ x < n
  BY DEF Sets
<1> DEFINE p == At(x) + o
           r == At(n)
<1>4. p \in Nat /\ r \in Nat /\ r \in Int /\ p < r /\ r <= Len(t) /\ TRUE \in BOOLEAN
  BY ONLY <1>1, <1>2
<1>5. SetBit(t, p, TRUE) = u
  BY <1>3
<1> HIDE DEF p, r
<1>6. InsertBlock(SetBit(t, p, TRUE), r) = SetBit(InsertBlock(t, r), p, TRUE)
  BY ONLY <1>1, <1>4, SetThenInsert
<1>7. InsertBlock(t, r) \in Seq(BOOLEAN) /\ Len(InsertBlock(t, r)) = Len(t) + BLOCK_SIZE
  BY ONLY <1>1, <1>4, InsertBlockType
<1>8. SetBit(InsertBlock(t, r), p, TRUE) \o l = SetBit(InsertBlock(t, r) \o l, p, TRUE)
  <2>1. p < Len(InsertBlock(t, r))
    BY ONLY <1>1, <1>4, <1>7, BlockSize
  <2> QED  BY ONLY <1>1, <1>4, <1>7, <2>1, ChangeFirst
<1>9. InsertBlock(t, r) \o l = InsertBlock(t \o l, r)
  BY ONLY <1>1, <1>4, ChangeFirst
<1>10. InsertBlock(u, r) \o l = SetBit(InsertBlock(t \o l, r), p, TRUE)
  BY ONLY <1>5, <1>6, <1>8, <1>9
<1>11. PICK q : /\ Mapped(InsertBlock(u, r) \o l, m + 1, N + 1, H, q)
                /\ Edges(InsertBlock(u, r) \o l, N + 1, H, q) = Edges(t \o l, N, H, part)
                /\ q[n] = Sub(part[x], o)
                /\ \A y \in Offsets : ~Bit(InsertBlock(u, r) \o l, n, y)
  <2>1. SproutAt(t \o l, m, N, H, part, x, o, n, InsertBlock(u, r) \o l, m + 1)
    BY <1>1, <1>2, <1>3, <1>10 DEF p, r, SproutAt
  <2> QED  BY ONLY <2>1, Sprouting
<1>12. InsertBlock(u, r) \in Seq(BOOLEAN) /\ Len(InsertBlock(u, r)) = At(m + 1)
  <2>1. InsertBlock(u, r) \in Seq(BOOLEAN) /\ Len(InsertBlock(u, r)) = Len(u) + BLOCK_SIZE
    BY ONLY <1>1, <1>4, InsertBlockType
  <2>2. m \in Nat
    BY ONLY <1>1
  <2>3. At(m + 1) = At(m) + BLOCK_SIZE
    BY ONLY <2>2, AtNext
  <2> QED  BY ONLY <1>1, <2>1, <2>3
<1>13. Vectors(InsertBlock(u, r), l, m + 1, N + 1, H, q)
  BY <1>1, <1>11, <1>12 DEF Vectors
<1>14. ASSUME NEW y \in Offsets PROVE ~Access(InsertBlock(u, r), At(n) + y)
  <2>1. n \in 0..((m + 1) - 1)
    BY ONLY <1>1, <1>2
  <2>2. Bit(InsertBlock(u, r) \o l, n, y) <=> Access(InsertBlock(u, r), At(n) + y)
    BY ONLY <1>13, <1>14, <2>1, UpperBits
  <2> QED  BY <1>11, <2>2
<1> QED
  BY <1>11, <1>13, <1>14 DEF r

\* The block of the new 1 is inserted in the second vector.
LEMMA LeafGrows ==
  ASSUME NEW t, NEW l, NEW m, NEW N, NEW H, NEW part, NEW x, NEW o, NEW u, NEW n,
         Sets(t, l, m, N, H, part, x, o, u, n), part[x].level = H - 2, n >= m
  PROVE  \E q : /\ Vectors(u, InsertBlock(l, At(n) - Len(t)), m, N + 1, H, q)
                /\ Edges(u \o InsertBlock(l, At(n) - Len(t)), N + 1, H, q)
                     = Edges(t \o l, N, H, part)
                /\ q[n] = Sub(part[x], o)
<1>1. /\ t \in Seq(BOOLEAN) /\ l \in Seq(BOOLEAN) /\ u \in Seq(BOOLEAN)
      /\ t \o l \in Seq(BOOLEAN) /\ Mapped(t \o l, m, N, H, part)
      /\ N \in Nat /\ m \in 1..N /\ H \in Nat /\ n \in 1..N /\ x \in 0..(m - 1) /\ o \in Offsets
      /\ Len(u) = Len(t) /\ Len(t) = At(m) /\ Len(t) \in Nat /\ Len(l) \in Nat
      /\ Len(t) + Len(l) = At(N)
      /\ At(x) + o \in 0..(Len(t) - 1) /\ At(n) \in Nat /\ At(x) + o < At(n)
      /\ At(n) <= At(N) /\ (n >= m => At(n) >= Len(t))
      /\ ~Bit(t \o l, x, o) /\ Child(t \o l, x, o) + 1 = n
  BY ONLY Sets(t, l, m, N, H, part, x, o, u, n), SetsParts
<1>2. n >= m /\ part[x].level = H - 2
  OBVIOUS
<1>3. u = SetBit(t, At(x) + o, TRUE) /\ x < n
  BY DEF Sets
<1> DEFINE p == At(x) + o
           r == At(n)
           s == r - Len(t)
           v == InsertBlock(l, s)
<1>4. /\ p \in Nat /\ r \in Nat /\ r \in Int /\ p < r /\ TRUE \in BOOLEAN
      /\ s \in Nat /\ s \in Int /\ r = Len(t) + s /\ s <= Len(l) /\ p < Len(t)
  BY ONLY <1>1, <1>2
<1>5. SetBit(t, p, TRUE) = u
  BY <1>3
<1>6. v \in Seq(BOOLEAN) /\ Len(v) = Len(l) + BLOCK_SIZE
  <2> HIDE DEF s
  <2> QED  BY <1>1, <1>4, InsertBlockType
<1> HIDE DEF p, r, s, v
<1>7. t \o v = InsertBlock(t \o l, r)
  <2>1. t \in Seq(BOOLEAN) /\ l \in Seq(BOOLEAN)
    BY ONLY <1>1
  <2>2. s \in Nat /\ r \in Nat /\ r = Len(t) + s /\ s <= Len(l)
    BY ONLY <1>4
  <2> QED  BY ONLY <2>1, <2>2, ChangeSecond DEF v
<1>8. SetBit(t, p, TRUE) \o v = SetBit(t \o v, p, TRUE)
  BY ONLY <1>1, <1>4, <1>6, ChangeFirst
<1>9. u \o v = SetBit(InsertBlock(t \o l, r), p, TRUE)
  BY ONLY <1>5, <1>7, <1>8
<1>10. PICK q : /\ Mapped(u \o v, m, N + 1, H, q)
                /\ Edges(u \o v, N + 1, H, q) = Edges(t \o l, N, H, part)
                /\ q[n] = Sub(part[x], o)
  <2>1. SproutAt(t \o l, m, N, H, part, x, o, n, u \o v, m)
    BY <1>1, <1>2, <1>3, <1>9 DEF p, r, SproutAt
  <2> QED  BY ONLY <2>1, Sprouting
<1>11. Vectors(u, v, m, N + 1, H, q)
  BY <1>1, <1>6, <1>10 DEF Vectors
<1> QED
  BY <1>10, <1>11 DEF v, s, r

\* Block n is the child of block c at offset o.
IsChild(t, l, m, N, H, part, c, o, n) ==
  /\ Vectors(t, l, m, N, H, part)
  /\ n \in 0..(N - 1) /\ c \in 0..(N - 1) /\ c < n /\ o \in Offsets
  /\ part[n] = Sub(part[c], o)

\* What that says of the vectors taken together.
LEMMA ChildParts ==
  ASSUME NEW t, NEW l, NEW m, NEW N, NEW H, NEW part, NEW c, NEW o, NEW n,
         IsChild(t, l, m, N, H, part, c, o, n)
  PROVE  /\ t \in Seq(BOOLEAN) /\ l \in Seq(BOOLEAN)
         /\ t \o l \in Seq(BOOLEAN) /\ Mapped(t \o l, m, N, H, part)
         /\ N \in Nat /\ m \in 1..N /\ H \in Nat /\ n \in 1..(N - 1) /\ c \in 0..(m - 1)
         /\ c \in 0..(N - 1) /\ o \in Offsets
         /\ Len(t) = At(m) /\ Len(t) \in Nat /\ Len(l) \in Nat /\ Len(t) + Len(l) = At(N)
         /\ At(c) + o \in 0..(Len(t) - 1) /\ At(n) \in Nat /\ At(c) + o < At(n)
         /\ At(n) + BLOCK_SIZE <= At(N)
         /\ (n < m => At(n) + BLOCK_SIZE <= Len(t)) /\ (n >= m => At(n) >= Len(t))
         /\ Access(t, At(c) + o) /\ n = Rank1(t, At(c) + o + 1)
<1>1. /\ Vectors(t, l, m, N, H, part)
      /\ n \in 0..(N - 1) /\ c \in 0..(N - 1) /\ c < n /\ o \in Offsets
      /\ part[n] = Sub(part[c], o)
  BY DEF IsChild
<1>2. /\ t \in Seq(BOOLEAN) /\ l \in Seq(BOOLEAN) /\ Mapped(t \o l, m, N, H, part)
      /\ H \in Nat /\ H >= 2 /\ N \in Nat /\ m \in Nat /\ 1 <= m /\ m <= N
      /\ Len(t) \in Nat /\ Len(l) \in Nat
      /\ Len(t) = At(m) /\ Len(t) + Len(l) = At(N) /\ Len(t \o l) = At(N)
  BY ONLY <1>1, VectorsParts
<1>3. c < m /\ Bit(t \o l, c, o) /\ Child(t \o l, c, o) = n
  BY ONLY <1>1, <1>2, OnlyChild
<1>4. c \in 0..(m - 1) /\ m \in 1..N /\ n \in 1..(N - 1) /\ n \in Nat /\ c \in Nat
  <2>1. n \in 0..(N - 1) /\ c \in 0..(N - 1) /\ c < n
    BY ONLY <1>1
  <2>2. N \in Nat /\ m \in Nat /\ 1 <= m /\ m <= N /\ c < m
    BY ONLY <1>2, <1>3
  <2> QED  BY ONLY <2>1, <2>2
<1>5. /\ At(c) + o \in 0..(Len(t) - 1)
      /\ Bit(t \o l, c, o) <=> Access(t, At(c) + o)
      /\ Child(t \o l, c, o) = Rank1(t, At(c) + o + 1)
  BY ONLY <1>1, <1>4, UpperBits
<1>6. /\ At(n) \in Nat /\ At(c) + o < At(n) /\ At(n) + BLOCK_SIZE <= At(N)
      /\ (n < m => At(n) + BLOCK_SIZE <= Len(t)) /\ (n >= m => At(n) >= Len(t))
  <2>1. n < N /\ c < n /\ n \in Nat /\ c \in Nat /\ N \in Nat /\ m \in Nat /\ o \in Offsets
    BY ONLY <1>1, <1>2, <1>4
  <2>2. At(n) \in Nat /\ At(n) + BLOCK_SIZE <= At(N)
    BY ONLY <2>1, AtOrder
  <2>3. At(c) + o < At(n)
    BY ONLY <2>1, AtBefore
  <2>4. (n < m => At(n) + BLOCK_SIZE <= At(m)) /\ (n >= m => At(n) >= At(m))
    BY ONLY <2>1, AtOrder
  <2> QED  BY ONLY <1>2, <2>2, <2>3, <2>4
<1>7. t \o l \in Seq(BOOLEAN)
  BY ONLY <1>2, JoinedVectors
<1> QED
  BY ONLY <1>1, <1>2, <1>3, <1>4, <1>5, <1>6, <1>7, Zenon

\* Block n, of zeros, is deleted from the first vector, and its 1 is cleared.
TreeLoses(t, l, m, N, H, part, c, o, n, w) ==
  /\ IsChild(t, l, m, N, H, part, c, o, n) /\ n < m /\ OnlyZeros(t, At(n))
  /\ w = SetBit(DeleteBlock(t, At(n)), At(c) + o, FALSE)

\* No edge goes with it.
LEMMA TreeWithers ==
  ASSUME NEW t, NEW l, NEW m, NEW N, NEW H, NEW part, NEW c, NEW o, NEW n,
         NEW w, TreeLoses(t, l, m, N, H, part, c, o, n, w)
  PROVE  \E q : /\ Vectors(w, l, m - 1, N - 1, H, q)
                /\ Edges(w \o l, N - 1, H, q) = Edges(t \o l, N, H, part)
                /\ \A x \in 0..(n - 1) : q[x] = part[x]
<1>0. /\ IsChild(t, l, m, N, H, part, c, o, n) /\ n < m /\ OnlyZeros(t, At(n))
      /\ w = SetBit(DeleteBlock(t, At(n)), At(c) + o, FALSE)
  BY DEF TreeLoses
<1>1. /\ t \in Seq(BOOLEAN) /\ l \in Seq(BOOLEAN)
      /\ t \o l \in Seq(BOOLEAN) /\ Mapped(t \o l, m, N, H, part)
      /\ N \in Nat /\ m \in 1..N /\ H \in Nat /\ n \in 1..(N - 1) /\ c \in 0..(m - 1)
      /\ o \in Offsets
      /\ Len(t) = At(m) /\ Len(t) \in Nat /\ Len(l) \in Nat
      /\ At(c) + o \in 0..(Len(t) - 1) /\ At(n) \in Nat /\ At(c) + o < At(n)
      /\ (n < m => At(n) + BLOCK_SIZE <= Len(t))
  BY ONLY <1>0, ChildParts
<1>2. n < m /\ OnlyZeros(t, At(n)) /\ w = SetBit(DeleteBlock(t, At(n)), At(c) + o, FALSE)
  BY ONLY <1>0
<1> DEFINE p == At(c) + o
           r == At(n)
           d == DeleteBlock(t, r)
<1>3. p \in Nat /\ r \in Nat /\ r \in Int /\ p < r /\ FALSE \in BOOLEAN /\ r + BLOCK_SIZE <= Len(t)
  BY ONLY <1>1, <1>2
<1>4. w = SetBit(d, p, FALSE)
  BY <1>2
<1> HIDE DEF p, r
<1>5. d \in Seq(BOOLEAN) /\ Len(d) = Len(t) - BLOCK_SIZE
  BY ONLY <1>1, <1>3, DeleteBlockType, DeleteBlockAccess
<1> HIDE DEF d
<1>6. w \in Seq(BOOLEAN) /\ Len(w) = Len(d)
  BY ONLY <1>3, <1>4, <1>5, SetBitType
<1>7. d \o l = DeleteBlock(t \o l, r)
  BY ONLY <1>1, <1>3, ChangeFirst DEF d
<1>8. SetBit(d, p, FALSE) \o l = SetBit(d \o l, p, FALSE)
  <2>1. p < Len(d)
    BY ONLY <1>1, <1>3, <1>5, BlockSize
  <2> QED  BY ONLY <1>1, <1>3, <1>5, <2>1, ChangeFirst
<1>9. w \o l = SetBit(DeleteBlock(t \o l, r), p, FALSE)
  BY ONLY <1>4, <1>7, <1>8
<1>10. OnlyZeros(t \o l, r)
  <2>1. ASSUME NEW i \in 0..(BLOCK_SIZE - 1) PROVE ~Access(t \o l, r + i)
    <3>1. r + i \in Nat /\ r + i < Len(t)
      BY ONLY <1>1, <1>3, <2>1, BlockSize
    <3>2. ~Access(t, r + i)
      BY <1>2, <2>1 DEF r, OnlyZeros
    <3>3. Joined(t \o l, t, l)
      BY ONLY <1>1, JoinedVectors
    <3> QED  BY ONLY <3>1, <3>2, <3>3, <1>1 DEF Joined
  <2> QED  BY <2>1 DEF OnlyZeros
<1>11. PICK q : /\ Mapped(w \o l, m - 1, N - 1, H, q)
                /\ Edges(w \o l, N - 1, H, q) = Edges(t \o l, N, H, part)
                /\ \A x \in 0..(n - 1) : q[x] = part[x]
  <2>1. m - 1 = (IF n < m THEN m - 1 ELSE m)
    BY ONLY <1>2
  <2>2. n \in 0..(N - 1) /\ c \in 0..(N - 1) /\ c < n /\ part[n] = Sub(part[c], o)
    BY ONLY <1>0 DEF IsChild
  <2>3. WitherAt(t \o l, m, N, H, part, c, o, n, w \o l, m - 1)
    BY <1>1, <1>9, <1>10, <2>1, <2>2 DEF p, r, WitherAt
  <2> QED  BY ONLY <2>3, Withering
<1>12. Len(w) = At(m - 1)
  <2>1. m - 1 \in Nat /\ (m - 1) + 1 = m
    BY ONLY <1>1
  <2>2. At((m - 1) + 1) = At(m - 1) + BLOCK_SIZE /\ At(m - 1) \in Nat
    BY ONLY <2>1, AtNext
  <2> QED  BY ONLY <1>1, <1>5, <1>6, <2>1, <2>2, BlockSize
<1>13. Vectors(w, l, m - 1, N - 1, H, q)
  BY <1>1, <1>6, <1>11, <1>12 DEF Vectors
<1> QED
  BY <1>11, <1>13

\* Block n, of zeros, is deleted from the second vector, and its 1 in the first is cleared.
LeafLoses(t, l, m, N, H, part, c, o, n, w, v) ==
  /\ IsChild(t, l, m, N, H, part, c, o, n) /\ n >= m /\ OnlyZeros(l, At(n) - Len(t))
  /\ w = SetBit(t, At(c) + o, FALSE) /\ v = DeleteBlock(l, At(n) - Len(t))

\* No edge goes with it either.
LEMMA LeafWithers ==
  ASSUME NEW t, NEW l, NEW m, NEW N, NEW H, NEW part, NEW c, NEW o, NEW n,
         NEW w, NEW v, LeafLoses(t, l, m, N, H, part, c, o, n, w, v)
  PROVE  \E q : /\ Vectors(w, v, m, N - 1, H, q)
                /\ Edges(w \o v, N - 1, H, q) = Edges(t \o l, N, H, part)
                /\ \A x \in 0..(n - 1) : q[x] = part[x]
<1>0. /\ IsChild(t, l, m, N, H, part, c, o, n) /\ n >= m /\ OnlyZeros(l, At(n) - Len(t))
      /\ w = SetBit(t, At(c) + o, FALSE) /\ v = DeleteBlock(l, At(n) - Len(t))
  BY DEF LeafLoses
<1>1. /\ t \in Seq(BOOLEAN) /\ l \in Seq(BOOLEAN)
      /\ t \o l \in Seq(BOOLEAN) /\ Mapped(t \o l, m, N, H, part)
      /\ N \in Nat /\ m \in 1..N /\ H \in Nat /\ n \in 1..(N - 1) /\ c \in 0..(m - 1)
      /\ o \in Offsets
      /\ Len(t) = At(m) /\ Len(t) \in Nat /\ Len(l) \in Nat /\ Len(t) + Len(l) = At(N)
      /\ At(c) + o \in 0..(Len(t) - 1) /\ At(n) \in Nat /\ At(c) + o < At(n)
      /\ At(n) + BLOCK_SIZE <= At(N) /\ (n >= m => At(n) >= Len(t))
  BY ONLY <1>0, ChildParts
<1>2. /\ n >= m /\ OnlyZeros(l, At(n) - Len(t)) /\ w = SetBit(t, At(c) + o, FALSE)
      /\ v = DeleteBlock(l, At(n) - Len(t))
  BY ONLY <1>0
<1> DEFINE p == At(c) + o
           r == At(n)
           s == r - Len(t)
<1>3. /\ p \in Nat /\ r \in Nat /\ p < Len(t) /\ FALSE \in BOOLEAN
      /\ s \in Nat /\ s \in Int /\ r = Len(t) + s /\ s + BLOCK_SIZE <= Len(l)
  BY ONLY <1>1, <1>2, BlockSize
<1>4. w = SetBit(t, p, FALSE) /\ v = DeleteBlock(l, s) /\ OnlyZeros(l, s)
  BY <1>2
<1> HIDE DEF p, r, s
<1>5. v \in Seq(BOOLEAN)
  BY ONLY <1>1, <1>3, <1>4, DeleteBlockType
<1>6. w \in Seq(BOOLEAN) /\ Len(w) = Len(t)
  BY ONLY <1>1, <1>3, <1>4, SetBitType
<1>7. t \o DeleteBlock(l, s) = DeleteBlock(t \o l, r)
  <2>1. t \in Seq(BOOLEAN) /\ l \in Seq(BOOLEAN)
    BY ONLY <1>1
  <2>2. s \in Nat /\ r \in Nat /\ r = Len(t) + s /\ s + BLOCK_SIZE <= Len(l)
    BY ONLY <1>3
  <2> QED  BY ONLY <2>1, <2>2, ChangeSecond
<1>8. SetBit(t, p, FALSE) \o v = SetBit(t \o v, p, FALSE)
  BY ONLY <1>1, <1>3, <1>5, ChangeFirst
<1>9. w \o v = SetBit(DeleteBlock(t \o l, r), p, FALSE)
  BY ONLY <1>4, <1>7, <1>8
<1>10. OnlyZeros(t \o l, r)
  <2>1. ASSUME NEW i \in 0..(BLOCK_SIZE - 1) PROVE ~Access(t \o l, r + i)
    <3>1. r + i \in Nat /\ r + i >= Len(t) /\ ~(r + i < Len(t)) /\ (r + i) - Len(t) = s + i
      <4>1. i \in Nat
        BY <2>1, BlockSize
      <4>2. s \in Nat /\ r \in Nat /\ Len(t) \in Nat /\ r = Len(t) + s
        BY ONLY <1>1, <1>3
      <4> QED  BY ONLY <4>1, <4>2
    <3>2. ~Access(l, s + i)
      BY <1>4, <2>1 DEF OnlyZeros
    <3>3. Joined(t \o l, t, l)
      BY ONLY <1>1, JoinedVectors
    <3> QED  BY ONLY <3>1, <3>2, <3>3 DEF Joined
  <2> QED  BY <2>1 DEF OnlyZeros
<1>11. PICK q : /\ Mapped(w \o v, m, N - 1, H, q)
                /\ Edges(w \o v, N - 1, H, q) = Edges(t \o l, N, H, part)
                /\ \A x \in 0..(n - 1) : q[x] = part[x]
  <2>1. m = (IF n < m THEN m - 1 ELSE m)
    BY ONLY <1>1, <1>2
  <2>2. n \in 0..(N - 1) /\ c \in 0..(N - 1) /\ c < n /\ part[n] = Sub(part[c], o)
    BY ONLY <1>0 DEF IsChild
  <2>3. WitherAt(t \o l, m, N, H, part, c, o, n, w \o v, m)
    BY <1>1, <1>9, <1>10, <2>1, <2>2 DEF p, r, WitherAt
  <2> QED  BY ONLY <2>3, Withering
<1>12. Vectors(w, v, m, N - 1, H, q)
  BY <1>1, <1>5, <1>6, <1>11 DEF Vectors
<1> QED
  BY <1>11, <1>12

\* Block x is the one of cell e on the last level.
AtCell(t, l, m, N, H, part, x, e) ==
  /\ Vectors(t, l, m, N, H, part)
  /\ e \in Cells /\ x \in 0..(N - 1) /\ part[x] = Cut(H, e, H - 1)

\* Where the bit of that cell is.
LEMMA CellBit ==
  ASSUME NEW t, NEW l, NEW m, NEW N, NEW H, NEW part, NEW x, NEW e,
         AtCell(t, l, m, N, H, part, x, e)
  PROVE  /\ x \in m..(N - 1) /\ x >= m /\ Off(H, e, H) \in Offsets
         /\ At(x) + Off(H, e, H) >= Len(t) /\ At(x) + Off(H, e, H) \in Nat
         /\ (At(x) + Off(H, e, H)) - Len(t) \in 0..(Len(l) - 1)
         /\ e \in Edges(t \o l, N, H, part) <=> Access(l, (At(x) + Off(H, e, H)) - Len(t))
<1>1. Vectors(t, l, m, N, H, part) /\ e \in Cells /\ x \in 0..(N - 1) /\ part[x] = Cut(H, e, H - 1)
  BY DEF AtCell
<1>2. H \in Nat /\ H >= 2 /\ N \in Nat /\ m \in Nat /\ Mapped(t \o l, m, N, H, part)
  BY ONLY <1>1, VectorsParts
<1>3. Off(H, e, H) \in Offsets
  <2>1. H \in 1..H
    BY ONLY <1>2
  <2> QED  BY ONLY <1>1, <1>2, <2>1, CutStep
<1>4. x \in m..(N - 1) /\ x >= m
  <2>1. part[x].level = H - 1
    BY ONLY <1>1 DEF Cut, Part
  <2>2. x >= m
    BY ONLY <1>1, <1>3, <2>1, VectorOfLevel
  <2> QED  BY ONLY <1>1, <1>2, <2>2
<1>5. /\ At(x) + Off(H, e, H) >= Len(t) /\ At(x) + Off(H, e, H) \in Nat
      /\ (At(x) + Off(H, e, H)) - Len(t) \in 0..(Len(l) - 1)
      /\ Bit(t \o l, x, Off(H, e, H)) <=> Access(l, (At(x) + Off(H, e, H)) - Len(t))
  BY ONLY <1>1, <1>3, <1>4, LowerBits
<1>6. e \in Edges(t \o l, N, H, part) <=> Bit(t \o l, x, Off(H, e, H))
  BY ONLY <1>1, <1>2, EdgeBit
<1> QED
  BY ONLY <1>3, <1>4, <1>5, <1>6

\* Setting or clearing that bit.
LEMMA LeafSet ==
  ASSUME NEW t, NEW l, NEW m, NEW N, NEW H, NEW part, NEW x, NEW e,
         AtCell(t, l, m, N, H, part, x, e), NEW b \in BOOLEAN,
         NEW v, v = SetBit(l, (At(x) + Off(H, e, H)) - Len(t), b)
  PROVE  /\ Vectors(t, v, m, N, H, part)
         /\ b => Edges(t \o v, N, H, part) = Edges(t \o l, N, H, part) \cup {e}
         /\ ~b => Edges(t \o v, N, H, part) = Edges(t \o l, N, H, part) \ {e}
<1>1. Vectors(t, l, m, N, H, part) /\ e \in Cells /\ x \in 0..(N - 1) /\ part[x] = Cut(H, e, H - 1)
  BY DEF AtCell
<1>2. /\ t \in Seq(BOOLEAN) /\ l \in Seq(BOOLEAN) /\ Mapped(t \o l, m, N, H, part)
      /\ Len(t) \in Nat /\ Len(l) \in Nat /\ Len(t) = At(m)
  BY ONLY <1>1, VectorsParts
<1> DEFINE P == At(x) + Off(H, e, H)
           s == P - Len(t)
<1>3. P >= Len(t) /\ P \in Nat /\ s \in 0..(Len(l) - 1)
  BY ONLY AtCell(t, l, m, N, H, part, x, e), CellBit
<1>4. v = SetBit(l, s, b) /\ P = At(x) + Off(H, e, H)
  OBVIOUS
<1>5. s \in Nat /\ P = Len(t) + s /\ s < Len(l)
  BY ONLY <1>2, <1>3
<1> HIDE DEF P, s
<1>6. t \o SetBit(l, s, b) = SetBit(t \o l, P, b)
  <2>1. t \in Seq(BOOLEAN) /\ l \in Seq(BOOLEAN) /\ P \in Nat
    BY ONLY <1>2, <1>3
  <2> QED  BY ONLY b \in BOOLEAN, <1>5, <2>1, ChangeSecond
<1>7. t \o v = SetBit(t \o l, At(x) + Off(H, e, H), b)
  BY ONLY <1>4, <1>6
<1>8. /\ Mapped(t \o v, m, N, H, part)
      /\ b => Edges(t \o v, N, H, part) = Edges(t \o l, N, H, part) \cup {e}
      /\ ~b => Edges(t \o v, N, H, part) = Edges(t \o l, N, H, part) \ {e}
  <2>1. PICK V : V = SetBit(t \o l, At(x) + Off(H, e, H), b)
    OBVIOUS
  <2>2. /\ Mapped(V, m, N, H, part)
        /\ b => Edges(V, N, H, part) = Edges(t \o l, N, H, part) \cup {e}
        /\ ~b => Edges(V, N, H, part) = Edges(t \o l, N, H, part) \ {e}
    BY ONLY b \in BOOLEAN, <1>1, <1>2, <2>1, SetEdge
  <2>3. V = t \o v
    BY ONLY <1>7, <2>1
  <2> QED  BY ONLY <2>2, <2>3
<1>9. v \in Seq(BOOLEAN)
  BY ONLY b \in BOOLEAN, <1>2, <1>4, SetBitType
<1> QED
  BY <1>2, <1>8, <1>9 DEF Vectors

\* v is l with that bit set.
Marks(t, l, m, N, H, part, x, e, v) ==
  /\ AtCell(t, l, m, N, H, part, x, e)
  /\ v = SetBit(l, (At(x) + Off(H, e, H)) - Len(t), TRUE)

\* Setting it adds the edge.
LEMMA LeafMarked ==
  ASSUME NEW t, NEW l, NEW m, NEW N, NEW H, NEW part, NEW x, NEW e, NEW v,
         Marks(t, l, m, N, H, part, x, e, v)
  PROVE  /\ Vectors(t, v, m, N, H, part)
         /\ Edges(t \o v, N, H, part) = Edges(t \o l, N, H, part) \cup {e}
<1>1. PICK b : b = TRUE
  OBVIOUS
<1>2. /\ b \in BOOLEAN /\ v = SetBit(l, (At(x) + Off(H, e, H)) - Len(t), b)
      /\ AtCell(t, l, m, N, H, part, x, e)
  BY <1>1 DEF Marks
<1>3. /\ Vectors(t, v, m, N, H, part)
      /\ b => Edges(t \o v, N, H, part) = Edges(t \o l, N, H, part) \cup {e}
  BY ONLY <1>2, LeafSet
<1> QED  BY <1>1, <1>3, Zenon

\* v is l with that bit cleared.
Unmarks(t, l, m, N, H, part, x, e, v) ==
  /\ AtCell(t, l, m, N, H, part, x, e)
  /\ v = SetBit(l, (At(x) + Off(H, e, H)) - Len(t), FALSE)

\* Clearing it removes the edge.
LEMMA LeafUnmarked ==
  ASSUME NEW t, NEW l, NEW m, NEW N, NEW H, NEW part, NEW x, NEW e, NEW v,
         Unmarks(t, l, m, N, H, part, x, e, v)
  PROVE  /\ Vectors(t, v, m, N, H, part)
         /\ Edges(t \o v, N, H, part) = Edges(t \o l, N, H, part) \ {e}
<1>1. PICK b : b = FALSE
  OBVIOUS
<1>2. /\ b \in BOOLEAN /\ v = SetBit(l, (At(x) + Off(H, e, H)) - Len(t), b)
      /\ AtCell(t, l, m, N, H, part, x, e)
  BY <1>1 DEF Unmarks
<1>3. /\ Vectors(t, v, m, N, H, part)
      /\ ~b => Edges(t \o v, N, H, part) = Edges(t \o l, N, H, part) \ {e}
  BY ONLY <1>2, LeafSet
<1> QED  BY <1>1, <1>3, Zenon

\* deleteEdgesFromLTree makes v of l: it clears the offsets S of block x.
Clears(t, l, m, N, H, part, x, S, v) ==
  /\ Vectors(t, l, m, N, H, part) /\ x \in m..(N - 1) /\ S \in SUBSET Offsets
  /\ v = [i \in 1..Len(l) |-> l[i] /\ (i - 1) - (At(x) - Len(t)) \notin S]

\* What goes with the bits.
LEMMA LeafCleared ==
  ASSUME NEW t, NEW l, NEW m, NEW N, NEW H, NEW part, NEW x, NEW S, NEW v,
         Clears(t, l, m, N, H, part, x, S, v)
  PROVE  /\ Vectors(t, v, m, N, H, part)
         /\ \A e \in Cells :
              e \in Edges(t \o v, N, H, part) <=>
                /\ e \in Edges(t \o l, N, H, part)
                /\ ~(part[x] = Cut(H, e, H - 1) /\ Off(H, e, H) \in S)
<1>0. /\ Vectors(t, l, m, N, H, part) /\ x \in m..(N - 1) /\ S \in SUBSET Offsets
      /\ v = [i \in 1..Len(l) |-> l[i] /\ (i - 1) - (At(x) - Len(t)) \notin S]
  BY DEF Clears
<1>1. /\ t \in Seq(BOOLEAN) /\ l \in Seq(BOOLEAN) /\ Mapped(t \o l, m, N, H, part)
      /\ H \in Nat /\ H >= 2 /\ N \in Nat /\ m \in Nat /\ 1 <= m /\ m <= N
      /\ Len(t) \in Nat /\ Len(l) \in Nat
      /\ Len(t) = At(m) /\ Len(t) + Len(l) = At(N) /\ Len(t \o l) = At(N)
  BY ONLY <1>0, VectorsParts
<1>2. x \in Nat /\ x >= m /\ x < N /\ At(x) \in Nat /\ x \in 0..(N - 1)
  <2>1. x \in m..(N - 1)
    BY <1>0
  <2>2. x \in Nat /\ x >= m /\ x < N /\ x \in 0..(N - 1)
    BY ONLY <1>1, <2>1
  <2> QED  BY ONLY <2>2, AtOrder
<1>3. v \in Seq(BOOLEAN) /\ Len(v) = Len(l)
  <2>1. v \in [1..Len(l) -> BOOLEAN]
    <3>1. ASSUME NEW i \in 1..Len(l) PROVE l[i] \in BOOLEAN
      BY ONLY <1>1, <3>1
    <3> QED  BY <1>0, <3>1
  <2> QED  BY ONLY <1>1, <2>1, FunctionIsSeq
<1>4. ASSUME NEW q \in 0..(Len(l) - 1)
      PROVE  Access(v, q) <=> Access(l, q) /\ q - (At(x) - Len(t)) \notin S
  <2>1. q \in Int /\ q + 1 \in 1..Len(l) /\ (q + 1) - 1 = q
    BY ONLY <1>1, <1>4
  <2>2. v[q + 1] <=> l[q + 1] /\ ((q + 1) - 1) - (At(x) - Len(t)) \notin S
    BY <1>0, <2>1
  <2>3. q \in 0..(Len(v) - 1)
    BY ONLY <1>3, <1>4
  <2> QED  BY ONLY <1>4, <2>1, <2>2, <2>3 DEF Access
<1>5. t \o v \in Seq(BOOLEAN) /\ Joined(t \o v, t, v) /\ Joined(t \o l, t, l)
  BY ONLY <1>1, <1>3, JoinedVectors
<1>6. Len(t \o v) = Len(t \o l)
  BY ONLY <1>3, <1>5 DEF Joined
<1>7. \A p \in Nat : p < At(m) => (Access(t \o v, p) <=> Access(t \o l, p))
  <2> SUFFICES ASSUME NEW p \in Nat, p < At(m) PROVE Access(t \o v, p) <=> Access(t \o l, p)
    OBVIOUS
  <2>1. p < Len(t) /\ ~(p >= Len(t))
    BY ONLY <1>1, p \in Nat, p < At(m)
  <2> QED  BY ONLY <1>5, <2>1, p \in Nat DEF Joined
<1>8. Mapped(t \o v, m, N, H, part)
  BY ONLY <1>1, <1>5, <1>6, <1>7, MappedLeaves
<1>9. Vectors(t, v, m, N, H, part)
  BY ONLY <1>1, <1>3, <1>8 DEF Vectors
<1>10. ASSUME NEW y \in m..(N - 1), NEW o \in Offsets
       PROVE  Bit(t \o v, y, o) <=> Bit(t \o l, y, o) /\ ~(y = x /\ o \in S)
  <2>1. PICK q : q = (At(y) + o) - Len(t)
    OBVIOUS
  <2>2. q \in 0..(Len(l) - 1) /\ (Bit(t \o l, y, o) <=> Access(l, q)) /\ At(y) + o \in Nat
    BY <1>0, <1>10, <2>1, LowerBits
  <2>3. Bit(t \o v, y, o) <=> Access(v, q)
    BY ONLY <1>9, <1>10, <2>1, LowerBits
  <2>4. Access(v, q) <=> Access(l, q) /\ q - (At(x) - Len(t)) \notin S
    BY ONLY <1>4, <2>2
  <2>5. y \in Nat /\ o \in Nat
    BY ONLY <1>1, <1>10, BlockSize DEF Offsets
  <2>6. PICK z : z = q - (At(x) - Len(t))
    OBVIOUS
  <2>7. z \in Int /\ At(y) + o = At(x) + z
    <3>1. At(y) \in Nat
      BY ONLY <2>5, AtOrder
    <3>2. PICK a \in Nat : a = At(y)
      BY <3>1
    <3>3. PICK c \in Nat : c = At(x)
      BY <1>2
    <3>4. PICK k \in Nat : k = Len(t)
      BY <1>1
    <3>5. q = (a + o) - k /\ z = q - (c - k)
      BY <2>1, <2>6, <3>2, <3>3, <3>4
    <3>6. z \in Int /\ a + o = c + z
      BY ONLY a \in Nat, c \in Nat, k \in Nat, <2>5, <3>5
    <3> QED  BY ONLY <3>2, <3>3, <3>6
  <2>8. z \in S => y = x /\ z = o
    <3> HAVE z \in S
    <3>1. z \in Offsets
      BY <1>0
    <3> QED  BY ONLY <1>2, <1>10, <2>5, <2>7, <3>1, AtSame
  <2>9. y = x => z = o
    BY ONLY <1>2, <2>5, <2>7
  <2> QED  BY ONLY <2>2, <2>3, <2>4, <2>6, <2>8, <2>9
<1>11. ASSUME NEW e \in Cells, NEW y \in 0..(N - 1), part[y] = Cut(H, e, H - 1)
       PROVE  Bit(t \o v, y, Off(H, e, H)) <=>
                Bit(t \o l, y, Off(H, e, H)) /\ ~(part[x] = Cut(H, e, H - 1) /\ Off(H, e, H) \in S)
  <2>1. AtCell(t, l, m, N, H, part, y, e)
    BY <1>0, <1>11 DEF AtCell
  <2>2. y \in m..(N - 1) /\ Off(H, e, H) \in Offsets
    BY ONLY <2>1, CellBit
  <2>3. y = x <=> part[x] = Cut(H, e, H - 1)
    BY ONLY <1>1, <1>2, <1>11 DEF Mapped, Named
  <2> QED  BY ONLY <1>10, <2>2, <2>3
<1>12. ASSUME NEW e \in Cells
       PROVE  e \in Edges(t \o v, N, H, part) <=>
                /\ e \in Edges(t \o l, N, H, part)
                /\ ~(part[x] = Cut(H, e, H - 1) /\ Off(H, e, H) \in S)
  BY ONLY <1>11, <1>12 DEF Edges
<1> QED
  BY <1>9, <1>12
-----------------------------------------------------------------------------
(* The partitions of the activations.                                      *)

\* The partition of the block that begins at p.
PartAt(part, p) == part[p \div BLOCK_SIZE]

\* The number of a block from its position.
LEMMA PartAtBlock ==
  ASSUME NEW part, NEW x \in Nat
  PROVE  PartAt(part, At(x)) = part[x]
<1>1. PICK k \in Nat : k = BLOCK_SIZE /\ k >= 4
  BY BlockSize
<1>2. k > 0 /\ 0 \in 0..(k - 1)
  BY <1>1
<1>3. (k * x + 0) \div k = x
  BY ONLY k \in Nat, x \in Nat, <1>2, DivisionUnique
<1>4. k * x \in Nat
  BY ONLY k \in Nat, x \in Nat
<1>5. k * x + 0 = k * x
  BY ONLY <1>4
<1>6. At(x) = k * x
  BY <1>1 DEF At
<1>7. At(x) \div BLOCK_SIZE = x
  BY <1>1, <1>3, <1>5, <1>6
<1> QED
  BY <1>7 DEF PartAt

\* The activations fs are on blocks of the partitions of levels 0, 1, ..., each a
\* part of its caller's, and each after its caller's.
Along(N, part, fs) ==
  /\ \A i \in 1..Len(fs) : \E x \in 0..(N - 1) :
       /\ fs[i].firstAt = At(x) /\ PartAt(part, fs[i].firstAt) = part[x]
       /\ part[x].level = i - 1
  /\ PartAt(part, fs[1].firstAt) = Whole
  /\ \A i \in 1..(Len(fs) - 1) :
       /\ fs[i].offset \in Offsets
       /\ PartAt(part, fs[i + 1].firstAt) = Sub(PartAt(part, fs[i].firstAt), fs[i].offset)
  /\ \A i, j \in 1..Len(fs) : i < j => fs[i].firstAt < fs[j].firstAt

\* Those of a path in t are.
LEMMA PathParts ==
  ASSUME NEW t, NEW l, NEW m, NEW N, NEW H, NEW part, Vectors(t, l, m, N, H, part),
         NEW b, Numbers(b, H), NEW fs, OnPath(t, H, b, fs), fs[1].firstAt = 0
  PROVE  Along(N, part, fs)
<1>1. /\ H \in Nat /\ N \in Nat /\ m \in Nat /\ 1 <= m /\ m <= N
      /\ Mapped(t \o l, m, N, H, part)
  BY ONLY Vectors(t, l, m, N, H, part), VectorsParts
<1>2. part[0] = Whole /\ part \in [0..(N - 1) -> Parts]
  BY ONLY <1>1 DEF Mapped, Named
<1>3. PICK n \in Nat : n = Len(fs) /\ 1 <= n /\ n <= H
  BY <1>1 DEF OnPath
<1> DEFINE Is(i, x) == fs[i].firstAt = At(x) /\ PartAt(part, fs[i].firstAt) = part[x]
                       /\ part[x].level = i - 1
<1>4. Is(1, 0)
  <2>1. fs[1].firstAt = At(0) /\ 0 \in Nat
    BY AtOrder
  <2>2. PartAt(part, fs[1].firstAt) = part[0]
    BY <2>1, PartAtBlock
  <2>3. part[0].level = 1 - 1
    BY <1>2 DEF Whole, Part
  <2> QED  BY <2>1, <2>2, <2>3
<1>5. ASSUME NEW i \in 1..(n - 1), NEW x \in 0..(N - 1), Is(i, x)
      PROVE  \E y \in 0..(N - 1) : /\ Is(i + 1, y)
                                   /\ part[y] = Sub(part[x], fs[i].offset)
  <2>1. /\ fs[i].offset \in Offsets
        /\ Access(t, fs[i].firstAt + fs[i].offset)
        /\ fs[i + 1].firstAt = Rank1(t, fs[i].firstAt + fs[i].offset + 1) * BLOCK_SIZE
    BY <1>3 DEF OnPath, Offsets
  <2>2. PICK y : y = Rank1(t, At(x) + fs[i].offset + 1)
    OBVIOUS
  <2>3. Access(t, At(x) + fs[i].offset) /\ fs[i + 1].firstAt = y * BLOCK_SIZE
    BY <1>5, <2>1, <2>2
  <2>4. y \in 1..(N - 1) /\ part[y] = Sub(part[x], fs[i].offset) /\ y * BLOCK_SIZE = At(y)
    BY ONLY x \in 0..(N - 1), Vectors(t, l, m, N, H, part), <2>1, <2>2, <2>3, BlockBelow
  <2>5. y \in Nat /\ y \in 0..(N - 1)
    BY ONLY <1>1, <2>4
  <2>6. PartAt(part, fs[i + 1].firstAt) = part[y]
    BY <2>3, <2>4, <2>5, PartAtBlock
  <2>7. part[y].level = (i + 1) - 1
    <3>1. part[x] \in Parts /\ part[x].level = i - 1
      BY <1>2, <1>5
    <3>2. Sub(part[x], fs[i].offset).level = part[x].level + 1
      BY ONLY <2>1, <3>1, SubType
    <3>3. i \in Nat
      BY <1>3
    <3> QED  BY ONLY <2>4, <3>1, <3>2, <3>3
  <2> QED  BY <2>3, <2>4, <2>5, <2>6, <2>7
<1>6. ASSUME NEW i \in 1..n PROVE \E x \in 0..(N - 1) : Is(i, x)
  <2> DEFINE S == {j \in 1..n : ~\E x \in 0..(N - 1) : Is(j, x)}
  <2>1. SUFFICES ASSUME S # {} PROVE FALSE
    BY DEF S
  <2>2. S \in SUBSET Nat
    OBVIOUS
  <2>3. PICK j \in S : \A k \in S : j <= k
    BY <2>1, <2>2, LeastNatural
  <2>4. j \in 1..n /\ ~\E x \in 0..(N - 1) : Is(j, x)
    BY <2>3
  <2>5. j # 1
    BY <1>1, <1>4, <2>4
  <2>6. PICK k \in 1..(n - 1) : k + 1 = j /\ k < j
    BY <1>3, <2>4, <2>5
  <2>7. k \in 1..n /\ k \notin S
    BY <1>3, <2>3, <2>6
  <2>8. PICK x \in 0..(N - 1) : Is(k, x)
    BY <2>7
  <2>9. \E y \in 0..(N - 1) : Is(k + 1, y)
    BY <1>5, <2>8
  <2> QED  BY <2>4, <2>6, <2>9
<1>7. ASSUME NEW i \in 1..(n - 1)
      PROVE  /\ fs[i].offset \in Offsets
             /\ PartAt(part, fs[i + 1].firstAt) = Sub(PartAt(part, fs[i].firstAt), fs[i].offset)
  <2>1. i \in 1..n
    BY <1>3
  <2>2. PICK x \in 0..(N - 1) : Is(i, x)
    BY <1>6, <2>1
  <2>3. PICK y \in 0..(N - 1) : Is(i + 1, y) /\ part[y] = Sub(part[x], fs[i].offset)
    BY <1>5, <2>2
  <2>4. fs[i].offset \in Offsets
    BY <1>3 DEF OnPath, Offsets
  <2> QED  BY <2>2, <2>3, <2>4
<1>8. ASSUME NEW i \in 1..n, NEW j \in 1..n, i < j
      PROVE  fs[i].firstAt < fs[j].firstAt
  <2>1. PICK c \in b[i - 1]..(b[i] - 1) : fs[i].firstAt = At(c)
    BY <1>3 DEF OnPath, BlockOn
  <2>2. PICK d \in b[j - 1]..(b[j] - 1) : fs[j].firstAt = At(d)
    BY <1>3 DEF OnPath, BlockOn
  <2>3. i \in 0..H /\ i - 1 \in 0..H /\ j - 1 \in 0..H /\ j \in 0..H /\ i <= j - 1
    BY ONLY <1>1, <1>3, <1>8
  <2>4. b[i - 1] \in Nat /\ b[i] \in Nat /\ b[j - 1] \in Nat /\ b[j] \in Nat /\ b[i] <= b[j - 1]
    BY ONLY <2>3, Numbers(b, H) DEF Numbers
  <2>5. c \in Nat /\ d \in Nat /\ c < d
    BY ONLY c \in b[i - 1]..(b[i] - 1), d \in b[j - 1]..(b[j] - 1), <2>4
  <2>6. At(c) + BLOCK_SIZE <= At(d) /\ At(c) \in Nat /\ At(d) \in Nat
    BY ONLY <2>5, AtOrder
  <2> QED  BY <2>1, <2>2, <2>6, BlockSize
<1>9. PartAt(part, fs[1].firstAt) = Whole
  BY <1>2, <1>4
<1> QED
  BY <1>3, <1>6, <1>7, <1>8, <1>9 DEF Along
-----------------------------------------------------------------------------
(* What a recursion has passed.                                            *)

\* The first k activations of fs have passed cell e: one of them is on a block e is
\* below, at an offset beyond that of e. findAllEdges goes through the offsets upwards
\* (s = 1), deleteEdges downwards.
PassedUpTo(fs, k, H, part, e, s) ==
  \E i \in 1..k : /\ i < H /\ Cut(H, e, i - 1) = PartAt(part, fs[i].firstAt)
                  /\ IF s = 1 THEN Off(H, e, i) < fs[i].offset ELSE Off(H, e, i) > fs[i].offset

Passed(fs, H, part, e, s) == PassedUpTo(fs, Len(fs), H, part, e, s)

\* gs are the first k activations of fs, the last of them at the next offset.
Moves(fs, k, gs, s) ==
  /\ k \in 1..Len(fs) /\ Len(gs) = k
  /\ \A i \in 1..k : /\ gs[i].firstAt = fs[i].firstAt
                     /\ gs[i].rows = fs[i].rows /\ gs[i].columns = fs[i].columns
                     /\ i < k => gs[i].offset = fs[i].offset
  /\ gs[k].offset = fs[k].offset + s

\* q names the partitions of the first k activations as part does.
Agree(fs, k, part, q) == \A i \in 1..k : PartAt(q, fs[i].firstAt) = PartAt(part, fs[i].firstAt)

\* A cell is below an activation if it is below the bit its caller is at.
LEMMA NextCut ==
  ASSUME NEW N, NEW part, NEW fs, Along(N, part, fs), NEW H \in Nat, NEW e \in Cells,
         part \in [0..(N - 1) -> Parts],
         Len(fs) \in Nat, NEW i \in 1..(Len(fs) - 1), i <= H
  PROVE  Cut(H, e, i) = PartAt(part, fs[i + 1].firstAt) <=>
           /\ Cut(H, e, i - 1) = PartAt(part, fs[i].firstAt)
           /\ Off(H, e, i) = fs[i].offset
<1>1. /\ fs[i].offset \in Offsets
      /\ PartAt(part, fs[i + 1].firstAt) = Sub(PartAt(part, fs[i].firstAt), fs[i].offset)
  BY DEF Along
<1>2. PartAt(part, fs[i].firstAt) \in Parts
  <2>1. i \in 1..Len(fs)
    OBVIOUS
  <2> QED  BY <2>1 DEF Along
<1>3. /\ Off(H, e, i) \in Offsets /\ Cut(H, e, i - 1) \in Parts
      /\ Cut(H, e, i) = Sub(Cut(H, e, i - 1), Off(H, e, i))
  <2>1. i \in 1..H
    OBVIOUS
  <2> QED  BY <2>1, CutStep
<1>4. PICK c \in Parts : c = Cut(H, e, i - 1)
  BY <1>3
<1>5. PICK d \in Parts : d = PartAt(part, fs[i].firstAt)
  BY <1>2
<1>6. PICK o \in Offsets : o = Off(H, e, i)
  BY <1>3
<1>7. PICK p \in Offsets : p = fs[i].offset
  BY <1>1
<1>8. Sub(c, o) = Sub(d, p) => c = d /\ o = p
  BY ONLY c \in Parts, d \in Parts, o \in Offsets, p \in Offsets, SubInjective
<1>9. Sub(c, o) = Sub(d, p) <=> c = d /\ o = p
  BY ONLY <1>8
<1> QED
  BY ONLY <1>1, <1>3, <1>4, <1>5, <1>6, <1>7, <1>9

\* The activation on top, and those below it.
LEMMA PassedTop ==
  ASSUME NEW fs, NEW n \in Nat, NEW H, NEW part, NEW e, NEW s
  PROVE  PassedUpTo(fs, n + 1, H, part, e, s) <=>
           \/ PassedUpTo(fs, n, H, part, e, s)
           \/ /\ n + 1 < H /\ Cut(H, e, n) = PartAt(part, fs[n + 1].firstAt)
              /\ IF s = 1 THEN Off(H, e, n + 1) < fs[n + 1].offset
                       ELSE Off(H, e, n + 1) > fs[n + 1].offset
<1> DEFINE P(i) == /\ i < H /\ Cut(H, e, i - 1) = PartAt(part, fs[i].firstAt)
                   /\ IF s = 1 THEN Off(H, e, i) < fs[i].offset ELSE Off(H, e, i) > fs[i].offset
<1>1. PassedUpTo(fs, n + 1, H, part, e, s) <=> \E i \in 1..(n + 1) : P(i)
  BY DEF PassedUpTo
<1>2. PassedUpTo(fs, n, H, part, e, s) <=> \E i \in 1..n : P(i)
  BY DEF PassedUpTo
<1>3. (n + 1) - 1 = n
  OBVIOUS
<1>4. P(n + 1) <=> /\ n + 1 < H /\ Cut(H, e, n) = PartAt(part, fs[n + 1].firstAt)
                   /\ IF s = 1 THEN Off(H, e, n + 1) < fs[n + 1].offset
                            ELSE Off(H, e, n + 1) > fs[n + 1].offset
  BY <1>3
<1> HIDE DEF P
<1>5. (\E i \in 1..(n + 1) : P(i)) <=> (\E i \in 1..n : P(i)) \/ P(n + 1)
  OBVIOUS
<1> QED
  BY ONLY <1>1, <1>2, <1>4, <1>5

\* The last of the activations gs is at the next offset.
MovesOn(fs, n, gs, s, H, part, q) ==
  /\ Len(fs) \in Nat /\ s \in {-1, 1} /\ Moves(fs, n + 1, gs, s)
  /\ \A i \in 1..(n + 1) : fs[i].offset \in Int
  /\ H \in Nat /\ n + 1 <= H /\ Agree(fs, n + 1, part, q)

\* It has passed the cells below the offset it was at.
LEMMA PassedMoves ==
  ASSUME NEW fs, NEW n \in Nat, NEW gs, NEW s, NEW H, NEW part, NEW q,
         MovesOn(fs, n, gs, s, H, part, q), NEW e \in Cells
  PROVE  PassedUpTo(gs, n + 1, H, q, e, s) <=>
           \/ PassedUpTo(fs, n + 1, H, part, e, s)
           \/ /\ n + 1 < H /\ Cut(H, e, n) = PartAt(part, fs[n + 1].firstAt)
              /\ Off(H, e, n + 1) = fs[n + 1].offset
<1>0. /\ Len(fs) \in Nat /\ s \in {-1, 1} /\ Moves(fs, n + 1, gs, s)
      /\ \A i \in 1..(n + 1) : fs[i].offset \in Int
      /\ H \in Nat /\ n + 1 <= H /\ Agree(fs, n + 1, part, q)
  BY DEF MovesOn
<1>1. PassedUpTo(gs, n, H, q, e, s) <=> PassedUpTo(fs, n, H, part, e, s)
  <2>1. ASSUME NEW i \in 1..n
        PROVE  /\ PartAt(q, gs[i].firstAt) = PartAt(part, fs[i].firstAt)
               /\ gs[i].offset = fs[i].offset
    <3>1. i \in 1..(n + 1) /\ i < n + 1
      OBVIOUS
    <3> QED  BY <1>0, <3>1 DEF Moves, Agree
  <2> QED  BY <2>1 DEF PassedUpTo
<1>2. /\ PartAt(q, gs[n + 1].firstAt) = PartAt(part, fs[n + 1].firstAt)
      /\ gs[n + 1].offset = fs[n + 1].offset + s /\ fs[n + 1].offset \in Int
  <2>1. n + 1 \in 1..(n + 1)
    OBVIOUS
  <2> QED  BY <1>0, <2>1 DEF Moves, Agree
<1>3. Off(H, e, n + 1) \in Int
  <2>1. n + 1 \in 1..H
    BY <1>0
  <2>2. Off(H, e, n + 1) \in Offsets
    BY ONLY <1>0, <2>1, e \in Cells, CutStep
  <2> QED  BY <2>2, BlockSize DEF Offsets
<1>4. PICK o \in Int : o = Off(H, e, n + 1)
  BY <1>3
<1>5. PICK p \in Int : p = fs[n + 1].offset
  BY <1>2
<1>6. (IF s = 1 THEN o < p + s ELSE o > p + s) <=> (IF s = 1 THEN o < p ELSE o > p) \/ o = p
  BY <1>0
<1>7. PassedUpTo(gs, n + 1, H, q, e, s) <=>
        \/ PassedUpTo(gs, n, H, q, e, s)
        \/ /\ n + 1 < H /\ Cut(H, e, n) = PartAt(part, fs[n + 1].firstAt)
           /\ IF s = 1 THEN o < p + s ELSE o > p + s
  <2>1. PassedUpTo(gs, n + 1, H, q, e, s) <=>
          \/ PassedUpTo(gs, n, H, q, e, s)
          \/ /\ n + 1 < H /\ Cut(H, e, n) = PartAt(q, gs[n + 1].firstAt)
             /\ IF s = 1 THEN Off(H, e, n + 1) < gs[n + 1].offset
                         ELSE Off(H, e, n + 1) > gs[n + 1].offset
    BY ONLY n \in Nat, PassedTop
  <2> QED  BY ONLY <2>1, <1>2, <1>4, <1>5
<1>8. PassedUpTo(fs, n + 1, H, part, e, s) <=>
        \/ PassedUpTo(fs, n, H, part, e, s)
        \/ /\ n + 1 < H /\ Cut(H, e, n) = PartAt(part, fs[n + 1].firstAt)
           /\ IF s = 1 THEN o < p ELSE o > p
  <2>1. PassedUpTo(fs, n + 1, H, part, e, s) <=>
          \/ PassedUpTo(fs, n, H, part, e, s)
          \/ /\ n + 1 < H /\ Cut(H, e, n) = PartAt(part, fs[n + 1].firstAt)
             /\ IF s = 1 THEN Off(H, e, n + 1) < fs[n + 1].offset
                         ELSE Off(H, e, n + 1) > fs[n + 1].offset
    BY ONLY n \in Nat, PassedTop
  <2> QED  BY ONLY <2>1, <1>4, <1>5
<1> QED
  BY ONLY <1>1, <1>4, <1>5, <1>6, <1>7, <1>8

\* The activation on top returns to its caller, which goes to its next offset.
Returns(N, part, fs, n, gs, s, H, q) ==
  /\ part \in [0..(N - 1) -> Parts] /\ Along(N, part, fs)
  /\ Len(fs) = n + 2 /\ s \in {-1, 1} /\ Moves(fs, n + 1, gs, s)
  /\ H \in Nat /\ n + 2 <= H /\ Agree(fs, n + 1, part, q)
  /\ fs[n + 2].offset \in Int
  /\ n + 2 < H => IF s = 1 THEN fs[n + 2].offset >= BLOCK_SIZE ELSE fs[n + 2].offset < 0

\* Its cells are passed now.
LEMMA ReturnPassed ==
  ASSUME NEW N, NEW part, NEW fs, NEW n \in Nat, NEW gs, NEW s, NEW H, NEW q,
         Returns(N, part, fs, n, gs, s, H, q), NEW e \in Cells
  PROVE  Passed(gs, H, q, e, s) <=>
           \/ Passed(fs, H, part, e, s)
           \/ n + 2 = H /\ Cut(H, e, H - 1) = PartAt(part, fs[n + 2].firstAt)
<1> USE DEF Returns
<1>1. \A i \in 1..(n + 1) : fs[i].offset \in Int
  <2>1. \A i \in 1..(n + 1) : i \in 1..(Len(fs) - 1)
    OBVIOUS
  <2>2. \A i \in 1..(Len(fs) - 1) : fs[i].offset \in Offsets
    BY DEF Along
  <2>3. Offsets \subseteq Int
    BY BlockSize DEF Offsets
  <2> QED  BY ONLY <2>1, <2>2, <2>3
<1>2. Len(gs) = n + 1
  BY DEF Moves
<1>3. PassedUpTo(gs, n + 1, H, q, e, s) <=>
        \/ PassedUpTo(fs, n + 1, H, part, e, s)
        \/ /\ n + 1 < H /\ Cut(H, e, n) = PartAt(part, fs[n + 1].firstAt)
           /\ Off(H, e, n + 1) = fs[n + 1].offset
  <2>1. MovesOn(fs, n, gs, s, H, part, q)
    <3>1. Len(fs) \in Nat /\ n + 1 <= H
      OBVIOUS
    <3> QED
      BY ONLY <3>1, <1>1, n \in Nat, s \in {-1, 1}, Moves(fs, n + 1, gs, s), H \in Nat,
         Agree(fs, n + 1, part, q) DEF MovesOn
  <2> QED  BY ONLY <2>1, n \in Nat, e \in Cells, PassedMoves
<1>4. Cut(H, e, n + 1) = PartAt(part, fs[n + 2].firstAt) <=>
        /\ Cut(H, e, n) = PartAt(part, fs[n + 1].firstAt)
        /\ Off(H, e, n + 1) = fs[n + 1].offset
  <2>1. n + 1 \in 1..(Len(fs) - 1) /\ n + 1 <= H /\ (n + 1) - 1 = n /\ (n + 1) + 1 = n + 2
        /\ Len(fs) \in Nat
    OBVIOUS
  <2> HIDE DEF Along
  <2>2. Cut(H, e, n + 1) = PartAt(part, fs[(n + 1) + 1].firstAt) <=>
        /\ Cut(H, e, (n + 1) - 1) = PartAt(part, fs[n + 1].firstAt)
        /\ Off(H, e, n + 1) = fs[n + 1].offset
    BY ONLY <2>1, Along(N, part, fs), H \in Nat, e \in Cells, part \in [0..(N - 1) -> Parts],
       NextCut
  <2> QED  BY ONLY <2>1, <2>2
<1>5. PassedUpTo(fs, n + 2, H, part, e, s) <=>
        \/ PassedUpTo(fs, n + 1, H, part, e, s)
        \/ /\ n + 2 < H /\ Cut(H, e, n + 1) = PartAt(part, fs[n + 2].firstAt)
           /\ IF s = 1 THEN Off(H, e, n + 2) < fs[n + 2].offset
                       ELSE Off(H, e, n + 2) > fs[n + 2].offset
  <2>1. n + 1 \in Nat /\ (n + 1) + 1 = n + 2
    OBVIOUS
  <2>2. PassedUpTo(fs, (n + 1) + 1, H, part, e, s) <=>
        \/ PassedUpTo(fs, n + 1, H, part, e, s)
        \/ /\ (n + 1) + 1 < H /\ Cut(H, e, n + 1) = PartAt(part, fs[(n + 1) + 1].firstAt)
           /\ IF s = 1 THEN Off(H, e, (n + 1) + 1) < fs[(n + 1) + 1].offset
                       ELSE Off(H, e, (n + 1) + 1) > fs[(n + 1) + 1].offset
    BY ONLY n + 1 \in Nat, PassedTop
  <2> QED  BY ONLY <2>1, <2>2
<1>6. ASSUME n + 2 < H
      PROVE  IF s = 1 THEN Off(H, e, n + 2) < fs[n + 2].offset
                      ELSE Off(H, e, n + 2) > fs[n + 2].offset
  <2>1. Off(H, e, n + 2) \in Offsets
    <3>1. n + 2 \in 1..H
      OBVIOUS
    <3> QED  BY ONLY <3>1, H \in Nat, e \in Cells, CutStep
  <2>2. PICK o \in Offsets : o = Off(H, e, n + 2)
    BY <2>1
  <2>3. PICK p \in Int : p = fs[n + 2].offset
    OBVIOUS
  <2>4. o \in Int /\ 0 <= o /\ o < BLOCK_SIZE /\ BLOCK_SIZE \in Nat
    BY BlockSize DEF Offsets
  <2>5. IF s = 1 THEN p >= BLOCK_SIZE ELSE p < 0
    BY <1>6, <2>3
  <2>6. IF s = 1 THEN o < p ELSE o > p
    BY ONLY <2>3, <2>4, <2>5
  <2> QED  BY ONLY <2>2, <2>3, <2>6
<1>7. n + 1 < H /\ (n + 2 = H => n + 1 = H - 1) /\ (n + 2 < H \/ n + 2 = H)
  OBVIOUS
<1>8. /\ Passed(gs, H, q, e, s) <=> PassedUpTo(gs, n + 1, H, q, e, s)
      /\ Passed(fs, H, part, e, s) <=> PassedUpTo(fs, n + 2, H, part, e, s)
  BY <1>2 DEF Passed
<1>9. CASE n + 2 < H
  <2>1. n + 2 # H
    BY <1>9
  <2> QED  BY ONLY <2>1, <1>9, <1>3, <1>4, <1>5, <1>6, <1>7, <1>8
<1>10. CASE n + 2 = H
  <2>1. ~(n + 2 < H) /\ H - 1 = n + 1
    BY <1>10
  <2> QED  BY ONLY <2>1, <1>10, <1>3, <1>4, <1>5, <1>7, <1>8
<1> QED  BY ONLY <1>7, <1>9, <1>10

\* A new activation has passed nothing yet.
LEMMA PushPassed ==
  ASSUME NEW n \in Nat, NEW gs, Len(gs) = n + 1,
         NEW H \in Nat, n + 1 <= H, NEW part, NEW e \in Cells, NEW s \in {-1, 1},
         gs[n + 1].offset = IF s = 1 THEN 0 ELSE BLOCK_SIZE - 1
  PROVE  Passed(gs, H, part, e, s) <=> PassedUpTo(gs, n, H, part, e, s)
<1>1. Off(H, e, n + 1) \in Offsets
  <2>1. n + 1 \in 1..H
    OBVIOUS
  <2> QED  BY ONLY <2>1, H \in Nat, e \in Cells, CutStep
<1>2. PICK o \in Offsets : o = Off(H, e, n + 1)
  BY <1>1
<1>3. o \in Int /\ 0 <= o /\ o <= BLOCK_SIZE - 1 /\ BLOCK_SIZE \in Nat
  BY BlockSize DEF Offsets
<1>4. ~IF s = 1 THEN Off(H, e, n + 1) < gs[n + 1].offset ELSE Off(H, e, n + 1) > gs[n + 1].offset
  <2>1. CASE s = 1
    BY ONLY <2>1, <1>2, <1>3, gs[n + 1].offset = IF s = 1 THEN 0 ELSE BLOCK_SIZE - 1
  <2>2. CASE s # 1
    BY ONLY <2>2, <1>2, <1>3, gs[n + 1].offset = IF s = 1 THEN 0 ELSE BLOCK_SIZE - 1
  <2> QED  BY <2>1, <2>2
<1>5. PassedUpTo(gs, n + 1, H, part, e, s) <=> PassedUpTo(gs, n, H, part, e, s)
  BY ONLY <1>4, n \in Nat, PassedTop
<1> QED  BY <1>5 DEF Passed

\* The first activation, at its last offset, has passed all it is on.
LEMMA WholePassed ==
  ASSUME NEW fs, Len(fs) = 1, NEW H \in Nat, H >= 2, NEW part, NEW e \in Cells,
         NEW s \in {-1, 1}, fs[1].offset \in Int,
         IF s = 1 THEN fs[1].offset >= BLOCK_SIZE ELSE fs[1].offset < 0,
         PartAt(part, fs[1].firstAt) = Cut(H, e, 0)
  PROVE  Passed(fs, H, part, e, s)
<1>1. Off(H, e, 1) \in Offsets
  <2>1. 1 \in 1..H
    OBVIOUS
  <2> QED  BY ONLY <2>1, H \in Nat, e \in Cells, CutStep
<1>2. Off(H, e, 1) \in Int /\ 0 <= Off(H, e, 1) /\ Off(H, e, 1) < BLOCK_SIZE /\ BLOCK_SIZE \in Nat
  BY <1>1, BlockSize DEF Offsets
<1>3. IF s = 1 THEN Off(H, e, 1) < fs[1].offset ELSE Off(H, e, 1) > fs[1].offset
  BY <1>2
<1>4. 1 \in 1..Len(fs) /\ 1 < H /\ 1 - 1 = 0
  OBVIOUS
<1> QED  BY <1>3, <1>4 DEF Passed, PassedUpTo

\* No activation has passed the cells of the partition the last one is on.
LEMMA NotPassedYet ==
  ASSUME NEW N, NEW part \in [0..(N - 1) -> Parts], NEW fs, Along(N, part, fs),
         NEW H \in Nat, Len(fs) = H, NEW e \in Cells, NEW s \in {-1, 1},
         Cut(H, e, H - 1) = PartAt(part, fs[H].firstAt)
  PROVE  ~Passed(fs, H, part, e, s)
<1> DEFINE IsOn(i) == Cut(H, e, i - 1) = PartAt(part, fs[i].firstAt)
           S == {d \in Nat : d < H /\ ~IsOn(H - d)}
<1>1. ASSUME NEW i \in 1..(H - 1)
      PROVE  IsOn(i + 1) <=> IsOn(i) /\ Off(H, e, i) = fs[i].offset
  <2>1. i \in 1..(Len(fs) - 1) /\ i <= H /\ Len(fs) \in Nat /\ (i + 1) - 1 = i
    OBVIOUS
  <2>2. Cut(H, e, i) = PartAt(part, fs[i + 1].firstAt) <=>
          /\ Cut(H, e, i - 1) = PartAt(part, fs[i].firstAt)
          /\ Off(H, e, i) = fs[i].offset
    BY ONLY <2>1, H \in Nat, e \in Cells, Along(N, part, fs), part \in [0..(N - 1) -> Parts], NextCut
  <2> QED  BY <2>1, <2>2
<1>2. IsOn(H)
  OBVIOUS
<1> HIDE DEF IsOn
<1>3. S = {}
  <2>1. SUFFICES ASSUME S # {} PROVE FALSE
    OBVIOUS
  <2>2. S \in SUBSET Nat
    OBVIOUS
  <2>3. PICK d \in S : \A c \in S : d <= c
    BY ONLY <2>1, <2>2, LeastNatural
  <2>4. d \in Nat /\ d < H /\ ~IsOn(H - d)
    OBVIOUS
  <2>5. d # 0
    <3>1. H - 0 = H
      OBVIOUS
    <3> QED  BY ONLY <1>2, <2>4, <3>1
  <2>6. PICK c \in Nat : d = c + 1
    BY ONLY <2>4, <2>5
  <2>7. H - d \in 1..(H - 1) /\ (H - d) + 1 = H - c /\ c < H /\ ~(d <= c)
    BY ONLY <2>4, <2>6, H \in Nat
  <2>8. IsOn(H - c)
    BY ONLY <2>3, <2>7, c \in Nat DEF S
  <2> QED  BY ONLY <1>1, <2>4, <2>7, <2>8
<1>4. ASSUME NEW i \in 1..(H - 1)
      PROVE  Off(H, e, i) = fs[i].offset /\ fs[i].offset \in Int
  <2>1. H - (i + 1) \in Nat /\ H - (i + 1) < H /\ H - (H - (i + 1)) = i + 1
    OBVIOUS
  <2>2. IsOn(i + 1)
    BY ONLY <1>3, <2>1 DEF S
  <2>3. fs[i].offset \in Offsets
    BY DEF Along
  <2>4. fs[i].offset \in Int
    BY ONLY <2>3, BlockSize DEF Offsets
  <2> QED  BY ONLY <1>1, <1>4, <2>2, <2>4
<1>5. ASSUME NEW i \in 1..H, i < H
      PROVE  ~IF s = 1 THEN Off(H, e, i) < fs[i].offset ELSE Off(H, e, i) > fs[i].offset
  <2>1. i \in 1..(H - 1)
    BY ONLY <1>5, H \in Nat
  <2>2. PICK o \in Int : o = fs[i].offset /\ o = Off(H, e, i)
    BY ONLY <1>4, <2>1
  <2> QED  BY ONLY <2>2
<1> QED  BY ONLY <1>5, Len(fs) = H DEF Passed, PassedUpTo
-----------------------------------------------------------------------------
(* A pass over the cells of A \X B, from the first offset to the last if s *)
(* is 1, from the last to the first if s is -1.                            *)

\* The activations name the vertices of A and B in their partitions.
PassLists(H, part, fs, A, B, L) ==
  \A i \in 1..Len(fs) :
    /\ Lists(fs[i].rows, A, L, H, i - 1, PartAt(part, fs[i].firstAt).row)
    /\ Lists(fs[i].columns, B, L, H, i - 1, PartAt(part, fs[i].firstAt).column)

\* F are the edges of G in A \X B that the pass has passed.
Pass(fs, H, part, G, A, B, L, s, F) ==
  /\ F \subseteq G /\ G \subseteq Cells
  /\ \A e \in G : e \in F <=> e[1] \in A /\ e[2] \in B /\ Passed(fs, H, part, e, s)
  /\ PassLists(H, part, fs, A, B, L)

\* The lists are those of the activations that are left.
LEMMA MovedLists ==
  ASSUME NEW fs, NEW n \in Nat, NEW gs, NEW s, NEW H, NEW part, NEW q,
         MovesOn(fs, n, gs, s, H, part, q), NEW A, NEW B, NEW L,
         PassLists(H, part, fs, A, B, L)
  PROVE  PassLists(H, q, gs, A, B, L)
<1>1. Len(gs) = n + 1 /\ n + 1 \in 1..Len(fs) /\ Len(fs) \in Nat
  BY DEF MovesOn, Moves
<1>2. ASSUME NEW i \in 1..(n + 1)
      PROVE  /\ gs[i].rows = fs[i].rows /\ gs[i].columns = fs[i].columns
             /\ PartAt(q, gs[i].firstAt) = PartAt(part, fs[i].firstAt)
             /\ Lists(fs[i].rows, A, L, H, i - 1, PartAt(part, fs[i].firstAt).row)
             /\ Lists(fs[i].columns, B, L, H, i - 1, PartAt(part, fs[i].firstAt).column)
  <2>1. i \in 1..Len(fs)
    BY <1>1
  <2>2. gs[i].firstAt = fs[i].firstAt /\ gs[i].rows = fs[i].rows /\ gs[i].columns = fs[i].columns
    BY DEF MovesOn, Moves
  <2>3. PartAt(q, fs[i].firstAt) = PartAt(part, fs[i].firstAt)
    BY DEF MovesOn, Agree
  <2> QED  BY <2>1, <2>2, <2>3 DEF PassLists
<1> QED
  BY ONLY <1>1, <1>2 DEF PassLists

\* The activation on top goes to its next offset, past no edge that is left.
LEMMA PassStep ==
  ASSUME NEW fs, NEW n \in Nat, Len(fs) = n + 1, NEW gs, NEW s, NEW H, NEW part,
         MovesOn(fs, n, gs, s, H, part, part), NEW G, NEW A, NEW B, NEW L, NEW F,
         Pass(fs, H, part, G, A, B, L, s, F),
         \A e \in G : (/\ n + 1 < H /\ Cut(H, e, n) = PartAt(part, fs[n + 1].firstAt)
                       /\ Off(H, e, n + 1) = fs[n + 1].offset
                       /\ e[1] \in A /\ e[2] \in B) => e \in F
  PROVE  Pass(gs, H, part, G, A, B, L, s, F)
<1>1. F \subseteq G /\ G \subseteq Cells /\ PassLists(H, part, gs, A, B, L)
  BY MovedLists DEF Pass
<1>2. Len(gs) = n + 1
  BY DEF MovesOn, Moves
<1>3. ASSUME NEW e \in G
      PROVE  e \in F <=> e[1] \in A /\ e[2] \in B /\ Passed(gs, H, part, e, s)
  <2>1. e \in Cells
    BY <1>1
  <2>2. PassedUpTo(gs, n + 1, H, part, e, s) <=>
          \/ PassedUpTo(fs, n + 1, H, part, e, s)
          \/ /\ n + 1 < H /\ Cut(H, e, n) = PartAt(part, fs[n + 1].firstAt)
             /\ Off(H, e, n + 1) = fs[n + 1].offset
    BY ONLY n \in Nat, <2>1, MovesOn(fs, n, gs, s, H, part, part), PassedMoves
  <2>3. /\ Passed(gs, H, part, e, s) <=> PassedUpTo(gs, n + 1, H, part, e, s)
        /\ Passed(fs, H, part, e, s) <=> PassedUpTo(fs, n + 1, H, part, e, s)
    BY <1>2 DEF Passed
  <2>4. e \in F <=> e[1] \in A /\ e[2] \in B /\ Passed(fs, H, part, e, s)
    BY DEF Pass
  <2> QED  BY <2>2, <2>3, <2>4
<1> QED  BY <1>1, <1>3 DEF Pass

\* An activation returns: it has passed all it is on.
LEMMA PassReturn ==
  ASSUME NEW N, NEW part, NEW fs, NEW n \in Nat, NEW gs, NEW s, NEW H, NEW q,
         Returns(N, part, fs, n, gs, s, H, q), MovesOn(fs, n, gs, s, H, part, q),
         NEW G, NEW A, NEW B, NEW L, NEW F, Pass(fs, H, part, G, A, B, L, s, F),
         NEW E, E \subseteq G,
         \A e \in G : e \in E <=> \/ e \in F
                                  \/ /\ n + 2 = H /\ Cut(H, e, H - 1) = PartAt(part, fs[n + 2].firstAt)
                                     /\ e[1] \in A /\ e[2] \in B
  PROVE  Pass(gs, H, q, G, A, B, L, s, E)
<1>1. F \subseteq G /\ G \subseteq Cells /\ PassLists(H, q, gs, A, B, L)
  BY MovedLists DEF Pass
<1>3. ASSUME NEW e \in G
      PROVE  e \in E <=> e[1] \in A /\ e[2] \in B /\ Passed(gs, H, q, e, s)
  <2>1. e \in Cells
    BY <1>1
  <2>2. Passed(gs, H, q, e, s) <=>
          \/ Passed(fs, H, part, e, s)
          \/ n + 2 = H /\ Cut(H, e, H - 1) = PartAt(part, fs[n + 2].firstAt)
    BY ONLY n \in Nat, Returns(N, part, fs, n, gs, s, H, q), <2>1, ReturnPassed
  <2>3. e \in F <=> e[1] \in A /\ e[2] \in B /\ Passed(fs, H, part, e, s)
    BY DEF Pass
  <2> QED  BY <2>2, <2>3
<1> QED  BY <1>1, <1>3 DEF Pass

\* A new activation for the part of the one on top.
LEMMA PassPush ==
  ASSUME NEW fs, NEW n \in Nat, Len(fs) = n, NEW gs, Len(gs) = n + 1,
         \A i \in 1..n : gs[i] = fs[i],
         NEW H \in Nat, n + 1 <= H, NEW s \in {-1, 1}, NEW part,
         gs[n + 1].offset = IF s = 1 THEN 0 ELSE BLOCK_SIZE - 1,
         NEW G, NEW A, NEW B, NEW L, NEW F, Pass(fs, H, part, G, A, B, L, s, F),
         Lists(gs[n + 1].rows, A, L, H, n, PartAt(part, gs[n + 1].firstAt).row),
         Lists(gs[n + 1].columns, B, L, H, n, PartAt(part, gs[n + 1].firstAt).column)
  PROVE  Pass(gs, H, part, G, A, B, L, s, F)
<1>1. F \subseteq G /\ G \subseteq Cells
  BY DEF Pass
<1>2. ASSUME NEW e \in G
      PROVE  e \in F <=> e[1] \in A /\ e[2] \in B /\ Passed(gs, H, part, e, s)
  <2>1. e \in Cells
    BY <1>1
  <2>2. Passed(gs, H, part, e, s) <=> Passed(fs, H, part, e, s)
    <3>1. Passed(gs, H, part, e, s) <=> PassedUpTo(gs, n, H, part, e, s)
      BY <2>1, PushPassed
    <3>2. PassedUpTo(gs, n, H, part, e, s) <=> PassedUpTo(fs, n, H, part, e, s)
      BY DEF PassedUpTo
    <3> QED  BY <3>1, <3>2 DEF Passed
  <2> QED  BY <2>2 DEF Pass
<1>3. ASSUME NEW i \in 1..(n + 1)
      PROVE  /\ Lists(gs[i].rows, A, L, H, i - 1, PartAt(part, gs[i].firstAt).row)
             /\ Lists(gs[i].columns, B, L, H, i - 1, PartAt(part, gs[i].firstAt).column)
  <2>1. CASE i = n + 1
    <3>1. i - 1 = n
      BY <2>1
    <3> QED  BY <2>1, <3>1
  <2>2. CASE i # n + 1
    <3>1. i \in 1..n /\ i \in 1..Len(fs)
      BY <2>2
    <3>2. gs[i] = fs[i]
      BY <3>1
    <3> QED  BY <3>1, <3>2 DEF Pass, PassLists
  <2> QED  BY <2>1, <2>2
<1>4. PassLists(H, part, gs, A, B, L)
  BY ONLY <1>3, Len(gs) = n + 1 DEF PassLists
<1> QED  BY <1>1, <1>2, <1>4 DEF Pass

\* The pass begins.
LEMMA PassStart ==
  ASSUME NEW fs, Len(fs) = 1, NEW H \in Nat, H >= 2, NEW s \in {-1, 1}, NEW part,
         fs[1].offset = IF s = 1 THEN 0 ELSE BLOCK_SIZE - 1,
         PartAt(part, fs[1].firstAt) = Whole,
         NEW G, G \subseteq Cells, NEW A, NEW B, NEW L,
         Lists(fs[1].rows, A, L, H, 0, 0), Lists(fs[1].columns, B, L, H, 0, 0)
  PROVE  Pass(fs, H, part, G, A, B, L, s, {})
<1>1. PassLists(H, part, fs, A, B, L)
  <2>1. Whole.row = 0 /\ Whole.column = 0
    BY DEF Whole, Part
  <2>2. ASSUME NEW i \in 1..1
        PROVE  /\ Lists(fs[i].rows, A, L, H, i - 1, PartAt(part, fs[i].firstAt).row)
               /\ Lists(fs[i].columns, B, L, H, i - 1, PartAt(part, fs[i].firstAt).column)
    <3>1. i = 1 /\ i - 1 = 0
      OBVIOUS
    <3> QED  BY <2>1, <3>1
  <2> QED  BY ONLY <2>2, Len(fs) = 1 DEF PassLists
<1>2. ASSUME NEW e \in G
      PROVE  ~Passed(fs, H, part, e, s)
  <2>1. e \in Cells /\ 0 + 1 <= H /\ Len(fs) = 0 + 1 /\ 0 + 1 = 1
    OBVIOUS
  <2>2. Passed(fs, H, part, e, s) <=> PassedUpTo(fs, 0, H, part, e, s)
    BY <2>1, PushPassed
  <2>3. ~PassedUpTo(fs, 0, H, part, e, s)
    BY DEF PassedUpTo
  <2> QED  BY <2>2, <2>3
<1> QED  BY <1>1, <1>2 DEF Pass
-----------------------------------------------------------------------------
(* The way down to a cell.                                                 *)

\* p is the position of the bit for cell e on level i.
Reach(N, part, H, e, i, p) ==
  \E x \in 0..(N - 1) : part[x] = Cut(H, e, i - 1) /\ p = At(x) + Off(H, e, i)

\* The way begins in the root block.
LEMMA ReachStart ==
  ASSUME NEW t, NEW l, NEW m, NEW N, NEW H, NEW part, Vectors(t, l, m, N, H, part),
         NEW e \in Cells, e[1] < LongPow[H], e[2] < LongPow[H]
  PROVE  Reach(N, part, H, e, 1, Off(H, e, 1))
<1>1. H \in Nat /\ H >= 2 /\ N \in Nat /\ 0 \in 0..(N - 1) /\ Mapped(t \o l, m, N, H, part)
  BY VectorsParts
<1>2. part[0] = Whole
  BY <1>1 DEF Mapped, Named
<1>3. Cut(H, e, 0) = Whole
  BY ONLY <1>1, e \in Cells, e[1] < LongPow[H], e[2] < LongPow[H], CutWhole
<1>4. Off(H, e, 1) \in Offsets
  <2>1. 1 \in 1..H
    BY <1>1
  <2> QED  BY ONLY <1>1, <2>1, e \in Cells, CutStep
<1>5. At(0) + Off(H, e, 1) = Off(H, e, 1)
  BY <1>4, BlockSize, AtOrder DEF Offsets
<1>6. part[0] = Cut(H, e, 1 - 1)
  BY <1>2, <1>3
<1> QED  BY <1>1, <1>5, <1>6 DEF Reach

\* What block and level the position is in.
LEMMA ReachBlock ==
  ASSUME NEW t, NEW l, NEW m, NEW N, NEW H, NEW part, Vectors(t, l, m, N, H, part),
         NEW e \in Cells, NEW i \in 1..H, NEW p, Reach(N, part, H, e, i, p)
  PROVE  \E x \in 0..(N - 1), o \in Offsets :
           /\ part[x] = Cut(H, e, i - 1) /\ o = Off(H, e, i) /\ p = At(x) + o /\ p \in Nat
           /\ x >= m <=> i = H
           /\ p >= Len(t) <=> i = H
           /\ x \in Nat
<1>1. H \in Nat /\ N \in Nat /\ m \in Nat
  BY VectorsParts
<1>2. PICK x \in 0..(N - 1) : part[x] = Cut(H, e, i - 1) /\ p = At(x) + Off(H, e, i)
  BY DEF Reach
<1>3. PICK o \in Offsets : o = Off(H, e, i)
  BY ONLY <1>1, e \in Cells, i \in 1..H, CutStep
<1>4. x \in Nat /\ At(x) + o \in Nat
  <2>1. x \in Nat
    BY <1>1
  <2> QED  BY ONLY <2>1, o \in Offsets, AtPosition
<1>5. /\ x >= m <=> part[x].level = H - 1
      /\ x >= m <=> At(x) + o >= Len(t)
  BY ONLY Vectors(t, l, m, N, H, part), x \in 0..(N - 1), o \in Offsets, VectorOfLevel
<1>6. part[x].level = i - 1
  BY <1>2 DEF Cut, Part
<1>7. x >= m <=> i = H
  BY <1>1, <1>5, <1>6
<1> QED  BY <1>2, <1>3, <1>4, <1>5, <1>7

\* A 1 leads to the bit for the cell in the block below.
LEMMA ReachDown ==
  ASSUME NEW t, NEW l, NEW m, NEW N, NEW H, NEW part, Vectors(t, l, m, N, H, part),
         NEW e \in Cells, NEW i \in 1..H, NEW p, Reach(N, part, H, e, i, p), Access(t, p)
  PROVE  /\ i < H /\ i + 1 \in 1..H
         /\ Reach(N, part, H, e, i + 1, Rank1(t, p + 1) * BLOCK_SIZE + Off(H, e, i + 1))
<1>1. H \in Nat /\ N \in Nat /\ m \in Nat /\ Len(t) \in Nat
  BY VectorsParts
<1>2. PICK x \in 0..(N - 1), o \in Offsets :
           /\ part[x] = Cut(H, e, i - 1) /\ o = Off(H, e, i) /\ p = At(x) + o /\ p \in Nat
           /\ x >= m <=> i = H
           /\ p >= Len(t) <=> i = H
  <2> HIDE DEF Reach
  <2> QED  BY ReachBlock
<1>3. p < Len(t)
  BY <1>1, <1>2 DEF Access
<1>4. i < H /\ i + 1 \in 1..H
  BY <1>1, <1>2, <1>3
<1>5. PICK y : y = Rank1(t, At(x) + o + 1)
  OBVIOUS
<1>6. y \in 1..(N - 1) /\ part[y] = Sub(part[x], o) /\ y * BLOCK_SIZE = At(y)
  <2>1. Access(t, At(x) + o)
    BY <1>2
  <2> QED
    BY ONLY Vectors(t, l, m, N, H, part), x \in 0..(N - 1), o \in Offsets, <2>1, <1>5, BlockBelow
<1>7. Cut(H, e, i) = Sub(Cut(H, e, i - 1), Off(H, e, i))
  BY ONLY <1>1, e \in Cells, i \in 1..H, CutStep
<1>8. part[y] = Cut(H, e, (i + 1) - 1)
  <2>1. (i + 1) - 1 = i
    BY <1>1
  <2> QED  BY <2>1, <1>2, <1>6, <1>7
<1>9. y \in 0..(N - 1) /\ y = Rank1(t, p + 1)
  BY <1>1, <1>2, <1>5, <1>6
<1> QED  BY <1>4, <1>6, <1>8, <1>9 DEF Reach

\* A 0 on the way: the cell is no edge.
LEMMA ReachZero ==
  ASSUME NEW t, NEW l, NEW m, NEW N, NEW H, NEW part, Vectors(t, l, m, N, H, part),
         NEW e \in Cells, NEW i \in 1..H, NEW p, Reach(N, part, H, e, i, p),
         p < Len(t), ~Access(t, p)
  PROVE  /\ i < H
         /\ e \notin Edges(t \o l, N, H, part)
<1>1. H \in Nat /\ N \in Nat /\ m \in Nat /\ Len(t) \in Nat /\ Mapped(t \o l, m, N, H, part)
  BY VectorsParts
<1>2. PICK x \in 0..(N - 1), o \in Offsets :
           /\ part[x] = Cut(H, e, i - 1) /\ o = Off(H, e, i) /\ p = At(x) + o /\ p \in Nat
           /\ x >= m <=> i = H
           /\ p >= Len(t) <=> i = H
  <2> HIDE DEF Reach
  <2> QED  BY ReachBlock
<1>3. i < H /\ x \in 0..(m - 1) /\ i - 1 \in 0..(H - 1) /\ (i - 1) + 1 = i
  BY <1>1, <1>2
<1>4. ~Bit(t \o l, x, o)
  <2>1. Bit(t \o l, x, o) <=> Access(t, At(x) + o)
    BY ONLY Vectors(t, l, m, N, H, part), <1>3, o \in Offsets, UpperBits
  <2> QED  BY <1>2, <2>1
<1>5. ~Bit(t \o l, x, Off(H, e, (i - 1) + 1))
  BY <1>2, <1>3, <1>4
<1>6. e \notin Edges(t \o l, N, H, part)
  BY ONLY <1>1, <1>2, <1>3, <1>5, x \in 0..(N - 1), NoEdgeBelow
<1> QED  BY <1>3, <1>6

\* The end of the way: the bit of the cell itself.
LEMMA ReachLeaf ==
  ASSUME NEW t, NEW l, NEW m, NEW N, NEW H, NEW part, Vectors(t, l, m, N, H, part),
         NEW e \in Cells, NEW i \in 1..H, NEW p, Reach(N, part, H, e, i, p), p >= Len(t)
  PROVE  /\ i = H
         /\ \E x : AtCell(t, l, m, N, H, part, x, e) /\ p = At(x) + Off(H, e, H)
<1>1. H \in Nat /\ N \in Nat /\ m \in Nat /\ Len(t) \in Nat
  BY VectorsParts
<1>2. PICK x \in 0..(N - 1), o \in Offsets :
           /\ part[x] = Cut(H, e, i - 1) /\ o = Off(H, e, i) /\ p = At(x) + o /\ p \in Nat
           /\ x >= m <=> i = H
           /\ p >= Len(t) <=> i = H
  <2> HIDE DEF Reach
  <2> QED  BY ReachBlock
<1>3. i = H
  BY <1>2
<1>4. AtCell(t, l, m, N, H, part, x, e)
  BY <1>2, <1>3 DEF AtCell
<1> QED  BY <1>2, <1>3, <1>4
-----------------------------------------------------------------------------
(* The activations of a call, and the partitions of their blocks.          *)

\* The first activation is on the root block.
LEMMA FirstAtZero ==
  ASSUME NEW bits \in Seq(BOOLEAN), NEW rest, NEW H, NEW b, NEW owed \in Nat \ {0},
         Levels(bits, rest, H, b, owed), NEW tt, NEW fs, OnPath(tt, H, b, fs)
  PROVE  fs[1].firstAt = 0
<1>1. H \in Nat /\ H >= 2 /\ Numbers(b, H)
  BY LevelsParts
<1>2. Rank1(bits, At(b[0])) = b[1] - 1
  <2>1. 0 \in 0..(H - 1) /\ 0 < owed /\ 0 + 1 = 1 /\ owed \in Nat
    BY <1>1
  <2> QED  BY <2>1, LevelsParts
<1>3. b[0] = 0 /\ At(0) = 0 /\ b[1] \in Nat
  BY <1>1, AtOrder DEF Numbers
<1>4. b[1] = 1
  BY <1>2, <1>3, RankZero
<1>5. PICK c \in b[1 - 1]..(b[1] - 1) : fs[1].firstAt = At(c)
  <2>1. 1 \in 1..Len(fs)
    BY DEF OnPath
  <2> QED  BY <2>1 DEF OnPath, BlockOn
<1>6. c = 0
  BY <1>3, <1>4, <1>5
<1> QED  BY <1>3, <1>5, <1>6

\* A path of the tree is one of partitions.
LEMMA PathAlong ==
  ASSUME NEW t, NEW l, NEW m, NEW N, NEW H, NEW part, Vectors(t, l, m, N, H, part),
         NEW b, NEW owed \in Nat \ {0}, NEW bits \in Seq(BOOLEAN), NEW rest,
         Levels(bits, rest, H, b, owed), NEW fs, OnPath(t, H, b, fs)
  PROVE  Along(N, part, fs) /\ part \in [0..(N - 1) -> Parts] /\ Len(fs) \in 1..H /\ Len(fs) \in Nat
<1>1. Numbers(b, H) /\ H \in Nat
  BY LevelsParts
<1>2. fs[1].firstAt = 0
  BY FirstAtZero
<1>3. Along(N, part, fs)
  BY ONLY Vectors(t, l, m, N, H, part), <1>1, <1>2, OnPath(t, H, b, fs), PathParts
<1>4. part \in [0..(N - 1) -> Parts]
  BY DEF Vectors, Mapped, Named
<1>5. Len(fs) \in 1..H
  BY DEF OnPath
<1> QED  BY <1>1, <1>3, <1>4, <1>5

\* The activations of removeEdge are each at the bit for its edge.
LEMMA AlongCell ==
  ASSUME NEW N, NEW part \in [0..(N - 1) -> Parts], NEW fs, Along(N, part, fs),
         Len(fs) \in Nat, NEW H \in Nat, Len(fs) <= H,
         NEW e \in Cells, e[1] < LongPow[H], e[2] < LongPow[H],
         \A i \in 1..Len(fs) : fs[i].offset = Off(H, e, i),
         NEW i \in 1..Len(fs)
  PROVE  /\ Cut(H, e, i - 1) = PartAt(part, fs[i].firstAt)
         /\ Reach(N, part, H, e, i, fs[i].firstAt + fs[i].offset)
<1> DEFINE Off0 == {j \in Nat : j \in 1..Len(fs) /\ Cut(H, e, j - 1) # PartAt(part, fs[j].firstAt)}
<1>1. Off0 = {}
  <2>1. SUFFICES ASSUME Off0 # {} PROVE FALSE
    OBVIOUS
  <2>2. PICK j \in Off0 : \A k \in Off0 : j <= k
    <3>1. Off0 \in SUBSET Nat
      OBVIOUS
    <3> HIDE DEF Off0
    <3> QED  BY <2>1, <3>1, LeastNatural
  <2>3. CASE j = 1
    <3>1. Cut(H, e, 0) = Whole
      BY CutWhole
    <3>2. PartAt(part, fs[1].firstAt) = Whole
      BY DEF Along
    <3> QED  BY <2>2, <2>3, <3>1, <3>2
  <2>4. CASE j # 1
    <3>1. j - 1 \in 1..(Len(fs) - 1) /\ (j - 1) + 1 = j /\ j - 1 <= H /\ j - 1 \in Nat
      BY <2>2, <2>4
    <3>2. j - 1 \notin Off0
      BY <2>2, <3>1
    <3>3. Cut(H, e, (j - 1) - 1) = PartAt(part, fs[j - 1].firstAt)
      BY <3>1, <3>2
    <3>4. fs[j - 1].offset = Off(H, e, j - 1)
      BY <3>1
    <3>5. Cut(H, e, j - 1) = PartAt(part, fs[(j - 1) + 1].firstAt)
      BY ONLY Along(N, part, fs), H \in Nat, e \in Cells, part \in [0..(N - 1) -> Parts],
         Len(fs) \in Nat, <3>1, <3>3, <3>4, NextCut
    <3> QED  BY <2>2, <3>1, <3>5
  <2> QED  BY <2>3, <2>4
<1>2. Cut(H, e, i - 1) = PartAt(part, fs[i].firstAt)
  BY <1>1
<1>3. PICK x \in 0..(N - 1) : fs[i].firstAt = At(x) /\ PartAt(part, fs[i].firstAt) = part[x]
  BY DEF Along
<1>4. fs[i].offset = Off(H, e, i)
  OBVIOUS
<1> QED  BY ONLY <1>2, <1>3, <1>4 DEF Reach

\* A 1 that is cleared and set again.
LEMMA ClearedAndSet ==
  ASSUME NEW t \in Seq(BOOLEAN), NEW p \in Nat, p < Len(t), Access(t, p)
  PROVE  SetBit(SetBit(t, p, FALSE), p, TRUE) = t /\ ~Access(SetBit(t, p, FALSE), p)
<1>1. p \in 0..(Len(t) - 1)
  OBVIOUS
<1>2. SetBit(SetBit(t, p, FALSE), p, TRUE) = t
  <2>1. PICK b : b = TRUE
    OBVIOUS
  <2>2. b \in BOOLEAN /\ (Access(t, p) <=> b) /\ (~b) = FALSE
    BY <2>1
  <2>3. SetBit(SetBit(t, p, ~b), p, b) = t
    BY ONLY t \in Seq(BOOLEAN), <1>1, <2>2, SetAndClear
  <2> QED  BY ONLY <2>1, <2>2, <2>3
<1>3. ~Access(SetBit(t, p, FALSE), p)
  <2>1. Access(SetBit(t, p, FALSE), p) <=> IF p = p THEN FALSE ELSE Access(t, p)
    BY <1>1, SetBitAccess
  <2> QED  BY <2>1
<1> QED  BY <1>2, <1>3

\* A 0 that is set and cleared again.
LEMMA SetAndCleared ==
  ASSUME NEW t \in Seq(BOOLEAN), NEW p \in Nat, p < Len(t), ~Access(t, p)
  PROVE  SetBit(SetBit(t, p, TRUE), p, FALSE) = t
<1>1. p \in 0..(Len(t) - 1)
  OBVIOUS
<1>2. PICK b : b = FALSE
  OBVIOUS
<1>3. b \in BOOLEAN /\ (Access(t, p) <=> b) /\ (~b) = TRUE
  BY <1>2
<1>4. SetBit(SetBit(t, p, ~b), p, b) = t
  BY ONLY t \in Seq(BOOLEAN), <1>1, <1>3, SetAndClear
<1> QED  BY ONLY <1>2, <1>3, <1>4

\* The activation i is on block c, and the one it has called on block n.
Calling(N, part, fs, i, c, n) ==
  /\ c \in 0..(N - 1) /\ n \in 0..(N - 1) /\ c < n
  /\ fs[i].firstAt = At(c) /\ fs[i + 1].firstAt = At(n)
  /\ PartAt(part, fs[i].firstAt) = part[c] /\ PartAt(part, fs[i + 1].firstAt) = part[n]
  /\ fs[i].offset \in Offsets /\ part[n] = Sub(part[c], fs[i].offset)
  /\ part[c].level = i - 1 /\ part[n].level = i

\* Every activation but the one on top has called the next.
LEMMA AlongCaller ==
  ASSUME NEW N \in Nat, NEW part, NEW fs, Along(N, part, fs), Len(fs) \in Nat,
         NEW i \in 1..(Len(fs) - 1)
  PROVE  \E c, n : Calling(N, part, fs, i, c, n)
<1>1. i \in 1..Len(fs) /\ i + 1 \in 1..Len(fs) /\ i < i + 1 /\ (i + 1) - 1 = i
  OBVIOUS
<1>2. PICK c \in 0..(N - 1) : /\ fs[i].firstAt = At(c) /\ PartAt(part, fs[i].firstAt) = part[c]
                              /\ part[c].level = i - 1
  BY ONLY <1>1, Along(N, part, fs) DEF Along
<1>3. PICK n \in 0..(N - 1) : /\ fs[i + 1].firstAt = At(n)
                              /\ PartAt(part, fs[i + 1].firstAt) = part[n]
                              /\ part[n].level = i
  <2>1. \A j \in 1..Len(fs) : \E x \in 0..(N - 1) :
           /\ fs[j].firstAt = At(x) /\ PartAt(part, fs[j].firstAt) = part[x]
           /\ part[x].level = j - 1
    BY ONLY Along(N, part, fs) DEF Along
  <2> QED  BY ONLY <1>1, <2>1
<1>4. /\ fs[i].offset \in Offsets
      /\ PartAt(part, fs[i + 1].firstAt) = Sub(PartAt(part, fs[i].firstAt), fs[i].offset)
  BY ONLY i \in 1..(Len(fs) - 1), Along(N, part, fs) DEF Along
<1>5. c < n
  <2>1. fs[i].firstAt < fs[i + 1].firstAt
    BY ONLY <1>1, Along(N, part, fs) DEF Along
  <2>2. At(c) < At(n)
    BY ONLY <1>2, <1>3, <2>1
  <2>3. c \in Nat /\ n \in Nat
    BY <1>2, <1>3
  <2>4. At(c) \in Nat /\ At(n) \in Nat /\ (n <= c => At(n) <= At(c))
    BY ONLY <2>3, AtOrder
  <2> QED  BY ONLY <2>2, <2>3, <2>4
<1>6. part[n] = Sub(part[c], fs[i].offset)
  BY ONLY <1>2, <1>3, <1>4
<1>7. Calling(N, part, fs, i, c, n)
  BY ONLY <1>2, <1>3, <1>4, <1>5, <1>6 DEF Calling
<1> QED  BY <1>7

\* So the block of the one is below that of the other.
LEMMA CallingBelow ==
  ASSUME NEW t, NEW l, NEW m, NEW N, NEW H, NEW part, Vectors(t, l, m, N, H, part),
         NEW fs, NEW i, NEW c, NEW n, Calling(N, part, fs, i, c, n)
  PROVE  /\ IsChild(t, l, m, N, H, part, c, fs[i].offset, n)
         /\ n >= m <=> i = H - 1
<1>1. /\ c \in 0..(N - 1) /\ n \in 0..(N - 1) /\ c < n
      /\ fs[i].offset \in Offsets /\ part[n] = Sub(part[c], fs[i].offset) /\ part[n].level = i
  BY ONLY Calling(N, part, fs, i, c, n) DEF Calling
<1>2. n >= m <=> part[n].level = H - 1
  BY ONLY <1>1, Vectors(t, l, m, N, H, part), VectorOfLevel
<1> QED  BY ONLY <1>1, <1>2, Vectors(t, l, m, N, H, part) DEF IsChild

\* g is activation f at its next offset.
NextOf(f, g, s) ==
  /\ g.firstAt = f.firstAt /\ g.rows = f.rows /\ g.columns = f.columns
  /\ g.offset = f.offset + s

\* gs are the first k activations, the last of them at its next offset.
GoesOn(fs, k, gs, s) ==
  /\ Len(gs) = k
  /\ \A i \in 1..k : i < k => gs[i] = fs[i]
  /\ NextOf(fs[k], gs[k], s)

\* One activation is replaced.
LEMMA ReplacedGoesOn ==
  ASSUME NEW fs \in Seq(Frames), NEW hs \in Seq(Frames), NEW k \in 1..Len(fs), Len(hs) = k,
         \A i \in 1..k : hs[i] = fs[i],
         NEW f \in Frames, NEW s, NextOf(fs[k], f, s), NEW gs, gs = [hs EXCEPT ![k] = f]
  PROVE  GoesOn(fs, k, gs, s)
<1>1. k \in 1..Len(hs)
  OBVIOUS
<1>2. /\ Len(gs) = Len(hs)
      /\ \A j \in 1..Len(hs) : gs[j] = IF j = k THEN f ELSE hs[j]
  BY <1>1, ReplaceFrame
<1>3. gs[k] = f
  BY ONLY <1>1, <1>2
<1>4. \A i \in 1..k : i < k => gs[i] = fs[i]
  BY <1>2
<1> QED  BY <1>2, <1>3, <1>4 DEF GoesOn

\* In the terms of a pass.
LEMMA GoesOnMoves ==
  ASSUME NEW fs \in Seq(Frames), NEW k \in 1..Len(fs), NEW gs, NEW s \in {-1, 1},
         GoesOn(fs, k, gs, s), NEW H \in Nat, k <= H, NEW part, NEW q, Agree(fs, k, part, q),
         NEW n \in Nat, n + 1 = k
  PROVE  MovesOn(fs, n, gs, s, H, part, q)
<1>1. Len(fs) \in Nat /\ k \in Nat /\ n + 1 = k
  OBVIOUS
<1>2. ASSUME NEW i \in 1..k PROVE fs[i].offset \in Int
  <2>1. i \in 1..Len(fs)
    BY ONLY <1>1, <1>2, k \in 1..Len(fs)
  <2>2. fs \in Seq(Frames)
    OBVIOUS
  <2>3. fs[i] \in Frames
    BY ONLY <2>1, <2>2
  <2>4. fs[i].offset \in Nat \cup {-1}
    BY ONLY <2>3 DEF Frames
  <2> QED  BY ONLY <2>4
<1>3. /\ Len(gs) = k /\ \A i \in 1..k : i < k => gs[i] = fs[i]
      /\ gs[k].firstAt = fs[k].firstAt /\ gs[k].rows = fs[k].rows
      /\ gs[k].columns = fs[k].columns /\ gs[k].offset = fs[k].offset + s
  BY DEF GoesOn, NextOf
<1>4. ASSUME NEW i \in 1..k
      PROVE  /\ gs[i].firstAt = fs[i].firstAt
             /\ gs[i].rows = fs[i].rows /\ gs[i].columns = fs[i].columns
             /\ i < k => gs[i].offset = fs[i].offset
  <2>1. CASE i < k
    BY ONLY <1>3, <1>4, <2>1
  <2>2. CASE ~(i < k)
    <3>1. i = k
      BY ONLY <1>1, <1>4, <2>2
    <3> QED  BY ONLY <1>3, <2>2, <3>1
  <2> QED  BY ONLY <2>1, <2>2
<1>5. Moves(fs, k, gs, s)
  BY ONLY <1>3, <1>4, k \in 1..Len(fs) DEF Moves
<1>6. s \in {-1, 1} /\ H \in Nat /\ k <= H /\ Agree(fs, k, part, q)
  OBVIOUS
<1>7. n + 1 <= H /\ Moves(fs, n + 1, gs, s) /\ Agree(fs, n + 1, part, q)
      /\ \A i \in 1..(n + 1) : fs[i].offset \in Int
  BY ONLY <1>1, <1>2, <1>5, <1>6
<1> QED  BY ONLY <1>1, <1>6, <1>7 DEF MovesOn
=============================================================================
