------------------------ MODULE TensorParallelProofs ------------------------
(***************************************************************************)
(* Theorems about the tensor-parallel harness.  First WeightSplit: how the *)
(* weights are cut, for every number of heads, head size and tensor shape. *)
(* Then TensorParallel: the setup and the passes, for every model shape,   *)
(* every split program and every set of files: what the host patches, that *)
(* the weights it uploads stay where the resolvers say they are, and that  *)
(* no instruction stores outside the buffer it is given.                   *)
(***************************************************************************)
EXTENDS TensorParallel, Sums, FiniteSetTheorems, TLAPS

(***************************************************************************)
(* Division.                                                               *)
(***************************************************************************)
LEMMA DivDef ==
  ASSUME NEW m \in Nat, NEW d \in Nat \ {0}
  PROVE  /\ m \div d \in Nat
         /\ m % d \in 0 .. d-1
         /\ m = d * (m \div d) + (m % d)
BY SMTT(30)

LEMMA DivUnique ==
  ASSUME NEW d \in Nat \ {0}, NEW q \in Nat, NEW r \in 0 .. d-1
  PROVE  (d * q + r) \div d = q /\ (d * q + r) % d = r
BY SMTT(30)

\* Numbers written in base d are equal only digit by digit.
LEMMA DigitsUnique ==
  ASSUME NEW d \in Nat \ {0}, NEW q \in Nat, NEW r \in 0 .. d-1,
         NEW p \in Nat, NEW s \in 0 .. d-1, d * q + r = d * p + s
  PROVE  q = p /\ r = s
BY DivUnique

\* ... and ordered by the leading one.
LEMMA DigitsBound ==
  ASSUME NEW d \in Nat \ {0}, NEW q \in Nat, NEW r \in 0 .. d-1, NEW n \in Nat
  PROVE  d * q + r < d * n <=> q < n
<1>1. ASSUME q < n PROVE d * q + r < d * n
  <2>1. d * n = d * q + d * (n - q) /\ d * (n - q) >= d
    BY <1>1, SMTT(30)
  <2> QED BY <2>1, SMTT(30)
<1>2. ASSUME ~ (q < n) PROVE ~ (d * q + r < d * n)
  <2>1. d * q = d * n + d * (q - n) /\ d * (q - n) >= 0
    BY <1>2, SMTT(30)
  <2> QED BY <2>1, SMTT(30)
<1> QED BY <1>1, <1>2

(***************************************************************************)
(* HalfOfBlocks in digits: the block, the half of it and the place there.  *)
(***************************************************************************)
LEMMA HalfOfBlocksDigits ==
  ASSUME NEW half \in Nat \ {0}, NEW g \in GPU, NEW q \in Nat, NEW r \in 0 .. half-1
  PROVE  HalfOfBlocks(half * q + r, 2 * half, g) = half * (2 * q + g) + r
<1>1. (2 * half) \div 2 = half
  OBVIOUS
<1>2. (half * q + r) \div half = q /\ (half * q + r) % half = r
  BY DivUnique
<1>3. q * (2 * half) + g * half + r = half * (2 * q + g) + r
  BY SMTT(30) DEF GPU
<1> QED BY <1>1, <1>2, <1>3 DEF HalfOfBlocks

LEMMA HalfOfBlocksRange ==
  ASSUME NEW half \in Nat \ {0}, NEW g \in GPU, NEW k \in Nat, NEW n \in Nat
  PROVE  /\ HalfOfBlocks(k, 2 * half, g) \in Nat
         /\ HalfOfBlocks(k, 2 * half, g) < (2 * half) * n <=> k < half * n
<1> DEFINE q == k \div half  r == k % half
<1>1. q \in Nat /\ r \in 0 .. half-1 /\ k = half * q + r
  BY DivDef
<1> HIDE DEF q, r
<1>2. HalfOfBlocks(k, 2 * half, g) = half * (2 * q + g) + r
  BY <1>1, HalfOfBlocksDigits
<1>3. 2 * q + g \in Nat /\ (2 * q + g < 2 * n <=> q < n)
  BY <1>1 DEF GPU
<1>4. half * (2 * q + g) + r < half * (2 * n) <=> 2 * q + g < 2 * n
  <2> DEFINE b == 2 * q + g
  <2>1. b \in Nat BY <1>3
  <2> HIDE DEF b
  <2>2. half * b + r < half * (2 * n) <=> b < 2 * n
    BY <2>1, <1>1, DigitsBound
  <2> QED BY <2>2 DEF b
<1>5. half * q + r < half * n <=> q < n
  BY <1>1, DigitsBound
<1>6. (2 * half) * n = half * (2 * n)
  BY SMTT(30)
<1>7. half * (2 * q + g) \in Nat
  BY <1>3, SMTT(30)
<1> QED BY <1>1, <1>2, <1>3, <1>4, <1>5, <1>6, <1>7

LEMMA HalfOfBlocksInjective ==
  ASSUME NEW half \in Nat \ {0}, NEW g \in GPU, NEW h \in GPU, NEW k \in Nat, NEW j \in Nat,
         HalfOfBlocks(k, 2 * half, g) = HalfOfBlocks(j, 2 * half, h)
  PROVE  g = h /\ k = j
<1> DEFINE q == k \div half  r == k % half  p == j \div half  s == j % half
<1>1. /\ q \in Nat /\ r \in 0 .. half-1 /\ k = half * q + r
      /\ p \in Nat /\ s \in 0 .. half-1 /\ j = half * p + s
  BY DivDef
<1> HIDE DEF q, r, p, s
<1> DEFINE a == 2 * q + g  b == 2 * p + h
<1>2. half * a + r = half * b + s
  BY <1>1, HalfOfBlocksDigits
<1>3. a \in Nat /\ b \in Nat
  BY <1>1 DEF GPU
<1>4. a = b /\ r = s
  <2> HIDE DEF a, b
  <2> QED BY <1>1, <1>2, <1>3, DigitsUnique
<1>5. q = p /\ g = h
  BY <1>1, <1>4 DEF GPU
<1> QED BY <1>1, <1>4, <1>5

LEMMA HalfOfBlocksOnto ==
  ASSUME NEW half \in Nat \ {0}, NEW i \in Nat
  PROVE  \E g \in GPU, k \in Nat : HalfOfBlocks(k, 2 * half, g) = i
<1> DEFINE b == i \div half  r == i % half
<1>1. b \in Nat /\ r \in 0 .. half-1 /\ i = half * b + r
  BY DivDef
<1> HIDE DEF b, r
<1>2. PICK q \in Nat, g \in GPU : b = 2 * q + g
  <2>1. b \div 2 \in Nat /\ b % 2 \in 0 .. 1 /\ b = 2 * (b \div 2) + (b % 2)
    BY <1>1
  <2> QED BY <2>1 DEF GPU
<1>3. half * q + r \in Nat
  BY <1>1, SMTT(30)
<1>4. HalfOfBlocks(half * q + r, 2 * half, g) = i
  BY <1>1, <1>2, HalfOfBlocksDigits
<1> QED BY <1>3, <1>4

(***************************************************************************)
(* The slices s[0] and s[1] have each of n units exactly once.             *)
(***************************************************************************)
Partition(s, n) ==
  /\ \A g \in GPU : \A k \in DOMAIN s[g] : s[g][k] \in 0 .. n-1
  /\ \A i \in 0 .. n-1 : \E g \in GPU : \E k \in DOMAIN s[g] : s[g][k] = i
  /\ \A g, h \in GPU : \A k \in DOMAIN s[g], j \in DOMAIN s[h] :
       s[g][k] = s[h][j] => g = h /\ k = j

\* The halves of n blocks of a vector.
LEMMA BlocksPartition ==
  ASSUME NEW half \in Nat \ {0}, NEW n \in Nat
  PROVE  Partition([g \in GPU |-> [k \in 0 .. half * n - 1 |-> HalfOfBlocks(k, 2 * half, g)]],
                   (2 * half) * n)
<1> DEFINE s == [g \in GPU |-> [k \in 0 .. half * n - 1 |-> HalfOfBlocks(k, 2 * half, g)]]
<1>0. half * n \in Nat /\ (2 * half) * n \in Nat
  BY SMTT(30)
<1>1. ASSUME NEW g \in GPU, NEW k \in DOMAIN s[g] PROVE s[g][k] \in 0 .. (2 * half) * n - 1
  <2>1. k \in Nat /\ k < half * n /\ s[g][k] = HalfOfBlocks(k, 2 * half, g)
    BY <1>0
  <2>2. /\ HalfOfBlocks(k, 2 * half, g) \in Nat
        /\ HalfOfBlocks(k, 2 * half, g) < (2 * half) * n
    BY <2>1, HalfOfBlocksRange
  <2> HIDE DEF s
  <2> QED BY <1>0, <2>1, <2>2
<1>2. ASSUME NEW i \in 0 .. (2 * half) * n - 1
      PROVE  \E g \in GPU : \E k \in DOMAIN s[g] : s[g][k] = i
  <2>0. i \in Nat /\ i < (2 * half) * n
    BY <1>0
  <2>1. PICK g \in GPU, k \in Nat : HalfOfBlocks(k, 2 * half, g) = i
    BY <2>0, HalfOfBlocksOnto
  <2>2. k < half * n
    BY <2>0, <2>1, HalfOfBlocksRange
  <2> QED BY <1>0, <2>1, <2>2
<1>3. ASSUME NEW g \in GPU, NEW h \in GPU, NEW k \in DOMAIN s[g], NEW j \in DOMAIN s[h],
             s[g][k] = s[h][j]
      PROVE  g = h /\ k = j
  BY <1>0, <1>3, HalfOfBlocksInjective
<1> QED BY <1>1, <1>2, <1>3 DEF Partition

\* A partition of n rows is one of their units, of which each row has width.
LEMMA RowsPartition ==
  ASSUME NEW width \in Nat \ {0}, NEW n \in Nat, NEW len \in Nat, NEW rows,
         \A g \in GPU : DOMAIN rows[g] = 0 .. len-1,
         Partition(rows, n)
  PROVE  Partition([g \in GPU |-> [k \in 0 .. width * len - 1 |->
                                     width * rows[g][k \div width] + (k % width)]],
                   width * n)
<1> DEFINE s == [g \in GPU |-> [k \in 0 .. width * len - 1 |->
                                  width * rows[g][k \div width] + (k % width)]]
<1>0. width * len \in Nat /\ width * n \in Nat
  BY SMTT(30)
<1>1. ASSUME NEW g \in GPU, NEW k \in DOMAIN s[g]
      PROVE  /\ k \div width \in DOMAIN rows[g]
             /\ rows[g][k \div width] \in Nat /\ rows[g][k \div width] < n
             /\ k % width \in 0 .. width-1 /\ k = width * (k \div width) + (k % width)
             /\ s[g][k] = width * rows[g][k \div width] + (k % width)
  <2>1. k \in Nat /\ k < width * len
    BY <1>0
  <2> DEFINE q == k \div width  r == k % width
  <2>2. q \in Nat /\ r \in 0 .. width-1 /\ k = width * q + r
    BY <2>1, DivDef
  <2>3. q < len
    <3> HIDE DEF q, r
    <3> QED BY <2>1, <2>2, DigitsBound
  <2>4. q \in DOMAIN rows[g]
    BY <2>2, <2>3
  <2>5. rows[g][q] \in Nat /\ rows[g][q] < n
    <3>1. rows[g][q] \in 0 .. n-1
      BY <2>4 DEF Partition
    <3> QED BY <3>1
  <2> QED BY <2>2, <2>4, <2>5
<1>2. ASSUME NEW g \in GPU, NEW k \in DOMAIN s[g] PROVE s[g][k] \in 0 .. width * n - 1
  <2> DEFINE q == rows[g][k \div width]  r == k % width
  <2>1. q \in Nat /\ q < n /\ r \in 0 .. width-1 /\ s[g][k] = width * q + r
    BY <1>1
  <2> HIDE DEF q, r, s
  <2>2. width * q + r < width * n /\ width * q \in Nat
    BY <2>1, DigitsBound, SMTT(30)
  <2> QED BY <1>0, <2>1, <2>2
<1>3. ASSUME NEW i \in 0 .. width * n - 1
      PROVE  \E g \in GPU : \E k \in DOMAIN s[g] : s[g][k] = i
  <2> DEFINE b == i \div width  r == i % width
  <2>1. b \in Nat /\ r \in 0 .. width-1 /\ i = width * b + r
    <3>1. i \in Nat
      BY <1>0
    <3> QED BY <3>1, DivDef
  <2> HIDE DEF b, r
  <2>2. b \in 0 .. n-1
    BY <1>0, <2>1, DigitsBound
  <2>3. PICK g \in GPU : \E q \in DOMAIN rows[g] : rows[g][q] = b
    BY <2>2 DEF Partition
  <2>4. PICK q \in 0 .. len-1 : rows[g][q] = b
    BY <2>3
  <2>5. width * q + r \in 0 .. width * len - 1
    BY <2>1, <1>0, DigitsBound, SMTT(30)
  <2>6. (width * q + r) \div width = q /\ (width * q + r) % width = r
    BY <2>1, DivUnique
  <2>7. s[g][width * q + r] = i
    BY <2>1, <2>4, <2>5, <2>6
  <2> QED BY <2>5, <2>7
<1>4. ASSUME NEW g \in GPU, NEW h \in GPU, NEW k \in DOMAIN s[g], NEW j \in DOMAIN s[h],
             s[g][k] = s[h][j]
      PROVE  g = h /\ k = j
  <2> DEFINE q == k \div width  r == k % width  p == j \div width  c == j % width
  <2>1. /\ q \in DOMAIN rows[g] /\ rows[g][q] \in Nat /\ r \in 0 .. width-1
        /\ k = width * q + r /\ s[g][k] = width * rows[g][q] + r
    BY <1>1
  <2>2. /\ p \in DOMAIN rows[h] /\ rows[h][p] \in Nat /\ c \in 0 .. width-1
        /\ j = width * p + c /\ s[h][j] = width * rows[h][p] + c
    BY <1>1
  <2> HIDE DEF q, r, p, c, s
  <2>3. rows[g][q] = rows[h][p] /\ r = c
    <3> DEFINE x == rows[g][q]  y == rows[h][p]
    <3>1. /\ x \in Nat /\ y \in Nat /\ r \in 0 .. width-1 /\ c \in 0 .. width-1
          /\ width * x + r = width * y + c
      BY <1>4, <2>1, <2>2
    <3> HIDE DEF x, y
    <3>2. x = y /\ r = c
      BY ONLY width \in Nat \ {0}, <3>1, DigitsUnique
    <3> QED BY <3>2 DEF x, y
  <2>4. g = h /\ q = p
    BY <2>1, <2>2, <2>3 DEF Partition
  <2> QED BY <2>1, <2>2, <2>3, <2>4
<1> QED BY <1>2, <1>3, <1>4 DEF Partition

\* Rows of full units, each partitioned by the same columns, of which a GPU has len.
LEMMA ColumnsPartition ==
  ASSUME NEW len \in Nat \ {0}, NEW full \in Nat \ {0}, NEW count \in Nat, NEW cols,
         \A g \in GPU : DOMAIN cols[g] = 0 .. len-1,
         Partition(cols, full)
  PROVE  Partition([g \in GPU |-> [k \in 0 .. len * count - 1 |->
                                     full * (k \div len) + cols[g][k % len]]],
                   full * count)
<1> DEFINE s == [g \in GPU |-> [k \in 0 .. len * count - 1 |->
                                  full * (k \div len) + cols[g][k % len]]]
<1>0. len * count \in Nat /\ full * count \in Nat
  BY SMTT(30)
<1>1. ASSUME NEW g \in GPU, NEW k \in DOMAIN s[g]
      PROVE  /\ k \div len \in Nat /\ k \div len < count /\ k % len \in DOMAIN cols[g]
             /\ k % len \in Nat /\ k = len * (k \div len) + (k % len)
             /\ cols[g][k % len] \in 0 .. full-1
             /\ s[g][k] = full * (k \div len) + cols[g][k % len]
  <2>1. k \in Nat /\ k < len * count
    BY <1>0
  <2> DEFINE q == k \div len  r == k % len
  <2>2. q \in Nat /\ r \in 0 .. len-1 /\ k = len * q + r
    BY <2>1, DivDef
  <2>3. q < count
    <3> HIDE DEF q, r
    <3> QED BY <2>1, <2>2, DigitsBound
  <2>4. r \in DOMAIN cols[g] /\ r \in Nat
    BY <2>2
  <2>5. cols[g][r] \in 0 .. full-1
    BY <2>4 DEF Partition
  <2> QED BY <2>2, <2>3, <2>4, <2>5
<1>2. ASSUME NEW g \in GPU, NEW k \in DOMAIN s[g] PROVE s[g][k] \in 0 .. full * count - 1
  <2> DEFINE q == k \div len  r == cols[g][k % len]
  <2>1. q \in Nat /\ q < count /\ r \in 0 .. full-1 /\ s[g][k] = full * q + r
    BY <1>1
  <2> HIDE DEF q, r, s
  <2>2. full * q + r < full * count /\ full * q \in Nat
    BY <2>1, DigitsBound, SMTT(30)
  <2> QED BY <1>0, <2>1, <2>2
<1>3. ASSUME NEW i \in 0 .. full * count - 1
      PROVE  \E g \in GPU : \E k \in DOMAIN s[g] : s[g][k] = i
  <2> DEFINE b == i \div full  r == i % full
  <2>1. b \in Nat /\ r \in 0 .. full-1 /\ i = full * b + r
    <3>1. i \in Nat
      BY <1>0
    <3> QED BY <3>1, DivDef
  <2> HIDE DEF b, r
  <2>2. b < count
    BY <1>0, <2>1, DigitsBound
  <2>3. PICK g \in GPU : \E q \in DOMAIN cols[g] : cols[g][q] = r
    BY <2>1 DEF Partition
  <2>4. PICK q \in 0 .. len-1 : cols[g][q] = r
    BY <2>3
  <2>5. len * b + q \in 0 .. len * count - 1
    BY <2>1, <2>2, <1>0, DigitsBound, SMTT(30)
  <2>6. (len * b + q) \div len = b /\ (len * b + q) % len = q
    BY <2>1, DivUnique
  <2>7. s[g][len * b + q] = i
    BY <2>1, <2>4, <2>5, <2>6
  <2> QED BY <2>5, <2>7
<1>4. ASSUME NEW g \in GPU, NEW h \in GPU, NEW k \in DOMAIN s[g], NEW j \in DOMAIN s[h],
             s[g][k] = s[h][j]
      PROVE  g = h /\ k = j
  <2> DEFINE q == k \div len  r == k % len  p == j \div len  c == j % len
  <2>1. /\ q \in Nat /\ r \in DOMAIN cols[g] /\ r \in Nat /\ k = len * q + r
        /\ cols[g][r] \in 0 .. full-1 /\ s[g][k] = full * q + cols[g][r]
    BY <1>1
  <2>2. /\ p \in Nat /\ c \in DOMAIN cols[h] /\ c \in Nat /\ j = len * p + c
        /\ cols[h][c] \in 0 .. full-1 /\ s[h][j] = full * p + cols[h][c]
    BY <1>1
  <2> HIDE DEF q, r, p, c, s
  <2>3. q = p /\ cols[g][r] = cols[h][c]
    <3> DEFINE x == cols[g][r]  y == cols[h][c]
    <3>1. /\ q \in Nat /\ p \in Nat /\ x \in 0 .. full-1 /\ y \in 0 .. full-1
          /\ full * q + x = full * p + y
      BY <1>4, <2>1, <2>2
    <3> HIDE DEF x, y
    <3>2. q = p /\ x = y
      BY ONLY full \in Nat \ {0}, <3>1, DigitsUnique
    <3> QED BY <3>2 DEF x, y
  <2>4. g = h /\ r = c
    BY <2>1, <2>2, <2>3 DEF Partition
  <2> QED BY <2>1, <2>2, <2>3, <2>4
<1> QED BY <1>2, <1>3, <1>4 DEF Partition

LEMMA DigitsInRange ==
  ASSUME NEW d \in Nat \ {0}, NEW n \in Nat, NEW k \in 0 .. d * n - 1
  PROVE  k \div d \in 0 .. n-1 /\ k % d \in 0 .. d-1
<1>1. k \in Nat /\ k < d * n
  <2>1. d * n \in Nat
    BY SMTT(30)
  <2> QED BY <2>1
<1> DEFINE q == k \div d  r == k % d
<1>2. q \in Nat /\ r \in 0 .. d-1 /\ k = d * q + r
  BY <1>1, DivDef
<1>3. q < n
  <2> HIDE DEF q, r
  <2> QED BY <1>1, <1>2, DigitsBound
<1> QED BY <1>2, <1>3

\* The first block.
LEMMA FirstBlock ==
  ASSUME NEW half \in Nat \ {0}, NEW g \in GPU, NEW k \in 0 .. half-1
  PROVE  HalfOfBlocks(k, 2 * half, g) = g * half + k
<1>1. \A q \in Nat : HalfOfBlocks(half * q + k, 2 * half, g) = half * (2 * q + g) + k
  BY HalfOfBlocksDigits
<1>2. \A z : z = 0 => HalfOfBlocks(half * z + k, 2 * half, g) = half * (2 * z + g) + k
  BY <1>1
<1>3. HalfOfBlocks(half * 0 + k, 2 * half, g) = half * (2 * 0 + g) + k
  BY ONLY <1>2, Zenon
<1>4. half * 0 + k = k /\ half * (2 * 0 + g) = g * half
  <2>1. half * 0 = 0 /\ 2 * 0 = 0 /\ k \in Nat /\ g \in {0, 1}
    BY DEF GPU
  <2>2. half * g = g * half
    BY <2>1
  <2> QED BY <2>1, <2>2
<1> QED BY <1>3, <1>4

\* The two halves of a vector.
LEMMA HalvesPartition ==
  ASSUME NEW half \in Nat \ {0}
  PROVE  Partition([g \in GPU |-> [k \in 0 .. half-1 |-> g * half + k]], 2 * half)
<1>1. ASSUME NEW g \in GPU, NEW k \in 0 .. half-1
      PROVE  HalfOfBlocks(k, 2 * half, g) = g * half + k
  BY FirstBlock
<1>2. Partition([g \in GPU |-> [k \in 0 .. half * 1 - 1 |-> HalfOfBlocks(k, 2 * half, g)]],
                (2 * half) * 1)
  BY BlocksPartition
<1>3. half * 1 = half /\ (2 * half) * 1 = 2 * half
  OBVIOUS
<1>4. [g \in GPU |-> [k \in 0 .. half - 1 |-> HalfOfBlocks(k, 2 * half, g)]]
        = [g \in GPU |-> [k \in 0 .. half - 1 |-> g * half + k]]
  BY <1>1
<1> QED BY <1>2, <1>3, <1>4

(***************************************************************************)
(* The slices.                                                             *)
(***************************************************************************)
LEMMA StridedRowsPartition ==
  ASSUME NEW half \in Nat \ {0}, NEW n \in Nat, NEW t,
         t.ne[1] \in Nat \ {0}, t.ne[2] = (2 * half) * n
  PROVE  Partition([g \in GPU |-> StridedRows(t, 2 * half, g)], Units(t))
<1> DEFINE w == t.ne[1]  len == half * n
           rows == [g \in GPU |-> [k \in 0 .. len-1 |-> HalfOfBlocks(k, 2 * half, g)]]
<1>1. w \in Nat \ {0} /\ len \in Nat /\ (2 * half) * n \in Nat
  BY SMTT(30)
<1>2. t.ne[2] \div (2 * half) = n /\ (2 * half) \div 2 = half
  <2>1. ((2 * half) * n + 0) \div (2 * half) = n
    BY DivUnique
  <2> QED BY <1>1, <2>1
<1>3. Partition(rows, (2 * half) * n)
  BY BlocksPartition
<1>4. \A g \in GPU : DOMAIN rows[g] = 0 .. len-1
  OBVIOUS
<1>5. Partition([g \in GPU |-> [k \in 0 .. w * len - 1 |->
                                  w * rows[g][k \div w] + (k % w)]], w * ((2 * half) * n))
  <2> HIDE DEF rows, len, w
  <2> QED BY <1>1, <1>3, <1>4, RowsPartition
<1>6. ASSUME NEW g \in GPU
      PROVE  StridedRows(t, 2 * half, g)
               = [k \in 0 .. w * len - 1 |-> w * rows[g][k \div w] + (k % w)]
  <2>1. (n * half) * w = w * len
    BY <1>1, SMTT(30)
  <2>2. ASSUME NEW k \in 0 .. w * len - 1
        PROVE  HalfOfBlocks(k \div w, 2 * half, g) * w + (k % w)
                 = w * rows[g][k \div w] + (k % w)
    <3>1. k \div w \in 0 .. len-1
      <4> HIDE DEF w, len
      <4> QED BY <1>1, DigitsInRange
    <3> DEFINE q == k \div w
    <3>2. rows[g][q] = HalfOfBlocks(q, 2 * half, g) /\ q \in Nat
      BY <3>1
    <3> HIDE DEF q
    <3>3. HalfOfBlocks(q, 2 * half, g) \in Nat
      BY <3>2, <1>1, HalfOfBlocksRange
    <3> DEFINE x == HalfOfBlocks(q, 2 * half, g)
    <3>4. x * w = w * x
      <4> HIDE DEF x, w
      <4> QED BY <3>3, <1>1, SMTT(30) DEF x
    <3> QED BY <3>2, <3>4 DEF q
  <2> HIDE DEF rows
  <2> QED BY <1>2, <2>1, <2>2 DEF StridedRows
<1>7. Units(t) = w * ((2 * half) * n)
  BY DEF Units
<1> QED BY <1>5, <1>6, <1>7

LEMMA StridedVectorPartition ==
  ASSUME NEW half \in Nat \ {0}, NEW n \in Nat, NEW t,
         t.ne[1] = (2 * half) * n, t.ne[2] = 1
  PROVE  Partition([g \in GPU |-> StridedVector(t, 2 * half, g)], Units(t))
<1>1. (2 * half) * n \in Nat /\ n * half = half * n
  BY SMTT(30)
<1>2. t.ne[1] \div (2 * half) = n /\ (2 * half) \div 2 = half
  <2>1. ((2 * half) * n + 0) \div (2 * half) = n
    BY DivUnique
  <2> QED BY <1>1, <2>1
<1>3. Units(t) = (2 * half) * n
  BY <1>1 DEF Units
<1>4. [g \in GPU |-> StridedVector(t, 2 * half, g)]
        = [g \in GPU |-> [k \in 0 .. half * n - 1 |-> HalfOfBlocks(k, 2 * half, g)]]
  BY <1>1, <1>2 DEF StridedVector
<1> QED BY <1>3, <1>4, BlocksPartition

LEMMA StridedColumnsPartition ==
  ASSUME NEW half \in Nat \ {0}, NEW n \in Nat \ {0}, NEW t,
         t.ne[1] = (2 * half) * n, t.ne[2] \in Nat
  PROVE  Partition([g \in GPU |-> StridedColumns(t, 2 * half, g)], Units(t))
<1> DEFINE full == (2 * half) * n  len == half * n  count == t.ne[2]
           cols == [g \in GPU |-> [k \in 0 .. len-1 |-> HalfOfBlocks(k, 2 * half, g)]]
<1>1. full \in Nat \ {0} /\ len \in Nat \ {0} /\ n * half = len
  BY SMTT(30)
<1>2. t.ne[1] \div (2 * half) = n /\ (2 * half) \div 2 = half
  <2>1. ((2 * half) * n + 0) \div (2 * half) = n
    BY DivUnique
  <2> QED BY <1>1, <2>1
<1>3. Partition(cols, full)
  BY BlocksPartition
<1>4. \A g \in GPU : DOMAIN cols[g] = 0 .. len-1
  OBVIOUS
<1>5. Partition([g \in GPU |-> [k \in 0 .. len * count - 1 |->
                                  full * (k \div len) + cols[g][k % len]]], full * count)
  <2> HIDE DEF cols, len, full, count
  <2>1. count \in Nat
    BY DEF count
  <2> QED BY <1>1, <1>3, <1>4, <2>1, ColumnsPartition
<1>6. ASSUME NEW g \in GPU
      PROVE  StridedColumns(t, 2 * half, g)
               = [k \in 0 .. len * count - 1 |-> full * (k \div len) + cols[g][k % len]]
  <2>1. count * len = len * count
    BY <1>1, SMTT(30)
  <2>2. ASSUME NEW k \in 0 .. len * count - 1
        PROVE  (k \div len) * full + HalfOfBlocks(k % len, 2 * half, g)
                 = full * (k \div len) + cols[g][k % len]
    <3> DEFINE q == k \div len  r == k % len
    <3>1. q \in Nat /\ r \in 0 .. len-1
      <4> HIDE DEF len, count
      <4>1. count \in Nat
        BY DEF count
      <4>2. q \in 0 .. count-1 /\ r \in 0 .. len-1
        BY <1>1, <4>1, DigitsInRange
      <4> QED BY <4>2
    <3>2. cols[g][r] = HalfOfBlocks(r, 2 * half, g)
      BY <3>1
    <3>3. q * full = full * q
      <4> HIDE DEF q, full
      <4> QED BY <1>1, <3>1, SMTT(30)
    <3> QED BY <3>2, <3>3
  <2> HIDE DEF cols
  <2> QED BY <1>1, <1>2, <2>1, <2>2 DEF StridedColumns
<1>7. Units(t) = full * count
  BY DEF Units
<1> QED BY <1>5, <1>6, <1>7

LEMMA HalfOfRowsPartition ==
  ASSUME NEW half \in Nat \ {0}, NEW t, Units(t) = 2 * half
  PROVE  Partition([g \in GPU |-> HalfOfRows(t, g)], Units(t))
<1>1. Units(t) \div 2 = half
  OBVIOUS
<1>2. [g \in GPU |-> HalfOfRows(t, g)]
        = [g \in GPU |-> [k \in 0 .. half-1 |-> g * half + k]]
  BY <1>1 DEF HalfOfRows
<1> QED BY <1>2, HalvesPartition

LEMMA HalfOfColumnsPartition ==
  ASSUME NEW half \in Nat \ {0}, NEW t, t.ne[1] = 2 * half, t.ne[2] \in Nat
  PROVE  Partition([g \in GPU |-> HalfOfColumns(t, g)], Units(t))
<1> DEFINE full == 2 * half  count == t.ne[2]
           cols == [g \in GPU |-> [k \in 0 .. half-1 |-> g * half + k]]
<1>1. full \in Nat \ {0} /\ t.ne[1] \div 2 = half
  OBVIOUS
<1>2. Partition(cols, full)
  BY HalvesPartition
<1>3. \A g \in GPU : DOMAIN cols[g] = 0 .. half-1
  OBVIOUS
<1>4. Partition([g \in GPU |-> [k \in 0 .. half * count - 1 |->
                                  full * (k \div half) + cols[g][k % half]]], full * count)
  <2> HIDE DEF cols, full, count
  <2>1. count \in Nat
    BY DEF count
  <2> QED BY <1>1, <1>2, <1>3, <2>1, ColumnsPartition
<1>5. ASSUME NEW g \in GPU
      PROVE  HalfOfColumns(t, g)
               = [k \in 0 .. half * count - 1 |-> full * (k \div half) + cols[g][k % half]]
  <2>1. count * half = half * count
    BY SMTT(30)
  <2>2. ASSUME NEW k \in 0 .. half * count - 1
        PROVE  (k \div half) * full + g * half + (k % half)
                 = full * (k \div half) + cols[g][k % half]
    <3> DEFINE q == k \div half  r == k % half
    <3>1. q \in Nat /\ r \in 0 .. half-1
      <4> HIDE DEF count
      <4>1. count \in Nat
        BY DEF count
      <4>2. q \in 0 .. count-1 /\ r \in 0 .. half-1
        BY <4>1, DigitsInRange
      <4> QED BY <4>2
    <3>2. cols[g][r] = g * half + r
      BY <3>1
    <3>3. q * full + g * half + r = full * q + (g * half + r)
      <4> HIDE DEF q, r
      <4> QED BY <3>1, SMTT(30) DEF GPU
    <3> QED BY <3>2, <3>3
  <2> HIDE DEF cols
  <2> QED BY <1>1, <2>1, <2>2 DEF HalfOfColumns
<1>6. Units(t) = full * count
  BY DEF Units
<1> QED BY <1>4, <1>5, <1>6

(***************************************************************************)
(* The shapes weight_slice cuts without a remainder: exact halves, and of  *)
(* the DeltaNet weights whole blocks.                                      *)
(***************************************************************************)
Cuts(n, d) == \E q \in Nat \ {0} : n = d * q

Splittable(t) ==
  LET s == DnStride(t.name)  axis == WeightAxis(t.name) IN
  /\ t.ne[1] \in Nat \ {0} /\ t.ne[2] \in Nat \ {0}
  /\ s.dim = "row"   => Cuts(t.ne[2], s.period)
  /\ s.dim = "row1d" => Cuts(t.ne[1], s.period) /\ t.ne[2] = 1
  /\ s.dim = "col"   => Cuts(t.ne[1], s.period)
  /\ s.dim = "none" /\ axis = "row" => Cuts(Units(t), 2)
  /\ s.dim = "none" /\ axis = "col" => Cuts(t.ne[1], 2)

LEMMA EvenPeriod ==
  ASSUME NEW name, DnStride(name).dim # "none"
  PROVE  \E half \in Nat \ {0} : DnStride(name).period = 2 * half
<1>1. PICK h \in Nat \ {0} : KHeads = 2 * h
  <2>1. KHeads \in Nat \ {0} /\ KHeads % 2 = 0
    BY WeightSplitAssumption
  <2>2. KHeads \div 2 \in Nat \ {0} /\ KHeads = 2 * (KHeads \div 2)
    BY <2>1
  <2> QED BY <2>2
<1>2. KHeads * HeadDim = 2 * (h * HeadDim) /\ h * HeadDim \in Nat \ {0}
  BY <1>1, WeightSplitAssumption, SMTT(30)
<1>3. DnStride(name).period \in {KHeads, KHeads * HeadDim}
  BY DEF DnStride
<1> QED BY <1>1, <1>2, <1>3

LEMMA DnStrideDims ==
  ASSUME NEW name
  PROVE  /\ DnStride(name).dim \in {"row", "row1d", "col", "none"}
         /\ WeightAxis(name) \in {"row", "col", "mirror"}
BY DEF DnStride, WeightAxis

(***************************************************************************)
(* weight_slice: of every weight that is split, whichever of its five ways *)
(* of cutting applies, each unit is uploaded by exactly one GPU and to     *)
(* exactly one place of its slice; none is lost and none is in both.       *)
(***************************************************************************)
THEOREM SlicesPartitionWeights ==
  ASSUME NEW t, Splittable(t),
         DnStride(t.name).dim # "none" \/ WeightAxis(t.name) # "mirror"
  PROVE  Partition([g \in GPU |-> WeightSlice(t, g)], Units(t))
<1> DEFINE s == DnStride(t.name)
<1>1. CASE s.dim # "none"
  <2>1. PICK half \in Nat \ {0} : s.period = 2 * half
    BY <1>1, EvenPeriod
  <2>2. CASE s.dim = "row"
    <3>1. PICK n \in Nat \ {0} : t.ne[2] = (2 * half) * n
      BY <2>1, <2>2 DEF Splittable, Cuts
    <3>2. \A g \in GPU : WeightSlice(t, g) = StridedRows(t, 2 * half, g)
      BY <2>1, <2>2 DEF WeightSlice
    <3>3. Partition([g \in GPU |-> StridedRows(t, 2 * half, g)], Units(t))
      BY <3>1, StridedRowsPartition DEF Splittable
    <3> QED BY <3>2, <3>3
  <2>3. CASE s.dim = "row1d"
    <3>1. PICK n \in Nat \ {0} : t.ne[1] = (2 * half) * n
      BY <2>1, <2>3 DEF Splittable, Cuts
    <3>2. \A g \in GPU : WeightSlice(t, g) = StridedVector(t, 2 * half, g)
      BY <2>1, <2>3 DEF WeightSlice
    <3>3. Partition([g \in GPU |-> StridedVector(t, 2 * half, g)], Units(t))
      BY <2>3, <3>1, StridedVectorPartition DEF Splittable
    <3> QED BY <3>2, <3>3
  <2>4. CASE s.dim = "col"
    <3>1. PICK n \in Nat \ {0} : t.ne[1] = (2 * half) * n
      BY <2>1, <2>4 DEF Splittable, Cuts
    <3>2. \A g \in GPU : WeightSlice(t, g) = StridedColumns(t, 2 * half, g)
      BY <2>1, <2>4 DEF WeightSlice
    <3>3. Partition([g \in GPU |-> StridedColumns(t, 2 * half, g)], Units(t))
      BY <3>1, StridedColumnsPartition DEF Splittable
    <3> QED BY <3>2, <3>3
  <2> QED BY <1>1, <2>2, <2>3, <2>4, DnStrideDims
<1>2. CASE s.dim = "none" /\ WeightAxis(t.name) = "row"
  <2>1. PICK half \in Nat \ {0} : Units(t) = 2 * half
    BY <1>2 DEF Splittable, Cuts
  <2>2. \A g \in GPU : WeightSlice(t, g) = HalfOfRows(t, g)
    BY <1>2 DEF WeightSlice
  <2> QED BY <2>1, <2>2, HalfOfRowsPartition
<1>3. CASE s.dim = "none" /\ WeightAxis(t.name) = "col"
  <2>1. PICK half \in Nat \ {0} : t.ne[1] = 2 * half
    BY <1>3 DEF Splittable, Cuts
  <2>2. \A g \in GPU : WeightSlice(t, g) = HalfOfColumns(t, g)
    BY <1>3 DEF WeightSlice
  <2>3. Partition([g \in GPU |-> HalfOfColumns(t, g)], Units(t))
    BY <2>1, HalfOfColumnsPartition DEF Splittable
  <2> QED BY <2>2, <2>3
<1> QED BY <1>1, <1>2, <1>3, DnStrideDims

(***************************************************************************)
(* A v head of the whole model uses k head h % KHeads (op_gdn_step): the   *)
(* k head local v head h uses on its GPU, of the KHeads \div 2 there, is   *)
(* the very one its v head uses in the whole model.                        *)
(***************************************************************************)
THEOREM HeadsStayPaired ==
  ASSUME NEW g \in GPU, NEW h \in Nat
  PROVE  HalfOfBlocks(h, KHeads, g) % KHeads
           = HalfOfBlocks(h % (KHeads \div 2), KHeads, g)
<1>1. PICK half \in Nat \ {0} : KHeads = 2 * half
  <2>1. KHeads \div 2 \in Nat \ {0} /\ KHeads = 2 * (KHeads \div 2)
    BY WeightSplitAssumption
  <2> QED BY <2>1
<1>2. KHeads \div 2 = half
  BY <1>1
<1> DEFINE q == h \div half  r == h % half
<1>3. q \in Nat /\ r \in 0 .. half-1 /\ h = half * q + r
  BY DivDef
<1> HIDE DEF q
<1>4. HalfOfBlocks(h, KHeads, g) = KHeads * q + (g * half + r)
  <2>1. HalfOfBlocks(h, KHeads, g) = half * (2 * q + g) + r
    BY <1>1, <1>3, HalfOfBlocksDigits
  <2>2. half * (2 * q + g) = (2 * half) * q + g * half
    BY <1>3, SMTT(30) DEF GPU
  <2> HIDE DEF r
  <2>3. (2 * half) * q \in Nat /\ g * half \in Nat
    BY <1>3, SMTT(30) DEF GPU
  <2> QED BY <1>1, <1>3, <2>1, <2>2, <2>3
<1>5. HalfOfBlocks(r, KHeads, g) = g * half + r
  BY <1>1, <1>3, FirstBlock
<1> DEFINE w == g * half + r
<1>6. w \in 0 .. KHeads-1
  <2> HIDE DEF r
  <2> QED BY <1>1, <1>3, SMTT(30) DEF GPU
<1>7. (KHeads * q + w) % KHeads = w
  <2> HIDE DEF w
  <2>1. KHeads \in Nat \ {0}
    BY <1>1
  <2> QED BY ONLY <1>3, <1>6, <2>1, DivUnique
<1> QED BY <1>2, <1>4, <1>5, <1>7

(***************************************************************************)
(* Sites and their mailboxes.                                              *)
(***************************************************************************)
LEMMA SitesAreNat ==
  ASSUME NEW s \in MailboxSites PROVE s \in Nat
<1>1. \A e : \A x \in 0 .. e : x \in Nat
  OBVIOUS
<1> QED BY <1>1 DEF MailboxSites

LEMMA MailboxesApart ==
  ASSUME NEW s \in MailboxSites, NEW r \in MailboxSites, NEW g
  PROVE  Pointer(g, Payload, s * Embd) = Pointer(g, Payload, r * Embd) <=> s = r
<1>1. s \in Nat /\ r \in Nat /\ Embd \in Nat \ {0}
  BY SitesAreNat, SplitProgramAssumption
<1>2. s * Embd = r * Embd <=> s = r
  BY <1>1, SMTT(30)
<1> QED BY <1>2 DEF Pointer

(***************************************************************************)
(* f ++ g has f's fields, and of the others those of g.                    *)
(***************************************************************************)
LEMMA Overridden ==
  ASSUME NEW f, NEW g, NEW x
  PROVE  /\ x \in DOMAIN f => x \in DOMAIN (f ++ g) /\ (f ++ g)[x] = f[x]
         /\ x \in DOMAIN g => x \in DOMAIN (f ++ g)
         /\ x \in DOMAIN g /\ x \notin DOMAIN f => (f ++ g)[x] = g[x]
BY DEF ++

(***************************************************************************)
(* Packing.  What the invariant knows of an instruction of the packed      *)
(* program of GPU g: where its exchanges go.                               *)
(***************************************************************************)
Exchanges(g, ins) ==
  /\ ins.kind = "XCHG_PUSH" =>
       /\ ins.n.site \in MailboxSites
       /\ ins.p.peer_payload = Pointer(Peer(g), Payload, ins.n.site * Embd)
  /\ ins.kind = "XCHG_REDUCE" =>
       /\ "site" \in DOMAIN ins.n /\ ins.n.site \in MailboxSites
       /\ ins.p.my_payload = Pointer(g, Payload, ins.n.site * Embd)

\* One instruction becomes one or two.
LEMMA EmittedSeq ==
  ASSUME NEW ins
  PROVE  \/ \E a : Emitted(ins) = <<a>>
         \/ \E a, b : Emitted(ins) = <<a, b>>
<1>1. CASE ins.kind = "QK_L2NORM"
  BY <1>1, Zenon DEF Emitted
<1>2. CASE ins.kind = "QK_NORM_ROPE"
  BY <1>2, Zenon DEF Emitted
<1>3. CASE ins.kind = "KV_APPEND"
  BY <1>3, Zenon DEF Emitted
<1>4. CASE ins.kind \notin {"QK_L2NORM", "QK_NORM_ROPE", "KV_APPEND"}
  BY <1>4 DEF Emitted
<1> QED BY <1>1, <1>2, <1>3, <1>4

\* An exchange is emitted as it is and nothing else becomes one.
LEMMA EmittedKinds ==
  ASSUME NEW ins, NEW k \in DOMAIN Emitted(ins)
  PROVE  \/ Emitted(ins) = <<ins>>
         \/ /\ ins.kind \notin {"XCHG_PUSH", "XCHG_REDUCE"}
            /\ Emitted(ins)[k].kind \notin {"XCHG_PUSH", "XCHG_REDUCE"}
<1>1. CASE ins.kind = "QK_L2NORM"
  BY <1>1 DEF Emitted, Instr
<1>2. CASE ins.kind = "QK_NORM_ROPE"
  BY <1>2 DEF Emitted, Instr
<1>3. CASE ins.kind = "KV_APPEND"
  BY <1>3 DEF Emitted, Instr
<1>4. CASE ins.kind \notin {"QK_L2NORM", "QK_NORM_ROPE", "KV_APPEND"}
  BY <1>4 DEF Emitted
<1> QED BY <1>1, <1>2, <1>3, <1>4

LEMMA BoundKeeps ==
  ASSUME NEW ins, NEW r
  PROVE  Bound(ins, r).kind = ins.kind /\ Bound(ins, r).n = ins.n
BY DEF Bound, Instr

\* Binding keeps the kind, and gives an exchange the mailboxes of its site.
LEMMA BoundOnExchanges ==
  ASSUME NEW g \in GPU, NEW ins, mtab[g] = << >> \/ mtab[g] = Wired(g),
         ins.kind \in {"XCHG_PUSH", "XCHG_REDUCE"} => PackableOn(g, ins)
  PROVE  BoundOn(g, ins).kind = ins.kind /\ Exchanges(g, BoundOn(g, ins))
<1> DEFINE b == Bound(ins, resolver[g])  site == ins.n.site
<1>1. b.kind = ins.kind /\ b.n = ins.n
  BY BoundKeeps
<1>2. ASSUME ins.kind \in {"XCHG_PUSH", "XCHG_REDUCE"}
      PROVE  /\ "site" \in DOMAIN ins.n /\ site \in MailboxSites
             /\ mtab[g][site] = [my_payload   |-> Pointer(g, Payload, site * Embd),
                                 my_seqno     |-> Pointer(g, Seqno, site),
                                 peer_payload |-> Pointer(Peer(g), Payload, site * Embd),
                                 peer_seqno   |-> Pointer(Peer(g), Seqno, site)]
  <2>1. "site" \in DOMAIN ins.n /\ site \in DOMAIN mtab[g]
    BY <1>2 DEF PackableOn
  <2>2. mtab[g] = Wired(g)
    <3>1. DOMAIN << >> = {}
      OBVIOUS
    <3> QED BY <2>1, <3>1
  <2>3. site \in MailboxSites
    BY <2>1, <2>2 DEF Wired
  <2> HIDE DEF site
  <2> QED BY <2>1, <2>2, <2>3 DEF Wired
<1>3. CASE ins.kind = "XCHG_PUSH"
  <2> DEFINE box == [peer_payload |-> mtab[g][site].peer_payload]
  <2>1. BoundOn(g, ins) = Instr(b.kind, box ++ b.p, b.n)
    BY <1>3 DEF BoundOn
  <2>2. (box ++ b.p).peer_payload = Pointer(Peer(g), Payload, site * Embd)
    <3>1. "peer_payload" \in DOMAIN box
                /\ box.peer_payload = Pointer(Peer(g), Payload, site * Embd)
      BY <1>2, <1>3
    <3> HIDE DEF box, b
    <3> QED BY <3>1, Overridden
  <2> HIDE DEF box, b
  <2>3. BoundOn(g, ins).kind = "XCHG_PUSH" /\ BoundOn(g, ins).n.site = site
    BY <1>1, <1>3, <2>1 DEF Instr
  <2>4. BoundOn(g, ins).p.peer_payload = Pointer(Peer(g), Payload, site * Embd)
    BY <2>1, <2>2 DEF Instr
  <2> QED BY <1>2, <1>3, <2>3, <2>4 DEF Exchanges
<1>4. CASE ins.kind = "XCHG_REDUCE"
  <2> DEFINE box == mtab[g][site]  seqno == [seqno |-> 0]
  <2>1. BoundOn(g, ins) = Instr(b.kind, box ++ b.p, seqno ++ b.n)
    BY <1>4 DEF BoundOn
  <2>2. (box ++ b.p).my_payload = Pointer(g, Payload, site * Embd)
    <3>1. "my_payload" \in DOMAIN box /\ box.my_payload = Pointer(g, Payload, site * Embd)
      BY <1>2, <1>4
    <3> HIDE DEF box, b
    <3> QED BY <3>1, Overridden
  <2>3. "site" \in DOMAIN (seqno ++ b.n) /\ (seqno ++ b.n).site = site
    <3>1. "site" \notin DOMAIN seqno /\ "site" \in DOMAIN b.n /\ b.n.site = site
      BY <1>1, <1>2, <1>4
    <3> HIDE DEF seqno, b
    <3> QED BY <3>1, Overridden
  <2> HIDE DEF box, b, seqno
  <2>4. BoundOn(g, ins).kind = "XCHG_REDUCE" /\ BoundOn(g, ins).n = seqno ++ b.n
    BY <1>1, <1>4, <2>1 DEF Instr
  <2>5. BoundOn(g, ins).p.my_payload = Pointer(g, Payload, site * Embd)
    BY <2>1, <2>2 DEF Instr
  <2> QED BY <1>2, <1>4, <2>3, <2>4, <2>5 DEF Exchanges
<1>5. CASE ins.kind \notin {"XCHG_PUSH", "XCHG_REDUCE"}
  <2>1. BoundOn(g, ins) = b
    BY <1>5 DEF BoundOn
  <2> QED BY <1>1, <1>5, <2>1 DEF Exchanges
<1> QED BY <1>3, <1>4, <1>5

\* s \o u has the elements of s, then those of u.
LEMMA Concatenated ==
  ASSUME NEW S, NEW T, NEW s \in Seq(S), NEW u \in Seq(T)
  PROVE  /\ s \o u \in Seq(S \cup T)
         /\ DOMAIN (s \o u) = 1 .. Len(s) + Len(u)
         /\ DOMAIN s = 1 .. Len(s) /\ DOMAIN u = 1 .. Len(u)
         /\ Len(s) \in Nat /\ Len(u) \in Nat
         /\ \A k \in DOMAIN s : (s \o u)[k] = s[k]
         /\ \A k \in DOMAIN u : (s \o u)[Len(s) + k] = u[k]
<1>1. s \in Seq(S \cup T) /\ u \in Seq(S \cup T)
  OBVIOUS
<1> QED BY <1>1

(***************************************************************************)
(* The invariant.  A program that is being packed has, before the last     *)
(* instruction, only entries that reach the mailboxes of their site, and   *)
(* the places to patch are those of its reduces.  It holds for any split   *)
(* program, of which nothing is assumed.                                   *)
(***************************************************************************)
Packed(g, program, patches) ==
  /\ \E S : program \in Seq(S)
  /\ \A k \in DOMAIN program : Exchanges(g, program[k])
  /\ patches = {k \in DOMAIN program : program[k].kind = "XCHG_REDUCE"}

PatchInv ==
  /\ gpu \in GPU
  /\ prog = [g \in GPU |-> prog[g]] /\ xchgIdx = [g \in GPU |-> xchgIdx[g]]
  /\ \A g \in GPU : mtab[g] = << >> \/ mtab[g] = Wired(g)
  /\ \A g \in GPU : Packed(g, prog[g], xchgIdx[g])

LEMMA PatchInvInit == Init => PatchInv
<1> SUFFICES ASSUME Init PROVE PatchInv
  OBVIOUS
<1>1. \A g \in GPU : prog[g] = << >> /\ xchgIdx[g] = {} /\ mtab[g] = << >>
  BY DEF Init
<1>2. << >> \in Seq({}) /\ DOMAIN << >> = {}
  OBVIOUS
<1>3. \A g \in GPU : Packed(g, << >>, {})
  BY <1>2 DEF Packed
<1> QED BY <1>1, <1>3 DEF Init, PatchInv, GPU

\* A step of packing appends entries as the invariant wants them.
LEMMA PackedGrows ==
  ASSUME NEW g \in GPU, NEW ins, mtab[g] = << >> \/ mtab[g] = Wired(g), PackableOn(g, ins),
         NEW program, NEW patches, Packed(g, program, patches)
  PROVE  LET out == Emitted(ins) IN
         Packed(g, program \o [k \in DOMAIN out |-> BoundOn(g, out[k])],
                patches \cup {Len(program) + 1 : k \in {ins.kind} \cap {"XCHG_REDUCE"}})
<1> DEFINE out == Emitted(ins)
           more == [k \in DOMAIN out |-> BoundOn(g, out[k])]
           new == patches \cup {Len(program) + 1 : k \in {ins.kind} \cap {"XCHG_REDUCE"}}
<1>1. PICK S : program \in Seq(S)
  BY DEF Packed
<1>2. \E T : more \in Seq(T)
  <2>1. \E n \in Nat : DOMAIN out = 1 .. n
    <3>1. CASE \E a : out = <<a>>
      <4>1. PICK a : out = <<a>> BY <3>1
      <4>2. DOMAIN <<a>> = 1 .. 1 OBVIOUS
      <4> QED BY <4>1, <4>2
    <3>2. CASE \E a, b : out = <<a, b>>
      <4>1. PICK a, b : out = <<a, b>> BY <3>2
      <4>2. DOMAIN <<a, b>> = 1 .. 2 OBVIOUS
      <4> QED BY <4>1, <4>2
    <3> QED BY <3>1, <3>2, EmittedSeq
  <2>2. PICK n \in Nat : DOMAIN out = 1 .. n
    BY <2>1
  <2> HIDE DEF out
  <2> DEFINE T == {more[k] : k \in 1 .. n}
  <2>3. more \in [1 .. n -> T]
    BY <2>2
  <2> HIDE DEF T, more
  <2>4. more \in Seq(T)
    BY <2>3
  <2> QED BY <2>4
<1>3. PICK T : more \in Seq(T)
  BY <1>2
<1>4. \A k \in DOMAIN out :
        /\ more[k].kind = out[k].kind /\ Exchanges(g, more[k])
        /\ out[k].kind = "XCHG_REDUCE" => ins.kind = "XCHG_REDUCE"
  <2> SUFFICES ASSUME NEW k \in DOMAIN out
               PROVE  /\ more[k].kind = out[k].kind /\ Exchanges(g, more[k])
                      /\ out[k].kind = "XCHG_REDUCE" => ins.kind = "XCHG_REDUCE"
    OBVIOUS
  <2>1. \/ out[k] = ins
        \/ /\ ins.kind \notin {"XCHG_PUSH", "XCHG_REDUCE"}
           /\ out[k].kind \notin {"XCHG_PUSH", "XCHG_REDUCE"}
    <3>1. CASE out = <<ins>>
      <4>1. \A j \in DOMAIN <<ins>> : <<ins>>[j] = ins
        OBVIOUS
      <4> HIDE DEF out
      <4> QED BY <3>1, <4>1
    <3> QED BY <3>1, EmittedKinds
  <2>2. out[k].kind \in {"XCHG_PUSH", "XCHG_REDUCE"} => PackableOn(g, out[k])
    <3> HIDE DEF out
    <3> QED BY <2>1
  <2>3. BoundOn(g, out[k]).kind = out[k].kind /\ Exchanges(g, BoundOn(g, out[k]))
    <3> HIDE DEF out
    <3> QED BY <2>2, BoundOnExchanges
  <2>4. more[k] = BoundOn(g, out[k])
    OBVIOUS
  <2> HIDE DEF out, more
  <2> QED BY <2>1, <2>3, <2>4
<1>5. ins.kind = "XCHG_REDUCE" => out = <<ins>>
  <2> SUFFICES ASSUME ins.kind = "XCHG_REDUCE" PROVE out = <<ins>>
    OBVIOUS
  <2> QED BY DEF Emitted
<1>6. DOMAIN more = DOMAIN out
  OBVIOUS
<1> DEFINE all == program \o more  n == Len(program)  m == Len(more)
<1>7. /\ \E U : all \in Seq(U)
      /\ n \in Nat /\ m \in Nat
      /\ DOMAIN all = 1 .. n + m /\ DOMAIN program = 1 .. n /\ DOMAIN more = 1 .. m
      /\ \A k \in DOMAIN program : all[k] = program[k]
      /\ \A k \in DOMAIN more : all[n + k] = more[k]
  <2> HIDE DEF more
  <2>1. /\ all \in Seq(S \cup T)
        /\ DOMAIN all = 1 .. Len(program) + Len(more)
        /\ DOMAIN program = 1 .. Len(program) /\ DOMAIN more = 1 .. Len(more)
        /\ Len(program) \in Nat /\ Len(more) \in Nat
        /\ \A k \in DOMAIN program : all[k] = program[k]
        /\ \A k \in DOMAIN more : all[Len(program) + k] = more[k]
    BY <1>1, <1>3, Concatenated
  <2> QED BY <2>1
<1> HIDE DEF all, n, m
<1>8. ins.kind = "XCHG_REDUCE" => m = 1 /\ more[1].kind = "XCHG_REDUCE"
  <2> SUFFICES ASSUME ins.kind = "XCHG_REDUCE"
               PROVE  m = 1 /\ more[1].kind = "XCHG_REDUCE"
    OBVIOUS
  <2>1. DOMAIN <<ins>> = 1 .. 1 /\ <<ins>>[1] = ins
    OBVIOUS
  <2>2. DOMAIN out = 1 .. 1 /\ out[1] = ins
    BY <1>5, <2>1
  <2> HIDE DEF out, more
  <2>3. 1 .. m = 1 .. 1
    BY <1>6, <1>7, <2>2
  <2>4. 1 \in 1 .. m /\ (m \in 1 .. m => m \in 1 .. 1)
    <3>1. 1 \in 1 .. 1
      OBVIOUS
    <3> QED BY <2>3, <3>1, Zenon
  <2>5. m = 1
    BY <1>7, <2>4
  <2> QED BY <1>4, <1>6, <2>2, <2>5
<1>9. ins.kind # "XCHG_REDUCE" => \A k \in DOMAIN more : more[k].kind # "XCHG_REDUCE"
  <2> HIDE DEF out, more
  <2> QED BY <1>4, <1>6
<1>idx. new = patches \cup {n + 1 : k \in {ins.kind} \cap {"XCHG_REDUCE"}}
  BY DEF n
<1> HIDE DEF out, more, new
<1>10. \A k \in DOMAIN all : \/ k \in DOMAIN program /\ all[k] = program[k]
                             \/ \E j \in DOMAIN more : k = n + j /\ all[k] = more[j]
  <2> SUFFICES ASSUME NEW k \in DOMAIN all, k \notin DOMAIN program
               PROVE  \E j \in DOMAIN more : k = n + j /\ all[k] = more[j]
    BY <1>7
  <2>1. k - n \in DOMAIN more /\ k = n + (k - n)
    BY <1>7
  <2> QED BY <1>7, <2>1
<1>11. \A k \in DOMAIN all : Exchanges(g, all[k])
  BY <1>4, <1>6, <1>10 DEF Packed
<1>12. patches = {k \in DOMAIN program : program[k].kind = "XCHG_REDUCE"}
  BY DEF Packed
<1>13. new = {k \in DOMAIN all : all[k].kind = "XCHG_REDUCE"}
  <2>1. CASE ins.kind = "XCHG_REDUCE"
    <3>1. new = patches \cup {n + 1}
      BY <1>idx, <2>1
    <3>2. n + 1 \in DOMAIN all /\ all[n + 1] = more[1]
      BY <1>7, <1>8, <2>1
    <3>3. \A k \in DOMAIN all : k \in DOMAIN program \/ k = n + 1
      BY <1>7, <1>8, <2>1
    <3>4. \A k \in DOMAIN program : k \in DOMAIN all
      BY <1>7
    <3> QED BY <1>7, <1>8, <1>12, <2>1, <3>1, <3>2, <3>3, <3>4
  <2>2. CASE ins.kind # "XCHG_REDUCE"
    <3>1. new = patches
      BY <1>idx, <2>2
    <3>2. \A k \in DOMAIN program : k \in DOMAIN all
      BY <1>7
    <3> QED BY <1>7, <1>9, <1>10, <1>12, <2>2, <3>1, <3>2
  <2> QED BY <2>1, <2>2
<1> QED BY <1>7, <1>11, <1>13 DEF Packed, all, more, new, out

\* Writing seqnos into the reduces leaves every entry's kind, site and mailboxes.
LEMMA PatchedKeeps ==
  ASSUME NEW g \in GPU, NEW program, NEW patches, NEW s, Packed(g, program, patches)
  PROVE  Packed(g, Patched(program, patches, s), patches)
<1> DEFINE new == Patched(program, patches, s)
<1>1. DOMAIN new = DOMAIN program
  BY DEF Patched
<1>2. ASSUME NEW k \in DOMAIN program
      PROVE  new[k].kind = program[k].kind /\ Exchanges(g, new[k])
  <2>1. CASE k \notin patches
    <3>1. new[k] = program[k]
      BY <2>1 DEF Patched
    <3> QED BY <3>1 DEF Packed
  <2>2. CASE k \in patches
    <3> DEFINE seqno == [seqno |-> s]  more == seqno ++ program[k].n
    <3>1. new[k] = Instr(program[k].kind, program[k].p, more)
      BY <2>2 DEF Patched
    <3>2. program[k].kind = "XCHG_REDUCE" /\ Exchanges(g, program[k])
      BY <2>2 DEF Packed
    <3>3. "site" \in DOMAIN more /\ more.site = program[k].n.site
      <4>1. "site" \notin DOMAIN seqno /\ "site" \in DOMAIN program[k].n
        BY <3>2 DEF Exchanges
      <4> HIDE DEF seqno
      <4> QED BY <4>1, Overridden
    <3> HIDE DEF more, new
    <3>4. new[k].kind = "XCHG_REDUCE" /\ new[k].n = more /\ new[k].p = program[k].p
      BY <3>1, <3>2 DEF Instr
    <3> QED BY <3>2, <3>3, <3>4 DEF Exchanges
  <2> QED BY <2>1, <2>2
<1>3. \E U : new \in Seq(U)
  <2>1. PICK S : program \in Seq(S)
    BY DEF Packed
  <2> DEFINE U == {new[k] : k \in DOMAIN program}
  <2>2. new \in [DOMAIN program -> U]
    BY DEF Patched
  <2>3. DOMAIN program = 1 .. Len(program) /\ Len(program) \in Nat
    BY <2>1
  <2> HIDE DEF U, new
  <2>4. new \in Seq(U)
    BY <2>2, <2>3
  <2> QED BY <2>4
<1> HIDE DEF new
<1>4. patches = {k \in DOMAIN new : new[k].kind = "XCHG_REDUCE"}
  BY <1>1, <1>2 DEF Packed
<1>5. \A k \in DOMAIN new : Exchanges(g, new[k])
  BY <1>1, <1>2
<1> QED BY <1>3, <1>4, <1>5 DEF Packed, new

LEMMA PatchInvNext == PatchInv /\ [Next]_vars => PatchInv'
<1> SUFFICES ASSUME PatchInv, [Next]_vars PROVE PatchInv'
  OBVIOUS
<1> DEFINE same == UNCHANGED <<prog, xchgIdx, mtab>> /\ gpu' \in GPU
<1>1. ASSUME same PROVE PatchInv'
  BY <1>1 DEF PatchInv, Packed, Exchanges
<1>2. CASE UNCHANGED vars
  <2>1. same
    BY <1>2 DEF vars, dvars, hvars, PatchInv
  <2> QED BY <1>1, <2>1
<1>3. CASE RunWhole
  <2>1. same
    BY <1>3 DEF RunWhole, dvars, hvars, PatchInv
  <2> QED BY <1>1, <2>1
<1>4. ASSUME NEW f \in Files, Open(f) PROVE PatchInv'
  <2>1. same
    BY <1>4 DEF Open, Goto, GPU
  <2> QED BY <1>1, <2>1
<1>5. CASE Validate
  <2>1. same
    BY <1>5 DEF Validate, Goto, dvars, GPU, PatchInv
  <2> QED BY <1>1, <2>1
<1>6. CASE EnablePeerAccess
  <2>1. same
    BY <1>6 DEF EnablePeerAccess, Goto, dvars, GPU
  <2> QED BY <1>1, <2>1
<1>7. CASE AllocArena
  <2>1. same
    BY <1>7 DEF AllocArena, PatchInv
  <2> QED BY <1>1, <2>1
<1>8. CASE UploadTensor
  <2>1. same
    BY <1>8 DEF UploadTensor, PatchInv
  <2> QED BY <1>1, <2>1
<1>9. CASE UploadDone
  <2>1. same
    BY <1>9 DEF UploadDone, Next2, Goto, dvars, GPU, PatchInv
  <2> QED BY <1>1, <2>1
<1>10. CASE AllocMailboxes
  <2>1. \A g \in GPU : mtab'[g] = Wired(g)
    BY <1>10 DEF AllocMailboxes
  <2>2. gpu' \in GPU /\ UNCHANGED <<prog, xchgIdx>>
    BY <1>10 DEF AllocMailboxes, Goto, GPU
  <2> QED BY <2>1, <2>2 DEF PatchInv, Packed, Exchanges, Wired
<1>11. CASE AllocBuffers
  <2>1. same
    BY <1>11 DEF AllocBuffers, PatchInv
  <2> QED BY <1>1, <2>1
<1>12. CASE Pack
  <2> DEFINE ins == SplitInstrs[item]
  <2>1. gpu' = gpu /\ mtab' = mtab /\ gpu \in GPU
    BY <1>12 DEF Pack, PatchInv
  <2>2. CASE ~ PackableOn(gpu, ins)
    <3>1. same
      BY <1>12, <2>1, <2>2 DEF Pack
    <3> QED BY <1>1, <3>1
  <2>3. CASE PackableOn(gpu, ins)
    <3> DEFINE out == Emitted(ins)
               more == prog[gpu] \o [k \in DOMAIN out |-> BoundOn(gpu, out[k])]
               idx == xchgIdx[gpu] \cup
                        {Len(prog[gpu]) + 1 : k \in {ins.kind} \cap {"XCHG_REDUCE"}}
    <3>1. Packed(gpu, more, idx)
      <4>1. Packed(gpu, prog[gpu], xchgIdx[gpu]) /\ (mtab[gpu] = << >> \/ mtab[gpu] = Wired(gpu))
        BY <2>1 DEF PatchInv
      <4> HIDE DEF ins
      <4> QED BY <2>1, <2>3, <4>1, PackedGrows
    <3>2. prog' = [prog EXCEPT ![gpu] = more] /\ xchgIdx' = [xchgIdx EXCEPT ![gpu] = idx]
      BY <1>12, <2>3 DEF Pack, PatchIndex
    <3> HIDE DEF more, idx
    <3>3. /\ prog' = [g \in GPU |-> prog'[g]] /\ xchgIdx' = [g \in GPU |-> xchgIdx'[g]]
          /\ prog'[gpu] = more /\ xchgIdx'[gpu] = idx
          /\ \A g \in GPU \ {gpu} : prog'[g] = prog[g] /\ xchgIdx'[g] = xchgIdx[g]
      BY <2>1, <3>2 DEF PatchInv
    <3>4. \A g \in GPU : Packed(g, prog'[g], xchgIdx'[g])
      BY <3>1, <3>3 DEF PatchInv
    <3>5. \A g \in GPU : Packed(g, prog[g], xchgIdx[g])'
      BY <3>4 DEF Packed, Exchanges
    <3> QED BY <2>1, <3>3, <3>5 DEF PatchInv, Wired
  <2> QED BY <2>2, <2>3
<1>13. CASE Launch
  <2>1. same
    BY <1>13 DEF Launch, Next2, Goto, dvars, GPU, PatchInv
  <2> QED BY <1>1, <2>1
<1>14. CASE SetupThrows
  <2>1. same
    BY <1>14 DEF SetupThrows, dvars, PatchInv
  <2> QED BY <1>1, <2>1
<1>15. CASE CudaError
  <2>1. same
    BY <1>15 DEF CudaError, dvars, PatchInv
  <2> QED BY <1>1, <2>1
<1>16. CASE WriteInputs
  <2>1. /\ prog' = [g \in GPU |-> Patched(prog[g], xchgIdx[g], pass + 1)]
        /\ xchgIdx' = xchgIdx /\ mtab' = mtab /\ gpu' = 0
    BY <1>16 DEF WriteInputs, Goto
  <2>2. \A g \in GPU : Packed(g, prog'[g], xchgIdx'[g])
    BY <2>1, PatchedKeeps DEF PatchInv
  <2>3. \A g \in GPU : Packed(g, prog[g], xchgIdx[g])'
    BY <2>2 DEF Packed, Exchanges
  <2>4. prog' = [g \in GPU |-> prog'[g]]
    BY <2>1
  <2> QED BY <2>1, <2>3, <2>4 DEF PatchInv, Wired, GPU
<1>17. CASE RingDoorbell
  <2>1. same
    BY <1>17 DEF RingDoorbell, Next2, Goto, dvars, GPU, PatchInv
  <2> QED BY <1>1, <2>1
<1>18. CASE Return
  <2>1. same
    BY <1>18 DEF Return, Goto, dvars, GPU
  <2> QED BY <1>1, <2>1
<1>19. CASE Shutdown
  <2>1. same
    BY <1>19 DEF Shutdown, dvars, PatchInv
  <2> QED BY <1>1, <2>1
<1>20. ASSUME NEW g \in GPU, ExecuteOp(g) PROVE PatchInv'
  <2>1. same
    BY <1>20 DEF ExecuteOp, Store, hvars, dvars, PatchInv
  <2> QED BY <1>1, <2>1
<1>21. ASSUME NEW g \in GPU, Publish(g) PROVE PatchInv'
  <2>1. same
    BY <1>21 DEF Publish, hvars, dvars, PatchInv
  <2> QED BY <1>1, <2>1
<1>22. ASSUME NEW g \in GPU, Fold(g) PROVE PatchInv'
  <2>1. same
    BY <1>22 DEF Fold, Store, hvars, dvars, PatchInv
  <2> QED BY <1>1, <2>1
<1> QED
  BY <1>2, <1>3, <1>4, <1>5, <1>6, <1>7, <1>8, <1>9, <1>10, <1>11, <1>12, <1>13, <1>14,
     <1>15, <1>16, <1>17, <1>18, <1>19, <1>20, <1>21, <1>22 DEF Next

LEMMA PatchInvImplies == PatchInv => PatchesAreReduces
<1> SUFFICES ASSUME PatchInv, NEW g \in GPU
             PROVE  /\ xchgIdx[g] = {k \in DOMAIN prog[g] : prog[g][k].kind = "XCHG_REDUCE"}
                    /\ \A k \in DOMAIN prog[g], j \in DOMAIN prog[Peer(g)] :
                         LET push == prog[g][k]  red == prog[Peer(g)][j] IN
                         push.kind = "XCHG_PUSH" /\ red.kind = "XCHG_REDUCE" =>
                           (push.n.site = red.n.site <=>
                              push.p.peer_payload = red.p.my_payload)
  BY DEF PatchesAreReduces
<1>1. Peer(g) \in GPU
  BY DEF Peer, GPU
<1>2. xchgIdx[g] = {k \in DOMAIN prog[g] : prog[g][k].kind = "XCHG_REDUCE"}
  BY DEF PatchInv, Packed
<1>3. ASSUME NEW k \in DOMAIN prog[g], NEW j \in DOMAIN prog[Peer(g)],
             prog[g][k].kind = "XCHG_PUSH", prog[Peer(g)][j].kind = "XCHG_REDUCE"
      PROVE  prog[g][k].n.site = prog[Peer(g)][j].n.site <=>
               prog[g][k].p.peer_payload = prog[Peer(g)][j].p.my_payload
  <2> DEFINE push == prog[g][k]  red == prog[Peer(g)][j]
  <2>1. /\ push.n.site \in MailboxSites
        /\ push.p.peer_payload = Pointer(Peer(g), Payload, push.n.site * Embd)
    BY <1>3 DEF PatchInv, Packed, Exchanges
  <2>2. /\ red.n.site \in MailboxSites
        /\ red.p.my_payload = Pointer(Peer(g), Payload, red.n.site * Embd)
    BY <1>1, <1>3 DEF PatchInv, Packed, Exchanges
  <2> HIDE DEF push, red
  <2>3. push.n.site = red.n.site <=> push.p.peer_payload = red.p.my_payload
    BY <2>1, <2>2, MailboxesApart
  <2> QED BY <2>3 DEF push, red
<1> QED BY <1>2, <1>3

(***************************************************************************)
(* pack_program, pack_XCHG_PUSH, pack_XCHG_REDUCE and the patching of      *)
(* dual_run_pass, for any split program: however many entries packing      *)
(* makes of an instruction, the host patches exactly the reduces, and a    *)
(* push reaches the mailbox its peer's reduce of the same site reads.      *)
(***************************************************************************)
THEOREM PatchesAreReducesHolds == Spec => []PatchesAreReduces
<1>1. Spec => []PatchInv
  BY PatchInvInit, PatchInvNext, PTL DEF Spec
<1> QED BY <1>1, PatchInvImplies, PTL

(***************************************************************************)
(* The buffers of the runtime and their cells.                             *)
(***************************************************************************)
Bufs == RuntimeBuffers(2) \cup {<<0, "token">>}

Cells(b) == IF b = <<0, "token">> THEN 1 ELSE CellsOf(b, 2)

\* Those an instruction may store to: the row of a pass is the host's to write.
Outputs == Bufs \ {<<0, "kv_row">>}

Scratch ==
  {"residual", "xn", "q8_act", "mixer_out", "conv_ws", "gdn_alpha", "gdn_beta", "gdn_state",
   "attn_out", "gate_out", "k_stage", "v_stage", "fattn_q", "fattn_partial", "ffn_ws",
   "proj_out", "logits"}

LEMMA TableOfScratch == DOMAIN BufferTable(2) = Scratch
BY DEF BufferTable, Scratch

LEMMA ProductIsNat ==
  ASSUME NEW m \in Nat, NEW n \in Nat
  PROVE  m * n \in Nat
BY SMTT(30)

LEMMA QuotientIsNat ==
  ASSUME NEW m \in Nat, NEW d \in Nat \ {0}
  PROVE  m \div d \in Nat
BY DivDef

LEMMA HalvesAreNat ==
  ASSUME NEW n \in Nat
  PROVE  Sp(n, 2) \in Nat
BY QuotientIsNat DEF Sp

LEMMA TableIsNat ==
  ASSUME NEW c \in Scratch
  PROVE  BufferTable(2)[c] \in Nat
<1>1. /\ KHeads \in Nat /\ HeadDim \in Nat /\ DConv \in Nat /\ Embd \in Nat /\ VHeads \in Nat
      /\ QHeads \in Nat /\ KvHeads \in Nat /\ AttnHeadDim \in Nat /\ Ff \in Nat /\ Vocab \in Nat
  BY WeightSplitAssumption, SplitProgramAssumption
<1>2. /\ VHeads * HeadDim \in Nat /\ KvHeads * AttnHeadDim \in Nat
      /\ Sp(QHeads, 2) * AttnHeadDim \in Nat
      /\ (2 * KHeads + VHeads) * HeadDim \in Nat /\ 2 * QHeads * AttnHeadDim \in Nat
  <2>1. 2 * KHeads + VHeads \in Nat /\ 2 * QHeads \in Nat /\ Sp(QHeads, 2) \in Nat
    BY <1>1, HalvesAreNat
  <2> QED
    BY <1>1, <2>1, ProductIsNat
<1>3. QkvRows \in Nat /\ QGateRows \in Nat
  BY <1>2 DEF QkvRows, QGateRows
<1>4. /\ Sp(QkvRows, 2) \in Nat /\ Sp(QGateRows, 2) \in Nat
      /\ Sp(IF QGateRows > QkvRows THEN QGateRows ELSE QkvRows, 2) \in Nat
  BY <1>3, HalvesAreNat
<1>5. DConv * Sp(QkvRows, 2) \in Nat
  BY <1>1, <1>4, ProductIsNat
<1>6. /\ Sp(Ff, 2) \in Nat /\ Sp(VHeads, 2) \in Nat /\ Sp(VHeads * HeadDim, 2) \in Nat
      /\ Sp(KvHeads * AttnHeadDim, 2) \in Nat /\ Sp(QHeads, 2) \in Nat /\ Sp(Vocab, 2) \in Nat
  BY <1>1, <1>2, HalvesAreNat
<1> QED
  BY <1>1, <1>2, <1>4, <1>5, <1>6 DEF BufferTable, Scratch

LEMMA CellsAreNat ==
  ASSUME NEW b \in Bufs
  PROVE  Cells(b) \in Nat
<1>1. CASE b = <<0, "token">>
  BY <1>1 DEF Cells
<1>2. CASE b # <<0, "token">>
  <2> DEFINE c == b[2]
  <2>1. Cells(b) = CellsOf(b, 2)
    BY <1>2 DEF Cells
  <2>2. c \in {"cache_k", "cache_v", "conv_state", "ssm_state"} \cup PassCells
               \cup {"result_output"} \cup Scratch
    BY <1>2, TableOfScratch DEF Bufs, RuntimeBuffers
  <2>3. /\ KHeads \in Nat /\ HeadDim \in Nat /\ DConv \in Nat \ {0} /\ VHeads \in Nat
        /\ KvHeads \in Nat /\ AttnHeadDim \in Nat /\ Vocab \in Nat
        /\ NCtx \in Nat \ {0} /\ KvPad \in Nat \ {0}
    BY WeightSplitAssumption, SplitProgramAssumption, PackerAssumption
  <2>4. /\ Sp(KvHeads * AttnHeadDim, 2) \in Nat /\ Sp(VHeads * HeadDim, 2) \in Nat
        /\ Sp(QkvRows, 2) \in Nat /\ Sp(Vocab, 2) \in Nat
    <3>1. 2 * KHeads + VHeads \in Nat
      BY <2>3
    <3>2. QkvRows \in Nat
      BY <2>3, <3>1, ProductIsNat DEF QkvRows
    <3> QED
      BY <2>3, <3>2, ProductIsNat, HalvesAreNat
  <2>5. NCtx * Sp(KvHeads * AttnHeadDim, 2) \in Nat /\ (DConv - 1) * Sp(QkvRows, 2) \in Nat
    <3>1. DConv - 1 \in Nat
      BY <2>3
    <3> QED
      BY <2>3, <2>4, <3>1, ProductIsNat
  <2>6. PadUp(NCtx, KvPad) \in Nat
    <3>1. NCtx + KvPad - 1 \in Nat
      BY <2>3
    <3> QED
      BY <2>3, <3>1, QuotientIsNat, ProductIsNat DEF PadUp
  <2> HIDE DEF c
  <2>7. CASE c \in {"cache_k", "cache_v"}
    BY <2>1, <2>5, <2>7 DEF CellsOf, c
  <2>8. CASE c = "conv_state"
    BY <2>1, <2>5, <2>8 DEF CellsOf, c
  <2>9. CASE c = "ssm_state"
    BY <2>1, <2>4, <2>9 DEF CellsOf, c
  <2>10. CASE c \in PassCells
    BY <2>1, <2>6, <2>10 DEF CellsOf, PassCells, c
  <2>11. CASE c = "result_output"
    BY <2>1, <2>4, <2>11 DEF CellsOf, PassCells, c
  <2>12. CASE c \in Scratch
    <3>1. Cells(b) = BufferTable(2)[c]
      BY <2>1, <2>12 DEF CellsOf, PassCells, Scratch, c
    <3> QED
      BY <2>12, <3>1, TableIsNat
  <2> QED
    BY <2>2, <2>7, <2>8, <2>9, <2>10, <2>11, <2>12
<1> QED
  BY <1>1, <1>2

\* The cells a pass is told in.
LEMMA PassCellsAreOne ==
  ASSUME NEW c \in {"positions", "kv_row", "n_kv", "token"}
  PROVE  Cells(<<0, c>>) = 1 /\ <<0, c>> \in Bufs
<1>1. <<0, c>> \in Bufs
  BY DEF Bufs, RuntimeBuffers, PassCells
<1>2. CASE c = "token"
  BY <1>1, <1>2 DEF Cells
<1>3. CASE c # "token"
  <2>1. Cells(<<0, c>>) = CellsOf(<<0, c>>, 2)
    BY <1>3 DEF Cells
  <2>2. CellsOf(<<0, c>>, 2) = 1
    BY <1>3 DEF CellsOf, PassCells
  <2> QED
    BY <1>1, <2>1, <2>2
<1> QED
  BY <1>2, <1>3

LEMMA HalfMono ==
  ASSUME NEW a \in Nat, NEW b \in Nat, a <= b
  PROVE  Sp(a, 2) <= Sp(b, 2)
BY DEF Sp

\* Half of the heads, in elements, fit half of the elements.
LEMMA HalfTimes ==
  ASSUME NEW a \in Nat, NEW h \in Nat
  PROVE  Sp(a, 2) * h \in Nat /\ Sp(a, 2) * h <= Sp(a * h, 2)
<1> DEFINE q == Sp(a, 2)
<1>1. q \in Nat /\ 2 * q <= a
  BY HalvesAreNat DEF Sp
<1> HIDE DEF q
<1>2. q * h \in Nat /\ a * h \in Nat
  BY <1>1, ProductIsNat
<1>3. (2 * q) * h <= a * h
  BY <1>1, SMTT(30)
<1>4. (2 * q) * h = 2 * (q * h)
  BY <1>1, SMTT(30)
<1>5. q * h <= (a * h) \div 2
  BY <1>2, <1>3, <1>4
<1> QED
  BY <1>2, <1>5 DEF q, Sp

LEMMA ScratchCells ==
  ASSUME NEW c \in Scratch
  PROVE  <<0, c>> \in Outputs /\ Cells(<<0, c>>) = BufferTable(2)[c]
<1>1. <<0, c>> \in Bufs
  BY TableOfScratch DEF Bufs, RuntimeBuffers
<1>2. <<0, c>> # <<0, "kv_row">> /\ <<0, c>> # <<0, "token">>
  BY DEF Scratch
<1>3. CellsOf(<<0, c>>, 2) = BufferTable(2)[c]
  BY DEF CellsOf, PassCells, Scratch
<1> QED
  BY <1>1, <1>2, <1>3 DEF Outputs, Cells

LEMMA LogitsCells ==
  <<0, "result_output">> \in Outputs /\ Cells(<<0, "result_output">>) = Sp(Vocab, 2)
<1>1. <<0, "result_output">> \in Bufs
  BY DEF Bufs, RuntimeBuffers
<1>2. CellsOf(<<0, "result_output">>, 2) = Sp(Vocab, 2)
  BY DEF CellsOf, PassCells
<1> QED
  BY <1>1, <1>2 DEF Outputs, Cells

LEMMA StateCells ==
  ASSUME NEW l \in 1 .. NLayers, Layer[l] = "dn"
  PROVE  /\ <<l, "ssm_state">> \in Outputs
         /\ Cells(<<l, "ssm_state">>) = Sp(VHeads * HeadDim, 2)
         /\ <<l, "conv_state">> \in Outputs
         /\ Cells(<<l, "conv_state">>) = (DConv - 1) * Sp(QkvRows, 2)
<1>1. \A x \in {"ssm_state", "conv_state"} :
        <<l, x>> \in Bufs /\ <<l, x>> # <<0, "kv_row">> /\ <<l, x>> # <<0, "token">>
  <2> TAKE x \in {"ssm_state", "conv_state"}
  <2> DEFINE b == <<l, x>>
  <2>1. b \in (1 .. NLayers) \X {"conv_state", "ssm_state"} /\ b[1] = l
    OBVIOUS
  <2>2. b # <<0, "kv_row">> /\ b # <<0, "token">>
    OBVIOUS
  <2> HIDE DEF b
  <2> QED
    BY <2>1, <2>2 DEF Bufs, RuntimeBuffers
<1>2. CellsOf(<<l, "ssm_state">>, 2) = Sp(VHeads * HeadDim, 2)
  <2> DEFINE b == <<l, "ssm_state">>
  <2>1. b[2] = "ssm_state"
    OBVIOUS
  <2> HIDE DEF b
  <2>2. CellsOf(b, 2) = Sp(VHeads * HeadDim, 2)
    BY <2>1 DEF CellsOf, PassCells
  <2> QED
    BY <2>2 DEF b
<1>3. CellsOf(<<l, "conv_state">>, 2) = (DConv - 1) * Sp(QkvRows, 2)
  <2> DEFINE b == <<l, "conv_state">>
  <2>1. b[2] = "conv_state"
    OBVIOUS
  <2> HIDE DEF b
  <2>2. CellsOf(b, 2) = (DConv - 1) * Sp(QkvRows, 2)
    BY <2>1 DEF CellsOf, PassCells
  <2> QED
    BY <2>2 DEF b
<1> QED
  BY <1>1, <1>2, <1>3 DEF Outputs, Cells

LEMMA CacheCells ==
  ASSUME NEW l \in 1 .. NLayers, Layer[l] = "attn", NEW c \in {"cache_k", "cache_v"}
  PROVE  <<l, c>> \in Outputs /\ Cells(<<l, c>>) = NCtx * Sp(KvHeads * AttnHeadDim, 2)
<1> DEFINE b == <<l, c>>
<1>1. b \in (1 .. NLayers) \X {"cache_k", "cache_v"} /\ b[1] = l
      /\ b # <<0, "kv_row">> /\ b # <<0, "token">> /\ b[2] = c
  OBVIOUS
<1> HIDE DEF b
<1>2. CellsOf(b, 2) = NCtx * Sp(KvHeads * AttnHeadDim, 2)
  BY <1>1 DEF CellsOf, PassCells
<1>3. b \in Outputs /\ Cells(b) = NCtx * Sp(KvHeads * AttnHeadDim, 2)
  BY <1>1, <1>2 DEF Bufs, RuntimeBuffers, Outputs, Cells
<1> QED
  BY <1>3 DEF b

\* The shares of a GPU are numbers, and what the instructions store to the scratch
\* buffers fits them.
Sizes ==
  /\ Embd \in Nat /\ Sp(Ff, 2) \in Nat /\ Sp(Vocab, 2) \in Nat
  /\ Sp(VHeads, 2) \in Nat /\ Sp(KHeads, 2) \in Nat /\ Sp(QHeads, 2) \in Nat
  /\ Sp(KvHeads, 2) \in Nat /\ Sp(VHeads * HeadDim, 2) \in Nat
  /\ Sp(QHeads * AttnHeadDim, 2) \in Nat /\ Sp(KvHeads * AttnHeadDim, 2) \in Nat
  /\ Sp(QkvRows, 2) \in Nat /\ Sp(QGateRows, 2) \in Nat
  /\ Sp(VHeads, 2) * HeadDim \in Nat /\ Sp(VHeads, 2) * HeadDim <= Sp(VHeads * HeadDim, 2)
  /\ Sp(QHeads, 2) * AttnHeadDim \in Nat
  /\ Sp(QHeads, 2) * AttnHeadDim <= Sp(VHeads * HeadDim, 2)
  /\ Sp(KvHeads, 2) * AttnHeadDim \in Nat
  /\ Sp(KvHeads, 2) * AttnHeadDim <= Sp(KvHeads * AttnHeadDim, 2)
  /\ NCtx * (Sp(KvHeads, 2) * AttnHeadDim) \in Nat
  /\ NCtx * (Sp(KvHeads, 2) * AttnHeadDim) <= NCtx * Sp(KvHeads * AttnHeadDim, 2)
  /\ 2 * Sp(KHeads, 2) * HeadDim \in Nat /\ 2 * Sp(KHeads, 2) * HeadDim <= Sp(QkvRows, 2)
  /\ Sp(QkvRows, 2) * DConv \in Nat /\ Sp(QkvRows, 2) * DConv = DConv * Sp(QkvRows, 2)
  /\ Sp(QkvRows, 2) * (DConv - 1) \in Nat
  /\ Sp(QkvRows, 2) * (DConv - 1) = (DConv - 1) * Sp(QkvRows, 2)
  /\ Embd <= Sp(Ff, 2) /\ Sp(VHeads * HeadDim, 2) <= Sp(Ff, 2)
  /\ Sp(QHeads * AttnHeadDim, 2) <= Sp(Ff, 2)

LEMMA SizesHold == Sizes
<1> DEFINE kh == KHeads * HeadDim  vh == VHeads * HeadDim  qh == QHeads * AttnHeadDim
           ch == KvHeads * AttnHeadDim
<1>1. /\ KHeads \in Nat /\ HeadDim \in Nat /\ DConv \in Nat \ {0} /\ Embd \in Nat
      /\ VHeads \in Nat /\ QHeads \in Nat /\ KvHeads \in Nat /\ AttnHeadDim \in Nat
      /\ Ff \in Nat /\ Vocab \in Nat /\ NCtx \in Nat
  BY WeightSplitAssumption, SplitProgramAssumption, PackerAssumption
<1>2. kh \in Nat /\ vh \in Nat /\ qh \in Nat /\ ch \in Nat
  BY <1>1, ProductIsNat
<1>3. QkvRows \in Nat /\ 2 * kh <= QkvRows /\ QGateRows \in Nat
  <2>1. QkvRows = 2 * kh + vh
    BY <1>1, SMTT(30) DEF QkvRows
  <2>2. QGateRows = 2 * qh
    BY <1>1, SMTT(30) DEF QGateRows
  <2> HIDE DEF kh, vh, qh
  <2> QED
    BY <1>2, <2>1, <2>2
<1>4. /\ Sp(Ff, 2) \in Nat /\ Sp(Vocab, 2) \in Nat
      /\ Sp(VHeads, 2) \in Nat /\ Sp(KHeads, 2) \in Nat /\ Sp(QHeads, 2) \in Nat
      /\ Sp(KvHeads, 2) \in Nat /\ Sp(vh, 2) \in Nat /\ Sp(qh, 2) \in Nat
      /\ Sp(ch, 2) \in Nat /\ Sp(QkvRows, 2) \in Nat /\ Sp(QGateRows, 2) \in Nat
  BY <1>1, <1>2, <1>3, HalvesAreNat
<1>5. /\ Sp(VHeads, 2) * HeadDim \in Nat /\ Sp(VHeads, 2) * HeadDim <= Sp(vh, 2)
      /\ Sp(QHeads, 2) * AttnHeadDim \in Nat /\ Sp(QHeads, 2) * AttnHeadDim <= Sp(qh, 2)
      /\ Sp(KvHeads, 2) * AttnHeadDim \in Nat /\ Sp(KvHeads, 2) * AttnHeadDim <= Sp(ch, 2)
      /\ Sp(KHeads, 2) * HeadDim \in Nat /\ Sp(KHeads, 2) * HeadDim <= Sp(kh, 2)
  BY <1>1, HalfTimes
<1>6. Embd <= Sp(Ff, 2) /\ vh <= Ff /\ qh <= vh
  BY ScratchAssumption DEF Sp
<1> HIDE DEF kh, vh, qh, ch
<1>7. Sp(qh, 2) <= Sp(vh, 2) /\ Sp(vh, 2) <= Sp(Ff, 2)
  BY <1>1, <1>2, <1>6, HalfMono
<1>8. /\ NCtx * (Sp(KvHeads, 2) * AttnHeadDim) \in Nat
      /\ NCtx * (Sp(KvHeads, 2) * AttnHeadDim) <= NCtx * Sp(ch, 2)
  <2> DEFINE a == Sp(KvHeads, 2) * AttnHeadDim  b == Sp(ch, 2)
  <2>1. a \in Nat /\ b \in Nat /\ a <= b
    BY <1>4, <1>5
  <2> HIDE DEF a, b
  <2>2. NCtx * a \in Nat /\ NCtx * a <= NCtx * b
    BY <1>1, <2>1, ProductIsNat, SMTT(30)
  <2> QED
    BY <2>2 DEF a, b
<1>9. 2 * Sp(KHeads, 2) * HeadDim \in Nat /\ 2 * Sp(KHeads, 2) * HeadDim <= Sp(QkvRows, 2)
  <2> DEFINE a == Sp(KHeads, 2)
  <2>1. 2 * a * HeadDim = 2 * (a * HeadDim)
    BY <1>1, <1>4, SMTT(30)
  <2>2. Sp(2 * kh, 2) <= Sp(QkvRows, 2)
    BY <1>2, <1>3, HalfMono
  <2>3. 2 * Sp(kh, 2) <= Sp(2 * kh, 2)
    BY <1>2 DEF Sp
  <2>4. a * HeadDim \in Nat /\ a * HeadDim <= Sp(kh, 2)
    BY <1>5
  <2>5. Sp(kh, 2) \in Nat /\ Sp(2 * kh, 2) \in Nat
    BY <1>2, HalvesAreNat
  <2> HIDE DEF a
  <2> QED
    BY <1>4, <2>1, <2>2, <2>3, <2>4, <2>5 DEF a
<1>10. /\ Sp(QkvRows, 2) * DConv \in Nat /\ Sp(QkvRows, 2) * DConv = DConv * Sp(QkvRows, 2)
       /\ Sp(QkvRows, 2) * (DConv - 1) \in Nat
       /\ Sp(QkvRows, 2) * (DConv - 1) = (DConv - 1) * Sp(QkvRows, 2)
  <2>1. DConv - 1 \in Nat
    BY <1>1
  <2>2. \A x \in Nat, y \in Nat : x * y = y * x
    BY SMTT(30)
  <2> QED
    BY <1>1, <1>4, <2>1, <2>2, ProductIsNat
<1>11. Sp(QHeads, 2) * AttnHeadDim <= Sp(vh, 2) /\ Sp(qh, 2) <= Sp(Ff, 2)
  BY <1>4, <1>5, <1>7
<1> QED
  BY <1>1, <1>4, <1>5, <1>6, <1>7, <1>8, <1>9, <1>10, <1>11 DEF Sizes, vh, qh, ch

\* The operands an instruction of program.json stores to; RMSNORM may have write_sum too.
Sinks(kind) ==
  CASE kind = "CONV_SHIFT_CONCAT" -> {"win", "state"}
    [] kind = "QK_L2NORM"         -> {"q"}
    [] kind = "GDN_GATES"         -> {"g_dst", "beta_dst"}
    [] kind = "GDN_STEP"          -> {"state", "dst"}
    [] kind = "QK_NORM_ROPE"      -> {"q_dst", "k_dst"}
    [] kind = "KV_APPEND"         -> {"cache_k", "cache_v"}
    [] kind = "FATTN_DECODE"      -> {"partials"}
    [] kind = "XCHG_PUSH"         -> {}
    [] kind = "XCHG_REDUCE"       -> {"out"}
    [] OTHER                      -> {"dst"}

\* How many cells from there on, at most: an append may go to any row of a cache.
Extent(kind, n, f) ==
  CASE kind = "EMBED_LOOKUP" -> n.n_embd
    [] kind = "RMSNORM" -> n.width
    [] kind \in {"QUANT_Q8_1", "STATE_LOAD", "STATE_STORE", "LOGITS_EMIT"} -> n.elems
    [] kind \in {"MMVQ", "MMVQ_FUSED", "GEMV_F16"} -> n.row_hi
    [] kind = "CONV_SHIFT_CONCAT" ->
         IF f = "win" THEN n.channels * DConv ELSE n.channels * (DConv - 1)
    [] kind = "SSM_CONV_SILU" -> n.channels
    [] kind = "QK_L2NORM" -> (IF f = "q" THEN 2 * n.heads ELSE n.n_heads) * HeadDim
    [] kind = "GDN_GATES" -> n.heads
    [] kind = "GDN_STEP" -> n.v_heads * HeadDim
    [] kind = "GATED_RMSNORM" -> n.heads * HeadDim
    [] kind = "ATTN_GATE" -> n.heads * AttnHeadDim
    [] kind = "QK_NORM_ROPE" ->
         (IF f = "q_dst" THEN n.q_heads ELSE IF f = "k_dst" THEN n.k_heads ELSE n.n_heads)
           * AttnHeadDim
    [] kind = "KV_APPEND" -> NCtx * n.row_width
    [] kind = "FATTN_DECODE" -> n.q_heads
    [] kind = "FATTN_REDUCE" -> n.q_heads * AttnHeadDim
    [] kind \in {"XCHG_PUSH", "XCHG_REDUCE"} -> n.n_elems

\* An operand, and len cells from it on, within a buffer of the runtime.
Lands(o, len) ==
  LET b == DeviceName(o.name) IN
  b \in Outputs /\ o.off \in Nat /\ len \in Nat /\ o.off + len <= Cells(b)

\* What is told of the other operands and numbers.
Details(kind, p, n) ==
  /\ kind \in {"MMVQ", "MMVQ_FUSED", "GEMV_F16"} => n.row_lo = 0
  /\ kind = "KV_APPEND" => n.row_width \in Nat
  /\ kind \in {"XCHG_PUSH", "XCHG_REDUCE"} => "n_elems" \in DOMAIN n /\ n.n_elems = Embd

ToBuffers(ins) ==
  /\ Sinks(ins.kind) \subseteq DOMAIN ins.p
  /\ \A f \in Sinks(ins.kind) \cup (DOMAIN ins.p \cap {"write_sum"}) :
       Lands(ins.p[f], Extent(ins.kind, ins.n, f))
  /\ Details(ins.kind, ins.p, ins.n)
  /\ ins.kind = "KV_APPEND" => "row" \in DOMAIN ins.p /\ ins.p.row = Buf("kv_row")

\* A sequence of such instructions.
AllToBuffers(s) == \E S : s \in Seq(S) /\ \A ins \in S : ToBuffers(ins)

LEMMA AllOfBoth ==
  ASSUME NEW s, NEW u, AllToBuffers(s), AllToBuffers(u)
  PROVE  AllToBuffers(s \o u)
<1>1. PICK S : s \in Seq(S) /\ \A ins \in S : ToBuffers(ins)
  BY DEF AllToBuffers
<1>2. PICK T : u \in Seq(T) /\ \A ins \in T : ToBuffers(ins)
  BY DEF AllToBuffers
<1>3. s \o u \in Seq(S \cup T)
  BY <1>1, <1>2, Concatenated
<1> QED
  BY <1>1, <1>2, <1>3 DEF AllToBuffers

LEMMA AllOfOne ==
  ASSUME NEW a,
         ToBuffers(a)
  PROVE  AllToBuffers(<<a>>)
<1> DEFINE S == {a}
<1>1. <<a>> \in Seq(S)
  OBVIOUS
<1>2. \A ins \in S : ToBuffers(ins)
  OBVIOUS
<1> HIDE DEF S
<1> QED
  BY <1>1, <1>2 DEF AllToBuffers

LEMMA AllOfThree ==
  ASSUME NEW a, NEW b, NEW c,
         ToBuffers(a), ToBuffers(b), ToBuffers(c)
  PROVE  AllToBuffers(<<a, b, c>>)
<1> DEFINE S == {a, b, c}
<1>1. <<a, b, c>> \in Seq(S)
  OBVIOUS
<1>2. \A ins \in S : ToBuffers(ins)
  OBVIOUS
<1> HIDE DEF S
<1> QED
  BY <1>1, <1>2 DEF AllToBuffers

LEMMA AllOfFour ==
  ASSUME NEW a, NEW b, NEW c, NEW d,
         ToBuffers(a), ToBuffers(b), ToBuffers(c), ToBuffers(d)
  PROVE  AllToBuffers(<<a, b, c, d>>)
<1> DEFINE S == {a, b, c, d}
<1>1. <<a, b, c, d>> \in Seq(S)
  OBVIOUS
<1>2. \A ins \in S : ToBuffers(ins)
  OBVIOUS
<1> HIDE DEF S
<1> QED
  BY <1>1, <1>2 DEF AllToBuffers

LEMMA AllOfEleven ==
  ASSUME NEW a, NEW b, NEW c, NEW d, NEW e, NEW f, NEW g, NEW h, NEW i, NEW j, NEW k,
         ToBuffers(a), ToBuffers(b), ToBuffers(c), ToBuffers(d), ToBuffers(e),
         ToBuffers(f), ToBuffers(g), ToBuffers(h), ToBuffers(i), ToBuffers(j),
         ToBuffers(k)
  PROVE  AllToBuffers(<<a, b, c, d, e, f, g, h, i, j, k>>)
<1> DEFINE S == {a, b, c, d, e, f, g, h, i, j, k}
<1>1. <<a, b, c, d, e, f, g, h, i, j, k>> \in Seq(S)
  OBVIOUS
<1>2. \A ins \in S : ToBuffers(ins)
  OBVIOUS
<1> HIDE DEF S
<1> QED
  BY <1>1, <1>2 DEF AllToBuffers

LEMMA AllOfFifteen ==
  ASSUME NEW a, NEW b, NEW c, NEW d, NEW e, NEW f, NEW g, NEW h, NEW i, NEW j, NEW k,
         NEW l, NEW m, NEW n, NEW o,
         ToBuffers(a), ToBuffers(b), ToBuffers(c), ToBuffers(d), ToBuffers(e),
         ToBuffers(f), ToBuffers(g), ToBuffers(h), ToBuffers(i), ToBuffers(j),
         ToBuffers(k), ToBuffers(l), ToBuffers(m), ToBuffers(n), ToBuffers(o)
  PROVE  AllToBuffers(<<a, b, c, d, e, f, g, h, i, j, k, l, m, n, o>>)
<1> DEFINE S == {a, b, c, d, e, f, g, h, i, j, k, l, m, n, o}
<1>1. <<a, b, c, d, e, f, g, h, i, j, k, l, m, n, o>> \in Seq(S)
  OBVIOUS
<1>2. \A ins \in S : ToBuffers(ins)
  OBVIOUS
<1> HIDE DEF S
<1> QED
  BY <1>1, <1>2 DEF AllToBuffers

LEMMA InstrToBuffers ==
  ASSUME NEW kind, NEW p, NEW n, Sinks(kind) \subseteq DOMAIN p,
         \A f \in Sinks(kind) \cup (DOMAIN p \cap {"write_sum"}) : Lands(p[f], Extent(kind, n, f)),
         Details(kind, p, n),
         kind = "KV_APPEND" => "row" \in DOMAIN p /\ p.row = Buf("kv_row")
  PROVE  ToBuffers(Instr(kind, p, n))
<1> DEFINE ins == Instr(kind, p, n)
<1>1. ins.kind = kind /\ ins.p = p /\ ins.n = n
  BY DEF Instr
<1> HIDE DEF ins
<1>2. ToBuffers(ins)
  BY <1>1 DEF ToBuffers
<1> QED
  BY <1>2 DEF ins

\* The kinds of which nothing else is told.
Plain == {"EMBED_LOOKUP", "RMSNORM", "QUANT_Q8_1", "STATE_LOAD", "STATE_STORE", "LOGITS_EMIT",
          "CONV_SHIFT_CONCAT", "SSM_CONV_SILU", "QK_L2NORM", "GDN_GATES", "GDN_STEP",
          "GATED_RMSNORM", "ATTN_GATE", "QK_NORM_ROPE", "FATTN_DECODE", "FATTN_REDUCE"}

LEMMA PlainToBuffers ==
  ASSUME NEW kind \in Plain, NEW p, NEW n, Sinks(kind) \subseteq DOMAIN p,
         "write_sum" \notin DOMAIN p,
         \A f \in Sinks(kind) : Lands(p[f], Extent(kind, n, f))
  PROVE  ToBuffers(Instr(kind, p, n))
<1>1. Details(kind, p, n) /\ kind # "KV_APPEND"
  BY DEF Details, Plain
<1> QED
  BY <1>1, InstrToBuffers

LEMMA LandsAt ==
  ASSUME NEW c \in Scratch \cup {"result_output"}, NEW off \in Nat, NEW len \in Nat,
         off + len <= Cells(<<0, c>>)
  PROVE  Lands(At(<<0, c>>, off), len)
<1> DEFINE b == <<0, c>>  o == At(b, off)
<1>1. b \in Outputs
  BY ScratchCells, LogitsCells
<1>2. DeviceName(b) = b
  BY DEF DeviceName, Scratch
<1>3. o.name = b /\ o.off = off
  BY DEF At
<1>4. DeviceName(o.name) = b
  <2> HIDE DEF b, o
  <2> QED
    BY <1>2, <1>3
<1> HIDE DEF b, o
<1>5. Lands(o, len)
  BY <1>1, <1>3, <1>4 DEF Lands, b
<1> QED
  BY <1>5 DEF o, b

\* An operand that is a scratch buffer.
LEMMA LandsIn ==
  ASSUME NEW c \in Scratch, NEW len \in Nat, len <= BufferTable(2)[c]
  PROVE  Lands(Buf(c), len)
<1>1. Cells(<<0, c>>) = BufferTable(2)[c] /\ BufferTable(2)[c] \in Nat
  BY ScratchCells, TableIsNat
<1>2. 0 + len <= Cells(<<0, c>>)
  BY <1>1
<1>3. Lands(At(<<0, c>>, 0), len)
  BY <1>2, LandsAt
<1> QED
  BY <1>3 DEF Buf

LEMMA RmsnormToBuffers ==
  ASSUME NEW weight, NEW fold
  PROVE  ToBuffers(RmsnormInstr(weight, fold))
<1> DEFINE n == [width |-> Embd]
<1>1. \A c \in {"xn", "residual"} : Lands(Buf(c), Embd)
  BY LandsIn, SizesHold DEF Scratch, Sizes, BufferTable
<1>2. \A f : Extent("RMSNORM", n, f) = Embd
  BY DEF Extent
<1>3. \A p : Details("RMSNORM", p, n)
  BY DEF Details
<1>4. CASE fold
  <2> DEFINE p == [src |-> Buf("residual"), weight |-> weight, dst |-> Buf("xn"),
                   add_src |-> Buf("proj_out"), write_sum |-> Buf("residual")]
  <2>1. /\ Sinks("RMSNORM") = {"dst"} /\ DOMAIN p \cap {"write_sum"} = {"write_sum"}
        /\ "dst" \in DOMAIN p /\ p.dst = Buf("xn") /\ p.write_sum = Buf("residual")
    BY DEF Sinks
  <2>2. RmsnormInstr(weight, fold) = Instr("RMSNORM", p, n)
    BY <1>4 DEF RmsnormInstr
  <2> HIDE DEF p, n
  <2> QED
    BY <1>1, <1>2, <1>3, <2>1, <2>2, InstrToBuffers
<1>5. CASE ~ fold
  <2> DEFINE p == [src |-> Buf("residual"), weight |-> weight, dst |-> Buf("xn")]
  <2>1. /\ Sinks("RMSNORM") = {"dst"} /\ DOMAIN p \cap {"write_sum"} = {}
        /\ "dst" \in DOMAIN p /\ p.dst = Buf("xn")
    BY DEF Sinks
  <2>2. RmsnormInstr(weight, fold) = Instr("RMSNORM", p, n)
    BY <1>5 DEF RmsnormInstr
  <2> HIDE DEF p, n
  <2> QED
    BY <1>1, <1>2, <1>3, <2>1, <2>2, InstrToBuffers
<1> QED
  BY <1>4, <1>5

LEMMA QuantToBuffers ==
  ASSUME NEW src, NEW elems \in Nat, elems <= Sp(Ff, 2)
  PROVE  ToBuffers(Quant(src, elems))
<1> DEFINE p == [src |-> Buf(src), dst |-> Buf("q8_act")]  n == [elems |-> elems]
<1>1. Lands(Buf("q8_act"), elems)
  BY LandsIn DEF Scratch, BufferTable
<1>2. /\ Sinks("QUANT_Q8_1") = {"dst"} /\ "write_sum" \notin DOMAIN p
      /\ "dst" \in DOMAIN p /\ p.dst = Buf("q8_act")
      /\ Extent("QUANT_Q8_1", n, "dst") = elems
  BY DEF Sinks, Extent
<1> HIDE DEF p, n
<1>3. ToBuffers(Instr("QUANT_Q8_1", p, n))
  BY <1>1, <1>2, PlainToBuffers DEF Plain
<1> QED
  BY <1>3 DEF Quant, p, n

LEMMA GemvToBuffers ==
  ASSUME NEW kind \in {"MMVQ", "GEMV_F16"}, NEW weight, NEW src, NEW ncols,
         NEW dst \in Scratch, NEW rows \in Nat, rows <= BufferTable(2)[dst]
  PROVE  ToBuffers(Gemv(kind, weight, src, ncols, rows, dst))
<1> DEFINE p == [weight |-> weight, src |-> Buf(src), dst |-> Buf(dst)]
           n == [src_elems |-> ncols, row_lo |-> 0, row_hi |-> rows]
<1>1. Lands(Buf(dst), rows)
  BY LandsIn
<1>2. /\ Sinks(kind) = {"dst"} /\ DOMAIN p \cap {"write_sum"} = {}
      /\ "dst" \in DOMAIN p /\ p.dst = Buf(dst)
      /\ Extent(kind, n, "dst") = rows /\ Details(kind, p, n)
  BY DEF Sinks, Extent, Details
<1> HIDE DEF p, n
<1>3. ToBuffers(Instr(kind, p, n))
  BY <1>1, <1>2, InstrToBuffers
<1> QED
  BY <1>3 DEF Gemv, p, n

LEMMA ContractToBuffers ==
  ASSUME NEW weight, NEW ncols, NEW site
  PROVE  AllToBuffers(Contract(weight, ncols, site, 2))
<1> DEFINE gemv == Gemv("MMVQ", weight, "q8_act", Sp(ncols, 2), Embd, "proj_out")
           pp == [local_partial |-> Buf("proj_out")]
           pr == [local_partial |-> Buf("proj_out"), out |-> Buf("proj_out")]
           n == [n_elems |-> Embd, site |-> site]
<1>1. Embd \in Nat /\ Embd <= BufferTable(2)["proj_out"] /\ "proj_out" \in Scratch
  BY SizesHold DEF Sizes, BufferTable, Scratch
<1>2. ToBuffers(gemv)
  BY <1>1, GemvToBuffers
<1>3. \A kind \in {"XCHG_PUSH", "XCHG_REDUCE"} : \A p : Details(kind, p, n)
  BY DEF Details
<1>4. ToBuffers(Instr("XCHG_PUSH", pp, n))
  <2>1. Sinks("XCHG_PUSH") = {} /\ DOMAIN pp \cap {"write_sum"} = {}
    BY DEF Sinks
  <2> HIDE DEF pp, n
  <2> QED
    BY <1>3, <2>1, InstrToBuffers
<1>5. ToBuffers(Instr("XCHG_REDUCE", pr, n))
  <2>1. /\ Sinks("XCHG_REDUCE") = {"out"} /\ DOMAIN pr \cap {"write_sum"} = {}
        /\ "out" \in DOMAIN pr /\ pr.out = Buf("proj_out")
        /\ Extent("XCHG_REDUCE", n, "out") = Embd
    BY DEF Sinks, Extent
  <2>2. Lands(Buf("proj_out"), Embd)
    BY <1>1, LandsIn
  <2> HIDE DEF pr, n
  <2> QED
    BY <1>3, <2>1, <2>2, InstrToBuffers
<1>6. Contract(weight, ncols, site, 2)
        = <<gemv, Instr("XCHG_PUSH", pp, n), Instr("XCHG_REDUCE", pr, n)>>
  BY DEF Contract
<1> HIDE DEF gemv, pp, pr, n
<1> QED
  BY <1>2, <1>4, <1>5, <1>6, AllOfThree

LEMMA FfnToBuffers ==
  ASSUME NEW l
  PROVE  AllToBuffers(FfnInstrs(l, 2))
<1> DEFINE a == RmsnormInstr(Weight(l, "post_attention_norm"), TRUE)
           b == Quant("xn", Embd)
           p == [weight_up |-> Weight(l, "ffn_up"), weight_gate |-> Weight(l, "ffn_gate"),
                 src |-> Buf("q8_act"), dst |-> Buf("ffn_ws")]
           n == [src_elems |-> Embd, row_lo |-> 0, row_hi |-> Sp(Ff, 2)]
           c == Instr("MMVQ_FUSED", p, n)
           d == Quant("ffn_ws", Sp(Ff, 2))
           tail == Contract(Weight(l, "ffn_down"), Ff, Site(l, 1), 2)
<1>1. Embd \in Nat /\ Embd <= Sp(Ff, 2) /\ Sp(Ff, 2) \in Nat /\ Sp(Ff, 2) <= Sp(Ff, 2)
  BY SizesHold DEF Sizes
<1>2. ToBuffers(a) /\ ToBuffers(b) /\ ToBuffers(d) /\ AllToBuffers(tail)
  BY <1>1, RmsnormToBuffers, QuantToBuffers, ContractToBuffers
<1>3. ToBuffers(c)
  <2>1. /\ Sinks("MMVQ_FUSED") = {"dst"} /\ DOMAIN p \cap {"write_sum"} = {}
        /\ "dst" \in DOMAIN p /\ p.dst = Buf("ffn_ws")
        /\ Extent("MMVQ_FUSED", n, "dst") = Sp(Ff, 2) /\ Details("MMVQ_FUSED", p, n)
    BY DEF Sinks, Extent, Details
  <2>2. Lands(Buf("ffn_ws"), Sp(Ff, 2))
    BY <1>1, LandsIn DEF Scratch, BufferTable
  <2> HIDE DEF p, n
  <2> QED
    BY <2>1, <2>2, InstrToBuffers
<1>4. FfnInstrs(l, 2) = <<a, b, c, d>> \o tail
  BY DEF FfnInstrs
<1> HIDE DEF a, b, c, d, tail
<1> QED
  BY <1>2, <1>3, <1>4, AllOfFour, AllOfBoth

LEMMA StateLands ==
  ASSUME NEW l \in 1 .. NLayers, Layer[l] = "dn"
  PROVE  /\ Lands(At(<<l, "state_s">>, 0), Sp(VHeads * HeadDim, 2))
         /\ Lands(At(<<l, "state_r">>, 0), Sp(QkvRows, 2) * (DConv - 1))
<1>1. /\ DeviceName(At(<<l, "state_s">>, 0).name) = <<l, "ssm_state">>
      /\ DeviceName(At(<<l, "state_r">>, 0).name) = <<l, "conv_state">>
      /\ At(<<l, "state_s">>, 0).off = 0 /\ At(<<l, "state_r">>, 0).off = 0
  BY DEF DeviceName, At
<1>2. /\ Sp(VHeads * HeadDim, 2) \in Nat /\ Sp(QkvRows, 2) * (DConv - 1) \in Nat
      /\ Sp(QkvRows, 2) * (DConv - 1) = (DConv - 1) * Sp(QkvRows, 2)
  BY SizesHold DEF Sizes
<1> DEFINE s == At(<<l, "state_s">>, 0)  r == At(<<l, "state_r">>, 0)
           a == Sp(VHeads * HeadDim, 2)  b == Sp(QkvRows, 2) * (DConv - 1)
           sb == <<l, "ssm_state">>  rb == <<l, "conv_state">>
<1>3. sb \in Outputs /\ Cells(sb) = a /\ rb \in Outputs /\ Cells(rb) = b
  BY <1>2, StateCells
<1> HIDE DEF s, r, a, b, sb, rb
<1>4. Lands(s, a) /\ Lands(r, b)
  BY <1>1, <1>2, <1>3 DEF Lands, s, r, sb, rb, a, b
<1> QED
  BY <1>4 DEF s, r, a, b

LEMMA CacheLands ==
  ASSUME NEW l \in 1 .. NLayers, Layer[l] = "attn", NEW c \in {"cache_k", "cache_v"}
  PROVE  Lands(At(<<l, c>>, 0), NCtx * (Sp(KvHeads, 2) * AttnHeadDim))
<1> DEFINE o == At(<<l, c>>, 0)  b == <<l, c>>  a == NCtx * (Sp(KvHeads, 2) * AttnHeadDim)
<1>1. DeviceName(o.name) = b /\ o.off = 0
  BY DEF DeviceName, At
<1>2. b \in Outputs /\ Cells(b) = NCtx * Sp(KvHeads * AttnHeadDim, 2)
  BY CacheCells
<1>3. a \in Nat /\ a <= NCtx * Sp(KvHeads * AttnHeadDim, 2)
  BY SizesHold DEF Sizes
<1>4. Cells(b) \in Nat
  BY <1>2, CellsAreNat DEF Outputs
<1> HIDE DEF o, b, a
<1>5. Lands(o, a)
  BY <1>1, <1>2, <1>3, <1>4 DEF Lands
<1> QED
  BY <1>5 DEF o, a

\* What fits mixer_out: the rows of either mixer, and the q and k heads among them.
LEMMA MixerFits ==
  /\ Sp(QkvRows, 2) \in Nat /\ Sp(QkvRows, 2) <= BufferTable(2)["mixer_out"]
  /\ Sp(QGateRows, 2) \in Nat /\ Sp(QGateRows, 2) <= BufferTable(2)["mixer_out"]
<1> DEFINE big == IF QGateRows > QkvRows THEN QGateRows ELSE QkvRows
<1>1. QkvRows \in Nat /\ QGateRows \in Nat
  <2>1. /\ KHeads \in Nat /\ HeadDim \in Nat /\ VHeads \in Nat /\ QHeads \in Nat
        /\ AttnHeadDim \in Nat
    BY WeightSplitAssumption, SplitProgramAssumption
  <2>2. 2 * KHeads + VHeads \in Nat /\ 2 * QHeads \in Nat
    BY <2>1
  <2> QED
    BY <2>1, <2>2, ProductIsNat DEF QkvRows, QGateRows
<1>2. big \in Nat /\ QkvRows <= big /\ QGateRows <= big
  BY <1>1
<1>3. BufferTable(2)["mixer_out"] = Sp(big, 2)
  BY DEF BufferTable
<1> HIDE DEF big
<1> QED
  BY <1>1, <1>2, <1>3, HalfMono, HalvesAreNat

LEMMA DnToBuffers ==
  ASSUME NEW l \in 1 .. NLayers, Layer[l] = "dn"
  PROVE  AllToBuffers(DnInstrs(l, 2))
<1> DEFINE
      q == At(<<0, "mixer_out">>, 0)
      k == At(<<0, "mixer_out">>, Sp(KHeads * HeadDim, 2))
      v == At(<<0, "mixer_out">>, Sp(2 * KHeads * HeadDim, 2))
      heads == [heads |-> Sp(VHeads, 2)]
      channels == [channels |-> Sp(QkvRows, 2)]
      elems == [elems |-> Sp(VHeads * HeadDim, 2)]
      tasks == [v_heads |-> Sp(VHeads, 2), k_heads |-> Sp(KHeads, 2)]
      i1 == RmsnormInstr(Weight(l, "attn_norm"), l > 1)
      i2 == Quant("xn", Embd)
      i3 == Expand(Weight(l, "attn_qkv"), QkvRows, "mixer_out", 2)
      i4 == Expand(Weight(l, "attn_gate"), VHeads * HeadDim, "gate_out", 2)
      i5 == Gemv("GEMV_F16", Weight(l, "ssm_alpha"), "xn", Embd, Sp(VHeads, 2), "gdn_alpha")
      i6 == Gemv("GEMV_F16", Weight(l, "ssm_beta"), "xn", Embd, Sp(VHeads, 2), "gdn_beta")
      i7 == Instr("STATE_LOAD", [src |-> At(<<l, "state_s">>, 0), dst |-> Buf("gdn_state")],
                  elems)
      i8 == Instr("GDN_GATES",
                  [alpha |-> Buf("gdn_alpha"), beta |-> Buf("gdn_beta"),
                   dt_bias |-> Weight(l, "ssm_dt"), a |-> Weight(l, "ssm_a"),
                   g_dst |-> Buf("gdn_alpha"), beta_dst |-> Buf("gdn_beta")], heads)
      i9 == Instr("CONV_SHIFT_CONCAT",
                  [hist |-> At(<<l, "state_r">>, 0), xnew |-> Buf("mixer_out"),
                   win |-> Buf("conv_ws"), state |-> At(<<l, "state_r">>, 0)], channels)
      i10 == Instr("SSM_CONV_SILU",
                   [win |-> Buf("conv_ws"), weight |-> Weight(l, "ssm_conv1d"),
                    dst |-> Buf("mixer_out")], channels)
      i11 == Instr("QK_L2NORM", [q |-> q, k |-> k], [heads |-> Sp(KHeads, 2)])
      i12 == Instr("GDN_STEP",
                   [q |-> q, k |-> k, v |-> v, g |-> Buf("gdn_alpha"),
                    beta |-> Buf("gdn_beta"), state |-> Buf("gdn_state"),
                    dst |-> Buf("attn_out")], tasks)
      i13 == Instr("GATED_RMSNORM",
                   [src |-> Buf("attn_out"), gate |-> Buf("gate_out"),
                    weight |-> Weight(l, "ssm_norm"), dst |-> Buf("attn_out")], heads)
      i14 == Instr("STATE_STORE", [src |-> Buf("gdn_state"), dst |-> At(<<l, "state_s">>, 0)],
                   elems)
      i15 == Quant("attn_out", Sp(VHeads * HeadDim, 2))
      tail == Contract(Weight(l, "ssm_out"), VHeads * HeadDim, Site(l, 0), 2)
<1>a. Sizes
  BY SizesHold
<1>b. /\ Lands(Buf("gdn_state"), Sp(VHeads * HeadDim, 2))
      /\ Lands(Buf("gdn_state"), Sp(VHeads, 2) * HeadDim)
      /\ Lands(Buf("attn_out"), Sp(VHeads, 2) * HeadDim)
      /\ Lands(Buf("gdn_alpha"), Sp(VHeads, 2)) /\ Lands(Buf("gdn_beta"), Sp(VHeads, 2))
      /\ Lands(Buf("conv_ws"), Sp(QkvRows, 2) * DConv)
  BY <1>a, LandsIn DEF Sizes, Scratch, BufferTable
<1>c. Lands(Buf("mixer_out"), Sp(QkvRows, 2)) /\ Lands(q, 2 * Sp(KHeads, 2) * HeadDim)
  <2>1. 2 * Sp(KHeads, 2) * HeadDim <= BufferTable(2)["mixer_out"]
        /\ 2 * Sp(KHeads, 2) * HeadDim \in Nat
    <3>1. BufferTable(2)["mixer_out"] \in Nat
      BY TableIsNat DEF Scratch
    <3> QED
      BY <1>a, <3>1, MixerFits DEF Sizes
  <2>2. Lands(Buf("mixer_out"), 2 * Sp(KHeads, 2) * HeadDim)
    BY <2>1, LandsIn DEF Scratch
  <2> QED
    BY <2>2, MixerFits, LandsIn DEF Scratch, Buf
<1>d. /\ Lands(At(<<l, "state_s">>, 0), Sp(VHeads * HeadDim, 2))
      /\ Lands(At(<<l, "state_r">>, 0), Sp(QkvRows, 2) * (DConv - 1))
  BY StateLands
<1>1. ToBuffers(i1) /\ ToBuffers(i2) /\ ToBuffers(i15)
  BY <1>a, RmsnormToBuffers, QuantToBuffers DEF Sizes
<1>2. ToBuffers(i3) /\ ToBuffers(i4) /\ ToBuffers(i5) /\ ToBuffers(i6)
  <2>1. ToBuffers(i3)
    BY MixerFits, GemvToBuffers DEF Expand, Scratch
  <2>2. Sp(VHeads * HeadDim, 2) <= BufferTable(2)["gate_out"]
        /\ Sp(VHeads, 2) <= BufferTable(2)["gdn_alpha"]
        /\ Sp(VHeads, 2) <= BufferTable(2)["gdn_beta"]
    BY <1>a DEF Sizes, BufferTable
  <2> QED
    BY <1>a, <2>1, <2>2, GemvToBuffers DEF Expand, Scratch, Sizes
<1>3. ToBuffers(i7)
  <2>1. Sinks("STATE_LOAD") = {"dst"}
        /\ Extent("STATE_LOAD", elems, "dst") = Sp(VHeads * HeadDim, 2)
    BY DEF Sinks, Extent
  <2> QED
    BY <1>b, <2>1, PlainToBuffers DEF Plain
<1>4. ToBuffers(i8)
  <2>1. Sinks("GDN_GATES") = {"g_dst", "beta_dst"}
        /\ \A f : Extent("GDN_GATES", heads, f) = Sp(VHeads, 2)
    BY DEF Sinks, Extent
  <2> QED
    BY <1>b, <2>1, PlainToBuffers DEF Plain
<1>5. ToBuffers(i9)
  <2>1. /\ Sinks("CONV_SHIFT_CONCAT") = {"win", "state"}
        /\ Extent("CONV_SHIFT_CONCAT", channels, "win") = Sp(QkvRows, 2) * DConv
        /\ Extent("CONV_SHIFT_CONCAT", channels, "state") = Sp(QkvRows, 2) * (DConv - 1)
    BY DEF Sinks, Extent
  <2> QED
    BY <1>b, <1>d, <2>1, PlainToBuffers DEF Plain
<1>6. ToBuffers(i10)
  <2>1. Sinks("SSM_CONV_SILU") = {"dst"}
        /\ Extent("SSM_CONV_SILU", channels, "dst") = Sp(QkvRows, 2)
    BY DEF Sinks, Extent
  <2> QED
    BY <1>c, <2>1, PlainToBuffers DEF Plain
<1>7. ToBuffers(i11)
  <2>1. Sinks("QK_L2NORM") = {"q"}
        /\ Extent("QK_L2NORM", [heads |-> Sp(KHeads, 2)], "q") = 2 * Sp(KHeads, 2) * HeadDim
    BY DEF Sinks, Extent
  <2> QED
    BY <1>c, <2>1, PlainToBuffers DEF Plain
<1>8. ToBuffers(i12)
  <2>1. Sinks("GDN_STEP") = {"state", "dst"}
        /\ \A f : Extent("GDN_STEP", tasks, f) = Sp(VHeads, 2) * HeadDim
    BY DEF Sinks, Extent
  <2> QED
    BY <1>b, <2>1, PlainToBuffers DEF Plain
<1>9. ToBuffers(i13)
  <2>1. Sinks("GATED_RMSNORM") = {"dst"}
        /\ Extent("GATED_RMSNORM", heads, "dst") = Sp(VHeads, 2) * HeadDim
    BY DEF Sinks, Extent
  <2> QED
    BY <1>b, <2>1, PlainToBuffers DEF Plain
<1>10. ToBuffers(i14)
  <2>1. Sinks("STATE_STORE") = {"dst"}
        /\ Extent("STATE_STORE", elems, "dst") = Sp(VHeads * HeadDim, 2)
    BY DEF Sinks, Extent
  <2> QED
    BY <1>d, <2>1, PlainToBuffers DEF Plain
<1>11. DnInstrs(l, 2) = <<i1, i2, i3, i4, i5, i6, i7, i8, i9, i10, i11, i12, i13, i14, i15>>
                          \o tail \o FfnInstrs(l, 2)
  BY DEF DnInstrs
<1>12. AllToBuffers(tail) /\ AllToBuffers(FfnInstrs(l, 2))
  BY ContractToBuffers, FfnToBuffers
<1> HIDE DEF i1, i2, i3, i4, i5, i6, i7, i8, i9, i10, i11, i12, i13, i14, i15, tail
<1>13. AllToBuffers(<<i1, i2, i3, i4, i5, i6, i7, i8, i9, i10, i11, i12, i13, i14, i15>>)
  BY <1>1, <1>2, <1>3, <1>4, <1>5, <1>6, <1>7, <1>8, <1>9, <1>10, AllOfFifteen
<1> QED
  BY <1>11, <1>12, <1>13, AllOfBoth

LEMMA AttnToBuffers ==
  ASSUME NEW l \in 1 .. NLayers, Layer[l] = "attn"
  PROVE  AllToBuffers(AttnInstrs(l, 2))
<1> DEFINE
      ck == At(<<l, "cache_k">>, 0)
      cv == At(<<l, "cache_v">>, 0)
      width == Sp(KvHeads, 2) * AttnHeadDim
      i1 == RmsnormInstr(Weight(l, "attn_norm"), l > 1)
      i2 == Quant("xn", Embd)
      i3 == Expand(Weight(l, "attn_q"), QGateRows, "mixer_out", 2)
      i4 == Expand(Weight(l, "attn_k"), KvHeads * AttnHeadDim, "k_stage", 2)
      i5 == Expand(Weight(l, "attn_v"), KvHeads * AttnHeadDim, "v_stage", 2)
      rope == [q_heads |-> Sp(QHeads, 2), k_heads |-> Sp(KvHeads, 2),
               q_head_stride |-> 2 * AttnHeadDim]
      i6 == Instr("QK_NORM_ROPE",
                  [q_src |-> Buf("mixer_out"), q_norm_weight |-> Weight(l, "attn_q_norm"),
                   q_dst |-> Buf("fattn_q"), k_src |-> Buf("k_stage"),
                   k_norm_weight |-> Weight(l, "attn_k_norm"), k_dst |-> Buf("k_stage"),
                   positions |-> Buf("positions")], rope)
      rows == [row_width |-> width]
      append == [k_src |-> Buf("k_stage"), v_src |-> Buf("v_stage"), row |-> Buf("kv_row"),
                 cache_k |-> ck, cache_v |-> cv]
      i7 == Instr("KV_APPEND", append, rows)
      heads == [q_heads |-> Sp(QHeads, 2), kv_heads |-> Sp(KvHeads, 2)]
      i8 == Instr("FATTN_DECODE",
                  [q |-> Buf("fattn_q"), cache_k |-> ck, cache_v |-> cv,
                   mask |-> Buf("mask_f16"), n_kv |-> Buf("n_kv"),
                   partials |-> Buf("fattn_partial")], heads)
      i9 == Instr("FATTN_REDUCE", [partials |-> Buf("fattn_partial"), dst |-> Buf("attn_out")],
                  [q_heads |-> Sp(QHeads, 2)])
      gates == [heads |-> Sp(QHeads, 2), gate_head_stride |-> 2 * AttnHeadDim]
      i10 == Instr("ATTN_GATE",
                   [attn |-> Buf("attn_out"), gate |-> At(<<0, "mixer_out">>, AttnHeadDim),
                    dst |-> Buf("attn_out")], gates)
      i11 == Quant("attn_out", Sp(QHeads * AttnHeadDim, 2))
      tail == Contract(Weight(l, "attn_output"), QHeads * AttnHeadDim, Site(l, 0), 2)
<1>a. Sizes
  BY SizesHold
<1>b. /\ Lands(Buf("fattn_q"), Sp(QHeads, 2) * AttnHeadDim)
      /\ Lands(Buf("k_stage"), width)
      /\ Lands(Buf("fattn_partial"), Sp(QHeads, 2))
      /\ Lands(Buf("attn_out"), Sp(QHeads, 2) * AttnHeadDim)
  BY <1>a, LandsIn DEF Sizes, Scratch, BufferTable
<1>c. Lands(ck, NCtx * width) /\ Lands(cv, NCtx * width) /\ width \in Nat
  BY <1>a, CacheLands DEF Sizes
<1>1. ToBuffers(i1) /\ ToBuffers(i2) /\ ToBuffers(i11)
  BY <1>a, RmsnormToBuffers, QuantToBuffers DEF Sizes
<1>2. ToBuffers(i3) /\ ToBuffers(i4) /\ ToBuffers(i5)
  <2>1. ToBuffers(i3)
    BY MixerFits, GemvToBuffers DEF Expand, Scratch
  <2>2. Sp(KvHeads * AttnHeadDim, 2) <= BufferTable(2)["k_stage"]
        /\ Sp(KvHeads * AttnHeadDim, 2) <= BufferTable(2)["v_stage"]
    BY <1>a DEF Sizes, BufferTable
  <2> QED
    BY <1>a, <2>1, <2>2, GemvToBuffers DEF Expand, Scratch, Sizes
<1>3. ToBuffers(i6)
  <2>1. /\ Sinks("QK_NORM_ROPE") = {"q_dst", "k_dst"}
        /\ Extent("QK_NORM_ROPE", rope, "q_dst") = Sp(QHeads, 2) * AttnHeadDim
        /\ Extent("QK_NORM_ROPE", rope, "k_dst") = Sp(KvHeads, 2) * AttnHeadDim
    BY DEF Sinks, Extent
  <2> QED
    BY <1>b, <2>1, PlainToBuffers DEF Plain
<1>4. ToBuffers(i7)
  <2>1. /\ Sinks("KV_APPEND") = {"cache_k", "cache_v"}
        /\ \A f : Extent("KV_APPEND", rows, f) = NCtx * width
        /\ Details("KV_APPEND", append, rows)
    BY <1>c DEF Sinks, Extent, Details
  <2>2. /\ DOMAIN append = {"k_src", "v_src", "row", "cache_k", "cache_v"}
        /\ append.row = Buf("kv_row") /\ append["cache_k"] = ck /\ append["cache_v"] = cv
    OBVIOUS
  <2> HIDE DEF append, rows, ck, cv, width
  <2> QED
    BY <1>c, <2>1, <2>2, InstrToBuffers
<1>5. ToBuffers(i8)
  <2>1. Sinks("FATTN_DECODE") = {"partials"}
        /\ Extent("FATTN_DECODE", heads, "partials") = Sp(QHeads, 2)
    BY DEF Sinks, Extent
  <2> QED
    BY <1>b, <2>1, PlainToBuffers DEF Plain
<1>6. ToBuffers(i9)
  <2>1. /\ Sinks("FATTN_REDUCE") = {"dst"}
        /\ Extent("FATTN_REDUCE", [q_heads |-> Sp(QHeads, 2)], "dst") = Sp(QHeads, 2) * AttnHeadDim
    BY DEF Sinks, Extent
  <2> QED
    BY <1>b, <2>1, PlainToBuffers DEF Plain
<1>7. ToBuffers(i10)
  <2>1. Sinks("ATTN_GATE") = {"dst"}
        /\ Extent("ATTN_GATE", gates, "dst") = Sp(QHeads, 2) * AttnHeadDim
    BY DEF Sinks, Extent
  <2> QED
    BY <1>b, <2>1, PlainToBuffers DEF Plain
<1>8. AttnInstrs(l, 2) = <<i1, i2, i3, i4, i5, i6, i7, i8, i9, i10, i11>> \o tail \o FfnInstrs(l, 2)
  BY DEF AttnInstrs
<1>9. AllToBuffers(tail) /\ AllToBuffers(FfnInstrs(l, 2))
  BY ContractToBuffers, FfnToBuffers
<1> HIDE DEF i1, i2, i3, i4, i5, i6, i7, i8, i9, i10, i11, tail
<1>10. AllToBuffers(<<i1, i2, i3, i4, i5, i6, i7, i8, i9, i10, i11>>)
  BY <1>1, <1>2, <1>3, <1>4, <1>5, <1>6, <1>7, AllOfEleven
<1> QED
  BY <1>8, <1>9, <1>10, AllOfBoth

(***************************************************************************)
(* The whole split program, layer by layer.                                *)
(***************************************************************************)
LayerInstrs(l) == IF Layer[l] = "dn" THEN DnInstrs(l, 2) ELSE AttnInstrs(l, 2)
Embedding ==
  << Instr("EMBED_LOOKUP", [weight |-> Weight(0, "token_embd"),
                            token |-> Buf("token"), dst |-> Buf("residual")],
           [n_embd |-> Embd]) >>
LogitsTail ==
  << RmsnormInstr(Weight(0, "output_norm"), TRUE),
     Gemv("GEMV_F16", Weight(0, "output"), "xn", Embd, Sp(Vocab, 2), "logits"),
     Instr("LOGITS_EMIT", [src |-> Buf("logits"), dst |-> Buf("result_output")],
           [elems |-> Sp(Vocab, 2)]) >>

\* f is the program grown layer by layer.
Grows(f, n) ==
  f = [l \in 0 .. n |-> IF l = 0 THEN Embedding ELSE f[l-1] \o LayerInstrs(l)]

LEMMA ProgramIsChosen == SplitInstrs = (CHOOSE f : Grows(f, NLayers))[NLayers] \o LogitsTail
BY DEF SplitInstrs, Program, Grows, LayerInstrs, Embedding, LogitsTail

LEMMA NLayersIsNat == NLayers \in Nat /\ DOMAIN Layer = 1 .. NLayers
                      /\ \A l \in 1 .. NLayers : Layer[l] \in {"dn", "attn"}
BY SplitProgramAssumption DEF NLayers

\* There is such a function.
LEMMA GrowsExists == \A n \in Nat : \E f : Grows(f, n)
<1> DEFINE N == {n \in Nat : \E f : Grows(f, n)}
<1>1. 0 \in N
  <2> DEFINE f == [l \in 0 .. 0 |-> Embedding]
  <2>1. f = [l \in 0 .. 0 |-> IF l = 0 THEN Embedding ELSE f[l-1] \o LayerInstrs(l)]
    OBVIOUS
  <2> HIDE DEF f
  <2>2. Grows(f, 0)
    BY <2>1 DEF Grows
  <2> QED
    BY <2>2
<1>2. ASSUME NEW n \in Nat, n \in N PROVE n + 1 \in N
  <2>1. PICK f : Grows(f, n)
    BY <1>2
  <2> DEFINE g == [l \in 0 .. n + 1 |-> IF l = n + 1 THEN f[n] \o LayerInstrs(n + 1) ELSE f[l]]
             h(l) == IF l = 0 THEN Embedding ELSE g[l-1] \o LayerInstrs(l)
  <2>2. \A l \in 0 .. n :
          f[l] = IF l = 0 THEN Embedding ELSE f[l-1] \o LayerInstrs(l)
    BY <2>1, Zenon DEF Grows
  <2>3. ASSUME NEW l \in 0 .. n + 1 PROVE g[l] = h(l)
    <3>1. CASE l = n + 1
      <4>1. g[l] = f[n] \o LayerInstrs(l) /\ g[l-1] = f[n] /\ l # 0
        BY <3>1
      <4> QED
        BY <4>1
    <3>2. CASE l # n + 1
      <4>1. l \in 0 .. n /\ g[l] = f[l] /\ (l # 0 => g[l-1] = f[l-1])
        BY <3>2
      <4> QED
        BY <2>2, <4>1
    <3> QED
      BY <3>1, <3>2
  <2>4. g = [l \in 0 .. n + 1 |-> h(l)]
    BY <2>3
  <2> HIDE DEF g
  <2>5. Grows(g, n + 1)
    BY <2>4 DEF Grows
  <2> QED
    BY <2>5
<1> HIDE DEF N
<1>3. \A n \in Nat : n \in N
  BY <1>1, <1>2, SetOfNaturals
<1> QED
  BY <1>3 DEF N

LEMMA EmbeddingToBuffers == AllToBuffers(Embedding)
<1> DEFINE p == [weight |-> Weight(0, "token_embd"), token |-> Buf("token"),
                 dst |-> Buf("residual")]
           n == [n_embd |-> Embd]
<1>1. Sinks("EMBED_LOOKUP") = {"dst"} /\ "dst" \in DOMAIN p /\ "write_sum" \notin DOMAIN p
      /\ p.dst = Buf("residual") /\ Extent("EMBED_LOOKUP", n, "dst") = Embd
  BY DEF Sinks, Extent
<1>2. Lands(Buf("residual"), Embd)
  BY LandsIn, SizesHold DEF Scratch, Sizes, BufferTable
<1> HIDE DEF p, n
<1>3. ToBuffers(Instr("EMBED_LOOKUP", p, n))
  BY <1>1, <1>2, PlainToBuffers DEF Plain
<1> QED
  BY <1>3, AllOfOne DEF Embedding, p, n

LEMMA TailToBuffers == AllToBuffers(LogitsTail)
<1> DEFINE a == RmsnormInstr(Weight(0, "output_norm"), TRUE)
           b == Gemv("GEMV_F16", Weight(0, "output"), "xn", Embd, Sp(Vocab, 2), "logits")
           p == [src |-> Buf("logits"), dst |-> Buf("result_output")]
           n == [elems |-> Sp(Vocab, 2)]
           c == Instr("LOGITS_EMIT", p, n)
<1>1. Sp(Vocab, 2) \in Nat /\ Sp(Vocab, 2) <= BufferTable(2)["logits"] /\ "logits" \in Scratch
  BY SizesHold DEF Sizes, BufferTable, Scratch
<1>2. ToBuffers(a) /\ ToBuffers(b)
  BY <1>1, RmsnormToBuffers, GemvToBuffers
<1>3. ToBuffers(c)
  <2>1. Sinks("LOGITS_EMIT") = {"dst"} /\ "dst" \in DOMAIN p /\ "write_sum" \notin DOMAIN p
        /\ p.dst = Buf("result_output") /\ Extent("LOGITS_EMIT", n, "dst") = Sp(Vocab, 2)
    BY DEF Sinks, Extent
  <2>2. 0 + Sp(Vocab, 2) <= Cells(<<0, "result_output">>)
    BY <1>1, LogitsCells
  <2>3. Lands(At(<<0, "result_output">>, 0), Sp(Vocab, 2))
    BY <1>1, <2>2, LandsAt
  <2>4. Lands(Buf("result_output"), Sp(Vocab, 2))
    BY <2>3 DEF Buf
  <2> HIDE DEF p, n
  <2> QED
    BY <2>1, <2>4, PlainToBuffers DEF Plain
<1>4. LogitsTail = <<a, b, c>>
  BY DEF LogitsTail
<1> HIDE DEF a, b, c
<1> QED
  BY <1>2, <1>3, <1>4, AllOfThree

LEMMA SplitToBuffers == AllToBuffers(SplitInstrs)
<1> DEFINE f == CHOOSE f : Grows(f, NLayers)
           N == {n \in Nat : n <= NLayers => AllToBuffers(f[n])}
<1>1. Grows(f, NLayers)
  BY NLayersIsNat, GrowsExists
<1> HIDE DEF f
<1>2. \A l \in 0 .. NLayers :
        f[l] = IF l = 0 THEN Embedding ELSE f[l-1] \o LayerInstrs(l)
  BY <1>1, Zenon DEF Grows
<1>3. 0 \in N
  BY <1>2, EmbeddingToBuffers, NLayersIsNat
<1>4. ASSUME NEW n \in Nat, n \in N PROVE n + 1 \in N
  <2> SUFFICES ASSUME n + 1 <= NLayers PROVE AllToBuffers(f[n + 1])
    OBVIOUS
  <2>1. n + 1 \in 1 .. NLayers /\ n + 1 \in 0 .. NLayers /\ n + 1 # 0 /\ (n + 1) - 1 = n
    BY NLayersIsNat
  <2>2. AllToBuffers(f[n])
    BY <1>4, NLayersIsNat
  <2>3. AllToBuffers(LayerInstrs(n + 1))
    BY <2>1, NLayersIsNat, DnToBuffers, AttnToBuffers DEF LayerInstrs
  <2>4. f[n + 1] = f[n] \o LayerInstrs(n + 1)
    BY <1>2, <2>1
  <2> QED
    BY <2>2, <2>3, <2>4, AllOfBoth
<1> HIDE DEF N
<1>5. \A n \in Nat : n \in N
  BY <1>3, <1>4, SetOfNaturals
<1>6. AllToBuffers(f[NLayers])
  BY <1>5, NLayersIsNat DEF N
<1> QED
  BY <1>6, TailToBuffers, ProgramIsChosen, AllOfBoth DEF f

\* What the host packs.
LEMMA EachToBuffers ==
  ASSUME NEW k \in DOMAIN SplitInstrs PROVE ToBuffers(SplitInstrs[k])
<1>1. PICK S : SplitInstrs \in Seq(S) /\ \A ins \in S : ToBuffers(ins)
  BY SplitToBuffers DEF AllToBuffers
<1> DEFINE s == SplitInstrs
<1>2. s \in Seq(S) /\ k \in DOMAIN s
  BY <1>1
<1> HIDE DEF s
<1>3. s[k] \in S
  BY <1>2
<1> QED
  BY <1>1, <1>3 DEF s

(***************************************************************************)
(* Packing keeps it: what the kernels store to is of the same buffers.     *)
(***************************************************************************)
\* The operands an instruction that has been emitted stores to.
Stores(kind) ==
  CASE kind = "QK_L2NORM"    -> {"buf"}
    [] kind = "QK_NORM_ROPE" -> {"dst"}
    [] kind = "KV_APPEND"    -> {"cache"}
    [] OTHER                 -> Sinks(kind)

EmitsToBuffers(ins) ==
  /\ Stores(ins.kind) \subseteq DOMAIN ins.p
  /\ \A f \in Stores(ins.kind) \cup (DOMAIN ins.p \cap {"write_sum"}) :
       Lands(ins.p[f], Extent(ins.kind, ins.n, f))
  /\ Details(ins.kind, ins.p, ins.n)
  /\ ins.kind = "KV_APPEND" => "row_idx" \in DOMAIN ins.p /\ ins.p.row_idx = Buf("kv_row")

LEMMA EmitsOne ==
  ASSUME NEW kind, NEW f, NEW p, NEW n, Stores(kind) = {f}, f \in DOMAIN p,
         "write_sum" \notin DOMAIN p, Lands(p[f], Extent(kind, n, f)), Details(kind, p, n),
         kind = "KV_APPEND" => "row_idx" \in DOMAIN p /\ p.row_idx = Buf("kv_row")
  PROVE  EmitsToBuffers(Instr(kind, p, n)) /\ Instr(kind, p, n).kind = kind
<1> DEFINE ins == Instr(kind, p, n)
<1>1. ins.kind = kind /\ ins.p = p /\ ins.n = n
  BY DEF Instr
<1> HIDE DEF ins
<1>2. EmitsToBuffers(ins)
  BY <1>1 DEF EmitsToBuffers
<1> QED
  BY <1>1, <1>2 DEF ins

LEMMA EmittedToBuffers ==
  ASSUME NEW ins, ToBuffers(ins), NEW k \in DOMAIN Emitted(ins)
  PROVE  EmitsToBuffers(Emitted(ins)[k]) /\ Emitted(ins)[k].kind = ins.kind
<1> DEFINE p == ins.p  n == ins.n
<1>1. CASE ins.kind = "QK_L2NORM"
  <2> DEFINE pa == [buf |-> p.q]  na == [n_heads |-> 2 * n.heads]
             a == Instr("QK_L2NORM", pa, na)
  <2>1. Emitted(ins) = <<a>>
    BY <1>1, Zenon DEF Emitted
  <2>2. Lands(p.q, Extent("QK_L2NORM", n, "q"))
    BY <1>1 DEF ToBuffers, Sinks
  <2>3. Extent("QK_L2NORM", n, "q") = 2 * n.heads * HeadDim
    BY DEF Extent
  <2>4. Extent("QK_L2NORM", na, "buf") = na.n_heads * HeadDim /\ na.n_heads = 2 * n.heads
    BY DEF Extent
  <2>5. Details("QK_L2NORM", pa, na)
    BY DEF Details
  <2>6. EmitsToBuffers(a) /\ a.kind = "QK_L2NORM"
    <3>1. Stores("QK_L2NORM") = {"buf"} /\ "buf" \in DOMAIN pa /\ "write_sum" \notin DOMAIN pa
          /\ pa["buf"] = p.q
      BY DEF Stores
    <3> HIDE DEF pa, na, p, n
    <3> QED
      BY <2>2, <2>3, <2>4, <2>5, <3>1, EmitsOne
  <2> HIDE DEF a
  <2>7. DOMAIN <<a>> = {1} /\ <<a>>[1] = a
    OBVIOUS
  <2> QED
    BY <1>1, <2>1, <2>6, <2>7
<1>2. CASE ins.kind = "QK_NORM_ROPE"
  <2> DEFINE pa == [src |-> p.q_src, norm_w |-> p.q_norm_weight, pos |-> p.positions,
                    dst |-> p.q_dst]
             pb == [src |-> p.k_src, norm_w |-> p.k_norm_weight, pos |-> p.positions,
                    dst |-> p.k_dst]
             na == [n_heads |-> n.q_heads, src_stride |-> n.q_head_stride]
             nb == [n_heads |-> n.k_heads, src_stride |-> AttnHeadDim]
             a == Instr("QK_NORM_ROPE", pa, na)
             b == Instr("QK_NORM_ROPE", pb, nb)
  <2>1. Emitted(ins) = <<a, b>>
    BY <1>2, Zenon DEF Emitted
  <2>2. /\ Lands(p.q_dst, Extent("QK_NORM_ROPE", n, "q_dst"))
        /\ Lands(p.k_dst, Extent("QK_NORM_ROPE", n, "k_dst"))
    BY <1>2 DEF ToBuffers, Sinks
  <2>3. /\ Extent("QK_NORM_ROPE", n, "q_dst") = n.q_heads * AttnHeadDim
        /\ Extent("QK_NORM_ROPE", n, "k_dst") = n.k_heads * AttnHeadDim
        /\ \A x : Extent("QK_NORM_ROPE", x, "dst") = x.n_heads * AttnHeadDim
        /\ \A x, y : Details("QK_NORM_ROPE", x, y)
    BY DEF Extent, Details
  <2>4. na.n_heads = n.q_heads /\ nb.n_heads = n.k_heads
    OBVIOUS
  <2>5. /\ EmitsToBuffers(a) /\ a.kind = "QK_NORM_ROPE"
        /\ EmitsToBuffers(b) /\ b.kind = "QK_NORM_ROPE"
    <3>1. Stores("QK_NORM_ROPE") = {"dst"}
      BY DEF Stores
    <3>2. /\ "dst" \in DOMAIN pa /\ "write_sum" \notin DOMAIN pa /\ pa["dst"] = p.q_dst
          /\ "dst" \in DOMAIN pb /\ "write_sum" \notin DOMAIN pb /\ pb["dst"] = p.k_dst
      OBVIOUS
    <3> HIDE DEF pa, pb, na, nb, p, n
    <3>3. /\ Lands(pa["dst"], Extent("QK_NORM_ROPE", na, "dst"))
          /\ Lands(pb["dst"], Extent("QK_NORM_ROPE", nb, "dst"))
      BY <2>2, <2>3, <2>4, <3>2
    <3> QED
      BY <2>3, <3>1, <3>2, <3>3, EmitsOne
  <2> HIDE DEF a, b
  <2>6. DOMAIN <<a, b>> = {1, 2} /\ <<a, b>>[1] = a /\ <<a, b>>[2] = b
    OBVIOUS
  <2> QED
    BY <1>2, <2>1, <2>5, <2>6
<1>3. CASE ins.kind = "KV_APPEND"
  <2> DEFINE pa == [src |-> p.k_src, row_idx |-> p.row, cache |-> p.cache_k]
             pb == [src |-> p.v_src, row_idx |-> p.row, cache |-> p.cache_v]
             na == n
             a == Instr("KV_APPEND", pa, na)
             b == Instr("KV_APPEND", pb, na)
  <2>1. Emitted(ins) = <<a, b>>
    BY <1>3, Zenon DEF Emitted
  <2>2. /\ Lands(p.cache_k, Extent("KV_APPEND", n, "cache_k"))
        /\ Lands(p.cache_v, Extent("KV_APPEND", n, "cache_v"))
        /\ Details("KV_APPEND", p, n) /\ p.row = Buf("kv_row")
    BY <1>3 DEF ToBuffers, Sinks
  <2>3. /\ Extent("KV_APPEND", n, "cache_k") = NCtx * n.row_width
        /\ Extent("KV_APPEND", n, "cache_v") = NCtx * n.row_width
        /\ Extent("KV_APPEND", n, "cache") = NCtx * n.row_width
        /\ \A x, y : Details("KV_APPEND", x, n) => Details("KV_APPEND", y, n)
    BY DEF Extent, Details
  <2>4. /\ EmitsToBuffers(a) /\ a.kind = "KV_APPEND"
        /\ EmitsToBuffers(b) /\ b.kind = "KV_APPEND"
    <3>1. Stores("KV_APPEND") = {"cache"}
      BY DEF Stores
    <3>2. /\ "cache" \in DOMAIN pa /\ "write_sum" \notin DOMAIN pa /\ pa["cache"] = p.cache_k
          /\ "row_idx" \in DOMAIN pa /\ pa["row_idx"] = p.row
          /\ "cache" \in DOMAIN pb /\ "write_sum" \notin DOMAIN pb /\ pb["cache"] = p.cache_v
          /\ "row_idx" \in DOMAIN pb /\ pb["row_idx"] = p.row
      OBVIOUS
    <3> HIDE DEF pa, pb, p, n
    <3>3. Details("KV_APPEND", pa, n) /\ Details("KV_APPEND", pb, n)
      BY <2>2, <2>3
    <3>4. EmitsToBuffers(Instr("KV_APPEND", pa, n)) /\ Instr("KV_APPEND", pa, n).kind = "KV_APPEND"
      BY <2>2, <2>3, <3>1, <3>2, <3>3, EmitsOne
    <3>5. EmitsToBuffers(Instr("KV_APPEND", pb, n)) /\ Instr("KV_APPEND", pb, n).kind = "KV_APPEND"
      BY <2>2, <2>3, <3>1, <3>2, <3>3, EmitsOne
    <3> QED
      BY <3>4, <3>5
  <2> HIDE DEF a, b
  <2>5. DOMAIN <<a, b>> = {1, 2} /\ <<a, b>>[1] = a /\ <<a, b>>[2] = b
    OBVIOUS
  <2> QED
    BY <1>3, <2>1, <2>4, <2>5
<1>4. CASE ins.kind \notin {"QK_L2NORM", "QK_NORM_ROPE", "KV_APPEND"}
  <2>1. Emitted(ins) = <<ins>>
    BY <1>4 DEF Emitted
  <2>2. Stores(ins.kind) = Sinks(ins.kind)
    BY <1>4 DEF Stores
  <2>3. EmitsToBuffers(ins)
    BY <1>4, <2>2 DEF EmitsToBuffers, ToBuffers
  <2>4. DOMAIN <<ins>> = {1} /\ <<ins>>[1] = ins
    OBVIOUS
  <2> QED
    BY <2>1, <2>3, <2>4
<1> QED
  BY <1>1, <1>2, <1>3, <1>4

(***************************************************************************)
(* Binding keeps it: what is stored to lies in a buffer of its own GPU, or *)
(* in a mailbox of the peer.                                               *)
(***************************************************************************)
LEMMA BuffersApart ==
  /\ Arena \notin Bufs /\ Payload \notin Bufs /\ Seqno \notin Bufs
  /\ Arena # Payload /\ Arena # Seqno /\ Payload # Seqno
BY TableOfScratch DEF Bufs, RuntimeBuffers, Arena, Payload, Seqno, PassCells, Scratch

LEMMA LenOfCells ==
  ASSUME NEW n \in Nat
  PROVE  Cardinality(0 .. n - 1) = n
<1>1. n - 1 \in Int /\ 0 \in Int /\ (0 > n - 1 <=> n = 0)
  OBVIOUS
<1>2. Cardinality(0 .. n - 1) = IF 0 > n - 1 THEN 0 ELSE (n - 1) - 0 + 1
  BY <1>1, FS_Interval
<1> QED
  BY <1>1, <1>2

\* A payload ends where the one of the next site begins, or with the mailboxes.
LEMMA PayloadsFit ==
  /\ Cardinality(MailboxSites) * Embd \in Nat
  /\ \A s \in MailboxSites :
       s * Embd \in Nat /\ s * Embd + Embd <= Cardinality(MailboxSites) * Embd
<1> DEFINE N == Cardinality({k \in DOMAIN SplitInstrs : SplitInstrs[k].kind = "XCHG_REDUCE"})
<1>1. N \in Nat
  <2>1. PICK S : SplitInstrs \in Seq(S)
    BY SplitToBuffers DEF AllToBuffers
  <2> DEFINE s == SplitInstrs
  <2>2. DOMAIN s = 1 .. Len(s) /\ Len(s) \in Nat
    <3> HIDE DEF s
    <3>1. s \in Seq(S)
      BY <2>1 DEF s
    <3> QED
      BY <3>1
  <2>3. IsFiniteSet(DOMAIN s)
    <3> HIDE DEF s
    <3> QED
      BY <2>2, FS_Interval
  <2>4. {k \in DOMAIN SplitInstrs : SplitInstrs[k].kind = "XCHG_REDUCE"} \subseteq DOMAIN s
    OBVIOUS
  <2> QED
    BY <2>3, <2>4, FS_Subset, FS_CardinalityType
<1>2. MailboxSites = 0 .. N - 1
  BY DEF MailboxSites
<1> HIDE DEF N
<1>3. Cardinality(MailboxSites) = N
  BY <1>1, <1>2, LenOfCells
<1>4. Embd \in Nat /\ N * Embd \in Nat
  BY <1>1, ProductIsNat, SplitProgramAssumption
<1>5. ASSUME NEW s \in MailboxSites PROVE s * Embd \in Nat /\ s * Embd + Embd <= N * Embd
  <2>1. s \in Nat /\ s + 1 <= N
    BY <1>1, <1>2
  <2>2. s * Embd \in Nat /\ (s + 1) * Embd = s * Embd + Embd
    BY <1>4, <2>1, SMTT(30)
  <2>3. (s + 1) * Embd <= N * Embd
    BY <1>1, <1>4, <2>1, SMTT(30)
  <2> QED
    BY <2>2, <2>3
<1> QED
  BY <1>3, <1>4, <1>5

\* The cells of what an instruction may store to.
Room(b) == IF b = Payload THEN Cardinality(MailboxSites) * Embd ELSE Cells(b)

Inside(p, len) ==
  \E g \in GPU, b \in Outputs \cup {Payload}, off \in Nat :
    p = Pointer(g, b, off) /\ len \in Nat /\ off + len <= Room(b)

LEMMA RoomIsCells ==
  ASSUME NEW b \in Outputs PROVE Room(b) = Cells(b)
BY BuffersApart DEF Room, Outputs

LEMMA PointerInside ==
  ASSUME NEW g \in GPU, NEW b \in Outputs \cup {Payload}, NEW off \in Nat, NEW len \in Nat,
         off + len <= Room(b)
  PROVE  Inside(Pointer(g, b, off), len)
<1> SUFFICES \E h \in GPU, c \in Outputs \cup {Payload}, o \in Nat :
               /\ Pointer(g, b, off) = Pointer(h, c, o)
               /\ len \in Nat /\ o + len <= Room(c)
  BY DEF Inside
<1> WITNESS g \in GPU, b \in Outputs \cup {Payload}, off \in Nat
<1> QED
  OBVIOUS

\* The operands a bound instruction stores to.
Targets(kind) ==
  CASE kind = "XCHG_PUSH"   -> {"peer_payload"}
    [] kind = "XCHG_REDUCE" -> {"out"}
    [] OTHER                -> Stores(kind)

Aside(ins) ==
  /\ ins.kind \in KindTable
  /\ \A f \in Targets(ins.kind) \cup (DOMAIN ins.p \cap {"write_sum"}) :
       Inside(ins.p[f], Extent(ins.kind, ins.n, f))
  /\ Details(ins.kind, ins.p, ins.n)
  /\ ins.kind = "KV_APPEND" =>
       \E g \in GPU : ins.p.row_idx = Pointer(g, <<0, "kv_row">>, 0)
  /\ ins.kind = "XCHG_REDUCE" => \E g, s : ins.p.peer_seqno = Pointer(g, Seqno, s)

\* The names of the runtime's buffers lead to them.
Buffered(g, r) == \A b \in Bufs : b \in DOMAIN r /\ r[b].ptr = Pointer(g, b, 0)

LEMMA BoundTo ==
  ASSUME NEW g, NEW r, Buffered(g, r), NEW ins, NEW f \in DOMAIN ins.p,
         DeviceName(ins.p[f].name) \in Bufs, ins.p[f].off \in Nat
  PROVE  /\ f \in DOMAIN Bound(ins, r).p
         /\ Bound(ins, r).p[f] = Pointer(g, DeviceName(ins.p[f].name), ins.p[f].off)
<1> DEFINE b == DeviceName(ins.p[f].name)  off == ins.p[f].off
<1>1. r[b].ptr = Pointer(g, b, 0)
  BY DEF Buffered
<1>2. DevF32(r, ins.p[f]) = [Pointer(g, b, 0) EXCEPT !.off = @ + off]
  BY <1>1 DEF DevF32
<1> HIDE DEF b
<1>3. [Pointer(g, b, 0) EXCEPT !.off = @ + off] = Pointer(g, b, 0 + off)
  BY DEF Pointer
<1>4. 0 + off = off
  OBVIOUS
<1>5. f \in DOMAIN Bound(ins, r).p /\ Bound(ins, r).p[f] = DevF32(r, ins.p[f])
  BY DEF Bound, Instr
<1> QED
  BY <1>2, <1>3, <1>4, <1>5 DEF b

LEMMA BoundInside ==
  ASSUME NEW g \in GPU, NEW r, Buffered(g, r), NEW ins, NEW f \in DOMAIN ins.p, NEW len,
         Lands(ins.p[f], len)
  PROVE  f \in DOMAIN Bound(ins, r).p /\ Inside(Bound(ins, r).p[f], len)
<1> DEFINE b == DeviceName(ins.p[f].name)  off == ins.p[f].off
<1>1. b \in Outputs /\ off \in Nat /\ len \in Nat /\ off + len <= Cells(b)
  BY DEF Lands
<1>2. b \in Bufs /\ Room(b) = Cells(b)
  BY <1>1, RoomIsCells DEF Outputs
<1>3. f \in DOMAIN Bound(ins, r).p /\ Bound(ins, r).p[f] = Pointer(g, b, off)
  BY <1>1, <1>2, BoundTo
<1> HIDE DEF b, off
<1> QED
  BY <1>1, <1>2, <1>3, PointerInside

\* The row an append is told of is the cell the host writes it in.
LEMMA BoundRow ==
  ASSUME NEW g, NEW r, Buffered(g, r), NEW ins, "row_idx" \in DOMAIN ins.p,
         ins.p.row_idx = Buf("kv_row")
  PROVE  Bound(ins, r).p.row_idx = Pointer(g, <<0, "kv_row">>, 0)
<1> DEFINE b == <<0, "kv_row">>
<1>1. b \in Bufs
  BY PassCellsAreOne
<1>2. DeviceName(b) = b
  BY DEF DeviceName
<1>3. ins.p["row_idx"].name = b /\ ins.p["row_idx"].off = 0
  BY DEF Buf, At
<1> HIDE DEF b
<1>4. DeviceName(ins.p["row_idx"].name) = b
  BY <1>2, <1>3
<1>5. Bound(ins, r).p["row_idx"] = Pointer(g, b, 0)
  BY <1>1, <1>3, <1>4, BoundTo
<1> QED
  BY <1>5 DEF b

LEMMA BoundAside ==
  ASSUME NEW g \in GPU, Buffered(g, resolver[g]), mtab[g] = << >> \/ mtab[g] = Wired(g),
         NEW ins, ins.kind \in KindTable, EmitsToBuffers(ins),
         ins.kind \in {"XCHG_PUSH", "XCHG_REDUCE"} => PackableOn(g, ins)
  PROVE  Aside(BoundOn(g, ins))
<1> DEFINE b == Bound(ins, resolver[g])  site == ins.n.site
           sinks == Stores(ins.kind) \cup (DOMAIN ins.p \cap {"write_sum"})
<1>1. b.kind = ins.kind /\ b.n = ins.n /\ DOMAIN b.p = DOMAIN ins.p
  BY BoundKeeps DEF Bound, Instr
<1>2. \A f \in sinks : f \in DOMAIN b.p /\ Inside(b.p[f], Extent(ins.kind, ins.n, f))
  <2> SUFFICES ASSUME NEW f \in sinks
               PROVE f \in DOMAIN b.p /\ Inside(b.p[f], Extent(ins.kind, ins.n, f))
    OBVIOUS
  <2>1. f \in DOMAIN ins.p /\ Lands(ins.p[f], Extent(ins.kind, ins.n, f))
    BY DEF EmitsToBuffers
  <2> QED
    BY <2>1, BoundInside
<1>3. BoundOn(g, ins).kind = ins.kind
  BY BoundOnExchanges
<1>4. ASSUME ins.kind \in {"XCHG_PUSH", "XCHG_REDUCE"}
      PROVE  /\ site \in MailboxSites
             /\ mtab[g][site] = [my_payload   |-> Pointer(g, Payload, site * Embd),
                                 my_seqno     |-> Pointer(g, Seqno, site),
                                 peer_payload |-> Pointer(Peer(g), Payload, site * Embd),
                                 peer_seqno   |-> Pointer(Peer(g), Seqno, site)]
  <2>1. "site" \in DOMAIN ins.n /\ site \in DOMAIN mtab[g]
    BY <1>4 DEF PackableOn
  <2>2. mtab[g] = Wired(g)
    <3>1. DOMAIN << >> = {}
      OBVIOUS
    <3> QED
      BY <2>1, <3>1
  <2>3. site \in MailboxSites
    BY <2>1, <2>2 DEF Wired
  <2> HIDE DEF site
  <2> QED
    BY <2>2, <2>3 DEF Wired
<1>5. Peer(g) \in GPU
  BY DEF Peer, GPU
<1>6. Details(ins.kind, ins.p, ins.n)
  BY DEF EmitsToBuffers
<1>7. \A p, n : Details(ins.kind, p, n) <=> Details(ins.kind, ins.p, n)
  BY DEF Details
<1>8. CASE ins.kind = "XCHG_PUSH"
  <2> DEFINE box == [peer_payload |-> mtab[g][site].peer_payload]
  <2>1. BoundOn(g, ins) = Instr(b.kind, box ++ b.p, b.n)
    BY <1>8 DEF BoundOn
  <2>2. \A f : Extent(ins.kind, ins.n, f) = Embd
    BY <1>6, <1>8 DEF Extent, Details
  <2>3. DOMAIN box = {"peer_payload"} /\ Inside(box.peer_payload, Embd)
    <3>1. box.peer_payload = Pointer(Peer(g), Payload, site * Embd)
      BY <1>4, <1>8
    <3>2. site \in MailboxSites
      BY <1>4, <1>8
    <3> HIDE DEF site
    <3>3. DOMAIN box = {"peer_payload"}
      OBVIOUS
    <3> HIDE DEF box
    <3>4. site * Embd \in Nat /\ site * Embd + Embd <= Room(Payload) /\ Embd \in Nat
      BY <3>2, PayloadsFit, SplitProgramAssumption DEF Room
    <3> QED
      BY <1>5, <3>1, <3>3, <3>4, PointerInside
  <2>4. Targets(ins.kind) = {"peer_payload"}
    BY <1>8 DEF Targets
  <2> HIDE DEF box, b
  <2>5. \A f \in DOMAIN (box ++ b.p) :
          (box ++ b.p)[f] = IF f \in DOMAIN box THEN box[f] ELSE b.p[f]
    BY DEF ++
  <2>6. DOMAIN (box ++ b.p) = DOMAIN box \cup DOMAIN b.p
    BY DEF ++
  <2>7. BoundOn(g, ins).p = box ++ b.p /\ BoundOn(g, ins).n = ins.n
    BY <1>1, <2>1 DEF Instr
  <2>8. \A f \in {"peer_payload"} \cup (DOMAIN (box ++ b.p) \cap {"write_sum"}) :
          Inside((box ++ b.p)[f], Extent(ins.kind, ins.n, f))
    BY <1>1, <1>2, <2>2, <2>3, <2>5, <2>6
  <2>9. Details(ins.kind, box ++ b.p, ins.n)
    BY <1>6, <1>7
  <2> QED
    BY <1>3, <1>8, <2>4, <2>7, <2>8, <2>9 DEF Aside
<1>9. CASE ins.kind = "XCHG_REDUCE"
  <2> DEFINE box == mtab[g][site]  seqno == [seqno |-> 0]  n == seqno ++ b.n
  <2>1. BoundOn(g, ins) = Instr(b.kind, box ++ b.p, n)
    BY <1>9 DEF BoundOn
  <2>2. /\ DOMAIN box = {"my_payload", "my_seqno", "peer_payload", "peer_seqno"}
        /\ box.peer_seqno = Pointer(Peer(g), Seqno, site)
    BY <1>4, <1>9
  <2>3. Targets(ins.kind) = {"out"} /\ Stores(ins.kind) = {"out"}
    BY <1>9 DEF Targets, Stores, Sinks
  <2>4. "n_elems" \in DOMAIN n /\ n.n_elems = Embd /\ ins.n.n_elems = Embd
    <3>1. "n_elems" \notin DOMAIN seqno
      OBVIOUS
    <3>2. "n_elems" \in DOMAIN b.n /\ b.n.n_elems = Embd
      BY <1>1, <1>6, <1>9 DEF Details
    <3> HIDE DEF seqno, b
    <3> QED
      BY <1>6, <1>9, <3>1, <3>2, Overridden DEF Details
  <2> HIDE DEF box, b, seqno, n
  <2>5. \A f \in DOMAIN (box ++ b.p) :
          (box ++ b.p)[f] = IF f \in DOMAIN box THEN box[f] ELSE b.p[f]
    BY DEF ++
  <2>6. DOMAIN (box ++ b.p) = DOMAIN box \cup DOMAIN b.p
    BY DEF ++
  <2>7. BoundOn(g, ins).p = box ++ b.p /\ BoundOn(g, ins).n = n
    BY <2>1 DEF Instr
  <2>8. \A f : Extent(ins.kind, n, f) = Embd /\ Extent(ins.kind, ins.n, f) = Embd
    BY <1>9, <2>4 DEF Extent
  <2>9. \A f \in {"out"} \cup (DOMAIN (box ++ b.p) \cap {"write_sum"}) :
          Inside((box ++ b.p)[f], Extent(ins.kind, n, f))
    BY <1>1, <1>2, <2>2, <2>3, <2>5, <2>6, <2>8
  <2>10. Details(ins.kind, box ++ b.p, n)
    BY <1>9, <2>4 DEF Details
  <2>11. (box ++ b.p).peer_seqno = Pointer(Peer(g), Seqno, site)
    BY <2>2, <2>5, <2>6
  <2> QED
    BY <1>3, <1>5, <1>9, <2>3, <2>7, <2>9, <2>10, <2>11 DEF Aside
<1>10. CASE ins.kind \notin {"XCHG_PUSH", "XCHG_REDUCE"}
  <2>1. BoundOn(g, ins) = b
    BY <1>10 DEF BoundOn
  <2>2. Targets(ins.kind) = Stores(ins.kind)
    BY <1>10 DEF Targets
  <2>3. ASSUME ins.kind = "KV_APPEND" PROVE b.p.row_idx = Pointer(g, <<0, "kv_row">>, 0)
    BY <2>3, BoundRow DEF EmitsToBuffers
  <2>4. Details(ins.kind, b.p, ins.n)
    BY <1>6, <1>7
  <2> HIDE DEF b
  <2> QED
    BY <1>1, <1>2, <1>10, <2>1, <2>2, <2>3, <2>4 DEF Aside
<1> QED
  BY <1>8, <1>9, <1>10

\* A write to the cells S from p on.
Covers(w, p, S) == w.to = p /\ DOMAIN w.val = S

\* A write within a buffer.
Contained(w) ==
  \E g \in GPU, b \in Outputs \cup {Payload}, off \in Nat :
    /\ w.to = Pointer(g, b, off)
    /\ \A i \in DOMAIN w.val : i \in Nat /\ off + i < Room(b)

LEMMA WrittenInside ==
  ASSUME NEW p, NEW len, Inside(p, len), NEW w,
         Covers(w, p, 0 .. len - 1)
  PROVE  Contained(w)
<1>1. PICK g \in GPU, b \in Outputs \cup {Payload}, off \in Nat :
        p = Pointer(g, b, off) /\ len \in Nat /\ off + len <= Room(b)
  BY DEF Inside
<1>2. Room(b) \in Nat
  <2>1. CASE b = Payload
    BY <2>1, PayloadsFit DEF Room
  <2>2. CASE b # Payload
    BY <2>2, CellsAreNat DEF Room, Outputs
  <2> QED
    BY <2>1, <2>2
<1>3. w.to = p /\ \A i \in DOMAIN w.val : i \in Nat /\ off + i < Room(b)
  BY <1>1, <1>2 DEF Covers
<1> QED
  BY <1>1, <1>3 DEF Contained

\* An append writes a row of its cache.
LEMMA AppendInside ==
  ASSUME NEW p, NEW width \in Nat, Inside(p, NCtx * width), NEW row \in 0 .. NCtx - 1,
         NEW w, Covers(w, [p EXCEPT !.off = @ + row * width], 0 .. width - 1)
  PROVE  Contained(w)
<1>1. PICK g \in GPU, b \in Outputs \cup {Payload}, off \in Nat :
        /\ p = Pointer(g, b, off) /\ NCtx * width \in Nat /\ off + NCtx * width <= Room(b)
  BY DEF Inside
<1>2. NCtx \in Nat /\ row \in Nat /\ row + 1 <= NCtx
  BY PackerAssumption
<1>3. row * width \in Nat /\ (row + 1) * width = row * width + width
  BY <1>2, SMTT(30)
<1>4. (row + 1) * width <= NCtx * width
  BY <1>2, SMTT(30)
<1> DEFINE to == off + row * width
<1>5. to \in Nat /\ to + width <= off + NCtx * width
  BY <1>1, <1>3, <1>4
<1>6. [p EXCEPT !.off = @ + row * width] = Pointer(g, b, to)
  <2> DEFINE d == row * width
  <2>1. p = [gpu |-> g, buf |-> b, off |-> off]
    BY <1>1 DEF Pointer
  <2> HIDE DEF d
  <2>2. [p EXCEPT !.off = @ + d] = [gpu |-> g, buf |-> b, off |-> off + d]
    BY <2>1
  <2> QED
    BY <2>2 DEF Pointer, d
<1>7. Room(b) \in Nat
  <2>1. CASE b = Payload
    BY <2>1, PayloadsFit DEF Room
  <2>2. CASE b # Payload
    BY <2>2, CellsAreNat DEF Room, Outputs
  <2> QED
    BY <2>1, <2>2
<1> HIDE DEF to
<1>8. Inside(Pointer(g, b, to), width)
  <2> DEFINE end == NCtx * width
  <2>1. end \in Nat /\ to + width <= off + end /\ off + end <= Room(b)
    BY <1>1, <1>5
  <2> HIDE DEF end
  <2>2. to + width <= Room(b)
    BY <1>5, <1>7, <2>1
  <2> QED
    BY <1>5, <2>2, PointerInside
<1> QED
  BY <1>6, <1>8, WrittenInside

\* An executed instruction writes within its targets, and an append a row of its cache.
LEMMA ExecuteLands ==
  ASSUME NEW m, NEW ins, Aside(ins),
         ins.kind = "KV_APPEND" => Load(m, ins.p.row_idx, 0) \in 0 .. NCtx - 1,
         NEW w \in Execute(m, ins)
  PROVE  Contained(w)
<1> DEFINE k == ins.kind  p == ins.p  n == ins.n
<1>1. \A f \in Targets(k) \cup (DOMAIN p \cap {"write_sum"}) : Inside(p[f], Extent(k, n, f))
  BY DEF Aside
<1>2. k \in KindTable /\ Details(k, p, n)
  BY DEF Aside
<1>3. CASE k = "EMBED_LOOKUP"
  <2>1. Execute(m, ins) = EmbedLookup(m, p, n)
    BY <1>3 DEF Execute
  <2>2. Covers(w, p.dst, 0 .. n.n_embd - 1)
    BY <2>1 DEF EmbedLookup, Covers, Write
  <2>3. Targets(k) = {"dst"} /\ Extent(k, n, "dst") = n.n_embd
    BY <1>3 DEF Targets, Stores, Sinks, Extent
  <2> QED
    BY <1>1, <2>2, <2>3, WrittenInside
<1>4. CASE k = "RMSNORM"
  <2> DEFINE sum == [i \in 0 .. n.width-1 |->
                       IF "add_src" \in DOMAIN p
                       THEN <<"add", Load(m, p.src, i), Load(m, p.add_src, i)>>
                       ELSE Load(m, p.src, i)]
             val == [i \in 0 .. n.width-1 |-> <<"rmsnorm", sum, i, Load(m, p.weight, i)>>]
  <2>1. Execute(m, ins) = Rmsnorm(m, p, n)
    BY <1>4 DEF Execute
  <2>2. Rmsnorm(m, p, n) = {Write(p.dst, val)}
                              \cup {Write(p[f], sum) : f \in DOMAIN p \cap {"write_sum"}}
    BY Zenon DEF Rmsnorm
  <2>3. DOMAIN sum = 0 .. n.width - 1 /\ DOMAIN val = 0 .. n.width - 1
    OBVIOUS
  <2> HIDE DEF sum, val
  <2>4. \/ Covers(w, p["dst"], 0 .. n.width - 1)
        \/ \E f \in DOMAIN p \cap {"write_sum"} : Covers(w, p[f], 0 .. n.width - 1)
    BY <2>1, <2>2, <2>3 DEF Covers, Write
  <2>5. Targets(k) = {"dst"} /\ \A f : Extent(k, n, f) = n.width
    BY <1>4 DEF Targets, Stores, Sinks, Extent
  <2> QED
    BY <1>1, <2>4, <2>5, WrittenInside
<1>5. CASE k = "QUANT_Q8_1"
  <2>1. Execute(m, ins) = QuantQ81(m, p, n)
    BY <1>5 DEF Execute
  <2>2. Covers(w, p.dst, 0 .. n.elems - 1)
    BY <2>1 DEF QuantQ81, Covers, Write
  <2>3. Targets(k) = {"dst"} /\ Extent(k, n, "dst") = n.elems
    BY <1>5 DEF Targets, Stores, Sinks, Extent
  <2> QED
    BY <1>1, <2>2, <2>3, WrittenInside
<1>6. CASE k = "MMVQ"
  <2>1. Execute(m, ins) = Mmvq(m, p, n)
    BY <1>6 DEF Execute
  <2>2. Covers(w, p.dst, n.row_lo .. n.row_hi - 1)
    BY <2>1 DEF Mmvq, Covers, Write
  <2>3. Targets(k) = {"dst"} /\ Extent(k, n, "dst") = n.row_hi
    BY <1>6 DEF Targets, Stores, Sinks, Extent
  <2>4. n.row_lo = 0
    BY <1>2, <1>6 DEF Details
  <2> QED
    BY <1>1, <2>2, <2>3, <2>4, WrittenInside
<1>7. CASE k = "MMVQ_FUSED"
  <2>1. Execute(m, ins) = MmvqFused(m, p, n)
    BY <1>7 DEF Execute
  <2>2. Covers(w, p.dst, n.row_lo .. n.row_hi - 1)
    BY <2>1 DEF MmvqFused, Covers, Write
  <2>3. Targets(k) = {"dst"} /\ Extent(k, n, "dst") = n.row_hi
    BY <1>7 DEF Targets, Stores, Sinks, Extent
  <2>4. n.row_lo = 0
    BY <1>2, <1>7 DEF Details
  <2> QED
    BY <1>1, <2>2, <2>3, <2>4, WrittenInside
<1>8. CASE k = "GEMV_F16"
  <2>1. Execute(m, ins) = GemvF16(m, p, n)
    BY <1>8 DEF Execute
  <2>2. Covers(w, p.dst, n.row_lo .. n.row_hi - 1)
    BY <2>1 DEF GemvF16, Mmvq, Covers, Write
  <2>3. Targets(k) = {"dst"} /\ Extent(k, n, "dst") = n.row_hi
    BY <1>8 DEF Targets, Stores, Sinks, Extent
  <2>4. n.row_lo = 0
    BY <1>2, <1>8 DEF Details
  <2> QED
    BY <1>1, <2>2, <2>3, <2>4, WrittenInside
<1>9. CASE k = "STATE_LOAD"
  <2>1. Execute(m, ins) = StateCopy(m, p, n)
    BY <1>9 DEF Execute
  <2>2. Covers(w, p.dst, 0 .. n.elems - 1)
    BY <2>1 DEF StateCopy, Vector, Covers, Write
  <2>3. Targets(k) = {"dst"} /\ Extent(k, n, "dst") = n.elems
    BY <1>9 DEF Targets, Stores, Sinks, Extent
  <2> QED
    BY <1>1, <2>2, <2>3, WrittenInside
<1>10. CASE k = "STATE_STORE"
  <2>1. Execute(m, ins) = StateCopy(m, p, n)
    BY <1>10 DEF Execute
  <2>2. Covers(w, p.dst, 0 .. n.elems - 1)
    BY <2>1 DEF StateCopy, Vector, Covers, Write
  <2>3. Targets(k) = {"dst"} /\ Extent(k, n, "dst") = n.elems
    BY <1>10 DEF Targets, Stores, Sinks, Extent
  <2> QED
    BY <1>1, <2>2, <2>3, WrittenInside
<1>11. CASE k = "CONV_SHIFT_CONCAT"
  <2>1. Execute(m, ins) = ConvShiftConcat(m, p, n)
    BY <1>11 DEF Execute
  <2>2. \/ Covers(w, p.win, 0 .. n.channels * DConv - 1)
        \/ Covers(w, p.state, 0 .. n.channels * (DConv - 1) - 1)
    BY <2>1 DEF ConvShiftConcat, Covers, Write
  <2>3. /\ Targets(k) = {"win", "state"}
        /\ Extent(k, n, "win") = n.channels * DConv
        /\ Extent(k, n, "state") = n.channels * (DConv - 1)
    BY <1>11 DEF Targets, Stores, Sinks, Extent
  <2> QED
    BY <1>1, <2>2, <2>3, WrittenInside
<1>12. CASE k = "SSM_CONV_SILU"
  <2>1. Execute(m, ins) = SsmConvSilu(m, p, n)
    BY <1>12 DEF Execute
  <2>2. Covers(w, p.dst, 0 .. n.channels - 1)
    BY <2>1 DEF SsmConvSilu, Covers, Write
  <2>3. Targets(k) = {"dst"} /\ Extent(k, n, "dst") = n.channels
    BY <1>12 DEF Targets, Stores, Sinks, Extent
  <2> QED
    BY <1>1, <2>2, <2>3, WrittenInside
<1>13. CASE k = "QK_L2NORM"
  <2>1. Execute(m, ins) = QkL2norm(m, p, n)
    BY <1>13 DEF Execute
  <2>2. Covers(w, p.buf, 0 .. n.n_heads * HeadDim - 1)
    BY <2>1 DEF QkL2norm, Covers, Write
  <2>3. Targets(k) = {"buf"} /\ Extent(k, n, "buf") = n.n_heads * HeadDim
    BY <1>13 DEF Targets, Stores, Sinks, Extent
  <2> QED
    BY <1>1, <2>2, <2>3, WrittenInside
<1>14. CASE k = "GDN_GATES"
  <2>1. Execute(m, ins) = GdnGates(m, p, n)
    BY <1>14 DEF Execute
  <2>2. \/ Covers(w, p.g_dst, 0 .. n.heads - 1)
        \/ Covers(w, p.beta_dst, 0 .. n.heads - 1)
    BY <2>1 DEF GdnGates, Covers, Write
  <2>3. /\ Targets(k) = {"g_dst", "beta_dst"}
        /\ Extent(k, n, "g_dst") = n.heads
        /\ Extent(k, n, "beta_dst") = n.heads
    BY <1>14 DEF Targets, Stores, Sinks, Extent
  <2> QED
    BY <1>1, <2>2, <2>3, WrittenInside
<1>15. CASE k = "GDN_STEP"
  <2>1. Execute(m, ins) = GdnStep(m, p, n)
    BY <1>15 DEF Execute
  <2>2. \/ Covers(w, p.state, 0 .. n.v_heads * HeadDim - 1)
        \/ Covers(w, p.dst, 0 .. n.v_heads * HeadDim - 1)
    BY <2>1 DEF GdnStep, Covers, Write
  <2>3. /\ Targets(k) = {"state", "dst"}
        /\ Extent(k, n, "state") = n.v_heads * HeadDim
        /\ Extent(k, n, "dst") = n.v_heads * HeadDim
    BY <1>15 DEF Targets, Stores, Sinks, Extent
  <2> QED
    BY <1>1, <2>2, <2>3, WrittenInside
<1>16. CASE k = "GATED_RMSNORM"
  <2>1. Execute(m, ins) = GatedRmsnorm(m, p, n)
    BY <1>16 DEF Execute
  <2>2. Covers(w, p.dst, 0 .. n.heads * HeadDim - 1)
    BY <2>1 DEF GatedRmsnorm, Covers, Write
  <2>3. Targets(k) = {"dst"} /\ Extent(k, n, "dst") = n.heads * HeadDim
    BY <1>16 DEF Targets, Stores, Sinks, Extent
  <2> QED
    BY <1>1, <2>2, <2>3, WrittenInside
<1>17. CASE k = "QK_NORM_ROPE"
  <2>1. Execute(m, ins) = QkNormRope(m, p, n)
    BY <1>17 DEF Execute
  <2>2. Covers(w, p.dst, 0 .. n.n_heads * AttnHeadDim - 1)
    BY <2>1 DEF QkNormRope, Covers, Write
  <2>3. Targets(k) = {"dst"} /\ Extent(k, n, "dst") = n.n_heads * AttnHeadDim
    BY <1>17 DEF Targets, Stores, Sinks, Extent
  <2> QED
    BY <1>1, <2>2, <2>3, WrittenInside
<1>18. CASE k = "KV_APPEND"
  <2> DEFINE row == Load(m, p.row_idx, 0)
  <2>1. Execute(m, ins) = KvAppend(m, p, n)
    BY <1>18 DEF Execute
  <2>2. Covers(w, [p.cache EXCEPT !.off = @ + row * n.row_width], 0 .. n.row_width - 1)
    BY <2>1 DEF KvAppend, Covers, Write
  <2>3. Targets(k) = {"cache"} /\ Extent(k, n, "cache") = NCtx * n.row_width
    BY <1>18 DEF Targets, Stores, Extent
  <2>4. n.row_width \in Nat /\ row \in 0 .. NCtx - 1
    BY <1>2, <1>18 DEF Details
  <2> HIDE DEF row
  <2> QED
    BY <1>1, <2>2, <2>3, <2>4, AppendInside
<1>19. CASE k = "FATTN_DECODE"
  <2>1. Execute(m, ins) = FattnDecode(m, p, n)
    BY <1>19 DEF Execute
  <2>2. Covers(w, p.partials, 0 .. n.q_heads - 1)
    BY <2>1 DEF FattnDecode, Covers, Write
  <2>3. Targets(k) = {"partials"} /\ Extent(k, n, "partials") = n.q_heads
    BY <1>19 DEF Targets, Stores, Sinks, Extent
  <2> QED
    BY <1>1, <2>2, <2>3, WrittenInside
<1>20. CASE k = "FATTN_REDUCE"
  <2>1. Execute(m, ins) = FattnReduce(m, p, n)
    BY <1>20 DEF Execute
  <2>2. Covers(w, p.dst, 0 .. n.q_heads * AttnHeadDim - 1)
    BY <2>1 DEF FattnReduce, Covers, Write
  <2>3. Targets(k) = {"dst"} /\ Extent(k, n, "dst") = n.q_heads * AttnHeadDim
    BY <1>20 DEF Targets, Stores, Sinks, Extent
  <2> QED
    BY <1>1, <2>2, <2>3, WrittenInside
<1>21. CASE k = "ATTN_GATE"
  <2>1. Execute(m, ins) = AttnGate(m, p, n)
    BY <1>21 DEF Execute
  <2>2. Covers(w, p.dst, 0 .. n.heads * AttnHeadDim - 1)
    BY <2>1 DEF AttnGate, Covers, Write
  <2>3. Targets(k) = {"dst"} /\ Extent(k, n, "dst") = n.heads * AttnHeadDim
    BY <1>21 DEF Targets, Stores, Sinks, Extent
  <2> QED
    BY <1>1, <2>2, <2>3, WrittenInside
<1>22. CASE k = "LOGITS_EMIT"
  <2>1. Execute(m, ins) = LogitsEmit(m, p, n)
    BY <1>22 DEF Execute
  <2>2. Covers(w, p.dst, 0 .. n.elems - 1)
    BY <2>1 DEF LogitsEmit, Vector, Covers, Write
  <2>3. Targets(k) = {"dst"} /\ Extent(k, n, "dst") = n.elems
    BY <1>22 DEF Targets, Stores, Sinks, Extent
  <2> QED
    BY <1>1, <2>2, <2>3, WrittenInside
<1>23. CASE k = "XCHG_PUSH"
  <2>1. Execute(m, ins) = XchgPush(m, p, n)
    BY <1>23 DEF Execute
  <2>2. Covers(w, p.peer_payload, 0 .. n.n_elems - 1)
    BY <2>1 DEF XchgPush, Vector, Covers, Write
  <2>3. Targets(k) = {"peer_payload"} /\ Extent(k, n, "peer_payload") = n.n_elems
    BY <1>23 DEF Targets, Stores, Sinks, Extent
  <2> QED
    BY <1>1, <2>2, <2>3, WrittenInside
<1>24. CASE k = "XCHG_REDUCE"
  <2>1. Execute(m, ins) = XchgFold(m, p, n)
    BY <1>24 DEF Execute
  <2>2. Covers(w, p.out, 0 .. n.n_elems - 1)
    BY <2>1 DEF XchgFold, Covers, Write
  <2>3. Targets(k) = {"out"} /\ Extent(k, n, "out") = n.n_elems
    BY <1>24 DEF Targets, Stores, Sinks, Extent
  <2> QED
    BY <1>1, <2>2, <2>3, WrittenInside
<1> QED
  BY <1>2, <1>3, <1>4, <1>5, <1>6, <1>7, <1>8, <1>9, <1>10, <1>11, <1>12, <1>13, <1>14, <1>15,
     <1>16, <1>17, <1>18, <1>19, <1>20, <1>21, <1>22, <1>23, <1>24 DEF KindTable

(***************************************************************************)
(* Slices and the arena they fill.                                         *)
(***************************************************************************)
TensorSet == [name : Nat \X STRING, type : STRING, ne : Nat \X Nat]

LEMMA PeriodIsNat ==
  ASSUME NEW name, DnStride(name).dim # "none"
  PROVE  DnStride(name).period \in Nat \ {0} /\ DnStride(name).period \div 2 \in Nat
<1>1. PICK half \in Nat \ {0} : DnStride(name).period = 2 * half
  BY EvenPeriod
<1>2. 2 * half \in Nat \ {0} /\ (2 * half) \div 2 = half
  OBVIOUS
<1> QED
  BY <1>1, <1>2

LEMMA SliceDomain ==
  ASSUME NEW t \in TensorSet, NEW g
  PROVE  \E n \in Nat : DOMAIN WeightSlice(t, g) = 0 .. n - 1
<1> DEFINE s == DnStride(t.name)  a == t.ne[1]  b == t.ne[2]  p == s.period
<1>1. a \in Nat /\ b \in Nat /\ Units(t) = a * b
  BY DEF TensorSet, Units
<1>2. Units(t) \in Nat /\ Units(t) \div 2 \in Nat /\ a \div 2 \in Nat
  BY <1>1, ProductIsNat, QuotientIsNat
<1>3. ASSUME s.dim # "none"
      PROVE  /\ ((b \div p) * (p \div 2)) * a \in Nat
             /\ (a \div p) * (p \div 2) \in Nat
             /\ b * ((a \div p) * (p \div 2)) \in Nat
  <2>1. p \in Nat \ {0} /\ p \div 2 \in Nat
    BY <1>3, PeriodIsNat
  <2>2. a \div p \in Nat /\ b \div p \in Nat
    BY <1>1, <2>1, QuotientIsNat
  <2> HIDE DEF a, b, p
  <2> QED
    BY <1>1, <2>1, <2>2, ProductIsNat
<1>4. CASE s.dim = "row"
  <2>1. WeightSlice(t, g) = StridedRows(t, p, g)
    BY <1>4 DEF WeightSlice
  <2>2. DOMAIN StridedRows(t, p, g) = 0 .. ((b \div p) * (p \div 2)) * a - 1
    BY DEF StridedRows
  <2> HIDE DEF a, b, p, s
  <2> QED
    BY <1>3, <1>4, <2>1, <2>2
<1>5. CASE s.dim = "row1d"
  <2>1. WeightSlice(t, g) = StridedVector(t, p, g)
    BY <1>5 DEF WeightSlice
  <2>2. DOMAIN StridedVector(t, p, g) = 0 .. (a \div p) * (p \div 2) - 1
    BY DEF StridedVector
  <2> HIDE DEF a, b, p, s
  <2> QED
    BY <1>3, <1>5, <2>1, <2>2
<1>6. CASE s.dim = "col"
  <2>1. WeightSlice(t, g) = StridedColumns(t, p, g)
    BY <1>6 DEF WeightSlice
  <2>2. DOMAIN StridedColumns(t, p, g) = 0 .. b * ((a \div p) * (p \div 2)) - 1
    BY DEF StridedColumns
  <2> HIDE DEF a, b, p, s
  <2> QED
    BY <1>3, <1>6, <2>1, <2>2
<1>7. CASE s.dim = "none"
  <2>1. CASE WeightAxis(t.name) = "mirror"
    <3>1. WeightSlice(t, g) = Mirror(t)
      BY <1>7, <2>1 DEF WeightSlice
    <3>2. DOMAIN Mirror(t) = 0 .. Units(t) - 1
      BY DEF Mirror
    <3> QED
      BY <1>2, <3>1, <3>2
  <2>2. CASE WeightAxis(t.name) = "row"
    <3>1. WeightSlice(t, g) = HalfOfRows(t, g)
      BY <1>7, <2>2 DEF WeightSlice
    <3>2. DOMAIN HalfOfRows(t, g) = 0 .. (Units(t) \div 2) - 1
      BY DEF HalfOfRows
    <3> QED
      BY <1>2, <3>1, <3>2
  <2>3. CASE WeightAxis(t.name) = "col"
    <3>1. WeightSlice(t, g) = HalfOfColumns(t, g)
      BY <1>7, <2>3 DEF WeightSlice
    <3>2. DOMAIN HalfOfColumns(t, g) = 0 .. b * (a \div 2) - 1
      BY DEF HalfOfColumns
    <3>3. b * (a \div 2) \in Nat
      <4> HIDE DEF a, b
      <4> QED
        BY <1>1, <1>2, ProductIsNat
    <3> QED
      BY <3>1, <3>2, <3>3
  <2> QED
    BY <2>1, <2>2, <2>3, DnStrideDims
<1> QED
  BY <1>4, <1>5, <1>6, <1>7, DnStrideDims

LEMMA SliceLenIsNat ==
  ASSUME NEW t \in TensorSet, NEW g
  PROVE  SliceLen(t, g) \in Nat /\ DOMAIN WeightSlice(t, g) = 0 .. SliceLen(t, g) - 1
<1>1. PICK n \in Nat : DOMAIN WeightSlice(t, g) = 0 .. n - 1
  BY SliceDomain
<1>2. Cardinality(0 .. n - 1) = n
  <2>1. n - 1 \in Int /\ 0 \in Int /\ (0 > n - 1 <=> n = 0)
    BY <1>1
  <2>2. Cardinality(0 .. n - 1) = IF 0 > n - 1 THEN 0 ELSE (n - 1) - 0 + 1
    BY <2>1, FS_Interval
  <2> QED
    BY <2>1, <2>2
<1> QED
  BY <1>1, <1>2 DEF SliceLen

\* A stride holds what it is made for and ends where the next slice may begin.
LEMMA StrideHolds ==
  ASSUME NEW n \in Nat
  PROVE  Stride(n) \in Nat /\ n <= Stride(n) /\ Stride(n) % Align = 0
<1> DEFINE m == n + Align - 1  q == m \div Align
<1>1. Align \in Nat \ {0} /\ m \in Nat
  BY TensorParallelAssumption
<1>2. q \in Nat /\ m % Align \in 0 .. Align - 1 /\ m = Align * q + (m % Align)
  BY <1>1, DivDef
<1>3. Stride(n) = q * Align
  BY DEF Stride, PadUp
<1> HIDE DEF q
<1>4. q * Align = Align * q /\ Align * q \in Nat
  BY <1>1, <1>2, SMTT(30)
<1>5. n <= Align * q
  BY <1>1, <1>2, <1>4 DEF m
<1>6. (Align * q + 0) % Align = 0
  <2>1. 0 \in 0 .. Align - 1
    BY <1>1
  <2> QED
    BY <1>1, <1>2, <2>1, DivUnique
<1> QED
  BY <1>3, <1>4, <1>5, <1>6

LEMMA AlignedSum ==
  ASSUME NEW m \in Nat, NEW n \in Nat, m % Align = 0, n % Align = 0
  PROVE  (m + n) % Align = 0
<1>1. Align \in Nat \ {0}
  BY TensorParallelAssumption
<1> DEFINE p == m \div Align  q == n \div Align
<1>2. p \in Nat /\ q \in Nat /\ m = Align * p + (m % Align) /\ n = Align * q + (n % Align)
  BY <1>1, DivDef
<1> HIDE DEF p, q
<1>3. Align * p \in Nat /\ Align * q \in Nat /\ Align * (p + q) = Align * p + Align * q
  BY <1>1, <1>2, SMTT(30)
<1>4. m + n = Align * (p + q) + 0
  BY <1>2, <1>3
<1>5. (Align * (p + q) + 0) % Align = 0
  <2>1. p + q \in Nat /\ 0 \in 0 .. Align - 1
    BY <1>1, <1>2
  <2> QED
    BY <1>1, <2>1, DivUnique
<1> QED
  BY <1>4, <1>5

\* The tensors of f from the i-th on that are uploaded, and what they take of the arena.
Rest(f, i) == {k \in DOMAIN f : k >= i /\ ~ Skipped(f[k])}
Strides(f, g) == [k \in DOMAIN f |-> Stride(SliceLen(f[k], g))]

ArenaAdds(h, f, g, S) ==
  h = [s \in SUBSET S |->
         IF s = {} THEN 0 ELSE Stride(SliceLen(f[FirstOf(s)], g)) + h[s \ {FirstOf(s)}]]

LEMMA ArenaIsChosen ==
  ASSUME NEW f, NEW g, NEW S, S = {k \in DOMAIN f : ~ Skipped(f[k])}
  PROVE  ArenaLen(f, g) = (CHOOSE h : ArenaAdds(h, f, g, S))[S]
BY DEF ArenaLen, MapThenSumSet, MapThenFoldSet, ArenaAdds, FirstOf

LEMMA ArenaIsSum ==
  ASSUME NEW f, NEW g, IsFiniteSet(DOMAIN f)
  PROVE  ArenaLen(f, g) = SumOf(Strides(f, g), {k \in DOMAIN f : ~ Skipped(f[k])})
<1> DEFINE S == {k \in DOMAIN f : ~ Skipped(f[k])}
           e == Strides(f, g)
           c == CHOOSE h : ArenaAdds(h, f, g, S)
<1>0. IsFiniteSet(S) /\ S \subseteq DOMAIN f
  BY FS_Subset
<1>1. ASSUME NEW h, NEW s \in SUBSET S
      PROVE  StepOf(e, h, s)
               = IF s = {} THEN 0 ELSE Stride(SliceLen(f[FirstOf(s)], g)) + h[s \ {FirstOf(s)}]
  <2>1. CASE s = {}
    BY <2>1 DEF StepOf
  <2>2. CASE s # {}
    <3>1. FirstOf(s) \in DOMAIN f
      BY <2>2, <1>0, FirstIn
    <3>2. e[FirstOf(s)] = Stride(SliceLen(f[FirstOf(s)], g))
      BY <3>1 DEF Strides
    <3> HIDE DEF e
    <3> QED
      BY <2>2, <3>2 DEF StepOf
  <2> QED
    BY <2>1, <2>2
<1> HIDE DEF e
<1>2. \A h : Adds(h, e, S) <=> ArenaAdds(h, f, g, S)
  <2> HIDE DEF S
  <2> QED
    BY <1>1 DEF Adds, ArenaAdds
<1>3. ArenaAdds(c, f, g, S)
  <2>1. \E h : ArenaAdds(h, f, g, S)
    BY <1>0, <1>2, AddsExists
  <2> QED
    BY <2>1
<1>4. ArenaLen(f, g) = c[S]
  BY ArenaIsChosen
<1> HIDE DEF c, S
<1>5. SumOf(e, S) = c[S]
  BY <1>0, <1>2, <1>3, SumOfAdds
<1> QED
  BY <1>4, <1>5 DEF S, e

LEMMA StridesAreNat ==
  ASSUME NEW f \in Seq(TensorSet), NEW g
  PROVE  /\ IsFiniteSet(DOMAIN f)
         /\ \A k \in DOMAIN f : Strides(f, g)[k] \in Nat
         /\ \A k \in DOMAIN f : Strides(f, g)[k] = Stride(SliceLen(f[k], g))
         /\ \A i : IsFiniteSet(Rest(f, i)) /\ SumOf(Strides(f, g), Rest(f, i)) \in Nat
<1>1. DOMAIN f = 1 .. Len(f) /\ Len(f) \in Nat /\ \A k \in DOMAIN f : f[k] \in TensorSet
  OBVIOUS
<1>2. IsFiniteSet(DOMAIN f)
  BY <1>1, FS_Interval
<1>3. \A k \in DOMAIN f : /\ Strides(f, g)[k] = Stride(SliceLen(f[k], g))
                          /\ Strides(f, g)[k] \in Nat
  BY <1>1, SliceLenIsNat, StrideHolds DEF Strides
<1>4. ASSUME NEW i PROVE IsFiniteSet(Rest(f, i)) /\ SumOf(Strides(f, g), Rest(f, i)) \in Nat
  <2>1. Rest(f, i) \subseteq DOMAIN f
    BY DEF Rest
  <2>2. IsFiniteSet(Rest(f, i))
    BY <1>2, <2>1, FS_Subset
  <2> QED
    BY <1>3, <2>1, <2>2, SumNat
<1> QED
  BY <1>2, <1>3, <1>4

LEMMA ArenaOfRest ==
  ASSUME NEW f \in Seq(TensorSet), NEW g
  PROVE  ArenaLen(f, g) = SumOf(Strides(f, g), Rest(f, 1)) /\ ArenaLen(f, g) \in Nat
<1>1. Rest(f, 1) = {k \in DOMAIN f : ~ Skipped(f[k])}
  BY DEF Rest
<1> QED
  BY <1>1, StridesAreNat, ArenaIsSum

\* What is left when the i-th tensor has been uploaded.
LEMMA RestNext ==
  ASSUME NEW f \in Seq(TensorSet), NEW g, NEW i \in DOMAIN f
  PROVE  /\ Skipped(f[i]) => Rest(f, i) = Rest(f, i + 1)
         /\ ~ Skipped(f[i]) =>
              SumOf(Strides(f, g), Rest(f, i))
                = Stride(SliceLen(f[i], g)) + SumOf(Strides(f, g), Rest(f, i + 1))
<1>1. DOMAIN f = 1 .. Len(f)
  OBVIOUS
<1>2. ASSUME Skipped(f[i]) PROVE Rest(f, i) = Rest(f, i + 1)
  <2>1. \A k \in DOMAIN f : k >= i /\ ~ Skipped(f[k]) <=> k >= i + 1 /\ ~ Skipped(f[k])
    <3>1. \A k \in DOMAIN f : k >= i <=> k >= i + 1 \/ k = i
      BY <1>1
    <3> QED
      BY <1>2, <3>1
  <2> QED
    BY <2>1 DEF Rest
<1>3. ASSUME ~ Skipped(f[i])
      PROVE  SumOf(Strides(f, g), Rest(f, i))
               = Stride(SliceLen(f[i], g)) + SumOf(Strides(f, g), Rest(f, i + 1))
  <2>1. i \in Rest(f, i) /\ Rest(f, i) \ {i} = Rest(f, i + 1)
    <3>1. \A k \in DOMAIN f : (k >= i /\ k # i <=> k >= i + 1) /\ i >= i
      BY <1>1
    <3> QED
      BY <1>3, <3>1 DEF Rest
  <2>2. Rest(f, i) \subseteq DOMAIN f
    BY DEF Rest
  <2>3. \A k \in Rest(f, i) : Strides(f, g)[k] \in Int
    BY <2>2, StridesAreNat
  <2>4. SumOf(Strides(f, g), Rest(f, i))
          = Strides(f, g)[i] + SumOf(Strides(f, g), Rest(f, i) \ {i})
    BY <2>1, <2>3, StridesAreNat, SumSplit
  <2> QED
    BY <2>1, <2>4, StridesAreNat
<1> QED
  BY <1>2, <1>3

(***************************************************************************)
(* Steps that keep the arena of each GPU as it is, and every buffer of it  *)
(* as long as it is.                                                       *)
(***************************************************************************)
Keeps(d, e) ==
  /\ DOMAIN e = DOMAIN d
  /\ \A b \in DOMAIN d : DOMAIN e[b] = DOMAIN d[b]
  /\ Arena \in DOMAIN d => e[Arena] = d[Arena]

LEMMA StoredKeeps ==
  ASSUME NEW m, NEW writes, \A w \in writes : w.to.buf # Arena
  PROVE  /\ DOMAIN Stored(m, writes) = DOMAIN m
         /\ Stored(m, writes) = [g \in DOMAIN m |-> Stored(m, writes)[g]]
         /\ \A g \in DOMAIN m : Keeps(m[g], Stored(m, writes)[g])
<1> DEFINE here(g, b) == {w \in writes : w.to.gpu = g /\ w.to.buf = b}
           put(g, b) == [i \in DOMAIN m[g][b] |->
             LET by == {w \in here(g, b) : i >= w.to.off /\ i - w.to.off \in DOMAIN w.val}
             IN IF by = {} THEN m[g][b][i]
                ELSE LET w == CHOOSE w \in by : TRUE IN w.val[i - w.to.off]]
           new(g, b) == IF here(g, b) = {} THEN m[g][b] ELSE put(g, b)
           n == [g \in DOMAIN m |-> [b \in DOMAIN m[g] |-> new(g, b)]]
<1>1. Stored(m, writes) = n
  BY Zenon DEF Stored
<1>2. \A g, b : DOMAIN put(g, b) = DOMAIN m[g][b]
  OBVIOUS
<1> HIDE DEF put
<1>3. \A g, b : DOMAIN new(g, b) = DOMAIN m[g][b]
  BY <1>2
<1>4. \A g : here(g, Arena) = {}
  OBVIOUS
<1>5. \A g : new(g, Arena) = m[g][Arena]
  BY <1>4
<1> HIDE DEF new
<1>6. DOMAIN n = DOMAIN m /\ n = [g \in DOMAIN m |-> n[g]]
  OBVIOUS
<1>7. ASSUME NEW g \in DOMAIN m PROVE Keeps(m[g], n[g])
  <2>1. n[g] = [b \in DOMAIN m[g] |-> new(g, b)]
    OBVIOUS
  <2> HIDE DEF n
  <2> QED
    BY <1>3, <1>5, <2>1 DEF Keeps
<1> HIDE DEF n
<1> QED
  BY <1>1, <1>6, <1>7

LEMMA WriteOf ==
  ASSUME NEW p, NEW val
  PROVE  Write(p, val).to = p
BY DEF Write

\* Keeping values by their names leaves where they go.
LEMMA NamedTo ==
  ASSUME NEW writes, NEW known, NEW c, \A w \in writes : w.to.buf # c
  PROVE  \A w \in Named(writes, known) : w.to.buf # c
<1> DEFINE val(w) == [i \in DOMAIN w.val |->
             LET v == w.val[i] IN
               IF Atom(v) THEN v
               ELSE IF v \in DOMAIN known THEN known[v]
               ELSE IF IsDot(v) THEN v ELSE Wild]
<1>1. Named(writes, known) = {Write(w.to, val(w)) : w \in writes}
  BY Zenon DEF Named
<1> HIDE DEF val
<1> QED
  BY <1>1, WriteOf

\* The inputs of a pass: cells as long as they were.
LEMMA InputsKeep ==
  ASSUME NEW d, NEW pos, NEW token,
         \A b \in DOMAIN d \cap Bufs : DOMAIN d[b] = 0 .. Cells(b) - 1
  PROVE  Keeps(d, SetToken(SetPassInputs(d, pos), token))
<1> DEFINE ps == <<0, "positions">>  kv == <<0, "kv_row">>  nk == <<0, "n_kv">>
           mk == <<0, "mask_f16">>  tk == <<0, "token">>
           one(v) == [i \in {0} |-> v]
           mask == [j \in DOMAIN d[mk] |-> IF j < Window(pos)
                                           THEN IF j <= pos THEN Zero ELSE NegInf
                                           ELSE d[mk][j]]
           e == SetToken(SetPassInputs(d, pos), token)
<1>1. /\ Arena \notin {ps, kv, nk, mk, tk}
      /\ ps \notin {kv, nk, mk, tk} /\ kv \notin {ps, nk, mk, tk} /\ nk \notin {ps, kv, mk, tk}
      /\ mk \notin {ps, kv, nk, tk}
  BY DEF Arena
<1>2. \A b \in DOMAIN d : b \in {ps, kv, nk, tk} => DOMAIN d[b] = {0}
  <2>1. \A c \in {"positions", "kv_row", "n_kv", "token"} :
          Cells(<<0, c>>) = 1 /\ <<0, c>> \in Bufs
    BY PassCellsAreOne
  <2>2. 0 .. 1 - 1 = {0}
    OBVIOUS
  <2> QED
    BY <2>1, <2>2
<1>3. DOMAIN mask = DOMAIN d[mk] /\ \A v : DOMAIN one(v) = {0}
  OBVIOUS
<1> HIDE DEF mask, one
<1>4. /\ DOMAIN e = DOMAIN d
      /\ \A b \in DOMAIN d :
           e[b] = IF b = ps \/ b = kv THEN one(pos)
                  ELSE IF b = nk THEN one(Window(pos))
                  ELSE IF b = mk THEN mask
                  ELSE IF b = tk THEN one(token) ELSE d[b]
  <2> DEFINE d1 == [d EXCEPT ![ps] = one(pos)]
             d2 == [d1 EXCEPT ![kv] = one(pos)]
             d3 == [d2 EXCEPT ![nk] = one(Window(pos))]
             d4 == [d3 EXCEPT ![mk] = mask]
             d5 == [d4 EXCEPT ![tk] = one(token)]
  <2>1. e = d5
    BY DEF SetToken, SetPassInputs, one, mask
  <2> HIDE DEF ps, kv, nk, mk, tk, e
  <2> QED
    BY <1>1, <2>1
<1> HIDE DEF e, ps, kv, nk, mk, tk
<1>5. \A b \in DOMAIN d : DOMAIN e[b] = DOMAIN d[b]
  BY <1>2, <1>3, <1>4
<1>6. Arena \in DOMAIN d => e[Arena] = d[Arena]
  BY <1>1, <1>4
<1> QED
  BY <1>4, <1>5, <1>6 DEF Keeps, e

(***************************************************************************)
(* Where the host and the kernels are.                                     *)
(***************************************************************************)
Places ==
  {"whole", "validate", "refused", "peer", "arena", "upload", "mailbox", "init",
   "pack", "idle", "ring", "wait", "down", "threw", "exited", "faulted"}

ControlInv ==
  /\ hpc \in Places /\ gpu \in GPU /\ item \in Nat \ {0} /\ pass \in 0 .. Len(Tokens)
  /\ at = [g \in GPU |-> at[g]] /\ published = [g \in GPU |-> published[g]]
  /\ \A g \in GPU : /\ at[g] \in Nat /\ at[g] <= Len(prog[g]) + 1
                    /\ published[g] \in BOOLEAN
                    /\ at[g] # 0 => hpc \in {"ring", "wait", "faulted"}

LEMMA ControlInvInit == Init => ControlInv
<1> SUFFICES ASSUME Init PROVE ControlInv
  OBVIOUS
<1>1. Len(<< >>) = 0 /\ Len(Tokens) \in Nat
  BY WholeModelAssumption
<1>2. \A g \in GPU : prog[g] = << >>
  BY DEF Init
<1> QED
  BY <1>1, <1>2 DEF Init, ControlInv, Places, GPU

LEMMA ProgramLen ==
  ASSUME PatchInv
  PROVE  \A g \in GPU : Len(prog[g]) \in Nat /\ DOMAIN prog[g] = 1 .. Len(prog[g])
BY DEF PatchInv, Packed

LEMMA ControlInvNext ==
  ASSUME PatchInv, PatchInv', ControlInv, [Next]_vars
  PROVE  ControlInv'
<1>0. /\ \A g \in GPU : Len(prog[g]) \in Nat /\ DOMAIN prog[g] = 1 .. Len(prog[g])
      /\ \A g \in GPU : Len(prog'[g]) \in Nat
      /\ Len(Tokens) \in Nat
  <2>1. (\A g \in GPU : Len(prog[g]) \in Nat)'
    BY DEF PatchInv, Packed
  <2> QED
    BY <2>1, ProgramLen, WholeModelAssumption
<1> DEFINE still == UNCHANGED <<kvars, prog, pass>>
           moves == hpc' \in Places /\ gpu' \in GPU /\ item' \in Nat \ {0}
<1>1. ASSUME still, moves, hpc' = hpc \/ \A g \in GPU : at[g] = 0 PROVE ControlInv'
  BY <1>1 DEF ControlInv, kvars
<1>2. CASE UNCHANGED vars
  BY <1>1, <1>2 DEF vars, dvars, hvars, kvars, ControlInv
<1>3. ASSUME hpc \notin {"ring", "wait", "faulted"} PROVE \A g \in GPU : at[g] = 0
  BY <1>3 DEF ControlInv
<1>4. CASE RunWhole
  <2>1. still /\ moves /\ hpc' = hpc
    BY <1>4 DEF RunWhole, dvars, hvars, ControlInv
  <2> QED
    BY <1>1, <2>1
<1>5. ASSUME NEW f \in Files, Open(f) PROVE ControlInv'
  <2>1. still /\ moves /\ hpc = "whole"
    BY <1>5 DEF Open, Goto, GPU, Places
  <2> QED
    BY <1>1, <1>3, <2>1
<1>6. CASE Validate
  <2>1. still /\ moves /\ hpc = "validate"
    BY <1>6 DEF Validate, Goto, GPU, Places, dvars, ControlInv
  <2> QED
    BY <1>1, <1>3, <2>1
<1>7. CASE EnablePeerAccess
  <2>1. still /\ moves /\ hpc = "peer"
    BY <1>7 DEF EnablePeerAccess, Goto, GPU, Places, dvars
  <2> QED
    BY <1>1, <1>3, <2>1
<1>8. CASE AllocArena
  <2>1. still /\ moves /\ hpc = "arena"
    BY <1>8 DEF AllocArena, Places, ControlInv
  <2> QED
    BY <1>1, <1>3, <2>1
<1>9. CASE UploadTensor
  <2>1. still /\ hpc = "upload" /\ gpu' = gpu /\ item' \in {item, item + 1}
        /\ hpc' \in {"upload", "exited", "threw"}
    BY <1>9 DEF UploadTensor
  <2>2. moves
    BY <2>1 DEF Places, ControlInv
  <2> QED
    BY <1>1, <1>3, <2>1, <2>2
<1>10. CASE UploadDone
  <2>1. still /\ moves /\ hpc = "upload"
    BY <1>10 DEF UploadDone, Next2, Goto, Places, GPU, dvars
  <2> QED
    BY <1>1, <1>3, <2>1
<1>11. CASE AllocMailboxes
  <2>1. still /\ moves /\ hpc = "mailbox"
    BY <1>11 DEF AllocMailboxes, Goto, Places, GPU
  <2> QED
    BY <1>1, <1>3, <2>1
<1>12. CASE AllocBuffers
  <2>1. still /\ hpc = "init" /\ gpu' = gpu /\ item' \in {item, 1} /\ hpc' \in {"pack", "threw"}
    BY <1>12 DEF AllocBuffers
  <2>2. moves
    BY <2>1 DEF Places, ControlInv
  <2> QED
    BY <1>1, <1>3, <2>1, <2>2
<1>13. CASE Pack
  <2>1. /\ UNCHANGED <<kvars, pass>> /\ hpc = "pack" /\ gpu' = gpu
        /\ item' \in {item, item + 1} /\ hpc' \in {"pack", "threw"}
    BY <1>13 DEF Pack
  <2>2. moves
    BY <2>1 DEF Places, ControlInv
  <2> QED
    BY <1>0, <1>3, <2>1, <2>2 DEF ControlInv, kvars
<1>14. CASE Launch
  <2>1. still /\ moves /\ hpc = "pack"
    BY <1>14 DEF Launch, Next2, Goto, Places, GPU, dvars
  <2> QED
    BY <1>1, <1>3, <2>1
<1>15. CASE SetupThrows
  <2>1. still /\ moves /\ hpc \in {"peer", "init", "pack"}
    BY <1>15 DEF SetupThrows, Places, dvars, ControlInv
  <2> QED
    BY <1>1, <1>3, <2>1
<1>16. CASE CudaError
  <2>1. /\ hpc' = "exited" /\ UNCHANGED <<gpu, item, prog, pass>>
        /\ at' = [g \in GPU |-> 0] /\ published' = [g \in GPU |-> FALSE]
    BY <1>16 DEF CudaError, dvars
  <2> QED
    BY <1>0, <2>1 DEF ControlInv, Places
<1>17. CASE WriteInputs
  <2>1. /\ hpc = "idle" /\ pass' = pass + 1 /\ pass < Len(Tokens) /\ UNCHANGED kvars
        /\ hpc' = "ring" /\ gpu' = 0 /\ item' = 1
    BY <1>17 DEF WriteInputs, Goto
  <2>2. pass' \in 0 .. Len(Tokens)
    BY <1>0, <2>1 DEF ControlInv
  <2> QED
    BY <1>0, <1>3, <2>1, <2>2 DEF ControlInv, Places, GPU, kvars
<1>18. CASE RingDoorbell
  <2>1. /\ at' = [at EXCEPT ![gpu] = 1] /\ UNCHANGED <<published, prog, pass>> /\ moves
        /\ hpc' \in {"ring", "wait"}
    BY <1>18 DEF RingDoorbell, Next2, Goto, Places, GPU, dvars
  <2> QED
    BY <1>0, <2>1 DEF ControlInv
<1>19. CASE Return
  <2>1. at' = [g \in GPU |-> 0] /\ UNCHANGED <<published, prog, pass>> /\ moves
    BY <1>19 DEF Return, Goto, Places, GPU, dvars
  <2> QED
    BY <1>0, <2>1 DEF ControlInv
<1>20. CASE Shutdown
  <2>1. still /\ moves /\ hpc = "idle"
    BY <1>20 DEF Shutdown, Places, dvars, ControlInv
  <2> QED
    BY <1>1, <1>3, <2>1
<1>21. ASSUME NEW g \in GPU, Running(g), UNCHANGED <<prog, pass, gpu, item>>,
              published' = [published EXCEPT ![g] = FALSE] \/ published' = published,
              \/ at' = [at EXCEPT ![g] = @ + 1] /\ hpc' = hpc
              \/ at' = at /\ hpc' = "faulted"
       PROVE  ControlInv'
  <2>1. hpc \in {"ring", "wait"} /\ at[g] \in 1 .. Len(prog[g])
    BY <1>0, <1>21 DEF Running
  <2>2. published' = [h \in GPU |-> published'[h]] /\ \A h \in GPU : published'[h] \in BOOLEAN
    <3>1. published = [h \in GPU |-> published[h]] /\ \A h \in GPU : published[h] \in BOOLEAN
      BY DEF ControlInv
    <3>2. CASE published' = published
      BY <3>1, <3>2
    <3>3. CASE published' = [published EXCEPT ![g] = FALSE]
      BY <3>1, <3>3, Zenon
    <3> QED
      BY <1>21, <3>2, <3>3
  <2>3. at' = [h \in GPU |-> at'[h]]
    BY <1>21 DEF ControlInv
  <2>4. \A h \in GPU : at'[h] \in Nat /\ at'[h] <= Len(prog[h]) + 1
    <3>1. \A h \in GPU : at'[h] = at[h] \/ (h = g /\ at'[h] = at[g] + 1)
      BY <1>21, <2>3 DEF ControlInv
    <3>2. at[g] + 1 \in Nat /\ at[g] + 1 <= Len(prog[g]) + 1
      BY <1>0, <2>1
    <3>3. \A h \in GPU : at[h] \in Nat /\ at[h] <= Len(prog[h]) + 1
      BY DEF ControlInv
    <3> QED
      BY <3>1, <3>2, <3>3
  <2> QED
    BY <1>21, <2>1, <2>2, <2>3, <2>4 DEF ControlInv, Places
<1>22. ASSUME NEW g \in GPU, ExecuteOp(g) PROVE ControlInv'
  BY <1>21, <1>22 DEF ExecuteOp, Store, hvars, dvars
<1>23. ASSUME NEW g \in GPU, Publish(g) PROVE ControlInv'
  <2>1. /\ UNCHANGED <<hpc, gpu, item, prog, at, pass>>
        /\ published' = [published EXCEPT ![g] = TRUE]
    BY <1>23 DEF Publish, hvars, dvars
  <2> QED
    BY <2>1, Zenon DEF ControlInv
<1>24. ASSUME NEW g \in GPU, Fold(g) PROVE ControlInv'
  BY <1>21, <1>24 DEF Fold, Store, hvars, dvars
<1> QED
  BY <1>2, <1>4, <1>5, <1>6, <1>7, <1>8, <1>9, <1>10, <1>11, <1>12, <1>13, <1>14, <1>15,
     <1>16, <1>17, <1>18, <1>19, <1>20, <1>22, <1>23, <1>24 DEF Next

(***************************************************************************)
(* Memory and the resolvers, as the stages of the setup build them.        *)
(***************************************************************************)
\* Nothing is allocated yet.
Bare == hpc \in {"whole", "validate", "refused", "peer"}

\* The upload of GPU g has not begun.
Unloaded(g) == Bare \/ (hpc = "arena" /\ g >= gpu) \/ (hpc = "upload" /\ g > gpu)

\* The runtime's buffers of GPU g have not been allocated.
Unbuffered(g) ==
  \/ Bare
  \/ hpc \in {"arena", "upload", "mailbox"}
  \/ hpc = "init" /\ g >= gpu
  \/ hpc = "pack" /\ g > gpu

\* They have been.
Ready(g) ==
  \/ hpc \in {"idle", "ring", "wait"}
  \/ hpc = "pack" /\ g <= gpu
  \/ hpc = "init" /\ g < gpu

\* The k-th tensor of the file has been uploaded to GPU g.
Uploaded(g, k) ==
  \/ hpc \in {"mailbox", "init", "pack", "idle", "ring", "wait"}
  \/ hpc = "arena" /\ g < gpu
  \/ hpc = "upload" /\ (g < gpu \/ (g = gpu /\ k < item))

Stages ==
  /\ hpc # "whole" => file \in Files
  /\ \A g \in GPU :
       /\ Bare => DOMAIN mem[g] = {}
       /\ Unloaded(g) => DOMAIN resolver[g] = {}
       /\ Unbuffered(g) => DOMAIN mem[g] \cap Bufs = {}
       /\ Ready(g) => Buffered(g, resolver[g])

Shapes ==
  \A g \in GPU : \A b \in DOMAIN mem[g] :
    /\ b = Arena => DOMAIN mem[g][b] = 0 .. ArenaLen(file, g) - 1
    /\ b \in Bufs => DOMAIN mem[g][b] = 0 .. Cells(b) - 1

\* A name leads to a slice within the arena or to a buffer of the runtime.
InArena(g, r) ==
  /\ Arena \in DOMAIN mem[g] /\ r.n \in Nat
  /\ \E off \in Nat : r.ptr = Pointer(g, Arena, off) /\ off + r.n <= ArenaLen(file, g)

IsBuffer(g, b, r) ==
  /\ b \in Bufs /\ b \in DOMAIN mem[g]
  /\ r.ptr = Pointer(g, b, 0) /\ r.n = Cells(b)

Resolved ==
  \A g \in GPU : \A b \in DOMAIN resolver[g] :
    InArena(g, resolver[g][b]) \/ IsBuffer(g, b, resolver[g][b])

\* The slice of tensor t lies in the arena of GPU g, where its name leads.
Holds(g, t) ==
  LET r == resolver[g][t.name]  s == WeightSlice(t, g) IN
  /\ t.name \in DOMAIN resolver[g] /\ Arena \in DOMAIN mem[g]
  /\ \E off \in Nat :
       /\ r.ptr = Pointer(g, Arena, off) /\ off % Align = 0
       /\ \A i \in DOMAIN s : /\ off + i \in DOMAIN mem[g][Arena]
                              /\ mem[g][Arena][off + i] = Element(t, s[i])
       /\ hpc = "upload" /\ g = gpu => off + SliceLen(t, g) <= cursor

Loaded ==
  \A g \in GPU : \A k \in DOMAIN file :
    Uploaded(g, k) /\ ~ Skipped(file[k]) => Holds(g, file[k])

\* What is left of the arena is what the rest of the file takes.
Filling ==
  hpc = "upload" =>
    /\ Arena \in DOMAIN mem[gpu]
    /\ cursor % Align = 0
    /\ cursor + SumOf(Strides(file, gpu), Rest(file, item)) = ArenaLen(file, gpu)

MemInv ==
  /\ mem = [g \in GPU |-> mem[g]] /\ resolver = [g \in GPU |-> resolver[g]]
  /\ cursor \in Nat
  /\ Stages /\ Shapes /\ Resolved /\ Loaded /\ Filling

LEMMA MemInvInit == Init => MemInv
<1> SUFFICES ASSUME Init PROVE MemInv
  OBVIOUS
<1>1. \A g \in GPU : mem[g] = << >> /\ resolver[g] = << >>
  BY DEF Init
<1>2. DOMAIN << >> = {}
  OBVIOUS
<1>3. hpc = "whole"
  BY DEF Init
<1>4. Stages
  BY <1>1, <1>2, <1>3 DEF Stages, Ready
<1>5. Shapes /\ Resolved
  BY <1>1, <1>2 DEF Shapes, Resolved
<1>6. Loaded /\ Filling
  BY <1>3 DEF Loaded, Uploaded, Filling
<1> QED
  BY <1>4, <1>5, <1>6 DEF Init, MemInv

LEMMA FileTensors ==
  ASSUME MemInv, hpc # "whole"
  PROVE  file \in Seq(TensorSet) /\ \A k \in DOMAIN file : file[k] \in TensorSet
<1>1. file \in Seq(TensorSet)
  BY FilesAssumption DEF MemInv, Stages, TensorSet
<1> QED
  BY <1>1

\* A step that keeps the arenas and the lengths of the buffers, and whose new stage says
\* no more of them than the old one.
NoFurther ==
  /\ UNCHANGED <<file, resolver, cursor>>
  /\ mem' = [g \in GPU |-> mem'[g]]
  /\ \A g \in GPU : Keeps(mem[g], mem'[g])
  /\ hpc' # "whole" => hpc # "whole"
  /\ Bare' => Bare
  /\ \A g \in GPU : /\ Unloaded(g)' => Unloaded(g)
                    /\ Unbuffered(g)' => Unbuffered(g)
                    /\ Ready(g)' => Ready(g)
                    /\ \A k \in DOMAIN file : Uploaded(g, k)' => Uploaded(g, k)
  /\ hpc' = "upload" => hpc = "upload" /\ gpu' = gpu /\ item' = item

LEMMA MemInvKept ==
  ASSUME MemInv, NoFurther, gpu \in GPU
  PROVE  MemInv'
<1>1. \A g \in GPU : /\ DOMAIN mem'[g] = DOMAIN mem[g]
                     /\ \A b \in DOMAIN mem[g] : DOMAIN mem'[g][b] = DOMAIN mem[g][b]
                     /\ Arena \in DOMAIN mem[g] => mem'[g][Arena] = mem[g][Arena]
  BY DEF NoFurther, Keeps
<1>2. Stages'
  <2>1. /\ hpc' # "whole" => file' \in Files
        /\ \A g \in GPU :
             /\ Bare' => DOMAIN mem'[g] = {}
             /\ Unloaded(g)' => DOMAIN resolver'[g] = {}
             /\ Unbuffered(g)' => DOMAIN mem'[g] \cap Bufs = {}
             /\ Ready(g)' => Buffered(g, resolver'[g])
    BY <1>1 DEF NoFurther, MemInv, Stages
  <2> QED
    BY <2>1 DEF Stages, Buffered
<1>3. Shapes'
  BY <1>1 DEF NoFurther, MemInv, Shapes
<1>4. Resolved'
  BY <1>1 DEF NoFurther, MemInv, Resolved, InArena, IsBuffer
<1>5. Loaded'
  <2> SUFFICES ASSUME NEW g \in GPU, NEW k \in DOMAIN file, Uploaded(g, k)',
                      ~ Skipped(file[k])
               PROVE  Holds(g, file[k])'
    BY DEF Loaded, NoFurther
  <2>1. Holds(g, file[k])
    BY DEF NoFurther, MemInv, Loaded
  <2>2. mem'[g][Arena] = mem[g][Arena] /\ Arena \in DOMAIN mem'[g]
    BY <1>1, <2>1 DEF Holds
  <2>3. UNCHANGED <<file, resolver, cursor>>
        /\ (hpc' = "upload" /\ g = gpu' => hpc = "upload" /\ g = gpu)
    BY DEF NoFurther
  <2> QED
    BY <2>1, <2>2, <2>3 DEF Holds
<1>6. Filling'
  BY <1>1 DEF NoFurther, MemInv, Filling
<1> QED
  BY <1>2, <1>3, <1>4, <1>5, <1>6 DEF MemInv, NoFurther

\* As does a step that leaves memory alone.
LEMMA KeepsItself ==
  ASSUME NEW d PROVE Keeps(d, d)
BY DEF Keeps

(***************************************************************************)
(* Every entry of a packed program stores within the buffers.              *)
(***************************************************************************)
ProgInv == \A g \in GPU : \A k \in DOMAIN prog[g] : Aside(prog[g][k])

LEMMA ProgInvInit == Init => ProgInv
<1> SUFFICES ASSUME Init PROVE ProgInv
  OBVIOUS
<1>1. \A g \in GPU : prog[g] = << >>
  BY DEF Init
<1>2. DOMAIN << >> = {}
  OBVIOUS
<1> QED
  BY <1>1, <1>2 DEF ProgInv

LEMMA EmittedLen ==
  ASSUME NEW ins
  PROVE  \E n \in Nat : DOMAIN Emitted(ins) = 1 .. n
<1>1. CASE \E a : Emitted(ins) = <<a>>
  <2>1. PICK a : Emitted(ins) = <<a>> BY <1>1
  <2>2. DOMAIN <<a>> = 1 .. 1 OBVIOUS
  <2> QED BY <2>1, <2>2
<1>2. CASE \E a, b : Emitted(ins) = <<a, b>>
  <2>1. PICK a, b : Emitted(ins) = <<a, b>> BY <1>2
  <2>2. DOMAIN <<a, b>> = 1 .. 2 OBVIOUS
  <2> QED BY <2>1, <2>2
<1> QED BY <1>1, <1>2, EmittedSeq

\* What packing an instruction appends.
LEMMA AppendedAside ==
  ASSUME PatchInv, NEW g \in GPU, Buffered(g, resolver[g]), NEW ins, ToBuffers(ins),
         PackableOn(g, ins), NEW k \in DOMAIN Emitted(ins)
  PROVE  Aside(BoundOn(g, Emitted(ins)[k]))
<1> DEFINE a == Emitted(ins)[k]
<1>1. EmitsToBuffers(a) /\ a.kind = ins.kind
  BY EmittedToBuffers
<1>2. ins.kind \in KindTable
  BY DEF PackableOn, Packable
<1>3. a.kind \in {"XCHG_PUSH", "XCHG_REDUCE"} => PackableOn(g, a)
  <2>1. CASE Emitted(ins) = <<ins>>
    <3>1. \A j \in DOMAIN <<ins>> : <<ins>>[j] = ins
      OBVIOUS
    <3>2. a = ins
      BY <2>1, <3>1
    <3> QED
      BY <3>2
  <2> QED
    BY <2>1, EmittedKinds
<1>4. mtab[g] = << >> \/ mtab[g] = Wired(g)
  BY DEF PatchInv
<1> HIDE DEF a
<1>5. Aside(BoundOn(g, a))
  BY <1>1, <1>2, <1>3, <1>4, BoundAside
<1> QED
  BY <1>5 DEF a

\* A patch is of a reduce, whose number of elements it leaves.
LEMMA PatchedAside ==
  ASSUME NEW g, NEW program, NEW patches, NEW s, Packed(g, program, patches),
         \A k \in DOMAIN program : Aside(program[k])
  PROVE  \A k \in DOMAIN Patched(program, patches, s) : Aside(Patched(program, patches, s)[k])
<1> SUFFICES ASSUME NEW k \in DOMAIN program
             PROVE  Aside(Patched(program, patches, s)[k])
  BY DEF Patched
<1> DEFINE a == program[k]  b == Patched(program, patches, s)[k]
           seqno == [seqno |-> s]  n == seqno ++ a.n
<1>1. b = a \/ (a.kind = "XCHG_REDUCE" /\ b = Instr(a.kind, a.p, n))
  BY DEF Patched, Packed
<1>2. Aside(a)
  OBVIOUS
<1>3. "n_elems" \notin DOMAIN seqno
  OBVIOUS
<1> HIDE DEF a, b, seqno
<1>4. Aside(b)
  <2>1. CASE b = a
    BY <1>2, <2>1
  <2>2. CASE b # a
    <3>1. a.kind = "XCHG_REDUCE" /\ b.kind = a.kind /\ b.p = a.p /\ b.n = n
      BY <1>1, <2>2 DEF Instr
    <3>2. "n_elems" \in DOMAIN a.n /\ a.n.n_elems = Embd
      BY <1>2, <3>1 DEF Aside, Details
    <3>3. "n_elems" \in DOMAIN n /\ n.n_elems = Embd
      BY <1>3, <3>2, Overridden
    <3> HIDE DEF n
    <3>4. \A f : Extent(a.kind, n, f) = Extent(a.kind, a.n, f)
      BY <3>1, <3>2, <3>3 DEF Extent
    <3>5. Details(a.kind, a.p, n)
      BY <3>1, <3>3 DEF Details
    <3> QED
      BY <1>2, <3>1, <3>4, <3>5 DEF Aside
  <2> QED
    BY <2>1, <2>2
<1> QED
  BY <1>4 DEF b

LEMMA ProgInvNext ==
  ASSUME PatchInv, MemInv, ProgInv, [Next]_vars
  PROVE  ProgInv'
<1> SUFFICES \A g \in GPU : \A k \in DOMAIN prog'[g] : Aside(prog'[g][k])
  BY DEF ProgInv, Aside, Inside
<1>1. ASSUME UNCHANGED prog
      PROVE  \A g \in GPU : \A k \in DOMAIN prog'[g] : Aside(prog'[g][k])
  BY <1>1 DEF ProgInv
<1>2. CASE Pack
  <2> DEFINE ins == SplitInstrs[item]  out == Emitted(ins)
             more == [k \in DOMAIN out |-> BoundOn(gpu, out[k])]
  <2>1. CASE ~ PackableOn(gpu, ins)
    <3>1. UNCHANGED prog
      BY <1>2, <2>1 DEF Pack
    <3> QED
      BY <1>1, <3>1
  <2>2. CASE PackableOn(gpu, ins)
    <3>1. /\ gpu \in GPU /\ hpc = "pack" /\ item \in DOMAIN SplitInstrs
          /\ prog' = [prog EXCEPT ![gpu] = @ \o more]
      BY <1>2, <2>2 DEF Pack, PatchInv
    <3>2. Buffered(gpu, resolver[gpu])
      BY <3>1 DEF MemInv, Stages, Ready, GPU
    <3>3. ToBuffers(ins)
      BY <3>1, EachToBuffers
    <3>4. \A k \in DOMAIN more : Aside(more[k])
      <4> SUFFICES ASSUME NEW k \in DOMAIN out PROVE Aside(BoundOn(gpu, out[k]))
        OBVIOUS
      <4> HIDE DEF ins
      <4> QED
        BY <2>2, <3>1, <3>2, <3>3, AppendedAside
    <3>5. \E T : more \in Seq(T)
      <4>1. PICK n \in Nat : DOMAIN out = 1 .. n
        BY EmittedLen
      <4> HIDE DEF out
      <4> DEFINE T == {more[k] : k \in 1 .. n}
      <4>2. more \in [1 .. n -> T]
        BY <4>1
      <4> HIDE DEF T, more
      <4>3. more \in Seq(T)
        BY <4>2
      <4> QED
        BY <4>3
    <3>6. PICK S, T : prog[gpu] \in Seq(S) /\ more \in Seq(T)
      BY <3>1, <3>5 DEF PatchInv, Packed
    <3> HIDE DEF more
    <3> DEFINE old == prog[gpu]  all == old \o more
    <3>7. /\ DOMAIN all = 1 .. Len(old) + Len(more)
          /\ DOMAIN old = 1 .. Len(old) /\ DOMAIN more = 1 .. Len(more)
          /\ Len(old) \in Nat /\ Len(more) \in Nat
          /\ \A k \in DOMAIN old : all[k] = old[k]
          /\ \A k \in DOMAIN more : all[Len(old) + k] = more[k]
      BY <3>6, Concatenated
    <3>8. \A k \in DOMAIN old : Aside(old[k])
      BY <3>1 DEF ProgInv
    <3>9. prog'[gpu] = all /\ \A g \in GPU \ {gpu} : prog'[g] = prog[g]
      BY <3>1 DEF PatchInv
    <3> HIDE DEF all, old
    <3>10. ASSUME NEW k \in DOMAIN all PROVE Aside(all[k])
      <4>1. CASE k \in DOMAIN old
        BY <3>7, <3>8, <4>1
      <4>2. CASE k \notin DOMAIN old
        <5>1. k - Len(old) \in DOMAIN more /\ Len(old) + (k - Len(old)) = k
          BY <3>7, <4>2
        <5>2. all[k] = more[k - Len(old)]
          BY <3>7, <5>1
        <5> QED
          BY <3>4, <5>1, <5>2
      <4> QED
        BY <4>1, <4>2
    <3> QED
      BY <3>9, <3>10 DEF ProgInv
  <2> QED
    BY <2>1, <2>2
<1>3. CASE WriteInputs
  <2>1. prog' = [g \in GPU |-> Patched(prog[g], xchgIdx[g], pass + 1)]
    BY <1>3 DEF WriteInputs
  <2>2. \A g \in GPU : prog'[g] = Patched(prog[g], xchgIdx[g], pass + 1)
    BY <2>1
  <2> QED
    BY <2>2, PatchedAside DEF ProgInv, PatchInv
<1>4. CASE UNCHANGED vars
  BY <1>1, <1>4 DEF vars, dvars
<1>5. CASE RunWhole \/ (\E f \in Files : Open(f)) \/ Validate \/ EnablePeerAccess
  BY <1>1, <1>5 DEF RunWhole, Open, Validate, EnablePeerAccess, dvars
<1>6. CASE AllocArena \/ UploadTensor \/ UploadDone \/ AllocMailboxes \/ AllocBuffers \/ Launch
  BY <1>1, <1>6 DEF AllocArena, UploadTensor, UploadDone, AllocMailboxes, AllocBuffers, Launch,
     dvars
<1>7. CASE SetupThrows \/ CudaError \/ RingDoorbell \/ Return \/ Shutdown
  BY <1>1, <1>7 DEF SetupThrows, CudaError, RingDoorbell, Return, Shutdown, dvars
<1>8. CASE \E g \in GPU : ExecuteOp(g) \/ Publish(g) \/ Fold(g)
  BY <1>1, <1>8 DEF ExecuteOp, Publish, Fold, dvars
<1> QED
  BY <1>2, <1>3, <1>4, <1>5, <1>6, <1>7, <1>8 DEF Next

\* The stage of the next state says nothing of the memories that this one's does not.

\* The stage of the next state says nothing of the memories that this one's does not.
StageKept ==
  /\ hpc' # "whole" => hpc # "whole"
  /\ Bare' => Bare
  /\ \A g \in GPU : /\ Unloaded(g)' => Unloaded(g)
                    /\ Unbuffered(g)' => Unbuffered(g)
                    /\ Ready(g)' => Ready(g)
                    /\ \A k \in DOMAIN file : Uploaded(g, k)' => Uploaded(g, k)
  /\ hpc' = "upload" => hpc = "upload" /\ gpu' = gpu /\ item' = item

LEMMA SameMemory ==
  ASSUME MemInv, gpu \in GPU, StageKept, UNCHANGED <<file, resolver, cursor, mem>>
  PROVE  MemInv'
<1>1. mem' = [g \in GPU |-> mem'[g]] /\ \A g \in GPU : Keeps(mem[g], mem'[g])
  BY KeepsItself DEF MemInv
<1>2. NoFurther
  BY <1>1 DEF NoFurther, StageKept
<1> QED
  BY <1>2, MemInvKept

\* The process has ended, or is about to.
LEMMA SetupEnds ==
  ASSUME MemInv, gpu \in GPU, hpc # "whole", hpc' \in {"threw", "exited", "faulted", "down"}
  PROVE  StageKept
BY DEF StageKept, Bare, Unloaded, Unbuffered, Ready, Uploaded

LEMMA OpenMem ==
  ASSUME MemInv, ControlInv, NEW f \in Files, Open(f)
  PROVE  MemInv'
<1>1. /\ hpc = "whole" /\ hpc' = "validate" /\ file' = f
      /\ UNCHANGED <<resolver, cursor, mem>>
  BY DEF Open, Goto
<1>2. \A g \in GPU : DOMAIN mem[g] = {} /\ DOMAIN resolver[g] = {}
  BY <1>1 DEF MemInv, Stages, Bare, Unloaded
<1>3. Stages'
  BY <1>1, <1>2 DEF Stages, Ready
<1>4. Shapes' /\ Resolved'
  BY <1>1, <1>2 DEF Shapes, Resolved
<1>5. Loaded' /\ Filling'
  BY <1>1 DEF Loaded, Uploaded, Filling
<1> QED
  BY <1>1, <1>3, <1>4, <1>5 DEF MemInv

LEMMA AllocArenaMem ==
  ASSUME MemInv, ControlInv, AllocArena
  PROVE  MemInv'
<1> DEFINE arena == [i \in 0 .. ArenaLen(file, gpu) - 1 |-> Wild]
           new == [b \in {Arena} |-> arena]
<1>1. /\ hpc = "arena" /\ hpc' = "upload" /\ item' = 1 /\ cursor' = 0
      /\ mem' = [mem EXCEPT ![gpu] = new] /\ UNCHANGED <<gpu, file, resolver>>
      /\ gpu \in GPU
  BY DEF AllocArena, ControlInv
<1>2. DOMAIN new = {Arena} /\ new[Arena] = arena /\ DOMAIN arena = 0 .. ArenaLen(file, gpu) - 1
  OBVIOUS
<1> HIDE DEF new, arena
<1>3. /\ mem' = [g \in GPU |-> mem'[g]] /\ mem'[gpu] = new
      /\ \A g \in GPU \ {gpu} : mem'[g] = mem[g]
  BY <1>1 DEF MemInv
<1>4. DOMAIN resolver[gpu] = {}
  BY <1>1 DEF MemInv, Stages, Unloaded, GPU
<1>5. Stages'
  <2>1. file \in Files
    BY <1>1 DEF MemInv, Stages
  <2>2. \A g \in GPU : g > gpu => DOMAIN resolver[g] = {}
    BY <1>1 DEF MemInv, Stages, Unloaded, GPU
  <2>3. \A g \in GPU : DOMAIN mem'[g] \cap Bufs = {}
    <3>1. \A g \in GPU : DOMAIN mem[g] \cap Bufs = {}
      BY <1>1 DEF MemInv, Stages, Unbuffered
    <3> QED
      BY <1>2, <1>3, <3>1, BuffersApart
  <2> QED
    BY <1>1, <2>1, <2>2, <2>3 DEF Stages, Bare, Unloaded, Unbuffered, Ready
<1>6. Shapes'
  <2>1. ASSUME NEW g \in GPU, NEW b \in DOMAIN mem'[g]
        PROVE  /\ b = Arena => DOMAIN mem'[g][b] = 0 .. ArenaLen(file, g) - 1
               /\ b \in Bufs => DOMAIN mem'[g][b] = 0 .. Cells(b) - 1
    <3>1. CASE g = gpu
      BY <1>2, <1>3, <3>1, BuffersApart
    <3>2. CASE g # gpu
      BY <1>3, <3>2 DEF MemInv, Shapes
    <3> QED
      BY <3>1, <3>2
  <2> QED
    BY <1>1, <2>1 DEF Shapes
<1>7. Resolved'
  <2>1. ASSUME NEW g \in GPU, NEW b \in DOMAIN resolver[g]
        PROVE  InArena(g, resolver[g][b])' \/ IsBuffer(g, b, resolver[g][b])'
    <3>1. g # gpu /\ mem'[g] = mem[g]
      BY <1>3, <1>4
    <3> QED
      BY <1>1, <3>1 DEF MemInv, Resolved, InArena, IsBuffer
  <2> QED
    BY <1>1, <2>1 DEF Resolved
<1>8. Loaded'
  <2> SUFFICES ASSUME NEW g \in GPU, NEW k \in DOMAIN file, Uploaded(g, k)',
                      ~ Skipped(file[k])
               PROVE  Holds(g, file[k])'
    BY <1>1 DEF Loaded
  <2>1. g < gpu
    <3>1. DOMAIN file = 1 .. Len(file)
      BY <1>1, FileTensors
    <3> QED
      BY <1>1, <3>1 DEF Uploaded, GPU
  <2>2. Holds(g, file[k])
    BY <1>1, <2>1 DEF MemInv, Loaded, Uploaded
  <2>3. mem'[g] = mem[g] /\ g # gpu
    BY <1>1, <1>3, <2>1 DEF GPU
  <2> QED
    BY <1>1, <2>2, <2>3 DEF Holds
<1>9. Filling'
  <2>1. file \in Seq(TensorSet)
    BY <1>1, FileTensors
  <2>2. ArenaLen(file, gpu) = SumOf(Strides(file, gpu), Rest(file, 1))
        /\ ArenaLen(file, gpu) \in Nat
    BY <2>1, ArenaOfRest
  <2>3. 0 + SumOf(Strides(file, gpu), Rest(file, 1)) = ArenaLen(file, gpu) /\ 0 % Align = 0
    BY <2>2, TensorParallelAssumption
  <2>4. Arena \in DOMAIN mem'[gpu]
    BY <1>2, <1>3
  <2> QED
    BY <1>1, <2>3, <2>4 DEF Filling
<1> QED
  BY <1>1, <1>3, <1>5, <1>6, <1>7, <1>8, <1>9 DEF MemInv

\* What an upload starts from.
LEMMA UploadStart ==
  ASSUME MemInv, ControlInv, hpc = "upload", item \in DOMAIN file
  PROVE  /\ gpu \in GPU /\ item \in Nat /\ file \in Seq(TensorSet) /\ file[item] \in TensorSet
         /\ SliceLen(file[item], gpu) \in Nat
         /\ DOMAIN WeightSlice(file[item], gpu) = 0 .. SliceLen(file[item], gpu) - 1
         /\ Arena \in DOMAIN mem[gpu] /\ ArenaLen(file, gpu) \in Nat
         /\ DOMAIN mem[gpu][Arena] = 0 .. ArenaLen(file, gpu) - 1
         /\ Cardinality(DOMAIN mem[gpu][Arena]) = ArenaLen(file, gpu)
<1>1. gpu \in GPU /\ item \in Nat
  BY DEF ControlInv
<1>2. file \in Seq(TensorSet) /\ file[item] \in TensorSet
  BY FileTensors
<1>3. Arena \in DOMAIN mem[gpu]
  BY DEF MemInv, Filling
<1>4. DOMAIN mem[gpu][Arena] = 0 .. ArenaLen(file, gpu) - 1
  BY <1>1, <1>3 DEF MemInv, Shapes
<1>5. ArenaLen(file, gpu) \in Nat
  BY <1>2, ArenaOfRest
<1>6. Cardinality(0 .. ArenaLen(file, gpu) - 1) = ArenaLen(file, gpu)
  <2> DEFINE n == ArenaLen(file, gpu)
  <2>1. n - 1 \in Int /\ 0 \in Int /\ (0 > n - 1 <=> n = 0)
    BY <1>5
  <2> HIDE DEF n
  <2>2. Cardinality(0 .. n - 1) = IF 0 > n - 1 THEN 0 ELSE (n - 1) - 0 + 1
    BY <2>1, FS_Interval
  <2>3. n \in Nat
    BY <1>5 DEF n
  <2> QED
    BY <2>1, <2>2, <2>3 DEF n
<1> QED
  BY <1>1, <1>2, <1>3, <1>4, <1>5, <1>6, SliceLenIsNat

\* A tensor that is skipped.
LEMMA SkipMem ==
  ASSUME MemInv, ControlInv, hpc = "upload", item \in DOMAIN file, Skipped(file[item]),
         item' = item + 1, UNCHANGED <<hpc, gpu, file, resolver, cursor, mem>>
  PROVE  MemInv'
<1>1. gpu \in GPU /\ item \in Nat /\ file \in Seq(TensorSet)
  BY UploadStart
<1>2. Stages'
  BY DEF MemInv, Stages, Bare, Unloaded, Unbuffered, Ready, Buffered
<1>3. Shapes' /\ Resolved'
  BY DEF MemInv, Shapes, Resolved, InArena, IsBuffer
<1>4. Loaded'
  <2> SUFFICES ASSUME NEW g \in GPU, NEW k \in DOMAIN file, Uploaded(g, k)',
                      ~ Skipped(file[k])
               PROVE  Holds(g, file[k])'
    BY DEF Loaded
  <2>1. Uploaded(g, k)
    <3>1. k # item /\ k \in Nat
      BY <1>1
    <3> QED
      BY <1>1, <3>1 DEF Uploaded
  <2>2. Holds(g, file[k])
    BY <2>1 DEF MemInv, Loaded
  <2> QED
    BY <2>2 DEF Holds
<1>5. Filling'
  <2>1. Rest(file, item + 1) = Rest(file, item)
    BY <1>1, RestNext
  <2> QED
    BY <2>1 DEF MemInv, Filling
<1> QED
  BY <1>2, <1>3, <1>4, <1>5 DEF MemInv

\* A slice that is copied.
LEMMA CopiedSlice ==
  ASSUME NEW arena, NEW c \in Nat, NEW t, NEW s, NEW n \in Nat, NEW m \in Nat,
         DOMAIN s = 0 .. n - 1, DOMAIN arena = 0 .. m - 1, c + n <= m
  PROVE  /\ DOMAIN Copied(arena, c, t, s) = DOMAIN arena
         /\ \A i \in DOMAIN s : /\ c + i \in DOMAIN arena
                                /\ Copied(arena, c, t, s)[c + i] = Element(t, s[i])
         /\ \A i \in DOMAIN arena : i < c => Copied(arena, c, t, s)[i] = arena[i]
<1>1. ASSUME NEW i \in DOMAIN s
      PROVE  c + i \in DOMAIN arena /\ Copied(arena, c, t, s)[c + i] = Element(t, s[i])
  <2>1. c + i \in DOMAIN arena /\ (c + i) - c = i
    OBVIOUS
  <2> QED
    BY <2>1 DEF Copied
<1>2. ASSUME NEW i \in DOMAIN arena, i < c
      PROVE  Copied(arena, c, t, s)[i] = arena[i]
  <2>1. i - c \notin DOMAIN s
    BY <1>2
  <2> QED
    BY <2>1 DEF Copied
<1> QED
  BY <1>1, <1>2 DEF Copied

LEMMA CopyMem ==
  ASSUME MemInv, ControlInv, hpc = "upload", item \in DOMAIN file, UNCHANGED <<gpu, file>>,
         ~ Skipped(file[item]),
         ~ (cursor + SliceLen(file[item], gpu) > Cardinality(DOMAIN mem[gpu][Arena])),
         mem' = [mem EXCEPT ![gpu][Arena] =
                   Copied(@, cursor, file[item], WeightSlice(file[item], gpu))],
         \/ hpc' = "threw" /\ UNCHANGED <<item, resolver, cursor>>
         \/ /\ file[item].name \notin DOMAIN resolver[gpu]
            /\ resolver' = [resolver EXCEPT ![gpu] =
                 Added(@, file[item].name, Pointer(gpu, Arena, cursor),
                       SliceLen(file[item], gpu))]
            /\ cursor' = cursor + Stride(SliceLen(file[item], gpu))
            /\ item' = item + 1 /\ hpc' = hpc
  PROVE  MemInv'
<1> DEFINE t == file[item]  s == WeightSlice(t, gpu)  n == SliceLen(t, gpu)
           m == ArenaLen(file, gpu)  arena == mem[gpu][Arena]
           new == Copied(arena, cursor, t, s)
           r == Added(resolver[gpu], t.name, Pointer(gpu, Arena, cursor), n)
<1>1. /\ gpu \in GPU /\ item \in Nat /\ file \in Seq(TensorSet) /\ t \in TensorSet
      /\ n \in Nat /\ DOMAIN s = 0 .. n - 1
      /\ Arena \in DOMAIN mem[gpu] /\ m \in Nat
      /\ DOMAIN arena = 0 .. m - 1 /\ Cardinality(DOMAIN arena) = m
  BY UploadStart
<1>2. cursor \in Nat /\ cursor + n <= m
  BY <1>1 DEF MemInv
<1>3. mem' = [mem EXCEPT ![gpu] = [mem[gpu] EXCEPT ![Arena] = new]]
  OBVIOUS
<1>4. /\ DOMAIN new = DOMAIN arena
      /\ \A i \in DOMAIN s : cursor + i \in DOMAIN arena /\ new[cursor + i] = Element(t, s[i])
      /\ \A i \in DOMAIN arena : i < cursor => new[i] = arena[i]
  <2> HIDE DEF s, n, m, arena, t
  <2> QED
    BY <1>1, <1>2, CopiedSlice
<1> HIDE DEF new
<1>5. /\ mem' = [g \in GPU |-> mem'[g]]
      /\ \A g \in GPU \ {gpu} : mem'[g] = mem[g]
      /\ mem'[gpu] = [mem[gpu] EXCEPT ![Arena] = new]
  BY <1>1, <1>3 DEF MemInv
<1>6. /\ DOMAIN mem'[gpu] = DOMAIN mem[gpu] /\ mem'[gpu][Arena] = new
      /\ \A b \in DOMAIN mem[gpu] \ {Arena} : mem'[gpu][b] = mem[gpu][b]
  BY <1>1, <1>5
<1>7. \A g \in GPU : /\ DOMAIN mem'[g] = DOMAIN mem[g]
                     /\ \A b \in DOMAIN mem[g] : DOMAIN mem'[g][b] = DOMAIN mem[g][b]
  BY <1>4, <1>5, <1>6 DEF arena
<1>8. Shapes'
  BY <1>7 DEF MemInv, Shapes
<1>9. CASE hpc' = "threw" /\ UNCHANGED <<item, resolver, cursor>>
  <2>1. Stages'
    BY <1>9 DEF MemInv, Stages, Bare, Unloaded, Unbuffered, Ready
  <2>2. Resolved'
    BY <1>7, <1>9 DEF MemInv, Resolved, InArena, IsBuffer
  <2>3. Loaded' /\ Filling'
    BY <1>9 DEF Loaded, Uploaded, Filling
  <2> QED
    BY <1>5, <1>8, <1>9, <2>1, <2>2, <2>3 DEF MemInv
<1>10. CASE /\ t.name \notin DOMAIN resolver[gpu]
            /\ resolver' = [resolver EXCEPT ![gpu] = r]
            /\ cursor' = cursor + Stride(n) /\ item' = item + 1 /\ hpc' = hpc
  <2>1. /\ resolver' = [g \in GPU |-> resolver'[g]] /\ resolver'[gpu] = r
        /\ \A g \in GPU \ {gpu} : resolver'[g] = resolver[g]
    BY <1>1, <1>10 DEF MemInv
  <2>2. /\ t.name \in DOMAIN r /\ r[t.name].ptr = Pointer(gpu, Arena, cursor)
        /\ r[t.name].n = n
        /\ \A b \in DOMAIN resolver[gpu] : b \in DOMAIN r /\ r[b] = resolver[gpu][b]
        /\ \A b \in DOMAIN r : b \in DOMAIN resolver[gpu] \/ b = t.name
    <3> DEFINE e == [ptr |-> Pointer(gpu, Arena, cursor), n |-> n]  one == [b \in {t.name} |-> e]
    <3>1. r = resolver[gpu] ++ one
      BY DEF Added
    <3>2. DOMAIN one = {t.name} /\ one[t.name] = e
      OBVIOUS
    <3>3. e.ptr = Pointer(gpu, Arena, cursor) /\ e.n = n
      OBVIOUS
    <3> HIDE DEF r, e, one, n
    <3>4. DOMAIN r = DOMAIN resolver[gpu] \cup {t.name}
      BY <3>1, <3>2 DEF ++
    <3>5. \A b \in DOMAIN r :
            r[b] = IF b \in DOMAIN resolver[gpu] THEN resolver[gpu][b] ELSE one[b]
      BY <3>1, <3>2 DEF ++
    <3> HIDE DEF t
    <3> QED
      BY <1>10, <3>2, <3>3, <3>4, <3>5
  <2>3. Stride(n) \in Nat /\ n <= Stride(n) /\ Stride(n) % Align = 0
    BY <1>1, StrideHolds
  <2> HIDE DEF r, t, n, m
  <2>4. Stages'
    <3>1. hpc = "upload" /\ hpc' = "upload" /\ gpu' = gpu
      BY <1>10
    <3> QED
      BY <1>5, <1>7, <2>1, <3>1 DEF MemInv, Stages, Bare, Unloaded, Unbuffered, Ready, GPU
  <2>5. Resolved'
    <3>1. ASSUME NEW g \in GPU, NEW b \in DOMAIN resolver'[g]
          PROVE  InArena(g, resolver[g][b])' \/ IsBuffer(g, b, resolver[g][b])'
      <4>1. CASE g # gpu \/ b \in DOMAIN resolver[gpu]
        <5>1. b \in DOMAIN resolver[g] /\ resolver'[g][b] = resolver[g][b]
          BY <2>1, <2>2, <3>1, <4>1
        <5>2. InArena(g, resolver[g][b]) \/ IsBuffer(g, b, resolver[g][b])
          BY <5>1 DEF MemInv, Resolved
        <5>3. DOMAIN mem'[g] = DOMAIN mem[g]
          BY <1>7
        <5> QED
          BY <5>1, <5>2, <5>3 DEF InArena, IsBuffer
      <4>2. CASE g = gpu /\ b = t.name
        <5>1. resolver'[g][b] = r[t.name]
          BY <2>1, <4>2
        <5>2. Arena \in DOMAIN mem'[g] /\ n \in Nat /\ ArenaLen(file, g) = m
          BY <1>1, <1>6, <4>2 DEF m
        <5> QED
          BY <1>2, <2>2, <4>2, <5>1, <5>2 DEF InArena
      <4> QED
        BY <2>1, <2>2, <3>1, <4>1, <4>2
    <3> QED
      BY <3>1 DEF Resolved
  <2>6. Loaded'
    <3> SUFFICES ASSUME NEW g \in GPU, NEW k \in DOMAIN file, Uploaded(g, k)',
                        ~ Skipped(file[k])
                 PROVE  Holds(g, file[k])'
      BY DEF Loaded
    <3>1. k \in Nat
      BY <1>1
    <3>2. CASE g # gpu
      <4>1. Uploaded(g, k)
        BY <1>10, <3>2 DEF Uploaded
      <4>2. Holds(g, file[k])
        BY <4>1 DEF MemInv, Loaded
      <4>3. mem'[g] = mem[g] /\ resolver'[g] = resolver[g]
        BY <1>5, <2>1, <3>2
      <4> QED
        BY <3>2, <4>2, <4>3 DEF Holds
    <3>3. CASE g = gpu /\ k # item
      <4>1. Uploaded(g, k)
        BY <1>1, <1>10, <3>1, <3>3 DEF Uploaded
      <4>2. Holds(g, file[k])
        BY <4>1 DEF MemInv, Loaded
      <4> DEFINE u == file[k]  w == WeightSlice(u, g)  q == SliceLen(u, g)
      <4>3. PICK off \in Nat :
              /\ resolver[g][u.name].ptr = Pointer(g, Arena, off) /\ off % Align = 0
              /\ \A i \in DOMAIN w : /\ off + i \in DOMAIN mem[g][Arena]
                                     /\ mem[g][Arena][off + i] = Element(u, w[i])
              /\ off + q <= cursor
        BY <3>3, <4>2 DEF Holds
      <4>4. u \in TensorSet
        BY <1>1
      <4>5. q \in Nat /\ DOMAIN w = 0 .. q - 1
        BY <4>4, SliceLenIsNat
      <4>6. u.name \in DOMAIN resolver'[g] /\ resolver'[g][u.name] = resolver[g][u.name]
        BY <2>1, <2>2, <3>3, <4>2 DEF Holds
      <4> HIDE DEF u, w, q
      <4>7. \A i \in DOMAIN w : off + i \in DOMAIN arena /\ new[off + i] = Element(u, w[i])
        <5> SUFFICES ASSUME NEW i \in DOMAIN w
                     PROVE  off + i \in DOMAIN arena /\ new[off + i] = Element(u, w[i])
          OBVIOUS
        <5>1. off + i < cursor
          BY <1>2, <4>3, <4>5
        <5>2. off + i \in DOMAIN arena /\ arena[off + i] = Element(u, w[i])
          BY <3>3, <4>3
        <5> QED
          BY <1>4, <5>1, <5>2
      <4>8. off + q <= cursor'
        BY <1>2, <1>10, <2>3, <4>3, <4>5
      <4>9. mem'[g][Arena] = new /\ DOMAIN new = DOMAIN arena /\ Arena \in DOMAIN mem'[g]
        BY <1>1, <1>4, <1>6, <3>3
      <4>10. \A i \in DOMAIN w : /\ off + i \in DOMAIN mem'[g][Arena]
                                 /\ mem'[g][Arena][off + i] = Element(u, w[i])
        BY <4>7, <4>9
      <4> QED
        BY <4>3, <4>6, <4>8, <4>9, <4>10 DEF Holds, u, w, q
    <3>4. CASE g = gpu /\ k = item
      <4>1. \A i \in DOMAIN s : /\ cursor + i \in DOMAIN mem'[g][Arena]
                                /\ mem'[g][Arena][cursor + i] = Element(t, s[i])
        BY <1>4, <1>6, <3>4
      <4>2. cursor % Align = 0
        BY DEF MemInv, Filling
      <4>3. cursor + n <= cursor'
        BY <1>1, <1>2, <1>10, <2>3
      <4>4. /\ t.name \in DOMAIN resolver'[g]
            /\ resolver'[g][t.name].ptr = Pointer(g, Arena, cursor)
            /\ Arena \in DOMAIN mem'[g]
        BY <1>1, <1>6, <2>1, <2>2, <3>4
      <4>5. t = file[k] /\ s = WeightSlice(file[k], g) /\ n = SliceLen(file[k], g)
        BY <3>4 DEF t, n
      <4> HIDE DEF s
      <4> QED
        BY <1>2, <4>1, <4>2, <4>3, <4>4, <4>5 DEF Holds
    <3> QED
      BY <3>2, <3>3, <3>4
  <2>7. Filling'
    <3>1. SumOf(Strides(file, gpu), Rest(file, item))
            = Stride(n) + SumOf(Strides(file, gpu), Rest(file, item + 1))
      BY <1>1, RestNext DEF n, t
    <3>2. SumOf(Strides(file, gpu), Rest(file, item + 1)) \in Nat
      BY <1>1, StridesAreNat
    <3>3. cursor + SumOf(Strides(file, gpu), Rest(file, item)) = m /\ cursor % Align = 0
      BY DEF MemInv, Filling, m
    <3>4. cursor' + SumOf(Strides(file, gpu), Rest(file, item + 1)) = m
      BY <1>2, <1>10, <2>3, <3>1, <3>2, <3>3
    <3>5. cursor' % Align = 0
      BY <1>2, <1>10, <2>3, <3>3, AlignedSum
    <3> QED
      BY <1>1, <1>6, <1>10, <3>4, <3>5 DEF Filling, m
  <2>8. cursor' \in Nat
    BY <1>2, <1>10, <2>3
  <2> QED
    BY <1>5, <1>8, <2>1, <2>4, <2>5, <2>6, <2>7, <2>8 DEF MemInv
<1> QED
  BY <1>9, <1>10

LEMMA UploadTensorMem ==
  ASSUME MemInv, ControlInv, UploadTensor
  PROVE  MemInv'
<1> DEFINE t == file[item]  n == SliceLen(t, gpu)
<1>1. hpc = "upload" /\ item \in DOMAIN file /\ file' = file /\ gpu \in GPU /\ gpu' = gpu
  BY DEF UploadTensor, ControlInv
<1>2. CASE Skipped(t)
  <2>1. item' = item + 1 /\ UNCHANGED <<hpc, gpu, file, resolver, cursor, mem>>
    BY <1>2 DEF UploadTensor
  <2> QED
    BY <1>1, <1>2, <2>1, SkipMem
<1>3. CASE ~ Skipped(t) /\ cursor + n > Cardinality(DOMAIN mem[gpu][Arena])
  <2>1. hpc' = "exited" /\ UNCHANGED <<gpu, item, file, resolver, cursor, mem>>
    BY <1>3 DEF UploadTensor
  <2>2. StageKept
    BY <1>1, <2>1, SetupEnds
  <2> QED
    BY <1>1, <2>1, <2>2, SameMemory
<1>4. CASE ~ Skipped(t) /\ ~ (cursor + n > Cardinality(DOMAIN mem[gpu][Arena]))
  <2>1. /\ mem' = [mem EXCEPT ![gpu][Arena] = Copied(@, cursor, t, WeightSlice(t, gpu))]
        /\ \/ hpc' = "threw" /\ UNCHANGED <<item, resolver, cursor>>
           \/ /\ t.name \notin DOMAIN resolver[gpu]
              /\ resolver' = [resolver EXCEPT ![gpu] =
                   Added(@, t.name, Pointer(gpu, Arena, cursor), n)]
              /\ cursor' = cursor + Stride(n) /\ item' = item + 1 /\ hpc' = hpc
    BY <1>4, Zenon DEF UploadTensor
  <2> QED
    BY <1>1, <1>4, <2>1, CopyMem
<1> QED
  BY <1>2, <1>3, <1>4

\* What the union of two functions is.
LEMMA UnionValues ==
  ASSUME NEW f, NEW h
  PROVE  /\ DOMAIN (f ++ h) = DOMAIN f \cup DOMAIN h
         /\ \A x \in DOMAIN f : (f ++ h)[x] = f[x]
         /\ \A x \in DOMAIN h \ DOMAIN f : (f ++ h)[x] = h[x]
BY DEF ++

\* A step that allocates more, once the weights have been uploaded.
Allocates ==
  /\ UNCHANGED <<file, cursor>>
  /\ hpc \in {"mailbox", "init"} /\ hpc' \in {"init", "pack"}
  /\ mem' = [g \in GPU |-> mem'[g]] /\ resolver' = [g \in GPU |-> resolver'[g]]
  /\ \A g \in GPU :
       /\ DOMAIN mem[g] \subseteq DOMAIN mem'[g]
       /\ \A b \in DOMAIN mem[g] : mem'[g][b] = mem[g][b]
       /\ \A b \in DOMAIN mem'[g] \ DOMAIN mem[g] :
            b # Arena /\ (b \in Bufs => DOMAIN mem'[g][b] = 0 .. Cells(b) - 1)
       /\ DOMAIN resolver[g] \subseteq DOMAIN resolver'[g]
       /\ \A b \in DOMAIN resolver[g] : resolver'[g][b] = resolver[g][b]
       /\ \A b \in DOMAIN resolver'[g] \ DOMAIN resolver[g] : IsBuffer(g, b, resolver[g][b])'

LEMMA AllocatedMem ==
  ASSUME MemInv, Allocates, Stages'
  PROVE  MemInv'
<1>1. Shapes'
  <2>1. ASSUME NEW g \in GPU, NEW b \in DOMAIN mem'[g]
        PROVE  /\ b = Arena => DOMAIN mem'[g][b] = 0 .. ArenaLen(file, g) - 1
               /\ b \in Bufs => DOMAIN mem'[g][b] = 0 .. Cells(b) - 1
    <3>1. CASE b \in DOMAIN mem[g]
      BY <3>1 DEF MemInv, Shapes, Allocates
    <3>2. CASE b \notin DOMAIN mem[g]
      BY <2>1, <3>2 DEF Allocates
    <3> QED
      BY <3>1, <3>2
  <2> QED
    BY <2>1 DEF Shapes, Allocates
<1>2. Resolved'
  <2>1. ASSUME NEW g \in GPU, NEW b \in DOMAIN resolver'[g]
        PROVE  InArena(g, resolver[g][b])' \/ IsBuffer(g, b, resolver[g][b])'
    <3>1. CASE b \in DOMAIN resolver[g]
      <4>1. InArena(g, resolver[g][b]) \/ IsBuffer(g, b, resolver[g][b])
        BY <3>1 DEF MemInv, Resolved
      <4>2. resolver'[g][b] = resolver[g][b] /\ DOMAIN mem[g] \subseteq DOMAIN mem'[g]
            /\ file' = file
        BY <3>1 DEF Allocates
      <4> QED
        BY <4>1, <4>2 DEF InArena, IsBuffer
    <3>2. CASE b \notin DOMAIN resolver[g]
      BY <2>1, <3>2 DEF Allocates
    <3> QED
      BY <3>1, <3>2
  <2> QED
    BY <2>1 DEF Resolved
<1>3. Loaded'
  <2> SUFFICES ASSUME NEW g \in GPU, NEW k \in DOMAIN file, ~ Skipped(file[k])
               PROVE  Holds(g, file[k])'
    BY DEF Loaded, Allocates
  <2>1. Holds(g, file[k])
    BY DEF MemInv, Loaded, Uploaded, Allocates
  <2>2. /\ mem'[g][Arena] = mem[g][Arena] /\ Arena \in DOMAIN mem'[g]
        /\ file[k].name \in DOMAIN resolver'[g]
        /\ resolver'[g][file[k].name] = resolver[g][file[k].name]
    BY <2>1 DEF Holds, Allocates
  <2>3. hpc' # "upload" /\ file' = file
    BY DEF Allocates
  <2> QED
    BY <2>1, <2>2, <2>3 DEF Holds
<1>4. Filling' /\ cursor' \in Nat
  BY DEF Filling, Allocates, MemInv
<1> QED
  BY <1>1, <1>2, <1>3, <1>4 DEF MemInv, Allocates

LEMMA AllocMailboxesMem ==
  ASSUME MemInv, ControlInv, AllocMailboxes
  PROVE  MemInv'
<1> DEFINE pay == [b \in {Payload} |-> ZeroFilled(Cardinality(MailboxSites) * Embd)]
           seq == [b \in {Seqno} |-> [s \in MailboxSites |-> 0]]
<1>1. /\ hpc = "mailbox" /\ hpc' = "init" /\ gpu' = 0
      /\ mem' = [g \in GPU |-> mem[g] ++ pay ++ seq] /\ UNCHANGED <<file, resolver, cursor>>
  BY DEF AllocMailboxes, Goto
<1>2. DOMAIN pay = {Payload} /\ DOMAIN seq = {Seqno}
  OBVIOUS
<1> HIDE DEF pay, seq
<1>3. ASSUME NEW g \in GPU
      PROVE  /\ DOMAIN mem'[g] = DOMAIN mem[g] \cup {Payload, Seqno}
             /\ \A b \in DOMAIN mem[g] : mem'[g][b] = mem[g][b]
  <2> DEFINE one == mem[g] ++ pay  both == one ++ seq
  <2>1. mem'[g] = both
    BY <1>1
  <2>2. DOMAIN one = DOMAIN mem[g] \cup {Payload} /\ \A b \in DOMAIN mem[g] : one[b] = mem[g][b]
    <3>1. DOMAIN (mem[g] ++ pay) = DOMAIN mem[g] \cup DOMAIN pay
          /\ \A b \in DOMAIN mem[g] : (mem[g] ++ pay)[b] = mem[g][b]
      BY UnionValues
    <3> QED
      BY <1>2, <3>1
  <2> HIDE DEF one
  <2>3. DOMAIN both = DOMAIN one \cup {Seqno} /\ \A b \in DOMAIN one : both[b] = one[b]
    <3>1. DOMAIN (one ++ seq) = DOMAIN one \cup DOMAIN seq
          /\ \A b \in DOMAIN one : (one ++ seq)[b] = one[b]
      BY UnionValues
    <3> QED
      BY <1>2, <3>1
  <2> HIDE DEF both
  <2> QED
    BY <2>1, <2>2, <2>3
<1>4. mem' = [g \in GPU |-> mem'[g]]
  BY <1>1
<1>5. Allocates
  <2>1. resolver' = [g \in GPU |-> resolver'[g]]
    BY <1>1 DEF MemInv
  <2>2. ASSUME NEW g \in GPU
        PROVE  /\ DOMAIN mem[g] \subseteq DOMAIN mem'[g]
               /\ \A b \in DOMAIN mem[g] : mem'[g][b] = mem[g][b]
               /\ \A b \in DOMAIN mem'[g] \ DOMAIN mem[g] : b # Arena /\ b \notin Bufs
    BY <1>3, BuffersApart
  <2> QED
    BY <1>1, <1>4, <2>1, <2>2 DEF Allocates
<1>6. Stages'
  <2>1. file \in Files /\ \A g \in GPU : DOMAIN mem[g] \cap Bufs = {}
    BY <1>1 DEF MemInv, Stages, Unbuffered
  <2>2. \A g \in GPU : DOMAIN mem'[g] \cap Bufs = {}
    BY <1>3, <2>1, BuffersApart
  <2> QED
    BY <1>1, <2>1, <2>2 DEF Stages, Bare, Unloaded, Unbuffered, Ready, GPU
<1> QED
  BY <1>5, <1>6, AllocatedMem

LEMMA AllocBuffersMem ==
  ASSUME MemInv, ControlInv, AllocBuffers
  PROVE  MemInv'
<1> DEFINE zero == [b \in Bufs |-> ZeroFilled(Cells(b))]
           named == [b \in Bufs |-> [ptr |-> Pointer(gpu, b, 0), n |-> Cells(b)]]
<1>1. /\ hpc = "init" /\ gpu \in GPU /\ UNCHANGED <<gpu, file, cursor>>
      /\ \/ /\ Bufs \cap DOMAIN resolver[gpu] = {}
            /\ mem' = [mem EXCEPT ![gpu] = mem[gpu] ++ zero]
            /\ resolver' = [resolver EXCEPT ![gpu] = resolver[gpu] ++ named]
            /\ hpc' = "pack"
         \/ hpc' = "threw" /\ UNCHANGED <<item, mem, resolver>>
  BY DEF AllocBuffers, Bufs, Cells, ControlInv
<1>2. CASE hpc' = "threw" /\ UNCHANGED <<item, mem, resolver>>
  <2>1. StageKept
    BY <1>1, <1>2, SetupEnds
  <2> QED
    BY <1>1, <1>2, <2>1, SameMemory
<1>3. CASE /\ Bufs \cap DOMAIN resolver[gpu] = {}
           /\ mem' = [mem EXCEPT ![gpu] = mem[gpu] ++ zero]
           /\ resolver' = [resolver EXCEPT ![gpu] = resolver[gpu] ++ named]
           /\ hpc' = "pack"
  <2>1. DOMAIN mem[gpu] \cap Bufs = {}
    BY <1>1 DEF MemInv, Stages, Unbuffered, GPU
  <2>2. DOMAIN zero = Bufs /\ \A b \in Bufs : DOMAIN zero[b] = 0 .. Cells(b) - 1
    BY DEF ZeroFilled
  <2>3. DOMAIN named = Bufs
        /\ \A b \in Bufs : named[b].ptr = Pointer(gpu, b, 0) /\ named[b].n = Cells(b)
    OBVIOUS
  <2> HIDE DEF zero, named
  <2>4. /\ mem' = [g \in GPU |-> mem'[g]] /\ mem'[gpu] = mem[gpu] ++ zero
        /\ \A g \in GPU \ {gpu} : mem'[g] = mem[g]
    BY <1>1, <1>3 DEF MemInv
  <2>5. /\ resolver' = [g \in GPU |-> resolver'[g]] /\ resolver'[gpu] = resolver[gpu] ++ named
        /\ \A g \in GPU \ {gpu} : resolver'[g] = resolver[g]
    BY <1>1, <1>3 DEF MemInv
  <2>6. /\ DOMAIN mem'[gpu] = DOMAIN mem[gpu] \cup Bufs
        /\ \A b \in DOMAIN mem[gpu] : mem'[gpu][b] = mem[gpu][b]
        /\ \A b \in Bufs : DOMAIN mem'[gpu][b] = 0 .. Cells(b) - 1
    <3>1. /\ DOMAIN (mem[gpu] ++ zero) = DOMAIN mem[gpu] \cup Bufs
          /\ \A b \in DOMAIN mem[gpu] : (mem[gpu] ++ zero)[b] = mem[gpu][b]
          /\ \A b \in Bufs \ DOMAIN mem[gpu] : (mem[gpu] ++ zero)[b] = zero[b]
      <4>1. /\ DOMAIN (mem[gpu] ++ zero) = DOMAIN mem[gpu] \cup DOMAIN zero
            /\ \A b \in DOMAIN mem[gpu] : (mem[gpu] ++ zero)[b] = mem[gpu][b]
            /\ \A b \in DOMAIN zero \ DOMAIN mem[gpu] : (mem[gpu] ++ zero)[b] = zero[b]
        BY UnionValues
      <4> QED
        BY <2>2, <4>1
    <3>2. \A b \in Bufs : mem'[gpu][b] = zero[b]
      BY <2>1, <2>4, <3>1
    <3> QED
      BY <2>2, <2>4, <3>1, <3>2
  <2>7. /\ DOMAIN resolver'[gpu] = DOMAIN resolver[gpu] \cup Bufs
        /\ \A b \in DOMAIN resolver[gpu] : resolver'[gpu][b] = resolver[gpu][b]
        /\ \A b \in Bufs : /\ resolver'[gpu][b].ptr = Pointer(gpu, b, 0)
                           /\ resolver'[gpu][b].n = Cells(b)
    <3>1. /\ DOMAIN (resolver[gpu] ++ named) = DOMAIN resolver[gpu] \cup Bufs
          /\ \A b \in DOMAIN resolver[gpu] : (resolver[gpu] ++ named)[b] = resolver[gpu][b]
          /\ \A b \in Bufs \ DOMAIN resolver[gpu] : (resolver[gpu] ++ named)[b] = named[b]
      <4>1. /\ DOMAIN (resolver[gpu] ++ named) = DOMAIN resolver[gpu] \cup DOMAIN named
            /\ \A b \in DOMAIN resolver[gpu] : (resolver[gpu] ++ named)[b] = resolver[gpu][b]
            /\ \A b \in DOMAIN named \ DOMAIN resolver[gpu] :
                 (resolver[gpu] ++ named)[b] = named[b]
        BY UnionValues
      <4> QED
        BY <2>3, <4>1
    <3>2. \A b \in Bufs : resolver'[gpu][b] = named[b]
      BY <1>3, <2>5, <3>1
    <3> QED
      BY <2>3, <2>5, <3>1, <3>2
  <2>8. Allocates
    <3>1. ASSUME NEW g \in GPU
          PROVE  /\ DOMAIN mem[g] \subseteq DOMAIN mem'[g]
                 /\ \A b \in DOMAIN mem[g] : mem'[g][b] = mem[g][b]
                 /\ \A b \in DOMAIN mem'[g] \ DOMAIN mem[g] :
                      b # Arena /\ (b \in Bufs => DOMAIN mem'[g][b] = 0 .. Cells(b) - 1)
      BY <2>4, <2>6, BuffersApart
    <3>2. ASSUME NEW g \in GPU
          PROVE  /\ DOMAIN resolver[g] \subseteq DOMAIN resolver'[g]
                 /\ \A b \in DOMAIN resolver[g] : resolver'[g][b] = resolver[g][b]
                 /\ \A b \in DOMAIN resolver'[g] \ DOMAIN resolver[g] :
                      IsBuffer(g, b, resolver[g][b])'
      <4>1. CASE g = gpu
        BY <2>6, <2>7, <4>1 DEF IsBuffer
      <4>2. CASE g # gpu
        BY <2>5, <4>2
      <4> QED
        BY <4>1, <4>2
    <3> QED
      BY <1>1, <1>3, <2>4, <2>5, <3>1, <3>2 DEF Allocates
  <2>9. Stages'
    <3>1. ASSUME NEW g \in GPU
          PROVE  (g > gpu => DOMAIN mem'[g] \cap Bufs = {})
                 /\ (g <= gpu => Buffered(g, resolver'[g]))
      <4>1. CASE g > gpu
        <5>1. DOMAIN mem[g] \cap Bufs = {}
          BY <1>1, <4>1 DEF MemInv, Stages, Unbuffered, GPU
        <5> QED
          BY <1>1, <2>4, <4>1, <5>1 DEF GPU
      <4>2. CASE g < gpu
        <5>1. Buffered(g, resolver[g])
          BY <1>1, <4>2 DEF MemInv, Stages, Ready
        <5> QED
          BY <1>1, <2>5, <4>2, <5>1 DEF GPU
      <4>3. CASE g = gpu
        BY <1>1, <2>7, <4>3 DEF Buffered, GPU
      <4> QED
        BY <1>1, <4>1, <4>2, <4>3 DEF GPU
    <3>2. file \in Files
      BY <1>1 DEF MemInv, Stages
    <3>3. ASSUME NEW g \in GPU
          PROVE  ~ Bare' /\ ~ Unloaded(g)' /\ (Unbuffered(g)' => g > gpu)
                 /\ (Ready(g)' => g <= gpu)
      BY <1>1, <1>3 DEF Bare, Unloaded, Unbuffered, Ready
    <3> QED
      BY <1>1, <3>1, <3>2, <3>3 DEF Stages, Buffered
  <2> QED
    BY <2>8, <2>9, AllocatedMem
<1> QED
  BY <1>1, <1>2, <1>3

\* A step that only stores outside the arenas.
LEMMA StoredMem ==
  ASSUME MemInv, gpu \in GPU, NEW writes, \A w \in writes : w.to.buf # Arena,
         mem' = Stored(mem, writes), UNCHANGED <<hpc, gpu, item, file, resolver, cursor>>
  PROVE  MemInv'
<1>1. DOMAIN mem = GPU
  BY DEF MemInv
<1>2. mem' = [g \in GPU |-> mem'[g]] /\ \A g \in GPU : Keeps(mem[g], mem'[g])
  BY <1>1, StoredKeeps
<1>3. NoFurther
  BY <1>2 DEF NoFurther, Bare, Unloaded, Unbuffered, Ready, Uploaded
<1> QED
  BY <1>3, MemInvKept

(***************************************************************************)
(* What a kernel stores fits: the buffers and the mailboxes are there when *)
(* it runs, as long as they were made, and the row of a pass is one of the *)
(* cache.                                                                  *)
(***************************************************************************)
RowCell == <<0, "kv_row">>

\* A cell that holds v.
One(v) == [i \in {0} |-> v]

\* No kernel writes the row the host has given the pass.
RowInv ==
  hpc \in {"ring", "wait"} =>
    /\ pass \in 1 .. NCtx
    /\ \A g \in GPU : RowCell \in DOMAIN mem[g] /\ mem[g][RowCell] = One(pass - 1)

\* The mailboxes have not been allocated yet.
Unwired == Bare \/ hpc \in {"arena", "upload", "mailbox"}

MailInv ==
  \A g \in GPU :
    /\ Unwired => Payload \notin DOMAIN mem[g]
    /\ hpc \in {"init", "pack", "idle", "ring", "wait"} =>
         Payload \in DOMAIN mem[g] /\ DOMAIN mem[g][Payload] = 0 .. Room(Payload) - 1

LEMMA ContainedApart ==
  ASSUME NEW w, Contained(w)
  PROVE  w.to.buf # Arena /\ w.to.buf # RowCell
<1>1. PICK g, b, off : b \in Outputs \cup {Payload} /\ w.to = Pointer(g, b, off)
  BY DEF Contained
<1>2. b # Arena
  BY <1>1, BuffersApart DEF Outputs
<1>3. b # RowCell
  BY <1>1 DEF Outputs, Payload, RowCell
<1> QED
  BY <1>1, <1>2, <1>3 DEF Pointer

\* The row an append reads.
LEMMA RowWithin ==
  ASSUME RowInv, hpc \in {"ring", "wait"}, NEW ins, Aside(ins), ins.kind = "KV_APPEND"
  PROVE  Load(mem, ins.p.row_idx, 0) \in 0 .. NCtx - 1
<1>1. PICK g \in GPU : ins.p.row_idx = Pointer(g, RowCell, 0)
  BY DEF Aside, RowCell
<1> DEFINE q == ins.p.row_idx
<1>2. q.gpu = g /\ q.buf = RowCell /\ q.off = 0
  BY <1>1 DEF Pointer
<1>3. mem[g][RowCell] = One(pass - 1) /\ pass \in 1 .. NCtx
  BY DEF RowInv
<1> DEFINE cells == mem[g][RowCell]
<1>4. DOMAIN cells = {0} /\ cells[0] = pass - 1
  BY <1>3 DEF One
<1> HIDE DEF q, cells
<1>5. Load(mem, q, 0) = pass - 1
  BY <1>2, <1>4 DEF Load, cells
<1>6. pass - 1 \in 0 .. NCtx - 1
  BY <1>3, PackerAssumption
<1> QED
  BY <1>5, <1>6 DEF q

\* Once a GPU's buffers are allocated they are there, as long as the table says.
LEMMA BuffersThere ==
  ASSUME MemInv, NEW g \in GPU, Ready(g), NEW b \in Bufs
  PROVE  b \in DOMAIN mem[g] /\ DOMAIN mem[g][b] = 0 .. Cells(b) - 1
<1>1. b \in DOMAIN resolver[g] /\ resolver[g][b].ptr = Pointer(g, b, 0)
  BY DEF MemInv, Stages, Buffered
<1>2. InArena(g, resolver[g][b]) \/ IsBuffer(g, b, resolver[g][b])
  BY <1>1 DEF MemInv, Resolved
<1>3. CASE InArena(g, resolver[g][b])
  <2>1. PICK off : Pointer(g, b, 0) = Pointer(g, Arena, off)
    BY <1>1, <1>3 DEF InArena
  <2>2. b = Arena
    BY <2>1 DEF Pointer
  <2> QED
    BY <2>2, BuffersApart
<1>4. CASE IsBuffer(g, b, resolver[g][b])
  BY <1>4 DEF IsBuffer, MemInv, Shapes
<1> QED
  BY <1>2, <1>3, <1>4

LEMMA WritesFit ==
  ASSUME MemInv, MailInv, hpc \in {"ring", "wait"}, NEW writes, \A w \in writes : Contained(w)
  PROVE  InBounds(mem, writes)
<1> SUFFICES ASSUME NEW w \in writes, NEW i \in DOMAIN w.val
             PROVE  w.to.off + i \in DOMAIN mem[w.to.gpu][w.to.buf]
  BY DEF InBounds
<1>1. PICK g \in GPU, b \in Outputs \cup {Payload}, off \in Nat :
        w.to = Pointer(g, b, off) /\ \A j \in DOMAIN w.val : j \in Nat /\ off + j < Room(b)
  BY DEF Contained
<1>2. w.to.gpu = g /\ w.to.buf = b /\ w.to.off = off
  BY <1>1 DEF Pointer
<1>3. DOMAIN mem[g][b] = 0 .. Room(b) - 1 /\ Room(b) \in Nat
  <2>1. CASE b = Payload
    BY <2>1, PayloadsFit DEF MailInv, Room
  <2>2. CASE b \in Outputs
    <3>1. b \in Bufs /\ Ready(g) /\ Room(b) = Cells(b)
      BY <2>2, RoomIsCells DEF Outputs, Ready
    <3> QED
      BY <3>1, BuffersThere, CellsAreNat
  <2> QED
    BY <2>1, <2>2
<1>4. off + i \in 0 .. Room(b) - 1
  BY <1>1, <1>3
<1> QED
  BY <1>2, <1>3, <1>4

\* A step of a kernel: it stores, but in no arena and not over the row, and the host
\* stays where it is.
StoresApart(writes) ==
  /\ \A w \in writes : w.to.buf # Arena /\ w.to.buf # RowCell
  /\ mem' = Stored(mem, writes)

LEMMA KernelStores ==
  ASSUME MemInv, MailInv, RowInv, ProgInv,
         NEW g \in GPU, ExecuteOp(g) \/ Publish(g) \/ Fold(g)
  PROVE  /\ \E writes : StoresApart(writes)
         /\ hpc \in {"ring", "wait"} /\ UNCHANGED <<hvars, dvars, pass>>
<1> DEFINE ins == prog[g][at[g]]
<1>1. hpc \in {"ring", "wait"} /\ at[g] \in DOMAIN prog[g] /\ UNCHANGED <<dvars, pass>>
  BY DEF ExecuteOp, Publish, Fold, Running
<1>2. Aside(ins)
  BY <1>1 DEF ProgInv
<1>3. CASE ExecuteOp(g) \/ Fold(g)
  <2>1. Store(g, Execute(mem, ins))
    BY <1>3 DEF ExecuteOp, Fold
  <2> HIDE DEF ins
  <2> DEFINE writes == Execute(mem, ins)  named == Named(writes, names)
  <2>2. \A w \in writes : Contained(w)
    BY <1>1, <1>2, RowWithin, ExecuteLands
  <2> HIDE DEF writes
  <2>3. InBounds(mem, writes)
    BY <1>1, <2>2, WritesFit
  <2>4. mem' = Stored(mem, named) /\ UNCHANGED hvars
    BY <2>1, <2>3 DEF Store, writes
  <2>5. \A w \in writes : w.to.buf # Arena /\ w.to.buf # RowCell
    BY <2>2, ContainedApart
  <2>6. \A w \in named : w.to.buf # Arena /\ w.to.buf # RowCell
    BY <2>5, NamedTo
  <2> HIDE DEF named
  <2> QED
    BY <1>1, <2>4, <2>6 DEF StoresApart
<1>4. CASE Publish(g)
  <2> DEFINE w == Write(ins.p.peer_seqno, [i \in {0} |-> ins.n.seqno])
  <2>1. ins.kind = "XCHG_REDUCE" /\ mem' = Stored(mem, {w}) /\ UNCHANGED hvars
    BY <1>4 DEF Publish
  <2>2. w.to = ins.p.peer_seqno
    BY WriteOf
  <2> HIDE DEF w, ins
  <2>3. PICK h, s : ins.p.peer_seqno = Pointer(h, Seqno, s)
    BY <1>2, <2>1 DEF Aside
  <2>4. w.to.buf = Seqno
    BY <2>2, <2>3 DEF Pointer
  <2>5. Seqno # Arena /\ Seqno # RowCell
    BY DEF Seqno, Arena, RowCell
  <2>6. StoresApart({w})
    BY <2>1, <2>4, <2>5 DEF StoresApart
  <2> QED
    BY <1>1, <2>1, <2>6
<1> QED
  BY <1>3, <1>4

LEMMA StoredLeaves ==
  ASSUME NEW m, NEW writes, NEW c, \A w \in writes : w.to.buf # c,
         NEW g \in DOMAIN m, c \in DOMAIN m[g]
  PROVE  Stored(m, writes)[g][c] = m[g][c]
<1> DEFINE here(h, b) == {w \in writes : w.to.gpu = h /\ w.to.buf = b}
           put(h, b) == [i \in DOMAIN m[h][b] |->
             LET by == {w \in here(h, b) : i >= w.to.off /\ i - w.to.off \in DOMAIN w.val}
             IN IF by = {} THEN m[h][b][i]
                ELSE LET w == CHOOSE w \in by : TRUE IN w.val[i - w.to.off]]
           new(h, b) == IF here(h, b) = {} THEN m[h][b] ELSE put(h, b)
           n == [h \in DOMAIN m |-> [b \in DOMAIN m[h] |-> new(h, b)]]
<1>1. Stored(m, writes) = n
  BY Zenon DEF Stored
<1>2. here(g, c) = {}
  OBVIOUS
<1> HIDE DEF put
<1>3. new(g, c) = m[g][c]
  BY <1>2
<1> HIDE DEF new
<1>4. n[g][c] = new(g, c)
  OBVIOUS
<1> HIDE DEF n
<1> QED
  BY <1>1, <1>3, <1>4

LEMMA WriteInputsMem ==
  ASSUME MemInv, ControlInv, WriteInputs
  PROVE  MemInv'
<1>1. /\ hpc = "idle" /\ hpc' = "ring" /\ UNCHANGED <<file, resolver, cursor>> /\ gpu \in GPU
      /\ mem' = [g \in GPU |-> SetToken(SetPassInputs(mem[g], pass), Tokens[pass + 1])]
  BY DEF WriteInputs, Goto, ControlInv
<1>2. ASSUME NEW g \in GPU
      PROVE  Keeps(mem[g], mem'[g])
  <2>1. \A b \in DOMAIN mem[g] \cap Bufs : DOMAIN mem[g][b] = 0 .. Cells(b) - 1
    BY DEF MemInv, Shapes
  <2>2. Keeps(mem[g], SetToken(SetPassInputs(mem[g], pass), Tokens[pass + 1]))
    BY <2>1, InputsKeep
  <2> QED
    BY <1>1, <2>2
<1>3. mem' = [g \in GPU |-> mem'[g]]
  BY <1>1
<1>4. NoFurther
  BY <1>1, <1>2, <1>3 DEF NoFurther, Bare, Unloaded, Unbuffered, Ready, Uploaded
<1> QED
  BY <1>1, <1>4, MemInvKept

LEMMA MemInvNext ==
  ASSUME MemInv, ControlInv, ProgInv, RowInv, MailInv, [Next]_vars
  PROVE  MemInv'
<1> DEFINE same == UNCHANGED <<file, resolver, cursor, mem>>
<1>0. gpu \in GPU
  BY DEF ControlInv
<1>1. ASSUME StageKept, same PROVE MemInv'
  BY <1>0, <1>1, SameMemory
<1>2. CASE UNCHANGED vars \/ RunWhole
  <2>1. same /\ UNCHANGED <<hpc, gpu, item>>
    BY <1>2 DEF RunWhole, vars, dvars, hvars
  <2>2. StageKept
    BY <2>1 DEF StageKept, Bare, Unloaded, Unbuffered, Ready, Uploaded
  <2> QED
    BY <1>1, <2>1, <2>2
<1>3. ASSUME NEW f \in Files, Open(f) PROVE MemInv'
  BY <1>3, OpenMem
<1>4. CASE Validate
  <2>1. same /\ hpc = "validate" /\ hpc' \in {"peer", "refused"}
    BY <1>4 DEF Validate, Goto, dvars
  <2>2. StageKept
    BY <2>1 DEF StageKept, Bare, Unloaded, Unbuffered, Ready, Uploaded
  <2> QED
    BY <1>1, <2>1, <2>2
<1>5. CASE EnablePeerAccess
  <2>1. same /\ hpc = "peer" /\ hpc' = "arena" /\ gpu' = 0
    BY <1>5 DEF EnablePeerAccess, Goto, dvars
  <2>2. StageKept
    BY <2>1 DEF StageKept, Bare, Unloaded, Unbuffered, Ready, Uploaded, GPU
  <2> QED
    BY <1>1, <2>1, <2>2
<1>6. CASE AllocArena
  BY <1>6, AllocArenaMem
<1>7. CASE UploadTensor
  BY <1>7, UploadTensorMem
<1>8. CASE UploadDone
  <2>1. /\ same /\ hpc = "upload" /\ item = Len(file) + 1
        /\ \/ gpu = 0 /\ hpc' = "arena" /\ gpu' = 1
           \/ gpu = 1 /\ hpc' = "mailbox" /\ gpu' = 0
    BY <1>0, <1>8 DEF UploadDone, Next2, Goto, dvars, GPU
  <2>2. \A k \in DOMAIN file : k < item
    <3>1. file \in Seq(TensorSet)
      BY <2>1, FileTensors
    <3> QED
      BY <2>1, <3>1
  <2>3. StageKept
    BY <2>1, <2>2 DEF StageKept, Bare, Unloaded, Unbuffered, Ready, Uploaded, GPU
  <2> QED
    BY <1>1, <2>1, <2>3
<1>9. CASE AllocMailboxes
  BY <1>9, AllocMailboxesMem
<1>10. CASE AllocBuffers
  BY <1>10, AllocBuffersMem
<1>11. CASE Pack
  <2>1. same /\ hpc = "pack" /\ hpc' \in {"pack", "threw"} /\ gpu' = gpu
    BY <1>11 DEF Pack
  <2>2. StageKept
    BY <2>1 DEF StageKept, Bare, Unloaded, Unbuffered, Ready, Uploaded
  <2> QED
    BY <1>1, <2>1, <2>2
<1>12. CASE Launch
  <2>1. /\ same /\ hpc = "pack"
        /\ \/ gpu = 0 /\ hpc' = "init" /\ gpu' = 1
           \/ gpu = 1 /\ hpc' = "idle" /\ gpu' = 0
    BY <1>0, <1>12 DEF Launch, Next2, Goto, dvars, GPU
  <2>2. StageKept
    BY <2>1 DEF StageKept, Bare, Unloaded, Unbuffered, Ready, Uploaded, GPU
  <2> QED
    BY <1>1, <2>1, <2>2
<1>13. CASE SetupThrows \/ CudaError \/ Shutdown
  <2>1. same /\ hpc # "whole" /\ hpc' \in {"threw", "exited", "down"}
    BY <1>13 DEF SetupThrows, CudaError, ChecksFail, Shutdown, dvars
  <2>2. StageKept
    BY <1>0, <2>1, SetupEnds
  <2> QED
    BY <1>1, <2>1, <2>2
<1>14. CASE WriteInputs
  BY <1>14, WriteInputsMem
<1>15. CASE RingDoorbell \/ Return
  <2>1. same /\ hpc \in {"ring", "wait"} /\ hpc' \in {"ring", "wait", "idle"}
    BY <1>15 DEF RingDoorbell, Return, Next2, Goto, dvars
  <2>2. StageKept
    BY <2>1 DEF StageKept, Bare, Unloaded, Unbuffered, Ready, Uploaded
  <2> QED
    BY <1>1, <2>1, <2>2
<1>16. ASSUME NEW g \in GPU, ExecuteOp(g) \/ Publish(g) \/ Fold(g) PROVE MemInv'
  <2>1. PICK writes : StoresApart(writes)
    BY <1>16, KernelStores
  <2>2. UNCHANGED <<hvars, dvars>>
    BY <1>16, KernelStores
  <2>3. UNCHANGED <<hpc, gpu, item, file, resolver, cursor>>
    BY <2>2 DEF hvars, dvars
  <2> QED
    BY <1>0, <2>1, <2>3, StoredMem DEF StoresApart
<1> QED
  BY <1>2, <1>3, <1>4, <1>5, <1>6, <1>7, <1>8, <1>9, <1>10, <1>11, <1>12, <1>13, <1>14,
     <1>15, <1>16 DEF Next

\* The row cell of a pass.
LEMMA InputsRow ==
  ASSUME NEW d, NEW pos, NEW token, RowCell \in DOMAIN d
  PROVE  /\ RowCell \in DOMAIN SetToken(SetPassInputs(d, pos), token)
         /\ SetToken(SetPassInputs(d, pos), token)[RowCell] = One(pos)
<1> DEFINE ps == <<0, "positions">>  nk == <<0, "n_kv">>
           mk == <<0, "mask_f16">>  tk == <<0, "token">>
           mask == [j \in DOMAIN d[mk] |-> IF j < Window(pos)
                                           THEN IF j <= pos THEN Zero ELSE NegInf
                                           ELSE d[mk][j]]
           e == SetToken(SetPassInputs(d, pos), token)
           d1 == [d EXCEPT ![ps] = One(pos)]
           d2 == [d1 EXCEPT ![RowCell] = One(pos)]
           d3 == [d2 EXCEPT ![nk] = One(Window(pos))]
           d4 == [d3 EXCEPT ![mk] = mask]
           d5 == [d4 EXCEPT ![tk] = One(token)]
<1>1. ps # RowCell /\ nk # RowCell /\ mk # RowCell /\ tk # RowCell /\ mk # ps /\ mk # nk
  BY DEF RowCell
<1> HIDE DEF mask
<1>2. e = d5
  BY <1>1 DEF SetToken, SetPassInputs, RowCell, One, mask
<1> HIDE DEF ps, nk, mk, tk, e
<1>3. RowCell \in DOMAIN d5 /\ d5[RowCell] = One(pos)
  BY <1>1
<1> HIDE DEF d5
<1> QED
  BY <1>2, <1>3 DEF e

LEMMA RowInvInit == Init => RowInv
BY DEF Init, RowInv

LEMMA WriteInputsRow ==
  ASSUME MemInv, ControlInv, WriteInputs
  PROVE  RowInv'
<1>1. /\ hpc = "idle" /\ pass < Len(Tokens) /\ pass' = pass + 1
      /\ mem' = [g \in GPU |-> SetToken(SetPassInputs(mem[g], pass), Tokens[pass + 1])]
  BY DEF WriteInputs
<1>2. pass \in Nat /\ pass' \in 1 .. NCtx
  BY <1>1, WholeModelAssumption, PackerAssumption DEF ControlInv
<1>3. ASSUME NEW g \in GPU
      PROVE  RowCell \in DOMAIN mem'[g] /\ mem'[g][RowCell] = One(pass)
  <2>1. RowCell \in Bufs
    BY PassCellsAreOne DEF RowCell
  <2>2. RowCell \in DOMAIN mem[g]
    BY <1>1, <2>1, BuffersThere DEF Ready
  <2> DEFINE d == mem[g]  t == Tokens[pass + 1]  e == SetToken(SetPassInputs(d, pass), t)
  <2>3. mem'[g] = e
    BY <1>1
  <2>4. RowCell \in DOMAIN d
    BY <2>2
  <2> HIDE DEF d, t
  <2>5. RowCell \in DOMAIN e /\ e[RowCell] = One(pass)
    BY <2>4, InputsRow
  <2> HIDE DEF e
  <2> QED
    BY <2>3, <2>5
<1>4. pass' - 1 = pass
  BY <1>1, <1>2
<1> QED
  BY <1>2, <1>3, <1>4 DEF RowInv

\* A step of a kernel leaves the row alone, and the mailboxes as long as they are.
LEMMA KernelKeeps ==
  ASSUME MemInv, MailInv, RowInv, ProgInv,
         NEW g \in GPU, ExecuteOp(g) \/ Publish(g) \/ Fold(g)
  PROVE  RowInv' /\ MailInv'
<1>1. PICK writes : StoresApart(writes)
  BY KernelStores
<1>2. hpc \in {"ring", "wait"} /\ hpc' = hpc /\ pass' = pass
  BY KernelStores DEF hvars
<1>3. DOMAIN mem = GPU
  BY DEF MemInv
<1>4. /\ mem' = Stored(mem, writes) /\ \A w \in writes : w.to.buf # Arena
      /\ \A w \in writes : w.to.buf # RowCell
  BY <1>1 DEF StoresApart
<1>5. \A h \in GPU : Keeps(mem[h], mem'[h])
  BY <1>3, <1>4, StoredKeeps
<1>6. RowInv'
  <2>1. ASSUME NEW h \in GPU
        PROVE  RowCell \in DOMAIN mem'[h] /\ mem'[h][RowCell] = One(pass - 1)
    <3>1. RowCell \in DOMAIN mem[h] /\ mem[h][RowCell] = One(pass - 1)
      BY <1>2 DEF RowInv
    <3>2. mem'[h][RowCell] = mem[h][RowCell]
      BY <1>3, <1>4, <3>1, StoredLeaves
    <3> QED
      BY <1>5, <3>1, <3>2 DEF Keeps
  <2>2. pass \in 1 .. NCtx
    BY <1>2 DEF RowInv
  <2> QED
    BY <1>2, <2>1, <2>2 DEF RowInv
<1>7. MailInv'
  BY <1>2, <1>5 DEF MailInv, Keeps, Unwired, Bare
<1> QED
  BY <1>6, <1>7

LEMMA RowInvNext ==
  ASSUME MemInv, ControlInv, MailInv, RowInv, ProgInv, [Next]_vars
  PROVE  RowInv'
<1>1. CASE WriteInputs
  BY <1>1, WriteInputsRow
<1>2. ASSUME NEW g \in GPU, ExecuteOp(g) \/ Publish(g) \/ Fold(g) PROVE RowInv'
  BY <1>2, KernelKeeps
<1>3. CASE RunWhole \/ RingDoorbell \/ UNCHANGED vars
  <2>1. /\ hpc' \in {"ring", "wait"} => hpc \in {"ring", "wait"}
        /\ UNCHANGED <<mem, pass>>
    BY <1>3 DEF RunWhole, RingDoorbell, vars, hvars
  <2> QED
    BY <2>1 DEF RowInv
<1>4. ASSUME hpc' \notin {"ring", "wait"} PROVE RowInv'
  BY <1>4 DEF RowInv
<1>5. CASE \/ \E f \in Files : Open(f)
           \/ Validate \/ EnablePeerAccess \/ AllocArena \/ UploadDone \/ AllocMailboxes
           \/ Launch \/ SetupThrows \/ CudaError \/ Return \/ Shutdown
  <2>1. hpc' \notin {"ring", "wait"}
    BY <1>5 DEF Open, Validate, EnablePeerAccess, AllocArena, UploadDone, AllocMailboxes,
                Launch, SetupThrows, CudaError, Return, Shutdown, Goto, Next2
  <2> QED
    BY <1>4, <2>1
<1>6. CASE UploadTensor
  <2>1. hpc = "upload" /\ hpc' \in {hpc, "exited", "threw"}
    BY <1>6, Zenon DEF UploadTensor
  <2> QED
    BY <1>4, <2>1
<1>7. CASE AllocBuffers
  <2>1. hpc' \in {"pack", "threw"}
    BY <1>7, Zenon DEF AllocBuffers
  <2> QED
    BY <1>4, <2>1
<1>8. CASE Pack
  <2>1. hpc = "pack" /\ hpc' \in {hpc, "threw"}
    BY <1>8, Zenon DEF Pack
  <2> QED
    BY <1>4, <2>1
<1> QED
  BY <1>1, <1>2, <1>3, <1>5, <1>6, <1>7, <1>8 DEF Next

LEMMA MailInvInit == Init => MailInv
<1> SUFFICES ASSUME Init PROVE MailInv
  OBVIOUS
<1>1. hpc = "whole" /\ \A g \in GPU : mem[g] = << >>
  BY DEF Init
<1>2. DOMAIN << >> = {}
  OBVIOUS
<1> QED
  BY <1>1, <1>2 DEF MailInv

\* The host has the mailboxes.
Delivers == hpc \in {"init", "pack", "idle", "ring", "wait"}

LEMMA AllocArenaMail ==
  ASSUME MemInv, ControlInv, MailInv, AllocArena
  PROVE  MailInv'
<1> DEFINE new == [b \in {Arena} |-> [i \in 0 .. ArenaLen(file, gpu) - 1 |-> Wild]]
<1>1. hpc = "arena" /\ hpc' = "upload" /\ gpu \in GPU /\ mem' = [mem EXCEPT ![gpu] = new]
  BY DEF AllocArena, ControlInv
<1>2. DOMAIN new = {Arena}
  OBVIOUS
<1> HIDE DEF new
<1>3. mem'[gpu] = new /\ \A g \in GPU \ {gpu} : mem'[g] = mem[g]
  BY <1>1 DEF MemInv
<1>4. \A g \in GPU : Payload \notin DOMAIN mem'[g]
  BY <1>1, <1>2, <1>3, BuffersApart DEF MailInv, Unwired
<1> QED
  BY <1>1, <1>4 DEF MailInv

LEMMA UploadTensorMail ==
  ASSUME MemInv, ControlInv, MailInv, UploadTensor
  PROVE  MailInv'
<1>1. hpc = "upload" /\ gpu \in GPU /\ hpc' \in {hpc, "exited", "threw"}
  BY Zenon DEF UploadTensor, ControlInv
<1>2. \/ mem' = mem
      \/ \E new : mem' = [mem EXCEPT ![gpu][Arena] = new]
  BY Zenon DEF UploadTensor
<1>3. \A g \in GPU : DOMAIN mem'[g] = DOMAIN mem[g]
  BY <1>1, <1>2 DEF MemInv
<1> QED
  BY <1>1, <1>3 DEF MailInv, Unwired, Bare

LEMMA AllocMailboxesMail ==
  ASSUME MemInv, MailInv, AllocMailboxes
  PROVE  MailInv'
<1> DEFINE pay == [b \in {Payload} |-> ZeroFilled(Cardinality(MailboxSites) * Embd)]
           seq == [b \in {Seqno} |-> [s \in MailboxSites |-> 0]]
<1>1. /\ hpc = "mailbox" /\ hpc' = "init"
      /\ mem' = [g \in GPU |-> mem[g] ++ pay ++ seq]
  BY DEF AllocMailboxes, Goto
<1>2. DOMAIN pay = {Payload} /\ DOMAIN pay[Payload] = 0 .. Room(Payload) - 1
  BY DEF ZeroFilled, Room
<1> HIDE DEF pay, seq
<1>3. ASSUME NEW g \in GPU
      PROVE  Payload \in DOMAIN mem'[g] /\ mem'[g][Payload] = pay[Payload]
  <2> DEFINE d == mem[g]  one == d ++ pay
  <2>1. Payload \notin DOMAIN d
    BY <1>1 DEF MailInv, Unwired
  <2>2. mem'[g] = one ++ seq
    BY <1>1
  <2> HIDE DEF d
  <2>3. /\ DOMAIN (d ++ pay) = DOMAIN d \cup DOMAIN pay
        /\ \A b \in DOMAIN pay \ DOMAIN d : (d ++ pay)[b] = pay[b]
    BY UnionValues
  <2>4. Payload \in DOMAIN one /\ one[Payload] = pay[Payload]
    BY <1>2, <2>1, <2>3
  <2> HIDE DEF one
  <2>5. /\ DOMAIN (one ++ seq) = DOMAIN one \cup DOMAIN seq
        /\ \A b \in DOMAIN one : (one ++ seq)[b] = one[b]
    BY UnionValues
  <2> QED
    BY <2>2, <2>4, <2>5
<1> QED
  BY <1>1, <1>2, <1>3 DEF MailInv, Unwired, Bare

LEMMA AllocBuffersMail ==
  ASSUME MemInv, ControlInv, MailInv, AllocBuffers
  PROVE  MailInv'
<1> DEFINE zero == [b \in Bufs |-> ZeroFilled(Cells(b))]
<1>1. /\ hpc = "init" /\ gpu \in GPU
      /\ \/ mem' = [mem EXCEPT ![gpu] = mem[gpu] ++ zero] /\ hpc' = "pack"
         \/ hpc' = "threw"
  BY DEF AllocBuffers, Bufs, Cells, ControlInv
<1>2. CASE hpc' = "threw"
  BY <1>2 DEF MailInv, Unwired, Bare
<1>3. CASE mem' = [mem EXCEPT ![gpu] = mem[gpu] ++ zero] /\ hpc' = "pack"
  <2> DEFINE d == mem[gpu]
  <2>1. mem'[gpu] = d ++ zero /\ \A g \in GPU \ {gpu} : mem'[g] = mem[g]
    BY <1>1, <1>3 DEF MemInv
  <2> HIDE DEF zero, d
  <2>2. /\ DOMAIN (d ++ zero) = DOMAIN d \cup DOMAIN zero
        /\ \A b \in DOMAIN d : (d ++ zero)[b] = d[b]
    BY UnionValues
  <2>3. \A g \in GPU : Payload \in DOMAIN mem[g] /\ DOMAIN mem[g][Payload] = 0 .. Room(Payload) - 1
    BY <1>1 DEF MailInv
  <2>4. \A g \in GPU : Payload \in DOMAIN mem'[g] /\ mem'[g][Payload] = mem[g][Payload]
    BY <2>1, <2>2, <2>3 DEF d
  <2> QED
    BY <1>3, <2>3, <2>4 DEF MailInv, Unwired, Bare
<1> QED
  BY <1>1, <1>2, <1>3

LEMMA WriteInputsMail ==
  ASSUME MemInv, MailInv, WriteInputs
  PROVE  MailInv'
<1>1. /\ hpc = "idle" /\ hpc' = "ring"
      /\ mem' = [g \in GPU |-> SetToken(SetPassInputs(mem[g], pass), Tokens[pass + 1])]
  BY DEF WriteInputs, Goto
<1>2. ASSUME NEW g \in GPU
      PROVE  Keeps(mem[g], mem'[g])
  <2>1. \A b \in DOMAIN mem[g] \cap Bufs : DOMAIN mem[g][b] = 0 .. Cells(b) - 1
    BY DEF MemInv, Shapes
  <2>2. Keeps(mem[g], SetToken(SetPassInputs(mem[g], pass), Tokens[pass + 1]))
    BY <2>1, InputsKeep
  <2> QED
    BY <1>1, <2>2
<1> QED
  BY <1>1, <1>2 DEF MailInv, Keeps, Unwired, Bare

LEMMA MailInvNext ==
  ASSUME MemInv, ControlInv, MailInv, RowInv, ProgInv, [Next]_vars
  PROVE  MailInv'
<1>1. ASSUME mem' = mem, Unwired' => Unwired, Delivers' => Delivers PROVE MailInv'
  BY <1>1 DEF MailInv, Delivers
<1>2. CASE RunWhole \/ UNCHANGED vars
  BY <1>1, <1>2 DEF RunWhole, vars, hvars, Unwired, Bare, Delivers
<1>3. CASE \/ \E f \in Files : Open(f)
           \/ Validate \/ EnablePeerAccess \/ UploadDone \/ Launch
  <2>1. mem' = mem
    BY <1>3 DEF Open, Validate, EnablePeerAccess, UploadDone, Launch
  <2>2. (Unwired' => Unwired) /\ (Delivers' => Delivers)
    BY <1>3 DEF Open, Validate, EnablePeerAccess, UploadDone, Launch, Goto, Next2,
                Unwired, Bare, Delivers
  <2> QED
    BY <1>1, <2>1, <2>2
<1>4. CASE SetupThrows \/ CudaError \/ Shutdown
  <2>1. mem' = mem /\ hpc' \in {"threw", "exited", "down"}
    BY <1>4 DEF SetupThrows, CudaError, Shutdown
  <2> QED
    BY <1>1, <2>1 DEF Unwired, Bare, Delivers
<1>5. CASE RingDoorbell \/ Return
  <2>1. mem' = mem /\ hpc \in {"ring", "wait"} /\ hpc' \in {"ring", "wait", "idle"}
    BY <1>5 DEF RingDoorbell, Return, Goto, Next2
  <2> QED
    BY <1>1, <2>1 DEF Unwired, Bare, Delivers
<1>6. CASE Pack
  <2>1. mem' = mem /\ hpc = "pack" /\ hpc' \in {hpc, "threw"}
    BY <1>6, Zenon DEF Pack
  <2> QED
    BY <1>1, <2>1 DEF Unwired, Bare, Delivers
<1>7. CASE AllocArena
  BY <1>7, AllocArenaMail
<1>8. CASE UploadTensor
  BY <1>8, UploadTensorMail
<1>9. CASE AllocMailboxes
  BY <1>9, AllocMailboxesMail
<1>10. CASE AllocBuffers
  BY <1>10, AllocBuffersMail
<1>11. CASE WriteInputs
  BY <1>11, WriteInputsMail
<1>12. ASSUME NEW g \in GPU, ExecuteOp(g) \/ Publish(g) \/ Fold(g) PROVE MailInv'
  BY <1>12, KernelKeeps
<1> QED
  BY <1>2, <1>3, <1>4, <1>5, <1>6, <1>7, <1>8, <1>9, <1>10, <1>11, <1>12 DEF Next

\* Only a store outside a buffer ends a process in a fault, and a kernel makes none.
LEMMA StaysNext ==
  ASSUME MemInv, MailInv, RowInv, ProgInv, StaysInBuffers, [Next]_vars
  PROVE  StaysInBuffers'
<1>1. ASSUME NEW g \in GPU, ExecuteOp(g) \/ Publish(g) \/ Fold(g) PROVE StaysInBuffers'
  <2>1. UNCHANGED hvars
    BY <1>1, KernelStores
  <2> QED
    BY <2>1 DEF StaysInBuffers, hvars
<1>2. CASE \/ \E f \in Files : Open(f)
           \/ Validate \/ EnablePeerAccess \/ AllocArena \/ UploadDone \/ AllocMailboxes
           \/ Launch \/ SetupThrows \/ CudaError
           \/ WriteInputs \/ RingDoorbell \/ Return \/ Shutdown
  BY <1>2 DEF Open, Validate, EnablePeerAccess, AllocArena, UploadDone, AllocMailboxes,
              Launch, SetupThrows, CudaError, WriteInputs, RingDoorbell, Return, Shutdown,
              Goto, Next2, StaysInBuffers
<1>3. CASE RunWhole \/ UNCHANGED vars
  BY <1>3 DEF RunWhole, vars, hvars, StaysInBuffers
<1>4. CASE UploadTensor \/ AllocBuffers \/ Pack
  <2>1. hpc' \in {hpc, "pack", "exited", "threw"}
    BY <1>4, Zenon DEF UploadTensor, AllocBuffers, Pack
  <2> QED
    BY <2>1 DEF StaysInBuffers
<1> QED
  BY <1>1, <1>2, <1>3, <1>4 DEF Next

(***************************************************************************)
(* The invariant of the harness: what is patched, where the host and the   *)
(* kernels are, what the programs store to and what the memories hold.     *)
(***************************************************************************)
HarnessInv ==
  PatchInv /\ ControlInv /\ ProgInv /\ MemInv /\ MailInv /\ RowInv /\ StaysInBuffers

\* Where a name leads lies within what is allocated.
LEMMA ResolvedWithin ==
  ASSUME MemInv, NEW g \in GPU, NEW b \in DOMAIN resolver[g]
  PROVE  LET r == resolver[g][b]
         IN r.ptr.gpu = g /\ r.ptr.off + r.n <= Cardinality(DOMAIN mem[g][r.ptr.buf])
<1> DEFINE r == resolver[g][b]
<1>1. CASE InArena(g, r)
  <2>1. PICK off \in Nat : r.ptr = Pointer(g, Arena, off) /\ off + r.n <= ArenaLen(file, g)
    BY <1>1 DEF InArena
  <2>2. Arena \in DOMAIN mem[g] /\ DOMAIN mem[g][Arena] = 0 .. ArenaLen(file, g) - 1
    BY <1>1 DEF InArena, MemInv, Shapes
  <2>3. hpc # "whole"
    BY <2>2 DEF MemInv, Stages, Bare
  <2>4. ArenaLen(file, g) \in Nat
    BY <2>3, FileTensors, ArenaOfRest
  <2>5. Cardinality(DOMAIN mem[g][Arena]) = ArenaLen(file, g)
    BY <2>2, <2>4, LenOfCells
  <2>6. r.ptr.gpu = g /\ r.ptr.buf = Arena /\ r.ptr.off = off
    BY <2>1 DEF Pointer
  <2> QED
    BY <2>1, <2>5, <2>6
<1>2. CASE IsBuffer(g, b, r)
  <2>1. /\ b \in Bufs /\ b \in DOMAIN mem[g] /\ r.ptr = Pointer(g, b, 0) /\ r.n = Cells(b)
        /\ DOMAIN mem[g][b] = 0 .. Cells(b) - 1
    BY <1>2 DEF IsBuffer, MemInv, Shapes
  <2>2. Cells(b) \in Nat
    BY <2>1, CellsAreNat
  <2>3. Cardinality(DOMAIN mem[g][b]) = Cells(b)
    BY <2>1, <2>2, LenOfCells
  <2>4. r.ptr.gpu = g /\ r.ptr.buf = b /\ r.ptr.off = 0
    BY <2>1 DEF Pointer
  <2> QED
    BY <2>1, <2>2, <2>3, <2>4
<1> QED
  BY <1>1, <1>2 DEF MemInv, Resolved

LEMMA HarnessTypes == HarnessInv => TypeOK
<1> SUFFICES ASSUME PatchInv, ControlInv, MemInv PROVE TypeOK
  BY DEF HarnessInv
<1>1. \A g \in GPU : Len(prog[g]) \in Nat
  BY ProgramLen
<1>2. \A g \in GPU : /\ at[g] \in 0 .. Len(prog[g]) + 1 /\ published[g] \in BOOLEAN
                     /\ at[g] # 0 => hpc \in {"ring", "wait", "faulted"}
  BY <1>1 DEF ControlInv
<1>3. \A g \in GPU : xchgIdx[g] \subseteq DOMAIN prog[g]
  BY DEF PatchInv, Packed
<1>4. ASSUME hpc = "upload" PROVE cursor <= Cardinality(DOMAIN mem[gpu][Arena])
  <2>1. /\ gpu \in GPU /\ Arena \in DOMAIN mem[gpu] /\ cursor \in Nat
        /\ cursor + SumOf(Strides(file, gpu), Rest(file, item)) = ArenaLen(file, gpu)
        /\ DOMAIN mem[gpu][Arena] = 0 .. ArenaLen(file, gpu) - 1
    BY <1>4 DEF ControlInv, MemInv, Filling, Shapes
  <2>2. file \in Seq(TensorSet)
    BY <1>4, FileTensors
  <2>3. SumOf(Strides(file, gpu), Rest(file, item)) \in Nat /\ ArenaLen(file, gpu) \in Nat
    BY <2>2, StridesAreNat, ArenaOfRest
  <2>4. Cardinality(DOMAIN mem[gpu][Arena]) = ArenaLen(file, gpu)
    BY <2>1, <2>3, LenOfCells
  <2> QED
    BY <2>1, <2>3, <2>4
<1>5. cursor \in Nat
  BY DEF MemInv
<1>6. hpc \in Places /\ gpu \in GPU /\ item \in Nat \ {0} /\ pass \in 0 .. Len(Tokens)
  BY DEF ControlInv
<1> QED
  BY <1>2, <1>3, <1>4, <1>5, <1>6, ResolvedWithin DEF TypeOK, Places

LEMMA HarnessResolves == HarnessInv => ResolvesToOwnSlice
<1> SUFFICES ASSUME MemInv, hpc \in {"idle", "ring", "wait"},
                    NEW g \in GPU, NEW k \in DOMAIN file, ~ Skipped(file[k])
             PROVE  LET t == file[k]  r == resolver[g][t.name]  s == WeightSlice(t, g) IN
                    /\ r.ptr.off % Align = 0
                    /\ \A i \in DOMAIN s : Load(mem, r.ptr, i) = Element(t, s[i])
  BY DEF HarnessInv, ResolvesToOwnSlice
<1> DEFINE t == file[k]  r == resolver[g][t.name]  s == WeightSlice(t, g)
<1>1. Holds(g, t)
  BY DEF MemInv, Loaded, Uploaded
<1>2. PICK off \in Nat :
        /\ r.ptr = Pointer(g, Arena, off) /\ off % Align = 0
        /\ \A i \in DOMAIN s : /\ off + i \in DOMAIN mem[g][Arena]
                               /\ mem[g][Arena][off + i] = Element(t, s[i])
  BY <1>1 DEF Holds
<1>3. r.ptr.gpu = g /\ r.ptr.buf = Arena /\ r.ptr.off = off
  BY <1>2 DEF Pointer
<1> HIDE DEF s, t, r
<1>4. \A i \in DOMAIN s : Load(mem, r.ptr, i) = Element(t, s[i])
  BY <1>2, <1>3 DEF Load
<1> QED
  BY <1>2, <1>3, <1>4 DEF s, t, r

LEMMA HarnessNext == HarnessInv /\ [Next]_vars => HarnessInv'
<1> SUFFICES ASSUME HarnessInv, [Next]_vars PROVE HarnessInv'
  OBVIOUS
<1>1. PatchInv /\ ControlInv /\ ProgInv /\ MemInv /\ MailInv /\ RowInv /\ StaysInBuffers
  BY DEF HarnessInv
<1>2. PatchInv'
  BY <1>1, PatchInvNext
<1>3. ControlInv' /\ ProgInv' /\ MemInv'
  BY <1>1, <1>2, ControlInvNext, ProgInvNext, MemInvNext
<1>4. MailInv' /\ RowInv' /\ StaysInBuffers'
  BY <1>1, MailInvNext, RowInvNext, StaysNext
<1> QED
  BY <1>2, <1>3, <1>4 DEF HarnessInv

(***************************************************************************)
(* dual_setup and dual_run_pass, from the first allocation to the last     *)
(* pass: in every state the memories are as the stages of the setup built  *)
(* them, the arena takes exactly what is left of the file, and what each   *)
(* packed instruction stores to lies within a buffer it may store to.      *)
(***************************************************************************)
THEOREM HarnessInvariance == Spec => []HarnessInv
<1>1. Init => StaysInBuffers
  BY DEF Init, StaysInBuffers
<1>2. Init => HarnessInv
  BY <1>1, PatchInvInit, ControlInvInit, ProgInvInit, MemInvInit, MailInvInit, RowInvInit
     DEF HarnessInv
<1> QED
  BY <1>2, HarnessNext, PTL DEF Spec

(***************************************************************************)
(* gpu_upload_weights, gpu_alloc_buffers and host_launch: no kernel runs   *)
(* outside a pass, the cursor never passes the end of the arena, and what  *)
(* a name resolves to lies within what was allocated on its own GPU.       *)
(***************************************************************************)
THEOREM TypesHold == Spec => []TypeOK
BY HarnessInvariance, HarnessTypes, PTL

(***************************************************************************)
(* gpu_upload_weights, pack_program and dual_run_pass: when the setup has  *)
(* ended and for every pass after it, the name of a weight leads each GPU  *)
(* to its own slice, element by element and aligned: no later copy, no     *)
(* allocation and no store of a kernel has touched it.                     *)
(***************************************************************************)
THEOREM ResolvesToOwnSliceHolds == Spec => []ResolvesToOwnSlice
BY HarnessInvariance, HarnessResolves, PTL

(***************************************************************************)
(* The pack functions of harness.cpp, gpu_alloc_buffers with the table of  *)
(* compile_schedule.py, and dual_run_pass: no instruction of a packed      *)
(* program stores outside the buffer it is given, on its own GPU or in the *)
(* mailbox of its peer, in any pass: the ranges of every layer fit the     *)
(* table whatever the dimensions, as long as the scratch of ScratchAssum-  *)
(* ption is wide enough, the payload of a site ends where the next begins, *)
(* and the row of a pass is one of the KV caches.                          *)
(***************************************************************************)
THEOREM StaysInBuffersHolds == Spec => []StaysInBuffers
<1>1. HarnessInv => StaysInBuffers
  BY DEF HarnessInv
<1> QED
  BY <1>1, HarnessInvariance, PTL
=============================================================================
