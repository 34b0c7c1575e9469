------------------------ MODULE GridBoundaryProofs ------------------------
(***************************************************************************)
(* Proofs about the Y02 boundary, for every grid size N, every counter     *)
(* modulus W >= 2 * N, every antichain program and every number of passes. *)
(***************************************************************************)
EXTENDS GridBoundary, FiniteSetTheorems, TLAPS

-----------------------------------------------------------------------------
(***************************************************************************)
(* The inductive invariant, stated with r, the last crossing every block   *)
(* has arrived at.                                                         *)
(***************************************************************************)
Ahead(r) == {b \in Block : crossings[b] = r + 1}

\* Every block is at r or r+1, those at r+1 wait for the rest, and the counter
\* holds the arrivals of r full crossings and of the blocks ahead.
RoundInv(r) ==
  /\ \A b \in Block : crossings[b] \in {r, r + 1}
  /\ \A b \in Ahead(r) : pc[b] = "spin"
  /\ Ahead(r) # Block
  /\ counter = (r * N + Cardinality(Ahead(r))) % W

\* A store c of window r by block b has not reached L2.
Outstanding(r, b, c) ==
  /\ crossings[b] = r
  /\ c \in Stores(b, r)
  /\ pc[b] = "spin" \/ c \in todo[b] \/ sbuf[b][c] # None

\* L2 holds the value of before window r until the one store of window r to
\* the cell is done; blocks ahead already expect the value of after it.
MemoryInv(r) ==
  \A a \in Block, c \in Cell :
    /\ crossings[a] = r =>
         mem[c] = IF Stored(c, r) /\ ~ \E b \in Block : Outstanding(r, b, c)
                  THEN r + 1 ELSE expect[a][c]
    /\ \A b \in Block : crossings[a] = r /\ crossings[b] = r + 1 =>
         expect[b][c] = IF Stored(c, r) THEN r + 1 ELSE expect[a][c]
    /\ \A b \in Block : crossings[a] = r /\ crossings[b] = r =>
         expect[b][c] = expect[a][c]

\* The registers of block b: epoch is the truncated count; only a block in a
\* window has stores left to do.
RegisterInv(b) ==
  /\ epoch[b] = crossings[b] % W
  /\ todo[b] \subseteq (IF pc[b] = "run" THEN Stores(b, crossings[b]) ELSE {})
  /\ pc[b] = "spin" => crossings[b] > 0

\* A pending store is one the block did in its current window.
PendingInv(b, c) ==
  sbuf[b][c] # None => /\ pc[b] = "run"
                       /\ c \in Stores(b, crossings[b]) \ todo[b]
                       /\ sbuf[b][c] = crossings[b] + 1

\* A weight keeps its uploaded value everywhere.
WeightInv(b, c) ==
  ~ Mutable(c) => /\ l1[b][c] \in {None, 0}
                  /\ mem[c] = 0
                  /\ expect[b][c] = 0

LocalInv ==
  \A b \in Block :
    /\ RegisterInv(b)
    /\ \A c \in Cell : PendingInv(b, c) /\ WeightInv(b, c)

IInv ==
  /\ TypeOK
  /\ LocalInv
  /\ \E r \in 0 .. MaxCross : RoundInv(r) /\ MemoryInv(r)

-----------------------------------------------------------------------------
(***************************************************************************)
(* Arithmetic modulo W.                                                    *)
(***************************************************************************)

\* Division with remainder by the counter's modulus.
LEMMA ModDef ==
  ASSUME NEW a \in Int
  PROVE  /\ a % W \in 0 .. W-1
         /\ a \div W \in Int
         /\ a = W * (a \div W) + (a % W)
BY GridAssumption

\* The remainder is the only one in range: how u32 wrapping is computed with.
LEMMA ModUnique ==
  ASSUME NEW q \in Int, NEW r \in 0 .. W-1
  PROVE  (W * q + r) % W = r
BY GridAssumption

\* Two integers that differ by a multiple of W are the same u32.
LEMMA ModShift ==
  ASSUME NEW a \in Int, NEW q \in Int
  PROVE  (a + W * q) % W = a % W
<1>1. a % W \in 0 .. W-1 /\ a \div W \in Int /\ a = W * (a \div W) + (a % W)
  BY ModDef
<1>2. W \in Int
  BY GridAssumption
<1>3. a + W * q = W * ((a \div W) + q) + (a % W)
  BY <1>1, <1>2
<1>4. (W * ((a \div W) + q) + (a % W)) % W = a % W
  BY <1>1, ModUnique
<1>5. QED
  BY <1>3, <1>4

\* counter' = (counter + 1) % W counts one more arrival.
LEMMA ModAdd ==
  ASSUME NEW a \in Int
  PROVE  ((a % W) + 1) % W = (a + 1) % W
<1>1. a % W \in 0 .. W-1 /\ a \div W \in Int /\ a = W * (a \div W) + (a % W)
  BY ModDef
<1>2. W \in Int
  BY GridAssumption
<1>3. a + 1 = ((a % W) + 1) + W * (a \div W)
  BY <1>1, <1>2
<1>4. ((a % W) + 1 + W * (a \div W)) % W = ((a % W) + 1) % W
  BY <1>1, ModShift
<1>5. QED
  BY <1>3, <1>4

\* The u32 difference of two truncated counts is their difference, truncated.
LEMMA ModDiff ==
  ASSUME NEW a \in Int, NEW b \in Int
  PROVE  ((a % W) - (b % W)) % W = (a - b) % W
<1>1. a % W \in 0 .. W-1 /\ a \div W \in Int /\ a = W * (a \div W) + (a % W)
  BY ModDef
<1>2. b % W \in 0 .. W-1 /\ b \div W \in Int /\ b = W * (b \div W) + (b % W)
  BY ModDef
<1>3. W \in Int
  BY GridAssumption
<1>4. a - b = ((a % W) - (b % W)) + W * ((a \div W) - (b \div W))
  BY <1>1, <1>2, <1>3
<1>5. (((a % W) - (b % W)) + W * ((a \div W) - (b \div W))) % W
        = ((a % W) - (b % W)) % W
  BY <1>1, <1>2, ModShift
<1>6. QED
  BY <1>4, <1>5

\* epoch * gridDim.x computed from the truncated epoch is the truncated product.
LEMMA ModMul ==
  ASSUME NEW a \in Int
  PROVE  ((a % W) * N) % W = (a * N) % W
<1>1. a % W \in 0 .. W-1 /\ a \div W \in Int /\ a = W * (a \div W) + (a % W)
  BY ModDef
<1>2. W \in Int /\ N \in Int
  BY GridAssumption
<1>3. a * N = (a % W) * N + W * ((a \div W) * N)
  BY <1>1, <1>2
<1>4. ((a % W) * N + W * ((a \div W) * N)) % W = ((a % W) * N) % W
  <2>1. (a % W) * N \in Int /\ (a \div W) * N \in Int
    BY <1>1, <1>2
  <2>2. QED
    BY <2>1, ModShift
<1>5. QED
  BY <1>3, <1>4

\* The spin test fails when the counter is 1 to N arrivals short of the target,
\* wherever the two stand with respect to the wrap.
LEMMA NotReachedBehind ==
  ASSUME NEW t \in Int, NEW e \in Nat, NEW k \in 1 .. N, t = e * N - k
  PROVE  ~ Reached(t % W, ((e % W) * N) % W)
<1>1. N \in Int /\ W \in Int /\ 2 * N <= W /\ N > 0
  BY GridAssumption
<1>2. ((e % W) * N) % W = (e * N) % W
  BY ModMul
<1>3. e * N \in Int
  BY <1>1
<1>4. ((t % W) - ((e * N) % W)) % W = (t - e * N) % W
  BY <1>3, ModDiff
<1>5. t - e * N = W * (-1) + (W - k)
  BY <1>1, <1>3
<1>6. W - k \in 0 .. W-1
  BY <1>1
<1>7. (t - e * N) % W = W - k
  BY <1>5, <1>6, ModUnique
<1>8. ~ (W - k < W \div 2)
  BY <1>1
<1>9. QED
  BY <1>2, <1>4, <1>7, <1>8 DEF Reached

-----------------------------------------------------------------------------
(***************************************************************************)
(* The program and the blocks ahead.                                       *)
(***************************************************************************)

\* Every crossing count falls in a window of the program, and the antichain
\* contract holds of it.
LEMMA WindowFacts ==
  ASSUME NEW k \in Nat
  PROVE  /\ \A b \in Block : Stores(b, k) \subseteq Cell /\ Loads(b, k) \subseteq Cell
         /\ \A a, b \in Block : a # b =>
              Stores(a, k) \cap (Stores(b, k) \cup Loads(b, k)) = {}
         /\ \A c \in Cell : Stored(c, k) => Mutable(c)
<1> DEFINE i == (k % Len(Windows)) + 1
<1>1. Len(Windows) \in Nat \ {0}
  BY ProgramAssumption
<1>2. i \in 1 .. Len(Windows)
  BY <1>1
<1>3. Windows[i] \in Window /\ Antichain(Windows[i])
  BY <1>2, ProgramAssumption
<1>4. WindowAt(k) = Windows[i]
  BY DEF WindowAt
<1> HIDE DEF i
<1>5. \A b \in Block : Stores(b, k) \subseteq Cell /\ Loads(b, k) \subseteq Cell
  BY <1>3, <1>4 DEF Window, Stores, Loads
<1>6. \A a, b \in Block : a # b =>
        Stores(a, k) \cap (Stores(b, k) \cup Loads(b, k)) = {}
  BY <1>3, <1>4 DEF Antichain, Stores, Loads
<1>7. \A c \in Cell : Stored(c, k) => Mutable(c)
  BY <1>2, <1>4 DEF Stored, Mutable, Stores
<1>8. QED
  BY <1>5, <1>6, <1>7

\* Counting a set of blocks that is not the whole grid.
LEMMA CountFacts ==
  ASSUME NEW S \in SUBSET Block
  PROVE  /\ IsFiniteSet(S)
         /\ Cardinality(S) \in 0 .. N
         /\ S # Block => Cardinality(S) < N
         /\ Cardinality(Block) = N
<1>1. N \in Nat /\ N > 0
  BY GridAssumption
<1>2. IsFiniteSet(Block) /\ Cardinality(Block) = N
  BY <1>1, FS_Interval DEF Block
<1>3. /\ IsFiniteSet(S)
      /\ Cardinality(S) <= N
      /\ N = Cardinality(S) => Block = S
  BY <1>2, FS_Subset
<1>4. Cardinality(S) \in Nat
  BY <1>3, FS_CardinalityType
<1>5. QED
  BY <1>1, <1>2, <1>3, <1>4

-----------------------------------------------------------------------------
(***************************************************************************)
(* The inductive invariant holds initially.                                *)
(***************************************************************************)
\* Before the first arrival nobody is ahead and every cell holds the upload.
LEMMA InitInv == Init => IInv
<1> SUFFICES ASSUME Init PROVE IInv
  OBVIOUS
<1> USE DEF Init
<1>1. N \in Nat \ {0} /\ W \in Nat \ {0} /\ 2 * N <= W /\ MaxCross \in Nat
  BY GridAssumption
<1>2. \A b \in Block : Stores(b, 0) \subseteq Cell
  BY WindowFacts
<1>3. TypeOK
  BY <1>1, <1>2 DEF TypeOK, Version, None
<1>4. 0 % W = 0
  BY <1>1
<1>5. LocalInv
  BY <1>1, <1>4 DEF LocalInv, RegisterInv, PendingInv, WeightInv, None
<1>6. RoundInv(0)
  <2>1. Ahead(0) = {}
    BY DEF Ahead
  <2>2. Block # {}
    BY <1>1, 0 \in 0 .. N-1 DEF Block
  <2>3. Cardinality({}) = 0
    BY FS_EmptySet
  <2>4. 0 * N + 0 = 0
    BY <1>1
  <2>5. QED
    BY <1>1, <1>4, <2>1, <2>2, <2>3, <2>4 DEF RoundInv
<1>7. MemoryInv(0)
  <2>1. ASSUME NEW c \in Cell, Stored(c, 0)
        PROVE  \E b \in Block : Outstanding(0, b, c)
    BY <2>1 DEF Stored, Outstanding
  <2>2. QED
    BY <2>1 DEF MemoryInv
<1>8. QED
  BY <1>1, <1>3, <1>5, <1>6, <1>7 DEF IInv

-----------------------------------------------------------------------------
(***************************************************************************)
(* Every step keeps the invariant: one lemma per action.                   *)
(***************************************************************************)
\* A store of the window makes a pending value; the cell was outstanding before it
\* and still is.
LEMMA StoreInv ==
  ASSUME IInv, NEW b \in Block, NEW c \in Cell, Store(b, c)
  PROVE  IInv'
<1>1. PICK r \in 0 .. MaxCross : RoundInv(r) /\ MemoryInv(r)
  BY DEF IInv
<1>2. N \in Nat \ {0} /\ W \in Nat \ {0} /\ MaxCross \in Nat
  BY GridAssumption
<1>3. TypeOK /\ LocalInv
  BY DEF IInv
<1>4. crossings[b] = r /\ c \in Stores(b, r) /\ c \in todo[b]
  BY <1>1, <1>3 DEF Store, RoundInv, LocalInv, RegisterInv, Ahead, TypeOK
<1>5. Stored(c, r) /\ Mutable(c)
  BY <1>2, <1>4, WindowFacts DEF Stored
<1>6. TypeOK'
  BY <1>2, <1>3 DEF TypeOK, Store, Version, None
<1>7. ASSUME NEW a \in Block, NEW d \in Cell
      PROVE  RegisterInv(a)' /\ PendingInv(a, d)' /\ WeightInv(a, d)'
  <2> USE <1>3 DEF Store, TypeOK, LocalInv
  <2>1. RegisterInv(a)'
    BY DEF RegisterInv, Stores, WindowAt
  <2>2. PendingInv(a, d)'
    BY <1>2, <1>4 DEF PendingInv, None, Stores, WindowAt
  <2>3. WeightInv(a, d)'
    BY <1>5 DEF WeightInv, Mutable
  <2>4. QED
    BY <2>1, <2>2, <2>3
<1>8. RoundInv(r)'
  BY <1>1 DEF RoundInv, Store, Ahead
<1>9. MemoryInv(r)'
  <2>1. \A a \in Block, d \in Cell : Outstanding(r, a, d)' <=> Outstanding(r, a, d)
    BY <1>2, <1>3, <1>4 DEF Store, Outstanding, TypeOK, None, Stores, WindowAt
  <2>2. \A d \in Cell : Stored(d, r)' <=> Stored(d, r)
    BY DEF Stored, Stores, WindowAt
  <2>3. QED
    BY <1>1, <2>1, <2>2 DEF MemoryInv, Store
<1>10. LocalInv'
  BY <1>7 DEF LocalInv
<1>11. QED
  BY <1>6, <1>8, <1>9, <1>10 DEF IInv

\* A drained store is the one store of the window to its cell, so L2 takes the
\* window's value just when nothing is outstanding any more.
LEMMA DrainInv ==
  ASSUME IInv, NEW b \in Block, NEW c \in Cell, Drain(b, c)
  PROVE  IInv'
<1>1. PICK r \in 0 .. MaxCross : RoundInv(r) /\ MemoryInv(r)
  BY DEF IInv
<1>2. N \in Nat \ {0} /\ W \in Nat \ {0} /\ MaxCross \in Nat
  BY GridAssumption
<1>3. TypeOK /\ LocalInv
  BY DEF IInv
<1>4. /\ pc[b] = "run" /\ crossings[b] = r
      /\ c \in Stores(b, r) \ todo[b] /\ sbuf[b][c] = r + 1
  BY <1>1, <1>3 DEF Drain, RoundInv, LocalInv, PendingInv, Ahead, TypeOK
<1>5. Stored(c, r) /\ Mutable(c)
  BY <1>2, <1>4, WindowFacts DEF Stored
<1>6. TypeOK'
  BY <1>2, <1>3, <1>4 DEF TypeOK, Drain, Version, None
<1>7. ASSUME NEW a \in Block, NEW d \in Cell
      PROVE  RegisterInv(a)' /\ PendingInv(a, d)' /\ WeightInv(a, d)'
  <2> USE <1>3 DEF Drain, TypeOK, LocalInv
  <2>1. RegisterInv(a)'
    BY DEF RegisterInv, Stores, WindowAt
  <2>2. PendingInv(a, d)'
    BY <1>2 DEF PendingInv, None, Stores, WindowAt
  <2>3. WeightInv(a, d)'
    <3>1. WeightInv(a, d)
      BY <1>3
    <3>2. d # c => mem'[d] = mem[d]
      BY <1>3
    <3>3. l1'[a][d] = l1[a][d] /\ expect'[a][d] = expect[a][d]
      BY <1>3
    <3>4. QED
      BY <1>5, <3>1, <3>2, <3>3 DEF WeightInv, Mutable
  <2>4. QED
    BY <2>1, <2>2, <2>3
<1>8. RoundInv(r)'
  BY <1>1 DEF RoundInv, Drain, Ahead
<1>9. MemoryInv(r)'
  <2>1. \A d \in Cell : Stored(d, r)' <=> Stored(d, r)
    BY DEF Stored, Stores, WindowAt
  <2>2. \A a \in Block, d \in Cell :
          d # c => (Outstanding(r, a, d)' <=> Outstanding(r, a, d))
    BY <1>3 DEF Drain, Outstanding, TypeOK, Stores, WindowAt
  <2>3. \A a \in Block : ~ Outstanding(r, a, c)'
    <3>1. \A a \in Block : a # b => c \notin Stores(a, r)
      BY <1>2, <1>4, WindowFacts
    <3>2. sbuf'[b][c] = None /\ pc'[b] = "run" /\ c \notin todo'[b]
      BY <1>3, <1>4 DEF Drain, TypeOK
    <3>3. QED
      BY <3>1, <3>2 DEF Outstanding, Stores, WindowAt
  <2>4. mem' = [mem EXCEPT ![c] = r + 1] /\ mem \in [Cell -> Version]
    BY <1>3, <1>4 DEF Drain, TypeOK
  <2>5. QED
    BY <1>1, <1>5, <2>1, <2>2, <2>3, <2>4 DEF MemoryInv, Drain
<1>10. LocalInv'
  BY <1>7 DEF LocalInv
<1>11. QED
  BY <1>6, <1>8, <1>9, <1>10 DEF IInv

\* Only weights are loaded plainly: the line that L1 takes holds the upload.
LEMMA PlainLoadInv ==
  ASSUME IInv, NEW b \in Block, NEW c \in Cell, PlainLoad(b, c)
  PROVE  IInv'
<1>1. PICK r \in 0 .. MaxCross : RoundInv(r) /\ MemoryInv(r)
  BY DEF IInv
<1>2. N \in Nat \ {0} /\ W \in Nat \ {0} /\ MaxCross \in Nat
  BY GridAssumption
<1>3. TypeOK /\ LocalInv
  BY DEF IInv
<1>4. ~ Mutable(c)
  BY DEF PlainLoad, Strong
<1>5. sbuf[b][c] = None
  <2>1. crossings[b] \in Nat
    BY <1>2, <1>3 DEF TypeOK
  <2>2. c \notin Stores(b, crossings[b])
    BY <1>4, <2>1, WindowFacts DEF Stored
  <2>3. QED
    BY <1>3, <2>2 DEF LocalInv, PendingInv
<1>6. LoadValues(b, c) = {0}
  BY <1>3, <1>4, <1>5 DEF LoadValues, Strong, LocalInv, WeightInv, None
<1>7. l1' = [l1 EXCEPT ![b][c] = 0]
  BY <1>6 DEF PlainLoad
<1>8. TypeOK'
  BY <1>2, <1>3, <1>7 DEF TypeOK, PlainLoad, Version, None
<1>9. ASSUME NEW a \in Block, NEW d \in Cell
      PROVE  RegisterInv(a)' /\ PendingInv(a, d)' /\ WeightInv(a, d)'
  <2> USE <1>3 DEF PlainLoad, TypeOK, LocalInv
  <2>1. RegisterInv(a)' /\ PendingInv(a, d)'
    BY DEF RegisterInv, PendingInv, Stores, WindowAt
  <2>2. WeightInv(a, d)'
    BY <1>7 DEF WeightInv, Mutable
  <2>3. QED
    BY <2>1, <2>2
<1>10. RoundInv(r)'
  BY <1>1 DEF RoundInv, PlainLoad, Ahead
<1>11. MemoryInv(r)'
  BY <1>1 DEF MemoryInv, PlainLoad, Outstanding, Stored, Stores, WindowAt
<1>12. LocalInv'
  BY <1>9 DEF LocalInv
<1>13. QED
  BY <1>8, <1>10, <1>11, <1>12 DEF IInv

\* The spin test lets a block through only when it is not ahead.
LEMMA PassNotAhead ==
  ASSUME NEW r \in 0 .. MaxCross, TypeOK, LocalInv, RoundInv(r),
         NEW b \in Block, Pass(b)
  PROVE  crossings[b] = r
<1>1. N \in Nat \ {0} /\ W \in Nat \ {0} /\ MaxCross \in Nat
  BY GridAssumption
<1>2. SUFFICES ASSUME crossings[b] = r + 1 PROVE FALSE
  BY DEF RoundInv
<1>3. Ahead(r) \in SUBSET Block /\ Ahead(r) # Block
  BY DEF Ahead, RoundInv
<1> DEFINE n == Cardinality(Ahead(r))
<1>4. n \in 0 .. N-1
  BY <1>1, <1>3, CountFacts
<1>5. counter = (r * N + n) % W
  BY DEF RoundInv
<1>6. epoch[b] = (r + 1) % W
  BY <1>2 DEF LocalInv, RegisterInv
<1> HIDE DEF n
<1>7. r * N + n = (r + 1) * N - (N - n)
  BY <1>1, <1>4
<1>8. r * N + n \in Int /\ r + 1 \in Nat /\ N - n \in 1 .. N
  BY <1>1, <1>4
<1>9. ~ Reached(counter, (epoch[b] * N) % W)
  BY <1>5, <1>6, <1>7, <1>8, NotReachedBehind
<1>10. QED
  BY <1>9 DEF Pass

\* A block let through is not ahead; its next window's stores become outstanding.
LEMMA PassInv ==
  ASSUME IInv, NEW b \in Block, Pass(b)
  PROVE  IInv'
<1>1. PICK r \in 0 .. MaxCross : RoundInv(r) /\ MemoryInv(r)
  BY DEF IInv
<1>2. N \in Nat \ {0} /\ W \in Nat \ {0} /\ MaxCross \in Nat
  BY GridAssumption
<1>3. TypeOK /\ LocalInv
  BY DEF IInv
<1>4. crossings[b] = r /\ pc[b] = "spin"
  BY <1>1, <1>3, PassNotAhead DEF Pass
<1>5. Stores(b, r) \subseteq Cell
  BY <1>2, WindowFacts
<1>6. TypeOK'
  BY <1>2, <1>3, <1>4, <1>5 DEF TypeOK, Pass
<1>7. ASSUME NEW a \in Block
      PROVE  /\ RegisterInv(a)'
             /\ \A d \in Cell : PendingInv(a, d)' /\ WeightInv(a, d)'
  <2> USE <1>3 DEF Pass, TypeOK, LocalInv
  <2>1. RegisterInv(a)'
    BY DEF RegisterInv, Stores, WindowAt
  <2>2. \A d \in Cell : PendingInv(a, d)'
    BY <1>4 DEF PendingInv, Stores, WindowAt
  <2>3. \A d \in Cell : WeightInv(a, d)'
    BY DEF WeightInv, Mutable
  <2>4. QED
    BY <2>1, <2>2, <2>3
<1>8. RoundInv(r)'
  <2>1. Ahead(r)' = Ahead(r) /\ b \notin Ahead(r)
    BY <1>2, <1>4 DEF Ahead, Pass
  <2>2. QED
    BY <1>1, <1>3, <2>1 DEF RoundInv, Pass, TypeOK, Ahead
<1>9. MemoryInv(r)'
  <2>1. \A d \in Cell : Stored(d, r)' <=> Stored(d, r)
    BY DEF Stored, Stores, WindowAt
  <2>2. \A a \in Block, d \in Cell : Outstanding(r, a, d)' <=> Outstanding(r, a, d)
    BY <1>3, <1>4 DEF Pass, Outstanding, TypeOK, Stores, WindowAt
  <2>3. QED
    BY <1>1, <2>1, <2>2 DEF MemoryInv, Pass
<1>10. LocalInv'
  BY <1>7 DEF LocalInv
<1>11. QED
  BY <1>6, <1>8, <1>9, <1>10 DEF IInv

\* An arrive that is not the last of its crossing leaves the round as it is; the
\* last one starts the next round with nobody ahead.
LEMMA ArriveInv ==
  ASSUME IInv, NEW b \in Block, Arrive(b)
  PROVE  IInv'
<1>1. PICK r \in 0 .. MaxCross : RoundInv(r) /\ MemoryInv(r)
  BY DEF IInv
<1>2. N \in Nat \ {0} /\ W \in Nat \ {0} /\ MaxCross \in Nat
  BY GridAssumption
<1>3. TypeOK /\ LocalInv
  BY DEF IInv
<1>4. pc[b] = "run" /\ crossings[b] = r /\ r < MaxCross /\ b \notin Ahead(r)
  BY <1>1, <1>2 DEF Arrive, RoundInv, Ahead
<1>5. /\ crossings' = [crossings EXCEPT ![b] = r + 1]
      /\ pc' = [pc EXCEPT ![b] = "spin"]
      /\ UNCHANGED <<todo, mem, sbuf, l1>>
  BY <1>4 DEF Arrive
<1>6. TypeOK'
  <2>1. \A x \in Int : x % W \in 0 .. W-1
    BY ModDef
  <2>2. counter' \in 0 .. W-1
    BY <1>2, <1>3, <2>1 DEF Arrive, TypeOK
  <2>3. epoch' \in [Block -> 0 .. W-1]
    BY <1>2, <1>3, <2>1 DEF Arrive, TypeOK
  <2>4. expect' \in [Block -> [Cell -> Version]]
    BY <1>2, <1>3, <1>4 DEF Arrive, TypeOK, Version
  <2>5. crossings' \in [Block -> 0 .. MaxCross] /\ pc' \in [Block -> {"run", "spin"}]
    BY <1>2, <1>3, <1>4, <1>5 DEF TypeOK
  <2>6. QED
    BY <1>3, <1>5, <2>2, <2>3, <2>4, <2>5 DEF TypeOK
<1>7. ASSUME NEW a \in Block
      PROVE  /\ RegisterInv(a)'
             /\ \A d \in Cell : PendingInv(a, d)' /\ WeightInv(a, d)'
  <2>1. RegisterInv(a)'
    <3>1. RegisterInv(a)
      BY <1>3 DEF LocalInv
    <3>2. CASE a = b
      <4>1. epoch'[b] = (epoch[b] + 1) % W /\ crossings'[b] = r + 1
        BY <1>3, <1>5 DEF Arrive, TypeOK
      <4>2. epoch[b] = r % W
        BY <1>4, <3>1, <3>2 DEF RegisterInv
      <4>3. epoch'[b] = (r + 1) % W
        BY <1>2, <4>1, <4>2, ModAdd
      <4>4. pc'[b] = "spin" /\ todo'[b] = {}
        BY <1>3, <1>5 DEF Arrive, TypeOK
      <4>5. QED
        BY <1>2, <3>2, <4>1, <4>3, <4>4 DEF RegisterInv
    <3>3. CASE a # b
      BY <1>3, <1>5, <3>1, <3>3 DEF RegisterInv, Arrive, TypeOK, Stores, WindowAt
    <3>4. QED
      BY <3>2, <3>3
  <2>2. \A d \in Cell : PendingInv(a, d)'
    BY <1>3, <1>5 DEF LocalInv, PendingInv, Arrive, Released, TypeOK, Stores, WindowAt
  <2>3. ASSUME NEW d \in Cell PROVE WeightInv(a, d)'
    <3>1. ~ Mutable(d) => ~ Stored(d, r)
      BY <1>2, WindowFacts
    <3>2. ~ Mutable(d) => expect'[a][d] = expect[a][d]
      BY <1>3, <1>4, <3>1 DEF Arrive, TypeOK
    <3>3. QED
      BY <1>3, <1>5, <3>2 DEF LocalInv, WeightInv, Mutable
  <2>4. QED
    BY <2>1, <2>2, <2>3
<1>8. LocalInv'
  BY <1>7 DEF LocalInv
<1>9. counter' = (r * N + Cardinality(Ahead(r)) + 1) % W
  <2>1. Cardinality(Ahead(r)) \in Nat
    BY <1>2, CountFacts DEF Ahead
  <2>2. r * N + Cardinality(Ahead(r)) \in Int
    BY <1>2, <2>1
  <2>3. counter = (r * N + Cardinality(Ahead(r))) % W /\ counter' = (counter + 1) % W
    BY <1>1 DEF RoundInv, Arrive
  <2>4. QED
    BY <2>2, <2>3, ModAdd
<1>10. /\ Ahead(r)' = Ahead(r) \cup {b}
       /\ Cardinality(Ahead(r) \cup {b}) = Cardinality(Ahead(r)) + 1
       /\ Ahead(r) \cup {b} \in SUBSET Block
  <2>1. Ahead(r)' = Ahead(r) \cup {b}
    BY <1>2, <1>3, <1>4, <1>5 DEF Ahead, TypeOK
  <2>2. Ahead(r) \in SUBSET Block
    BY DEF Ahead
  <2>3. QED
    BY <1>4, <2>1, <2>2, CountFacts, FS_AddElement
<1>11. \A d \in Cell : Stored(d, r)' <=> Stored(d, r)
  BY DEF Stored, Stores, WindowAt
\* Block b has nothing outstanding, before the arrive or after it.
<1>12. \A d \in Cell : ~ Outstanding(r, b, d) /\ ~ Outstanding(r, b, d)'
  BY <1>2, <1>3, <1>4, <1>5 DEF Arrive, Released, Outstanding, TypeOK
<1>13. \A d \in Cell :
         expect'[b][d] = IF Stored(d, r) THEN r + 1 ELSE expect[b][d]
  BY <1>3, <1>4 DEF Arrive, TypeOK
<1>14. \A a \in Block : a # b => expect'[a] = expect[a] /\ crossings'[a] = crossings[a]
                                 /\ pc'[a] = pc[a]
  BY <1>3, <1>5 DEF Arrive, TypeOK
<1>15. CASE Ahead(r) \cup {b} # Block
  <2>1. RoundInv(r)'
    <3>1. \A a \in Block : crossings'[a] \in {r, r + 1}
      BY <1>1, <1>3, <1>5 DEF RoundInv, TypeOK
    <3>2. \A a \in Ahead(r)' : pc'[a] = "spin"
      BY <1>1, <1>3, <1>5, <1>10 DEF RoundInv, TypeOK
    <3>3. counter' = (r * N + Cardinality(Ahead(r)')) % W
      <4>1. Cardinality(Ahead(r)) \in Nat
        BY CountFacts DEF Ahead
      <4>2. QED
        BY <1>2, <1>9, <1>10, <4>1
    <3>4. QED
      BY <1>10, <1>15, <3>1, <3>2, <3>3 DEF RoundInv
  <2>2. \A a \in Block, d \in Cell : Outstanding(r, a, d)' <=> Outstanding(r, a, d)
    BY <1>5, <1>12, <1>14 DEF Outstanding, Stores, WindowAt
  <2>3. MemoryInv(r)'
    <3> SUFFICES ASSUME NEW a \in Block, NEW d \in Cell
                 PROVE
         /\ crossings'[a] = r =>
              mem'[d] = IF Stored(d, r) /\ ~ \E x \in Block : Outstanding(r, x, d)
                        THEN r + 1 ELSE expect'[a][d]
         /\ \A x \in Block : crossings'[a] = r /\ crossings'[x] = r + 1 =>
              expect'[x][d] = IF Stored(d, r) THEN r + 1 ELSE expect'[a][d]
         /\ \A x \in Block : crossings'[a] = r /\ crossings'[x] = r =>
              expect'[x][d] = expect'[a][d]
      BY <1>11, <2>2 DEF MemoryInv
    <3>1. crossings'[b] = r + 1 /\ r + 1 # r
      BY <1>2, <1>3, <1>5 DEF TypeOK
    <3>2. QED
      BY <1>1, <1>4, <1>5, <1>13, <1>14, <3>1 DEF MemoryInv
  <2>4. QED
    BY <1>6, <1>8, <2>1, <2>3 DEF IInv
<1>16. CASE Ahead(r) \cup {b} = Block
  <2>1. r + 1 \in 0 .. MaxCross
    BY <1>2, <1>4
  <2>2. \A a \in Block : crossings'[a] = r + 1 /\ pc'[a] = "spin"
    BY <1>1, <1>3, <1>5, <1>16 DEF RoundInv, Ahead, TypeOK
  <2>3. RoundInv(r + 1)'
    <3>1. Ahead(r + 1)' = {}
      BY <1>2, <2>2 DEF Ahead
    <3>2. Cardinality(Ahead(r)) + 1 = N
      BY <1>10, <1>16, CountFacts
    <3>3. Cardinality(Ahead(r)) \in Nat /\ Cardinality({}) = 0
      BY CountFacts, FS_EmptySet DEF Ahead
    <3>4. r * N + Cardinality(Ahead(r)) + 1 = (r + 1) * N + 0
      BY <1>2, <3>2, <3>3
    <3>5. counter' = ((r + 1) * N + Cardinality(Ahead(r + 1)')) % W
      BY <1>9, <3>1, <3>3, <3>4
    <3>6. QED
      BY <2>2, <3>1, <3>5 DEF RoundInv
  <2>4. MemoryInv(r + 1)'
    <3>1. \A a \in Block, d \in Cell : ~ Outstanding(r, a, d)
      BY <1>2, <1>12, <1>16 DEF Outstanding, Ahead
    <3>2. \A d \in Cell : mem[d] = IF Stored(d, r) THEN r + 1 ELSE expect[b][d]
      BY <1>1, <1>4, <3>1 DEF MemoryInv
    <3>3. \A a \in Block, d \in Cell : expect'[a][d] = mem[d]
      <4>1. \A a \in Block : a # b => crossings[a] = r + 1
        BY <1>16 DEF Ahead
      <4>2. QED
        BY <1>1, <1>4, <1>13, <1>14, <3>2, <4>1 DEF MemoryInv
    <3>4. ASSUME NEW d \in Cell, Stored(d, r + 1)
          PROVE  \E a \in Block : Outstanding(r + 1, a, d)'
      BY <2>2, <3>4 DEF Stored, Outstanding, Stores, WindowAt
    <3>5. \A d \in Cell : Stored(d, r + 1)' <=> Stored(d, r + 1)
      BY DEF Stored, Stores, WindowAt
    <3>6. r + 1 # (r + 1) + 1
      BY <1>2
    <3>7. QED
      BY <1>5, <2>2, <3>3, <3>4, <3>5, <3>6 DEF MemoryInv
  <2>5. QED
    BY <1>6, <1>8, <2>1, <2>3, <2>4 DEF IInv
<1>17. QED
  BY <1>15, <1>16

-----------------------------------------------------------------------------
(***************************************************************************)
(* The theorems.                                                           *)
(***************************************************************************)

\* The inductive invariant holds of every behaviour of the boundary.
THEOREM Invariance == Spec => []IInv
<1>1. Init => IInv
  BY InitInv
<1>2. IInv /\ [Next]_vars => IInv'
  <2> SUFFICES ASSUME IInv, [Next]_vars PROVE IInv'
    OBVIOUS
  <2>1. ASSUME NEW b \in Block, NEW c \in Cell, Store(b, c) PROVE IInv'
    BY <2>1, StoreInv
  <2>2. ASSUME NEW b \in Block, NEW c \in Cell, Drain(b, c) PROVE IInv'
    BY <2>2, DrainInv
  <2>3. ASSUME NEW b \in Block, NEW c \in Cell, PlainLoad(b, c) PROVE IInv'
    BY <2>3, PlainLoadInv
  <2>4. ASSUME NEW b \in Block, Arrive(b) PROVE IInv'
    BY <2>4, ArriveInv
  <2>5. ASSUME NEW b \in Block, Pass(b) PROVE IInv'
    BY <2>5, PassInv
  <2>6. CASE UNCHANGED vars
    <3>1. TypeOK'
      BY <2>6 DEF vars, IInv, TypeOK
    <3>2. LocalInv'
      BY <2>6 DEF vars, IInv, LocalInv, RegisterInv, PendingInv, WeightInv,
                  Stores, WindowAt, Mutable
    <3>3. PICK r \in 0 .. MaxCross : RoundInv(r) /\ MemoryInv(r)
      BY DEF IInv
    <3>4. RoundInv(r)'
      BY <2>6, <3>3 DEF vars, RoundInv, Ahead
    <3>5. MemoryInv(r)'
      BY <2>6, <3>3 DEF vars, MemoryInv, Outstanding, Stored, Stores, WindowAt
    <3>6. QED
      BY <3>1, <3>2, <3>4, <3>5 DEF IInv
  <2>7. QED
    BY <2>1, <2>2, <2>3, <2>4, <2>5, <2>6 DEF Next, BlockStep, Finished
<1>3. QED
  BY <1>1, <1>2, PTL DEF Spec

\* Type correctness.
THEOREM TypeCorrect == Spec => []TypeOK
<1>1. IInv => TypeOK
  BY DEF IInv
<1>2. QED
  BY <1>1, Invariance, PTL

\* Blocks stay within one crossing of each other, and a block in a window has
\* every other block at least at its crossing, whatever the counter wrapped to.
THEOREM LockStepHolds == Spec => []LockStep
<1>1. IInv => LockStep
  <2> SUFFICES ASSUME IInv, NEW a \in Block, NEW b \in Block
               PROVE  /\ crossings[a] <= crossings[b] + 1
                      /\ pc[a] = "run" => crossings[a] <= crossings[b]
    BY DEF LockStep
  <2>1. PICK r \in 0 .. MaxCross : RoundInv(r)
    BY DEF IInv
  <2>2. r \in Nat
    BY GridAssumption
  <2>3. crossings[a] \in {r, r + 1} /\ crossings[b] \in {r, r + 1}
    BY <2>1 DEF RoundInv
  <2>4. pc[a] = "run" => crossings[a] = r
    BY <2>1, <2>3 DEF RoundInv, Ahead
  <2>5. QED
    BY <2>2, <2>3, <2>4
<1>2. QED
  BY <1>1, Invariance, PTL

\* Every load of a window returns the value of record: no stale value of an
\* earlier pass, no value of a later window.
THEOREM FreshLoadsHold == Spec => []FreshLoads
<1>1. IInv => FreshLoads
  <2> SUFFICES ASSUME IInv, NEW b \in Block, pc[b] = "run",
                      NEW c \in Loads(b, crossings[b]) \ Stores(b, crossings[b])
               PROVE  LoadValues(b, c) = {expect[b][c]}
    BY DEF FreshLoads
  <2>1. PICK r \in 0 .. MaxCross : RoundInv(r) /\ MemoryInv(r)
    BY DEF IInv
  <2>2. r \in Nat /\ crossings[b] = r
    BY <2>1, GridAssumption DEF RoundInv, Ahead
  <2>3. c \in Cell /\ ~ Stored(c, r)
    BY <2>2, WindowFacts DEF Stored
  <2>4. sbuf[b][c] = None
    BY <2>2, <2>3 DEF IInv, LocalInv, PendingInv
  <2>5. mem[c] = expect[b][c]
    BY <2>1, <2>2, <2>3 DEF MemoryInv
  <2>6. ~ Mutable(c) => l1[b][c] \in {None, 0} /\ mem[c] = 0
    BY <2>3 DEF IInv, LocalInv, WeightInv
  <2>7. QED
    BY <2>4, <2>5, <2>6 DEF LoadValues, Strong
<1>2. QED
  BY <1>1, Invariance, PTL

\* The wrapping counter barrier implements the abstract barrier: every step is
\* an Enter, a Leave or a stutter of Barrier.
THEOREM BarrierRefinement == Spec => ImplementsBarrier
<1>1. Init => B!Init
  BY DEF Init, B!Init, Left
<1>2. IInv /\ [Next]_vars => [B!Next]_(B!barrierVars)
  <2> SUFFICES ASSUME IInv, [Next]_vars
               PROVE  [B!Next]_(B!barrierVars)
    OBVIOUS
  <2> DEFINE Same == crossings' = crossings /\ Left' = Left
  <2>1. TypeOK /\ N \in Nat \ {0} /\ MaxCross \in Nat
    BY GridAssumption DEF IInv
  <2>2. PICK r \in 0 .. MaxCross : RoundInv(r)
    BY DEF IInv
  <2>3. ASSUME NEW b \in Block, Arrive(b) PROVE B!Enter(b)
    <3>1. Left[b] = crossings[b]
      BY <2>3 DEF Arrive, Left
    <3>2. crossings' = [crossings EXCEPT ![b] = @ + 1]
      BY <2>3 DEF Arrive
    <3>3. Left' = Left
      <4>1. \A a \in Block : Left'[a] = Left[a]
        BY <2>1, <2>3 DEF Arrive, Left, TypeOK
      <4>2. QED
        BY <4>1 DEF Left
    <3>4. QED
      BY <3>1, <3>2, <3>3 DEF B!Enter
  <2>4. ASSUME NEW b \in Block, Pass(b) PROVE B!Leave(b)
    <3>1. crossings[b] = r /\ crossings' = crossings
      BY <2>1, <2>2, <2>4, PassNotAhead DEF Pass, IInv
    <3>2. \A a \in Block : crossings[a] >= crossings[b]
      BY <2>1, <2>2, <3>1 DEF RoundInv
    <3>3. Left[b] = crossings[b] - 1 /\ Left[b] < crossings[b]
      BY <2>1, <2>4 DEF Pass, Left, TypeOK
    <3>4. Left' = [Left EXCEPT ![b] = @ + 1]
      <4>1. \A a \in Block : Left'[a] = IF a = b THEN Left[a] + 1 ELSE Left[a]
        BY <2>1, <2>4, <3>3 DEF Pass, Left, TypeOK
      <4>2. QED
        BY <4>1 DEF Left
    <3>5. QED
      BY <3>1, <3>2, <3>3, <3>4 DEF B!Leave
  <2>5. ASSUME NEW b \in Block, NEW c \in Cell,
               Store(b, c) \/ Drain(b, c) \/ PlainLoad(b, c)
        PROVE  Same
    BY <2>5 DEF Store, Drain, PlainLoad, Left
  <2>6. CASE UNCHANGED vars
    BY <2>6 DEF vars, Left, B!barrierVars
  <2>7. QED
    BY <2>3, <2>4, <2>5, <2>6 DEF Next, BlockStep, Finished, B!Next, B!barrierVars
<1>3. QED
  BY <1>1, <1>2, Invariance, PTL DEF Spec, ImplementsBarrier, B!Spec
==============================================================================
