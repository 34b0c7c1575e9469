---------------------------- MODULE GridBoundary ----------------------------
(***************************************************************************)
(* The Y02 interpreter boundary, mk::GridBoundary::cross of core/sync.cuh, *)
(* over the memory it has to order.                                        *)
(*                                                                         *)
(* Every block runs the windows of a flat program (core/isa.cuh): in a     *)
(* window it stores to some device cells and loads others, then crosses    *)
(* one boundary.  A crossing release-adds 1 to one u32 counter in device   *)
(* memory and spins until the counter reaches epoch * gridDim.x, compared  *)
(* as a signed difference so that the counter may wrap; nothing is ever    *)
(* reset.                                                                  *)
(*                                                                         *)
(* Memory.  A block's store sits in its store buffer until it drains to    *)
(* device L2 (mem); the release of the arrive waits for its own buffer.    *)
(* Strong (.cg) loads read mem.  A plain load may be served from the SM's  *)
(* L1, which no store of another SM invalidates.                           *)
(*                                                                         *)
(* A cell's value is the number of the last window that stored it, 0 for   *)
(* the value uploaded before the launch, so that a stale value is visible. *)
(***************************************************************************)
EXTENDS Integers, Sequences, FiniteSets

CONSTANTS
  N,          \* gridDim.x; blockIdx.x is in 0 .. N-1
  W,          \* 2^32: the modulus of the counter and of epoch
  Cell,       \* device-memory cells the windows touch
  Windows,    \* one pass: a sequence of [stores |-> .., loads |-> ..]
  MaxCross    \* bound on the crossings of one block

Block == 0 .. N-1

None == -1    \* no pending store, no cached line

\* Mutants of Reached: an unsigned compare; a test for equality.
ReachedUnsigned(c, target) == c >= target
ReachedExactly(c, target)  == c = target

(***************************************************************************)
(* ld.acquire spin test: (int)(counter - target) < 0 is false, that is the *)
(* u32 difference is in the non-negative half of the signed range.         *)
(***************************************************************************)
Reached(c, target) == (c - target) % W < W \div 2

\* The window block-local crossing count k falls in: passes repeat the program.
WindowAt(k) == Windows[(k % Len(Windows)) + 1]

Stores(b, k) == WindowAt(k).stores[b]
Loads(b, k)  == WindowAt(k).loads[b]

\* Some block stores c in a window of the program; the others are weights.
Mutable(c) == \E i \in 1 .. Len(Windows) : \E b \in Block : c \in Windows[i].stores[b]

Stored(c, k) == \E b \in Block : c \in Stores(b, k)

\* The rule of core/sync.cuh: a mutable datum is read strong, a weight plain.
Strong(c) == Mutable(c)

(***************************************************************************)
(* The antichain contract of core/isa.cuh: within a window, what one block *)
(* stores no other block stores or loads.                                  *)
(***************************************************************************)
Antichain(w) ==
  \A a, b \in Block :
    a # b => w.stores[a] \cap (w.stores[b] \cup w.loads[b]) = {}

Window == [stores : [Block -> SUBSET Cell], loads : [Block -> SUBSET Cell]]

ASSUME GridAssumption ==
  /\ N \in Nat \ {0}
  /\ W \in Nat \ {0}
  /\ 2 * N <= W
  /\ MaxCross \in Nat

ASSUME ProgramAssumption ==
  /\ Windows \in Seq(Window)
  /\ Windows # <<>>
  /\ \A i \in 1 .. Len(Windows) : Antichain(Windows[i])

VARIABLES
  counter,    \* the u32 arrival counter in device memory
  epoch,      \* epoch[b]: block b's u32 register
  pc,         \* pc[b]: "run" in a window, "spin" between arrive and release
  todo,       \* todo[b]: cells block b has still to store in this window
  mem,        \* mem[c]: the value at device L2
  sbuf,       \* sbuf[b][c]: block b's store to c that has not drained, or None
  l1,         \* l1[b][c]: the line of c in the L1 of block b's SM, or None
  crossings,  \* history: arrivals of block b, not truncated to 32 bits
  expect      \* history: expect[b][c] is what b's program order says c holds

vars == <<counter, epoch, pc, todo, mem, sbuf, l1, crossings, expect>>

Init ==
  /\ counter   = 0
  /\ epoch     = [b \in Block |-> 0]
  /\ pc        = [b \in Block |-> "run"]
  /\ todo      = [b \in Block |-> Stores(b, 0)]
  /\ mem       = [c \in Cell |-> 0]
  /\ sbuf      = [b \in Block |-> [c \in Cell |-> None]]
  /\ l1        = [b \in Block |-> [c \in Cell |-> None]]
  /\ crossings = [b \in Block |-> 0]
  /\ expect    = [b \in Block |-> [c \in Cell |-> 0]]

\* An op of the window stores c; the L1 is write-through and holds the own value.
Store(b, c) ==
  /\ pc[b] = "run"
  /\ c \in todo[b]
  /\ todo' = [todo EXCEPT ![b] = @ \ {c}]
  /\ sbuf' = [sbuf EXCEPT ![b][c] = crossings[b] + 1]
  /\ l1'   = [l1 EXCEPT ![b][c] = IF @ = None THEN None ELSE crossings[b] + 1]
  /\ UNCHANGED <<counter, epoch, pc, mem, crossings, expect>>

\* A pending store reaches L2, in any order and at any moment.
Drain(b, c) ==
  /\ sbuf[b][c] # None
  /\ mem'  = [mem EXCEPT ![c] = sbuf[b][c]]
  /\ sbuf' = [sbuf EXCEPT ![b][c] = None]
  /\ UNCHANGED <<counter, epoch, pc, todo, l1, crossings, expect>>

\* What a load of c by block b may return: its own pending store, else L2,
\* and for a plain load also the line the SM's L1 still holds.
LoadValues(b, c) ==
  CASE sbuf[b][c] # None               -> {sbuf[b][c]}
    [] sbuf[b][c] = None /\ Strong(c)  -> {mem[c]}
    [] OTHER                           -> {mem[c]} \cup ({l1[b][c]} \ {None})

\* A plain load allocates the line in L1; a strong load leaves no trace.
PlainLoad(b, c) ==
  /\ pc[b] = "run"
  /\ c \in Loads(b, crossings[b])
  /\ ~ Strong(c)
  /\ \E v \in LoadValues(b, c) : l1' = [l1 EXCEPT ![b][c] = v]
  /\ UNCHANGED <<counter, epoch, pc, todo, mem, sbuf, crossings, expect>>

\* Mutant of Released: a relaxed arrive, as in the norelease negative of the
\* boundary litmus.
NoRelease(b) == TRUE

\* The release of the arrive has nothing left to wait for.
Released(b) == \A c \in Cell : sbuf[b][c] = None

\* Mutant of Arrive: the epoch register is wider than the 32 bits compared.
ArriveWideEpoch(b) ==
  /\ pc[b] = "run"
  /\ todo[b] = {}
  /\ Released(b)
  /\ crossings[b] < MaxCross
  /\ epoch'     = [epoch EXCEPT ![b] = @ + 1]
  /\ counter'   = (counter + 1) % W
  /\ pc'        = [pc EXCEPT ![b] = "spin"]
  /\ crossings' = [crossings EXCEPT ![b] = @ + 1]
  /\ expect'    = [expect EXCEPT ![b] = [c \in Cell |->
                     IF Stored(c, crossings[b]) THEN crossings[b] + 1 ELSE @[c]]]
  /\ UNCHANGED <<todo, mem, sbuf, l1>>

(***************************************************************************)
(* __syncthreads; epoch += 1; thread 0: red.release.gpu.add(counter, 1).   *)
(***************************************************************************)
Arrive(b) ==
  /\ pc[b] = "run"
  /\ todo[b] = {}
  /\ Released(b)
  /\ crossings[b] < MaxCross
  /\ epoch'     = [epoch EXCEPT ![b] = (@ + 1) % W]
  /\ counter'   = (counter + 1) % W
  /\ pc'        = [pc EXCEPT ![b] = "spin"]
  /\ crossings' = [crossings EXCEPT ![b] = @ + 1]
  /\ expect'    = [expect EXCEPT ![b] = [c \in Cell |->
                     IF Stored(c, crossings[b]) THEN crossings[b] + 1 ELSE @[c]]]
  /\ UNCHANGED <<todo, mem, sbuf, l1>>

\* Mutant of Pass: the target counts one block too few.
PassOneShort(b) ==
  /\ pc[b] = "spin"
  /\ Reached(counter, (epoch[b] * (N - 1)) % W)
  /\ pc'   = [pc EXCEPT ![b] = "run"]
  /\ todo' = [todo EXCEPT ![b] = Stores(b, crossings[b])]
  /\ UNCHANGED <<counter, epoch, mem, sbuf, l1, crossings, expect>>

\* while ((int)(ld_acquire(counter) - target) < 0); __syncthreads: into the
\* next window.
Pass(b) ==
  /\ pc[b] = "spin"
  /\ Reached(counter, (epoch[b] * N) % W)
  /\ pc'   = [pc EXCEPT ![b] = "run"]
  /\ todo' = [todo EXCEPT ![b] = Stores(b, crossings[b])]
  /\ UNCHANGED <<counter, epoch, mem, sbuf, l1, crossings, expect>>

\* The bounded run is over: every block made MaxCross crossings.
Finished ==
  /\ \A b \in Block : crossings[b] = MaxCross /\ pc[b] = "run"
  /\ UNCHANGED vars

BlockStep(b) ==
  \/ \E c \in Cell : Store(b, c) \/ Drain(b, c) \/ PlainLoad(b, c)
  \/ Arrive(b)
  \/ Pass(b)

Next == (\E b \in Block : BlockStep(b)) \/ Finished

\* A cooperative launch keeps all N blocks resident and running (G11), and
\* the hardware drains stores.
Fairness ==
  \A b \in Block :
    /\ WF_vars(Arrive(b))
    /\ WF_vars(Pass(b))
    /\ \A c \in Cell : WF_vars(Store(b, c)) /\ WF_vars(Drain(b, c))

Spec     == Init /\ [][Next]_vars
FairSpec == Spec /\ Fairness

-----------------------------------------------------------------------------
(***************************************************************************)
(* Properties.                                                             *)
(***************************************************************************)
Version == 0 .. MaxCross + 1

\* Type invariant.
TypeOK ==
  /\ counter   \in 0 .. W-1
  /\ epoch     \in [Block -> 0 .. W-1]
  /\ pc        \in [Block -> {"run", "spin"}]
  /\ todo      \in [Block -> SUBSET Cell]
  /\ mem       \in [Cell -> Version]
  /\ sbuf      \in [Block -> [Cell -> Version \cup {None}]]
  /\ l1        \in [Block -> [Cell -> Version \cup {None}]]
  /\ crossings \in [Block -> 0 .. MaxCross]
  /\ expect    \in [Block -> [Cell -> Version]]

\* Every load an op of the current window may issue returns exactly the value
\* its program order says: never one from an earlier pass (a store that was
\* not released, a stale L1 line) and never one from a later window (a block
\* let through too early).  This is the promise of sync.cuh:83-87 end to end.
FreshLoads ==
  \A b \in Block : pc[b] = "run" =>
    \A c \in Loads(b, crossings[b]) \ Stores(b, crossings[b]) :
      LoadValues(b, c) = {expect[b][c]}

\* Crossings are counted exactly once and the counter never runs past or
\* behind its waiters: blocks are at most one window apart, however often the
\* u32 counter has wrapped (litmus P1 and the "wrap-safe target compare").
LockStep ==
  \A a, b \in Block :
    /\ crossings[a] <= crossings[b] + 1
    /\ pc[a] = "run" => crossings[a] <= crossings[b]

\* The counter boundary implements the abstract barrier.
Left == [b \in Block |-> IF pc[b] = "spin" THEN crossings[b] - 1 ELSE crossings[b]]

B == INSTANCE Barrier WITH entered <- crossings, left <- Left

ImplementsBarrier == B!Spec

\* A block that arrived is always let through: no lost arrival, no target
\* beyond the counter, on either side of a wrap.
EveryCrossingCompletes == \A b \in Block : pc[b] = "spin" ~> pc[b] = "run"
==============================================================================
