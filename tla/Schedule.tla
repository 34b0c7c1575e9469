------------------------------ MODULE Schedule ------------------------------
(***************************************************************************)
(* The back end of k0/compile_schedule.py: the windows its emitters append *)
(* are coalesced where adjacent ones are independent, every instruction    *)
(* gets a range of blocks, and the lifetime check refuses a window whose   *)
(* instructions clash.  One boundary follows each window, so what the      *)
(* interpreter may run concurrently is decided here.                       *)
(*                                                                         *)
(* An instruction is its index in PROG; prog[i] holds what the passes look *)
(* at.  The program and its windows are inputs: the emitters are data.     *)
(***************************************************************************)
EXTENDS Integers, Sequences, FiniteSets, FiniteSetsExt

CONSTANTS
  GRID,         \* 72: blocks of the grid
  HEAVY_EST,    \* est from which an instruction is heavy
  Buffer,       \* the buffers of the schedule
  Inputs        \* the [prog, windows] the emitters may have produced

\* Of an instruction: its kind as far as XCHG_KINDS goes, its byte estimate and
\* its declared reads and writes.
Instruction == [xchg : BOOLEAN, est : Nat \ {0}, r : SUBSET Buffer, w : SUBSET Buffer]

Members(w) == {w[k] : k \in 1 .. Len(w)}

\* The windows hold every instruction, and each of them once.
EachOnce(n, ws) ==
  /\ \A v \in 1 .. Len(ws) : ws[v] # <<>>
  /\ UNION {Members(ws[v]) : v \in 1 .. Len(ws)} = 1 .. n
  /\ \A v, x \in 1 .. Len(ws) :
       \A k \in 1 .. Len(ws[v]), m \in 1 .. Len(ws[x]) :
         ws[v][k] = ws[x][m] => v = x /\ k = m

ASSUME ScheduleAssumption ==
  /\ GRID \in Nat \ {0} /\ HEAVY_EST \in Nat
  /\ \A in \in Inputs :
       /\ in.prog \in Seq(Instruction) /\ in.windows \in Seq(Seq(Nat))
       /\ EachOnce(Len(in.prog), in.windows)

VARIABLES
  prog,       \* PROG
  given,      \* WINDOWS as emitted
  next,       \* index of the given window the coalescing loop is at
  windows,    \* the merged windows; after the loop, WINDOWS
  at,         \* index of the window that gets its block ranges
  share,      \* sh of split_grid, or <<>> outside of it
  turn,       \* i of split_grid, modulo the number of instructions
  range,      \* range[i]: [block_lo, block_hi) of instruction i
  phase       \* "coalesce", "ranges", "split", "check", "done", "failed", "aborted"

vars == <<prog, given, next, windows, at, share, turn, range, phase>>

Init ==
  /\ \E in \in Inputs : prog = in.prog /\ given = in.windows
  /\ next = 1 /\ windows = <<>>
  /\ at = 1 /\ share = <<>> /\ turn = 0
  /\ range = [i \in 1 .. Len(prog) |-> <<0, 0>>]
  /\ phase = "coalesce"

-----------------------------------------------------------------------------
Writes(w) == UNION {prog[i].w : i \in Members(w)}
Reads(w)  == UNION {prog[i].r : i \in Members(w)}

\* Mutant of Independent: a later write over an earlier read is let pass.
IndependentWithoutWAR(u, v) ==
  Writes(u) \cap (Reads(v) \cup Writes(v)) = {}

\* _independent: neither window writes what the other reads or writes.
Independent(u, v) ==
  /\ Writes(u) \cap (Reads(v) \cup Writes(v)) = {}
  /\ Writes(v) \cap Reads(u) = {}

\* Mutant of HasXchg: exchange sites are like any other instruction.
XchgIgnored(w) == FALSE

HasXchg(w) == \E i \in Members(w) : prog[i].xchg

Heavy(i) == prog[i].est >= HEAVY_EST
NHeavy(w) == Cardinality({i \in Members(w) : Heavy(i)})

\* Mutant of OneHeavy: the occupancy guard is off by one.
TwoHeavy(u, v) == NHeavy(u) + NHeavy(v) <= 2

OneHeavy(u, v) == NHeavy(u) + NHeavy(v) <= 1

MayMerge(u, v) ==
  /\ ~ HasXchg(u) /\ ~ HasXchg(v)
  /\ Independent(u, v)
  /\ OneHeavy(u, v)

LastWindow == windows[Len(windows)]

\* One turn of the coalescing loop.
Coalesce ==
  /\ phase = "coalesce" /\ next <= Len(given)
  /\ windows' = IF windows # <<>> /\ MayMerge(LastWindow, given[next])
                THEN [windows EXCEPT ![Len(windows)] = @ \o given[next]]
                ELSE Append(windows, given[next])
  /\ next' = next + 1
  /\ UNCHANGED <<prog, given, at, share, turn, range, phase>>

\* MK_NO_COALESCE=1.
NoCoalesce ==
  /\ phase = "coalesce" /\ next = 1
  /\ windows' = given
  /\ phase' = "ranges"
  /\ UNCHANGED <<prog, given, next, at, share, turn, range>>

Coalesced ==
  /\ phase = "coalesce" /\ next > Len(given)
  /\ phase' = "ranges"
  /\ UNCHANGED <<prog, given, next, windows, at, share, turn, range>>

-----------------------------------------------------------------------------
Window == windows[at]

\* A window of one instruction gets the whole grid.
WholeGrid ==
  /\ phase = "ranges" /\ at <= Len(windows) /\ Len(Window) = 1
  /\ range' = [range EXCEPT ![Window[1]] = <<0, GRID>>]
  /\ at' = at + 1
  /\ UNCHANGED <<prog, given, next, windows, share, turn, phase>>

Total == MapThenSumSet(LAMBDA i : prog[i].est, Members(Window))

\* Mutant of FirstShare: a light instruction may round down to no block.
ShareRoundedDown(i) == (GRID * prog[i].est) \div Total

\* max(1, int(GRID * b / total)).
FirstShare(i) ==
  LET q == (GRID * prog[i].est) \div Total IN IF q > 1 THEN q ELSE 1

\* Mutant of BeginSplit: without the assertion.
SplitAnyWindow ==
  /\ phase = "ranges" /\ at <= Len(windows) /\ Len(Window) > 1
  /\ share' = [k \in 1 .. Len(Window) |-> FirstShare(Window[k])]
  /\ turn' = 0
  /\ phase' = "split"
  /\ UNCHANGED <<prog, given, next, windows, at, range>>

BeginSplit ==
  /\ phase = "ranges" /\ at <= Len(windows)
  /\ Len(Window) > 1 /\ Len(Window) <= GRID
  /\ share' = [k \in 1 .. Len(Window) |-> FirstShare(Window[k])]
  /\ turn' = 0
  /\ phase' = "split"
  /\ UNCHANGED <<prog, given, next, windows, at, range>>

\* assert n <= GRID: a merge counts heavy instructions, not instructions, so that
\* light windows may gather more of them than there are blocks.
TooWide ==
  /\ phase = "ranges" /\ at <= Len(windows)
  /\ Len(Window) > 1 /\ Len(Window) > GRID
  /\ phase' = "aborted"
  /\ UNCHANGED <<prog, given, next, windows, at, share, turn, range>>

Shares == MapThenSumSet(LAMBDA k : share[k], DOMAIN share)

\* order[j]: the positions of the window, largest estimate first, stable.
Est(k) == prog[Window[k]].est
Order(j) ==
  CHOOSE k \in DOMAIN share :
    j = Cardinality({m \in DOMAIN share : Est(m) > Est(k) \/ (Est(m) = Est(k) /\ m < k)})

\* Mutant of Adjusted: a share of two is not taken from.
AdjustedAboveTwo(k) ==
  IF Shares < GRID THEN share[k] + 1
  ELSE IF share[k] > 2 THEN share[k] - 1 ELSE share[k]

\* A block more or less, but never the last one.
Adjusted(k) ==
  IF Shares < GRID THEN share[k] + 1
  ELSE IF share[k] > 1 THEN share[k] - 1 ELSE share[k]

\* One turn of the while loop.
Adjust ==
  /\ phase = "split" /\ Shares # GRID
  /\ share' = [share EXCEPT ![Order(turn)] = Adjusted(Order(turn))]
  /\ turn' = (turn + 1) % Len(Window)
  /\ UNCHANGED <<prog, given, next, windows, at, range, phase>>

\* Blocks taken by the instructions of the window before position k.
Lo(k) == MapThenSumSet(LAMBDA m : share[m], 1 .. k - 1)

\* Mutant of EndSplit: every range starts at block 0.
EndSplitAtZero ==
  /\ phase = "split" /\ Shares = GRID
  /\ range' = [i \in DOMAIN range |->
                 IF i \in Members(Window)
                 THEN LET k == CHOOSE k \in DOMAIN share : Window[k] = i
                      IN <<0, share[k]>>
                 ELSE range[i]]
  /\ share' = <<>> /\ turn' = 0 /\ at' = at + 1
  /\ phase' = "ranges"
  /\ UNCHANGED <<prog, given, next, windows>>

\* The instructions of the window get adjacent ranges.
EndSplit ==
  /\ phase = "split" /\ Shares = GRID
  /\ range' = [i \in DOMAIN range |->
                 IF i \in Members(Window)
                 THEN LET k == CHOOSE k \in DOMAIN share : Window[k] = i
                      IN <<Lo(k), Lo(k) + share[k]>>
                 ELSE range[i]]
  /\ share' = <<>> /\ turn' = 0 /\ at' = at + 1
  /\ phase' = "ranges"
  /\ UNCHANGED <<prog, given, next, windows>>

Ranged ==
  /\ phase = "ranges" /\ at > Len(windows)
  /\ phase' = "check"
  /\ UNCHANGED <<prog, given, next, windows, at, share, turn, range>>

-----------------------------------------------------------------------------
\* i writes what j reads or writes.
Clash(i, j) == prog[i].w \cap (prog[j].r \cup prog[j].w) # {}

HasClash(w) == \E i, j \in Members(w) : i # j /\ Clash(i, j)

\* Mutant of CheckLifetimes: the check ends at the first window without a clash.
CheckFirstWindow ==
  /\ phase = "check"
  /\ phase' = IF windows # <<>> /\ HasClash(windows[1]) THEN "failed" ELSE "done"
  /\ UNCHANGED <<prog, given, next, windows, at, share, turn, range>>

\* The lifetime check over all ordered pairs of all windows.
CheckLifetimes ==
  /\ phase = "check"
  /\ phase' = IF \E v \in 1 .. Len(windows) : HasClash(windows[v]) THEN "failed" ELSE "done"
  /\ UNCHANGED <<prog, given, next, windows, at, share, turn, range>>

Terminated ==
  /\ phase \in {"done", "failed", "aborted"}
  /\ UNCHANGED vars

Compile ==
  \/ Coalesce \/ Coalesced \/ NoCoalesce
  \/ WholeGrid \/ BeginSplit \/ TooWide \/ Adjust \/ EndSplit \/ Ranged
  \/ CheckLifetimes

Next == Compile \/ Terminated

Spec     == Init /\ [][Next]_vars
FairSpec == Spec /\ WF_vars(Compile)

-----------------------------------------------------------------------------
(***************************************************************************)
(* Properties.                                                             *)
(***************************************************************************)

\* Type invariant.
TypeOK ==
  /\ next \in 1 .. Len(given) + 1 /\ at \in 1 .. Len(windows) + 1
  /\ windows \in Seq(Seq(1 .. Len(prog)))
  /\ share \in Seq(1 .. GRID) /\ turn \in 0 .. GRID
  /\ range \in [1 .. Len(prog) -> (0 .. GRID) \X (0 .. GRID)]
  /\ phase \in {"coalesce", "ranges", "split", "check", "done", "failed", "aborted"}

\* The window an instruction is in.
WindowOf(ws, i) == CHOOSE v \in 1 .. Len(ws) : i \in Members(ws[v])
Placed(i) == \E v \in 1 .. Len(windows) : i \in Members(windows[v])

\* Instructions that were emitted a boundary apart and clash, either way round,
\* keep a boundary between them and stay in order, through however many merges
\* (compile_schedule.py:725-733, "a missed hazard is a silent wrong answer").
DependentStayApart ==
  \A i, j \in 1 .. Len(prog) :
    Placed(i) /\ Placed(j) /\ WindowOf(given, i) < WindowOf(given, j)
      /\ (Clash(i, j) \/ Clash(j, i))
      => WindowOf(windows, i) < WindowOf(windows, j)

\* The lifetime check fails for what the emitters did, never for a merge; and
\* what it lets through has no clash in any window.
ChecksTheEmitters ==
  /\ phase = "failed" => \E v \in 1 .. Len(given) : HasClash(given[v])
  /\ phase = "done"   => \A v \in 1 .. Len(given) : ~ HasClash(given[v])

\* The boundary after an exchange op is a handshake with the other GPU: the
\* window of one is the window it was emitted in.
XchgKeepsItsBoundary ==
  \A i \in 1 .. Len(prog) : Placed(i) /\ prog[i].xchg =>
    windows[WindowOf(windows, i)] = given[WindowOf(given, i)]

\* A merge never puts two heavy instructions in a window: one with two of them is
\* a window as emitted.
HeavyKeepTheirGrid ==
  \A v \in 1 .. Len(windows) :
    NHeavy(windows[v]) > 1 => \E x \in 1 .. Len(given) : windows[v] = given[x]

\* Every block runs exactly one instruction of each window, and every instruction
\* has a block: none is silently skipped and none runs twice.
RangesPartitionTheGrid ==
  phase = "done" =>
    \A v \in 1 .. Len(windows) :
      /\ \A b \in 0 .. GRID-1 :
           Cardinality({i \in Members(windows[v]) : range[i][1] <= b /\ b < range[i][2]}) = 1
      /\ \A i \in Members(windows[v]) : range[i][1] < range[i][2]

\* The while loop of split_grid ends, whatever the estimates round to: it is entered
\* only by a window the grid has a block for each instruction of.
CompileEnds == phase = "coalesce" ~> phase \in {"done", "failed", "aborted"}
==============================================================================
