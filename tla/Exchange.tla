------------------------------ MODULE Exchange ------------------------------
(***************************************************************************)
(* The Y06 cross-GPU exchange: OP_XCHG_PUSH and OP_XCHG_REDUCE of          *)
(* k0/ops/xchg.cuh, in the windows compile_schedule.py emits around them,  *)
(* on two GPUs whose passes dual_run_pass of k0/harness.cpp drives.        *)
(*                                                                         *)
(* Per site of a pass a GPU computes a partial vector into proj_out,       *)
(* crosses a boundary, pushes it into the peer's mailbox (membar.sys),     *)
(* crosses a boundary, publishes the seqno in the peer's mailbox, polls    *)
(* its own, folds both partials into proj_out and crosses a boundary.      *)
(*                                                                         *)
(* Memory.  A peer store is in flight until it lands in the peer's VRAM;   *)
(* stores of one block land in any order, and only a membar.sys of the     *)
(* block waits for them: the .gpu release of a boundary does not.  A local *)
(* store is in L2 by the boundary after it (GridBoundary).  A plain load   *)
(* may be served from the SM's L1, if the line is one of StaleLines.       *)
(*                                                                         *)
(* A float is the sequence of the partials summed in it, in fold order.    *)
(***************************************************************************)
EXTENDS Integers, Sequences, FiniteSets

CONSTANTS
  N,            \* blocks of each grid
  Elem,         \* elements of the activation vector
  ComputeBy, PushBy, ReduceBy,   \* [Elem -> Block]: the block that writes,
                                 \* pushes and folds each element
  Sites,        \* exchange sites of a pass, 1 .. Sites
  PU,           \* 2^32: modulus of seqno
  MaxPass,      \* bound on the passes
  StaleLines,   \* of what a plain load may get an earlier site's or pass's line
                \* from L1: "partial", "seqno"
  CanTimeout    \* whether a wait of the host may expire or fail

GPU == {0, 1}
Peer(g) == 1 - g
Block == 0 .. N-1
Site == 1 .. Sites
HALT == PU - 1

ASSUME ExchangeAssumption ==
  /\ N \in Nat \ {0}
  /\ ComputeBy \in [Elem -> Block] /\ PushBy \in [Elem -> Block]
  /\ ReduceBy \in [Elem -> Block]
  /\ Sites \in Nat \ {0}
  /\ PU \in Nat \ {0, 1} /\ MaxPass \in Nat /\ 2 * MaxPass < PU
  /\ StaleLines \subseteq {"partial", "seqno"}
  /\ CanTimeout \in BOOLEAN

VARIABLES
  pc, pass, site,   \* of each block: where it is, its pass, its site
  entered, left,    \* of each block: boundary arrivals and departures
  projOut,          \* proj_out of each GPU, the partial and in place the sum
  l1Partial,        \* per block: the line of projOut[g][e] in L1, if any
  l1Seqno,          \* per block: the line of a site's $seqno in L1, if any
  progSeqno,        \* $seqno in d_program of each GPU, patched per pass
  a,                \* a.seqno of each block's XCHG_REDUCE
  inFlight,         \* per block: its peer stores that have not landed
  payload, seqno,   \* the mailboxes of each GPU, per site
  doorbell, done,   \* host-mapped cells of each GPU
  dma,              \* whether the copies of dual_run_pass are still queued
  hpc, hpass,       \* the host
  results           \* history: per GPU and round the values of proj_out

blockVars  == <<pc, pass, site, entered, left>>
memoryVars == <<projOut, l1Partial, l1Seqno, progSeqno, a, inFlight, payload, seqno>>
hostVars   == <<doorbell, dma, hpc, hpass>>
vars       == <<blockVars, memoryVars, hostVars, done, results>>

\* The partial GPU g computes at a site of a pass.
Partial(g, p, s) == << <<g, p, s>> >>

PerBlock(x) == [g \in GPU |-> [b \in Block |-> x]]

Init ==
  /\ pc = PerBlock("bell") /\ pass = PerBlock(1) /\ site = PerBlock(1)
  /\ entered = PerBlock(0) /\ left = PerBlock(0)
  /\ projOut = [g \in GPU |-> [e \in Elem |-> <<>>]]
  /\ l1Partial = PerBlock([e \in Elem |-> {}])
  /\ l1Seqno = PerBlock([s \in Site |-> {}])
  /\ progSeqno = [g \in GPU |-> 0]
  /\ a = PerBlock(0)
  /\ inFlight = PerBlock({})
  /\ payload = [g \in GPU |-> [s \in Site |-> [e \in Elem |-> <<>>]]]
  /\ seqno = [g \in GPU |-> [s \in Site |-> 0]]
  /\ doorbell = [g \in GPU |-> 0] /\ done = [g \in GPU |-> 0]
  /\ dma = [g \in GPU |-> FALSE]
  /\ hpc = "ready" /\ hpass = 0
  /\ results = [g \in GPU |-> <<>>]

-----------------------------------------------------------------------------
(***************************************************************************)
(* A block of a grid.                                                      *)
(***************************************************************************)

Goto(g, b, to) == pc' = [pc EXCEPT ![g][b] = to]

\* The window's op is over; arrive at the boundary after it.
Enter(g, b, at) ==
  /\ entered' = [entered EXCEPT ![g][b] = @ + 1]
  /\ Goto(g, b, at)

\* Elements a block handles: the partition by functions of one window.
Mine(by, b) == {e \in Elem : by[e] = b}

\* What a plain load may return, and the line it leaves in L1.
Loadable(mem, line, kind) ==
  {mem} \cup (IF kind \in StaleLines THEN line ELSE {})

Line(v, kind) == IF kind \in StaleLines THEN {v} ELSE {}

\* Mutant of Mailbox: one mailbox for all sites.
SharedMailbox(s) == 1

\* The mailbox of a site is its own.
Mailbox(s) == s

\* The pass top: the doorbell names this pass or HALT.
Doorbell(g, b) ==
  /\ pc[g][b] = "bell"
  /\ \/ doorbell[g] = HALT /\ Goto(g, b, "exit")
     \/ doorbell[g] # HALT /\ doorbell[g] >= pass[g][b] /\ Goto(g, b, "compute")
  /\ UNCHANGED <<pass, site, entered, left, memoryVars, hostVars, done, results>>

\* The window before the site: each block stores its rows of the partial.
Compute(g, b) ==
  /\ pc[g][b] = "compute"
  /\ LET v == Partial(g, pass[g][b], site[g][b]) IN
       /\ projOut' = [projOut EXCEPT ![g] =
            [e \in Elem |-> IF ComputeBy[e] = b THEN v ELSE @[e]]]
       /\ l1Partial' = [l1Partial EXCEPT ![g][b] =
            [e \in Elem |-> IF ComputeBy[e] = b /\ @[e] # {} THEN {v} ELSE @[e]]]
  /\ Enter(g, b, "computed")
  /\ UNCHANGED <<pass, site, left, l1Seqno, progSeqno, a, inFlight, payload, seqno,
                 hostVars, done, results>>

\* op_xchg_push: plain loads of local_partial, stores to the peer's payload.
Push(g, b) ==
  /\ pc[g][b] = "push"
  /\ \E v \in [Mine(PushBy, b) -> UNION {Loadable(projOut[g][e], l1Partial[g][b][e], "partial")
                                          : e \in Elem}] :
       /\ \A e \in Mine(PushBy, b) :
            v[e] \in Loadable(projOut[g][e], l1Partial[g][b][e], "partial")
       /\ inFlight' = [inFlight EXCEPT ![g][b] =
            {<<Mailbox(site[g][b]), e, v[e]>> : e \in Mine(PushBy, b)}]
       /\ l1Partial' = [l1Partial EXCEPT ![g][b] =
            [e \in Elem |-> IF PushBy[e] = b THEN Line(v[e], "partial") ELSE @[e]]]
  /\ Goto(g, b, "membar")
  /\ UNCHANGED <<pass, site, entered, left, projOut, l1Seqno, progSeqno, a, payload,
                 seqno, hostVars, done, results>>

\* A peer store lands in the peer's VRAM.
Land(g, b) ==
  /\ \E st \in inFlight[g][b] :
       /\ inFlight' = [inFlight EXCEPT ![g][b] = @ \ {st}]
       /\ payload' = [payload EXCEPT ![Peer(g)][st[1]][st[2]] = st[3]]
  /\ UNCHANGED <<blockVars, projOut, l1Partial, l1Seqno, progSeqno, a, seqno,
                 hostVars, done, results>>

\* Mutant of Membar: the fence is dropped (litmus_xchg, XCHG_NO_MEMBAR).
NoMembar(g, b) ==
  /\ pc[g][b] = "membar"
  /\ Enter(g, b, "pushed")
  /\ UNCHANGED <<pass, site, left, memoryVars, hostVars, done, results>>

\* membar.sys, which ends the op.
Membar(g, b) ==
  /\ pc[g][b] = "membar"
  /\ inFlight[g][b] = {}
  /\ Enter(g, b, "pushed")
  /\ UNCHANGED <<pass, site, left, memoryVars, hostVars, done, results>>

\* op_xchg_reduce, memcpy of the Instr payload: $seqno by a plain load.
ReadArgs(g, b) ==
  /\ pc[g][b] = "reduce"
  /\ \E q \in Loadable(progSeqno[g], l1Seqno[g][b][site[g][b]], "seqno") :
       /\ a' = [a EXCEPT ![g][b] = q]
       /\ l1Seqno' = [l1Seqno EXCEPT ![g][b][site[g][b]] = Line(q, "seqno")]
  /\ Goto(g, b, "publish")
  /\ UNCHANGED <<pass, site, entered, left, projOut, l1Partial, progSeqno, inFlight,
                 payload, seqno, hostVars, done, results>>

\* ... rank 0 releases the seqno into the peer's mailbox.
Publish(g, b) ==
  /\ pc[g][b] = "publish"
  /\ IF b = 0
     THEN /\ inFlight[g][b] = {}
          /\ seqno' = [seqno EXCEPT ![Peer(g)][Mailbox(site[g][b])] = a[g][b]]
     ELSE UNCHANGED seqno
  /\ Goto(g, b, "poll")
  /\ UNCHANGED <<pass, site, entered, left, projOut, l1Partial, l1Seqno, progSeqno, a,
                 inFlight, payload, hostVars, done, results>>

\* ... every block spins while (int)(my_seqno - a.seqno) < 0.
Poll(g, b) ==
  /\ pc[g][b] = "poll"
  /\ (seqno[g][Mailbox(site[g][b])] - a[g][b]) % PU < PU \div 2
  /\ Goto(g, b, "fold")
  /\ UNCHANGED <<pass, site, entered, left, memoryVars, hostVars, done, results>>

\* Mutant of Folded: the own partial first, on either GPU.
FoldedOwnFirst(g, mine, peer) == mine \o peer

\* gpu_index picks the left addend.
Folded(g, mine, peer) == IF g = 0 THEN mine \o peer ELSE peer \o mine

\* The peer's payload is read strong.
PayloadRead(g, s, e) == payload[g][s][e]

\* ... then folds: local_partial by plain loads, the payload by strong ones; out
\* is local_partial in place.
Fold(g, b) ==
  /\ pc[g][b] = "fold"
  /\ \E v \in [Mine(ReduceBy, b) -> UNION {Loadable(projOut[g][e], l1Partial[g][b][e], "partial")
                                            : e \in Elem}] :
       LET out(e) == Folded(g, v[e], PayloadRead(g, Mailbox(site[g][b]), e)) IN
       /\ \A e \in Mine(ReduceBy, b) :
            v[e] \in Loadable(projOut[g][e], l1Partial[g][b][e], "partial")
       /\ projOut' = [projOut EXCEPT ![g] =
            [e \in Elem |-> IF ReduceBy[e] = b THEN out(e) ELSE @[e]]]
       /\ l1Partial' = [l1Partial EXCEPT ![g][b] =
            [e \in Elem |-> IF ReduceBy[e] = b THEN Line(out(e), "partial") ELSE @[e]]]
  /\ Enter(g, b, "folded")
  /\ results' = IF \A c \in Block \ {b} : pc[g][c] = "folded"
                THEN [results EXCEPT ![g] = Append(@, {projOut'[g][e] : e \in Elem})]
                ELSE results
  /\ UNCHANGED <<pass, site, left, l1Seqno, progSeqno, a, inFlight, payload, seqno,
                 hostVars, done>>

\* The boundary lets the block go: on to the next window, the next site, or out
\* of the pass, whose completion block 0 publishes.
Leave(g, b) ==
  /\ left[g][b] < entered[g][b]
  /\ \A c \in Block : entered[g][c] >= entered[g][b]
  /\ left' = [left EXCEPT ![g][b] = @ + 1]
  /\ \/ /\ pc[g][b] = "computed" /\ Goto(g, b, "push")
        /\ UNCHANGED <<pass, site, done>>
     \/ /\ pc[g][b] = "pushed" /\ Goto(g, b, "reduce")
        /\ UNCHANGED <<pass, site, done>>
     \/ /\ pc[g][b] = "folded" /\ site[g][b] < Sites /\ Goto(g, b, "compute")
        /\ site' = [site EXCEPT ![g][b] = @ + 1]
        /\ UNCHANGED <<pass, done>>
     \/ /\ pc[g][b] = "folded" /\ site[g][b] = Sites /\ Goto(g, b, "bell")
        /\ site' = [site EXCEPT ![g][b] = 1]
        /\ pass' = [pass EXCEPT ![g][b] = @ + 1]
        /\ done' = IF b = 0 THEN [done EXCEPT ![g] = pass[g][b]] ELSE done
  /\ UNCHANGED <<entered, memoryVars, hostVars, results>>

BlockStep(g, b) ==
  \/ Doorbell(g, b) \/ Compute(g, b)
  \/ Push(g, b) \/ Membar(g, b)
  \/ ReadArgs(g, b) \/ Publish(g, b) \/ Poll(g, b) \/ Fold(g, b)
  \/ Leave(g, b)

Exited(g) == \A b \in Block : pc[g][b] = "exit"

-----------------------------------------------------------------------------
(***************************************************************************)
(* The host: dual_run_pass, dual_shutdown.                                 *)
(***************************************************************************)

HostGoto(to) == hpc' = to

\* The $seqno patches of both GPUs are queued on the copy streams.
QueuePatches ==
  /\ hpc = "ready" /\ hpass < MaxPass
  /\ hpass' = hpass + 1
  /\ dma' = [g \in GPU |-> TRUE]
  /\ HostGoto("ring0")
  /\ UNCHANGED <<blockVars, memoryVars, doorbell, done, results>>

\* Mutant of DmaLands: the patch carries the number of the pass to come.
DmaOffByOne(g) ==
  /\ dma[g]
  /\ dma' = [dma EXCEPT ![g] = FALSE]
  /\ progSeqno' = [progSeqno EXCEPT ![g] = hpass + 1]
  /\ UNCHANGED <<blockVars, projOut, l1Partial, l1Seqno, a, inFlight, payload, seqno,
                 doorbell, done, hpc, hpass, results>>

DmaLands(g) ==
  /\ dma[g]
  /\ dma' = [dma EXCEPT ![g] = FALSE]
  /\ progSeqno' = [progSeqno EXCEPT ![g] = hpass]
  /\ UNCHANGED <<blockVars, projOut, l1Partial, l1Seqno, a, inFlight, payload, seqno,
                 doorbell, done, hpc, hpass, results>>

\* Mutants of Ring: the doorbell without the stream sync; GPU 1 is rung when
\* GPU 0 is done.
RingUnsynced(g) ==
  /\ hpc = IF g = 0 THEN "ring0" ELSE "ring1"
  /\ doorbell' = [doorbell EXCEPT ![g] = hpass]
  /\ HostGoto(IF g = 0 THEN "ring1" ELSE "wait")
  /\ UNCHANGED <<blockVars, memoryVars, dma, hpass, done, results>>

RingInTurn(g) ==
  /\ hpc = IF g = 0 THEN "ring0" ELSE "ring1"
  /\ ~ dma[g]
  /\ g = 1 => done[0] = hpass
  /\ doorbell' = [doorbell EXCEPT ![g] = hpass]
  /\ HostGoto(IF g = 0 THEN "ring1" ELSE "wait")
  /\ UNCHANGED <<blockVars, memoryVars, dma, hpass, done, results>>

\* cudaStreamSynchronize, then the doorbell: GPU 0 first, then GPU 1.
Ring(g) ==
  /\ hpc = IF g = 0 THEN "ring0" ELSE "ring1"
  /\ ~ dma[g]
  /\ doorbell' = [doorbell EXCEPT ![g] = hpass]
  /\ HostGoto(IF g = 0 THEN "ring1" ELSE "wait")
  /\ UNCHANGED <<blockVars, memoryVars, dma, hpass, done, results>>

\* The synchronisation of a GPU fails and CUDA_CHECK ends the process: GPU 0 may have
\* been rung alone, and its grid goes on until its context is torn down.
SyncFails ==
  /\ hpc \in {"ring0", "ring1"} /\ CanTimeout
  /\ HostGoto("failed")
  /\ UNCHANGED <<blockVars, memoryVars, doorbell, dma, hpass, done, results>>

\* Mutant of BothDone: the first GPU to be done returns the pass.
OneDone == \E g \in GPU : done[g] = hpass

\* Both GPUs are done with the pass.
BothDone == \A g \in GPU : done[g] = hpass

\* The dual pass is over.  The polls of h_err, here and on entry, are left out: no
\* block raises an error in this module.
Return ==
  /\ hpc = "wait" /\ BothDone
  /\ HostGoto("ready")
  /\ UNCHANGED <<blockVars, memoryVars, doorbell, dma, hpass, done, results>>

\* The callers of a dual_run_pass that timed out leave the process.  A device error
\* would take the host here as well.
Timeout ==
  /\ hpc = "wait" /\ ~ BothDone /\ CanTimeout
  /\ HostGoto("failed")
  /\ UNCHANGED <<blockVars, memoryVars, doorbell, dma, hpass, done, results>>

\* Mutant of Halt: the wait between the two HALTs is for the other kernel.
HaltWaitsForOther(g) ==
  /\ \/ g = 0 /\ hpc = "ready"
     \/ g = 1 /\ hpc = "halt0" /\ (Exited(1) \/ CanTimeout)
  /\ doorbell' = [doorbell EXCEPT ![g] = HALT]
  /\ HostGoto(IF g = 0 THEN "halt0" ELSE "halt1")
  /\ UNCHANGED <<blockVars, memoryVars, dma, hpass, done, results>>

\* dual_shutdown: HALT to one GPU, wait for its kernel, then the other.
Halt(g) ==
  /\ \/ g = 0 /\ hpc = "ready"
     \/ g = 1 /\ hpc = "halt0" /\ (Exited(0) \/ CanTimeout)
  /\ doorbell' = [doorbell EXCEPT ![g] = HALT]
  /\ HostGoto(IF g = 0 THEN "halt0" ELSE "halt1")
  /\ UNCHANGED <<blockVars, memoryVars, dma, hpass, done, results>>

Close ==
  /\ hpc = "halt1" /\ (Exited(1) \/ CanTimeout)
  /\ HostGoto("closed")
  /\ UNCHANGED <<blockVars, memoryVars, doorbell, dma, hpass, done, results>>

HostFinishes == (\E g \in GPU : Ring(g)) \/ Return \/ Halt(1) \/ Close

\* The process has ended, or every kernel has exited.
Terminated ==
  /\ hpc = "failed" \/ (hpc = "closed" /\ \A g \in GPU : Exited(g))
  /\ UNCHANGED vars

Next ==
  \/ \E g \in GPU, b \in Block : BlockStep(g, b) \/ Land(g, b)
  \/ \E g \in GPU : DmaLands(g)
  \/ QueuePatches \/ SyncFails \/ Timeout \/ Halt(0) \/ HostFinishes
  \/ Terminated

\* Both grids are co-resident and run; NVLink delivers; the host finishes what
\* it began.
Fairness ==
  /\ \A g \in GPU, b \in Block : WF_vars(BlockStep(g, b)) /\ WF_vars(Land(g, b))
  /\ \A g \in GPU : WF_vars(DmaLands(g))
  /\ WF_vars(HostFinishes)

Spec     == Init /\ [][Next]_vars
FairSpec == Spec /\ Fairness

-----------------------------------------------------------------------------
(***************************************************************************)
(* Properties.                                                             *)
(***************************************************************************)
Round(p, s) == (p - 1) * Sites + s

\* Type invariant.
TypeOK ==
  /\ pc \in [GPU -> [Block -> {"bell", "compute", "computed", "push", "membar",
        "pushed", "reduce", "publish", "poll", "fold", "folded", "exit"}]]
  /\ pass \in [GPU -> [Block -> 1 .. MaxPass + 1]]
  /\ site \in [GPU -> [Block -> Site]]
  /\ \A g \in GPU, b \in Block : entered[g][b] - left[g][b] \in {0, 1}
  /\ progSeqno \in [GPU -> 0 .. MaxPass]
  /\ a \in [GPU -> [Block -> 0 .. MaxPass]]
  /\ seqno \in [GPU -> [Site -> 0 .. MaxPass]]
  /\ done \in [GPU -> 0 .. MaxPass] /\ doorbell \in [GPU -> 0 .. MaxPass \cup {HALT}]
  /\ dma \in [GPU -> BOOLEAN] /\ hpass \in 0 .. MaxPass
  /\ hpc \in {"ready", "ring0", "ring1", "wait", "failed", "halt0", "halt1", "closed"}
  /\ \A g \in GPU, b \in Block : \A st \in inFlight[g][b] : st[1] \in Site /\ st[2] \in Elem

\* A seqno says that the whole payload of its pass is in the mailbox: every
\* element of it, pushed by any block (xchg.cuh:84-87 and :101-105).
SeqnoMeansPayload ==
  \A g \in GPU, s \in Site : seqno[g][s] > 0 =>
    \A e \in Elem : \E p \in seqno[g][s] .. MaxPass :
      payload[g][s][e] = Partial(Peer(g), p, s)

\* A mailbox has no acknowledgement: nothing of a later pass may arrive in it, or
\* be on its way, before every block of its GPU has folded this one.
MailboxNotOverrun ==
  \A g \in GPU, b \in Block, s \in Site :
    LET unread == pc[g][b] \notin {"folded", "bell", "exit"} /\ site[g][b] = s
        ours   == {Partial(Peer(g), p, s) : p \in 1 .. pass[g][b]} \cup {<<>>}
    IN unread => /\ \A e \in Elem : payload[g][s][e] \in ours
                 /\ \A c \in Block : \A st \in inFlight[Peer(g)][c] :
                      st[1] = s => st[3] \in ours

\* The exchange implements the mirrored allreduce: at every site both GPUs get
\* p0 + p1 of this very site and pass, in this order.
Given(g) ==
  LET stepsDone(b) == Round(pass[g][b], site[g][b]) -
                      (IF pc[g][b] \in {"bell", "compute", "exit"} THEN 1 ELSE 0)
  IN CHOOSE k \in {stepsDone(b) : b \in Block} :
       \A b \in Block : k <= stepsDone(b)

PassOf(k) == ((k - 1) \div Sites) + 1
SiteOf(k) == ((k - 1) % Sites) + 1

Mirrored ==
  INSTANCE AllReduce
  WITH Sum   <- LAMBDA k : Partial(0, PassOf(k), SiteOf(k)) \o Partial(1, PassOf(k), SiteOf(k)),
       given <- [g \in GPU |-> Given(g)],
       taken <- results

ImplementsAllReduce == Mirrored!Spec

\* harness.cpp:1606-1609: the kernel spins at the doorbell, so "patching
\* d_program in place is safe": every REDUCE uses the seqno of its pass.
PatchIsSafe ==
  \A g \in GPU, b \in Block :
    pc[g][b] \in {"publish", "poll", "fold"} => a[g][b] = pass[g][b]

\* sync.cuh:11-13: a mutable datum read across a boundary is never stale.  What a
\* block pushes is the partial of this site and pass.
PushedIsCurrent ==
  \A g \in GPU, b \in Block : pc[g][b] = "membar" =>
    \A st \in inFlight[g][b] : st[3] = Partial(g, pass[g][b], site[g][b])

\* Neither GPU waits for the other for ever: without a timeout every pass ends.
DualPassReturns == hpc \in {"ring0", "ring1", "wait"} ~> hpc = "ready"

\* A shutdown ends both kernels, one after the other.
BothKernelsExit == hpc = "halt0" ~> \A g \in GPU : Exited(g)
==============================================================================
