---------------------------- MODULE PassProtocol ----------------------------
(***************************************************************************)
(* The persistent interpreter (core/interp.cu) and the host library that   *)
(* drives it (core/host.cpp): one cooperative launch, a doorbell per pass, *)
(* the instruction loop, the epilogue boundary, the done cell, the error   *)
(* cells, and shutdown by a HALT doorbell.                                 *)
(*                                                                         *)
(* A block is one process: its threads run a protocol step together, held  *)
(* by __syncthreads.  The Y02 boundary is taken from the abstract Barrier, *)
(* which GridBoundary is shown to implement; its release/acquire makes a   *)
(* store before an Enter visible after the matching Leave, so the cells    *)
(* below hold one value each.                                              *)
(***************************************************************************)
EXTENDS Integers, Sequences, FiniteSets

CONSTANTS
  N,            \* blocks of the grid, blockIdx.x in 0 .. N-1
  Programs,     \* the flat instruction arrays a host may upload
  Token,        \* token ids, 0 among them (host_init zeroes the cell)
  PU,           \* 2^32: modulus of the u32 pass numbers
  RingCap,      \* pass_cycles_cap: entries of the pass-cycle ring
  MaxPass,      \* bound on the passes the host issues
  CanTimeout,   \* whether the watchdog deadline of a host poll may expire
  CopyCanFail   \* whether the token copy may return a CUDA error

Block == 0 .. N-1

HALT == PU - 1          \* DOORBELL_HALT

\* ErrCode of core/interp.cuh.
ERR_NONE == 0
ERR_BAD_KIND == 1
ERR_UNWIRED_KIND == 2
ERR_LOGITS_FLAG_MULTIBLOCK == 3

\* enum MacroKind of core/isa.cuh; any other kind is >= OP_KIND_COUNT.
MacroKind ==
  {"NOP", "BOUNDARY", "EMBED_LOOKUP", "RMSNORM", "QUANT_Q8_1", "HEAD_GEMV_F16",
   "LOGITS_EMIT", "MMVQ_Q4_0", "MMVQ_Q4_0_FUSED", "MMVQ_AR16", "GEMV_F16",
   "CONV_SHIFT_CONCAT", "SSM_CONV_SILU", "QK_L2NORM", "GDN_GATES", "GDN_STEP",
   "GATED_RMSNORM", "QK_NORM_ROPE", "KV_APPEND", "FATTN_DECODE", "FATTN_REDUCE",
   "ATTN_GATE", "RESIDUAL_ADD", "STATE_LOAD", "STATE_STORE", "XCHG_PUSH",
   "XCHG_REDUCE"}

\* op_wired: NOP, BOUNDARY and every kind with a MK_OP line in the registry.
Wired ==
  {"NOP", "BOUNDARY"} \cup
  {"RMSNORM", "RESIDUAL_ADD", "EMBED_LOOKUP", "LOGITS_EMIT", "STATE_LOAD",
   "CONV_SHIFT_CONCAT", "SSM_CONV_SILU", "QK_L2NORM", "GDN_GATES", "GDN_STEP",
   "GATED_RMSNORM", "STATE_STORE", "QUANT_Q8_1", "MMVQ_Q4_0", "MMVQ_Q4_0_FUSED",
   "MMVQ_AR16", "GEMV_F16", "HEAD_GEMV_F16", "QK_NORM_ROPE", "KV_APPEND",
   "FATTN_DECODE", "FATTN_REDUCE", "ATTN_GATE", "XCHG_PUSH", "XCHG_REDUCE"}

\* What the interpreter reads of an Instr; flag: a LOGITS_EMIT with a flag cell.
Instr == [kind : STRING, lo : 0 .. N, hi : 0 .. N, flag : BOOLEAN]

ASSUME ProtocolAssumption ==
  /\ N \in Nat \ {0}
  /\ PU \in Nat /\ PU > 2
  /\ RingCap \in Nat \ {0}
  /\ MaxPass \in 0 .. HALT - 1
  /\ 0 \in Token
  /\ CanTimeout \in BOOLEAN /\ CopyCanFail \in BOOLEAN
  /\ Programs \subseteq Seq(Instr)

VARIABLES
  program,    \* d_program: the instruction array of a pass
  \* host-mapped mailbox and device cells
  doorbellHost, doorbellDev, done, errHost, errDev, token, passCycles,
  \* the grid
  bpc,        \* where each block is
  bpass,      \* its pass counter
  ip,         \* its instruction index (1-based)
  saw,        \* the doorbell value block 0 polled and has yet to forward
  entered, left,  \* crossings of the Y02 boundary (Barrier)
  \* the host
  hpc, hpass, status, report, launched, freed, watchdog,
  \* history
  issued,     \* the tokens of the passes rung, in order
  embedded    \* embedded[p]: tokens the EMBED_LOOKUP blocks of pass p read

cells    == <<program, doorbellHost, doorbellDev, done, errHost, errDev, token, passCycles>>
grid     == <<bpc, bpass, ip, saw, entered, left>>
host     == <<hpc, hpass, status, report, launched, freed, watchdog>>
history  == <<issued, embedded>>
vars     == <<cells, grid, host, history>>

Y02 == INSTANCE Barrier

\* host_init zeroes every cell; nothing is uploaded or launched.
Init ==
  /\ program = <<>>
  /\ doorbellHost = 0 /\ doorbellDev = 0 /\ done = 0
  /\ errHost = [code |-> ERR_NONE, aux |-> 0] /\ errDev = ERR_NONE
  /\ token = 0
  /\ passCycles = [i \in 0 .. RingCap-1 |-> 0]
  /\ bpc = [b \in Block |-> "off"]
  /\ bpass = [b \in Block |-> 1]
  /\ ip = [b \in Block |-> 1]
  /\ saw = 0
  /\ Y02!Init
  /\ hpc = "init" /\ hpass = 0 /\ status = "NONE" /\ report = [code |-> 0, aux |-> 0]
  /\ launched = FALSE /\ freed = FALSE /\ watchdog = FALSE
  /\ issued = <<>>
  /\ embedded = [p \in 1 .. MaxPass |-> {}]

-----------------------------------------------------------------------------
(***************************************************************************)
(* The grid: mk_interp.                                                    *)
(***************************************************************************)

Goto(b, to) == bpc' = [bpc EXCEPT ![b] = to]

\* Mutant of Rung: the HALT value gets no exemption from the signed compare.
RungWithoutHalt(v, pass) == (v - pass) % PU < PU \div 2

\* v != DOORBELL_HALT && (int)(v - pass) < 0 keeps a block at the pass top.
Rung(v, pass) == v = HALT \/ (v - pass) % PU < PU \div 2

\* Block 0 polls the host doorbell over PCIe.
PollDoorbell ==
  /\ bpc[0] = "bell"
  /\ Rung(doorbellHost, bpass[0])
  /\ saw' = doorbellHost
  /\ Goto(0, "forward")
  /\ UNCHANGED <<cells, bpass, ip, entered, left, host, history>>

\* Mutant of ForwardDoorbell: the store to the device cell is missing.
NothingForwarded ==
  /\ bpc[0] = "forward"
  /\ Goto(0, IF saw = HALT THEN "exit" ELSE "instr")
  /\ ip' = [ip EXCEPT ![0] = 1]
  /\ UNCHANGED <<cells, bpass, saw, entered, left, host, history>>

\* ... forwards what it saw to the device cell, and obeys it.
ForwardDoorbell ==
  /\ bpc[0] = "forward"
  /\ doorbellDev' = saw
  /\ Goto(0, IF saw = HALT THEN "exit" ELSE "instr")
  /\ ip' = [ip EXCEPT ![0] = 1]
  /\ UNCHANGED <<program, doorbellHost, done, errHost, errDev, token, passCycles,
                 bpass, saw, entered, left, host, history>>

\* The other blocks spin on the device cell.
SpinDoorbell(b) ==
  /\ b # 0
  /\ bpc[b] = "bell"
  /\ Rung(doorbellDev, bpass[b])
  /\ Goto(b, IF doorbellDev = HALT THEN "exit" ELSE "instr")
  /\ ip' = [ip EXCEPT ![b] = 1]
  /\ UNCHANGED <<cells, bpass, saw, entered, left, host, history>>

AtInstr(b) == bpc[b] = "instr" /\ ip[b] <= Len(program)

InRange(b, in) == in.lo <= b /\ b < in.hi

\* A flagged LOGITS_EMIT over more than one block raises on every one of them.
Raises(in) == in.kind = "LOGITS_EMIT" /\ in.flag /\ in.hi - in.lo # 1

\* OP_BOUNDARY, and the epilogue boundary after the last instruction.
EnterBoundary(b) ==
  /\ \/ AtInstr(b) /\ program[ip[b]].kind = "BOUNDARY"
     \/ bpc[b] = "instr" /\ ip[b] = Len(program) + 1
  /\ Y02!Enter(b)
  /\ Goto(b, "boundary")
  /\ UNCHANGED <<cells, bpass, ip, saw, host, history>>

\* Mutants of LeaveBoundary: the instruction loop runs one past the end; block 0
\* does not wait for the others at the epilogue boundary.
LeavePastEnd(b) ==
  /\ bpc[b] = "boundary"
  /\ Y02!Leave(b)
  /\ Goto(b, "instr") /\ ip' = [ip EXCEPT ![b] = @ + 1]
  /\ UNCHANGED <<cells, bpass, saw, host, history>>

LeaveEpilogueEarly(b) ==
  /\ bpc[b] = "boundary"
  /\ IF b = 0 /\ ip[b] > Len(program)
     THEN left' = [left EXCEPT ![b] = @ + 1] /\ UNCHANGED entered
     ELSE Y02!Leave(b)
  /\ IF ip[b] <= Len(program)
     THEN Goto(b, "instr") /\ ip' = [ip EXCEPT ![b] = @ + 1]
     ELSE Goto(b, "epilogue") /\ UNCHANGED ip
  /\ UNCHANGED <<cells, bpass, saw, host, history>>

LeaveBoundary(b) ==
  /\ bpc[b] = "boundary"
  /\ Y02!Leave(b)
  /\ IF ip[b] <= Len(program)
     THEN Goto(b, "instr") /\ ip' = [ip EXCEPT ![b] = @ + 1]
     ELSE Goto(b, "epilogue") /\ UNCHANGED ip
  /\ UNCHANGED <<cells, bpass, saw, host, history>>

\* Mutant of BadInstr: only block 0 returns.
BadInstrOnlyBlock0(b) ==
  /\ AtInstr(b)
  /\ program[ip[b]].kind \notin Wired
  /\ IF b = 0
     THEN Goto(b, "raiseAux") /\ UNCHANGED ip
     ELSE ip' = [ip EXCEPT ![b] = @ + 1] /\ UNCHANGED bpc
  /\ UNCHANGED <<cells, bpass, saw, entered, left, host, history>>

\* A kind that is out of range or unwired: every block returns at it, block 0
\* after raising the error.
BadInstr(b) ==
  /\ AtInstr(b)
  /\ program[ip[b]].kind \notin Wired
  /\ Goto(b, IF b = 0 THEN "raiseAux" ELSE "exit")
  /\ UNCHANGED <<cells, bpass, ip, saw, entered, left, host, history>>

\* Dispatch of a wired op in whose range the block is, or the skip of another.
Dispatch(b) ==
  /\ AtInstr(b)
  /\ LET in == program[ip[b]] IN
       /\ in.kind \in Wired \ {"BOUNDARY"}
       /\ IF InRange(b, in) /\ Raises(in)
          THEN Goto(b, "raiseAux") /\ UNCHANGED ip
          ELSE ip' = [ip EXCEPT ![b] = @ + 1] /\ UNCHANGED bpc
       /\ embedded' = IF InRange(b, in) /\ in.kind = "EMBED_LOOKUP"
                      THEN [embedded EXCEPT ![bpass[b]] = @ \cup {token}]
                      ELSE embedded
  /\ UNCHANGED <<cells, bpass, saw, entered, left, host, issued>>

\* The code raised at instruction i.
ErrAt(i) ==
  LET k == program[i].kind IN
    CASE k \notin MacroKind       -> ERR_BAD_KIND
      [] k \in MacroKind \ Wired  -> ERR_UNWIRED_KIND
      [] k \in Wired              -> ERR_LOGITS_FLAG_MULTIBLOCK

\* raise_error(code, aux): aux, then the code with release.sys, then err_dev.
\* The aux of an op, its dbg_node, is represented by its index like the others.

\* Mutant of RaiseAux: the code is published before its aux is there.
RaiseCodeFirst(b) ==
  /\ bpc[b] = "raiseAux"
  /\ errHost' = [errHost EXCEPT !.code = ErrAt(ip[b])]
  /\ Goto(b, "raiseCode")
  /\ UNCHANGED <<program, doorbellHost, doorbellDev, done, errDev, token, passCycles,
                 bpass, ip, saw, entered, left, host, history>>

RaiseAux(b) ==
  /\ bpc[b] = "raiseAux"
  /\ errHost' = [errHost EXCEPT !.aux = ip[b]]
  /\ Goto(b, "raiseCode")
  /\ UNCHANGED <<program, doorbellHost, doorbellDev, done, errDev, token, passCycles,
                 bpass, ip, saw, entered, left, host, history>>

RaiseCode(b) ==
  /\ bpc[b] = "raiseCode"
  /\ errHost' = [errHost EXCEPT !.code = ErrAt(ip[b])]
  /\ Goto(b, "raiseDev")
  /\ UNCHANGED <<program, doorbellHost, doorbellDev, done, errDev, token, passCycles,
                 bpass, ip, saw, entered, left, host, history>>

\* The interpreter's own raise returns from the kernel, an op's goes on.
RaiseDev(b) ==
  /\ bpc[b] = "raiseDev"
  /\ errDev' = ErrAt(ip[b])
  /\ IF program[ip[b]].kind \in Wired
     THEN Goto(b, "instr") /\ ip' = [ip EXCEPT ![b] = @ + 1]
     ELSE Goto(b, "exit") /\ UNCHANGED ip
  /\ UNCHANGED <<program, doorbellHost, doorbellDev, done, errHost, token, passCycles,
                 bpass, saw, entered, left, host, history>>

\* Mutants of Epilogue: the ring is indexed by pass, not pass-1; the pass is
\* published whatever the sample said.
EpilogueRingOffByOne(b) ==
  /\ bpc[b] = "epilogue"
  /\ IF b = 0
     THEN /\ passCycles' = [passCycles EXCEPT ![bpass[b] % RingCap] = bpass[b]]
          /\ done' = IF errDev = ERR_NONE THEN bpass[b] ELSE done
     ELSE UNCHANGED <<passCycles, done>>
  /\ Goto(b, IF errDev = ERR_NONE THEN "bell" ELSE "exit")
  /\ bpass' = IF errDev = ERR_NONE THEN [bpass EXCEPT ![b] = (@ + 1) % PU] ELSE bpass
  /\ UNCHANGED <<program, doorbellHost, doorbellDev, errHost, errDev, token,
                 ip, saw, entered, left, host, history>>

EpilogueAlwaysDone(b) ==
  /\ bpc[b] = "epilogue"
  /\ done' = IF b = 0 THEN bpass[b] ELSE done
  /\ Goto(b, IF errDev = ERR_NONE THEN "bell" ELSE "exit")
  /\ bpass' = IF errDev = ERR_NONE THEN [bpass EXCEPT ![b] = (@ + 1) % PU] ELSE bpass
  /\ UNCHANGED <<program, doorbellHost, doorbellDev, errHost, errDev, token, passCycles,
                 ip, saw, entered, left, host, history>>

\* Pass epilogue: sample err_dev, record the pass in the cycle ring and, if no
\* error, publish it; return on an error, else on to the next pass.  The ring
\* entry is the number of the pass whose cycles it stands for.
Epilogue(b) ==
  /\ bpc[b] = "epilogue"
  /\ IF b = 0
     THEN /\ passCycles' = [passCycles EXCEPT ![(bpass[b] - 1) % RingCap] = bpass[b]]
          /\ done' = IF errDev = ERR_NONE THEN bpass[b] ELSE done
     ELSE UNCHANGED <<passCycles, done>>
  /\ Goto(b, IF errDev = ERR_NONE THEN "bell" ELSE "exit")
  /\ bpass' = IF errDev = ERR_NONE THEN [bpass EXCEPT ![b] = (@ + 1) % PU] ELSE bpass
  /\ UNCHANGED <<program, doorbellHost, doorbellDev, errHost, errDev, token,
                 ip, saw, entered, left, host, history>>

BlockStep(b) ==
  \/ b = 0 /\ (PollDoorbell \/ ForwardDoorbell)
  \/ SpinDoorbell(b)
  \/ EnterBoundary(b)
  \/ LeaveBoundary(b)
  \/ BadInstr(b)
  \/ Dispatch(b)
  \/ RaiseAux(b)
  \/ RaiseCode(b)
  \/ RaiseDev(b)
  \/ Epilogue(b)

GridExited == \A b \in Block : bpc[b] = "exit"

-----------------------------------------------------------------------------
(***************************************************************************)
(* The host: host_launch, host_run_pass, host_shutdown, host_destroy.      *)
(***************************************************************************)

\* host_upload.
Upload ==
  /\ hpc = "init"
  /\ \E p \in Programs : program' = p
  /\ hpc' = "uploaded"
  /\ UNCHANGED <<doorbellHost, doorbellDev, done, errHost, errDev, token, passCycles,
                 grid, hpass, status, report, launched, freed, watchdog, history>>

\* host_launch: the cooperative launch makes every block resident.
Launch ==
  /\ hpc = "uploaded"
  /\ hpc' = "idle" /\ hpass' = 0 /\ launched' = TRUE
  /\ bpc' = [b \in Block |-> "bell"]
  /\ UNCHANGED <<cells, bpass, ip, saw, entered, left, status, report, freed,
                 watchdog, history>>

\* A run returns its status to the caller.
Return(st) ==
  /\ hpc' = "idle"
  /\ status' = st

\* The host has found a code in the error cells; the aux is another read.
ReportCode ==
  /\ report' = [report EXCEPT !.code = errHost.code]
  /\ hpc' = "readAux"

\* host_run_pass up to the token copy.  A call after RUN_ERR is refused here; no
\* caller makes one after RUN_TIMEOUT.
RunPass ==
  /\ hpc = "idle"
  /\ status # "TIMEOUT"
  /\ IF errHost.code # ERR_NONE
     THEN ReportCode /\ UNCHANGED hpass
     ELSE /\ hpass < MaxPass
          /\ hpass' = hpass + 1
          /\ hpc' = "copy"
          /\ UNCHANGED report
  /\ UNCHANGED <<cells, grid, status, launched, freed, watchdog, history>>

\* cudaMemcpyAsync of the token and the stream sync: the cell holds it, or a
\* CUDA error ends the run.
CopyToken ==
  /\ hpc = "copy"
  /\ \/ /\ \E t \in Token : token' = t
        /\ hpc' = "ring"
        /\ UNCHANGED status
     \/ /\ CopyCanFail
        /\ Return("TIMEOUT")
        /\ UNCHANGED token
  /\ UNCHANGED <<program, doorbellHost, doorbellDev, done, errHost, errDev, passCycles,
                 grid, hpass, report, launched, freed, watchdog, history>>

RingDoorbell ==
  /\ hpc = "ring"
  /\ doorbellHost' = hpass
  /\ issued' = Append(issued, token)
  /\ hpc' = "pollErr"
  /\ UNCHANGED <<program, doorbellDev, done, errHost, errDev, token, passCycles, grid,
                 hpass, status, report, launched, freed, watchdog, embedded>>

\* One turn of the poll loop: first the error cell ...
PollErr ==
  /\ hpc = "pollErr"
  /\ IF errHost.code # ERR_NONE
     THEN ReportCode
     ELSE hpc' = "pollDone" /\ UNCHANGED report
  /\ UNCHANGED <<cells, grid, hpass, status, launched, freed, watchdog, history>>

\* ... whose aux is read for the message, by when other blocks may have raised, too.
ReadAux ==
  /\ hpc = "readAux"
  /\ report' = [report EXCEPT !.aux = errHost.aux]
  /\ Return("ERR")
  /\ UNCHANGED <<cells, grid, hpass, launched, freed, watchdog, history>>

\* Mutant of PollDone: any completed pass is taken for this one.
PollDoneStale ==
  /\ hpc = "pollDone"
  /\ IF done > 0
     THEN Return("OK") /\ UNCHANGED watchdog
     ELSE \/ /\ hpc' = "pollErr"
             /\ UNCHANGED <<status, watchdog>>
          \/ /\ CanTimeout
             /\ Return("TIMEOUT")
             /\ watchdog' = TRUE
  /\ UNCHANGED <<cells, grid, hpass, report, launched, freed, history>>

\* ... then the done cell, then the deadline.
PollDone ==
  /\ hpc = "pollDone"
  /\ IF done = hpass
     THEN Return("OK") /\ UNCHANGED watchdog
     ELSE \/ /\ hpc' = "pollErr"
             /\ UNCHANGED <<status, watchdog>>
          \/ /\ CanTimeout
             /\ Return("TIMEOUT")
             /\ watchdog' = TRUE
  /\ UNCHANGED <<cells, grid, hpass, report, launched, freed, history>>

Shutdown ==
  /\ hpc = "idle"
  /\ doorbellHost' = HALT
  /\ hpc' = "stopping"
  /\ UNCHANGED <<program, doorbellDev, done, errHost, errDev, token, passCycles, grid,
                 hpass, status, report, launched, freed, watchdog, history>>

\* The stream query loop: the kernel has exited, or the deadline expires.
AwaitExit ==
  /\ hpc = "stopping"
  /\ \/ GridExited /\ launched' = FALSE
     \/ ~ GridExited /\ CanTimeout /\ UNCHANGED launched
  /\ hpc' = "closed"
  /\ UNCHANGED <<cells, grid, hpass, status, report, freed, watchdog, history>>

\* Mutant of Destroy: the buffers are freed under a live kernel.
DestroyAlways ==
  /\ hpc = "closed"
  /\ freed' = TRUE
  /\ hpc' = "destroyed"
  /\ UNCHANGED <<cells, grid, hpass, status, report, launched, watchdog, history>>

\* host_destroy leaks the buffers of a kernel it has not seen exit.
Destroy ==
  /\ hpc = "closed"
  /\ freed' = ~ launched
  /\ hpc' = "destroyed"
  /\ UNCHANGED <<cells, grid, hpass, status, report, launched, watchdog, history>>

\* The program is over: nothing is left to run.
Terminated ==
  /\ hpc = "destroyed" /\ GridExited
  /\ UNCHANGED vars

HostWaits ==
  CopyToken \/ RingDoorbell \/ PollErr \/ ReadAux \/ PollDone \/ AwaitExit \/ Destroy

HostStep == Upload \/ Launch \/ RunPass \/ Shutdown \/ HostWaits

Next == (\E b \in Block : BlockStep(b)) \/ HostStep \/ Terminated

\* The grid is co-resident (cooperative launch), so every block runs; the host
\* thread finishes the call it is in, but need not make another.
Fairness == (\A b \in Block : WF_vars(BlockStep(b))) /\ WF_vars(HostWaits)

Spec     == Init /\ [][Next]_vars
FairSpec == Spec /\ Fairness

-----------------------------------------------------------------------------
(***************************************************************************)
(* Properties.                                                             *)
(***************************************************************************)

\* Type invariant.
TypeOK ==
  /\ doorbellHost \in 0 .. PU-1 /\ doorbellDev \in 0 .. PU-1 /\ done \in 0 .. PU-1
  /\ errHost.code \in 0 .. 3 /\ errHost.aux \in 0 .. Len(program) /\ errDev \in 0 .. 3
  /\ token \in Token
  /\ passCycles \in [0 .. RingCap-1 -> 0 .. MaxPass]
  /\ bpc \in [Block -> {"off", "bell", "forward", "instr", "boundary", "epilogue",
                        "raiseAux", "raiseCode", "raiseDev", "exit"}]
  /\ bpass \in [Block -> 1 .. MaxPass + 1]
  /\ ip \in [Block -> 1 .. Len(program) + 1]
  /\ saw \in 0 .. PU-1
  /\ program \in Programs \cup {<<>>}
  /\ hpc \in {"init", "uploaded", "idle", "copy", "ring", "pollErr", "readAux", "pollDone",
              "stopping", "closed", "destroyed"}
  /\ hpass \in 0 .. MaxPass
  /\ status \in {"NONE", "OK", "ERR", "TIMEOUT"}
  /\ report.code \in 0 .. 3 /\ report.aux \in 0 .. Len(program)
  /\ launched \in BOOLEAN /\ freed \in BOOLEAN /\ watchdog \in BOOLEAN
  /\ issued \in Seq(Token)
  /\ embedded \in [1 .. MaxPass -> SUBSET Token]

\* RUN_OK means the whole pass ran, on every block, and nothing of a later one:
\* each block has arrived at the epilogue boundary of exactly that pass, and none
\* has begun another (host.cpp:165, the done cell written after the
\* epilogue boundary).
OkMeansPassComplete ==
  hpc = "idle" /\ status = "OK" =>
    \A b \in Block :
      \/ bpc[b] \in {"boundary", "epilogue"} /\ ip[b] = Len(program) + 1 /\ bpass[b] = hpass
      \/ bpc[b] = "bell" /\ bpass[b] = hpass + 1

\* No boundary is left half-arrived: a block never waits at a boundary that a
\* block which has already left the kernel did not reach (interp.cu:106-108
\* and :130-134, the uniform error exits; and HALT seen by all or by none).
NoStrandedBlock ==
  \A b, c \in Block :
    bpc[b] = "boundary" /\ bpc[c] = "exit" => entered[c] >= entered[b]

\* Buffers are freed only when no block can touch them (host.cpp:197-205).
FreedOnlyAfterExit == freed => GridExited

\* What the host reports of an error is a raised pair: a code with the aux of
\* its instruction, never a code with the aux of before the raise.
ReportIsRaised ==
  status = "ERR" =>
    /\ report.code # ERR_NONE
    /\ report.aux \in 1 .. Len(program)
    /\ report.code = ErrAt(report.aux)

\* The done cell never names a pass that raised (interp.cuh:34): a program with
\* an error in it completes no pass.
ErroredPassNeverDone ==
  (\E i \in 1 .. Len(program) :
     program[i].kind \notin Wired
       \/ (Raises(program[i]) /\ \E b \in Block : InRange(b, program[i])))
  => done = 0

\* When a run returned RUN_OK, the ring holds the last passes, newest at
\* (pass-1) % cap, as bench_run and run_g15 index it.
RingHoldsLastPasses ==
  hpc = "idle" /\ status = "OK" =>
    \A k \in 0 .. RingCap-1 :
      k < hpass => passCycles[(hpass - 1 - k) % RingCap] = hpass - k

\* What test_interp.cu:309-311 expects of OP_XCHG_PUSH, that it stays unwired: a
\* program with it in is never answered with RUN_OK.
XchgPushIsRefused ==
  (\E i \in 1 .. Len(program) : program[i].kind = "XCHG_PUSH") => status # "OK"

\* What host.h:34 says of RUN_TIMEOUT: "watchdog fired; kernel state reported".
TimeoutMeansWatchdog == status = "TIMEOUT" => watchdog

\* The doorbell protocol implements one request, one answer.
Service ==
  INSTANCE PassService
  WITH requested <- issued,
       answered  <- [p \in 1 .. done |-> embedded[p]]

ImplementsService == Service!Spec

\* Without a watchdog expiry, every run_pass returns: RUN_OK or RUN_ERR.
RunPassReturns ==
  hpc \in {"copy", "ring", "pollErr", "readAux", "pollDone"} ~> hpc = "idle"

\* HALT always ends the kernel, whatever pass is in flight.
HaltEndsKernel == hpc = "stopping" ~> GridExited
==============================================================================
