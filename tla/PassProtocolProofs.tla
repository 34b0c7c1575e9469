-------------------------- MODULE PassProtocolProofs --------------------------
(***************************************************************************)
(* Proofs about the doorbell protocol, for every grid size, every set of   *)
(* programs, every modulus PU > 2 of the pass numbers, every ring and every*)
(* number of passes that fits below HALT.                                  *)
(***************************************************************************)
EXTENDS PassProtocol, SequenceTheorems, TLAPS

-----------------------------------------------------------------------------
(***************************************************************************)
(* Where the blocks are.                                                   *)
(***************************************************************************)

\* A block at the top of a pass: polling a doorbell, or not launched yet.
Ready(b) == bpc[b] \in {"off", "bell", "forward"}

\* A block that has come out of the epilogue boundary of its pass.
AfterEpilogue(b) ==
  \/ bpc[b] = "epilogue"
  \/ bpc[b] = "exit" /\ ip[b] > Len(program) /\ Len(program) # 0

\* The pass a block is in and the instruction it is at: after an epilogue, the
\* first one of the next pass.
P(b) == IF AfterEpilogue(b) THEN bpass[b] + 1 ELSE bpass[b]
I(b) == IF Ready(b) \/ AfterEpilogue(b) THEN 1 ELSE ip[b]

\* No OP_BOUNDARY among the instructions from i up to, not including, j.
Clear(i, j) ==
  \A k \in 1 .. Len(program) : i <= k /\ k < j => program[k].kind # "BOUNDARY"

\* Two blocks between the same two boundaries.
Level(b, c) == P(b) = P(c) /\ Clear(I(b), I(c)) /\ Clear(I(c), I(b))

\* Block c has left the boundary block b waits at, and none since.
Beyond(b, c) ==
  /\ bpc[b] = "boundary"
  /\ IF ip[b] <= Len(program)
     THEN P(c) = P(b) /\ I(c) > ip[b] /\ Clear(ip[b] + 1, I(c))
     ELSE P(c) = P(b) + 1 /\ Clear(1, I(c))

\* Block b raises an error, or returns, at instruction i.
Errs(i, b) ==
  program[i].kind \notin Wired \/ (Raises(program[i]) /\ InRange(b, program[i]))

\* No block meets an error in the program.
ErrFree == \A i \in 1 .. Len(program), b \in Block : ~ Errs(i, b)

\* The cells a block may be told of a pass by: beyond its doorbell.
Served == ~ (bpc[0] \in {"off", "bell"}) /\ ~ (bpc[0] = "forward" /\ saw = HALT)
            /\ doorbellDev # HALT

-----------------------------------------------------------------------------
(***************************************************************************)
(* The inductive invariant.                                                *)
(***************************************************************************)

BlockPC == {"off", "bell", "forward", "instr", "boundary", "epilogue",
            "raiseAux", "raiseCode", "raiseDev", "exit"}

CellTypes ==
  /\ doorbellHost \in 0 .. PU-1 /\ doorbellDev \in 0 .. PU-1
  /\ done \in 0 .. MaxPass
  /\ program \in Programs \cup {<<>>}
  /\ errHost \in [code : 0 .. 3, aux : 0 .. Len(program)] /\ errDev \in 0 .. 3
  /\ token \in Token
  /\ passCycles \in [0 .. RingCap-1 -> 0 .. MaxPass]

GridTypes ==
  /\ bpc \in [Block -> BlockPC]
  /\ bpass \in [Block -> 1 .. MaxPass + 1]
  /\ ip \in [Block -> 1 .. Len(program) + 1]
  /\ saw \in 0 .. PU-1
  /\ entered \in [Block -> Nat] /\ left \in [Block -> Nat]

HostTypes ==
  /\ hpc \in {"init", "uploaded", "idle", "copy", "ring", "pollErr", "readAux", "pollDone",
              "stopping", "closed", "destroyed"}
  /\ hpass \in 0 .. MaxPass
  /\ status \in {"NONE", "OK", "ERR", "TIMEOUT"}
  /\ report \in [code : 0 .. 3, aux : 0 .. Len(program)]
  /\ launched \in BOOLEAN /\ freed \in BOOLEAN /\ watchdog \in BOOLEAN

HistoryTypes ==
  /\ issued \in Seq(Token)
  /\ embedded \in [1 .. MaxPass -> SUBSET Token]

Types == CellTypes /\ GridTypes /\ HostTypes /\ HistoryTypes

\* What a block's program counter says of its instruction and its crossings.
ShapeOf(b) ==
  /\ entered[b] = IF bpc[b] = "boundary" THEN left[b] + 1 ELSE left[b]
  /\ bpc[b] = "boundary" =>
       ip[b] = Len(program) + 1 \/ program[ip[b]].kind = "BOUNDARY"
  /\ bpc[b] = "epilogue" => ip[b] = Len(program) + 1
  /\ bpc[b] \in {"raiseAux", "raiseCode", "raiseDev"} =>
       ip[b] <= Len(program) /\ Errs(ip[b], b)
  /\ bpc[b] = "forward" => b = 0
  /\ bpc[b] = "exit" =>
       \/ ip[b] <= Len(program) /\ program[ip[b]].kind \notin Wired
       \/ ip[b] = Len(program) + 1 /\ Len(program) # 0 /\ errDev # ERR_NONE
       \/ ip[b] = 1 /\ doorbellDev = HALT

Shape == \A b \in Block : ShapeOf(b)

\* Two blocks have left the same boundaries, or one of them waits at the one the
\* other left last.
Pair(b, c) ==
  \/ left[b] = left[c] /\ Level(b, c)
  \/ left[c] = left[b] + 1 /\ Beyond(b, c)
  \/ left[b] = left[c] + 1 /\ Beyond(c, b)

Lockstep == \A b, c \in Block : Pair(b, c)

\* What is behind a block had no error, or err_dev tells of it; no block starts a
\* second pass of a program with an error in it.
Errors ==
  /\ \A b \in Block : \A i \in 1 .. Len(program) :
       i < ip[b] => program[i].kind \in Wired /\ (Errs(i, b) => errDev # ERR_NONE)
  /\ \A b \in Block : bpass[b] >= 2 => ErrFree
  /\ errDev # ERR_NONE \/ errHost.code # ERR_NONE => ~ ErrFree

\* Block 0 and the device doorbell, and what they let the other blocks do.
Bell ==
  /\ IF Ready(0) THEN doorbellDev = bpass[0] - 1
                 ELSE doorbellDev \in {bpass[0], HALT}
  /\ bpc[0] = "forward" => saw \in {bpass[0], HALT}
  /\ Ready(0) => \A b \in Block : bpc[b] # "exit"
  /\ \A b \in Block : ~ Ready(b) /\ doorbellDev # HALT => bpass[b] <= doorbellDev
  /\ doorbellDev = HALT =>
       /\ bpc[0] = "exit"
       /\ \A b \in Block :
            \/ bpass[b] = bpass[0] /\ bpc[b] \in {"bell", "exit"}
            \/ /\ bpass[b] = bpass[0] - 1 /\ bpc[b] \in {"boundary", "epilogue"}
               /\ ip[b] = Len(program) + 1 /\ errDev = ERR_NONE

\* The host against block 0.
Host ==
  /\ done = bpass[0] - 1
  /\ hpass \in {done, done + 1}
  /\ IF hpc \in {"stopping", "closed", "destroyed"}
     THEN doorbellHost = HALT
     ELSE doorbellHost \in {done, done + 1} /\ doorbellHost <= hpass
  /\ hpc \in {"copy", "ring"} => hpass = done + 1 /\ doorbellHost = done
  /\ hpc \in {"pollErr", "pollDone"} => doorbellHost = hpass /\ hpass >= 1
  /\ hpc = "idle" /\ status \in {"NONE", "OK"} => hpass = done /\ doorbellHost = done
  /\ status = "OK" => hpass >= 1
  /\ status = "ERR" \/ hpc = "readAux" => errHost.code # ERR_NONE
  /\ Served => hpass = bpass[0] /\ doorbellHost \in {bpass[0], HALT}
  /\ (bpc[0] = "forward" /\ saw = HALT) \/ doorbellDev = HALT => doorbellHost = HALT

\* Before the launch nothing runs, and the buffers outlive every block.
Life ==
  /\ \A b \in Block : bpc[b] = "off" <=> hpc \in {"init", "uploaded"}
  /\ hpc \in {"init", "uploaded"} =>
       /\ \A b \in Block : bpass[b] = 1 /\ ip[b] = 1
       /\ doorbellHost = 0 /\ hpass = 0 /\ status = "NONE"
       /\ ~ launched /\ errHost.code = ERR_NONE /\ errDev = ERR_NONE
  /\ IF hpc = "init" THEN program = <<>> /\ errHost.aux = 0 /\ report.aux = 0
                     ELSE program \in Programs
  /\ launched \/ hpc \in {"init", "uploaded"} \/ GridExited
  /\ freed => ~ launched /\ hpc = "destroyed"

\* The ring keeps the last RingCap passes.
Ring ==
  \A p \in 1 .. done : p > done - RingCap => passCycles[(p - 1) % RingCap] = p

IInv == Types /\ Shape /\ Lockstep /\ Errors /\ Bell /\ Host /\ Life /\ Ring

-----------------------------------------------------------------------------
(***************************************************************************)
(* Arithmetic and constants.                                               *)
(***************************************************************************)

\* A number in range is its own remainder.
LEMMA SmallMod ==
  ASSUME NEW m \in Nat \ {0}, NEW a \in 0 .. m-1
  PROVE  a % m = a
OBVIOUS

\* The signed compare at the doorbell: one pass behind is not rung, the pass itself
\* and HALT are.
LEMMA RungIff ==
  ASSUME NEW p \in 1 .. MaxPass + 1, NEW v \in {p - 1, p, HALT}
  PROVE  Rung(v, p) <=> v \in {p, HALT}
<1>1. /\ PU \in Nat /\ PU > 2 /\ MaxPass \in 0 .. PU - 2
  BY ProtocolAssumption DEF HALT
<1>2. (p - p) % PU = 0 /\ 0 < PU \div 2
  BY <1>1, SmallMod
<1>3. (p - 1 - p) % PU = PU - 1
  BY <1>1
<1>4. ~ (PU - 1 < PU \div 2)
  BY <1>1
<1>5. p - 1 # HALT
  BY <1>1 DEF HALT
<1>6. QED
  BY <1>1, <1>2, <1>3, <1>4, <1>5 DEF Rung

\* Two numbers less than m apart have different remainders.
LEMMA DistinctMods ==
  ASSUME NEW m \in Nat \ {0}, NEW a \in Nat, NEW b \in Nat, a < b, b < a + m
  PROVE  a % m # b % m
<1>1. /\ a % m \in Int /\ a \div m \in Int /\ a = m * (a \div m) + (a % m)
      /\ b % m \in Int /\ b \div m \in Int /\ b = m * (b \div m) + (b % m)
  OBVIOUS
<1>2. ASSUME a % m = b % m
      PROVE  FALSE
  <2> DEFINE k == (b \div m) - (a \div m)
  <2>1. k \in Int /\ b - a = m * k
    BY <1>1, <1>2
  <2>2. CASE k <= 0
    <3>1. m * k <= 0
      BY <2>1, <2>2
    <3>2. QED
      BY <2>1, <3>1
  <2>3. CASE k >= 1
    <3>1. m * k >= m
      BY <2>1, <2>3
    <3>2. QED
      BY <2>1, <3>1
  <2>4. QED
    BY <2>1, <2>2, <2>3
<1>3. QED
  BY <1>2

\* Every error code an instruction raises is an error.
LEMMA ErrAtCodes ==
  ASSUME NEW i
  PROVE  ErrAt(i) \in 1 .. 3
<1>1. Wired \subseteq MacroKind
  BY DEF Wired, MacroKind
<1>2. \/ program[i].kind \notin MacroKind
      \/ program[i].kind \in MacroKind \ Wired
      \/ program[i].kind \in Wired
  OBVIOUS
<1>3. QED
  BY <1>1, <1>2 DEF ErrAt, ERR_BAD_KIND, ERR_UNWIRED_KIND, ERR_LOGITS_FLAG_MULTIBLOCK

\* The program is a sequence of instructions, of any length.
LEMMA ProgramSeq ==
  ASSUME Types
  PROVE  program \in Seq(Instr) /\ Len(program) \in Nat
<1>1. <<>> \in Seq(Instr)
  OBVIOUS
<1>2. program \in Programs \/ program = <<>>
  BY DEF Types, CellTypes
<1>3. program \in Seq(Instr)
  BY <1>1, <1>2, ProtocolAssumption
<1>4. QED
  BY <1>3

\* There is a block 0.
LEMMA BlockZero == 0 \in Block /\ Block \subseteq Nat
BY ProtocolAssumption DEF Block
-----------------------------------------------------------------------------
(***************************************************************************)
(* What the invariant says at the doorbells and at the epilogue.           *)
(***************************************************************************)

\* Block 0 polls a host doorbell that is one pass behind it, at it, or HALT.
LEMMA HostBellDist ==
  ASSUME Types, Host
  PROVE  doorbellHost \in {bpass[0] - 1, bpass[0], HALT}
BY BlockZero DEF Types, CellTypes, GridTypes, Host

\* A waiting block is at most one pass ahead of the device doorbell.
LEMMA DevBellDist ==
  ASSUME Types, Lockstep, Bell, NEW b \in Block, bpc[b] = "bell"
  PROVE  doorbellDev \in {bpass[b] - 1, bpass[b], HALT}
<1>1. P(b) = bpass[b] /\ I(b) = 1
  BY DEF P, I, Ready, AfterEpilogue
<1>2. bpass[0] \in Int /\ bpass[b] \in Int /\ ip[0] \in Nat \ {0}
  BY BlockZero DEF Types, GridTypes, HostTypes
<1>3. P(0) = bpass[0] \/ (P(0) = bpass[0] + 1 /\ AfterEpilogue(0))
  BY DEF P
<1>4. CASE Level(0, b)
  BY <1>1, <1>2, <1>3, <1>4 DEF Level, Bell, Ready, AfterEpilogue
<1>5. CASE Beyond(0, b)
  BY <1>1, <1>2, <1>5 DEF Beyond, Bell, Ready, P, AfterEpilogue
<1>6. CASE Beyond(b, 0)
  BY <1>6 DEF Beyond
<1>7. QED
  BY <1>4, <1>5, <1>6, BlockZero DEF Lockstep, Pair

\* What is left of a pass once a block is out of its epilogue boundary.
LEMMA EpiloguePass ==
  ASSUME Types, Bell, Host, NEW b \in Block, bpc[b] = "epilogue"
  PROVE  /\ bpass[b] <= MaxPass
         /\ (bpass[b] + 1) % PU = bpass[b] + 1
<1>1. PU \in Nat /\ PU > 2 /\ MaxPass \in 0 .. PU - 2
  BY ProtocolAssumption DEF HALT
<1>2. bpass[0] \in 1 .. MaxPass + 1 /\ bpass[b] \in 1 .. MaxPass + 1 /\ hpass \in 0 .. MaxPass
  BY BlockZero DEF Types, GridTypes, HostTypes
<1>3. ~ Ready(b)
  BY DEF Ready
<1>4. bpass[b] <= MaxPass
  <2>1. CASE doorbellDev = HALT
    BY <1>1, <1>2, <2>1 DEF Bell
  <2>2. CASE doorbellDev # HALT /\ Ready(0)
    BY <1>1, <1>2, <1>3, <2>2 DEF Bell
  <2>3. CASE doorbellDev # HALT /\ ~ Ready(0)
    <3>1. Served
      BY <2>3 DEF Served, Ready
    <3>2. QED
      BY <1>1, <1>2, <1>3, <2>3, <3>1 DEF Bell, Host
  <2>4. QED
    BY <2>1, <2>2, <2>3
<1>5. QED
  BY <1>1, <1>2, <1>4, SmallMod

-----------------------------------------------------------------------------
(***************************************************************************)
(* Types.                                                                  *)
(***************************************************************************)

\* A block that moves on is still somewhere.
LEMMA GotoType ==
  ASSUME bpc \in [Block -> BlockPC], NEW b, NEW to \in BlockPC, Goto(b, to)
  PROVE  bpc' \in [Block -> BlockPC]
BY DEF Goto

\* The next instruction is still one of the program, or one past it.
LEMMA NextInstrType ==
  ASSUME NEW n \in Nat, NEW f \in [Block -> 1 .. n + 1], NEW b \in Block, f[b] <= n
  PROVE  [f EXCEPT ![b] = f[b] + 1] \in [Block -> 1 .. n + 1]
<1>1. f[b] + 1 \in 1 .. n + 1
  OBVIOUS
<1>2. QED
  BY <1>1

\* Every step of a block keeps the types.
LEMMA BlockTypes ==
  ASSUME IInv, NEW b \in Block, BlockStep(b)
  PROVE  Types'
<1> USE DEF BlockPC
<1>1. Types /\ Shape /\ Bell /\ Host
  BY DEF IInv
<1>2. CellTypes /\ GridTypes /\ HostTypes /\ HistoryTypes
  BY <1>1 DEF Types
<1>3. PU \in Nat /\ PU > 2 /\ MaxPass \in Nat /\ MaxPass <= PU - 2 /\ HALT \in 0 .. PU-1
      /\ N \in Nat /\ RingCap \in Nat \ {0}
  BY ProtocolAssumption DEF HALT
<1>4. program \in Seq(Instr) /\ Len(program) \in Nat
  BY <1>1, ProgramSeq
<1>5. \A i : ErrAt(i) \in 0 .. 3
  BY ErrAtCodes
<1>6. 0 \in Block
  BY BlockZero
<1>7. CASE b = 0 /\ PollDoorbell
  <2>1. CellTypes' /\ HostTypes' /\ HistoryTypes'
    BY <1>2, <1>7 DEF PollDoorbell, cells, host, history, CellTypes, HostTypes, HistoryTypes
  <2>2. GridTypes'
    BY <1>2, <1>7, GotoType DEF PollDoorbell, cells, GridTypes, CellTypes
  <2>3. QED
    BY <2>1, <2>2 DEF Types
<1>8. CASE b = 0 /\ ForwardDoorbell
  <2>1. CellTypes' /\ HostTypes' /\ HistoryTypes'
    BY <1>2, <1>8 DEF ForwardDoorbell, host, history, CellTypes, GridTypes, HostTypes, HistoryTypes
  <2>2. GridTypes'
    <3>1. bpc' \in [Block -> BlockPC] /\ ip' \in [Block -> 1 .. Len(program) + 1]
      BY <1>2, <1>4, <1>8, GotoType DEF ForwardDoorbell, GridTypes
    <3>2. QED
      BY <1>2, <1>8, <3>1 DEF ForwardDoorbell, GridTypes
  <2>3. QED
    BY <2>1, <2>2 DEF Types
<1>9. CASE SpinDoorbell(b)
  <2>1. CellTypes' /\ HostTypes' /\ HistoryTypes'
    BY <1>2, <1>9 DEF SpinDoorbell, cells, host, history, CellTypes, HostTypes, HistoryTypes
  <2>2. GridTypes'
    BY <1>2, <1>4, <1>9, GotoType DEF SpinDoorbell, cells, GridTypes
  <2>3. QED
    BY <2>1, <2>2 DEF Types
<1>10. CASE EnterBoundary(b)
  <2>1. CellTypes' /\ HostTypes' /\ HistoryTypes'
    BY <1>2, <1>10 DEF EnterBoundary, cells, host, history, CellTypes, HostTypes, HistoryTypes
  <2>2. GridTypes'
    BY <1>2, <1>10, GotoType DEF EnterBoundary, Y02!Enter, cells, GridTypes
  <2>3. QED
    BY <2>1, <2>2 DEF Types
<1>11. CASE LeaveBoundary(b)
  <2>1. CellTypes' /\ HostTypes' /\ HistoryTypes'
    BY <1>2, <1>11 DEF LeaveBoundary, cells, host, history, CellTypes, HostTypes, HistoryTypes
  <2>2. bpc' \in [Block -> BlockPC]
    BY <1>2, <1>11, GotoType DEF LeaveBoundary, GridTypes
  <2>3. ip' = ip \/ (ip[b] <= Len(program) /\ ip' = [ip EXCEPT ![b] = ip[b] + 1])
    BY <1>11 DEF LeaveBoundary
  <2>4. ip' \in [Block -> 1 .. Len(program) + 1]
    <3>1. ip \in [Block -> 1 .. Len(program) + 1]
      BY <1>2 DEF GridTypes
    <3>2. QED
      BY <1>4, <2>3, <3>1, NextInstrType
  <2>5. left' \in [Block -> Nat]
    BY <1>2, <1>11 DEF LeaveBoundary, Y02!Leave, GridTypes
  <2>6. GridTypes'
    BY <1>2, <1>11, <2>2, <2>4, <2>5 DEF LeaveBoundary, Y02!Leave, cells, GridTypes
  <2>7. QED
    BY <2>1, <2>6 DEF Types
<1>12. CASE BadInstr(b)
  <2>1. CellTypes' /\ HostTypes' /\ HistoryTypes'
    BY <1>2, <1>12 DEF BadInstr, cells, host, history, CellTypes, HostTypes, HistoryTypes
  <2>2. GridTypes'
    BY <1>2, <1>12, GotoType DEF BadInstr, cells, GridTypes
  <2>3. QED
    BY <2>1, <2>2 DEF Types
<1>13. CASE Dispatch(b)
  <2>1. CellTypes' /\ HostTypes'
    BY <1>2, <1>13 DEF Dispatch, cells, host, CellTypes, HostTypes
  <2>2. HistoryTypes'
    BY <1>2, <1>13 DEF Dispatch, HistoryTypes, CellTypes
  <2>3. bpc' \in [Block -> BlockPC]
    BY <1>2, <1>13, GotoType DEF Dispatch, GridTypes
  <2>4. ip' = ip \/ (ip[b] <= Len(program) /\ ip' = [ip EXCEPT ![b] = ip[b] + 1])
    BY <1>13 DEF Dispatch, AtInstr
  <2>5. ip' \in [Block -> 1 .. Len(program) + 1]
    <3>1. ip \in [Block -> 1 .. Len(program) + 1]
      BY <1>2 DEF GridTypes
    <3>2. QED
      BY <1>4, <2>4, <3>1, NextInstrType
  <2>6. GridTypes'
    BY <1>2, <1>13, <2>3, <2>5 DEF Dispatch, cells, GridTypes
  <2>7. QED
    BY <2>1, <2>2, <2>6 DEF Types
<1>14. CASE RaiseAux(b)
  <2>1. HostTypes' /\ HistoryTypes'
    BY <1>2, <1>14 DEF RaiseAux, host, history, HostTypes, HistoryTypes
  <2>2. ip[b] \in 0 .. Len(program)
    BY <1>1, <1>2, <1>4, <1>14 DEF RaiseAux, Shape, ShapeOf, GridTypes
  <2>3. CellTypes'
    BY <1>2, <1>14, <2>2 DEF RaiseAux, CellTypes
  <2>4. GridTypes'
    BY <1>2, <1>14, GotoType DEF RaiseAux, GridTypes
  <2>5. QED
    BY <2>1, <2>3, <2>4 DEF Types
<1>15. CASE RaiseCode(b)
  <2>1. HostTypes' /\ HistoryTypes'
    BY <1>2, <1>15 DEF RaiseCode, host, history, HostTypes, HistoryTypes
  <2>2. CellTypes'
    BY <1>2, <1>5, <1>15 DEF RaiseCode, CellTypes
  <2>3. GridTypes'
    BY <1>2, <1>15, GotoType DEF RaiseCode, GridTypes
  <2>4. QED
    BY <2>1, <2>2, <2>3 DEF Types
<1>16. CASE RaiseDev(b)
  <2>1. HostTypes' /\ HistoryTypes'
    BY <1>2, <1>16 DEF RaiseDev, host, history, HostTypes, HistoryTypes
  <2>2. CellTypes'
    BY <1>2, <1>5, <1>16 DEF RaiseDev, CellTypes
  <2>3. bpc' \in [Block -> BlockPC]
    BY <1>2, <1>16, GotoType DEF RaiseDev, GridTypes
  <2>4. ip[b] <= Len(program)
    BY <1>1, <1>16 DEF RaiseDev, Shape, ShapeOf
  <2>5. GridTypes'
    BY <1>2, <1>4, <1>16, <2>3, <2>4 DEF RaiseDev, GridTypes
  <2>6. QED
    BY <2>1, <2>2, <2>5 DEF Types
<1>17. CASE Epilogue(b)
  <2>1. HostTypes' /\ HistoryTypes'
    BY <1>2, <1>17 DEF Epilogue, host, history, HostTypes, HistoryTypes
  <2>2. bpass[b] \in 1 .. MaxPass /\ (bpass[b] + 1) % PU = bpass[b] + 1
    BY <1>1, <1>2, <1>17, EpiloguePass DEF Epilogue, GridTypes
  <2>3. CellTypes'
    <3>1. (bpass[b] - 1) % RingCap \in 0 .. RingCap-1
      BY <1>3, <2>2
    <3>2. done' \in 0 .. MaxPass
      BY <1>2, <1>17, <2>2 DEF Epilogue, CellTypes
    <3>3. passCycles' \in [0 .. RingCap-1 -> 0 .. MaxPass]
      <4>1. \/ passCycles' = passCycles
            \/ passCycles' = [passCycles EXCEPT ![(bpass[b] - 1) % RingCap] = bpass[b]]
        BY <1>17 DEF Epilogue
      <4>2. passCycles \in [0 .. RingCap-1 -> 0 .. MaxPass] /\ bpass[b] \in 0 .. MaxPass
        BY <1>2, <2>2 DEF CellTypes
      <4>3. QED
        BY <3>1, <4>1, <4>2
    <3>4. QED
      BY <1>2, <1>17, <3>2, <3>3 DEF Epilogue, CellTypes
  <2>4. bpc' \in [Block -> BlockPC]
    BY <1>2, <1>17, GotoType DEF Epilogue, GridTypes
  <2>5. bpass' \in [Block -> 1 .. MaxPass + 1]
    <3>1. bpass' = bpass \/ bpass' = [bpass EXCEPT ![b] = bpass[b] + 1]
      BY <1>17, <2>2 DEF Epilogue
    <3>2. bpass \in [Block -> 1 .. MaxPass + 1] /\ bpass[b] + 1 \in 1 .. MaxPass + 1
      BY <1>2, <2>2, ProtocolAssumption DEF GridTypes
    <3>3. QED
      BY <3>1, <3>2
  <2>6. UNCHANGED <<program, ip, saw, entered, left>>
    BY <1>17 DEF Epilogue
  <2>7. GridTypes'
    BY <1>2, <2>4, <2>5, <2>6 DEF GridTypes
  <2>8. QED
    BY <2>1, <2>3, <2>7 DEF Types
<1>18. QED
  BY <1>7, <1>8, <1>9, <1>10, <1>11, <1>12, <1>13, <1>14, <1>15, <1>16, <1>17 DEF BlockStep

\* Every step of the host keeps the types.
LEMMA HostStepTypes ==
  ASSUME IInv, HostStep
  PROVE  Types'
<1>1. CellTypes /\ GridTypes /\ HostTypes /\ HistoryTypes /\ Life
  BY DEF IInv, Types
<1>2. PU \in Nat /\ PU > 2 /\ MaxPass \in Nat /\ MaxPass <= PU - 2 /\ HALT \in 0 .. PU-1
      /\ 0 \in Block
  BY ProtocolAssumption, BlockZero DEF HALT
<1>3. CASE Upload
  <2>1. HistoryTypes'
    BY <1>1, <1>3 DEF Upload, history, HistoryTypes
  <2>2. program' \in Seq(Instr) /\ Len(program') \in Nat
    BY <1>3, ProtocolAssumption DEF Upload
  <2>3. CellTypes'
    BY <1>1, <1>3, <2>2 DEF Upload, CellTypes, Life
  <2>4. GridTypes'
    BY <1>1, <1>3, <2>2 DEF Upload, grid, GridTypes, Life
  <2>5. HostTypes'
    BY <1>1, <1>3, <2>2 DEF Upload, HostTypes, Life
  <2>6. QED
    BY <2>1, <2>3, <2>4, <2>5 DEF Types
<1>4. CASE Launch
  <2>1. CellTypes' /\ HostTypes' /\ HistoryTypes'
    BY <1>1, <1>2, <1>4 DEF Launch, cells, history, CellTypes, HostTypes, HistoryTypes
  <2>2. GridTypes'
    BY <1>1, <1>4 DEF Launch, cells, GridTypes, BlockPC
  <2>3. QED
    BY <2>1, <2>2 DEF Types
<1>5. CASE RunPass
  <2>1. CellTypes' /\ GridTypes' /\ HistoryTypes'
    BY <1>1, <1>5 DEF RunPass, cells, grid, history, CellTypes, GridTypes, HistoryTypes
  <2>2. HostTypes'
    <3>1. UNCHANGED <<program, status, launched, freed, watchdog>> /\ errHost.code \in 0 .. 3
      BY <1>1, <1>5 DEF RunPass, cells, CellTypes
    <3>2. CASE errHost.code # ERR_NONE
      BY <1>1, <1>5, <3>1, <3>2 DEF RunPass, ReportCode, HostTypes
    <3>3. CASE errHost.code = ERR_NONE
      <4>1. hpass' \in 0 .. MaxPass /\ hpc' = "copy" /\ report' = report
        BY <1>1, <1>2, <1>5, <3>3 DEF RunPass, HostTypes
      <4>2. QED
        BY <1>1, <3>1, <4>1 DEF HostTypes
    <3>4. QED
      BY <3>2, <3>3
  <2>3. QED
    BY <2>1, <2>2 DEF Types
<1>6. CASE Shutdown
  BY <1>1, <1>2, <1>6
  DEF Shutdown, grid, history, Types, CellTypes, GridTypes, HostTypes, HistoryTypes
<1>7. CASE CopyToken
  BY <1>1, <1>7
  DEF CopyToken, Return, grid, history, Types, CellTypes, GridTypes, HostTypes, HistoryTypes
<1>8. CASE RingDoorbell
  <2>1. GridTypes' /\ HostTypes'
    BY <1>1, <1>8 DEF RingDoorbell, grid, GridTypes, HostTypes
  <2>2. CellTypes' /\ HistoryTypes'
    BY <1>1, <1>2, <1>8 DEF RingDoorbell, CellTypes, HistoryTypes, HostTypes
  <2>3. QED
    BY <2>1, <2>2 DEF Types
<1>9. CASE PollErr
  <2>1. CellTypes' /\ GridTypes' /\ HistoryTypes'
    BY <1>1, <1>9 DEF PollErr, cells, grid, history, CellTypes, GridTypes, HistoryTypes
  <2>2. HostTypes'
    BY <1>1, <1>9 DEF PollErr, ReportCode, cells, HostTypes, CellTypes
  <2>3. QED
    BY <2>1, <2>2 DEF Types
<1>10. CASE PollDone
  BY <1>1, <1>10
  DEF PollDone, Return, cells, grid, history, Types, CellTypes, GridTypes, HostTypes, HistoryTypes
<1>11. CASE AwaitExit
  BY <1>1, <1>11
  DEF AwaitExit, cells, grid, history, Types, CellTypes, GridTypes, HostTypes, HistoryTypes
<1>12. CASE Destroy
  BY <1>1, <1>12
  DEF Destroy, cells, grid, history, Types, CellTypes, GridTypes, HostTypes, HistoryTypes
<1>13. CASE ReadAux
  <2>1. CellTypes' /\ GridTypes' /\ HistoryTypes'
    BY <1>1, <1>13 DEF ReadAux, cells, grid, history, CellTypes, GridTypes, HistoryTypes
  <2>2. HostTypes'
    BY <1>1, <1>13 DEF ReadAux, Return, cells, HostTypes, CellTypes
  <2>3. QED
    BY <2>1, <2>2 DEF Types
<1>14. QED
  BY <1>3, <1>4, <1>5, <1>6, <1>7, <1>8, <1>9, <1>10, <1>11, <1>12, <1>13
  DEF HostStep, HostWaits

-----------------------------------------------------------------------------
(***************************************************************************)
(* Frames: what a step leaves alone.                                       *)
(***************************************************************************)

\* A block moves no other block, and neither uploads nor withdraws an error.
LEMMA BlockFrame ==
  ASSUME IInv, NEW b \in Block, BlockStep(b)
  PROVE  /\ program' = program
         /\ \A c \in Block : c # b =>
              /\ bpc'[c] = bpc[c] /\ bpass'[c] = bpass[c] /\ ip'[c] = ip[c]
              /\ entered'[c] = entered[c] /\ left'[c] = left[c]
         /\ errDev # ERR_NONE => errDev' # ERR_NONE
         /\ doorbellDev = HALT => doorbellDev' = HALT
         /\ host' = host /\ doorbellHost' = doorbellHost
<1>1. GridTypes /\ Bell
  BY DEF IInv, Types
<1>2. \A i : ErrAt(i) # ERR_NONE
  BY ErrAtCodes DEF ERR_NONE
<1>3. CASE b = 0 /\ PollDoorbell
  BY <1>1, <1>3 DEF PollDoorbell, Goto, cells, GridTypes
<1>4. CASE b = 0 /\ ForwardDoorbell
  BY <1>1, <1>4 DEF ForwardDoorbell, Goto, GridTypes, Bell
<1>5. CASE SpinDoorbell(b)
  BY <1>1, <1>5 DEF SpinDoorbell, Goto, cells, GridTypes
<1>6. CASE EnterBoundary(b)
  BY <1>1, <1>6 DEF EnterBoundary, Y02!Enter, Goto, cells, GridTypes
<1>7. CASE LeaveBoundary(b)
  BY <1>1, <1>7 DEF LeaveBoundary, Y02!Leave, Goto, cells, GridTypes
<1>8. CASE BadInstr(b)
  BY <1>1, <1>8 DEF BadInstr, Goto, cells, GridTypes
<1>9. CASE Dispatch(b)
  BY <1>1, <1>9 DEF Dispatch, Goto, cells, GridTypes
<1>10. CASE RaiseAux(b)
  BY <1>1, <1>10 DEF RaiseAux, Goto, GridTypes
<1>11. CASE RaiseCode(b)
  BY <1>1, <1>11 DEF RaiseCode, Goto, GridTypes
<1>12. CASE RaiseDev(b)
  BY <1>1, <1>2, <1>12 DEF RaiseDev, Goto, GridTypes
<1>13. CASE Epilogue(b)
  BY <1>1, <1>13 DEF Epilogue, Goto, GridTypes
<1>14. QED
  BY <1>3, <1>4, <1>5, <1>6, <1>7, <1>8, <1>9, <1>10, <1>11, <1>12, <1>13 DEF BlockStep

\* The host moves no block but at the launch, and changes no device cell but the
\* token, the program and its doorbell.
LEMMA HostFrame ==
  ASSUME HostStep
  PROVE  /\ doorbellDev' = doorbellDev /\ done' = done /\ errHost' = errHost
         /\ errDev' = errDev /\ passCycles' = passCycles
         /\ bpass' = bpass /\ ip' = ip /\ saw' = saw
         /\ entered' = entered /\ left' = left
         /\ program' = program \/ Upload
         /\ bpc' = bpc \/ Launch
BY DEF HostStep, HostWaits, Upload, Launch, RunPass, Shutdown, CopyToken, RingDoorbell,
       PollErr, ReadAux, ReportCode, PollDone, AwaitExit, Destroy, cells, grid

-----------------------------------------------------------------------------
(***************************************************************************)
(* Shape.                                                                  *)
(***************************************************************************)

\* Every step of a block keeps the shape of each.
LEMMA BlockShape ==
  ASSUME IInv, NEW b \in Block, BlockStep(b)
  PROVE  Shape'
<1>1. Types /\ Shape /\ Errors /\ Bell /\ GridTypes
  BY DEF IInv, Types
<1>2. Len(program) \in Nat /\ ip[b] \in 1 .. Len(program) + 1 /\ left[b] \in Nat
  BY <1>1, ProgramSeq DEF GridTypes
<1>3. ShapeOf(b)
  BY <1>1 DEF Shape
<1>4. ASSUME NEW c \in Block, c # b
      PROVE  ShapeOf(c)'
  <2>1. ShapeOf(c)
    BY <1>1 DEF Shape
  <2>2. QED
    BY <1>4, <2>1, BlockFrame DEF ShapeOf, Errs
<1>5. ShapeOf(b)'
  <2>1. program' = program
    BY BlockFrame
  <2>2. CASE b = 0 /\ PollDoorbell
    BY <1>1, <1>3, <2>1, <2>2 DEF PollDoorbell, Goto, GridTypes, ShapeOf, cells
  <2>3. CASE b = 0 /\ ForwardDoorbell
    BY <1>1, <1>3, <2>1, <2>3 DEF ForwardDoorbell, Goto, GridTypes, ShapeOf
  <2>4. CASE SpinDoorbell(b)
    BY <1>1, <1>3, <2>1, <2>4 DEF SpinDoorbell, Goto, GridTypes, ShapeOf, cells
  <2>5. CASE EnterBoundary(b)
    BY <1>1, <1>2, <1>3, <2>1, <2>5
    DEF EnterBoundary, Y02!Enter, AtInstr, Goto, GridTypes, ShapeOf, cells
  <2>6. CASE LeaveBoundary(b)
    BY <1>1, <1>2, <1>3, <2>1, <2>6
    DEF LeaveBoundary, Y02!Leave, Goto, GridTypes, ShapeOf, cells
  <2>7. CASE BadInstr(b)
    BY <1>1, <1>3, <2>1, <2>7 DEF BadInstr, AtInstr, Goto, GridTypes, ShapeOf, Errs
  <2>8. CASE Dispatch(b)
    BY <1>1, <1>3, <2>1, <2>8 DEF Dispatch, AtInstr, Goto, GridTypes, ShapeOf, Errs
  <2>9. CASE RaiseAux(b)
    BY <1>1, <1>3, <2>1, <2>9 DEF RaiseAux, Goto, GridTypes, ShapeOf, Errs
  <2>10. CASE RaiseCode(b)
    BY <1>1, <1>3, <2>1, <2>10 DEF RaiseCode, Goto, GridTypes, ShapeOf, Errs
  <2>11. CASE RaiseDev(b)
    BY <1>1, <1>3, <2>1, <2>11 DEF RaiseDev, Goto, GridTypes, ShapeOf, Errs
  <2>12. CASE Epilogue(b)
    <3>1. errDev # ERR_NONE => Len(program) # 0
      BY <1>1, <1>2 DEF Errors, ErrFree
    <3>2. QED
      BY <1>1, <1>2, <1>3, <2>1, <2>12, <3>1 DEF Epilogue, Goto, GridTypes, ShapeOf
  <2>13. QED
    BY <2>2, <2>3, <2>4, <2>5, <2>6, <2>7, <2>8, <2>9, <2>10, <2>11, <2>12 DEF BlockStep
<1>6. QED
  BY <1>4, <1>5 DEF Shape

\* Every step of the host keeps the shape of each block.
LEMMA HostShape ==
  ASSUME IInv, HostStep
  PROVE  Shape'
<1>1. GridTypes /\ Shape /\ Life
  BY DEF IInv, Types
<1>2. SUFFICES ASSUME NEW b \in Block
               PROVE  ShapeOf(b)'
  BY DEF Shape
<1>3. ShapeOf(b)
  BY <1>1 DEF Shape
<1>4. CASE Upload
  <2>1. bpc[b] = "off" /\ bpc'[b] = "off"
    BY <1>1, <1>4, HostFrame DEF Upload, Launch, Life, grid
  <2>2. QED
    BY <1>3, <2>1, HostFrame DEF ShapeOf
<1>5. CASE Launch
  <2>1. bpc[b] = "off" /\ bpc'[b] = "bell"
    BY <1>1, <1>5 DEF Launch, Life
  <2>2. QED
    BY <1>3, <2>1, HostFrame DEF ShapeOf
<1>6. CASE ~ Upload /\ ~ Launch
  BY <1>3, <1>6, HostFrame DEF ShapeOf, Errs
<1>7. QED
  BY <1>4, <1>5, <1>6

-----------------------------------------------------------------------------
(***************************************************************************)
(* Lockstep.                                                               *)
(***************************************************************************)

\* Where a block stands depends on its own variables and the program alone.
LEMMA PlaceFrame ==
  ASSUME IInv, NEW b \in Block, BlockStep(b), NEW c \in Block, c # b
  PROVE  /\ P(c)' = P(c) /\ I(c)' = I(c) /\ left'[c] = left[c]
         /\ bpc'[c] = bpc[c] /\ ip'[c] = ip[c]
         /\ program' = program /\ \A i, j : Clear(i, j)' <=> Clear(i, j)
BY BlockFrame DEF P, I, Ready, AfterEpilogue, Clear

\* A place is a pass and an index.
LEMMA PlaceType ==
  ASSUME Types, NEW b \in Block
  PROVE  /\ P(b) \in Nat /\ I(b) \in Nat \ {0} /\ left[b] \in Nat /\ ip[b] \in Nat \ {0}
         /\ Len(program) \in Nat /\ ip[b] <= Len(program) + 1
<1>1. Len(program) \in Nat /\ MaxPass \in Nat
  BY ProgramSeq, ProtocolAssumption DEF HALT
<1>2. ip[b] \in 1 .. Len(program) + 1 /\ bpass[b] \in 1 .. MaxPass + 1 /\ left[b] \in Nat
  BY DEF Types, GridTypes
<1>3. QED
  BY <1>1, <1>2 DEF P, I

\* A step that takes block b nowhere keeps it in lockstep with c.
LEMMA StayPair ==
  ASSUME IInv, NEW b \in Block, BlockStep(b), NEW c \in Block, c # b,
         bpc[b] # "boundary", left'[b] = left[b], P(b)' = P(b), I(b)' = I(b)
  PROVE  Pair(b, c)'
<1>1. Pair(b, c)
  BY DEF IInv, Lockstep
<1>2. QED
  BY <1>1, PlaceFrame DEF Pair, Level, Beyond

\* A step over an instruction that is no OP_BOUNDARY does so too.
LEMMA AdvancePair ==
  ASSUME IInv, NEW b \in Block, BlockStep(b), NEW c \in Block, c # b,
         bpc[b] # "boundary", left'[b] = left[b], P(b)' = P(b), I(b)' = I(b) + 1,
         I(b) <= Len(program), program[I(b)].kind # "BOUNDARY"
  PROVE  Pair(b, c)'
<1>1. Pair(b, c)
  BY DEF IInv, Lockstep
<1>2. I(b) \in Nat /\ I(c) \in Nat /\ Len(program) \in Nat /\ ip[c] \in Nat
  BY PlaceType DEF IInv
<1>3. \A i : Clear(i, I(b)) => Clear(i, I(b) + 1)
  BY <1>2 DEF Clear
<1>4. \A j : Clear(I(b), j) => Clear(I(b) + 1, j)
  BY <1>2 DEF Clear
<1>5. QED
  BY <1>1, <1>2, <1>3, <1>4, PlaceFrame DEF Pair, Level, Beyond

\* Two blocks that wait at a boundary after the same crossings wait at the same one.
LEMMA SameBoundary ==
  ASSUME IInv, NEW b \in Block, NEW c \in Block, Level(b, c),
         bpc[b] = "boundary", bpc[c] = "boundary"
  PROVE  ip[b] = ip[c] /\ bpass[b] = bpass[c]
<1>1. I(b) = ip[b] /\ I(c) = ip[c] /\ P(b) = bpass[b] /\ P(c) = bpass[c]
  BY DEF I, P, Ready, AfterEpilogue
<1>2. ip[b] \in Nat \ {0} /\ ip[c] \in Nat \ {0} /\ Len(program) \in Nat
      /\ ip[b] <= Len(program) + 1 /\ ip[c] <= Len(program) + 1
  BY PlaceType DEF IInv
<1>3. /\ ip[b] = Len(program) + 1 \/ program[ip[b]].kind = "BOUNDARY"
      /\ ip[c] = Len(program) + 1 \/ program[ip[c]].kind = "BOUNDARY"
  BY DEF IInv, Shape, ShapeOf
<1>4. ~ (ip[b] < ip[c])
  BY <1>1, <1>2, <1>3 DEF Level, Clear
<1>5. ~ (ip[c] < ip[b])
  BY <1>1, <1>2, <1>3 DEF Level, Clear
<1>6. P(b) = P(c)
  BY DEF Level
<1>7. ip[b] = ip[c]
  BY <1>2, <1>4, <1>5
<1>8. QED
  BY <1>1, <1>6, <1>7

\* Out of a boundary, a block is beyond those still in it and level with those out.
LEMMA LeavePair ==
  ASSUME IInv, NEW b \in Block, LeaveBoundary(b), NEW c \in Block, c # b
  PROVE  Pair(b, c)'
<1>1. Pair(b, c)
  BY DEF IInv, Lockstep
<1>2. BlockStep(b)
  BY DEF BlockStep
<1>3. /\ P(c)' = P(c) /\ I(c)' = I(c) /\ left'[c] = left[c]
      /\ bpc'[c] = bpc[c] /\ ip'[c] = ip[c]
      /\ program' = program /\ \A i, j : Clear(i, j)' <=> Clear(i, j)
  BY <1>2, PlaceFrame
<1>4. /\ P(b) \in Nat /\ I(b) \in Nat \ {0} /\ left[b] \in Nat /\ ip[b] \in Nat \ {0}
      /\ P(c) \in Nat /\ I(c) \in Nat \ {0} /\ left[c] \in Nat /\ ip[c] \in Nat \ {0}
      /\ Len(program) \in Nat /\ ip[b] <= Len(program) + 1
  BY PlaceType DEF IInv
<1>5. bpc[b] = "boundary" /\ I(b) = ip[b] /\ P(b) = bpass[b]
  BY DEF LeaveBoundary, I, P, Ready, AfterEpilogue
<1>6. /\ left'[b] = left[b] + 1
      /\ entered[c] >= entered[b] /\ entered[b] = left[b] + 1
      /\ entered[c] = IF bpc[c] = "boundary" THEN left[c] + 1 ELSE left[c]
  BY <1>5 DEF LeaveBoundary, Y02!Leave, IInv, Types, GridTypes, Shape, ShapeOf
<1>7. IF ip[b] <= Len(program)
      THEN P(b)' = bpass[b] /\ I(b)' = ip[b] + 1
      ELSE P(b)' = bpass[b] + 1 /\ I(b)' = 1
  BY <1>3 DEF LeaveBoundary, Goto, IInv, Types, GridTypes, I, P, Ready, AfterEpilogue
<1>8. CASE left[b] = left[c] /\ Level(b, c)
  <2>1. bpc[c] = "boundary"
    BY <1>4, <1>6, <1>8
  <2>2. ip[b] = ip[c] /\ bpass[b] = bpass[c] /\ P(c) = bpass[c]
    BY <1>5, <1>8, <2>1, SameBoundary DEF P, AfterEpilogue
  <2>3. Clear(ip[b] + 1, ip[b] + 1) /\ Clear(1, 1)
    BY <1>4 DEF Clear
  <2>4. Beyond(c, b)'
    BY <1>3, <1>4, <1>7, <2>1, <2>2, <2>3 DEF Beyond
  <2>5. QED
    BY <1>3, <1>6, <1>8, <2>4 DEF Pair
<1>9. CASE left[c] = left[b] + 1 /\ Beyond(b, c)
  <2>1. CASE ip[b] <= Len(program)
    <3>1. P(c) = bpass[b] /\ I(c) > ip[b] /\ Clear(ip[b] + 1, I(c))
      BY <1>5, <1>9, <2>1 DEF Beyond
    <3>2. Clear(I(c), ip[b] + 1)
      BY <1>4, <3>1 DEF Clear
    <3>3. QED
      BY <1>3, <1>6, <1>7, <1>9, <2>1, <3>1, <3>2 DEF Pair, Level
  <2>2. CASE ~ (ip[b] <= Len(program))
    <3>1. P(c) = bpass[b] + 1 /\ Clear(1, I(c))
      BY <1>5, <1>9, <2>2 DEF Beyond
    <3>2. Clear(I(c), 1)
      BY <1>4 DEF Clear
    <3>3. QED
      BY <1>3, <1>6, <1>7, <1>9, <2>2, <3>1, <3>2 DEF Pair, Level
  <2>3. QED
    BY <2>1, <2>2
<1>10. CASE left[b] = left[c] + 1 /\ Beyond(c, b)
  BY <1>4, <1>6, <1>10
<1>11. QED
  BY <1>1, <1>8, <1>9, <1>10 DEF Pair

\* A step that leaves no boundary takes a block nowhere, or over one instruction.
LEMMA PlaceStep ==
  ASSUME IInv, NEW b \in Block, BlockStep(b), ~ LeaveBoundary(b)
  PROVE  /\ bpc[b] # "boundary" /\ left'[b] = left[b] /\ P(b)' = P(b)
         /\ \/ I(b)' = I(b)
            \/ /\ I(b)' = I(b) + 1 /\ I(b) = ip[b] /\ ip[b] <= Len(program)
               /\ program[ip[b]].kind # "BOUNDARY"
               /\ Dispatch(b) \/ program[ip[b]].kind # "EMBED_LOOKUP"
<1>1. /\ GridTypes /\ ShapeOf(b) /\ Errors
      /\ program' = program /\ Len(program) \in Nat
      /\ bpass[b] \in Nat /\ ip[b] \in Nat
  <2>1. Types /\ GridTypes /\ ShapeOf(b) /\ Errors
    BY DEF IInv, Types, Shape
  <2>2. bpass[b] \in 1 .. MaxPass + 1 /\ MaxPass \in Nat
    BY <2>1, ProtocolAssumption DEF GridTypes, HALT
  <2>3. QED
    BY <2>1, <2>2, BlockFrame, ProgramSeq, PlaceType
<1>2. bpc[b] = "epilogue" => (bpass[b] + 1) % PU = bpass[b] + 1
  BY EpiloguePass DEF IInv
<1>3. CASE b = 0 /\ PollDoorbell
  <2>1. bpc[b] = "bell" /\ bpc'[b] = "forward" /\ UNCHANGED <<left, bpass, ip>>
    BY <1>1, <1>3 DEF PollDoorbell, Goto, GridTypes
  <2>2. QED
    BY <2>1 DEF P, I, Ready, AfterEpilogue
<1>4. CASE b = 0 /\ ForwardDoorbell
  <2>1. /\ bpc[b] = "forward" /\ bpc'[b] \in {"instr", "exit"}
        /\ ip'[b] = 1 /\ UNCHANGED <<left, bpass>>
    BY <1>1, <1>4 DEF ForwardDoorbell, Goto, GridTypes
  <2>2. P(b)' = P(b) /\ I(b)' = I(b)
    BY <1>1, <2>1 DEF P, I, Ready, AfterEpilogue
  <2>3. QED
    BY <2>1, <2>2
<1>5. CASE SpinDoorbell(b)
  <2>1. /\ bpc[b] = "bell" /\ bpc'[b] \in {"instr", "exit"}
        /\ ip'[b] = 1 /\ UNCHANGED <<left, bpass>>
    BY <1>1, <1>5 DEF SpinDoorbell, Goto, GridTypes
  <2>2. P(b)' = P(b) /\ I(b)' = I(b)
    BY <1>1, <2>1 DEF P, I, Ready, AfterEpilogue
  <2>3. QED
    BY <2>1, <2>2
<1>6. CASE EnterBoundary(b)
  <2>1. bpc[b] = "instr" /\ bpc'[b] = "boundary" /\ UNCHANGED <<left, bpass, ip>>
    BY <1>1, <1>6 DEF EnterBoundary, AtInstr, Y02!Enter, Goto, GridTypes
  <2>2. QED
    BY <2>1 DEF P, I, Ready, AfterEpilogue
<1>7. CASE BadInstr(b)
  <2>1. /\ bpc[b] = "instr" /\ bpc'[b] \in {"raiseAux", "exit"} /\ ip[b] <= Len(program)
        /\ ip[b] \in Nat /\ UNCHANGED <<left, bpass, ip>>
    BY <1>1, <1>7 DEF BadInstr, AtInstr, Goto, GridTypes
  <2>2. P(b)' = P(b) /\ I(b)' = I(b)
    BY <1>1, <2>1 DEF P, I, Ready, AfterEpilogue
  <2>3. QED
    BY <2>1, <2>2
<1>8. CASE Dispatch(b)
  <2>1. /\ bpc[b] = "instr" /\ UNCHANGED <<left, bpass>> /\ ip[b] <= Len(program)
        /\ program[ip[b]].kind # "BOUNDARY"
    BY <1>8 DEF Dispatch, AtInstr
  <2>2. \/ bpc'[b] = "raiseAux" /\ ip' = ip
        \/ bpc'[b] = "instr" /\ ip'[b] = ip[b] + 1
    BY <1>1, <1>8 DEF Dispatch, AtInstr, Goto, GridTypes
  <2>3. P(b)' = P(b) /\ I(b) = ip[b] /\ I(b)' = ip'[b]
    BY <2>1, <2>2 DEF P, I, Ready, AfterEpilogue
  <2>4. QED
    BY <1>8, <2>1, <2>2, <2>3
<1>9. CASE RaiseAux(b)
  <2>1. bpc[b] = "raiseAux" /\ bpc'[b] = "raiseCode" /\ UNCHANGED <<left, bpass, ip>>
    BY <1>1, <1>9 DEF RaiseAux, Goto, GridTypes
  <2>2. QED
    BY <2>1 DEF P, I, Ready, AfterEpilogue
<1>10. CASE RaiseCode(b)
  <2>1. bpc[b] = "raiseCode" /\ bpc'[b] = "raiseDev" /\ UNCHANGED <<left, bpass, ip>>
    BY <1>1, <1>10 DEF RaiseCode, Goto, GridTypes
  <2>2. QED
    BY <2>1 DEF P, I, Ready, AfterEpilogue
<1>11. CASE RaiseDev(b)
  <2>1. /\ bpc[b] = "raiseDev" /\ UNCHANGED <<left, bpass>> /\ ip[b] <= Len(program)
        /\ ip[b] \in Nat /\ Errs(ip[b], b)
    BY <1>1, <1>11 DEF RaiseDev, ShapeOf, GridTypes
  <2>2. program[ip[b]].kind \notin {"BOUNDARY", "EMBED_LOOKUP"}
    BY <2>1 DEF Errs, Raises, Wired
  <2>3. \/ bpc'[b] = "exit" /\ ip' = ip
        \/ bpc'[b] = "instr" /\ ip'[b] = ip[b] + 1
    BY <1>1, <1>11 DEF RaiseDev, Goto, GridTypes
  <2>4. P(b)' = P(b) /\ I(b) = ip[b] /\ I(b)' = ip'[b]
    BY <1>1, <2>1, <2>3 DEF P, I, Ready, AfterEpilogue
  <2>5. QED
    BY <2>1, <2>2, <2>3, <2>4
<1>12. CASE Epilogue(b)
  <2>1. bpc[b] = "epilogue" /\ ip[b] = Len(program) + 1 /\ UNCHANGED <<left, ip>>
    BY <1>1, <1>12 DEF Epilogue, ShapeOf
  <2>2. \/ bpc'[b] = "bell" /\ bpass'[b] = bpass[b] + 1
        \/ bpc'[b] = "exit" /\ bpass' = bpass /\ errDev # ERR_NONE
    BY <1>1, <1>2, <1>12 DEF Epilogue, Goto, GridTypes
  <2>3. errDev # ERR_NONE => Len(program) # 0
    BY <1>1 DEF Errors, ErrFree
  <2>4. P(b)' = P(b) /\ I(b)' = I(b)
    BY <1>1, <2>1, <2>2, <2>3 DEF P, I, Ready, AfterEpilogue
  <2>5. QED
    BY <2>1, <2>4
<1>13. QED
  BY <1>3, <1>4, <1>5, <1>6, <1>7, <1>8, <1>9, <1>10, <1>11, <1>12 DEF BlockStep

\* Every step of a block keeps the grid in lockstep.
LEMMA BlockLockstep ==
  ASSUME IInv, NEW b \in Block, BlockStep(b)
  PROVE  Lockstep'
<1>1. Lockstep /\ Types /\ program' = program /\ Len(program) \in Nat
  BY BlockFrame, ProgramSeq DEF IInv
<1>2. ASSUME NEW c \in Block, c # b
      PROVE  Pair(b, c)'
  BY <1>2, LeavePair, PlaceStep, StayPair, AdvancePair
<1>3. ASSUME NEW c \in Block, NEW d \in Block, c # b, d # b
      PROVE  Pair(c, d)'
  BY <1>1, <1>3, PlaceFrame DEF Lockstep, Pair, Level, Beyond
<1>4. Pair(b, b)'
  <2>1. Types'
    BY BlockTypes
  <2>2. I(b)' \in Nat
    BY <1>1, <2>1 DEF Types, GridTypes, I
  <2>3. QED
    BY <2>2 DEF Pair, Level, Clear
<1>5. ASSUME NEW c \in Block, c # b
      PROVE  Pair(c, b)'
  BY <1>2, <1>5 DEF Pair, Level
<1>6. QED
  BY <1>2, <1>3, <1>4, <1>5 DEF Lockstep

\* The host leaves the grid where it is: before the launch, at the first pass.
LEMMA HostLockstep ==
  ASSUME IInv, HostStep
  PROVE  Lockstep'
<1>1. SUFFICES ASSUME NEW b \in Block, NEW c \in Block
               PROVE  Pair(b, c)'
  BY DEF Lockstep
<1>2. Pair(b, c) /\ Life
  BY DEF IInv, Lockstep
<1>3. CASE Upload \/ Launch
  <2>1. /\ bpc[b] = "off" /\ bpc[c] = "off" /\ bpass[b] = bpass[c]
        /\ bpc'[b] \in {"off", "bell"} /\ bpc'[c] \in {"off", "bell"}
    BY <1>2, <1>3, HostFrame DEF Upload, Launch, Life, grid
  <2>2. left[b] = left[c]
    BY <1>2, <2>1 DEF Pair, Beyond
  <2>3. Pair(b, c)'
    BY <2>1, <2>2, HostFrame DEF Pair, Level, Clear, P, I, Ready, AfterEpilogue
  <2>4. QED
    BY <2>3
<1>4. CASE ~ Upload /\ ~ Launch
  BY <1>2, <1>4, HostFrame DEF Pair, Level, Beyond, Clear, P, I, Ready, AfterEpilogue
<1>5. QED
  BY <1>3, <1>4

-----------------------------------------------------------------------------
(***************************************************************************)
(* Errors.                                                                 *)
(***************************************************************************)

\* A block out of an epilogue boundary that sees no error has met none, nor has any
\* other block in that pass.
LEMMA EpilogueErrFree ==
  ASSUME IInv, NEW b \in Block, bpc[b] = "epilogue", errDev = ERR_NONE
  PROVE  ErrFree
<1>1. Errors /\ Lockstep /\ Types
  BY DEF IInv
<1>2. P(b) = bpass[b] + 1 /\ I(b) = 1 /\ bpass[b] \in Nat \ {0} /\ Len(program) \in Nat
  <2>1. bpass[b] \in 1 .. MaxPass + 1 /\ MaxPass \in Nat
    BY <1>1, ProtocolAssumption DEF Types, GridTypes, HALT
  <2>2. QED
    BY <1>1, <2>1, ProgramSeq DEF P, I, AfterEpilogue
<1>3. SUFFICES ASSUME NEW c \in Block, NEW i \in 1 .. Len(program), ~ ErrFree
               PROVE  ~ Errs(i, c)
  BY DEF ErrFree
<1>4. bpass[c] \in Nat /\ ~ (bpass[c] >= 2) /\ ip[c] \in Nat \ {0}
  <2>1. bpass[c] \in 1 .. MaxPass + 1 /\ MaxPass \in Nat
    BY <1>1, ProtocolAssumption DEF Types, GridTypes, HALT
  <2>2. QED
    BY <1>1, <1>3, <2>1, PlaceType DEF Errors
<1>5. ip[c] > Len(program)
  <2>1. CASE Level(b, c)
    <3>1. AfterEpilogue(c)
      BY <1>2, <1>4, <2>1 DEF Level, P
    <3>2. QED
      BY <1>1, <1>2, <3>1 DEF AfterEpilogue, IInv, Shape, ShapeOf
  <2>2. CASE Beyond(c, b)
    BY <1>2, <1>4, <2>2 DEF Beyond
  <2>3. CASE Beyond(b, c)
    BY <2>3 DEF Beyond
  <2>4. QED
    BY <1>1, <2>1, <2>2, <2>3 DEF Lockstep, Pair
<1>6. i < ip[c]
  BY <1>2, <1>4, <1>5
<1>7. QED
  BY <1>1, <1>6 DEF Errors

\* What block b has behind it at a step.
LEMMA BehindStep ==
  ASSUME IInv, NEW b \in Block, BlockStep(b), NEW i \in 1 .. Len(program), i < ip'[b]
  PROVE  program[i].kind \in Wired /\ (Errs(i, b) => errDev' # ERR_NONE)
<1>1. Errors /\ ShapeOf(b) /\ GridTypes /\ Len(program) \in Nat
  BY ProgramSeq DEF IInv, Types, Shape
<1>2. ip[b] \in 1 .. Len(program) + 1
  BY <1>1 DEF GridTypes
<1>3. CASE i < ip[b]
  BY <1>1, <1>3, BlockFrame DEF Errors
<1>4. CASE ~ (i < ip[b])
  <2>1. ip'[b] # ip[b] /\ ip'[b] # 1
    BY <1>2, <1>4
  <2>2. CASE LeaveBoundary(b)
    <3>1. bpc[b] = "boundary" /\ ip[b] <= Len(program) /\ i = ip[b]
      BY <1>1, <1>2, <1>4, <2>1, <2>2 DEF LeaveBoundary, GridTypes
    <3>2. program[i].kind = "BOUNDARY"
      BY <1>1, <1>2, <3>1 DEF ShapeOf
    <3>3. QED
      BY <3>2 DEF Errs, Raises, Wired
  <2>3. CASE Dispatch(b)
    <3>1. ip' = [ip EXCEPT ![b] = ip[b] + 1] /\ program[ip[b]].kind \in Wired
          /\ ~ (InRange(b, program[ip[b]]) /\ Raises(program[ip[b]]))
      BY <2>1, <2>3 DEF Dispatch
    <3>2. i = ip[b]
      BY <1>1, <1>2, <1>4, <3>1 DEF GridTypes
    <3>3. QED
      BY <3>1, <3>2 DEF Errs
  <2>4. CASE RaiseDev(b)
    <3>1. ip' = [ip EXCEPT ![b] = ip[b] + 1] /\ program[ip[b]].kind \in Wired
          /\ errDev' = ErrAt(ip[b])
      BY <2>1, <2>4 DEF RaiseDev
    <3>2. i = ip[b]
      BY <1>1, <1>2, <1>4, <3>1 DEF GridTypes
    <3>3. QED
      BY <3>1, <3>2, ErrAtCodes DEF ERR_NONE
  <2>5. CASE (b = 0 /\ PollDoorbell) \/ EnterBoundary(b) \/ BadInstr(b) \/ RaiseAux(b)
               \/ RaiseCode(b) \/ Epilogue(b)
    BY <2>1, <2>5 DEF PollDoorbell, EnterBoundary, BadInstr, RaiseAux, RaiseCode, Epilogue
  <2>6. CASE (b = 0 /\ ForwardDoorbell) \/ SpinDoorbell(b)
    BY <1>1, <2>1, <2>6 DEF ForwardDoorbell, SpinDoorbell, GridTypes
  <2>7. QED
    BY <2>2, <2>3, <2>4, <2>5, <2>6 DEF BlockStep
<1>5. QED
  BY <1>3, <1>4

\* An error cell is set only at an instruction that errs.
LEMMA CellsStep ==
  ASSUME IInv, NEW b \in Block, BlockStep(b),
         errDev' # ERR_NONE \/ errHost'.code # ERR_NONE
  PROVE  ~ ErrFree
<1>1. Errors /\ ShapeOf(b) /\ Types /\ Len(program) \in Nat
  BY ProgramSeq DEF IInv, Shape
<1>2. ip[b] \in 1 .. Len(program) + 1
  BY <1>1 DEF Types, GridTypes
<1>3. CASE RaiseCode(b) \/ RaiseDev(b)
  BY <1>1, <1>2, <1>3 DEF ShapeOf, RaiseCode, RaiseDev, ErrFree
<1>4. CASE RaiseAux(b)
  BY <1>1, <1>4 DEF RaiseAux, Errors, Types, CellTypes
<1>5. CASE ~ (RaiseCode(b) \/ RaiseDev(b) \/ RaiseAux(b))
  <2>1. errDev' = errDev /\ errHost' = errHost
    BY <1>5 DEF BlockStep, PollDoorbell, ForwardDoorbell, SpinDoorbell, EnterBoundary,
                LeaveBoundary, BadInstr, Dispatch, Epilogue, cells
  <2>2. QED
    BY <1>1, <2>1 DEF Errors
<1>6. QED
  BY <1>3, <1>4, <1>5

\* Every step of a block keeps account of the errors.
LEMMA BlockErrors ==
  ASSUME IInv, NEW b \in Block, BlockStep(b)
  PROVE  Errors'
<1>1. Errors /\ GridTypes
  BY DEF IInv, Types
<1>2. program' = program /\ (ErrFree' <=> ErrFree)
      /\ \A i, c : Errs(i, c)' <=> Errs(i, c)
  BY BlockFrame DEF ErrFree, Errs
<1>3. ASSUME NEW c \in Block, NEW i \in 1 .. Len(program), i < ip'[c]
      PROVE  program[i].kind \in Wired /\ (Errs(i, c) => errDev' # ERR_NONE)
  <2>1. CASE c = b
    BY <1>3, <2>1, BehindStep
  <2>2. CASE c # b
    BY <1>1, <1>3, <2>2, BlockFrame DEF Errors
  <2>3. QED
    BY <2>1, <2>2
<1>4. ASSUME NEW c \in Block, bpass'[c] >= 2
      PROVE  ErrFree
  <2>1. CASE bpass'[c] = bpass[c]
    BY <1>1, <1>4, <2>1 DEF Errors
  <2>2. CASE bpass'[c] # bpass[c]
    <3>1. c = b
      BY <2>2, BlockFrame
    <3>2. Epilogue(b)
      BY <2>2, <3>1 DEF BlockStep, PollDoorbell, ForwardDoorbell, SpinDoorbell, EnterBoundary,
                        LeaveBoundary, BadInstr, Dispatch, RaiseAux, RaiseCode, RaiseDev
    <3>3. bpc[b] = "epilogue" /\ errDev = ERR_NONE
      BY <2>2, <3>1, <3>2 DEF Epilogue
    <3>4. QED
      BY <3>3, EpilogueErrFree
  <2>3. QED
    BY <2>1, <2>2
<1>5. QED
  BY <1>2, <1>3, <1>4, CellsStep DEF Errors

\* The host runs a program only once it is uploaded, over cells without errors.
LEMMA HostErrors ==
  ASSUME IInv, HostStep
  PROVE  Errors'
<1>1. Errors /\ Life
  BY DEF IInv
<1>2. CASE Upload
  <2>1. \A b \in Block : bpass'[b] = 1 /\ ip'[b] = 1
    BY <1>1, <1>2, HostFrame DEF Upload, Life
  <2>2. errDev' = ERR_NONE /\ errHost'.code = ERR_NONE
    BY <1>1, <1>2, HostFrame DEF Upload, Life
  <2>3. QED
    BY <2>1, <2>2 DEF Errors
<1>3. CASE ~ Upload
  BY <1>1, <1>3, HostFrame DEF Errors, ErrFree, Errs
<1>4. QED
  BY <1>2, <1>3

-----------------------------------------------------------------------------
(***************************************************************************)
(* The doorbells.                                                          *)
(***************************************************************************)

\* A block that runs while block 0 still waits runs a pass after the first.
LEMMA AheadErrFree ==
  ASSUME IInv, NEW b \in Block, ~ Ready(b), Ready(0)
  PROVE  ErrFree
<1>1. Errors /\ Bell /\ GridTypes
  BY DEF IInv, Types
<1>2. doorbellDev = bpass[0] - 1 /\ doorbellDev # HALT
  BY <1>1 DEF Bell, Ready
<1>3. bpass[b] <= doorbellDev
  BY <1>1, <1>2 DEF Bell
<1>4. bpass[b] \in Nat \ {0} /\ bpass[0] \in Nat /\ 0 \in Block
  <2>1. MaxPass \in Nat
    BY ProtocolAssumption DEF HALT
  <2>2. QED
    BY <1>1, <2>1, BlockZero DEF GridTypes
<1>5. bpass[0] >= 2
  BY <1>2, <1>3, <1>4
<1>6. QED
  BY <1>1, <1>4, <1>5 DEF Errors

\* When block 0 goes to its next pass, no block has left the kernel.
LEMMA NoneExited ==
  ASSUME IInv, bpc[0] = "epilogue", errDev = ERR_NONE, NEW c \in Block
  PROVE  bpc[c] # "exit"
<1>1. ErrFree
  BY BlockZero, EpilogueErrFree
<1>2. Bell /\ ShapeOf(c) /\ Types /\ Len(program) \in Nat
  BY ProgramSeq DEF IInv, Shape
<1>3. doorbellDev # HALT
  BY <1>2 DEF Bell
<1>4. ip[c] \in 1 .. Len(program) + 1
  BY <1>2 DEF Types, GridTypes
<1>5. QED
  BY <1>1, <1>2, <1>3, <1>4 DEF ShapeOf, ErrFree, Errs

\* Where the other blocks are while block 0 is at the top of a pass.
LEMMA AtTheTop ==
  ASSUME IInv, Ready(0), bpc[0] # "off", NEW b \in Block
  PROVE  \/ bpass[b] = bpass[0] /\ bpc[b] \in {"bell", "forward"}
         \/ /\ bpass[b] = bpass[0] - 1 /\ bpc[b] \in {"boundary", "epilogue"}
            /\ ip[b] = Len(program) + 1
<1>1. Bell /\ Lockstep /\ ShapeOf(b) /\ Life /\ Types /\ Len(program) \in Nat
  BY ProgramSeq DEF IInv, Shape
<1>2. /\ bpass[b] \in Nat /\ bpass[0] \in Nat /\ 0 \in Block
      /\ ip[b] \in Nat \ {0} /\ ip[b] <= Len(program) + 1
  <2>1. MaxPass \in Nat
    BY ProtocolAssumption DEF HALT
  <2>2. bpass[b] \in Nat /\ bpass[0] \in Nat /\ 0 \in Block
    BY <1>1, <2>1, BlockZero DEF Types, GridTypes
  <2>3. ip[b] \in Nat \ {0} /\ ip[b] <= Len(program) + 1
    BY <1>1, PlaceType
  <2>4. QED
    BY <2>2, <2>3
<1>3. P(0) = bpass[0] /\ I(0) = 1
  BY DEF P, I, Ready, AfterEpilogue
<1>4. bpc[b] # "off" /\ bpc[b] # "exit"
  BY <1>1, <1>2 DEF Life, Bell
<1>5. CASE Ready(b)
  <2>1. P(b) = bpass[b] /\ I(b) = 1
    BY <1>5 DEF P, I, Ready, AfterEpilogue
  <2>2. ~ Beyond(b, 0) /\ ~ Beyond(0, b)
    BY <1>5 DEF Beyond, Ready
  <2>3. bpass[b] = bpass[0]
    BY <1>1, <1>2, <1>3, <2>1, <2>2 DEF Lockstep, Pair, Level
  <2>4. QED
    BY <1>4, <1>5, <2>3 DEF Ready
<1>6. CASE ~ Ready(b)
  <2>1. bpass[b] <= bpass[0] - 1
    BY <1>1, <1>6 DEF Bell, Ready
  <2>2. CASE Level(b, 0)
    <3>1. AfterEpilogue(b) /\ bpass[b] = bpass[0] - 1
      BY <1>2, <1>3, <2>1, <2>2 DEF Level, P
    <3>2. QED
      BY <1>1, <1>4, <3>1 DEF AfterEpilogue, ShapeOf
  <2>3. CASE Beyond(b, 0)
    <3>1. P(b) = bpass[b] /\ bpc[b] = "boundary"
      BY <2>3 DEF Beyond, P, AfterEpilogue
    <3>2. ~ (ip[b] <= Len(program)) /\ P(0) = P(b) + 1
      BY <1>2, <1>3, <2>3 DEF Beyond
    <3>3. QED
      BY <1>1, <1>2, <1>3, <3>1, <3>2
  <2>4. CASE Beyond(0, b)
    BY <2>4 DEF Beyond, Ready
  <2>5. QED
    BY <1>1, <1>2, <2>2, <2>3, <2>4 DEF Lockstep, Pair
<1>7. QED
  BY <1>5, <1>6

\* Block 0 at the top of a pass: it polls and forwards.
LEMMA ZeroBell ==
  ASSUME IInv, PollDoorbell \/ ForwardDoorbell
  PROVE  Bell'
<1>1. Bell /\ GridTypes /\ Host /\ Types /\ Errors
  BY DEF IInv, Types
<1>2. 0 \in Block /\ MaxPass \in Nat /\ bpass[0] \in 1 .. MaxPass + 1
  BY <1>1, BlockZero, ProtocolAssumption DEF GridTypes, HALT
<1>3. CASE PollDoorbell
  <2>1. saw' \in {bpass[0], HALT}
    BY <1>1, <1>2, <1>3, HostBellDist, RungIff DEF PollDoorbell
  <2>2. bpc[0] = "bell" /\ bpc' = [bpc EXCEPT ![0] = "forward"]
        /\ UNCHANGED <<cells, bpass, ip>>
    BY <1>3 DEF PollDoorbell, Goto
  <2>3. doorbellDev' = bpass'[0] - 1 /\ doorbellDev' # HALT
    BY <1>1, <2>2 DEF Bell, Ready, cells
  <2>4. \A b \in Block : bpc'[b] # "exit"
    BY <1>1, <2>2 DEF Bell, Ready, GridTypes
  <2>5. Ready(0)' /\ \A b \in Block : Ready(b)' <=> Ready(b)
    BY <1>1, <1>2, <2>2 DEF Ready, GridTypes
  <2>6. QED
    BY <1>1, <2>1, <2>2, <2>3, <2>4, <2>5 DEF Bell, cells
<1>4. CASE ForwardDoorbell
  <2>1. /\ bpc[0] = "forward" /\ doorbellDev' = saw /\ saw \in {bpass[0], HALT}
        /\ bpc' = [bpc EXCEPT ![0] = IF saw = HALT THEN "exit" ELSE "instr"]
        /\ UNCHANGED <<bpass, errDev, program>> /\ ip' = [ip EXCEPT ![0] = 1]
    BY <1>1, <1>4 DEF ForwardDoorbell, Goto, Bell
  <2>2. ~ Ready(0)' /\ doorbellDev' \in {bpass'[0], HALT} /\ bpc'[0] # "forward"
    BY <1>1, <1>2, <2>1 DEF Ready, GridTypes
  <2>3. ASSUME NEW b \in Block, ~ Ready(b)', doorbellDev' # HALT
        PROVE  bpass'[b] <= doorbellDev'
    <3>1. bpass[b] = bpass[0] \/ bpass[b] = bpass[0] - 1
      BY <2>1, AtTheTop DEF Ready
    <3>2. QED
      BY <1>2, <2>1, <2>3, <3>1
  <2>4. ASSUME doorbellDev' = HALT
        PROVE  /\ bpc'[0] = "exit"
               /\ \A b \in Block :
                    \/ bpass'[b] = bpass'[0] /\ bpc'[b] \in {"bell", "exit"}
                    \/ /\ bpass'[b] = bpass'[0] - 1 /\ bpc'[b] \in {"boundary", "epilogue"}
                       /\ ip'[b] = Len(program') + 1 /\ errDev' = ERR_NONE
    <3>1. bpc'[0] = "exit"
      BY <1>1, <1>2, <2>1, <2>4 DEF GridTypes
    <3>2. ASSUME NEW b \in Block, b # 0
          PROVE  \/ bpass'[b] = bpass'[0] /\ bpc'[b] \in {"bell", "exit"}
                 \/ /\ bpass'[b] = bpass'[0] - 1 /\ bpc'[b] \in {"boundary", "epilogue"}
                    /\ ip'[b] = Len(program') + 1 /\ errDev' = ERR_NONE
      <4>1. bpc'[b] = bpc[b] /\ ip'[b] = ip[b] /\ bpc[b] # "forward"
        BY <1>1, <2>1, <3>2 DEF GridTypes, IInv, Shape, ShapeOf
      <4>2. CASE bpass[b] = bpass[0] /\ bpc[b] \in {"bell", "forward"}
        BY <2>1, <4>1, <4>2
      <4>3. CASE /\ bpass[b] = bpass[0] - 1 /\ bpc[b] \in {"boundary", "epilogue"}
                 /\ ip[b] = Len(program) + 1
        <5>1. ErrFree
          BY <2>1, <4>3, AheadErrFree DEF Ready
        <5>2. QED
          BY <1>1, <2>1, <4>1, <4>3, <5>1 DEF Errors
      <4>4. QED
        BY <2>1, <4>2, <4>3, AtTheTop DEF Ready
    <3>3. QED
      BY <2>1, <3>1, <3>2
  <2>5. QED
    BY <2>2, <2>3, <2>4 DEF Bell
<1>5. QED
  BY <1>3, <1>4

\* What a block does between the doorbell of one pass and that of the next.
LEMMA RunStep ==
  ASSUME IInv, NEW b \in Block, BlockStep(b), ~ (b = 0 /\ (PollDoorbell \/ ForwardDoorbell))
  PROVE  /\ UNCHANGED <<doorbellDev, saw>>
         /\ \/ SpinDoorbell(b)
            \/ /\ ~ Ready(b) /\ ~ Ready(b)' /\ UNCHANGED bpass
               /\ bpc[b] # "exit"
               /\ bpc'[b] = "exit" => ~ ErrFree
               /\ bpc[b] = "boundary" /\ ip[b] = Len(program) + 1 =>
                    bpc'[b] = "epilogue" /\ UNCHANGED <<ip, errDev>>
               /\ bpc[b] = "epilogue" => errDev # ERR_NONE
            \/ /\ bpc[b] = "epilogue" /\ bpc'[b] = "bell" /\ errDev = ERR_NONE
               /\ bpass'[b] = bpass[b] + 1 /\ UNCHANGED errDev
<1>1. GridTypes /\ Errors /\ ShapeOf(b) /\ Len(program) \in Nat
  BY ProgramSeq DEF IInv, Types, Shape
<1>2. ip[b] \in 1 .. Len(program) + 1
  BY <1>1 DEF GridTypes
<1>3. CASE SpinDoorbell(b)
  BY <1>3 DEF SpinDoorbell, cells
<1>4. CASE EnterBoundary(b)
  BY <1>1, <1>4 DEF EnterBoundary, AtInstr, Goto, GridTypes, Ready, cells
<1>5. CASE LeaveBoundary(b)
  BY <1>1, <1>2, <1>5 DEF LeaveBoundary, Goto, GridTypes, Ready, cells
<1>6. CASE BadInstr(b)
  <2>1. ~ ErrFree
    BY <1>1, <1>2, <1>6 DEF BadInstr, AtInstr, ErrFree, Errs
  <2>2. QED
    BY <1>1, <1>6, <2>1 DEF BadInstr, AtInstr, Goto, GridTypes, Ready, cells
<1>7. CASE Dispatch(b)
  BY <1>1, <1>7 DEF Dispatch, AtInstr, Goto, GridTypes, Ready, cells
<1>8. CASE RaiseAux(b)
  BY <1>1, <1>8 DEF RaiseAux, Goto, GridTypes, Ready
<1>9. CASE RaiseCode(b)
  BY <1>1, <1>9 DEF RaiseCode, Goto, GridTypes, Ready
<1>10. CASE RaiseDev(b)
  <2>1. ~ ErrFree
    BY <1>1, <1>2, <1>10 DEF RaiseDev, ShapeOf, ErrFree
  <2>2. QED
    BY <1>1, <1>10, <2>1 DEF RaiseDev, Goto, GridTypes, Ready
<1>11. CASE Epilogue(b)
  <2>1. errDev # ERR_NONE => ~ ErrFree
    BY <1>1 DEF Errors
  <2>2. (bpass[b] + 1) % PU = bpass[b] + 1
    BY <1>11, EpiloguePass DEF Epilogue, IInv
  <2>3. QED
    BY <1>1, <1>11, <2>1, <2>2 DEF Epilogue, Goto, GridTypes, Ready
<1>12. QED
  BY <1>3, <1>4, <1>5, <1>6, <1>7, <1>8, <1>9, <1>10, <1>11 DEF BlockStep

\* Beyond the doorbell no block loses touch with it.
LEMMA RunBell ==
  ASSUME IInv, NEW b \in Block, BlockStep(b), ~ (b = 0 /\ (PollDoorbell \/ ForwardDoorbell))
  PROVE  Bell'
<1>1. Bell /\ GridTypes /\ Types /\ Errors /\ Lockstep
  BY DEF IInv, Types
<1>2. MaxPass \in Nat /\ 0 \in Block /\ \A c \in Block : bpass[c] \in 1 .. MaxPass + 1
  BY <1>1, BlockZero, ProtocolAssumption DEF GridTypes, HALT
<1>3. UNCHANGED <<doorbellDev, saw>> /\ program' = program
  BY RunStep, BlockFrame
<1>4. \A c \in Block : c # b =>
        /\ bpc'[c] = bpc[c] /\ bpass'[c] = bpass[c] /\ ip'[c] = ip[c]
        /\ (Ready(c)' <=> Ready(c))
  BY BlockFrame DEF Ready
<1>5. CASE SpinDoorbell(b)
  <2>1. /\ b # 0 /\ bpc[b] = "bell" /\ UNCHANGED <<errDev, bpass>>
        /\ Rung(doorbellDev, bpass[b])
        /\ bpc' = [bpc EXCEPT ![b] = IF doorbellDev = HALT THEN "exit" ELSE "instr"]
    BY <1>5 DEF SpinDoorbell, Goto, cells
  <2>2. doorbellDev \in {bpass[b], HALT}
    <3>1. doorbellDev \in {bpass[b] - 1, bpass[b], HALT} /\ bpass[b] \in 1 .. MaxPass + 1
      BY <1>1, <1>2, <2>1, DevBellDist
    <3>2. QED
      BY <2>1, <3>1, RungIff
  <2>3. doorbellDev = HALT => bpc'[b] = "exit"
    BY <1>1, <2>1 DEF GridTypes
  <2>4. doorbellDev # HALT => bpc'[b] = "instr" /\ bpass[b] <= doorbellDev
    BY <1>1, <1>2, <2>1, <2>2 DEF GridTypes
  <2>5. (Ready(0)' <=> Ready(0)) /\ bpc'[0] = bpc[0]
    BY <1>2, <1>4, <2>1
  <2>6. Ready(0) => doorbellDev # HALT
    BY <1>1 DEF Bell, Ready
  <2>7. Ready(0) => \A c \in Block : bpc'[c] # "exit"
    BY <1>1, <1>4, <2>4, <2>6 DEF Bell
  <2>8. \A c \in Block : ~ Ready(c)' /\ doorbellDev # HALT => bpass[c] <= doorbellDev
    BY <1>1, <1>4, <2>4 DEF Bell
  <2>9. ASSUME doorbellDev = HALT, NEW c \in Block
        PROVE  \/ bpass[c] = bpass[0] /\ bpc'[c] \in {"bell", "exit"}
               \/ /\ bpass[c] = bpass[0] - 1 /\ bpc'[c] \in {"boundary", "epilogue"}
                  /\ ip'[c] = Len(program) + 1 /\ errDev = ERR_NONE
    BY <1>1, <1>4, <2>1, <2>3, <2>9 DEF Bell
  <2>10. QED
    BY <1>1, <1>3, <2>1, <2>5, <2>7, <2>8, <2>9 DEF Bell
<1>6. CASE /\ ~ Ready(b) /\ ~ Ready(b)' /\ UNCHANGED bpass
           /\ bpc[b] # "exit"
           /\ bpc'[b] = "exit" => ~ ErrFree
           /\ bpc[b] = "boundary" /\ ip[b] = Len(program) + 1 =>
                bpc'[b] = "epilogue" /\ UNCHANGED <<ip, errDev>>
           /\ bpc[b] = "epilogue" => errDev # ERR_NONE
  <2>1. Ready(0)' <=> Ready(0)
    BY <1>2, <1>4, <1>6
  <2>2. bpc'[0] = "forward" => bpc[0] = "forward"
    BY <1>2, <1>4, <1>6 DEF Ready
  <2>3. Ready(0) => \A c \in Block : bpc'[c] # "exit"
    <3>1. Ready(0) => bpc'[b] # "exit"
      BY <1>6, AheadErrFree
    <3>2. QED
      BY <1>1, <1>4, <3>1 DEF Bell
  <2>4. \A c \in Block : ~ Ready(c)' /\ doorbellDev # HALT => bpass[c] <= doorbellDev
    BY <1>1, <1>4, <1>6 DEF Bell
  <2>5. ASSUME doorbellDev = HALT
        PROVE  /\ bpc'[0] = "exit" /\ errDev' = errDev
               /\ \A c \in Block :
                    \/ bpass[c] = bpass[0] /\ bpc'[c] \in {"bell", "exit"}
                    \/ /\ bpass[c] = bpass[0] - 1 /\ bpc'[c] \in {"boundary", "epilogue"}
                       /\ ip'[c] = Len(program) + 1 /\ errDev' = ERR_NONE
    <3>1. bpc[0] = "exit" /\ b # 0
      BY <1>1, <1>6, <2>5 DEF Bell
    <3>2. /\ bpass[b] = bpass[0] - 1 /\ bpc[b] \in {"boundary", "epilogue"}
          /\ ip[b] = Len(program) + 1 /\ errDev = ERR_NONE
      BY <1>1, <1>6, <2>5 DEF Bell, Ready
    <3>3. bpc'[b] = "epilogue" /\ UNCHANGED <<ip, errDev>>
      BY <1>6, <3>2
    <3>4. QED
      BY <1>1, <1>2, <1>4, <2>5, <3>1, <3>2, <3>3 DEF Bell
  <2>6. QED
    BY <1>1, <1>3, <1>6, <2>1, <2>2, <2>3, <2>4, <2>5 DEF Bell
<1>7. CASE /\ bpc[b] = "epilogue" /\ bpc'[b] = "bell" /\ errDev = ERR_NONE
           /\ bpass'[b] = bpass[b] + 1 /\ UNCHANGED errDev
  <2>1. ~ Ready(b) /\ Ready(b)'
    BY <1>7 DEF Ready
  <2>2. \A c \in Block : ~ Ready(c)' /\ doorbellDev # HALT => bpass'[c] <= doorbellDev
    BY <1>1, <1>4, <2>1 DEF Bell
  <2>3. CASE b = 0
    <3>1. doorbellDev # HALT /\ doorbellDev = bpass[0]
      BY <1>1, <1>7, <2>1, <2>3 DEF Bell
    <3>2. \A c \in Block : bpc'[c] # "exit"
      BY <1>4, <1>7, <2>3, NoneExited
    <3>3. QED
      BY <1>2, <1>3, <1>7, <2>1, <2>2, <2>3, <3>1, <3>2 DEF Bell
  <2>4. CASE b # 0
    <3>1. Ready(0) => \A c \in Block : bpc'[c] # "exit"
      BY <1>1, <1>4, <1>7 DEF Bell
    <3>2. ASSUME doorbellDev = HALT
          PROVE  /\ bpc'[0] = "exit"
                 /\ \A c \in Block :
                      \/ bpass'[c] = bpass[0] /\ bpc'[c] \in {"bell", "exit"}
                      \/ /\ bpass'[c] = bpass[0] - 1 /\ bpc'[c] \in {"boundary", "epilogue"}
                         /\ ip'[c] = Len(program) + 1 /\ errDev' = ERR_NONE
      <4>1. bpass[b] = bpass[0] - 1
        BY <1>1, <1>7, <3>2 DEF Bell
      <4>2. bpass'[b] = bpass[0]
        BY <1>2, <1>7, <4>1
      <4>3. QED
        BY <1>1, <1>2, <1>4, <1>7, <2>4, <3>2, <4>2 DEF Bell
    <3>3. QED
      BY <1>1, <1>2, <1>3, <1>4, <1>7, <2>2, <2>4, <3>1, <3>2 DEF Bell
  <2>5. QED
    BY <2>3, <2>4
<1>8. QED
  BY <1>5, <1>6, <1>7, RunStep

\* The host rings no device doorbell, and the grid it launches waits at its first.
LEMMA HostBell ==
  ASSUME IInv, HostStep
  PROVE  Bell'
<1>1. Bell /\ Life
  BY DEF IInv
<1>2. 0 \in Block
  BY BlockZero
<1>3. CASE Upload \/ Launch
  <2>1. \A b \in Block : bpc[b] = "off" /\ bpc'[b] \in {"off", "bell"} /\ bpass'[b] = bpass[b]
    BY <1>1, <1>3, HostFrame DEF Upload, Launch, Life, grid
  <2>2. doorbellDev = bpass[0] - 1 /\ doorbellDev # HALT
    BY <1>1, <1>2, <2>1 DEF Bell, Ready
  <2>3. QED
    BY <1>1, <1>2, <2>1, <2>2, HostFrame DEF Bell, Ready
<1>4. CASE ~ Upload /\ ~ Launch
  BY <1>1, <1>4, HostFrame DEF Bell, Ready
<1>5. QED
  BY <1>3, <1>4

-----------------------------------------------------------------------------
(***************************************************************************)
(* The host.                                                               *)
(***************************************************************************)

\* What a block step does to the cells the host looks at.
LEMMA CellStep ==
  ASSUME IInv, NEW b \in Block, BlockStep(b)
  PROVE  /\ errHost.code # ERR_NONE => errHost'.code # ERR_NONE
         /\ \/ done' = done /\ bpass'[0] = bpass[0]
            \/ done' = bpass[0] /\ bpass'[0] = bpass[0] + 1 /\ Served /\ bpc'[0] = "bell"
<1>1. GridTypes /\ CellTypes /\ Bell /\ 0 \in Block
  BY BlockZero DEF IInv, Types
<1>2. errHost.code # ERR_NONE => errHost'.code # ERR_NONE
  <2>1. CASE RaiseCode(b)
    BY <1>1, <2>1, ErrAtCodes DEF RaiseCode, CellTypes, ERR_NONE
  <2>2. CASE RaiseAux(b)
    BY <1>1, <2>2 DEF RaiseAux, CellTypes
  <2>3. CASE ~ RaiseCode(b) /\ ~ RaiseAux(b)
    BY <2>3 DEF BlockStep, PollDoorbell, ForwardDoorbell, SpinDoorbell, EnterBoundary,
                LeaveBoundary, BadInstr, Dispatch, RaiseDev, Epilogue, cells
  <2>4. QED
    BY <2>1, <2>2, <2>3
<1>3. CASE b = 0 /\ Epilogue(b)
  <2>1. bpc[0] = "epilogue" /\ doorbellDev # HALT
    BY <1>1, <1>3 DEF Epilogue, Bell
  <2>2. Served
    BY <2>1 DEF Served
  <2>3. (bpass[0] + 1) % PU = bpass[0] + 1
    BY <1>1, <2>1, EpiloguePass DEF IInv
  <2>4. QED
    BY <1>1, <1>2, <1>3, <2>2, <2>3 DEF Epilogue, Goto, GridTypes
<1>4. CASE ~ (b = 0 /\ Epilogue(b))
  <2>1. done' = done
    BY <1>4 DEF BlockStep, PollDoorbell, ForwardDoorbell, SpinDoorbell, EnterBoundary,
                LeaveBoundary, BadInstr, Dispatch, RaiseAux, RaiseCode, RaiseDev, Epilogue, cells
  <2>2. bpass'[0] = bpass[0]
    <3>1. CASE b # 0
      BY <1>1, <3>1, BlockFrame
    <3>2. CASE b = 0
      BY <1>4, <3>2 DEF BlockStep, PollDoorbell, ForwardDoorbell, SpinDoorbell, EnterBoundary,
                        LeaveBoundary, BadInstr, Dispatch, RaiseAux, RaiseCode, RaiseDev
    <3>3. QED
      BY <3>1, <3>2
  <2>3. QED
    BY <1>2, <2>1, <2>2
<1>5. QED
  BY <1>3, <1>4

\* Block 0 is told of a pass only once the host has rung it.
LEMMA ServedStep ==
  ASSUME IInv, NEW b \in Block, BlockStep(b)
  PROVE  /\ Served' => \/ Served
                       \/ bpc[0] = "bell" /\ doorbellHost = bpass[0] /\ doorbellHost # HALT
         /\ (bpc'[0] = "forward" /\ saw' = HALT) \/ doorbellDev' = HALT =>
              \/ (bpc[0] = "forward" /\ saw = HALT) \/ doorbellDev = HALT
              \/ doorbellHost = HALT
<1>1. GridTypes /\ Bell /\ Host /\ Types /\ 0 \in Block /\ bpass[0] \in 1 .. MaxPass + 1
  BY BlockZero DEF IInv, Types, GridTypes
<1>2. CASE b = 0 /\ PollDoorbell
  <2>1. /\ bpc[0] = "bell" /\ bpc'[0] = "forward" /\ saw' = doorbellHost
        /\ doorbellDev' = doorbellDev /\ Rung(doorbellHost, bpass[0])
    BY <1>1, <1>2 DEF PollDoorbell, Goto, GridTypes, cells
  <2>2. doorbellHost \in {bpass[0], HALT}
    BY <1>1, <2>1, HostBellDist, RungIff
  <2>3. QED
    BY <2>1, <2>2 DEF Served
<1>3. CASE b = 0 /\ ForwardDoorbell
  BY <1>1, <1>3 DEF ForwardDoorbell, Goto, GridTypes, Served, Bell, Ready
<1>4. CASE ~ (b = 0 /\ (PollDoorbell \/ ForwardDoorbell))
  <2>1. UNCHANGED <<doorbellDev, saw>>
    BY <1>4, RunStep
  <2>2. CASE b # 0
    BY <1>1, <2>1, <2>2, BlockFrame DEF Served
  <2>3. CASE b = 0
    <3>1. ~ SpinDoorbell(b)
      BY <2>3 DEF SpinDoorbell
    <3>2. ~ Ready(0) /\ bpc'[0] # "forward"
      BY <1>4, <2>3, <3>1, RunStep DEF Ready
    <3>3. QED
      BY <2>1, <3>2 DEF Served, Ready
  <2>4. QED
    BY <2>2, <2>3
<1>5. QED
  BY <1>2, <1>3, <1>4

\* Every step of a block keeps the host's view of it.
LEMMA BlockHost ==
  ASSUME IInv, NEW b \in Block, BlockStep(b)
  PROVE  Host'
<1>1. Host /\ HostTypes /\ CellTypes /\ GridTypes /\ 0 \in Block
  BY BlockZero DEF IInv, Types
<1>2. /\ done \in Nat /\ bpass[0] \in Nat \ {0} /\ hpass \in Nat /\ doorbellHost \in Nat
      /\ hpass < HALT /\ HALT \in Nat
  <2>1. PU \in Nat /\ PU > 2 /\ MaxPass \in Nat /\ MaxPass < HALT /\ HALT \in Nat
    BY ProtocolAssumption DEF HALT
  <2>2. QED
    BY <1>1, <2>1 DEF HostTypes, CellTypes, GridTypes
<1>3. host' = host /\ doorbellHost' = doorbellHost
  BY BlockFrame
<1>4. UNCHANGED <<hpc, hpass, status>>
  BY <1>3 DEF host
<1>5. CASE done' = done /\ bpass'[0] = bpass[0]
  <2>1. Served' => hpass = bpass[0] /\ doorbellHost \in {bpass[0], HALT}
    <3>1. CASE Served
      BY <1>1, <3>1 DEF Host
    <3>2. CASE bpc[0] = "bell" /\ doorbellHost = bpass[0] /\ doorbellHost # HALT
      <4>1. doorbellHost <= hpass /\ doorbellHost = done + 1
        BY <1>1, <1>2, <3>2 DEF Host
      <4>2. QED
        BY <1>1, <1>2, <3>2, <4>1 DEF Host
    <3>3. QED
      BY <3>1, <3>2, ServedStep
  <2>2. (bpc'[0] = "forward" /\ saw' = HALT) \/ doorbellDev' = HALT => doorbellHost = HALT
    BY <1>1, ServedStep DEF Host
  <2>3. QED
    BY <1>1, <1>3, <1>4, <1>5, <2>1, <2>2, CellStep DEF Host
<1>6. CASE done' = bpass[0] /\ bpass'[0] = bpass[0] + 1 /\ Served /\ bpc'[0] = "bell"
  <2>1. hpass = bpass[0] /\ doorbellHost \in {bpass[0], HALT} /\ done = bpass[0] - 1
    BY <1>1, <1>6 DEF Host
  <2>2. ~ Served'
    BY <1>6 DEF Served
  <2>3. hpc \notin {"copy", "ring"} /\ ~ (hpc = "idle" /\ status \in {"NONE", "OK"})
    BY <1>1, <1>2, <2>1 DEF Host
  <2>4. (bpc'[0] = "forward" /\ saw' = HALT) \/ doorbellDev' = HALT => doorbellHost = HALT
    BY <1>1, ServedStep DEF Host
  <2>5. QED
    BY <1>1, <1>2, <1>3, <1>4, <1>6, <2>1, <2>2, <2>3, <2>4, CellStep DEF Host
<1>7. QED
  BY <1>5, <1>6, CellStep

\* Every step of the host keeps its view of block 0.
LEMMA HostHost ==
  ASSUME IInv, HostStep
  PROVE  Host'
<1>1. Host /\ HostTypes /\ CellTypes /\ GridTypes /\ Life /\ 0 \in Block
  BY BlockZero DEF IInv, Types
<1>2. /\ done \in Nat /\ bpass[0] \in Nat \ {0} /\ hpass \in Nat /\ doorbellHost \in Nat
      /\ hpass < HALT /\ HALT \in Nat
  <2>1. PU \in Nat /\ PU > 2 /\ MaxPass \in Nat /\ MaxPass < HALT /\ HALT \in Nat
    BY ProtocolAssumption DEF HALT
  <2>2. QED
    BY <1>1, <2>1 DEF HostTypes, CellTypes, GridTypes
<1>3. done' = done /\ bpass' = bpass /\ saw' = saw /\ doorbellDev' = doorbellDev
      /\ errHost' = errHost
  BY HostFrame
<1>4. CASE Upload
  BY <1>1, <1>3, <1>4 DEF Upload, Host, Served, Life, grid
<1>5. CASE Launch
  <2>1. bpc[0] = "off" /\ bpc'[0] = "bell"
    BY <1>1, <1>5 DEF Launch, Life
  <2>2. doorbellHost = 0 /\ hpass = 0 /\ status = "NONE" /\ done = 0
        /\ doorbellHost' = doorbellHost /\ hpass' = 0 /\ status' = status /\ hpc' = "idle"
    BY <1>1, <1>2, <1>5 DEF Launch, Life, Host, cells
  <2>3. QED
    BY <1>1, <1>2, <1>3, <2>1, <2>2 DEF Host, Served
<1>6. CASE ~ Upload /\ ~ Launch
  <2>1. bpc' = bpc
    BY <1>6, HostFrame
  <2>2. Served' <=> Served
    BY <1>3, <2>1 DEF Served
  <2>3. CASE RunPass
    BY <1>1, <1>2, <1>3, <2>1, <2>2, <2>3 DEF RunPass, ReportCode, Host, HostTypes, cells
  <2>4. CASE Shutdown
    BY <1>1, <1>2, <1>3, <2>1, <2>2, <2>4 DEF Shutdown, Host
  <2>5. CASE CopyToken
    BY <1>1, <1>2, <1>3, <2>1, <2>2, <2>5 DEF CopyToken, Return, Host
  <2>6. CASE RingDoorbell
    BY <1>1, <1>2, <1>3, <2>1, <2>2, <2>6 DEF RingDoorbell, Host
  <2>7. CASE PollErr
    BY <1>1, <1>2, <1>3, <2>1, <2>2, <2>7 DEF PollErr, ReportCode, Host, cells
  <2>8. CASE PollDone
    BY <1>1, <1>2, <1>3, <2>1, <2>2, <2>8 DEF PollDone, Return, Host, cells
  <2>9. CASE AwaitExit
    BY <1>1, <1>2, <1>3, <2>1, <2>2, <2>9 DEF AwaitExit, Host, cells
  <2>10. CASE Destroy
    BY <1>1, <1>2, <1>3, <2>1, <2>2, <2>10 DEF Destroy, Host, cells
  <2>11. CASE ReadAux
    BY <1>1, <1>2, <1>3, <2>1, <2>2, <2>11 DEF ReadAux, Return, Host, cells
  <2>12. QED
    BY <1>6, <2>3, <2>4, <2>5, <2>6, <2>7, <2>8, <2>9, <2>10, <2>11 DEF HostStep, HostWaits
<1>7. QED
  BY <1>4, <1>5, <1>6

-----------------------------------------------------------------------------
(***************************************************************************)
(* The life of the kernel, and the ring.                                   *)
(***************************************************************************)

\* A block that has returned takes no step, and none steps before the launch.
LEMMA BlockLife ==
  ASSUME IInv, NEW b \in Block, BlockStep(b)
  PROVE  Life'
<1>1. Life /\ GridTypes
  BY DEF IInv, Types
<1>2. bpc[b] # "off" /\ bpc[b] # "exit" /\ bpc'[b] # "off"
  <2>1. CASE b = 0 /\ (PollDoorbell \/ ForwardDoorbell)
    BY <1>1, <2>1 DEF PollDoorbell, ForwardDoorbell, Goto, GridTypes
  <2>2. CASE SpinDoorbell(b)
    BY <1>1, <2>2 DEF SpinDoorbell, Goto, GridTypes
  <2>3. CASE ~ (b = 0 /\ (PollDoorbell \/ ForwardDoorbell)) /\ ~ SpinDoorbell(b)
    BY <2>3, RunStep DEF Ready
  <2>4. QED
    BY <2>1, <2>2, <2>3
<1>3. host' = host /\ program' = program
      /\ \A c \in Block : c # b => bpc'[c] = bpc[c]
  BY BlockFrame
<1>4. hpc \notin {"init", "uploaded"}
  BY <1>1, <1>2 DEF Life
<1>5. ~ GridExited
  BY <1>2 DEF GridExited
<1>6. QED
  BY <1>1, <1>2, <1>3, <1>4, <1>5 DEF Life, host

\* The host launches once, and frees nothing under a kernel it has not seen exit.
LEMMA HostLife ==
  ASSUME IInv, HostStep
  PROVE  Life'
<1>1. Life /\ HostTypes /\ 0 \in Block
  BY BlockZero DEF IInv, Types
<1>2. errHost' = errHost /\ errDev' = errDev /\ bpass' = bpass /\ ip' = ip
  BY HostFrame
<1>3. CASE Upload
  BY <1>1, <1>2, <1>3 DEF Upload, Life, GridExited, grid
<1>4. CASE Launch
  BY <1>1, <1>2, <1>4 DEF Launch, Life, GridExited, cells
<1>5. CASE ~ Upload /\ ~ Launch
  <2>1. bpc' = bpc /\ (GridExited' <=> GridExited) /\ program' = program
    BY <1>5, HostFrame DEF GridExited
  <2>2. hpc \notin {"init", "uploaded"} /\ hpc' \notin {"init", "uploaded"}
    BY <1>5 DEF HostStep, HostWaits, RunPass, Shutdown, CopyToken, RingDoorbell,
         PollErr, ReadAux, ReportCode, PollDone, AwaitExit, Destroy, Return
  <2>3. CASE AwaitExit
    BY <1>1, <2>1, <2>2, <2>3 DEF AwaitExit, Life
  <2>4. CASE Destroy
    BY <1>1, <2>1, <2>2, <2>4 DEF Destroy, Life, HostTypes
  <2>5. CASE ~ AwaitExit /\ ~ Destroy
    <3>1. UNCHANGED <<launched, freed>> /\ hpc # "destroyed"
      BY <1>5, <2>5 DEF HostStep, HostWaits, RunPass, Shutdown, CopyToken, RingDoorbell,
           PollErr, ReadAux, ReportCode, PollDone
    <3>2. QED
      BY <1>1, <2>1, <2>2, <3>1 DEF Life
  <2>6. QED
    BY <2>3, <2>4, <2>5
<1>6. QED
  BY <1>3, <1>4, <1>5

\* Every step keeps the ring: a completed pass overwrites the oldest entry.
LEMMA BlockRing ==
  ASSUME IInv, NEW b \in Block, BlockStep(b)
  PROVE  Ring'
<1>1. Ring /\ Host /\ Errors /\ CellTypes /\ GridTypes /\ 0 \in Block
      /\ RingCap \in Nat \ {0} /\ MaxPass \in Nat
  BY BlockZero, ProtocolAssumption DEF IInv, Types, HALT
<1>2. done \in Nat /\ bpass[0] \in Nat \ {0} /\ done = bpass[0] - 1
  <2>1. bpass[0] \in 1 .. MaxPass + 1
    BY <1>1 DEF GridTypes
  <2>2. done = bpass[0] - 1
    BY <1>1 DEF Host
  <2>3. QED
    BY <1>1, <2>1, <2>2
<1>3. CASE ~ (b = 0 /\ Epilogue(b))
  <2>1. UNCHANGED <<done, passCycles>>
    BY <1>3 DEF BlockStep, PollDoorbell, ForwardDoorbell, SpinDoorbell, EnterBoundary,
                LeaveBoundary, BadInstr, Dispatch, RaiseAux, RaiseCode, RaiseDev, Epilogue, cells
  <2>2. QED
    BY <1>1, <2>1 DEF Ring
<1>4. CASE b = 0 /\ Epilogue(b) /\ errDev # ERR_NONE
  <2>1. ~ (bpass[0] >= 2)
    BY <1>1, <1>4 DEF Errors
  <2>2. done' = 0
    BY <1>2, <1>4, <2>1 DEF Epilogue
  <2>3. SUFFICES ASSUME NEW p \in 1 .. done'
                 PROVE  FALSE
    BY DEF Ring
  <2>4. QED
    BY <2>2
<1>5. CASE b = 0 /\ Epilogue(b) /\ errDev = ERR_NONE
  <2>0. done' = done + 1
    BY <1>2, <1>5 DEF Epilogue
  <2>1. passCycles' = [passCycles EXCEPT ![done % RingCap] = done + 1]
    BY <1>2, <1>5 DEF Epilogue
  <2>2. SUFFICES ASSUME NEW p \in 1 .. done + 1, p > done + 1 - RingCap
                 PROVE  passCycles'[(p - 1) % RingCap] = p
    BY <1>1, <1>2, <2>0 DEF Ring
  <2>3. done % RingCap \in 0 .. RingCap-1 /\ (p - 1) % RingCap \in 0 .. RingCap-1
    BY <1>1, <1>2
  <2>4. CASE p = done + 1
    <3>1. passCycles'[done % RingCap] = done + 1
      <4>1. passCycles \in [0 .. RingCap-1 -> 0 .. MaxPass]
        BY <1>1 DEF CellTypes
      <4>2. QED
        BY <2>1, <2>3, <4>1
    <3>2. p - 1 = done
      BY <1>2, <2>4
    <3>3. QED
      BY <2>4, <3>1, <3>2
  <2>5. CASE p # done + 1
    <3>1. p \in 1 .. done /\ p > done - RingCap /\ p - 1 < done /\ done < (p - 1) + RingCap
          /\ p - 1 \in Nat
      BY <1>1, <1>2, <2>2, <2>5
    <3>2. (p - 1) % RingCap # done % RingCap
      BY <1>1, <1>2, <3>1, DistinctMods
    <3>3. passCycles[(p - 1) % RingCap] = p
      BY <1>1, <3>1 DEF Ring
    <3>4. QED
      BY <1>1, <2>1, <2>3, <3>2, <3>3 DEF CellTypes
  <2>6. QED
    BY <2>4, <2>5
<1>6. QED
  BY <1>3, <1>4, <1>5

-----------------------------------------------------------------------------
(***************************************************************************)
(* The invariant.                                                          *)
(***************************************************************************)

\* It holds when host_init has zeroed the cells.
LEMMA InitIInv == Init => IInv
<1> SUFFICES ASSUME Init
             PROVE  IInv
  OBVIOUS
<1>1. 0 \in Block /\ PU \in Nat /\ PU > 2 /\ RingCap \in Nat \ {0} /\ MaxPass \in Nat
      /\ 0 \in Token /\ HALT \in Nat \ {0}
  BY BlockZero, ProtocolAssumption DEF HALT
<1>2. Len(<<>>) = 0 /\ <<>> \in Seq(Token)
  OBVIOUS
<1>3. CellTypes
  BY <1>1, <1>2 DEF Init, CellTypes, ERR_NONE
<1>4. GridTypes
  BY <1>1, <1>2 DEF Init, Y02!Init, GridTypes, BlockPC
<1>5. HostTypes /\ HistoryTypes
  <2>1. HostTypes
    <3>1. report \in [code : 0 .. 3, aux : 0 .. Len(program)]
      BY <1>2 DEF Init
    <3>2. hpass \in 0 .. MaxPass
      BY <1>1 DEF Init
    <3>3. QED
      BY <3>1, <3>2 DEF Init, HostTypes
  <2>2. issued \in Seq(Token)
    BY <1>2 DEF Init
  <2>3. embedded \in [1 .. MaxPass -> SUBSET Token]
    BY DEF Init
  <2>4. QED
    BY <2>1, <2>2, <2>3 DEF HistoryTypes
<1>6. Shape
  BY DEF Init, Y02!Init, Shape, ShapeOf
<1>7. Lockstep
  BY DEF Init, Y02!Init, Lockstep, Pair, Level, Clear, P, I, Ready, AfterEpilogue
<1>8. Errors
  BY <1>2 DEF Init, Errors
<1>9. Bell
  BY <1>1 DEF Init, Bell, Ready
<1>10. Host
  BY <1>1 DEF Init, Host, Served
<1>11. Life
  BY DEF Init, Life
<1>12. Ring
  BY DEF Init, Ring
<1>13. QED
  BY <1>3, <1>4, <1>5, <1>6, <1>7, <1>8, <1>9, <1>10, <1>11, <1>12 DEF IInv, Types

\* Every step keeps it.
LEMMA StepIInv == IInv /\ [Next]_vars => IInv'
<1> SUFFICES ASSUME IInv, [Next]_vars
             PROVE  IInv'
  OBVIOUS
<1>1. ASSUME NEW b \in Block, BlockStep(b)
      PROVE  IInv'
  BY <1>1, BlockTypes, BlockShape, BlockLockstep, BlockErrors, RunBell, ZeroBell, BlockHost,
     BlockLife, BlockRing DEF IInv
<1>2. CASE HostStep
  <2>1. Ring'
    BY HostFrame, <1>2 DEF IInv, Ring
  <2>2. QED
    BY <1>2, <2>1, HostStepTypes, HostShape, HostLockstep, HostErrors, HostBell, HostHost,
       HostLife DEF IInv
<1>3. CASE UNCHANGED vars
  <2>1. Types' /\ Shape'
    BY <1>3 DEF IInv, Types, CellTypes, GridTypes, HostTypes, HistoryTypes, Shape, ShapeOf, Errs,
                vars, cells, grid, host, history
  <2>2. Lockstep'
    BY <1>3 DEF IInv, Lockstep, Pair, Level, Beyond, Clear, P, I, Ready, AfterEpilogue,
                vars, cells, grid
  <2>3. Errors' /\ Bell'
    BY <1>3 DEF IInv, Errors, ErrFree, Errs, Bell, Ready, vars, cells, grid
  <2>4. Host' /\ Life' /\ Ring'
    BY <1>3 DEF IInv, Host, Served, Life, GridExited, Ring, vars, cells, grid, host
  <2>5. QED
    BY <2>1, <2>2, <2>3, <2>4 DEF IInv
<1>4. QED
  BY <1>1, <1>2, <1>3 DEF Next, Terminated

\* The invariant of the doorbell protocol holds in every reachable state.
THEOREM Invariant == Spec => []IInv
BY InitIInv, StepIInv, PTL DEF Spec

-----------------------------------------------------------------------------
(***************************************************************************)
(* What follows from it.                                                   *)
(***************************************************************************)

\* Types: the u32 pass numbers stay below HALT, so no doorbell is taken for it.
THEOREM TypesHold == Spec => []TypeOK
<1>1. ASSUME IInv
      PROVE  TypeOK
  <2>1. CellTypes /\ GridTypes /\ HostTypes /\ HistoryTypes
    BY <1>1 DEF IInv, Types
  <2>2. PU \in Nat /\ PU > 2 /\ MaxPass \in 0 .. PU - 2
    BY ProtocolAssumption DEF HALT
  <2>3. done \in 0 .. PU-1
    BY <2>1, <2>2 DEF CellTypes
  <2>4. errHost.code \in 0 .. 3 /\ errHost.aux \in 0 .. Len(program)
        /\ report.code \in 0 .. 3 /\ report.aux \in 0 .. Len(program)
    BY <2>1 DEF CellTypes, HostTypes
  <2>5. QED
    BY <2>1, <2>3, <2>4 DEF TypeOK, CellTypes, GridTypes, HostTypes, HistoryTypes, BlockPC
<1>2. QED
  BY Invariant, <1>1, PTL

\* RUN_OK means the pass is complete on every block (host.cpp:165).
THEOREM OkIsComplete == Spec => []OkMeansPassComplete
<1>1. ASSUME IInv
      PROVE  OkMeansPassComplete
  <2>1. SUFFICES ASSUME hpc = "idle", status = "OK", NEW b \in Block
                 PROVE  \/ bpc[b] \in {"boundary", "epilogue"} /\ ip[b] = Len(program) + 1
                             /\ bpass[b] = hpass
                        \/ bpc[b] = "bell" /\ bpass[b] = hpass + 1
    BY DEF OkMeansPassComplete
  <2>2. /\ Host /\ Bell /\ Life /\ GridTypes /\ CellTypes /\ 0 \in Block
        /\ HALT \in Nat /\ MaxPass \in Nat /\ MaxPass < HALT
    BY <1>1, BlockZero, ProtocolAssumption DEF IInv, Types, HALT
  <2>3. done \in 0 .. MaxPass /\ bpass[0] \in 1 .. MaxPass + 1
    BY <2>2 DEF CellTypes, GridTypes
  <2>4. hpass = bpass[0] - 1 /\ doorbellHost = bpass[0] - 1 /\ doorbellHost # HALT
    BY <2>1, <2>2, <2>3 DEF Host
  <2>5. ~ Served /\ ~ (bpc[0] = "forward" /\ saw = HALT) /\ doorbellDev # HALT
    BY <2>2, <2>3, <2>4 DEF Host
  <2>6. bpc[0] = "bell"
    BY <2>1, <2>2, <2>5 DEF Served, Life
  <2>7. bpc[b] # "forward" \/ b = 0
    BY <1>1 DEF IInv, Shape, ShapeOf
  <2>8. CASE bpass[b] = bpass[0] /\ bpc[b] \in {"bell", "forward"}
    BY <2>3, <2>4, <2>6, <2>7, <2>8
  <2>9. CASE /\ bpass[b] = bpass[0] - 1 /\ bpc[b] \in {"boundary", "epilogue"}
             /\ ip[b] = Len(program) + 1
    BY <2>4, <2>9
  <2>10. QED
    BY <1>1, <2>6, <2>8, <2>9, AtTheTop DEF Ready
<1>2. QED
  BY Invariant, <1>1, PTL

\* No block waits at a boundary that a block which has left the kernel did not reach
\* (interp.cu:106-108 and :130-134).
THEOREM NoneStranded == Spec => []NoStrandedBlock
<1>1. ASSUME IInv
      PROVE  NoStrandedBlock
  <2>1. SUFFICES ASSUME NEW b \in Block, NEW c \in Block, bpc[b] = "boundary", bpc[c] = "exit",
                        ~ (entered[c] >= entered[b])
                 PROVE  FALSE
    BY DEF NoStrandedBlock
  <2>2. Bell /\ Errors /\ Lockstep /\ ShapeOf(b) /\ ShapeOf(c) /\ Types /\ Len(program) \in Nat
    BY <1>1, ProgramSeq DEF IInv, Shape
  <2>3. /\ left[b] \in Nat /\ left[c] \in Nat /\ ip[b] \in Nat \ {0} /\ ip[c] \in Nat \ {0}
        /\ ip[b] <= Len(program) + 1 /\ ip[c] <= Len(program) + 1
    BY <2>2, PlaceType
  <2>4. bpass[b] \in Nat \ {0} /\ bpass[c] \in Nat \ {0} /\ bpass[0] \in Nat
    <3>1. MaxPass \in Nat /\ 0 \in Block
      BY BlockZero, ProtocolAssumption DEF HALT
    <3>2. QED
      BY <2>2, <3>1 DEF Types, GridTypes
  <2>5. left[c] < left[b] + 1
    BY <2>1, <2>2, <2>3 DEF ShapeOf
  <2>6. Level(b, c)
    BY <2>1, <2>2, <2>3, <2>5 DEF Lockstep, Pair, Beyond
  <2>7. P(b) = bpass[b] /\ I(b) = ip[b] /\ P(c) = bpass[b]
    BY <2>1, <2>6 DEF P, I, Ready, AfterEpilogue, Level
  <2>8. CASE ip[c] <= Len(program) /\ program[ip[c]].kind \notin Wired
    <3>1. I(c) = ip[c]
      BY <2>1, <2>3, <2>8 DEF I, Ready, AfterEpilogue
    <3>2. ip[b] <= ip[c]
      BY <2>2, <2>3, <2>8 DEF Errors
    <3>3. program[ip[b]].kind = "BOUNDARY" /\ ip[b] <= Len(program)
      BY <2>1, <2>2, <2>3, <2>8, <3>2 DEF ShapeOf
    <3>4. ip[b] < ip[c]
      <4>1. "BOUNDARY" \in Wired
        BY DEF Wired
      <4>2. ip[b] # ip[c]
        BY <2>8, <3>3, <4>1
      <4>3. QED
        BY <2>3, <3>2, <4>2
    <3>5. Clear(ip[b], ip[c])
      BY <2>6, <2>7, <3>1 DEF Level
    <3>6. ip[b] \in 1 .. Len(program)
      BY <2>2, <2>3, <3>3
    <3>7. QED
      BY <3>3, <3>4, <3>5, <3>6 DEF Clear
  <2>9. CASE ip[c] = Len(program) + 1 /\ Len(program) # 0 /\ errDev # ERR_NONE
    <3>1. P(c) = bpass[c] + 1
      BY <2>1, <2>2, <2>9 DEF P, AfterEpilogue
    <3>2. bpass[b] >= 2
      BY <2>4, <2>7, <3>1
    <3>3. QED
      BY <2>2, <2>9, <3>2 DEF Errors
  <2>10. CASE ip[c] = 1 /\ doorbellDev = HALT
    <3>1. ~ (ip[c] > Len(program) /\ Len(program) # 0)
      BY <2>2, <2>10
    <3>2. P(c) = bpass[c]
      BY <2>1, <3>1 DEF P, AfterEpilogue
    <3>3. bpass[c] = bpass[0] /\ bpass[b] = bpass[0] - 1
      BY <2>1, <2>2, <2>10 DEF Bell
    <3>4. bpass[b] = bpass[c]
      BY <2>7, <3>2
    <3>5. QED
      BY <2>4, <3>3, <3>4
  <2>11. QED
    BY <2>1, <2>2, <2>8, <2>9, <2>10 DEF ShapeOf
<1>2. QED
  BY Invariant, <1>1, PTL

\* Buffers are freed only under a grid that has exited (host.cpp:197-205).
THEOREM FreedAfterExit == Spec => []FreedOnlyAfterExit
<1>1. ASSUME IInv
      PROVE  FreedOnlyAfterExit
  BY <1>1 DEF IInv, Life, FreedOnlyAfterExit
<1>2. QED
  BY Invariant, <1>1, PTL

\* The done cell never names a pass of a program with an error in it (interp.cuh:34).
THEOREM NoErroredPassDone == Spec => []ErroredPassNeverDone
<1>1. ASSUME IInv
      PROVE  ErroredPassNeverDone
  <2>1. Errors /\ Host /\ GridTypes /\ 0 \in Block /\ MaxPass \in Nat
    BY <1>1, BlockZero, ProtocolAssumption DEF IInv, Types, HALT
  <2>2. done = bpass[0] - 1 /\ bpass[0] \in 1 .. MaxPass + 1
    BY <2>1 DEF Host, GridTypes
  <2>3. done # 0 => ErrFree
    BY <2>1, <2>2 DEF Errors
  <2>4. QED
    BY <2>1, <2>3 DEF ErroredPassNeverDone, ErrFree, Errs
<1>2. QED
  BY Invariant, <1>1, PTL

\* After RUN_OK the ring holds the last passes, the newest at (pass-1) % cap.
THEOREM RingIsLastPasses == Spec => []RingHoldsLastPasses
<1>1. ASSUME IInv
      PROVE  RingHoldsLastPasses
  <2>1. SUFFICES ASSUME hpc = "idle", status = "OK", NEW k \in 0 .. RingCap-1, k < hpass
                 PROVE  passCycles[(hpass - 1 - k) % RingCap] = hpass - k
    BY DEF RingHoldsLastPasses
  <2>2. Host /\ Ring /\ CellTypes /\ RingCap \in Nat \ {0} /\ MaxPass \in Nat
    BY <1>1, ProtocolAssumption DEF IInv, Types, HALT
  <2>3. hpass = done /\ done \in Nat
    BY <2>1, <2>2 DEF Host, CellTypes
  <2>4. hpass - k \in 1 .. done /\ hpass - k > done - RingCap
        /\ (hpass - k) - 1 = hpass - 1 - k
    BY <2>1, <2>2, <2>3
  <2>5. QED
    BY <2>2, <2>4 DEF Ring
<1>2. QED
  BY Invariant, <1>1, PTL

-----------------------------------------------------------------------------
(***************************************************************************)
(* What the doorbell protocol promises its caller, for the programs of     *)
(* which it can be promised: the error report of a program that goes wrong *)
(* at one instruction, and the refinement of PassService by a kernel whose *)
(* error-free programs read their token.                                   *)
(***************************************************************************)

\* Block b raises an error, or returns, at an instruction.
Faults(in, b) == in.kind \notin Wired \/ (Raises(in) /\ InRange(b, in))

\* Every program goes wrong at one instruction, if at all.
OneFault ==
  \A q \in Programs : \A i, j \in 1 .. Len(q), b, c \in Block :
    Faults(q[i], b) /\ Faults(q[j], c) => i = j

\* Every program reads the token on some block, or goes wrong.
ReadsToken ==
  \A q \in Programs :
    \E i \in 1 .. Len(q), b \in Block :
      Faults(q[i], b) \/ (q[i].kind = "EMBED_LOOKUP" /\ InRange(b, q[i]))

-----------------------------------------------------------------------------
(***************************************************************************)
(* The error report.                                                       *)
(***************************************************************************)

\* Of a program with one faulty instruction, the cells say nothing or that one.
Reports ==
  \A i \in 1 .. Len(program), b \in Block : Errs(i, b) =>
    /\ errHost.code # ERR_NONE => errHost.code = ErrAt(i) /\ errHost.aux = i
    /\ (\E c \in Block : bpc[c] \in {"raiseCode", "raiseDev"}) => errHost.aux = i
    /\ status = "ERR" => report.code = ErrAt(i) /\ report.aux = i
    /\ hpc = "readAux" => report.code = ErrAt(i)

\* The faulty instruction of the uploaded program is the only one.
LEMMA FaultUnique ==
  ASSUME OneFault, Types, NEW i \in 1 .. Len(program), NEW j \in 1 .. Len(program),
         NEW b \in Block, NEW c \in Block, Errs(i, b), Errs(j, c)
  PROVE  i = j
<1>1. Len(<<>>) = 0
  OBVIOUS
<1>2. program # <<>>
  BY <1>1
<1>3. program \in Programs
  BY <1>2 DEF Types, CellTypes
<1>4. QED
  BY <1>3 DEF OneFault, Errs, Faults

\* A block raises the fault it is at and no other.
LEMMA BlockReports ==
  ASSUME OneFault, IInv, Reports, NEW b \in Block, BlockStep(b)
  PROVE  Reports'
<1>1. Types /\ CellTypes /\ GridTypes /\ ShapeOf(b) /\ Len(program) \in Nat
  BY ProgramSeq DEF IInv, Types, Shape
<1>2. program' = program /\ UNCHANGED <<hpc, status, report>>
      /\ \A c \in Block : c # b => bpc'[c] = bpc[c]
  BY BlockFrame DEF host
<1>3. SUFFICES ASSUME NEW i \in 1 .. Len(program), NEW c \in Block, Errs(i, c)
               PROVE  /\ errHost'.code # ERR_NONE => errHost'.code = ErrAt(i) /\ errHost'.aux = i
                      /\ (\E d \in Block : bpc'[d] \in {"raiseCode", "raiseDev"}) =>
                           errHost'.aux = i
                      /\ status = "ERR" => report.code = ErrAt(i) /\ report.aux = i
                      /\ hpc = "readAux" => report.code = ErrAt(i)
  BY <1>2 DEF Reports, Errs, ErrAt
<1>4. /\ errHost.code # ERR_NONE => errHost.code = ErrAt(i) /\ errHost.aux = i
      /\ (\E d \in Block : bpc[d] \in {"raiseCode", "raiseDev"}) => errHost.aux = i
      /\ status = "ERR" => report.code = ErrAt(i) /\ report.aux = i
      /\ hpc = "readAux" => report.code = ErrAt(i)
  BY <1>3 DEF Reports
<1>5. bpc[b] \in {"raiseAux", "raiseCode", "raiseDev"} => ip[b] = i
  <2>1. ip[b] \in 1 .. Len(program) + 1
    BY <1>1 DEF GridTypes
  <2>2. ASSUME bpc[b] \in {"raiseAux", "raiseCode", "raiseDev"}
        PROVE  ip[b] = i
    <3>1. ip[b] \in 1 .. Len(program) /\ Errs(ip[b], b)
      BY <1>1, <2>1, <2>2 DEF ShapeOf
    <3>2. QED
      BY <1>1, <1>3, <3>1, FaultUnique
  <2>3. QED
    BY <2>2
<1>6. CASE RaiseAux(b)
  BY <1>1, <1>4, <1>5, <1>6 DEF RaiseAux, CellTypes
<1>7. CASE RaiseCode(b)
  <2>1. bpc[b] = "raiseCode" /\ errHost'.code = ErrAt(i) /\ errHost'.aux = errHost.aux
    BY <1>1, <1>5, <1>7 DEF RaiseCode, CellTypes
  <2>2. QED
    BY <1>4, <2>1
<1>8. CASE ~ RaiseAux(b) /\ ~ RaiseCode(b)
  <2>1. errHost' = errHost
    BY <1>8 DEF BlockStep, PollDoorbell, ForwardDoorbell, SpinDoorbell, EnterBoundary,
                LeaveBoundary, BadInstr, Dispatch, RaiseDev, Epilogue, cells
  <2>2. bpc'[b] \notin {"raiseCode", "raiseDev"}
    BY <1>1, <1>8 DEF BlockStep, PollDoorbell, ForwardDoorbell, SpinDoorbell, EnterBoundary,
                LeaveBoundary, BadInstr, Dispatch, RaiseDev, Epilogue, AtInstr, Goto, GridTypes
  <2>3. QED
    BY <1>2, <1>4, <2>1, <2>2
<1>9. QED
  BY <1>6, <1>7, <1>8

\* The host reads the aux once it has seen a code.
LEMMA HostReports ==
  ASSUME IInv, Reports, HostStep
  PROVE  Reports'
<1>1. Life /\ Host /\ HostTypes
  BY DEF IInv, Types
<1>2. CASE Upload
  <2>1. status' = "NONE" /\ errHost'.code = ERR_NONE /\ hpc' = "uploaded"
        /\ \A b \in Block : bpc'[b] = "off"
    BY <1>1, <1>2 DEF Upload, Life, grid
  <2>2. QED
    BY <2>1 DEF Reports
<1>3. CASE Launch
  BY <1>3 DEF Launch, Reports, Errs, ErrAt, cells
<1>4. CASE ~ Upload /\ ~ Launch
  <2>1. program' = program /\ bpc' = bpc /\ errHost' = errHost
    BY <1>4, HostFrame
  <2>2. CASE RunPass \/ PollErr
    <3>1. \/ /\ errHost.code # ERR_NONE /\ hpc' = "readAux"
             /\ report'.code = errHost.code /\ report'.aux = report.aux
          \/ hpc' # "readAux" /\ report' = report
      BY <1>1, <2>2 DEF RunPass, PollErr, ReportCode, HostTypes
    <3>2. status' = status
      BY <2>2 DEF RunPass, PollErr
    <3>3. QED
      BY <2>1, <3>1, <3>2 DEF Reports, Errs, ErrAt
  <2>3. CASE ReadAux
    <3>1. /\ hpc = "readAux" /\ hpc' # "readAux" /\ errHost.code # ERR_NONE
          /\ report'.code = report.code /\ report'.aux = errHost.aux
      BY <1>1, <2>3 DEF ReadAux, Return, Host, HostTypes
    <3>2. QED
      BY <2>1, <3>1 DEF Reports, Errs, ErrAt
  <2>4. CASE ~ RunPass /\ ~ PollErr /\ ~ ReadAux
    <3>1. UNCHANGED report /\ (status' = "ERR" => status = "ERR") /\ hpc' # "readAux"
      BY <1>4, <2>4 DEF HostStep, HostWaits, Shutdown, CopyToken, RingDoorbell, PollDone,
                        AwaitExit, Destroy, Return
    <3>2. QED
      BY <2>1, <3>1 DEF Reports, Errs, ErrAt
  <2>5. QED
    BY <2>2, <2>3, <2>4
<1>5. QED
  BY <1>2, <1>3, <1>4

\* What the host reports of an error is a raised pair, for programs that go wrong at
\* one instruction (interp.cu:24-28, the order of the two stores).
THEOREM ErrorsReported == OneFault => (Spec => []ReportIsRaised)
<1> SUFFICES ASSUME OneFault
             PROVE  Spec => []ReportIsRaised
  OBVIOUS
<1>1. Init => Reports
  <2>1. Len(<<>>) = 0
    OBVIOUS
  <2>2. QED
    BY <2>1 DEF Init, Reports
<1>2. ASSUME IInv, Reports, [Next]_vars
      PROVE  Reports'
  <2>1. CASE UNCHANGED vars
    BY <1>2, <2>1 DEF Reports, Errs, ErrAt, vars, cells, grid, host
  <2>2. QED
    BY <1>2, <2>1, BlockReports, HostReports DEF Next, Terminated
<1>3. ASSUME IInv, Reports
      PROVE  ReportIsRaised
  <2>1. SUFFICES ASSUME status = "ERR"
                 PROVE  report.code # ERR_NONE /\ report.aux \in 1 .. Len(program)
                        /\ report.code = ErrAt(report.aux)
    BY DEF ReportIsRaised
  <2>2. ~ ErrFree
    BY <1>3, <2>1 DEF IInv, Host, Errors
  <2>3. PICK i \in 1 .. Len(program), b \in Block : Errs(i, b)
    BY <2>2 DEF ErrFree
  <2>4. report.code = ErrAt(i) /\ report.aux = i
    BY <1>3, <2>1, <2>3 DEF Reports
  <2>5. QED
    BY <2>3, <2>4, ErrAtCodes DEF ERR_NONE
<1>4. QED
  BY <1>1, <1>2, <1>3, Invariant, PTL DEF Spec

-----------------------------------------------------------------------------
(***************************************************************************)
(* The refinement of PassService.                                          *)
(***************************************************************************)

\* Block 0 has taken up the pass it was told of.
Running == ~ Ready(0) /\ doorbellDev # HALT

\* The pass of block 0 is past instruction i on block c.
Behind(c, i) == P(c) > bpass[0] \/ (P(c) = bpass[0] /\ i < I(c))

Embeds(c, i) == program[i].kind = "EMBED_LOOKUP" /\ InRange(c, program[i])

\* What has been issued, and what the pass in flight knows of it.
Requested ==
  /\ Len(issued) \in {done, done + 1}
  /\ doorbellHost # HALT => Len(issued) = doorbellHost
  /\ doorbellHost = done + 1 /\ doorbellHost # HALT => issued[done + 1] = token
  /\ Served => Len(issued) = bpass[0] /\ issued[bpass[0]] = token

\* What the blocks have read of it.
Answered ==
  /\ \A p \in 1 .. done : embedded[p] = {issued[p]}
  /\ \A p \in 1 .. MaxPass : p > done /\ ~ (Running /\ p = bpass[0]) => embedded[p] = {}
  /\ Running =>
       /\ embedded[bpass[0]] \subseteq {token}
       /\ \A c \in Block : \A i \in 1 .. Len(program) :
            Embeds(c, i) /\ Behind(c, i) => embedded[bpass[0]] # {}

\* A block at an instruction is in the pass block 0 was told of.
LEMMA InstrNow ==
  ASSUME IInv, NEW b \in Block, bpc[b] = "instr"
  PROVE  Running /\ Served /\ bpass[b] = bpass[0] /\ done + 1 = bpass[0]
         /\ bpass[0] \in 1 .. MaxPass
<1>1. Bell /\ Lockstep /\ Types /\ Life /\ Host
  BY DEF IInv
<1>2. 0 \in Block /\ MaxPass \in Nat /\ HALT \in Nat
  BY BlockZero, ProtocolAssumption DEF HALT
<1>3. bpass[b] \in 1 .. MaxPass + 1 /\ bpass[0] \in 1 .. MaxPass + 1 /\ hpass \in 0 .. MaxPass
      /\ done \in 0 .. MaxPass
  BY <1>1, <1>2 DEF Types, GridTypes, HostTypes, CellTypes
<1>4. doorbellDev # HALT
  BY <1>1 DEF Bell
<1>5. ~ Ready(0)
  <2>1. bpc[0] = "off" => bpc[b] = "off"
    BY <1>1, <1>2 DEF Life
  <2>2. QED
    BY <2>1, AtTheTop
<1>6. doorbellDev = bpass[0] /\ bpass[b] <= doorbellDev
  BY <1>1, <1>4, <1>5 DEF Bell, Ready
<1>7. P(b) = bpass[b] /\ P(0) \in {bpass[0], bpass[0] + 1}
  BY DEF P, AfterEpilogue
<1>8. bpass[b] = bpass[0]
  <2>1. CASE Level(b, 0)
    BY <1>3, <1>6, <1>7, <2>1 DEF Level
  <2>2. CASE Beyond(0, b)
    <3>1. P(0) = bpass[0]
      BY <2>2 DEF Beyond, P, AfterEpilogue
    <3>2. P(b) = P(0) \/ P(b) = P(0) + 1
      BY <2>2 DEF Beyond
    <3>3. QED
      BY <1>3, <1>6, <1>7, <3>1, <3>2
  <2>3. CASE Beyond(b, 0)
    BY <2>3 DEF Beyond
  <2>4. QED
    BY <1>1, <1>2, <2>1, <2>2, <2>3 DEF Lockstep, Pair
<1>9. Served
  BY <1>4, <1>5 DEF Served, Ready
<1>10. hpass = bpass[0] /\ done = bpass[0] - 1
  BY <1>1, <1>9 DEF Host
<1>11. QED
  BY <1>3, <1>4, <1>5, <1>8, <1>9, <1>10 DEF Running

\* The request cells, when a block steps.
LEMMA BlockRequested ==
  ASSUME IInv, Requested, NEW b \in Block, BlockStep(b)
  PROVE  Requested'
<1>1. Host /\ CellTypes /\ GridTypes /\ 0 \in Block /\ MaxPass \in Nat /\ HALT \in Nat
      /\ MaxPass < HALT /\ HostTypes
  BY BlockZero, ProtocolAssumption DEF IInv, Types, HALT
<1>2. done \in Nat /\ bpass[0] \in Nat \ {0} /\ hpass \in 0 .. MaxPass
  BY <1>1 DEF CellTypes, GridTypes, HostTypes
<1>3. done = bpass[0] - 1
  BY <1>1 DEF Host
<1>4. UNCHANGED <<doorbellHost, issued, token>>
  <2>1. UNCHANGED <<issued, token>>
    BY DEF BlockStep, PollDoorbell, ForwardDoorbell, SpinDoorbell, EnterBoundary, LeaveBoundary,
           BadInstr, Dispatch, RaiseAux, RaiseCode, RaiseDev, Epilogue, cells, history
  <2>2. QED
    BY <2>1, BlockFrame
<1>5. CASE done' = done /\ bpass'[0] = bpass[0]
  <2>1. CASE Served' => Served
    BY <1>4, <1>5, <2>1 DEF Requested
  <2>2. CASE bpc[0] = "bell" /\ doorbellHost = bpass[0] /\ doorbellHost # HALT
    <3>1. Len(issued) = bpass[0] /\ issued[bpass[0]] = token
      BY <1>2, <1>3, <2>2 DEF Requested
    <3>2. QED
      BY <1>4, <1>5, <3>1 DEF Requested
  <2>3. QED
    BY <2>1, <2>2, ServedStep
<1>6. CASE done' = bpass[0] /\ bpass'[0] = bpass[0] + 1 /\ Served /\ bpc'[0] = "bell"
  <2>1. Len(issued) = bpass[0] /\ hpass = bpass[0] /\ doorbellHost \in {bpass[0], HALT}
    BY <1>1, <1>6 DEF Requested, Host
  <2>2. ~ Served'
    BY <1>6 DEF Served
  <2>3. doorbellHost = bpass[0] + 1 => doorbellHost = HALT
    BY <1>2, <2>1
  <2>4. QED
    BY <1>2, <1>4, <1>6, <2>1, <2>2, <2>3 DEF Requested
<1>7. QED
  BY <1>5, <1>6, CellStep

\* ... and when the host does.
LEMMA HostRequested ==
  ASSUME IInv, Requested, HostStep
  PROVE  Requested'
<1>1. Host /\ CellTypes /\ GridTypes /\ Life /\ HistoryTypes /\ HostTypes
      /\ 0 \in Block /\ MaxPass \in Nat /\ HALT \in Nat /\ MaxPass < HALT
  BY BlockZero, ProtocolAssumption DEF IInv, Types, HALT
<1>2. done \in Nat /\ bpass[0] \in Nat \ {0} /\ hpass \in 0 .. MaxPass
  BY <1>1 DEF CellTypes, GridTypes, HostTypes
<1>3. done = bpass[0] - 1 /\ UNCHANGED <<done, bpass, saw, doorbellDev>>
  BY <1>1, HostFrame DEF Host
<1>4. CASE Upload \/ Launch
  <2>1. UNCHANGED <<doorbellHost, issued, token>> /\ bpc'[0] \in {"off", "bell"}
    BY <1>1, <1>4 DEF Upload, Launch, cells, grid, history, Life
  <2>2. QED
    BY <1>3, <2>1 DEF Requested, Served
<1>5. CASE ~ Upload /\ ~ Launch
  <2>1. Served' <=> Served
    BY <1>3, <1>5, HostFrame DEF Served
  <2>2. CASE RingDoorbell
    <3>1. hpass = done + 1 /\ doorbellHost = done /\ Len(issued) = done /\ ~ Served
          /\ doorbellHost' = done + 1 /\ issued' = Append(issued, token) /\ token' = token
      BY <1>1, <1>2, <1>3, <2>2 DEF RingDoorbell, Host, Requested
    <3>2. Len(issued') = done + 1 /\ issued'[done + 1] = token
      BY <1>1, <1>2, <3>1 DEF HistoryTypes, CellTypes
    <3>3. QED
      BY <1>3, <2>1, <3>1, <3>2 DEF Requested
  <2>3. CASE Shutdown
    BY <1>3, <2>1, <2>3 DEF Shutdown, Requested, history
  <2>4. CASE CopyToken
    <3>1. doorbellHost = done /\ ~ Served /\ UNCHANGED <<doorbellHost, issued>>
      BY <1>1, <1>2, <1>3, <2>4 DEF CopyToken, Host, history
    <3>2. QED
      BY <1>2, <1>3, <2>1, <3>1 DEF Requested
  <2>5. CASE ~ RingDoorbell /\ ~ Shutdown /\ ~ CopyToken
    <3>1. UNCHANGED <<doorbellHost, issued, token>>
      BY <1>5, <2>5 DEF HostStep, HostWaits, RunPass, PollErr, ReadAux, ReportCode,
                        PollDone, AwaitExit, Destroy, cells, history
    <3>2. QED
      BY <1>3, <2>1, <3>1 DEF Requested
  <2>6. QED
    BY <2>2, <2>3, <2>4, <2>5
<1>6. QED
  BY <1>4, <1>5

\* A block's step puts one instruction behind it at most, an EMBED_LOOKUP only by
\* dispatching it.
LEMMA BehindNext ==
  ASSUME IInv, NEW b \in Block, BlockStep(b), bpass'[0] = bpass[0],
         NEW i \in 1 .. Len(program), Embeds(b, i), Behind(b, i)', ~ Behind(b, i)
  PROVE  Dispatch(b) /\ i = ip[b] /\ ip[b] <= Len(program)
<1>1. Types /\ GridTypes /\ program' = program /\ Len(program) \in Nat /\ ShapeOf(b)
      /\ 0 \in Block
  BY BlockFrame, ProgramSeq, BlockZero DEF IInv, Types, Shape
<1>2. P(b) \in Nat /\ I(b) \in Nat /\ ip[b] \in Nat /\ bpass[0] \in Nat
      /\ ip[b] <= Len(program) + 1
  <2>1. MaxPass \in Nat
    BY ProtocolAssumption DEF HALT
  <2>2. bpass[0] \in Nat
    BY <1>1, <2>1 DEF GridTypes
  <2>3. QED
    BY <1>1, <2>2, PlaceType
<1>3. CASE LeaveBoundary(b)
  <2>1. bpc[b] = "boundary" /\ P(b) = bpass[b] /\ I(b) = ip[b]
    BY <1>3 DEF LeaveBoundary, P, I, Ready, AfterEpilogue
  <2>2. IF ip[b] <= Len(program)
        THEN P(b)' = P(b) /\ I(b)' = ip[b] + 1
        ELSE P(b)' = P(b) + 1 /\ I(b)' = 1
    BY <1>1, <1>3, <2>1 DEF LeaveBoundary, Goto, GridTypes, I, P, Ready, AfterEpilogue
  <2>3. ip[b] <= Len(program) => program[ip[b]].kind = "BOUNDARY"
    BY <1>1, <1>2, <2>1 DEF ShapeOf
  <2>4. CASE ip[b] <= Len(program)
    <3>1. i = ip[b]
      BY <1>2, <2>1, <2>2, <2>4 DEF Behind
    <3>2. QED
      BY <2>3, <2>4, <3>1 DEF Embeds
  <2>5. CASE ~ (ip[b] <= Len(program))
    <3>1. i < I(b)
      BY <1>1, <1>2, <2>1, <2>5
    <3>2. P(b) + 1 > bpass[0] \/ P(b) + 1 = bpass[0]
      BY <2>2, <2>5 DEF Behind
    <3>3. QED
      BY <1>2, <2>2, <2>5, <3>1, <3>2 DEF Behind
  <2>6. QED
    BY <2>4, <2>5
<1>4. CASE ~ LeaveBoundary(b)
  <2>1. P(b)' = P(b) /\ I(b)' = I(b) + 1 /\ I(b) = ip[b] /\ ip[b] <= Len(program)
        /\ (Dispatch(b) \/ program[ip[b]].kind # "EMBED_LOOKUP")
    BY <1>4, PlaceStep DEF Behind
  <2>2. i = ip[b]
    BY <1>2, <2>1 DEF Behind
  <2>3. QED
    BY <2>1, <2>2 DEF Embeds
<1>5. QED
  BY <1>3, <1>4

\* Only a dispatch reads the token, and only for the pass in flight.
LEMMA ReadsNow ==
  ASSUME IInv, NEW b \in Block, BlockStep(b)
  PROVE  \/ UNCHANGED embedded
         \/ /\ Dispatch(b) /\ Running /\ Served /\ done + 1 = bpass[0]
            /\ bpass[0] \in 1 .. MaxPass
            /\ embedded' = [embedded EXCEPT ![bpass[0]] = embedded[bpass[0]] \cup {token}]
<1>1. CASE Dispatch(b)
  <2>1. Running /\ Served /\ bpass[b] = bpass[0] /\ done + 1 = bpass[0]
        /\ bpass[0] \in 1 .. MaxPass
    BY <1>1, InstrNow DEF Dispatch, AtInstr
  <2>2. QED
    BY <1>1, <2>1 DEF Dispatch
<1>2. CASE ~ Dispatch(b)
  BY <1>2 DEF BlockStep, PollDoorbell, ForwardDoorbell, SpinDoorbell, EnterBoundary,
              LeaveBoundary, BadInstr, RaiseAux, RaiseCode, RaiseDev, Epilogue, history
<1>3. QED
  BY <1>1, <1>2

\* When block 0 publishes a pass, some block has read its token, and no other token.
LEMMA PublishedIsRead ==
  ASSUME ReadsToken, IInv, Requested, Answered, bpc[0] = "epilogue", errDev = ERR_NONE
  PROVE  embedded[bpass[0]] = {issued[bpass[0]]}
<1>1. ErrFree /\ 0 \in Block
  BY BlockZero, EpilogueErrFree
<1>2. Types /\ Lockstep /\ Bell /\ Len(program) \in Nat
  BY ProgramSeq DEF IInv
<1>3. Running /\ Served
  BY <1>2 DEF Running, Served, Ready, Bell
<1>4. embedded[bpass[0]] \subseteq {issued[bpass[0]]}
  BY <1>3 DEF Requested, Answered
<1>5. P(0) = bpass[0] + 1 /\ I(0) = 1 /\ bpass[0] \in Nat \ {0}
  <2>1. MaxPass \in Nat
    BY ProtocolAssumption DEF HALT
  <2>2. bpass[0] \in Nat \ {0}
    BY <1>1, <1>2, <2>1 DEF Types, GridTypes
  <2>3. QED
    BY <2>2 DEF P, I, AfterEpilogue
<1>6. program \in Programs
  BY <1>1 DEF IInv, Life
<1>7. PICK i \in 1 .. Len(program), c \in Block : Embeds(c, i)
  BY <1>1, <1>6 DEF ReadsToken, Faults, Embeds, ErrFree, Errs
<1>8. Behind(c, i)
  <2>1. P(c) \in Nat /\ I(c) \in Nat /\ ip[c] \in Nat \ {0}
        /\ ip[c] <= Len(program) + 1
    BY <1>2, PlaceType
  <2>2. CASE Level(0, c)
    BY <1>5, <2>1, <2>2 DEF Level, Behind
  <2>3. CASE Beyond(c, 0)
    <3>1. I(c) = ip[c] /\ ~ (ip[c] <= Len(program)) /\ P(c) = bpass[0]
      BY <1>5, <2>1, <2>3 DEF Beyond, I, Ready, AfterEpilogue
    <3>2. QED
      BY <1>2, <2>1, <3>1 DEF Behind
  <2>4. CASE Beyond(0, c)
    BY <2>4 DEF Beyond
  <2>5. QED
    BY <1>1, <1>2, <2>2, <2>3, <2>4 DEF Lockstep, Pair
<1>9. embedded[bpass[0]] # {}
  BY <1>3, <1>7, <1>8 DEF Answered
<1>10. QED
  BY <1>4, <1>9

\* While block 0 is at the top of a pass, nothing of that pass is behind anyone.
LEMMA TopNoneBehind ==
  ASSUME IInv, Ready(0), bpc[0] # "off", NEW c \in Block, NEW i \in 1 .. Len(program)
  PROVE  ~ Behind(c, i)
<1>1. bpass[0] \in Nat /\ Len(program) \in Nat /\ ip[c] \in Nat /\ bpass[c] \in Nat
  <2>1. MaxPass \in Nat /\ Types /\ 0 \in Block
    BY BlockZero, ProtocolAssumption DEF HALT, IInv
  <2>2. bpass[0] \in Nat /\ bpass[c] \in Nat
    BY <2>1 DEF Types, GridTypes
  <2>3. QED
    BY <2>1, <2>2, PlaceType
<1>2. CASE bpass[c] = bpass[0] /\ bpc[c] \in {"bell", "forward"}
  <2>1. P(c) = bpass[0] /\ I(c) = 1
    BY <1>2 DEF P, I, Ready, AfterEpilogue
  <2>2. QED
    BY <1>1, <2>1 DEF Behind
<1>3. CASE bpass[c] = bpass[0] - 1 /\ bpc[c] = "boundary"
  <2>1. P(c) = bpass[0] - 1
    BY <1>3 DEF P, AfterEpilogue
  <2>2. QED
    BY <1>1, <2>1 DEF Behind
<1>4. CASE bpass[c] = bpass[0] - 1 /\ bpc[c] = "epilogue"
  <2>1. P(c) = bpass[0] /\ I(c) = 1
    BY <1>1, <1>4 DEF P, I, AfterEpilogue
  <2>2. QED
    BY <1>1, <2>1 DEF Behind
<1>5. QED
  BY <1>2, <1>3, <1>4, AtTheTop

\* Block 0 publishes a pass from the epilogue of a pass without error.
LEMMA Publishes ==
  ASSUME IInv, NEW b \in Block, BlockStep(b), done' = bpass[0], bpass'[0] = bpass[0] + 1,
         bpass[0] \in Nat \ {0}, done = bpass[0] - 1
  PROVE  b = 0 /\ Epilogue(b) /\ errDev = ERR_NONE /\ bpc[0] = "epilogue" /\ UNCHANGED embedded
<1>1. b = 0
  BY BlockZero, BlockFrame
<1>2. Epilogue(b)
  BY <1>1 DEF BlockStep, PollDoorbell, ForwardDoorbell, SpinDoorbell, EnterBoundary,
       LeaveBoundary, BadInstr, Dispatch, RaiseAux, RaiseCode, RaiseDev
<1>3. QED
  BY <1>1, <1>2 DEF Epilogue, history

\* No step of a block issues a request, replaces the token or patches the program.
LEMMA BlockKeepsRequests ==
  ASSUME NEW b \in Block, BlockStep(b)
  PROVE  issued' = issued /\ token' = token /\ program' = program
<1>1. CASE b = 0 /\ PollDoorbell
  BY <1>1 DEF PollDoorbell, cells, history
<1>2. CASE b = 0 /\ ForwardDoorbell
  BY <1>2 DEF ForwardDoorbell, cells, history
<1>3. CASE SpinDoorbell(b)
  BY <1>3 DEF SpinDoorbell, cells, history
<1>4. CASE EnterBoundary(b)
  BY <1>4 DEF EnterBoundary, cells, history
<1>5. CASE LeaveBoundary(b)
  BY <1>5 DEF LeaveBoundary, cells, history
<1>6. CASE BadInstr(b)
  BY <1>6 DEF BadInstr, cells, history
<1>7. CASE Dispatch(b)
  BY <1>7 DEF Dispatch, cells, history
<1>8. CASE RaiseAux(b)
  BY <1>8 DEF RaiseAux, cells, history
<1>9. CASE RaiseCode(b)
  BY <1>9 DEF RaiseCode, cells, history
<1>10. CASE RaiseDev(b)
  BY <1>10 DEF RaiseDev, cells, history
<1>11. CASE Epilogue(b)
  BY <1>11 DEF Epilogue, cells, history
<1> QED
  BY <1>1, <1>2, <1>3, <1>4, <1>5, <1>6, <1>7, <1>8, <1>9, <1>10, <1>11 DEF BlockStep

\* The answers, when a block steps.
LEMMA BlockAnswered ==
  ASSUME ReadsToken, IInv, Requested, Answered, NEW b \in Block, BlockStep(b)
  PROVE  Answered'
<1>1. Types /\ HistoryTypes /\ CellTypes /\ GridTypes /\ Host /\ Bell /\ 0 \in Block
      /\ MaxPass \in Nat /\ HALT \in Nat /\ Len(program) \in Nat
  BY BlockZero, ProtocolAssumption, ProgramSeq DEF IInv, Types, HALT
<1>2. bpass[0] \in Nat \ {0} /\ done = bpass[0] - 1 /\ done \in 0 .. MaxPass
  <2>1. bpass \in [Block -> 1 .. MaxPass + 1]
    BY <1>1 DEF GridTypes
  <2>2. done = bpass[0] - 1
    BY <1>1 DEF Host
  <2>3. done \in 0 .. MaxPass
    BY <1>1 DEF CellTypes
  <2> QED
    BY <1>1, <2>1, <2>2, <2>3
<1>3. issued' = issued /\ token' = token /\ program' = program
  BY BlockKeepsRequests
<1>4. CASE done' = bpass[0] /\ bpass'[0] = bpass[0] + 1 /\ Served /\ bpc'[0] = "bell"
  <2>1. b = 0 /\ Epilogue(b) /\ errDev = ERR_NONE /\ bpc[0] = "epilogue" /\ UNCHANGED embedded
    BY <1>2, <1>4, Publishes
  <2>2. embedded[bpass[0]] = {issued[bpass[0]]}
    BY <2>1, PublishedIsRead
  <2>3. ~ Running'
    BY <1>4 DEF Running, Ready
  <2>4. \A p \in 1 .. done' : embedded[p] = {issued[p]}
    <3>1. ASSUME NEW p \in 1 .. done'
          PROVE  p \in 1 .. done \/ p = bpass[0]
      BY <1>2, <1>4
    <3>2. QED
      BY <2>2, <3>1 DEF Answered
  <2>5. \A p \in 1 .. MaxPass : p > done' => embedded[p] = {}
    BY <1>2, <1>4 DEF Answered
  <2>6. QED
    BY <1>3, <2>1, <2>3, <2>4, <2>5 DEF Answered
<1>5. CASE done' = done /\ bpass'[0] = bpass[0]
  <2>1. \A c \in Block, i \in 1 .. Len(program) :
          Embeds(c, i) /\ Behind(c, i)' => Behind(c, i) \/ (c = b /\ Dispatch(b) /\ i = ip[b])
    <3>1. SUFFICES ASSUME NEW c \in Block, NEW i \in 1 .. Len(program),
                          Embeds(c, i), Behind(c, i)', ~ Behind(c, i)
                   PROVE  c = b /\ Dispatch(b) /\ i = ip[b]
      OBVIOUS
    <3>2. c = b
      BY <1>5, <3>1, PlaceFrame DEF Behind
    <3>3. QED
      BY <1>5, <3>1, <3>2, BehindNext
  <2>2. CASE b = 0 /\ ForwardDoorbell
    <3>1. UNCHANGED embedded /\ ~ Running /\ ~ Dispatch(b) /\ bpc[0] = "forward" /\ Ready(0)
          /\ doorbellDev' = saw /\ (saw # HALT => Served)
      BY <1>1, <2>2 DEF ForwardDoorbell, Dispatch, AtInstr, Running, Ready, Served, Bell, history
    <3>2. \A c \in Block, i \in 1 .. Len(program) : ~ (Embeds(c, i) /\ Behind(c, i)')
      BY <2>1, <3>1, TopNoneBehind
    <3>3. ASSUME Running'
          PROVE  embedded[bpass[0]] = {}
      <4>1. Served
        BY <3>1, <3>3 DEF Running
      <4>2. bpass[0] \in 1 .. MaxPass
        BY <1>1, <1>2, <4>1 DEF Host, Types, HostTypes
      <4>3. QED
        BY <1>2, <3>1, <4>2 DEF Answered
    <3>4. \A c \in Block, i \in 1 .. Len(program) : Embeds(c, i)' <=> Embeds(c, i)
      BY <1>3 DEF Embeds
    <3>5. \A p \in 1 .. MaxPass : p > done => embedded[p] = {}
      BY <3>1 DEF Answered
    <3>6. QED
      BY <1>3, <1>5, <3>1, <3>2, <3>3, <3>4, <3>5 DEF Answered
  <2>3. CASE ~ (b = 0 /\ ForwardDoorbell)
    <3>1. Running' <=> Running
      <4>1. CASE b = 0 /\ PollDoorbell
        BY <1>1, <4>1 DEF PollDoorbell, Goto, GridTypes, Running, Ready, cells
      <4>2. CASE ~ (b = 0 /\ PollDoorbell) /\ b # 0
        BY <1>1, <4>2, RunStep, BlockFrame DEF Running, Ready
      <4>3. CASE ~ (b = 0 /\ PollDoorbell) /\ b = 0
        <5>1. ~ SpinDoorbell(b) /\ bpass'[0] # bpass[0] + 1
          BY <1>2, <1>5, <4>3 DEF SpinDoorbell
        <5>2. UNCHANGED doorbellDev /\ ~ Ready(0) /\ ~ Ready(0)'
          BY <2>3, <4>3, <5>1, RunStep
        <5>3. QED
          BY <5>2 DEF Running
      <4>4. QED
        BY <4>1, <4>2, <4>3
    <3>2. \A p \in 1 .. MaxPass :
            \/ embedded'[p] = embedded[p]
            \/ p = bpass[0] /\ Running /\ embedded'[p] = embedded[p] \cup {token}
      BY <1>1, ReadsNow DEF HistoryTypes
    <3>3. ASSUME Running
          PROVE  bpass[0] \in 1 .. MaxPass
      <4>1. Served
        BY <3>3 DEF Running, Served, Ready
      <4>2. QED
        BY <1>1, <1>2, <4>1 DEF Host, Types, HostTypes
    <3>4. ASSUME Running, NEW c \in Block, NEW i \in 1 .. Len(program),
                 Embeds(c, i), Behind(c, i)'
          PROVE  embedded'[bpass[0]] # {}
      <4>1. CASE Behind(c, i)
        <5>1. embedded[bpass[0]] # {}
          BY <3>4, <4>1 DEF Answered
        <5>2. QED
          BY <3>2, <3>3, <3>4, <5>1
      <4>2. CASE c = b /\ Dispatch(b) /\ i = ip[b]
        <5>1. bpass[b] = bpass[0] /\ bpass[0] \in 1 .. MaxPass
          BY <4>2, InstrNow DEF Dispatch, AtInstr
        <5>2. embedded' = [embedded EXCEPT ![bpass[0]] = embedded[bpass[0]] \cup {token}]
          BY <3>4, <4>2, <5>1 DEF Dispatch, Embeds
        <5>3. QED
          BY <1>1, <5>1, <5>2 DEF HistoryTypes
      <4>3. QED
        BY <2>1, <3>4, <4>1, <4>2
    <3>5. \A c \in Block, i \in 1 .. Len(program) : Embeds(c, i)' <=> Embeds(c, i)
      BY <1>3 DEF Embeds
    <3>6. \A p \in 1 .. done : embedded'[p] = {issued[p]}
      BY <1>1, <1>2, <3>2 DEF Answered
    <3>7. \A p \in 1 .. MaxPass : p > done /\ ~ (Running /\ p = bpass[0]) => embedded'[p] = {}
      BY <3>2 DEF Answered
    <3>8. Running => embedded'[bpass[0]] \subseteq {token}
      BY <3>2, <3>3 DEF Answered
    <3>9. QED
      BY <1>3, <1>5, <3>1, <3>4, <3>5, <3>6, <3>7, <3>8 DEF Answered
  <2>4. QED
    BY <2>2, <2>3
<1>6. QED
  BY <1>4, <1>5, CellStep

\* ... and when the host does.
LEMMA HostAnswered ==
  ASSUME IInv, Requested, Answered, HostStep
  PROVE  Answered'
<1>1. HistoryTypes /\ CellTypes /\ GridTypes /\ Host /\ Life /\ 0 \in Block
      /\ MaxPass \in Nat /\ HALT \in Nat /\ MaxPass < HALT
  BY BlockZero, ProtocolAssumption DEF IInv, Types, HALT
<1>2. bpass[0] \in Nat \ {0} /\ done = bpass[0] - 1 /\ done \in 0 .. MaxPass
  BY <1>1 DEF GridTypes, Host, CellTypes
<1>3. UNCHANGED embedded
  BY DEF HostStep, HostWaits, Upload, Launch, RunPass, Shutdown, CopyToken, RingDoorbell,
       PollErr, ReadAux, ReportCode, PollDone, AwaitExit, Destroy, history
<1>4. UNCHANGED <<done, bpass, doorbellDev, ip>>
  BY HostFrame
<1>5. CASE Upload \/ Launch
  <2>1. bpc[0] = "off" /\ bpc'[0] \in {"off", "bell"} /\ UNCHANGED issued
    BY <1>1, <1>5 DEF Upload, Launch, Life, grid, history
  <2>2. ~ Running /\ ~ Running'
    BY <2>1 DEF Running, Ready
  <2>3. QED
    BY <1>3, <1>4, <2>1, <2>2 DEF Answered
<1>6. CASE ~ Upload /\ ~ Launch
  <2>1. bpc' = bpc /\ program' = program
    BY <1>6, HostFrame
  <2>2. /\ Running' <=> Running
        /\ \A c, i : Embeds(c, i)' <=> Embeds(c, i)
        /\ \A c, i : Behind(c, i)' <=> Behind(c, i)
    BY <1>4, <2>1 DEF Running, Ready, Embeds, Behind, P, I, AfterEpilogue
  <2>3. \A p \in 1 .. done : issued'[p] = issued[p]
    <3>1. CASE RingDoorbell
      BY <1>1, <1>2, <3>1 DEF RingDoorbell, Requested, HistoryTypes, CellTypes
    <3>2. CASE ~ RingDoorbell
      BY <1>6, <3>2 DEF HostStep, HostWaits, RunPass, Shutdown, CopyToken, PollErr, ReadAux,
                        ReportCode, PollDone, AwaitExit, Destroy, history
    <3>3. QED
      BY <3>1, <3>2
  <2>4. Running => token' = token
    <3>1. CASE CopyToken
      BY <1>1, <1>2, <3>1 DEF CopyToken, Host, Running, Served, Ready
    <3>2. CASE ~ CopyToken
      BY <1>6, <3>2 DEF HostStep, HostWaits, RunPass, Shutdown, RingDoorbell, PollErr, ReadAux,
                        ReportCode, PollDone, AwaitExit, Destroy, cells
    <3>3. QED
      BY <3>1, <3>2
  <2>5. QED
    BY <1>3, <1>4, <2>1, <2>2, <2>3, <2>4 DEF Answered
<1>7. QED
  BY <1>5, <1>6

\* An initial segment of the positive numbers has one length.
LEMMA RangeTop ==
  ASSUME NEW m \in Nat, NEW n \in Nat, 1 .. m = 1 .. n
  PROVE  m = n
<1>1. m = 0 \/ m \in 1 .. n
  OBVIOUS
<1>2. n = 0 \/ n \in 1 .. m
  OBVIOUS
<1>3. QED
  BY <1>1, <1>2

\* The answers of the refinement are a sequence of the completed passes.
LEMMA AnswersSeq ==
  ASSUME NEW n \in Nat, NEW f, \A p \in 1 .. n : f[p] \in SUBSET Token
  PROVE  /\ [p \in 1 .. n |-> f[p]] \in Seq(SUBSET Token)
         /\ Len([p \in 1 .. n |-> f[p]]) = n
<1> DEFINE s == [p \in 1 .. n |-> f[p]]
<1>1. s \in [1 .. n -> SUBSET Token]
  OBVIOUS
<1>2. s \in Seq(SUBSET Token)
  BY <1>1, SeqDef
<1>3. DOMAIN s = 1 .. Len(s) /\ Len(s) \in Nat
  BY <1>2, LenProperties
<1>4. DOMAIN s = 1 .. n
  BY DEF s
<1>5. Len(s) = n
  BY <1>3, <1>4, RangeTop
<1>6. QED
  BY <1>2, <1>5

\* One more answer is appended.
LEMMA AnswersAppend ==
  ASSUME NEW n \in Nat, NEW f, \A p \in 1 .. n + 1 : f[p] \in SUBSET Token
  PROVE  [p \in 1 .. n + 1 |-> f[p]] = Append([p \in 1 .. n |-> f[p]], f[n + 1])
<1> DEFINE s == [p \in 1 .. n |-> f[p]]
           t == [p \in 1 .. n + 1 |-> f[p]]
<1>1. s \in Seq(SUBSET Token) /\ Len(s) = n
  BY AnswersSeq
<1>2. t \in Seq(SUBSET Token) /\ Len(t) = n + 1
  BY AnswersSeq
<1>3. f[n + 1] \in SUBSET Token
  OBVIOUS
<1>4. \A p \in 1 .. n : s[p] = f[p]
  OBVIOUS
<1>5. \A p \in 1 .. n + 1 : t[p] = f[p]
  OBVIOUS
<1> HIDE DEF s, t
<1>6. /\ Append(s, f[n + 1]) \in Seq(SUBSET Token)
      /\ Len(Append(s, f[n + 1])) = n + 1
      /\ \A p \in 1 .. n + 1 : Append(s, f[n + 1])[p] = f[p]
  BY <1>1, <1>3, <1>4, AppendProperties
<1>7. t = Append(s, f[n + 1])
  BY <1>2, <1>5, <1>6, SeqEqual
<1>8. QED
  BY <1>7 DEF s, t

\* Every step of the protocol is a request, an answer or a stutter of PassService.
LEMMA ServiceStep ==
  ASSUME ReadsToken, IInv, Requested, Answered, [Next]_vars
  PROVE  [Service!Next]_(Service!serviceVars)
<1>1. HistoryTypes /\ CellTypes /\ Host /\ MaxPass \in Nat
      /\ bpass[0] \in Nat \ {0} /\ done = bpass[0] - 1 /\ done \in 0 .. MaxPass
  <2>1. MaxPass \in Nat /\ Types /\ Host /\ 0 \in Block
    BY BlockZero, ProtocolAssumption DEF IInv, HALT
  <2>2. bpass[0] \in Nat \ {0} /\ done \in 0 .. MaxPass
    BY <2>1 DEF Types, GridTypes, CellTypes
  <2>3. QED
    BY <2>1, <2>2 DEF Types, Host
<1>2. /\ Len([p \in 1 .. done |-> embedded[p]]) = done
      /\ \A p \in 1 .. done : embedded[p] \in SUBSET Token
  <2>1. \A p \in 1 .. done : embedded[p] \in SUBSET Token
    BY <1>1 DEF HistoryTypes
  <2>2. QED
    BY <1>1, <2>1, AnswersSeq
<1>3. ASSUME UNCHANGED <<issued, done, embedded>>
      PROVE  UNCHANGED Service!serviceVars
  BY <1>3 DEF Service!serviceVars
<1>4. CASE UNCHANGED vars
  BY <1>3, <1>4 DEF vars, cells, history
<1>5. CASE HostStep
  <2>1. UNCHANGED <<done, embedded>>
    BY <1>5, HostFrame DEF HostStep, HostWaits, Upload, Launch, RunPass, Shutdown, CopyToken,
         RingDoorbell, PollErr, ReadAux, ReportCode, PollDone, AwaitExit, Destroy, history
  <2>2. CASE RingDoorbell
    <3>1. Len(issued) = done /\ token \in Token /\ issued' = Append(issued, token)
      <4>1. doorbellHost = done /\ doorbellHost # HALT
        BY <1>1, <2>2, ProtocolAssumption DEF RingDoorbell, Host, HALT
      <4>2. QED
        BY <1>1, <2>2, <4>1 DEF RingDoorbell, Requested, CellTypes
    <3>2. Service!Request(token)
      BY <1>2, <2>1, <3>1 DEF Service!Request
    <3>3. QED
      BY <3>1, <3>2 DEF Service!Next
  <2>3. CASE ~ RingDoorbell
    <3>1. UNCHANGED issued
      BY <1>5, <2>3 DEF HostStep, HostWaits, Upload, Launch, RunPass, Shutdown, CopyToken,
           PollErr, ReadAux, ReportCode, PollDone, AwaitExit, Destroy, history
    <3>2. QED
      BY <1>3, <2>1, <3>1
  <2>4. QED
    BY <2>2, <2>3
<1>6. ASSUME NEW b \in Block, BlockStep(b)
      PROVE  [Service!Next]_(Service!serviceVars)
  <2>1. UNCHANGED issued
    BY <1>6 DEF BlockStep, PollDoorbell, ForwardDoorbell, SpinDoorbell, EnterBoundary,
         LeaveBoundary, BadInstr, Dispatch, RaiseAux, RaiseCode, RaiseDev, Epilogue, history
  <2>2. CASE done' = bpass[0] /\ bpass'[0] = bpass[0] + 1 /\ Served /\ bpc'[0] = "bell"
    <3>1. b = 0 /\ Epilogue(b) /\ errDev = ERR_NONE /\ bpc[0] = "epilogue" /\ UNCHANGED embedded
      BY <1>1, <1>6, <2>2, Publishes
    <3>2. embedded[done + 1] = {issued[done + 1]} /\ Len(issued) = done + 1
      BY <1>1, <2>2, <3>1, PublishedIsRead DEF Requested
    <3>3. done + 1 \in 1 .. MaxPass
      BY <1>1, <1>6, <2>2, StepIInv DEF IInv, Types, HostTypes, Host
    <3>4. \A p \in 1 .. done + 1 : embedded[p] \in SUBSET Token
      BY <1>1, <3>3 DEF HistoryTypes
    <3>5. [p \in 1 .. done + 1 |-> embedded[p]]
            = Append([p \in 1 .. done |-> embedded[p]], embedded[done + 1])
      BY <1>1, <3>4, AnswersAppend
    <3>6. [p \in 1 .. done' |-> embedded'[p]] = [p \in 1 .. done + 1 |-> embedded[p]]
      BY <1>1, <2>2, <3>1
    <3>7. Service!Answer
      <4>1. Len([p \in 1 .. done |-> embedded[p]]) < Len(issued)
        BY <1>1, <1>2, <3>2
      <4>2. [p \in 1 .. done' |-> embedded'[p]]
              = Append([p \in 1 .. done |-> embedded[p]],
                       {issued[Len([p \in 1 .. done |-> embedded[p]]) + 1]})
        BY <1>2, <3>2, <3>5, <3>6
      <4>3. QED
        BY <2>1, <4>1, <4>2 DEF Service!Answer
    <3>8. QED
      BY <3>7 DEF Service!Next
  <2>3. CASE done' = done /\ bpass'[0] = bpass[0]
    <3>1. \A p \in 1 .. done : embedded'[p] = embedded[p]
      BY <1>1, <1>6, ReadsNow DEF HistoryTypes
    <3>2. [p \in 1 .. done' |-> embedded'[p]] = [p \in 1 .. done |-> embedded[p]]
      BY <2>3, <3>1
    <3>3. QED
      BY <2>1, <3>2 DEF Service!serviceVars
  <2>4. QED
    BY <1>6, <2>2, <2>3, CellStep
<1>7. QED
  BY <1>4, <1>5, <1>6 DEF Next, Terminated

\* A kernel whose error-free programs read their token answers each request once, in
\* order, with a pass whose readers saw that request's token (interp.cuh, the pass protocol).
THEOREM ServiceImplemented == ReadsToken => (Spec => ImplementsService)
<1> SUFFICES ASSUME ReadsToken
             PROVE  Spec => ImplementsService
  OBVIOUS
<1>1. Init => Requested /\ Answered /\ Service!Init
  <2> SUFFICES ASSUME Init
               PROVE  Requested /\ Answered /\ Service!Init
    OBVIOUS
  <2>1. /\ 0 \in Block /\ HALT # 0 /\ issued = <<>> /\ done = 0 /\ doorbellHost = 0
        /\ bpc[0] = "off" /\ Len(issued) = 0
    BY BlockZero, ProtocolAssumption DEF Init, HALT
  <2>2. Requested
    BY <2>1 DEF Requested, Served
  <2>3. ~ Running /\ \A p \in 1 .. MaxPass : embedded[p] = {}
    BY <2>1 DEF Init, Running, Ready
  <2>4. Answered
    BY <2>1, <2>3 DEF Answered
  <2>5. [p \in 1 .. done |-> embedded[p]] = <<>>
    BY <2>1
  <2>6. QED
    BY <2>1, <2>2, <2>4, <2>5 DEF Service!Init
<1>2. ASSUME IInv, Requested, Answered, [Next]_vars
      PROVE  Requested' /\ Answered'
  <2>1. CASE UNCHANGED vars
    BY <1>2, <2>1 DEF Requested, Answered, Running, Behind, Embeds, InRange, Served, Ready, P, I,
       AfterEpilogue, vars, cells, grid, host, history
  <2>2. QED
    BY <1>2, <2>1, BlockRequested, HostRequested, BlockAnswered, HostAnswered
    DEF Next, Terminated
<1>3. QED
  BY <1>1, <1>2, ServiceStep, Invariant, PTL DEF Spec, ImplementsService, Service!Spec
==============================================================================
