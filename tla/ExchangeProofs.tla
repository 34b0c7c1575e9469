---------------------------- MODULE ExchangeProofs ----------------------------
(***************************************************************************)
(* Proofs about the cross-GPU exchange, for every grid size, every vector  *)
(* and its partitions among the blocks, every number of sites and of       *)
(* passes that fits the signed compare of the seqno, when no plain load is *)
(* served an L1 line of an earlier site or pass (StaleLines = {}; the runs *)
(* stale_seqno and stale_partial show what happens otherwise).             *)
(***************************************************************************)
EXTENDS Exchange, SequenceTheorems, TLAPS

-----------------------------------------------------------------------------
(***************************************************************************)
(* Where the blocks are.                                                   *)
(***************************************************************************)

\* The windows of a site: the projection's, PUSH's and REDUCE's.
Projecting == {"bell", "compute", "computed", "exit"}
Pushing    == {"push", "membar", "pushed"}
Reducing   == {"reduce", "publish", "poll", "fold", "folded"}
\* ... of a block that is at `at'.
Window(at) == IF at \in Projecting THEN 0 ELSE IF at \in Pushing THEN 1 ELSE 2

\* A block that waits at the boundary after its window.
AtBoundary(at) == at \in {"computed", "pushed", "folded"}

\* The round of a block: its sites so far, this one included.
RoundOf(g, b) == Round(pass[g][b], site[g][b])

\* A block that is inside a pass.
InPass(g, b) == pc[g][b] \notin {"bell", "exit"}
\* A block that waits after the last site of its pass.
Finishing(g, b) == pc[g][b] = "folded" /\ site[g][b] = Sites

\* Of the site a block is at, whether it has published or sent what it sends.
Published(g, b) == pc[g][b] \in {"poll", "fold", "folded"}
\* ... or sent element e of it: its store has landed.
Sent(g, b, e) ==
  \/ pc[g][b] \in {"pushed"} \cup Reducing
  \/ /\ pc[g][b] = "membar"
     /\ <<site[g][b], e, Partial(g, pass[g][b], site[g][b])>> \notin inFlight[g][b]

\* The last pass in which a block has done its part of site s.
LastPass(g, b, s, doneHere) ==
  IF s < site[g][b] \/ (s = site[g][b] /\ doneHere) THEN pass[g][b] ELSE pass[g][b] - 1

\* Whether a block has folded the round of another, or will.
HasFolded(g, b, p, s) ==
  \/ pass[g][b] > p
  \/ pass[g][b] = p /\ site[g][b] > s
  \/ pass[g][b] = p /\ site[g][b] = s /\ pc[g][b] = "folded"

\* A float, as the addends it was folded from.
Sums == Seq(GPU \X Nat \X Site)

\* The sum of a round, and a payload before its first round.
SumAt(p, s) == Partial(0, p, s) \o Partial(1, p, s)
\* The payload a mailbox holds after pass p.
Payload(g, p, s) == IF p = 0 THEN <<>> ELSE Partial(g, p, s)

-----------------------------------------------------------------------------
(***************************************************************************)
(* The inductive invariant.                                                *)
(***************************************************************************)

\* The types of the variables.
Types ==
  /\ pc \in [GPU -> [Block -> Projecting \cup Pushing \cup Reducing]]
  /\ pass \in [GPU -> [Block -> Nat \ {0}]]
  /\ site \in [GPU -> [Block -> Site]]
  /\ entered \in [GPU -> [Block -> Nat]]
  /\ left \in [GPU -> [Block -> Nat]]
  /\ progSeqno \in [GPU -> 0 .. MaxPass]
  /\ a \in [GPU -> [Block -> 0 .. MaxPass]]
  /\ inFlight \in [GPU -> [Block -> SUBSET (Site \X Elem \X Sums)]]
  /\ seqno \in [GPU -> [Site -> 0 .. MaxPass]]
  /\ projOut \in [GPU -> [Elem -> Sums]]
  /\ payload \in [GPU -> [Site -> [Elem -> Sums]]]
  /\ doorbell \in [GPU -> 0 .. MaxPass \cup {HALT}]
  /\ done \in [GPU -> Nat]
  /\ dma \in [GPU -> BOOLEAN]
  /\ hpc \in {"ready", "ring0", "ring1", "wait", "failed", "halt0", "halt1", "closed"}
  /\ hpass \in 0 .. MaxPass
  /\ results \in [GPU -> Seq(SUBSET Sums)]

\* A block's crossings are its rounds and windows, and a boundary holds it until
\* all have arrived.
Places ==
  \A g \in GPU, b \in Block :
    /\ left[g][b] = 3 * (RoundOf(g, b) - 1) + Window(pc[g][b])
    /\ entered[g][b] = left[g][b] + IF AtBoundary(pc[g][b]) THEN 1 ELSE 0
    /\ ~ InPass(g, b) => site[g][b] = 1

\* Nobody leaves a boundary before all have arrived.
LockStep ==
  \A g \in GPU, b, c \in Block : left[g][b] <= entered[g][c]

\* The host is at most a pass ahead of a GPU, and patches before it rings.
DriverOf(g) ==
  /\ done[g] = pass[g][0] - 1
  /\ done[g] \in {hpass - 1, hpass}
  /\ IF doorbell[g] = HALT
     THEN hpc \in {"halt0", "halt1", "closed"}
     ELSE doorbell[g] \in {hpass - 1, hpass} /\ done[g] <= doorbell[g]
  /\ hpc \in {"ready", "halt0", "halt1", "closed"} => done[g] = hpass
  /\ hpc = "ready" => doorbell[g] = hpass
  /\ hpc = "wait" => doorbell[g] = hpass
  /\ hpc = "ring0" \/ (hpc = "ring1" /\ g = 1) => doorbell[g] = hpass - 1
  /\ hpc = "ring1" /\ g = 0 => doorbell[g] = hpass
  /\ dma[g] => doorbell[g] = hpass - 1 /\ doorbell[g] # HALT
  /\ ~ dma[g] => progSeqno[g] = hpass

\* ... for both GPUs.
Driver == \A g \in GPU : DriverOf(g)

\* A block in a pass is in the one that was rung last, and reads its patch.
Current ==
  \A g \in GPU, b \in Block :
    /\ pass[g][b] <= hpass + 1
    /\ InPass(g, b) => pass[g][b] <= hpass
    /\ InPass(g, b) /\ pass[g][b] = hpass => doorbell[g] \in {hpass, HALT}
    /\ InPass(g, b) /\ ~ Finishing(g, b) => pass[g][b] = hpass /\ doorbell[g] = hpass
    /\ pc[g][b] \in {"publish", "poll", "fold"} => a[g][b] = pass[g][b]

\* A GPU's mailbox is what the blocks of its peer have made of it: block 0 the seqno,
\* each block its elements of the payload, but for the stores that have not landed.
Seqnos ==
  \A g \in GPU, s \in Site : seqno[Peer(g)][s] = LastPass(g, 0, s, Published(g, 0))

\* ... and of the payload, element by element.
Payloads ==
  \A g \in GPU, s \in Site, e \in Elem :
    payload[Peer(g)][s][e] = Payload(g, LastPass(g, PushBy[e], s, Sent(g, PushBy[e], e)), s)

\* Only a block between PUSH and its fence has stores in flight.
Flights ==
  \A g \in GPU, b \in Block :
    /\ pc[g][b] # "membar" => inFlight[g][b] = {}
    /\ inFlight[g][b] \subseteq
         {<<site[g][b], e, Partial(g, pass[g][b], site[g][b])>> : e \in Mine(PushBy, b)}

\* A block that folds has seen the seqno of its round.
Seen ==
  \A g \in GPU, b \in Block : pc[g][b] = "fold" => seqno[g][site[g][b]] >= pass[g][b]

\* proj_out holds the partial of a round from its computation to its fold, then the sum.
Vectors ==
  \A g \in GPU, e \in Elem :
    LET c == ComputeBy[e] IN
      pc[g][c] \notin {"bell", "compute", "exit"} =>
        projOut[g][e] = IF HasFolded(g, ReduceBy[e], pass[g][c], site[g][c])
                        THEN SumAt(pass[g][c], site[g][c])
                        ELSE Partial(g, pass[g][c], site[g][c])

\* The rounds all blocks of a GPU have folded.
FoldedRounds(g, b) == RoundOf(g, b) - IF pc[g][b] = "folded" THEN 0 ELSE 1
\* A GPU has taken the rounds that all its blocks have folded.
Taken ==
  \A g \in GPU :
    /\ \A b \in Block : Len(results[g]) <= FoldedRounds(g, b)
    /\ \E b \in Block : Len(results[g]) = FoldedRounds(g, b)

\* The inductive invariant.
IInv ==
  /\ Types /\ Places /\ LockStep /\ Driver /\ Current
  /\ Seqnos /\ Payloads /\ Flights /\ Seen /\ Vectors /\ Taken

-----------------------------------------------------------------------------
(***************************************************************************)
(* Rounds.                                                                 *)
(***************************************************************************)

\* What the assumptions give of the constants.
LEMMA Constants ==
  /\ 0 \in Block /\ N \in Nat \ {0} /\ Sites \in Nat \ {0} /\ 1 \in Site /\ Sites \in Site
  /\ Site \subseteq Nat \ {0}
  /\ MaxPass \in Nat /\ HALT \in Nat /\ MaxPass < HALT /\ PU \in Nat \ {0, 1}
  /\ ComputeBy \in [Elem -> Block] /\ PushBy \in [Elem -> Block] /\ ReduceBy \in [Elem -> Block]
BY ExchangeAssumption DEF Block, Site, HALT

\* There are two GPUs.
LEMMA Peers ==
  ASSUME NEW g \in GPU
  PROVE  Peer(g) \in GPU /\ Peer(Peer(g)) = g /\ Peer(g) # g
         /\ \A h \in GPU : h = g \/ h = Peer(g)
BY DEF GPU, Peer

\* A product is monotonic.
LEMMA TimesSites ==
  ASSUME NEW p \in Nat, NEW q \in Nat, p <= q
  PROVE  p * Sites \in Nat /\ q * Sites \in Nat /\ p * Sites <= q * Sites
<1>1. p * Sites \in Nat /\ (q - p) * Sites \in Nat
  BY Constants
<1>2. q * Sites = p * Sites + (q - p) * Sites
  BY Constants
<1>3. QED
  BY <1>1, <1>2

\* Rounds are numbered from 1, site by site and pass by pass.
LEMMA RoundNumbers ==
  ASSUME NEW p \in Nat \ {0}, NEW s \in Site
  PROVE  /\ Round(p, s) \in Nat \ {0}
         /\ Round(p, s + 1) = Round(p, s) + 1
         /\ Round(p + 1, 1) = Round(p, Sites) + 1
<1>1. s \in Nat \ {0} /\ Sites \in Nat \ {0} /\ p - 1 \in Nat
  BY Constants
<1>2. (p - 1) * Sites \in Nat
  BY <1>1, TimesSites
<1>3. p * Sites = (p - 1) * Sites + Sites
  BY <1>1
<1>4. QED
  BY <1>1, <1>2, <1>3 DEF Round

\* The order of rounds is that of passes, then of sites.
LEMMA RoundBefore ==
  ASSUME NEW p \in Nat \ {0}, NEW q \in Nat \ {0}, NEW s \in Site, NEW t \in Site,
         p < q \/ (p = q /\ s < t)
  PROVE  Round(p, s) < Round(q, t)
<1>1. s \in Nat \ {0} /\ t \in Nat \ {0} /\ s <= Sites /\ Sites \in Nat \ {0}
      /\ p - 1 \in Nat /\ q - 1 \in Nat
  BY Constants DEF Site
<1>2. CASE p < q
  <2>1. p * Sites <= (q - 1) * Sites /\ p * Sites \in Nat /\ (q - 1) * Sites \in Nat
    BY <1>1, <1>2, TimesSites
  <2>2. p * Sites = (p - 1) * Sites + Sites /\ (p - 1) * Sites \in Nat
    BY <1>1, TimesSites
  <2>3. QED
    BY <1>1, <2>1, <2>2 DEF Round
<1>3. CASE p = q /\ s < t
  <2>1. (p - 1) * Sites \in Nat
    BY <1>1, TimesSites
  <2>2. QED
    BY <1>1, <1>3, <2>1 DEF Round
<1>4. QED
  BY <1>2, <1>3

\* The order of rounds, as an equivalence.
LEMMA RoundOrder ==
  ASSUME NEW p \in Nat \ {0}, NEW q \in Nat \ {0}, NEW s \in Site, NEW t \in Site
  PROVE  /\ Round(p, s) < Round(q, t) <=> p < q \/ (p = q /\ s < t)
         /\ Round(p, s) = Round(q, t) <=> p = q /\ s = t
<1>1. s \in Nat /\ t \in Nat
  BY Constants
<1>2. Round(p, s) \in Nat /\ Round(q, t) \in Nat
  BY RoundNumbers
<1>3. p < q \/ (p = q /\ s < t) \/ (p = q /\ s = t) \/ (p = q /\ t < s) \/ q < p
  BY <1>1
<1>4. QED
  BY <1>1, <1>2, <1>3, RoundBefore

\* The types of the vectors.
LEMMA SumTypes ==
  ASSUME NEW g \in GPU, NEW p \in Nat, NEW s \in Site
  PROVE  Partial(g, p, s) \in Sums /\ <<>> \in Sums
<1>1. <<g, p, s>> \in GPU \X Nat \X Site
  OBVIOUS
<1>2. QED
  BY <1>1 DEF Partial, Sums

\* A fold of two vectors is a vector.
LEMMA FoldTypes ==
  ASSUME NEW g \in GPU, NEW x \in Sums, NEW y \in Sums
  PROVE  Folded(g, x, y) \in Sums
BY ConcatProperties DEF Folded, Sums

-----------------------------------------------------------------------------
(***************************************************************************)
(* The boundary.                                                           *)
(***************************************************************************)

\* Passes and sites are positive numbers.
LEMMA PlaceNats ==
  ASSUME Types, NEW g \in GPU, NEW b \in Block
  PROVE  /\ pass[g][b] \in Nat \ {0} /\ site[g][b] \in Site /\ site[g][b] \in Nat \ {0}
         /\ site[g][b] <= Sites /\ Sites \in Nat \ {0}
<1>1. pass[g][b] \in Nat \ {0} /\ site[g][b] \in Site
  BY DEF Types
<1>2. QED
  BY <1>1, Constants DEF Site

\* Where c is, when b has left a boundary that c must have reached.
LEMMA LockCases ==
  ASSUME Types, Places, LockStep, NEW g \in GPU, NEW b \in Block, NEW c \in Block
  PROVE  \/ pass[g][b] < pass[g][c]
         \/ pass[g][b] = pass[g][c] /\ site[g][b] < site[g][c]
         \/ /\ pass[g][b] = pass[g][c] /\ site[g][b] = site[g][c]
            /\ \/ Window(pc[g][b]) <= Window(pc[g][c])
               \/ AtBoundary(pc[g][c]) /\ Window(pc[g][b]) = Window(pc[g][c]) + 1
         \/ /\ pc[g][c] = "folded" /\ Window(pc[g][b]) = 0
            /\ \/ pass[g][b] = pass[g][c] /\ site[g][b] = site[g][c] + 1
               \/ pass[g][b] = pass[g][c] + 1 /\ site[g][b] = 1 /\ site[g][c] = Sites
<1>1. /\ pass[g][b] \in Nat \ {0} /\ pass[g][c] \in Nat \ {0}
      /\ site[g][b] \in Site /\ site[g][c] \in Site
      /\ pc[g][b] \in Projecting \cup Pushing \cup Reducing
      /\ pc[g][c] \in Projecting \cup Pushing \cup Reducing
  BY DEF Types
<1>2. RoundOf(g, b) \in Nat \ {0} /\ RoundOf(g, c) \in Nat \ {0}
  BY <1>1, RoundNumbers DEF RoundOf
<1>3. Window(pc[g][b]) \in 0 .. 2 /\ Window(pc[g][c]) \in 0 .. 2
      /\ (Window(pc[g][c]) = 2 /\ AtBoundary(pc[g][c]) => pc[g][c] = "folded")
  BY <1>1 DEF Window, Projecting, Pushing, Reducing, AtBoundary
<1>4. 3 * (RoundOf(g, b) - 1) + Window(pc[g][b])
        <= 3 * (RoundOf(g, c) - 1) + Window(pc[g][c]) + (IF AtBoundary(pc[g][c]) THEN 1 ELSE 0)
  BY DEF Places, LockStep
<1>5. \/ RoundOf(g, b) < RoundOf(g, c)
      \/ /\ RoundOf(g, b) = RoundOf(g, c)
         /\ \/ Window(pc[g][b]) <= Window(pc[g][c])
            \/ AtBoundary(pc[g][c]) /\ Window(pc[g][b]) = Window(pc[g][c]) + 1
      \/ pc[g][c] = "folded" /\ Window(pc[g][b]) = 0 /\ RoundOf(g, b) = RoundOf(g, c) + 1
  BY <1>2, <1>3, <1>4
<1>6. CASE RoundOf(g, b) < RoundOf(g, c)
  BY <1>1, <1>6, RoundOrder DEF RoundOf
<1>7. CASE RoundOf(g, b) = RoundOf(g, c)
  BY <1>1, <1>2, <1>5, <1>7, RoundOrder DEF RoundOf
<1>8. CASE pc[g][c] = "folded" /\ Window(pc[g][b]) = 0 /\ RoundOf(g, b) = RoundOf(g, c) + 1
  <2>1. CASE site[g][c] = Sites
    <3>1. RoundOf(g, b) = Round(pass[g][c] + 1, 1)
      BY <1>1, <1>8, <2>1, RoundNumbers DEF RoundOf
    <3>2. pass[g][b] = pass[g][c] + 1 /\ site[g][b] = 1
      <4>1. pass[g][c] + 1 \in Nat \ {0} /\ 1 \in Site
        BY <1>1, Constants
      <4>2. QED
        BY <1>1, <3>1, <4>1, RoundOrder DEF RoundOf
    <3>3. QED
      BY <1>8, <2>1, <3>2
  <2>2. CASE site[g][c] # Sites
    <3>1. RoundOf(g, b) = Round(pass[g][c], site[g][c] + 1) /\ site[g][c] + 1 \in Site
      <4>1. RoundOf(g, b) = Round(pass[g][c], site[g][c] + 1)
        BY <1>1, <1>8, RoundNumbers DEF RoundOf
      <4>2. site[g][c] + 1 \in Site
        BY <1>1, <2>2, Constants DEF Site
      <4>3. QED
        BY <4>1, <4>2
    <3>2. pass[g][b] = pass[g][c] /\ site[g][b] = site[g][c] + 1
      BY <1>1, <3>1, RoundOrder DEF RoundOf
    <3>3. QED
      BY <1>8, <3>2
  <2>3. QED
    BY <2>1, <2>2
<1>9. QED
  BY <1>5, <1>6, <1>7, <1>8

-----------------------------------------------------------------------------
(***************************************************************************)
(* Steps, when a plain load returns what is in L2.                         *)
(***************************************************************************)

\* PUSH sends the block's elements of proj_out.
LEMMA PushStores ==
  ASSUME StaleLines = {}, NEW g \in GPU, NEW b \in Block, Push(g, b)
  PROVE  inFlight' = [inFlight EXCEPT ![g][b] =
           {<<site[g][b], e, projOut[g][e]>> : e \in Mine(PushBy, b)}]
<1>1. PICK v \in [Mine(PushBy, b) -> UNION {Loadable(projOut[g][e], l1Partial[g][b][e], "partial")
                                             : e \in Elem}] :
        /\ \A e \in Mine(PushBy, b) :
             v[e] \in Loadable(projOut[g][e], l1Partial[g][b][e], "partial")
        /\ inFlight' = [inFlight EXCEPT ![g][b] =
             {<<Mailbox(site[g][b]), e, v[e]>> : e \in Mine(PushBy, b)}]
  BY DEF Push
<1>2. \A e \in Mine(PushBy, b) : v[e] = projOut[g][e]
  BY <1>1 DEF Loadable
<1>3. {<<Mailbox(site[g][b]), e, v[e]>> : e \in Mine(PushBy, b)}
        = {<<site[g][b], e, projOut[g][e]>> : e \in Mine(PushBy, b)}
  BY <1>2 DEF Mailbox
<1>4. QED
  BY <1>1, <1>3

\* REDUCE folds what is in proj_out with what is in the mailbox.
LEMMA FoldStores ==
  ASSUME StaleLines = {}, Types, NEW g \in GPU, NEW b \in Block, Fold(g, b)
  PROVE  projOut' = [projOut EXCEPT ![g] =
           [e \in Elem |-> IF ReduceBy[e] = b
                           THEN Folded(g, projOut[g][e], payload[g][site[g][b]][e])
                           ELSE projOut[g][e]]]
<1>1. PICK v \in [Mine(ReduceBy, b) -> UNION {Loadable(projOut[g][e], l1Partial[g][b][e], "partial")
                                               : e \in Elem}] :
        /\ \A e \in Mine(ReduceBy, b) :
             v[e] \in Loadable(projOut[g][e], l1Partial[g][b][e], "partial")
        /\ projOut' = [projOut EXCEPT ![g] =
             [e \in Elem |-> IF ReduceBy[e] = b
                             THEN Folded(g, v[e], PayloadRead(g, Mailbox(site[g][b]), e))
                             ELSE @[e]]]
  BY DEF Fold
<1>2. \A e \in Mine(ReduceBy, b) : v[e] = projOut[g][e]
  BY <1>1 DEF Loadable
<1>3. [e \in Elem |-> IF ReduceBy[e] = b
                      THEN Folded(g, v[e], PayloadRead(g, Mailbox(site[g][b]), e))
                      ELSE projOut[g][e]]
        = [e \in Elem |-> IF ReduceBy[e] = b
                          THEN Folded(g, projOut[g][e], payload[g][site[g][b]][e])
                          ELSE projOut[g][e]]
  BY <1>2 DEF Mine, Mailbox, PayloadRead
<1>4. QED
  BY <1>1, <1>3 DEF Types

\* REDUCE reads the patched seqno.
LEMMA ArgsRead ==
  ASSUME StaleLines = {}, NEW g \in GPU, NEW b \in Block, ReadArgs(g, b)
  PROVE  a' = [a EXCEPT ![g][b] = progSeqno[g]]
BY DEF ReadArgs, Loadable

\* A per-block variable changes at one block at most.
Touched(f, f1, g, b) == f1 = f \/ \E x : f1 = [f EXCEPT ![g][b] = x]

\* A block's step leaves the other blocks where they are.
LEMMA BlockTouches ==
  ASSUME NEW g \in GPU, NEW b \in Block, BlockStep(g, b)
  PROVE  /\ Touched(pc, pc', g, b) /\ Touched(pass, pass', g, b) /\ Touched(site, site', g, b)
         /\ Touched(entered, entered', g, b) /\ Touched(left, left', g, b)
         /\ Touched(a, a', g, b) /\ Touched(inFlight, inFlight', g, b)
<1>1. CASE Doorbell(g, b)
  BY <1>1 DEF Doorbell, Goto, memoryVars, Touched
<1>2. CASE Compute(g, b)
  BY <1>2 DEF Compute, Enter, Goto, Touched
<1>3. CASE Push(g, b)
  BY <1>3 DEF Push, Goto, Touched
<1>4. CASE Membar(g, b)
  BY <1>4 DEF Membar, Enter, Goto, memoryVars, Touched
<1>5. CASE ReadArgs(g, b)
  BY <1>5 DEF ReadArgs, Goto, Touched
<1>6. CASE Publish(g, b)
  BY <1>6 DEF Publish, Goto, Touched
<1>7. CASE Poll(g, b)
  BY <1>7 DEF Poll, Goto, memoryVars, Touched
<1>8. CASE Fold(g, b)
  BY <1>8 DEF Fold, Enter, Goto, Touched
<1>9. CASE Leave(g, b)
  BY <1>9 DEF Leave, Goto, memoryVars, Touched
<1>10. QED
  BY <1>1, <1>2, <1>3, <1>4, <1>5, <1>6, <1>7, <1>8, <1>9 DEF BlockStep

\* A block's step leaves every other block of both GPUs where it is.
LEMMA BlockFrame ==
  ASSUME Types, NEW g \in GPU, NEW b \in Block, BlockStep(g, b),
         NEW h \in GPU, NEW c \in Block, h # g \/ c # b
  PROVE  /\ pc'[h][c] = pc[h][c] /\ pass'[h][c] = pass[h][c] /\ site'[h][c] = site[h][c]
         /\ entered'[h][c] = entered[h][c] /\ left'[h][c] = left[h][c]
         /\ a'[h][c] = a[h][c] /\ inFlight'[h][c] = inFlight[h][c]
<1>1. pc'[h][c] = pc[h][c]
  <2>1. pc \in [GPU -> [Block -> Projecting \cup Pushing \cup Reducing]] /\ Touched(pc, pc', g, b)
    BY BlockTouches DEF Types
  <2>2. QED
    BY <2>1 DEF Touched
<1>2. pass'[h][c] = pass[h][c]
  <2>1. pass \in [GPU -> [Block -> Nat \ {0}]] /\ Touched(pass, pass', g, b)
    BY BlockTouches DEF Types
  <2>2. QED
    BY <2>1 DEF Touched
<1>3. site'[h][c] = site[h][c]
  <2>1. site \in [GPU -> [Block -> Site]] /\ Touched(site, site', g, b)
    BY BlockTouches DEF Types
  <2>2. QED
    BY <2>1 DEF Touched
<1>4. entered'[h][c] = entered[h][c]
  <2>1. entered \in [GPU -> [Block -> Nat]] /\ Touched(entered, entered', g, b)
    BY BlockTouches DEF Types
  <2>2. QED
    BY <2>1 DEF Touched
<1>5. left'[h][c] = left[h][c]
  <2>1. left \in [GPU -> [Block -> Nat]] /\ Touched(left, left', g, b)
    BY BlockTouches DEF Types
  <2>2. QED
    BY <2>1 DEF Touched
<1>6. a'[h][c] = a[h][c]
  <2>1. a \in [GPU -> [Block -> 0 .. MaxPass]] /\ Touched(a, a', g, b)
    BY BlockTouches DEF Types
  <2>2. QED
    BY <2>1 DEF Touched
<1>7. inFlight'[h][c] = inFlight[h][c]
  <2>1. inFlight \in [GPU -> [Block -> SUBSET (Site \X Elem \X Sums)]] /\ Touched(inFlight, inFlight', g, b)
    BY BlockTouches DEF Types
  <2>2. QED
    BY <2>1 DEF Touched
<1>8. QED
  BY <1>1, <1>2, <1>3, <1>4, <1>5, <1>6, <1>7

\* A block's step changes no variable of the host, and done only in Leave.
LEMMA BlockFrameHost ==
  ASSUME NEW g \in GPU, NEW b \in Block, BlockStep(g, b)
  PROVE  UNCHANGED <<doorbell, dma, hpc, hpass, progSeqno, payload>>
         /\ (~ Leave(g, b) => UNCHANGED done)
         /\ (~ Publish(g, b) => UNCHANGED seqno)
         /\ (~ Fold(g, b) => UNCHANGED results)
         /\ (~ Fold(g, b) /\ ~ Compute(g, b) => UNCHANGED projOut)
BY DEF BlockStep, Doorbell, Compute, Push, Membar, ReadArgs, Publish, Poll, Fold, Leave,
       hostVars, memoryVars

\* The steps of the host and of its copies.
HostStep ==
  \/ \E g \in GPU : DmaLands(g) \/ Ring(g)
  \/ QueuePatches \/ SyncFails \/ Timeout \/ Halt(0) \/ Halt(1) \/ Return \/ Close

\* The host moves no block and touches no vector.
LEMMA HostFrame ==
  ASSUME HostStep
  PROVE  UNCHANGED <<blockVars, projOut, a, inFlight, payload, seqno, done, results>>
BY DEF HostStep, DmaLands, Ring, QueuePatches, SyncFails, Timeout, Halt, Return, Close, memoryVars

\* A landing store changes the payload and the store's place in flight only.
LEMMA LandFrame ==
  ASSUME NEW g \in GPU, NEW b \in Block, Land(g, b)
  PROVE  UNCHANGED <<blockVars, projOut, progSeqno, a, seqno, hostVars, done, results>>
BY DEF Land

\* The steps of the specification.
LEMMA Steps ==
  ASSUME Next
  PROVE  \/ \E g \in GPU, b \in Block : BlockStep(g, b)
         \/ \E g \in GPU, b \in Block : Land(g, b)
         \/ HostStep
         \/ UNCHANGED vars
BY DEF Next, HostStep, HostFinishes, Terminated

\* Where a step takes the block that makes it.
Stays(g, b) ==
  pass'[g][b] = pass[g][b] /\ site'[g][b] = site[g][b] /\ left'[g][b] = left[g][b]
\* ... to the next boundary,
Waits(g, b) == Stays(g, b) /\ entered'[g][b] = entered[g][b] + 1
\* ... or on within its window.
Works(g, b) == Stays(g, b) /\ entered'[g][b] = entered[g][b]

\* Where each op takes the block that makes it,
LEMMA Moves ==
  ASSUME Types, NEW g \in GPU, NEW b \in Block
  PROVE  /\ Doorbell(g, b) =>
              pc[g][b] = "bell" /\ pc'[g][b] \in {"compute", "exit"} /\ Works(g, b)
         /\ Compute(g, b) => pc[g][b] = "compute" /\ pc'[g][b] = "computed" /\ Waits(g, b)
         /\ Push(g, b) => pc[g][b] = "push" /\ pc'[g][b] = "membar" /\ Works(g, b)
         /\ Membar(g, b) => pc[g][b] = "membar" /\ pc'[g][b] = "pushed" /\ Waits(g, b)
         /\ ReadArgs(g, b) => pc[g][b] = "reduce" /\ pc'[g][b] = "publish" /\ Works(g, b)
         /\ Publish(g, b) => pc[g][b] = "publish" /\ pc'[g][b] = "poll" /\ Works(g, b)
         /\ Poll(g, b) => pc[g][b] = "poll" /\ pc'[g][b] = "fold" /\ Works(g, b)
         /\ Fold(g, b) => pc[g][b] = "fold" /\ pc'[g][b] = "folded" /\ Waits(g, b)
<1>1. Doorbell(g, b) =>
        pc[g][b] = "bell" /\ pc'[g][b] \in {"compute", "exit"} /\ Works(g, b)
  BY DEF Doorbell, Goto, Types, Works, Stays
<1>2. Compute(g, b) => pc[g][b] = "compute" /\ pc'[g][b] = "computed" /\ Waits(g, b)
  BY DEF Compute, Enter, Goto, Types, Waits, Stays
<1>3. Push(g, b) => pc[g][b] = "push" /\ pc'[g][b] = "membar" /\ Works(g, b)
  <2>1. Push(g, b) =>
          pc[g][b] = "push" /\ Goto(g, b, "membar") /\ UNCHANGED <<pass, site, entered, left>>
    BY DEF Push
  <2>2. QED
    BY <2>1 DEF Goto, Types, Works, Stays
<1>4. Membar(g, b) => pc[g][b] = "membar" /\ pc'[g][b] = "pushed" /\ Waits(g, b)
  BY DEF Membar, Enter, Goto, Types, Waits, Stays
<1>5. ReadArgs(g, b) => pc[g][b] = "reduce" /\ pc'[g][b] = "publish" /\ Works(g, b)
  BY DEF ReadArgs, Goto, Types, Works, Stays
<1>6. Publish(g, b) => pc[g][b] = "publish" /\ pc'[g][b] = "poll" /\ Works(g, b)
  BY DEF Publish, Goto, Types, Works, Stays
<1>7. Poll(g, b) => pc[g][b] = "poll" /\ pc'[g][b] = "fold" /\ Works(g, b)
  BY DEF Poll, Goto, Types, Works, Stays
<1>8. Fold(g, b) => pc[g][b] = "fold" /\ pc'[g][b] = "folded" /\ Waits(g, b)
  <2>1. Fold(g, b) => pc[g][b] = "fold" /\ Enter(g, b, "folded") /\ UNCHANGED <<pass, site, left>>
    BY DEF Fold
  <2>2. QED
    BY <2>1 DEF Enter, Goto, Types, Waits, Stays
<1>9. QED
  BY <1>1, <1>2, <1>3, <1>4, <1>5, <1>6, <1>7, <1>8

\* ... and the four ways out of a boundary.
LEMMA LeaveMoves ==
  ASSUME Types, NEW g \in GPU, NEW b \in Block, Leave(g, b)
  PROVE  /\ left[g][b] < entered[g][b] /\ \A c \in Block : entered[g][c] >= entered[g][b]
         /\ left'[g][b] = left[g][b] + 1 /\ entered' = entered
         /\ \/ /\ pc[g][b] = "computed" /\ pc'[g][b] = "push"
               /\ pass'[g][b] = pass[g][b] /\ site'[g][b] = site[g][b] /\ done' = done
            \/ /\ pc[g][b] = "pushed" /\ pc'[g][b] = "reduce"
               /\ pass'[g][b] = pass[g][b] /\ site'[g][b] = site[g][b] /\ done' = done
            \/ /\ pc[g][b] = "folded" /\ site[g][b] < Sites /\ pc'[g][b] = "compute"
               /\ pass'[g][b] = pass[g][b] /\ site'[g][b] = site[g][b] + 1 /\ done' = done
            \/ /\ pc[g][b] = "folded" /\ site[g][b] = Sites /\ pc'[g][b] = "bell"
               /\ pass'[g][b] = pass[g][b] + 1 /\ site'[g][b] = 1
               /\ done' = IF b = 0 THEN [done EXCEPT ![g] = pass[g][b]] ELSE done
<1>1. /\ left[g][b] < entered[g][b] /\ \A c \in Block : entered[g][c] >= entered[g][b]
      /\ left'[g][b] = left[g][b] + 1 /\ entered' = entered
  BY DEF Leave, Types
<1>2. CASE pc[g][b] = "computed" /\ Goto(g, b, "push") /\ UNCHANGED <<pass, site, done>>
  BY <1>1, <1>2 DEF Goto, Types
<1>3. CASE pc[g][b] = "pushed" /\ Goto(g, b, "reduce") /\ UNCHANGED <<pass, site, done>>
  BY <1>1, <1>3 DEF Goto, Types
<1>4. CASE /\ pc[g][b] = "folded" /\ site[g][b] < Sites /\ Goto(g, b, "compute")
           /\ site' = [site EXCEPT ![g][b] = @ + 1] /\ UNCHANGED <<pass, done>>
  BY <1>1, <1>4 DEF Goto, Types
<1>5. CASE /\ pc[g][b] = "folded" /\ site[g][b] = Sites /\ Goto(g, b, "bell")
           /\ site' = [site EXCEPT ![g][b] = 1]
           /\ pass' = [pass EXCEPT ![g][b] = @ + 1]
           /\ done' = IF b = 0 THEN [done EXCEPT ![g] = pass[g][b]] ELSE done
  BY <1>1, <1>5 DEF Goto, Types
<1>6. QED
  BY <1>2, <1>3, <1>4, <1>5 DEF Leave

-----------------------------------------------------------------------------
(***************************************************************************)
(* Types.                                                                  *)
(***************************************************************************)

\* A per-block variable stays typed when the block's new value is.
LEMMA TouchedType ==
  ASSUME NEW S, NEW f \in [GPU -> [Block -> S]], NEW f1, NEW g \in GPU, NEW b \in Block,
         Touched(f, f1, g, b), f1[g][b] \in S
  PROVE  f1 \in [GPU -> [Block -> S]]
<1>1. CASE f1 = f
  BY <1>1
<1>2. CASE \E x : f1 = [f EXCEPT ![g][b] = x]
  <2>1. PICK x : f1 = [f EXCEPT ![g][b] = x]
    BY <1>2
  <2>2. f1[g][b] = x
    BY <2>1
  <2>3. QED
    BY <2>1, <2>2
<1>3. QED
  BY <1>1, <1>2 DEF Touched

\* A step other than a Leave keeps the block's round.
LEMMA StepStays ==
  ASSUME Types, NEW g \in GPU, NEW b \in Block, BlockStep(g, b), ~ Leave(g, b)
  PROVE  Stays(g, b) /\ entered'[g][b] \in {entered[g][b], entered[g][b] + 1}
         /\ pc'[g][b] \in {"compute", "exit", "computed", "membar", "pushed", "publish", "poll",
                           "fold", "folded"}
BY Moves DEF BlockStep, Works, Waits

\* The places of the blocks stay typed.
LEMMA PlaceTypes ==
  ASSUME Types, NEW g \in GPU, NEW b \in Block, BlockStep(g, b)
  PROVE  /\ pc' \in [GPU -> [Block -> Projecting \cup Pushing \cup Reducing]]
         /\ pass' \in [GPU -> [Block -> Nat \ {0}]]
         /\ site' \in [GPU -> [Block -> Site]]
         /\ entered' \in [GPU -> [Block -> Nat]]
         /\ left' \in [GPU -> [Block -> Nat]]
<1>1. /\ pass[g][b] \in Nat \ {0} /\ site[g][b] \in Site
      /\ entered[g][b] \in Nat /\ left[g][b] \in Nat
  BY DEF Types
<1>2. /\ pc'[g][b] \in Projecting \cup Pushing \cup Reducing
      /\ pass'[g][b] \in Nat \ {0} /\ site'[g][b] \in Site
      /\ entered'[g][b] \in Nat /\ left'[g][b] \in Nat
  <2>1. CASE Leave(g, b)
    <3>1. site'[g][b] \in Site
      BY <1>1, <2>1, LeaveMoves, Constants DEF Site
    <3>2. /\ pc'[g][b] \in Projecting \cup Pushing \cup Reducing
          /\ pass'[g][b] \in Nat \ {0}
      BY <1>1, <2>1, LeaveMoves DEF Projecting, Pushing, Reducing
    <3>3. QED
      BY <1>1, <2>1, <3>1, <3>2, LeaveMoves
  <2>2. CASE ~ Leave(g, b)
    <3>1. pc'[g][b] \in Projecting \cup Pushing \cup Reducing
      BY <2>2, StepStays DEF Projecting, Pushing, Reducing
    <3>2. QED
      BY <1>1, <2>2, <3>1, StepStays DEF Stays
  <2>3. QED
    BY <2>1, <2>2
<1>3. pc' \in [GPU -> [Block -> Projecting \cup Pushing \cup Reducing]]
  <2>1. pc \in [GPU -> [Block -> Projecting \cup Pushing \cup Reducing]] /\ Touched(pc, pc', g, b)
    BY BlockTouches DEF Types
  <2>2. QED
    BY <1>2, <2>1, TouchedType
<1>4. pass' \in [GPU -> [Block -> Nat \ {0}]]
  <2>1. pass \in [GPU -> [Block -> Nat \ {0}]] /\ Touched(pass, pass', g, b)
    BY BlockTouches DEF Types
  <2>2. QED
    BY <1>2, <2>1, TouchedType
<1>5. site' \in [GPU -> [Block -> Site]]
  <2>1. site \in [GPU -> [Block -> Site]] /\ Touched(site, site', g, b)
    BY BlockTouches DEF Types
  <2>2. QED
    BY <1>2, <2>1, TouchedType
<1>6. entered' \in [GPU -> [Block -> Nat]]
  <2>1. entered \in [GPU -> [Block -> Nat]] /\ Touched(entered, entered', g, b)
    BY BlockTouches DEF Types
  <2>2. QED
    BY <1>2, <2>1, TouchedType
<1>7. left' \in [GPU -> [Block -> Nat]]
  <2>1. left \in [GPU -> [Block -> Nat]] /\ Touched(left, left', g, b)
    BY BlockTouches DEF Types
  <2>2. QED
    BY <1>2, <2>1, TouchedType
<1>8. QED
  BY <1>3, <1>4, <1>5, <1>6, <1>7

\* What the blocks write stays typed.
LEMMA BlockTypes ==
  ASSUME StaleLines = {}, Types, NEW g \in GPU, NEW b \in Block, BlockStep(g, b)
  PROVE  Types'
<1>1. a' \in [GPU -> [Block -> 0 .. MaxPass]]
  <2>1. CASE ReadArgs(g, b)
    <3>1. a \in [GPU -> [Block -> 0 .. MaxPass]] /\ progSeqno[g] \in 0 .. MaxPass
      BY DEF Types
    <3>2. QED
      BY <2>1, <3>1, ArgsRead
  <2>2. CASE ~ ReadArgs(g, b)
    <3>1. a' = a
      BY <2>2 DEF BlockStep, Doorbell, Compute, Push, Membar, Publish, Poll, Fold, Leave, memoryVars
    <3>2. QED
      BY <3>1 DEF Types
  <2>3. QED
    BY <2>1, <2>2
<1>2. inFlight' \in [GPU -> [Block -> SUBSET (Site \X Elem \X Sums)]]
  <2>1. CASE Push(g, b)
    <3>1. site[g][b] \in Site /\ \A e \in Elem : projOut[g][e] \in Sums
      BY DEF Types
    <3>2. {<<site[g][b], e, projOut[g][e]>> : e \in Mine(PushBy, b)}
            \in SUBSET (Site \X Elem \X Sums)
      BY <3>1 DEF Mine
    <3>3. inFlight \in [GPU -> [Block -> SUBSET (Site \X Elem \X Sums)]]
      BY DEF Types
    <3>4. QED
      BY <2>1, <3>2, <3>3, PushStores
  <2>2. CASE ~ Push(g, b)
    <3>1. inFlight' = inFlight
      BY <2>2 DEF BlockStep, Doorbell, Compute, Membar, ReadArgs, Publish, Poll, Fold, Leave,
                  memoryVars
    <3>2. QED
      BY <3>1 DEF Types
  <2>3. QED
    BY <2>1, <2>2
<1>3. seqno' \in [GPU -> [Site -> 0 .. MaxPass]]
  <2>1. CASE Publish(g, b)
    <3>1. /\ seqno \in [GPU -> [Site -> 0 .. MaxPass]] /\ a[g][b] \in 0 .. MaxPass
          /\ site[g][b] \in Site
      BY DEF Types
    <3>2. seqno' = seqno \/ seqno' = [seqno EXCEPT ![Peer(g)][site[g][b]] = a[g][b]]
      BY <2>1 DEF Publish, Mailbox
    <3>3. QED
      BY <3>1, <3>2, Peers
  <2>2. CASE ~ Publish(g, b)
    <3>1. seqno' = seqno
      BY <2>2, BlockFrameHost
    <3>2. QED
      BY <3>1 DEF Types
  <2>3. QED
    BY <2>1, <2>2
<1>4. projOut' \in [GPU -> [Elem -> Sums]]
  <2>1. CASE Compute(g, b)
    <3>1. Partial(g, pass[g][b], site[g][b]) \in Sums
      BY SumTypes DEF Types
    <3>2. projOut' = [projOut EXCEPT ![g] =
            [e \in Elem |-> IF ComputeBy[e] = b THEN Partial(g, pass[g][b], site[g][b])
                            ELSE projOut[g][e]]]
      BY <2>1 DEF Compute, Types
    <3>3. projOut \in [GPU -> [Elem -> Sums]]
      BY DEF Types
    <3>4. QED
      BY <3>1, <3>2, <3>3
  <2>2. CASE Fold(g, b)
    <3>1. /\ projOut \in [GPU -> [Elem -> Sums]] /\ site[g][b] \in Site
          /\ payload \in [GPU -> [Site -> [Elem -> Sums]]]
      BY DEF Types
    <3>2. \A e \in Elem : Folded(g, projOut[g][e], payload[g][site[g][b]][e]) \in Sums
      BY <3>1, FoldTypes
    <3>3. [e \in Elem |-> IF ReduceBy[e] = b
                          THEN Folded(g, projOut[g][e], payload[g][site[g][b]][e])
                          ELSE projOut[g][e]] \in [Elem -> Sums]
      BY <3>1, <3>2
    <3>4. \E x \in [Elem -> Sums] : projOut' = [projOut EXCEPT ![g] = x]
      BY <2>2, <3>3, FoldStores
    <3>5. QED
      BY <3>1, <3>4
  <2>3. CASE ~ Compute(g, b) /\ ~ Fold(g, b)
    BY <2>3, BlockFrameHost DEF Types
  <2>4. QED
    BY <2>1, <2>2, <2>3
<1>5. done' \in [GPU -> Nat]
  <2>1. done \in [GPU -> Nat] /\ pass[g][b] \in Nat
    BY DEF Types
  <2>2. CASE Leave(g, b)
    <3>1. done' = done \/ done' = [done EXCEPT ![g] = pass[g][b]]
      BY <2>2, LeaveMoves
    <3>2. QED
      BY <2>1, <3>1
  <2>3. CASE ~ Leave(g, b)
    BY <2>1, <2>3, BlockFrameHost
  <2>4. QED
    BY <2>2, <2>3
<1>6. results' \in [GPU -> Seq(SUBSET Sums)]
  <2>1. results \in [GPU -> Seq(SUBSET Sums)]
    BY DEF Types
  <2>2. CASE Fold(g, b)
    <3>1. {projOut'[g][e] : e \in Elem} \in SUBSET Sums
      BY <1>4
    <3>2. Append(results[g], {projOut'[g][e] : e \in Elem}) \in Seq(SUBSET Sums)
      BY <2>1, <3>1, AppendProperties
    <3>3. \/ results' = results
          \/ results' = [results EXCEPT ![g] = Append(@, {projOut'[g][e] : e \in Elem})]
      BY <2>2 DEF Fold
    <3>4. QED
      BY <2>1, <3>2, <3>3
  <2>3. CASE ~ Fold(g, b)
    BY <2>1, <2>3, BlockFrameHost
  <2>4. QED
    BY <2>2, <2>3
<1>7. QED
  BY <1>1, <1>2, <1>3, <1>4, <1>5, <1>6, PlaceTypes, BlockFrameHost DEF Types

\* ... and what lands.
LEMMA LandTypes ==
  ASSUME Types, NEW g \in GPU, NEW b \in Block, Land(g, b)
  PROVE  Types'
<1>1. PICK st \in inFlight[g][b] :
        /\ inFlight' = [inFlight EXCEPT ![g][b] = @ \ {st}]
        /\ payload' = [payload EXCEPT ![Peer(g)][st[1]][st[2]] = st[3]]
  BY DEF Land
<1>2. /\ inFlight \in [GPU -> [Block -> SUBSET (Site \X Elem \X Sums)]]
      /\ payload \in [GPU -> [Site -> [Elem -> Sums]]]
  BY DEF Types
<1>3. st \in Site \X Elem \X Sums
  BY <1>2
<1>4. st[1] \in Site /\ st[2] \in Elem /\ st[3] \in Sums
  BY <1>3
<1>5. inFlight' \in [GPU -> [Block -> SUBSET (Site \X Elem \X Sums)]]
  BY <1>1, <1>2
<1>6. payload' \in [GPU -> [Site -> [Elem -> Sums]]]
  BY <1>1, <1>2, <1>4, Peers
<1>7. QED
  BY <1>5, <1>6, LandFrame DEF Types, blockVars, hostVars

\* ... and what the host does.
LEMMA HostTypes ==
  ASSUME Types, HostStep
  PROVE  Types'
<1>1. /\ progSeqno' \in [GPU -> 0 .. MaxPass] /\ doorbell' \in [GPU -> 0 .. MaxPass \cup {HALT}]
      /\ dma' \in [GPU -> BOOLEAN] /\ hpass' \in 0 .. MaxPass
      /\ hpc' \in {"ready", "ring0", "ring1", "wait", "failed", "halt0", "halt1", "closed"}
  <2>1. CASE \E g \in GPU : DmaLands(g)
    BY <2>1 DEF DmaLands, Types
  <2>2. CASE \E g \in GPU : Ring(g)
    BY <2>2 DEF Ring, HostGoto, memoryVars, Types
  <2>3. CASE QueuePatches
    BY <2>3, Constants DEF QueuePatches, HostGoto, memoryVars, Types
  <2>4. CASE Halt(0) \/ Halt(1)
    BY <2>4 DEF Halt, HostGoto, memoryVars, Types
  <2>5. CASE SyncFails \/ Timeout \/ Return \/ Close
    BY <2>5 DEF SyncFails, Timeout, Return, Close, HostGoto, memoryVars, Types
  <2>6. QED
    BY <2>1, <2>2, <2>3, <2>4, <2>5 DEF HostStep
<1>2. QED
  BY <1>1, HostFrame DEF Types, blockVars

-----------------------------------------------------------------------------
(***************************************************************************)
(* Places and lockstep.                                                    *)
(***************************************************************************)

\* Every step of a block keeps its crossings in line with its round and window.
LEMMA BlockPlaces ==
  ASSUME Types, Places, NEW g \in GPU, NEW b \in Block, BlockStep(g, b)
  PROVE  Places'
<1>1. SUFFICES ASSUME NEW h \in GPU, NEW c \in Block
               PROVE  /\ left'[h][c] = 3 * (RoundOf(h, c)' - 1) + Window(pc'[h][c])
                      /\ entered'[h][c] = left'[h][c] + IF AtBoundary(pc'[h][c]) THEN 1 ELSE 0
                      /\ ~ InPass(h, c)' => site'[h][c] = 1
  BY DEF Places, Window, AtBoundary
<1>2. /\ left[h][c] = 3 * (RoundOf(h, c) - 1) + Window(pc[h][c])
      /\ entered[h][c] = left[h][c] + IF AtBoundary(pc[h][c]) THEN 1 ELSE 0
      /\ ~ InPass(h, c) => site[h][c] = 1
  BY DEF Places
<1>3. pass[g][b] \in Nat \ {0} /\ site[g][b] \in Site /\ left[g][b] \in Nat
      /\ entered[g][b] \in Nat
  BY DEF Types
<1>4. RoundOf(g, b) \in Nat \ {0}
  BY <1>3, RoundNumbers DEF RoundOf
<1>5. CASE h # g \/ c # b
  <2>1. /\ pc'[h][c] = pc[h][c] /\ pass'[h][c] = pass[h][c] /\ site'[h][c] = site[h][c]
        /\ entered'[h][c] = entered[h][c] /\ left'[h][c] = left[h][c]
    BY <1>5, BlockFrame
  <2>2. QED
    BY <1>2, <2>1 DEF RoundOf, InPass
<1>6. CASE h = g /\ c = b /\ ~ Leave(g, b)
  <2>1. RoundOf(g, b)' = RoundOf(g, b) /\ site'[g][b] = site[g][b] /\ left'[g][b] = left[g][b]
    BY <1>6, StepStays DEF Stays, RoundOf
  <2>2. /\ Window(pc'[g][b]) = Window(pc[g][b])
        /\ entered'[g][b] = left[g][b] + IF AtBoundary(pc'[g][b]) THEN 1 ELSE 0
        /\ ~ InPass(g, b)' => ~ InPass(g, b)
    BY <1>2, <1>3, <1>6, Moves DEF BlockStep, Waits, Works, Window, AtBoundary, InPass,
       Projecting, Pushing, Reducing
  <2>3. QED
    BY <1>2, <1>6, <2>1, <2>2
<1>7. CASE h = g /\ c = b /\ Leave(g, b)
  <2>1. left'[g][b] = left[g][b] + 1 /\ entered' = entered
    BY <1>7, LeaveMoves
  <2>2. CASE pc[g][b] \in {"computed", "pushed"}
    <3>1. RoundOf(g, b)' = RoundOf(g, b) /\ site'[g][b] = site[g][b]
          /\ pc'[g][b] = IF pc[g][b] = "computed" THEN "push" ELSE "reduce"
      BY <1>7, <2>2, LeaveMoves DEF RoundOf
    <3>2. QED
      BY <1>2, <1>3, <1>4, <1>7, <2>1, <2>2, <3>1
      DEF Window, AtBoundary, InPass, Projecting, Pushing, Reducing
  <2>3. CASE pc[g][b] = "folded"
    <3>1. RoundOf(g, b)' = RoundOf(g, b) + 1
      BY <1>3, <1>7, <2>3, LeaveMoves, RoundNumbers DEF RoundOf
    <3>2. pc'[g][b] \in {"compute", "bell"} /\ (pc'[g][b] = "bell" => site'[g][b] = 1)
      BY <1>7, <2>3, LeaveMoves
    <3>3. QED
      BY <1>2, <1>3, <1>4, <1>7, <2>1, <2>3, <3>1, <3>2
      DEF Window, AtBoundary, InPass, Projecting, Pushing, Reducing
  <2>4. QED
    BY <1>7, <2>2, <2>3, LeaveMoves
<1>8. QED
  BY <1>5, <1>6, <1>7

\* No block leaves a boundary another has not reached.
LEMMA BlockLockStep ==
  ASSUME Types, LockStep, NEW g \in GPU, NEW b \in Block, BlockStep(g, b)
  PROVE  LockStep'
<1>1. SUFFICES ASSUME NEW h \in GPU, NEW c \in Block, NEW d \in Block
               PROVE  left'[h][c] <= entered'[h][d]
  BY DEF LockStep
<1>2. /\ left[h][c] \in Nat /\ entered[h][d] \in Nat /\ left[h][c] <= entered[h][d]
      /\ left[g][b] \in Nat /\ entered[g][b] \in Nat
  BY DEF Types, LockStep
<1>3. entered'[h][d] \in {entered[h][d], entered[h][d] + 1}
  <2>1. CASE h # g \/ d # b
    BY <2>1, BlockFrame
  <2>2. CASE h = g /\ d = b
    BY <2>2, LeaveMoves, StepStays
  <2>3. QED
    BY <2>1, <2>2
<1>4. CASE h = g /\ c = b /\ Leave(g, b)
  <2>1. left'[h][c] = left[g][b] + 1 /\ left[g][b] < entered[g][b]
        /\ entered[g][b] <= entered[h][d] /\ entered' = entered
    BY <1>4, LeaveMoves
  <2>2. QED
    BY <1>2, <2>1
<1>5. CASE ~ (h = g /\ c = b /\ Leave(g, b))
  <2>1. left'[h][c] = left[h][c]
    BY <1>5, BlockFrame, StepStays DEF Stays
  <2>2. QED
    BY <1>2, <1>3, <2>1
<1>6. QED
  BY <1>4, <1>5

\* Steps that move no block keep both.
LEMMA StillPlaces ==
  ASSUME Places, LockStep, UNCHANGED blockVars
  PROVE  Places' /\ LockStep'
BY DEF Places, LockStep, blockVars, RoundOf, Window, AtBoundary, InPass

-----------------------------------------------------------------------------
(***************************************************************************)
(* The host and the pass.                                                  *)
(***************************************************************************)

\* No block is behind block 0, except at the last boundary of the pass before.
LEMMA BehindZero ==
  ASSUME Types, Places, LockStep, NEW g \in GPU, NEW b \in Block
  PROVE  \/ pass[g][b] >= pass[g][0]
         \/ pass[g][b] = pass[g][0] - 1 /\ Finishing(g, b)
<1>1. pass[g][b] \in Nat /\ pass[g][0] \in Nat
  BY Constants DEF Types
<1>2. QED
  BY <1>1, LockCases, Constants DEF Finishing

\* When a GPU is done with the pass, its blocks are at its end or past it.
LEMMA DoneIsLast ==
  ASSUME Types, Places, LockStep, Driver, Current, NEW g \in GPU, NEW b \in Block,
         done[g] = hpass, InPass(g, b)
  PROVE  Finishing(g, b) /\ pass[g][b] = hpass
<1>1. pass[g][b] \in Nat /\ pass[g][0] \in Nat /\ hpass \in Nat
  BY Constants DEF Types
<1>2. pass[g][0] = hpass + 1 /\ pass[g][b] <= hpass
  BY <1>1 DEF Driver, DriverOf, Current
<1>3. QED
  BY <1>1, <1>2, BehindZero

\* Block 0 says done once, at the end of the pass the host has rung.
LEMMA BlockDriver ==
  ASSUME Types, Places, LockStep, Driver, Current, NEW g \in GPU, NEW b \in Block,
         BlockStep(g, b)
  PROVE  Driver'
<1>1. UNCHANGED <<doorbell, dma, hpc, hpass, progSeqno>>
  BY BlockFrameHost
<1>2. 0 \in Block /\ pass \in [GPU -> [Block -> Nat \ {0}]] /\ done \in [GPU -> Nat]
      /\ hpass \in Nat /\ HALT \in Nat
  BY Constants DEF Types
<1>3. CASE Leave(g, b) /\ b = 0 /\ Finishing(g, b)
  <2>1. pass'[g][0] = pass[g][0] + 1 /\ done' = [done EXCEPT ![g] = pass[g][0]]
    <3>1. pc[g][b] = "folded" /\ site[g][b] = Sites /\ site[g][b] \in Nat
      BY <1>3, Constants DEF Finishing, Types
    <3>2. QED
      BY <1>3, <3>1, LeaveMoves
  <2>2. done[g] = hpass - 1 /\ pass[g][0] = hpass
    <3>1. pass[g][0] <= hpass
      BY <1>2, <1>3 DEF Current, InPass, Finishing
    <3>2. done[g] = pass[g][0] - 1 /\ done[g] \in {hpass - 1, hpass}
      BY DEF Driver, DriverOf
    <3>3. QED
      BY <1>2, <3>1, <3>2
  <2>3. doorbell[g] = hpass
    <3>1. doorbell[g] \in {hpass, HALT}
      BY <1>2, <1>3, <2>2 DEF Current, InPass, Finishing
    <3>2. doorbell[g] # HALT
      BY <1>2, <2>2 DEF Driver, DriverOf
    <3>3. QED
      BY <3>1, <3>2
  <2>4. \A h \in GPU : h # g => done'[h] = done[h] /\ pass'[h][0] = pass[h][0]
    BY <1>2, <2>1, BlockFrame
  <2>5. done'[g] = pass'[g][0] - 1 /\ done'[g] = hpass
    BY <1>2, <2>1, <2>2
  <2>6. hpc \notin {"ready", "halt0", "halt1", "closed"}
    BY <1>2, <2>2 DEF Driver, DriverOf
  <2>7. SUFFICES ASSUME NEW h \in GPU
                 PROVE  DriverOf(h)'
    BY DEF Driver, DriverOf
  <2>8. CASE h = g
    BY <1>1, <1>2, <2>2, <2>3, <2>5, <2>6, <2>8 DEF Driver, DriverOf
  <2>9. CASE h # g
    BY <1>1, <2>4, <2>9 DEF Driver, DriverOf
  <2>10. QED
    BY <2>8, <2>9
<1>4. CASE ~ (Leave(g, b) /\ b = 0 /\ Finishing(g, b))
  <2>1. done' = done
    <3>1. CASE Leave(g, b)
      BY <1>4, <3>1, LeaveMoves DEF Finishing
    <3>2. CASE ~ Leave(g, b)
      BY <3>2, BlockFrameHost
    <3>3. QED
      BY <3>1, <3>2
  <2>2. \A h \in GPU : pass'[h][0] = pass[h][0]
    <3>1. SUFFICES ASSUME NEW h \in GPU
                   PROVE  pass'[h][0] = pass[h][0]
      OBVIOUS
    <3>2. CASE h = g /\ b = 0
      BY <1>4, <3>2, LeaveMoves, StepStays DEF Finishing, Stays
    <3>3. CASE ~ (h = g /\ b = 0)
      BY <1>2, <3>3, BlockFrame
    <3>4. QED
      BY <3>2, <3>3
  <2>3. QED
    BY <1>1, <2>1, <2>2 DEF Driver, DriverOf
<1>5. QED
  BY <1>3, <1>4

\* The host rings a pass after its patch and when both GPUs are done with the last.
LEMMA HostDriver ==
  ASSUME Types, Driver, HostStep
  PROVE  Driver'
<1>1. UNCHANGED <<pass, done>>
  BY HostFrame DEF blockVars
<1>2. /\ doorbell \in [GPU -> 0 .. MaxPass \cup {HALT}] /\ dma \in [GPU -> BOOLEAN]
      /\ progSeqno \in [GPU -> 0 .. MaxPass] /\ hpass \in 0 .. MaxPass
      /\ MaxPass \in Nat /\ HALT \in Nat /\ MaxPass < HALT /\ done \in [GPU -> Nat]
      /\ GPU = {0, 1}
  BY Constants DEF Types, GPU
<1>3. SUFFICES ASSUME NEW h \in GPU
               PROVE  DriverOf(h)'
  BY DEF Driver, DriverOf
<1>4. DriverOf(h)
  BY DEF Driver, DriverOf
<1>5. ASSUME NEW g \in GPU, DmaLands(g)
      PROVE  DriverOf(h)'
  BY <1>1, <1>2, <1>4, <1>5 DEF DriverOf, DmaLands
<1>6. ASSUME NEW g \in GPU, Ring(g)
      PROVE  DriverOf(h)'
  BY <1>1, <1>2, <1>4, <1>6 DEF DriverOf, Ring, HostGoto, memoryVars
<1>7. CASE QueuePatches
  BY <1>1, <1>2, <1>4, <1>7 DEF DriverOf, QueuePatches, HostGoto, memoryVars
<1>8. CASE Halt(0) \/ Halt(1)
  BY <1>1, <1>2, <1>4, <1>8 DEF DriverOf, Halt, HostGoto, memoryVars
<1>9. CASE Return
  BY <1>1, <1>2, <1>4, <1>9 DEF DriverOf, Return, BothDone, HostGoto, memoryVars
<1>10. CASE SyncFails \/ Timeout \/ Close
  BY <1>1, <1>2, <1>4, <1>10 DEF DriverOf, SyncFails, Timeout, Close, HostGoto, memoryVars
<1>11. QED
  BY <1>5, <1>6, <1>7, <1>8, <1>9, <1>10 DEF DriverOf, HostStep

\* A block enters a pass only at its doorbell, and reads the seqno patched for it.
LEMMA BlockCurrent ==
  ASSUME StaleLines = {}, Types, Places, LockStep, Driver, Current,
         NEW g \in GPU, NEW b \in Block, BlockStep(g, b)
  PROVE  Current'
<1>1. UNCHANGED <<doorbell, dma, hpc, hpass, progSeqno>>
  BY BlockFrameHost
<1>2. /\ pass[g][b] \in Nat \ {0} /\ pass[g][0] \in Nat \ {0} /\ hpass \in 0 .. MaxPass
      /\ MaxPass \in Nat /\ HALT \in Nat /\ MaxPass < HALT /\ done[g] \in Nat
      /\ site[g][b] \in Nat /\ Sites \in Nat
  BY PlaceNats, Constants DEF Types
<1>3. /\ pass[g][b] <= hpass + 1
      /\ InPass(g, b) => pass[g][b] <= hpass
      /\ InPass(g, b) /\ pass[g][b] = hpass => doorbell[g] \in {hpass, HALT}
      /\ InPass(g, b) /\ ~ Finishing(g, b) => pass[g][b] = hpass /\ doorbell[g] = hpass
      /\ pc[g][b] \in {"publish", "poll", "fold"} => a[g][b] = pass[g][b]
  BY DEF Current
<1>4. SUFFICES /\ pass'[g][b] <= hpass + 1
               /\ InPass(g, b)' => pass'[g][b] <= hpass
               /\ InPass(g, b)' /\ pass'[g][b] = hpass => doorbell[g] \in {hpass, HALT}
               /\ InPass(g, b)' /\ ~ Finishing(g, b)' => pass'[g][b] = hpass /\ doorbell[g] = hpass
               /\ pc'[g][b] \in {"publish", "poll", "fold"} => a'[g][b] = pass'[g][b]
  <2>1. ASSUME NEW h \in GPU, NEW c \in Block, h # g \/ c # b
        PROVE  /\ pass'[h][c] <= hpass' + 1
               /\ InPass(h, c)' => pass'[h][c] <= hpass'
               /\ InPass(h, c)' /\ pass'[h][c] = hpass' => doorbell'[h] \in {hpass', HALT}
               /\ InPass(h, c)' /\ ~ Finishing(h, c)' =>
                    pass'[h][c] = hpass' /\ doorbell'[h] = hpass'
               /\ pc'[h][c] \in {"publish", "poll", "fold"} => a'[h][c] = pass'[h][c]
    <3>1. /\ pc'[h][c] = pc[h][c] /\ pass'[h][c] = pass[h][c] /\ site'[h][c] = site[h][c]
          /\ a'[h][c] = a[h][c]
      BY <2>1, BlockFrame
    <3>2. QED
      BY <1>1, <3>1 DEF Current, InPass, Finishing
  <2>2. QED
    BY <1>1, <2>1 DEF Current
<1>5. CASE Doorbell(g, b)
  <2>1. pc[g][b] = "bell" /\ pass'[g][b] = pass[g][b]
    BY <1>5, Moves DEF Works, Stays
  <2>2. CASE pc'[g][b] = "exit"
    BY <1>2, <1>3, <2>1, <2>2 DEF InPass
  <2>3. CASE pc'[g][b] = "compute"
    <3>1. doorbell[g] # HALT /\ doorbell[g] >= pass[g][b]
      BY <1>5, <2>3 DEF Doorbell, Goto, Types
    <3>2. pass[g][b] >= pass[g][0]
      BY <2>1, BehindZero DEF Finishing
    <3>3. done[g] = pass[g][0] - 1 /\ done[g] \in {hpass - 1, hpass}
          /\ doorbell[g] \in {hpass - 1, hpass}
      BY <3>1 DEF Driver, DriverOf
    <3>4. pass[g][b] = hpass /\ doorbell[g] = hpass
      BY <1>2, <3>1, <3>2, <3>3
    <3>5. QED
      BY <1>2, <2>1, <2>3, <3>4
  <2>4. QED
    BY <1>5, <2>2, <2>3, Moves
<1>6. CASE ReadArgs(g, b)
  <2>1. pc[g][b] = "reduce" /\ pc'[g][b] = "publish" /\ pass'[g][b] = pass[g][b]
    BY <1>6, Moves DEF Works, Stays
  <2>2. pass[g][b] = hpass /\ doorbell[g] = hpass
    BY <1>3, <2>1 DEF InPass, Finishing
  <2>3. progSeqno[g] = hpass
    BY <1>2, <2>2 DEF Driver, DriverOf
  <2>4. a'[g][b] = progSeqno[g]
    BY <1>6, ArgsRead DEF Types
  <2>5. QED
    BY <1>2, <2>1, <2>2, <2>3, <2>4
<1>7. CASE Leave(g, b)
  <2>1. CASE pc[g][b] = "folded" /\ site[g][b] = Sites
    <3>1. pass'[g][b] = pass[g][b] + 1 /\ pc'[g][b] = "bell"
      BY <1>2, <1>7, <2>1, LeaveMoves
    <3>2. pass[g][b] <= hpass
      BY <1>3, <2>1 DEF InPass
    <3>3. QED
      BY <1>2, <3>1, <3>2 DEF InPass
  <2>2. CASE ~ (pc[g][b] = "folded" /\ site[g][b] = Sites)
    <3>1. pass'[g][b] = pass[g][b] /\ pc'[g][b] \in {"push", "reduce", "compute"}
          /\ pc[g][b] \in {"computed", "pushed", "folded"}
      BY <1>7, <2>2, LeaveMoves
    <3>2. pass[g][b] = hpass /\ doorbell[g] = hpass
      BY <1>3, <2>2, <3>1 DEF InPass, Finishing
    <3>3. QED
      BY <1>2, <3>1, <3>2
  <2>3. QED
    BY <2>1, <2>2
<1>8. CASE ~ Doorbell(g, b) /\ ~ ReadArgs(g, b) /\ ~ Leave(g, b)
  <2>1. /\ pc[g][b] \in {"compute", "push", "membar", "publish", "poll", "fold"}
        /\ pass'[g][b] = pass[g][b]
        /\ pc'[g][b] \in {"poll", "fold"} => pc[g][b] \in {"publish", "poll"}
        /\ pc'[g][b] # "publish"
    BY <1>8, Moves DEF BlockStep, Works, Waits, Stays
  <2>2. pass[g][b] = hpass /\ doorbell[g] = hpass
    BY <1>3, <2>1 DEF InPass, Finishing
  <2>3. a' = a
    BY <1>8 DEF BlockStep, Compute, Push, Membar, Publish, Poll, Fold, memoryVars
  <2>4. QED
    BY <1>2, <1>3, <2>1, <2>2, <2>3
<1>9. QED
  BY <1>5, <1>6, <1>7, <1>8

\* No block is inside a pass when the host goes on to the next.
LEMMA HostCurrent ==
  ASSUME Types, Places, LockStep, Driver, Current, HostStep
  PROVE  Current'
<1>1. UNCHANGED <<pc, pass, site, a>>
  BY HostFrame DEF blockVars
<1>2. /\ hpass \in 0 .. MaxPass /\ MaxPass \in Nat /\ HALT \in Nat /\ MaxPass < HALT
      /\ doorbell \in [GPU -> 0 .. MaxPass \cup {HALT}]
      /\ pass \in [GPU -> [Block -> Nat \ {0}]]
  BY Constants DEF Types
<1>3. SUFFICES ASSUME NEW h \in GPU, NEW c \in Block
               PROVE  /\ pass[h][c] <= hpass' + 1
                      /\ InPass(h, c) => pass[h][c] <= hpass'
                      /\ InPass(h, c) /\ pass[h][c] = hpass' => doorbell'[h] \in {hpass', HALT}
                      /\ InPass(h, c) /\ ~ Finishing(h, c) =>
                           pass[h][c] = hpass' /\ doorbell'[h] = hpass'
  BY <1>1 DEF Current, InPass, Finishing
<1>4. /\ pass[h][c] <= hpass + 1
      /\ InPass(h, c) => pass[h][c] <= hpass
      /\ InPass(h, c) /\ pass[h][c] = hpass => doorbell[h] \in {hpass, HALT}
      /\ InPass(h, c) /\ ~ Finishing(h, c) => pass[h][c] = hpass /\ doorbell[h] = hpass
  BY DEF Current
<1>5. pass[h][c] \in Nat
  BY <1>2
<1>6. CASE QueuePatches
  <2>1. hpass' = hpass + 1 /\ done[h] = hpass
    BY <1>6 DEF QueuePatches, Driver, DriverOf
  <2>2. InPass(h, c) => Finishing(h, c) /\ pass[h][c] = hpass
    BY <2>1, DoneIsLast
  <2>3. QED
    BY <1>2, <1>4, <1>5, <2>1, <2>2
<1>7. ASSUME NEW g \in GPU, Halt(g)
      PROVE  /\ pass[h][c] <= hpass' + 1
             /\ InPass(h, c) => pass[h][c] <= hpass'
             /\ InPass(h, c) /\ pass[h][c] = hpass' => doorbell'[h] \in {hpass', HALT}
             /\ InPass(h, c) /\ ~ Finishing(h, c) =>
                  pass[h][c] = hpass' /\ doorbell'[h] = hpass'
  <2>1. hpass' = hpass /\ done[h] = hpass /\ doorbell' = [doorbell EXCEPT ![g] = HALT]
    BY <1>7 DEF Halt, Driver, DriverOf
  <2>2. InPass(h, c) => Finishing(h, c) /\ pass[h][c] = hpass
    BY <2>1, DoneIsLast
  <2>3. QED
    BY <1>2, <1>4, <1>7, <2>1, <2>2
<1>8. ASSUME NEW g \in GPU, Ring(g)
      PROVE  /\ hpass' = hpass /\ doorbell'[h] \in {doorbell[h], hpass}
  BY <1>2, <1>8 DEF Ring
<1>9. CASE ~ QueuePatches /\ ~ Halt(0) /\ ~ Halt(1) /\ ~ \E g \in GPU : Ring(g)
  <2>1. UNCHANGED <<hpass, doorbell>>
    BY <1>9 DEF HostStep, DmaLands, SyncFails, Timeout, Return, Close
  <2>2. QED
    BY <1>4, <2>1
<1>10. CASE \E g \in GPU : Ring(g)
  BY <1>2, <1>4, <1>8, <1>10
<1>11. QED
  BY <1>6, <1>7, <1>9, <1>10 DEF GPU

-----------------------------------------------------------------------------
(***************************************************************************)
(* The vector in proj_out.                                                 *)
(***************************************************************************)

\* All blocks are at the site of a block that is inside a window of PUSH or REDUCE.
LEMMA SameSite ==
  ASSUME Types, Places, LockStep, NEW g \in GPU, NEW b \in Block, NEW c \in Block,
         Window(pc[g][b]) # 0, ~ AtBoundary(pc[g][b])
  PROVE  /\ pass[g][c] = pass[g][b] /\ site[g][c] = site[g][b]
         /\ Window(pc[g][c]) <= Window(pc[g][b])
         /\ \/ Window(pc[g][c]) = Window(pc[g][b])
            \/ AtBoundary(pc[g][c]) /\ Window(pc[g][b]) = Window(pc[g][c]) + 1
<1>1. /\ pass[g][b] \in Nat /\ pass[g][c] \in Nat
      /\ site[g][b] \in Nat /\ site[g][c] \in Nat
  BY PlaceNats
<1>2. pc[g][b] # "folded" /\ Window(pc[g][c]) \in 0 .. 2 /\ Window(pc[g][b]) \in 0 .. 2
  BY DEF AtBoundary, Window
<1>3. /\ \/ pass[g][b] < pass[g][c]
         \/ pass[g][b] = pass[g][c] /\ site[g][b] < site[g][c]
         \/ /\ pass[g][b] = pass[g][c] /\ site[g][b] = site[g][c]
            /\ \/ Window(pc[g][b]) <= Window(pc[g][c])
               \/ AtBoundary(pc[g][c]) /\ Window(pc[g][b]) = Window(pc[g][c]) + 1
  BY LockCases
<1>4. /\ \/ pass[g][c] < pass[g][b]
         \/ pass[g][c] = pass[g][b] /\ site[g][c] < site[g][b]
         \/ /\ pass[g][c] = pass[g][b] /\ site[g][c] = site[g][b]
            /\ Window(pc[g][c]) <= Window(pc[g][b])
  BY <1>2, LockCases
<1>5. QED
  BY <1>1, <1>2, <1>3, <1>4

\* What a block pushes is the partial of its site.
LEMMA PushedIsPartial ==
  ASSUME Types, Places, LockStep, Vectors, NEW g \in GPU, NEW b \in Block, pc[g][b] = "push",
         NEW e \in Elem
  PROVE  projOut[g][e] = Partial(g, pass[g][b], site[g][b])
<1>1. ComputeBy[e] \in Block /\ ReduceBy[e] \in Block
  BY Constants
<1>2. Window(pc[g][b]) = 1 /\ ~ AtBoundary(pc[g][b])
  BY DEF Window, AtBoundary, Projecting, Pushing
<1>3. /\ pass[g][ComputeBy[e]] = pass[g][b] /\ site[g][ComputeBy[e]] = site[g][b]
      /\ \/ Window(pc[g][ComputeBy[e]]) = 1
         \/ AtBoundary(pc[g][ComputeBy[e]])
  BY <1>1, <1>2, SameSite
<1>4. /\ pass[g][ReduceBy[e]] = pass[g][b] /\ site[g][ReduceBy[e]] = site[g][b]
      /\ Window(pc[g][ReduceBy[e]]) <= 1
  BY <1>1, <1>2, SameSite
<1>5. pc[g][ComputeBy[e]] \notin {"bell", "compute", "exit"}
  BY <1>3 DEF Window, AtBoundary, Projecting
<1>6. pc[g][ReduceBy[e]] # "folded"
  BY <1>4 DEF Window, Projecting, Pushing
<1>7. pass[g][b] \in Nat /\ site[g][b] \in Nat
  BY PlaceNats
<1>8. QED
  BY <1>3, <1>4, <1>5, <1>6, <1>7 DEF Vectors, HasFolded

-----------------------------------------------------------------------------
(***************************************************************************)
(* The mailboxes.                                                          *)
(***************************************************************************)

\* What a block has done of a site survives its leaving the site.
LEMMA LeaveLastPass ==
  ASSUME Types, NEW g \in GPU, NEW b \in Block, Leave(g, b), NEW s \in Site,
         NEW D, NEW D1, IF pc[g][b] = "folded" THEN D /\ ~ D1 ELSE (D <=> D1)
  PROVE  (IF s < site'[g][b] \/ (s = site'[g][b] /\ D1) THEN pass'[g][b] ELSE pass'[g][b] - 1)
           = IF s < site[g][b] \/ (s = site[g][b] /\ D) THEN pass[g][b] ELSE pass[g][b] - 1
<1>1. s \in 1 .. Sites /\ site[g][b] \in 1 .. Sites /\ Sites \in Nat /\ pass[g][b] \in Nat
  BY Constants DEF Types, Site
<1>2. CASE pc[g][b] = "folded"
  <2>1. CASE site[g][b] < Sites
    <3>1. site'[g][b] = site[g][b] + 1 /\ pass'[g][b] = pass[g][b]
      BY <1>1, <1>2, <2>1, LeaveMoves
    <3>2. QED
      BY <1>1, <1>2, <3>1
  <2>2. CASE site[g][b] = Sites
    <3>1. site'[g][b] = 1 /\ pass'[g][b] = pass[g][b] + 1
      BY <1>1, <1>2, <2>2, LeaveMoves
    <3>2. QED
      BY <1>1, <1>2, <2>2, <3>1
  <2>3. QED
    BY <1>1, <2>1, <2>2
<1>3. CASE pc[g][b] # "folded"
  <2>1. site'[g][b] = site[g][b] /\ pass'[g][b] = pass[g][b]
    BY <1>3, LeaveMoves
  <2>2. QED
    BY <1>3, <2>1
<1>4. QED
  BY <1>2, <1>3

\* The seqno of a site is that of the last pass block 0 has published it in.
LEMMA BlockSeqnos ==
  ASSUME Types, Current, Seqnos, NEW g \in GPU, NEW b \in Block, BlockStep(g, b)
  PROVE  Seqnos'
<1>1. SUFFICES ASSUME NEW h \in GPU, NEW s \in Site
               PROVE  seqno'[Peer(h)][s] = LastPass(h, 0, s, Published(h, 0))'
  BY DEF Seqnos
<1>2. seqno[Peer(h)][s] = LastPass(h, 0, s, Published(h, 0)) /\ 0 \in Block
  BY Constants DEF Seqnos
<1>3. CASE Publish(g, b) /\ b = 0 /\ h = g
  <2>1. seqno' = [seqno EXCEPT ![Peer(g)][site[g][0]] = pass[g][0]]
    BY <1>3 DEF Publish, Mailbox, Current
  <2>2. /\ pc[g][0] = "publish" /\ pc'[g][0] = "poll"
        /\ pass'[g][0] = pass[g][0] /\ site'[g][0] = site[g][0]
    BY <1>3, Moves DEF Works, Stays
  <2>3. seqno'[Peer(g)][s] = IF s = site[g][0] THEN pass[g][0] ELSE seqno[Peer(g)][s]
    <3>1. /\ seqno \in [GPU -> [Site -> 0 .. MaxPass]] /\ Peer(g) \in GPU
          /\ site[g][0] \in Site
      BY <1>2, Peers, PlaceNats DEF Types
    <3>2. QED
      BY <2>1, <3>1
  <2>4. QED
    BY <1>2, <1>3, <2>2, <2>3 DEF LastPass, Published
<1>4. CASE ~ (Publish(g, b) /\ b = 0 /\ h = g)
  <2>1. seqno'[Peer(h)][s] = seqno[Peer(h)][s]
    <3>1. CASE Publish(g, b) /\ b = 0
      <4>1. Peer(h) # Peer(g) /\ Peer(g) \in GPU /\ Peer(h) \in GPU
        BY <1>4, <3>1, Peers
      <4>2. seqno' = [seqno EXCEPT ![Peer(g)][site[g][0]] = a[g][0]]
        BY <3>1 DEF Publish, Mailbox
      <4>3. QED
        BY <4>1, <4>2 DEF Types
    <3>2. CASE Publish(g, b) /\ b # 0
      BY <3>2 DEF Publish
    <3>3. CASE ~ Publish(g, b)
      BY <3>3, BlockFrameHost
    <3>4. QED
      BY <3>1, <3>2, <3>3
  <2>2. CASE h # g \/ b # 0
    <3>1. /\ pc'[h][0] = pc[h][0] /\ pass'[h][0] = pass[h][0] /\ site'[h][0] = site[h][0]
      BY <1>2, <2>2, BlockFrame
    <3>2. QED
      BY <1>2, <2>1, <3>1 DEF LastPass, Published
  <2>3. CASE h = g /\ b = 0 /\ Leave(g, b)
    <3>1. IF pc[g][b] = "folded" THEN Published(g, b) /\ ~ Published(g, b)'
                                 ELSE Published(g, b) <=> Published(g, b)'
      BY <2>3, LeaveMoves DEF Published
    <3>2. LastPass(g, b, s, Published(g, b))' = LastPass(g, b, s, Published(g, b))
      BY <2>3, <3>1, LeaveLastPass DEF LastPass
    <3>3. QED
      BY <1>2, <2>1, <2>3, <3>2
  <2>4. CASE h = g /\ b = 0 /\ ~ Leave(g, b)
    <3>1. Stays(g, b)
      BY <2>4, StepStays
    <3>2. Published(g, b)' <=> Published(g, b)
      BY <1>4, <2>4, Moves DEF BlockStep, Published
    <3>3. QED
      BY <1>2, <2>1, <2>4, <3>1, <3>2 DEF LastPass, Stays
  <2>5. QED
    BY <2>2, <2>3, <2>4
<1>5. QED
  BY <1>3, <1>4

\* Outside the flight of its stores, what a block has sent is told by where it is.
LEMMA SentBy ==
  ASSUME Flights, NEW g \in GPU, NEW b \in Block, NEW e \in Elem
  PROVE  /\ pc[g][b] \notin {"push", "membar"} =>
              (Sent(g, b, e) <=> pc[g][b] \in {"pushed"} \cup Reducing)
         /\ pc[g][b] = "push" => ~ Sent(g, b, e)
         /\ pc[g][b] = "membar" /\ inFlight[g][b] = {} => Sent(g, b, e)
BY DEF Sent, Reducing

\* What a block has in flight are its elements of the partial of its round.
LEMMA BlockFlights ==
  ASSUME StaleLines = {}, Types, Places, LockStep, Vectors, Flights,
         NEW g \in GPU, NEW b \in Block, BlockStep(g, b)
  PROVE  Flights'
<1>1. SUFFICES ASSUME NEW h \in GPU, NEW c \in Block
               PROVE  /\ pc'[h][c] # "membar" => inFlight'[h][c] = {}
                      /\ inFlight'[h][c] \subseteq
                           {<<site'[h][c], e, Partial(h, pass'[h][c], site'[h][c])>>
                              : e \in Mine(PushBy, c)}
  BY DEF Flights, Partial
<1>2. /\ pc[h][c] # "membar" => inFlight[h][c] = {}
      /\ inFlight[h][c] \subseteq
           {<<site[h][c], e, Partial(h, pass[h][c], site[h][c])>> : e \in Mine(PushBy, c)}
  BY DEF Flights
<1>3. CASE h # g \/ c # b
  <2>1. /\ pc'[h][c] = pc[h][c] /\ pass'[h][c] = pass[h][c] /\ site'[h][c] = site[h][c]
        /\ inFlight'[h][c] = inFlight[h][c]
    BY <1>3, BlockFrame
  <2>2. QED
    BY <1>2, <2>1
<1>4. CASE h = g /\ c = b /\ Push(g, b)
  <2>1. /\ pc[g][b] = "push" /\ pc'[g][b] = "membar"
        /\ pass'[g][b] = pass[g][b] /\ site'[g][b] = site[g][b]
    BY <1>4, Moves DEF Works, Stays
  <2>2. inFlight'[g][b] = {<<site[g][b], e, projOut[g][e]>> : e \in Mine(PushBy, b)}
    BY <1>4, PushStores DEF Types
  <2>3. \A e \in Mine(PushBy, b) : projOut[g][e] = Partial(g, pass[g][b], site[g][b])
    BY <2>1, PushedIsPartial DEF Mine
  <2>4. QED
    BY <1>4, <2>1, <2>2, <2>3
<1>5. CASE h = g /\ c = b /\ ~ Push(g, b)
  <2>1. inFlight' = inFlight
    BY <1>5 DEF BlockStep, Doorbell, Compute, Membar, ReadArgs, Publish, Poll, Fold, Leave,
                memoryVars
  <2>2. inFlight[g][b] = {}
    <3>1. CASE Membar(g, b)
      BY <3>1 DEF Membar
    <3>2. CASE ~ Membar(g, b)
      <4>1. pc[g][b] # "membar"
        BY <1>5, <3>2, Moves, LeaveMoves DEF BlockStep
      <4>2. QED
        BY <1>2, <1>5, <4>1
    <3>3. QED
      BY <3>1, <3>2
  <2>3. QED
    BY <1>5, <2>1, <2>2
<1>6. QED
  BY <1>3, <1>4, <1>5

\* A block's step sends nothing twice: its own part of a site is sent when its last
\* store has landed, which Membar waits for.
LEMMA BlockPayloads ==
  ASSUME StaleLines = {}, Types, Places, LockStep, Vectors, Flights, Payloads,
         NEW g \in GPU, NEW b \in Block, BlockStep(g, b)
  PROVE  Payloads'
<1>1. SUFFICES ASSUME NEW h \in GPU, NEW s \in Site, NEW e \in Elem
               PROVE  LastPass(h, PushBy[e], s, Sent(h, PushBy[e], e))'
                        = LastPass(h, PushBy[e], s, Sent(h, PushBy[e], e))
  <2>1. payload' = payload
    BY BlockFrameHost
  <2>2. QED
    BY <1>1, <2>1 DEF Payloads, Payload, Partial
<1>2. PushBy[e] \in Block
  BY Constants
<1>3. CASE h # g \/ PushBy[e] # b
  <2>1. /\ pc'[h][PushBy[e]] = pc[h][PushBy[e]] /\ pass'[h][PushBy[e]] = pass[h][PushBy[e]]
        /\ site'[h][PushBy[e]] = site[h][PushBy[e]]
        /\ inFlight'[h][PushBy[e]] = inFlight[h][PushBy[e]]
    BY <1>2, <1>3, BlockFrame
  <2>2. QED
    BY <2>1 DEF LastPass, Sent, Partial
<1>4. CASE h = g /\ PushBy[e] = b /\ Leave(g, b)
  <2>1. IF pc[g][b] = "folded" THEN Sent(g, b, e) /\ ~ Sent(g, b, e)'
                               ELSE Sent(g, b, e) <=> Sent(g, b, e)'
    BY <1>4, LeaveMoves DEF Sent, Reducing
  <2>2. QED
    BY <1>4, <2>1, LeaveLastPass DEF LastPass
<1>5. CASE h = g /\ PushBy[e] = b /\ ~ Leave(g, b)
  <2>1. pass'[g][b] = pass[g][b] /\ site'[g][b] = site[g][b]
    BY <1>5, StepStays DEF Stays
  <2>2. Sent(g, b, e)' <=> Sent(g, b, e)
    <3>1. CASE Push(g, b)
      <4>1. pc[g][b] = "push" /\ pc'[g][b] = "membar"
        BY <3>1, Moves
      <4>2. inFlight'[g][b] = {<<site[g][b], x, projOut[g][x]>> : x \in Mine(PushBy, b)}
        <5>1. inFlight \in [GPU -> [Block -> SUBSET (Site \X Elem \X Sums)]]
          BY DEF Types
        <5>2. inFlight' = [inFlight EXCEPT ![g][b] =
                {<<site[g][b], x, projOut[g][x]>> : x \in Mine(PushBy, b)}]
          BY <3>1, PushStores
        <5>3. QED
          BY <5>1, <5>2
      <4>3. projOut[g][e] = Partial(g, pass[g][b], site[g][b]) /\ e \in Mine(PushBy, b)
        BY <1>5, <4>1, PushedIsPartial DEF Mine
      <4>4. <<site[g][b], e, Partial(g, pass[g][b], site[g][b])>> \in inFlight'[g][b]
        BY <4>2, <4>3
      <4>5. QED
        BY <2>1, <4>1, <4>4 DEF Sent, Reducing, Partial
    <3>2. CASE Membar(g, b)
      <4>1. pc[g][b] = "membar" /\ pc'[g][b] = "pushed" /\ inFlight[g][b] = {}
        BY <3>2, Moves DEF Membar
      <4>2. QED
        BY <4>1 DEF Sent
    <3>3. CASE ~ Push(g, b) /\ ~ Membar(g, b)
      BY <1>5, <3>3, Moves DEF BlockStep, Sent, Reducing
    <3>4. QED
      BY <3>1, <3>2, <3>3
  <2>3. QED
    BY <1>5, <2>1, <2>2 DEF LastPass
<1>6. QED
  BY <1>3, <1>4, <1>5

\* A store lands where it belongs.
LEMMA LandStore ==
  ASSUME Types, Flights, NEW g \in GPU, NEW b \in Block, Land(g, b)
  PROVE  /\ pc[g][b] = "membar"
         /\ \E e0 \in Mine(PushBy, b) :
              LET st == <<site[g][b], e0, Partial(g, pass[g][b], site[g][b])>> IN
                /\ inFlight' = [inFlight EXCEPT ![g][b] = inFlight[g][b] \ {st}]
                /\ payload' = [payload EXCEPT ![Peer(g)][site[g][b]][e0] =
                                 Partial(g, pass[g][b], site[g][b])]
<1>1. PICK st \in inFlight[g][b] :
        /\ inFlight' = [inFlight EXCEPT ![g][b] = inFlight[g][b] \ {st}]
        /\ payload' = [payload EXCEPT ![Peer(g)][st[1]][st[2]] = st[3]]
  BY DEF Land
<1>2. pc[g][b] = "membar"
  BY <1>1 DEF Flights
<1>3. PICK e0 \in Mine(PushBy, b) :
        st = <<site[g][b], e0, Partial(g, pass[g][b], site[g][b])>>
  BY <1>1 DEF Flights
<1>4. QED
  BY <1>1, <1>2, <1>3

\* A landing store moves its element from the flight to the mailbox.
LEMMA LandMailboxes ==
  ASSUME Types, Flights, Payloads, NEW g \in GPU, NEW b \in Block, Land(g, b)
  PROVE  Flights' /\ Payloads'
<1>1. UNCHANGED <<pc, pass, site>>
  BY LandFrame DEF blockVars
<1>2. PICK e0 \in Mine(PushBy, b) :
        /\ inFlight' = [inFlight EXCEPT ![g][b] = inFlight[g][b] \
             {<<site[g][b], e0, Partial(g, pass[g][b], site[g][b])>>}]
        /\ payload' = [payload EXCEPT ![Peer(g)][site[g][b]][e0] =
                         Partial(g, pass[g][b], site[g][b])]
  BY LandStore
<1>3. pc[g][b] = "membar" /\ e0 \in Elem /\ PushBy[e0] = b
  BY LandStore DEF Mine
<1>4. inFlight \in [GPU -> [Block -> SUBSET (Site \X Elem \X Sums)]]
      /\ payload \in [GPU -> [Site -> [Elem -> Sums]]]
  BY DEF Types
<1>5. \A h \in GPU, c \in Block :
        inFlight'[h][c] = IF h = g /\ c = b
                          THEN inFlight[g][b] \
                                 {<<site[g][b], e0, Partial(g, pass[g][b], site[g][b])>>}
                          ELSE inFlight[h][c]
  BY <1>2, <1>4
<1>6. Flights'
  BY <1>1, <1>5 DEF Flights, Partial
<1>7. \A h \in GPU, s \in Site, e \in Elem :
        payload'[h][s][e] = IF h = Peer(g) /\ s = site[g][b] /\ e = e0
                            THEN Partial(g, pass[g][b], site[g][b])
                            ELSE payload[h][s][e]
  <2>1. Peer(g) \in GPU /\ site[g][b] \in Site
    BY Peers, PlaceNats
  <2>2. QED
    BY <1>2, <1>3, <1>4, <2>1
<1>8. SUFFICES ASSUME NEW h \in GPU, NEW s \in Site, NEW e \in Elem
               PROVE  payload'[Peer(h)][s][e] =
                        Payload(h, LastPass(h, PushBy[e], s, Sent(h, PushBy[e], e))', s)
  BY <1>6 DEF Payloads, Payload, Partial
<1>9. payload[Peer(h)][s][e] =
        Payload(h, LastPass(h, PushBy[e], s, Sent(h, PushBy[e], e)), s)
  BY DEF Payloads
<1>10. PushBy[e] \in Block
  BY Constants
<1>11. CASE h = g /\ s = site[g][b] /\ e = e0
  <2>1. Sent(g, b, e0)'
    BY <1>1, <1>3, <1>5 DEF Sent, Partial
  <2>2. LastPass(g, b, s, Sent(g, b, e0))' = pass[g][b] /\ pass[g][b] # 0
    BY <1>1, <1>11, <2>1, PlaceNats DEF LastPass
  <2>3. QED
    BY <1>3, <1>7, <1>11, <2>2, Peers DEF Payload
<1>12. CASE ~ (h = g /\ s = site[g][b] /\ e = e0)
  <2>1. payload'[Peer(h)][s][e] = payload[Peer(h)][s][e]
    <3>1. Peer(h) = Peer(g) => h = g
      BY Peers
    <3>2. QED
      BY <1>7, <1>12, <3>1, Peers
  <2>2. CASE h = g /\ PushBy[e] = b /\ s = site[g][b]
    <3>1. Sent(g, b, e)' <=> Sent(g, b, e)
      <4>1. e # e0
        BY <1>12, <2>2
      <4>2. <<site[g][b], e, Partial(g, pass[g][b], site[g][b])>> \in inFlight'[g][b]
              <=> <<site[g][b], e, Partial(g, pass[g][b], site[g][b])>> \in inFlight[g][b]
        BY <1>5, <4>1
      <4>3. QED
        BY <1>1, <4>2 DEF Sent, Partial
    <3>2. QED
      BY <1>1, <1>9, <2>1, <2>2, <3>1 DEF LastPass
  <2>3. CASE h = g /\ PushBy[e] = b /\ s # site[g][b]
    BY <1>1, <1>9, <2>1, <2>3 DEF LastPass
  <2>4. CASE h # g \/ PushBy[e] # b
    <3>1. Sent(h, PushBy[e], e)' <=> Sent(h, PushBy[e], e)
      BY <1>1, <1>5, <1>10, <2>4 DEF Sent, Partial
    <3>2. QED
      BY <1>1, <1>9, <2>1, <3>1 DEF LastPass
  <2>5. QED
    BY <2>2, <2>3, <2>4
<1>13. QED
  BY <1>11, <1>12

-----------------------------------------------------------------------------
(***************************************************************************)
(* What a seqno says.                                                      *)
(***************************************************************************)

\* When block 0 has published a round, every block has sent its part of it.
LEMMA PublishedIsSent ==
  ASSUME Types, Places, LockStep, NEW g \in GPU, NEW c \in Block, NEW s \in Site, NEW e \in Elem
  PROVE  LastPass(g, 0, s, Published(g, 0)) <= LastPass(g, c, s, Sent(g, c, e))
<1>1. /\ pass[g][0] \in Nat /\ pass[g][c] \in Nat /\ site[g][0] \in Nat /\ site[g][c] \in Nat
      /\ 0 \in Block /\ s \in Nat /\ s <= Sites /\ Sites \in Nat
  BY PlaceNats, Constants DEF Site
<1>2. CASE pass[g][0] < pass[g][c]
  BY <1>1, <1>2 DEF LastPass
<1>3. CASE pass[g][0] = pass[g][c] /\ site[g][0] < site[g][c]
  BY <1>1, <1>3 DEF LastPass
<1>4. CASE /\ pass[g][0] = pass[g][c] /\ site[g][0] = site[g][c]
           /\ \/ Window(pc[g][0]) <= Window(pc[g][c])
              \/ AtBoundary(pc[g][c]) /\ Window(pc[g][0]) = Window(pc[g][c]) + 1
  <2>1. Published(g, 0) => Sent(g, c, e)
    <3>1. pc[g][c] \in Projecting \cup Pushing \cup Reducing
      BY DEF Types
    <3>2. Published(g, 0) => Window(pc[g][0]) = 2
      BY DEF Published, Window, Projecting, Pushing
    <3>3. Published(g, 0) => pc[g][c] \in {"pushed"} \cup Reducing
      BY <1>4, <3>1, <3>2 DEF Window, AtBoundary, Projecting, Pushing, Reducing
    <3>4. QED
      BY <3>3 DEF Sent
  <2>2. QED
    BY <1>1, <1>4, <2>1 DEF LastPass
<1>5. CASE /\ pc[g][c] = "folded" /\ Window(pc[g][0]) = 0
           /\ \/ pass[g][0] = pass[g][c] /\ site[g][0] = site[g][c] + 1
              \/ pass[g][0] = pass[g][c] + 1 /\ site[g][0] = 1 /\ site[g][c] = Sites
  <2>1. Sent(g, c, e)
    BY <1>5 DEF Sent, Reducing
  <2>2. ~ Published(g, 0)
    BY <1>5 DEF Published, Window, Projecting, Pushing
  <2>3. s >= 1
    BY Constants DEF Site
  <2>4. QED
    BY <1>1, <1>5, <2>1, <2>2, <2>3 DEF LastPass
<1>6. QED
  BY <1>1, <1>2, <1>3, <1>4, <1>5, LockCases

\* Nothing is sent ahead of the pass that was rung last.
LEMMA SentIsRung ==
  ASSUME Types, Places, Current, NEW g \in GPU, NEW c \in Block, NEW s \in Site, NEW e \in Elem
  PROVE  LastPass(g, c, s, Sent(g, c, e)) \in 0 .. hpass
<1>1. /\ pass[g][c] \in Nat \ {0} /\ site[g][c] \in Nat /\ s \in Nat \ {0} /\ hpass \in Nat
      /\ pass[g][c] <= hpass + 1
  <2>1. hpass \in Nat
    BY Constants DEF Types
  <2>2. pass[g][c] <= hpass + 1
    BY DEF Current
  <2>3. QED
    BY <2>1, <2>2, PlaceNats, Constants
<1>2. CASE InPass(g, c)
  <2>1. pass[g][c] <= hpass
    BY <1>2 DEF Current
  <2>2. QED
    BY <1>1, <2>1 DEF LastPass
<1>3. CASE ~ InPass(g, c)
  <2>1. site[g][c] = 1 /\ ~ Sent(g, c, e)
    BY <1>3 DEF Places, InPass, Sent, Reducing
  <2>2. QED
    BY <1>1, <2>1 DEF LastPass
<1>4. QED
  BY <1>2, <1>3

\* A block that is not at the end of its pass is in the one that was rung last.
LEMMA InRungPass ==
  ASSUME Current, NEW g \in GPU, NEW b \in Block, pc[g][b] \notin {"bell", "exit", "folded"}
  PROVE  pass[g][b] = hpass
BY DEF Current, InPass, Finishing

\* When a block folds, every block of the peer has sent its part of the round.
LEMMA SentAtFold ==
  ASSUME Types, Places, LockStep, Current, Seqnos, Seen,
         NEW g \in GPU, NEW b \in Block, pc[g][b] = "fold", NEW c \in Block, NEW e \in Elem
  PROVE  /\ pass[g][b] = hpass
         /\ LastPass(Peer(g), c, site[g][b], Sent(Peer(g), c, e)) = hpass
<1> DEFINE h == Peer(g)
           s == site[g][b]
<1>1. /\ h \in GPU /\ Peer(h) = g /\ s \in Site /\ hpass \in Nat /\ seqno[g][s] \in Nat
  <2>1. hpass \in Nat /\ seqno \in [GPU -> [Site -> Nat]]
    BY Constants DEF Types
  <2>2. QED
    BY <2>1, Peers, PlaceNats
<1>2. pass[g][b] = hpass
  BY InRungPass
<1>3. seqno[g][s] >= hpass /\ seqno[g][s] = LastPass(h, 0, s, Published(h, 0))
  <2>1. seqno[g][s] >= pass[g][b]
    BY DEF Seen
  <2>2. seqno[Peer(h)][s] = LastPass(h, 0, s, Published(h, 0))
    BY <1>1 DEF Seqnos
  <2>3. QED
    BY <1>1, <1>2, <2>1, <2>2
<1>4. LastPass(h, 0, s, Published(h, 0)) <= LastPass(h, c, s, Sent(h, c, e))
  BY <1>1, PublishedIsSent
<1>5. LastPass(h, c, s, Sent(h, c, e)) \in 0 .. hpass
  BY <1>1, SentIsRung
<1>6. QED
  BY <1>1, <1>2, <1>3, <1>4, <1>5

\* A block that folds finds the partial of its round in the mailbox.
LEMMA PayloadAtFold ==
  ASSUME Types, Places, LockStep, Current, Seqnos, Payloads, Seen,
         NEW g \in GPU, NEW b \in Block, pc[g][b] = "fold", NEW e \in Elem
  PROVE  payload[g][site[g][b]][e] = Partial(Peer(g), pass[g][b], site[g][b])
<1> DEFINE h == Peer(g)
           c == PushBy[e]
           s == site[g][b]
<1>1. /\ h \in GPU /\ Peer(h) = g /\ c \in Block /\ s \in Site /\ pass[g][b] \in Nat \ {0}
  BY Peers, PlaceNats, Constants
<1>2. pass[g][b] = hpass /\ LastPass(h, c, s, Sent(h, c, e)) = hpass
  BY <1>1, SentAtFold
<1>3. payload[Peer(h)][s][e] = Payload(h, LastPass(h, c, s, Sent(h, c, e)), s)
  BY <1>1 DEF Payloads
<1>4. payload[g][s][e] = Payload(h, hpass, s)
  BY <1>1, <1>2, <1>3
<1>5. QED
  BY <1>1, <1>2, <1>4 DEF Payload

\* The remainder is the only one in range.
LEMMA ModUnique ==
  ASSUME NEW q \in Int, NEW r \in 0 .. PU - 1
  PROVE  (PU * q + r) % PU = r
BY ExchangeAssumption

\* The signed compare of REDUCE, of numbers that are less than half the modulus apart.
LEMMA SignedCompare ==
  ASSUME NEW q \in 0 .. MaxPass, NEW p \in 0 .. MaxPass, (q - p) % PU < PU \div 2
  PROVE  q >= p
<1>1. q \in Nat /\ p \in Nat /\ PU \in Nat \ {0, 1} /\ MaxPass \in Nat /\ 2 * MaxPass < PU
      /\ q <= MaxPass /\ p <= MaxPass
  BY ExchangeAssumption
<1>2. 2 * (PU \div 2) <= PU /\ PU \div 2 \in Nat
  BY <1>1
<1>3. SUFFICES ASSUME q < p
               PROVE  FALSE
  BY <1>1
<1>4. (q - p) % PU = PU + (q - p)
  <2>1. PU + (q - p) \in 0 .. PU - 1 /\ -1 \in Int /\ PU * (-1) + (PU + (q - p)) = q - p
    BY <1>1, <1>3
  <2>2. (PU * (-1) + (PU + (q - p))) % PU = PU + (q - p)
    BY <2>1, ModUnique
  <2>3. QED
    BY <2>1, <2>2
<1>5. QED
  BY <1>1, <1>2, <1>3, <1>4

\* Seqnos only grow.
LEMMA SeqnosGrow ==
  ASSUME Types, Current, Seqnos, NEW g \in GPU, NEW b \in Block, BlockStep(g, b),
         NEW h \in GPU, NEW s \in Site
  PROVE  seqno'[h][s] >= seqno[h][s]
<1>1. seqno \in [GPU -> [Site -> 0 .. MaxPass]] /\ MaxPass \in Nat /\ 0 \in Block
  BY Constants DEF Types
<1>2. CASE Publish(g, b) /\ b = 0
  <2>1. /\ seqno' = [seqno EXCEPT ![Peer(g)][site[g][0]] = pass[g][0]]
        /\ pc[g][0] = "publish"
    BY <1>2 DEF Publish, Mailbox, Current
  <2>2. seqno[Peer(g)][site[g][0]] = pass[g][0] - 1
    <3>1. site[g][0] \in Site /\ site[g][0] \in Nat /\ ~ Published(g, 0)
      BY <1>1, <2>1, PlaceNats DEF Published
    <3>2. QED
      BY <3>1 DEF Seqnos, LastPass
  <2>3. Peer(g) \in GPU /\ site[g][0] \in Site /\ pass[g][0] \in Nat
    BY <1>1, Peers, PlaceNats
  <2>4. seqno'[h][s] = IF h = Peer(g) /\ s = site[g][0] THEN pass[g][0] ELSE seqno[h][s]
    BY <1>1, <2>1, <2>3
  <2>5. seqno[h][s] \in Nat
    BY <1>1
  <2>6. QED
    BY <2>2, <2>3, <2>4, <2>5
<1>3. CASE ~ (Publish(g, b) /\ b = 0)
  <2>1. seqno' = seqno
    BY <1>3, BlockFrameHost DEF Publish
  <2>2. QED
    BY <1>1, <2>1
<1>4. QED
  BY <1>2, <1>3

\* A block folds only behind the seqno of its round.
LEMMA BlockSeen ==
  ASSUME StaleLines = {}, Types, Current, Seqnos, Seen, NEW g \in GPU, NEW b \in Block, BlockStep(g, b)
  PROVE  Seen'
<1>1. SUFFICES ASSUME NEW h \in GPU, NEW c \in Block, pc'[h][c] = "fold"
               PROVE  seqno'[h][site'[h][c]] >= pass'[h][c]
  BY DEF Seen
<1>2. pass[h][c] \in Nat /\ site[h][c] \in Site /\ seqno[h][site[h][c]] \in 0 .. MaxPass
      /\ MaxPass \in Nat
  <2>1. seqno \in [GPU -> [Site -> 0 .. MaxPass]]
    BY DEF Types
  <2>2. QED
    BY <2>1, PlaceNats, Constants
<1>3. pass'[h][c] = pass[h][c] /\ site'[h][c] = site[h][c]
      /\ seqno[h][site[h][c]] >= pass[h][c]
  <2>1. CASE h = g /\ c = b /\ Poll(g, b)
    <3>1. pc[g][b] = "poll" /\ pass'[g][b] = pass[g][b] /\ site'[g][b] = site[g][b]
      BY <2>1, Moves DEF Works, Stays
    <3>2. a[g][b] = pass[g][b] /\ a[g][b] \in 0 .. MaxPass
      BY <3>1 DEF Current, Types
    <3>3. (seqno[g][site[g][b]] - a[g][b]) % PU < PU \div 2
      BY <2>1 DEF Poll, Mailbox
    <3>4. QED
      BY <1>2, <2>1, <3>1, <3>2, <3>3, SignedCompare
  <2>2. CASE h # g \/ c # b
    <3>1. pc'[h][c] = pc[h][c] /\ pass'[h][c] = pass[h][c] /\ site'[h][c] = site[h][c]
      BY <2>2, BlockFrame
    <3>2. QED
      BY <1>1, <3>1 DEF Seen
  <2>3. CASE h = g /\ c = b /\ ~ Poll(g, b)
    BY <1>1, <2>3, Moves, LeaveMoves DEF BlockStep
  <2>4. QED
    BY <2>1, <2>2, <2>3
<1>4. seqno'[h][site[h][c]] >= seqno[h][site[h][c]]
  BY <1>2, SeqnosGrow
<1>5. seqno'[h][site[h][c]] \in Nat
  <2>1. Types'
    BY BlockTypes
  <2>2. seqno' \in [GPU -> [Site -> 0 .. MaxPass]]
    BY <2>1 DEF Types
  <2>3. QED
    BY <1>2, <2>2
<1>6. QED
  BY <1>2, <1>3, <1>4, <1>5

-----------------------------------------------------------------------------
(***************************************************************************)
(* The vector through a round.                                             *)
(***************************************************************************)

\* Only its Fold changes the rounds a block has folded.
LEMMA OnlyFoldFolds ==
  ASSUME Types, NEW g \in GPU, NEW b \in Block, BlockStep(g, b),
         NEW h \in GPU, NEW d \in Block, NEW p \in Nat, NEW s \in Site,
         ~ (Fold(g, b) /\ h = g /\ d = b)
  PROVE  HasFolded(h, d, p, s)' <=> HasFolded(h, d, p, s)
<1>1. /\ pass[h][d] \in Nat /\ site[h][d] \in Nat /\ site[h][d] <= Sites /\ Sites \in Nat
      /\ s \in Nat /\ s >= 1 /\ s <= Sites
  BY PlaceNats, Constants DEF Site
<1>2. CASE h # g \/ d # b
  <2>1. pc'[h][d] = pc[h][d] /\ pass'[h][d] = pass[h][d] /\ site'[h][d] = site[h][d]
    BY <1>2, BlockFrame
  <2>2. QED
    BY <2>1 DEF HasFolded
<1>3. CASE h = g /\ d = b /\ Leave(g, b)
  <2>1. CASE pc[g][b] # "folded"
    <3>1. /\ pc'[g][b] # "folded" /\ pass'[g][b] = pass[g][b] /\ site'[g][b] = site[g][b]
      BY <1>3, <2>1, LeaveMoves
    <3>2. QED
      BY <1>3, <2>1, <3>1 DEF HasFolded
  <2>2. CASE pc[g][b] = "folded" /\ site[g][b] < Sites
    <3>1. /\ pc'[g][b] # "folded" /\ pass'[g][b] = pass[g][b] /\ site'[g][b] = site[g][b] + 1
      BY <1>1, <1>3, <2>2, LeaveMoves
    <3>2. QED
      BY <1>1, <1>3, <2>2, <3>1 DEF HasFolded
  <2>3. CASE pc[g][b] = "folded" /\ site[g][b] = Sites
    <3>1. /\ pc'[g][b] # "folded" /\ pass'[g][b] = pass[g][b] + 1 /\ site'[g][b] = 1
      BY <1>1, <1>3, <2>3, LeaveMoves
    <3>2. QED
      BY <1>1, <1>3, <2>3, <3>1 DEF HasFolded
  <2>4. QED
    BY <1>1, <1>3, <2>1, <2>2, <2>3
<1>4. CASE h = g /\ d = b /\ ~ Leave(g, b)
  <2>1. pass'[g][b] = pass[g][b] /\ site'[g][b] = site[g][b]
    BY <1>4, StepStays DEF Stays
  <2>2. pc[g][b] # "folded" /\ pc'[g][b] # "folded"
    BY <1>4, Moves DEF BlockStep
  <2>3. QED
    BY <1>4, <2>1, <2>2 DEF HasFolded
<1>5. QED
  BY <1>2, <1>3, <1>4

\* A block that computes a round is ahead of every fold of it.
LEMMA ComputeBeforeFold ==
  ASSUME Types, Places, LockStep, NEW g \in GPU, NEW b \in Block, NEW d \in Block,
         pc[g][b] = "compute"
  PROVE  ~ HasFolded(g, d, pass[g][b], site[g][b])
<1>1. /\ pass[g][b] \in Nat /\ pass[g][d] \in Nat /\ site[g][b] \in Nat /\ site[g][d] \in Nat
  BY PlaceNats
<1>2. \/ pass[g][d] < pass[g][b]
      \/ pass[g][d] = pass[g][b] /\ site[g][d] < site[g][b]
      \/ pass[g][d] = pass[g][b] /\ site[g][d] = site[g][b] /\ Window(pc[g][d]) <= 0
  <2>1. ~ AtBoundary(pc[g][b]) /\ Window(pc[g][b]) = 0 /\ pc[g][b] # "folded"
    BY DEF AtBoundary, Window, Projecting
  <2>2. QED
    BY <2>1, LockCases
<1>3. Window(pc[g][d]) <= 0 => pc[g][d] # "folded"
  BY DEF Window, Projecting, Pushing
<1>4. QED
  BY <1>1, <1>2, <1>3 DEF HasFolded

\* Both orders of the addends are that of the GPU index.
LEMMA FoldIsSum ==
  ASSUME NEW g \in GPU, NEW p, NEW s
  PROVE  Folded(g, Partial(g, p, s), Partial(Peer(g), p, s)) = SumAt(p, s)
BY DEF Folded, SumAt, GPU, Peer

\* What a fold leaves in proj_out is the sum of its round.
LEMMA FoldVectors ==
  ASSUME StaleLines = {}, Types, Places, LockStep, Current, Seqnos, Payloads, Seen, Vectors,
         NEW g \in GPU, NEW b \in Block, Fold(g, b), NEW e \in Elem, ReduceBy[e] = b
  PROVE  projOut'[g][e] = SumAt(pass[g][b], site[g][b])
<1>1. ComputeBy[e] \in Block
  BY Constants
<1>2. pc[g][b] = "fold" /\ Window(pc[g][b]) = 2 /\ ~ AtBoundary(pc[g][b])
  BY DEF Fold, Window, AtBoundary, Projecting, Pushing
<1>3. /\ pass[g][ComputeBy[e]] = pass[g][b] /\ site[g][ComputeBy[e]] = site[g][b]
      /\ \/ Window(pc[g][ComputeBy[e]]) = 2
         \/ AtBoundary(pc[g][ComputeBy[e]])
  BY <1>1, <1>2, SameSite
<1>4. pc[g][ComputeBy[e]] \notin {"bell", "compute", "exit"}
  BY <1>3 DEF Window, AtBoundary, Projecting
<1>5. projOut[g][e] = Partial(g, pass[g][b], site[g][b])
  <2>1. ~ HasFolded(g, b, pass[g][b], site[g][b])
    <3>1. pass[g][b] \in Nat /\ site[g][b] \in Nat
      BY PlaceNats
    <3>2. QED
      BY <1>2, <3>1 DEF HasFolded
  <2>2. QED
    BY <1>3, <1>4, <2>1 DEF Vectors
<1>6. payload[g][site[g][b]][e] = Partial(Peer(g), pass[g][b], site[g][b])
  BY <1>2, PayloadAtFold
<1>7. projOut'[g][e] = Folded(g, projOut[g][e], payload[g][site[g][b]][e])
  <2>1. projOut \in [GPU -> [Elem -> Sums]]
    BY DEF Types
  <2>2. projOut' = [projOut EXCEPT ![g] =
          [x \in Elem |-> IF ReduceBy[x] = b
                          THEN Folded(g, projOut[g][x], payload[g][site[g][b]][x])
                          ELSE projOut[g][x]]]
    BY FoldStores
  <2>3. QED
    BY <1>1, <2>1, <2>2
<1>8. QED
  BY <1>5, <1>6, <1>7, FoldIsSum

\* Through every step of a block proj_out is the partial, then the sum.
LEMMA BlockVectors ==
  ASSUME StaleLines = {}, Types, Places, LockStep, Current, Seqnos, Payloads, Seen, Vectors,
         NEW g \in GPU, NEW b \in Block, BlockStep(g, b)
  PROVE  Vectors'
<1>1. SUFFICES ASSUME NEW h \in GPU, NEW e \in Elem,
                      pc'[h][ComputeBy[e]] \notin {"bell", "compute", "exit"}
               PROVE  projOut'[h][e] =
                        IF HasFolded(h, ReduceBy[e], pass[h][ComputeBy[e]], site[h][ComputeBy[e]])'
                        THEN SumAt(pass'[h][ComputeBy[e]], site'[h][ComputeBy[e]])
                        ELSE Partial(h, pass'[h][ComputeBy[e]], site'[h][ComputeBy[e]])
  BY DEF Vectors, SumAt, Partial
<1> DEFINE c == ComputeBy[e]
           d == ReduceBy[e]
<1>2. c \in Block /\ d \in Block
  BY Constants
<1>3. PICK p \in Nat, s \in Site : p = pass[h][c] /\ s = site[h][c]
  BY <1>2, PlaceNats
<1>4. pass'[h][c] = p /\ site'[h][c] = s
  <2>1. CASE h # g \/ c # b
    BY <1>2, <1>3, <2>1, BlockFrame
  <2>2. CASE h = g /\ c = b
    BY <1>1, <1>3, <2>2, LeaveMoves, StepStays DEF Stays
  <2>3. QED
    BY <2>1, <2>2
<1>5. SUFFICES projOut'[h][e] = IF HasFolded(h, d, p, s)' THEN SumAt(p, s) ELSE Partial(h, p, s)
  BY <1>4 DEF HasFolded
<1>6. CASE Fold(g, b) /\ h = g /\ d = b
  <2>1. Window(pc[g][b]) = 2 /\ ~ AtBoundary(pc[g][b])
    BY <1>6 DEF Fold, Window, AtBoundary, Projecting, Pushing
  <2>2. p = pass[g][b] /\ s = site[g][b]
    BY <1>2, <1>3, <1>6, <2>1, SameSite
  <2>3. HasFolded(g, b, p, s)'
    BY <1>6, <2>2, Moves DEF HasFolded, Waits, Stays
  <2>4. QED
    BY <1>6, <2>2, <2>3, FoldVectors
<1>7. CASE Compute(g, b) /\ h = g /\ c = b
  <2>1. pc[g][b] = "compute"
    BY <1>7 DEF Compute
  <2>2. ~ HasFolded(g, d, p, s)
    BY <1>2, <1>3, <1>7, <2>1, ComputeBeforeFold
  <2>3. ~ HasFolded(g, d, p, s)'
    <3>1. ~ Fold(g, b)
      BY <2>1 DEF Fold
    <3>2. QED
      BY <1>2, <2>2, <3>1, OnlyFoldFolds
  <2>4. projOut'[g][e] = Partial(g, pass[g][b], site[g][b])
    BY <1>7 DEF Compute, Types
  <2>5. QED
    BY <1>3, <1>7, <2>3, <2>4
<1>8. CASE ~ (Fold(g, b) /\ h = g /\ d = b) /\ ~ (Compute(g, b) /\ h = g /\ c = b)
  <2>1. projOut'[h][e] = projOut[h][e]
    <3>1. CASE Fold(g, b)
      <4>1. projOut' = [projOut EXCEPT ![g] =
              [x \in Elem |-> IF ReduceBy[x] = b
                              THEN Folded(g, projOut[g][x], payload[g][site[g][b]][x])
                              ELSE projOut[g][x]]]
        BY <3>1, FoldStores
      <4>2. QED
        BY <1>8, <3>1, <4>1 DEF Types
    <3>2. CASE Compute(g, b)
      <4>1. projOut' = [projOut EXCEPT ![g] =
              [x \in Elem |-> IF ComputeBy[x] = b THEN Partial(g, pass[g][b], site[g][b])
                                                  ELSE projOut[g][x]]]
        BY <3>2 DEF Compute, Types
      <4>2. QED
        BY <1>8, <3>2, <4>1 DEF Types
    <3>3. CASE ~ Fold(g, b) /\ ~ Compute(g, b)
      BY <3>3, BlockFrameHost
    <3>4. QED
      BY <3>1, <3>2, <3>3
  <2>2. HasFolded(h, d, p, s)' <=> HasFolded(h, d, p, s)
    BY <1>2, <1>8, OnlyFoldFolds
  <2>3. pc[h][c] \notin {"bell", "compute", "exit"}
    <3>1. CASE h # g \/ c # b
      BY <1>1, <1>2, <3>1, BlockFrame
    <3>2. CASE h = g /\ c = b
      BY <1>1, <1>8, <3>2, Moves, LeaveMoves DEF BlockStep
    <3>3. QED
      BY <3>1, <3>2
  <2>4. projOut[h][e] = IF HasFolded(h, d, p, s) THEN SumAt(p, s) ELSE Partial(h, p, s)
    BY <1>3, <2>3 DEF Vectors
  <2>5. QED
    BY <2>1, <2>2, <2>4
<1>9. QED
  BY <1>6, <1>7, <1>8

-----------------------------------------------------------------------------
(***************************************************************************)
(* The rounds a GPU has taken.                                             *)
(***************************************************************************)

\* A fold is a round more, and no other step changes the rounds a block has folded.
LEMMA FoldedRoundsMove ==
  ASSUME Types, NEW g \in GPU, NEW b \in Block, BlockStep(g, b), NEW h \in GPU, NEW c \in Block
  PROVE  /\ FoldedRounds(h, c) \in Nat
         /\ FoldedRounds(h, c)' =
              FoldedRounds(h, c) + IF Fold(g, b) /\ h = g /\ c = b THEN 1 ELSE 0
<1>1. pass[h][c] \in Nat \ {0} /\ site[h][c] \in Site
  BY PlaceNats
<1>2. RoundOf(h, c) \in Nat \ {0}
  BY <1>1, RoundNumbers DEF RoundOf
<1>3. FoldedRounds(h, c) \in Nat
  BY <1>2 DEF FoldedRounds
<1>4. CASE h # g \/ c # b
  <2>1. pc'[h][c] = pc[h][c] /\ pass'[h][c] = pass[h][c] /\ site'[h][c] = site[h][c]
    BY <1>4, BlockFrame
  <2>2. QED
    BY <1>3, <1>4, <2>1 DEF FoldedRounds, RoundOf
<1>5. CASE h = g /\ c = b /\ Leave(g, b)
  <2>0. pc[g][b] # "fold" /\ ~ Fold(g, b)
    BY <1>5, LeaveMoves DEF Fold
  <2>1. CASE pc[g][b] = "folded"
    <3>1. RoundOf(g, b)' = RoundOf(g, b) + 1 /\ pc'[g][b] # "folded"
      BY <1>1, <1>5, <2>1, LeaveMoves, RoundNumbers DEF RoundOf
    <3>2. QED
      BY <1>2, <1>3, <1>5, <2>0, <2>1, <3>1 DEF FoldedRounds
  <2>2. CASE pc[g][b] # "folded"
    <3>1. RoundOf(g, b)' = RoundOf(g, b) /\ pc'[g][b] # "folded"
      BY <1>5, <2>2, LeaveMoves DEF RoundOf
    <3>2. QED
      BY <1>2, <1>3, <1>5, <2>0, <2>2, <3>1 DEF FoldedRounds
  <2>3. QED
    BY <2>1, <2>2
<1>6. CASE h = g /\ c = b /\ ~ Leave(g, b)
  <2>1. RoundOf(g, b)' = RoundOf(g, b)
    BY <1>6, StepStays DEF RoundOf, Stays
  <2>2. pc[g][b] # "folded" /\ (pc'[g][b] = "folded" <=> Fold(g, b))
    BY <1>6, Moves DEF BlockStep
  <2>3. QED
    BY <1>2, <1>3, <1>6, <2>1, <2>2 DEF FoldedRounds
<1>7. QED
  BY <1>3, <1>4, <1>5, <1>6

\* Before a fold the GPU has taken the rounds before, and the fold is of the next one.
LEMMA FoldIsNext ==
  ASSUME Types, Places, LockStep, Taken, NEW g \in GPU, NEW b \in Block, pc[g][b] = "fold"
  PROVE  /\ RoundOf(g, b) \in Nat \ {0} /\ Len(results[g]) = RoundOf(g, b) - 1
         /\ \A c \in Block : FoldedRounds(g, c) =
              IF pc[g][c] = "folded" THEN RoundOf(g, b) ELSE RoundOf(g, b) - 1
<1>1. RoundOf(g, b) \in Nat \ {0}
  BY PlaceNats, RoundNumbers DEF RoundOf
<1>2. \A c \in Block : FoldedRounds(g, c) =
        IF pc[g][c] = "folded" THEN RoundOf(g, b) ELSE RoundOf(g, b) - 1
  <2>1. Window(pc[g][b]) # 0 /\ ~ AtBoundary(pc[g][b])
    BY DEF Window, AtBoundary, Projecting, Pushing
  <2>2. \A c \in Block : RoundOf(g, c) = RoundOf(g, b)
    BY <2>1, SameSite DEF RoundOf
  <2>3. QED
    BY <1>1, <2>2 DEF FoldedRounds
<1>3. Len(results[g]) = RoundOf(g, b) - 1
  <2>1. Len(results[g]) <= RoundOf(g, b) - 1
    BY <1>2 DEF Taken
  <2>2. PICK c \in Block : Len(results[g]) = FoldedRounds(g, c)
    BY DEF Taken
  <2>3. QED
    BY <1>1, <1>2, <2>1, <2>2
<1>4. QED
  BY <1>1, <1>2, <1>3

\* A GPU takes a round when the last of its blocks has folded it.
LEMMA BlockTaken ==
  ASSUME Types, Places, LockStep, Taken, NEW g \in GPU, NEW b \in Block, BlockStep(g, b)
  PROVE  Taken'
<1>1. CASE Fold(g, b)
  <2> DEFINE R == RoundOf(g, b)
  <2>1. pc[g][b] = "fold"
    BY <1>1 DEF Fold
  <2>2. /\ R \in Nat \ {0} /\ Len(results[g]) = R - 1
        /\ \A c \in Block : FoldedRounds(g, c) = IF pc[g][c] = "folded" THEN R ELSE R - 1
    BY <2>1, FoldIsNext
  <2>3. \A c \in Block : FoldedRounds(g, c)' = IF pc[g][c] = "folded" \/ c = b THEN R ELSE R - 1
    <3> HIDE DEF R
    <3>1. SUFFICES ASSUME NEW c \in Block
                   PROVE  FoldedRounds(g, c)' = IF pc[g][c] = "folded" \/ c = b THEN R ELSE R - 1
      OBVIOUS
    <3>2. FoldedRounds(g, c)' = FoldedRounds(g, c) + IF c = b THEN 1 ELSE 0
      BY <1>1, FoldedRoundsMove
    <3>3. QED
      BY <2>1, <2>2, <3>2
  <2>4. Len(results'[g]) = IF \A c \in Block \ {b} : pc[g][c] = "folded" THEN R ELSE R - 1
    <3>1. CASE \A c \in Block \ {b} : pc[g][c] = "folded"
      <4>1. results' = [results EXCEPT ![g] = Append(results[g], {projOut'[g][e] : e \in Elem})]
        BY <1>1, <3>1 DEF Fold
      <4>2. results'[g] = Append(results[g], {projOut'[g][e] : e \in Elem})
            /\ results[g] \in Seq(SUBSET Sums)
        BY <4>1 DEF Types
      <4>3. Len(results'[g]) = Len(results[g]) + 1
        BY <4>2 DEF Types
      <4>4. QED
        BY <2>2, <3>1, <4>3
    <3>2. CASE ~ \A c \in Block \ {b} : pc[g][c] = "folded"
      <4>1. results' = results
        BY <1>1, <3>2 DEF Fold
      <4>2. QED
        BY <2>2, <3>2, <4>1
    <3>3. QED
      BY <3>1, <3>2
  <2>5. /\ \A c \in Block : Len(results'[g]) <= FoldedRounds(g, c)'
        /\ \E c \in Block : Len(results'[g]) = FoldedRounds(g, c)'
    <3> HIDE DEF R
    <3>1. CASE \A c \in Block \ {b} : pc[g][c] = "folded"
      BY <2>2, <2>3, <2>4, <3>1
    <3>2. CASE ~ \A c \in Block \ {b} : pc[g][c] = "folded"
      <4>1. PICK c \in Block : c # b /\ pc[g][c] # "folded"
        BY <3>2
      <4>2. QED
        BY <2>2, <2>3, <2>4, <3>2, <4>1
    <3>3. QED
      BY <3>1, <3>2
  <2>6. ASSUME NEW h \in GPU, h # g
        PROVE  /\ \A c \in Block : Len(results'[h]) <= FoldedRounds(h, c)'
               /\ \E c \in Block : Len(results'[h]) = FoldedRounds(h, c)'
    <3>1. results'[h] = results[h]
      BY <1>1, <2>6 DEF Fold, Types
    <3>2. \A c \in Block : FoldedRounds(h, c)' = FoldedRounds(h, c)
      BY <2>6, FoldedRoundsMove
    <3>3. QED
      BY <3>1, <3>2 DEF Taken
  <2>7. QED
    BY <2>5, <2>6 DEF Taken
<1>2. CASE ~ Fold(g, b)
  <2>1. results' = results
    BY <1>2, BlockFrameHost
  <2>2. \A h \in GPU, c \in Block : FoldedRounds(h, c)' = FoldedRounds(h, c)
    BY <1>2, FoldedRoundsMove
  <2>3. QED
    BY <2>1, <2>2 DEF Taken
<1>3. QED
  BY <1>1, <1>2

-----------------------------------------------------------------------------
(***************************************************************************)
(* The invariant.                                                          *)
(***************************************************************************)

\* Initially no GPU has been rung and nothing was exchanged.
LEMMA InitIInv ==
  ASSUME Init
  PROVE  IInv
<1>1. /\ 0 \in Block /\ N \in Nat \ {0} /\ Sites \in Nat \ {0} /\ 1 \in Site
      /\ MaxPass \in Nat /\ HALT \in Nat /\ MaxPass < HALT /\ Site \subseteq Nat \ {0}
  BY Constants
<1>2. \A g \in GPU, b \in Block :
        /\ pc[g][b] = "bell" /\ pass[g][b] = 1 /\ site[g][b] = 1
        /\ entered[g][b] = 0 /\ left[g][b] = 0 /\ inFlight[g][b] = {}
  BY DEF Init, PerBlock
<1>3. Types
  <2>1. <<>> \in Sums
    BY DEF Sums
  <2>2. /\ pc \in [GPU -> [Block -> Projecting \cup Pushing \cup Reducing]]
        /\ pass \in [GPU -> [Block -> Nat \ {0}]]
        /\ site \in [GPU -> [Block -> Site]]
        /\ entered \in [GPU -> [Block -> Nat]]
        /\ left \in [GPU -> [Block -> Nat]]
    BY <1>1 DEF Init, PerBlock, Projecting
  <2>3. /\ progSeqno \in [GPU -> 0 .. MaxPass]
        /\ a \in [GPU -> [Block -> 0 .. MaxPass]]
        /\ inFlight \in [GPU -> [Block -> SUBSET (Site \X Elem \X Sums)]]
        /\ seqno \in [GPU -> [Site -> 0 .. MaxPass]]
    BY <1>1 DEF Init, PerBlock
  <2>4. /\ projOut \in [GPU -> [Elem -> Sums]]
        /\ payload \in [GPU -> [Site -> [Elem -> Sums]]]
        /\ results \in [GPU -> Seq(SUBSET Sums)]
    BY <2>1 DEF Init
  <2>5. /\ doorbell \in [GPU -> 0 .. MaxPass \cup {HALT}]
        /\ done \in [GPU -> Nat]
        /\ dma \in [GPU -> BOOLEAN]
        /\ hpc \in {"ready", "ring0", "ring1", "wait", "failed", "halt0", "halt1", "closed"}
        /\ hpass \in 0 .. MaxPass
    BY <1>1 DEF Init
  <2>6. QED
    BY <2>2, <2>3, <2>4, <2>5 DEF Types
<1>4. \A g \in GPU, b \in Block : RoundOf(g, b) = 1
  BY <1>1, <1>2 DEF RoundOf, Round
<1>5. Places /\ LockStep
  BY <1>2, <1>4 DEF Places, LockStep, Window, AtBoundary, Projecting
<1>6. Driver
  <2>1. SUFFICES ASSUME NEW g \in GPU
                 PROVE  DriverOf(g)
    BY DEF Driver
  <2>2. /\ done[g] = 0 /\ doorbell[g] = 0 /\ dma[g] = FALSE /\ progSeqno[g] = 0
        /\ hpc = "ready" /\ hpass = 0 /\ pass[g][0] = 1
    BY <1>1, <1>2 DEF Init
  <2>3. QED
    BY <1>1, <2>2 DEF DriverOf
<1>7. Current /\ Seen /\ Flights
  <2>1. hpass = 0
    BY DEF Init
  <2>2. QED
    BY <1>2, <2>1 DEF Current, Seen, Flights, InPass
<1>8. Seqnos
  <2>1. \A g \in GPU, s \in Site : seqno[Peer(g)][s] = 0
    BY Peers DEF Init
  <2>2. \A s \in Site : ~ (s < 1)
    BY <1>1
  <2>3. QED
    BY <1>1, <1>2, <2>1, <2>2 DEF Seqnos, LastPass, Published
<1>9. Payloads
  <2>1. SUFFICES ASSUME NEW g \in GPU, NEW s \in Site, NEW e \in Elem
                 PROVE  payload[Peer(g)][s][e] =
                          Payload(g, LastPass(g, PushBy[e], s, Sent(g, PushBy[e], e)), s)
    BY DEF Payloads
  <2>2. payload[Peer(g)][s][e] = <<>>
    BY Peers DEF Init
  <2>3. PushBy[e] \in Block /\ ~ (s < 1)
    BY <1>1, Constants
  <2>4. ~ Sent(g, PushBy[e], e)
    BY <1>2, <2>3 DEF Sent, Reducing
  <2>5. LastPass(g, PushBy[e], s, Sent(g, PushBy[e], e)) = 0
    BY <1>2, <2>3, <2>4 DEF LastPass
  <2>6. QED
    BY <2>2, <2>5 DEF Payload
<1>10. Vectors
  BY <1>2, Constants DEF Vectors
<1>11. Taken
  <2>1. \A g \in GPU : Len(results[g]) = 0
    BY DEF Init
  <2>2. \A g \in GPU, b \in Block : FoldedRounds(g, b) = 0
    BY <1>2, <1>4 DEF FoldedRounds
  <2>3. QED
    BY <1>1, <2>1, <2>2 DEF Taken
<1>12. QED
  BY <1>3, <1>5, <1>6, <1>7, <1>8, <1>9, <1>10, <1>11 DEF IInv

\* Steps that touch no block, no vector and no seqno.
LEMMA StillVectors ==
  ASSUME UNCHANGED <<blockVars, projOut, a, seqno, results>>
  PROVE  (Seqnos => Seqnos') /\ (Seen => Seen') /\ (Vectors => Vectors') /\ (Taken => Taken')
<1>1. UNCHANGED <<pc, pass, site, entered, left, projOut, a, seqno, results>>
  BY DEF blockVars
<1>2. Seqnos => Seqnos'
  BY <1>1 DEF Seqnos, LastPass, Published
<1>3. Seen => Seen'
  BY <1>1 DEF Seen
<1>4. Vectors => Vectors'
  BY <1>1 DEF Vectors, HasFolded, SumAt, Partial
<1>5. Taken => Taken'
  BY <1>1 DEF Taken, FoldedRounds, RoundOf
<1>6. QED
  BY <1>2, <1>3, <1>4, <1>5

\* Steps that touch no mailbox and no store either.
LEMMA StillMailboxes ==
  ASSUME UNCHANGED <<blockVars, inFlight, payload>>
  PROVE  (Payloads => Payloads') /\ (Flights => Flights')
<1>1. UNCHANGED <<pc, pass, site, inFlight, payload>>
  BY DEF blockVars
<1>2. Payloads => Payloads'
  BY <1>1 DEF Payloads, Payload, LastPass, Sent, Partial
<1>3. Flights => Flights'
  BY <1>1 DEF Flights, Partial
<1>4. QED
  BY <1>2, <1>3

\* Steps that touch nothing of the driver.
LEMMA StillDriver ==
  ASSUME UNCHANGED <<blockVars, a, progSeqno, hostVars, done>>
  PROVE  (Driver => Driver') /\ (Current => Current')
<1>1. UNCHANGED <<pc, pass, site, a, progSeqno, doorbell, dma, hpc, hpass, done>>
  BY DEF blockVars, hostVars
<1>2. Driver => Driver'
  BY <1>1 DEF Driver, DriverOf
<1>3. Current => Current'
  BY <1>1 DEF Current, InPass, Finishing
<1>4. QED
  BY <1>2, <1>3

\* Every step keeps the invariant.
LEMMA StepIInv ==
  ASSUME StaleLines = {}, IInv, [Next]_vars
  PROVE  IInv'
<1> USE DEF IInv
<1>1. ASSUME NEW g \in GPU, NEW b \in Block, BlockStep(g, b)
      PROVE  IInv'
  <2>1. Types' /\ Places' /\ LockStep'
    BY <1>1, BlockTypes, BlockPlaces, BlockLockStep
  <2>2. Driver' /\ Current'
    BY <1>1, BlockDriver, BlockCurrent
  <2>3. Seqnos' /\ Payloads' /\ Flights' /\ Seen'
    BY <1>1, BlockSeqnos, BlockPayloads, BlockFlights, BlockSeen
  <2>4. Vectors' /\ Taken'
    BY <1>1, BlockVectors, BlockTaken
  <2>5. QED
    BY <2>1, <2>2, <2>3, <2>4
<1>2. ASSUME NEW g \in GPU, NEW b \in Block, Land(g, b)
      PROVE  IInv'
  <2>1. Types' /\ Flights' /\ Payloads'
    BY <1>2, LandTypes, LandMailboxes
  <2>2. UNCHANGED <<blockVars, projOut, progSeqno, a, seqno, hostVars, done, results>>
    BY <1>2, LandFrame
  <2>3. QED
    BY <2>1, <2>2, StillPlaces, StillDriver, StillVectors
<1>3. CASE HostStep
  <2>1. Types' /\ Driver' /\ Current'
    BY <1>3, HostTypes, HostDriver, HostCurrent
  <2>2. UNCHANGED <<blockVars, projOut, a, inFlight, payload, seqno, done, results>>
    BY <1>3, HostFrame
  <2>3. QED
    BY <2>1, <2>2, StillPlaces, StillMailboxes, StillVectors
<1>4. CASE UNCHANGED vars
  <2>1. UNCHANGED <<blockVars, projOut, progSeqno, a, inFlight, payload, seqno, hostVars, done,
                    results>>
    BY <1>4 DEF vars, memoryVars
  <2>2. Types'
    BY <2>1 DEF Types, blockVars, hostVars
  <2>3. QED
    BY <2>1, <2>2, StillPlaces, StillDriver, StillMailboxes, StillVectors
<1>5. QED
  BY <1>1, <1>2, <1>3, <1>4, Steps

\* The invariant of the exchange.
THEOREM Invariant == StaleLines = {} => (Spec => []IInv)
<1> SUFFICES ASSUME StaleLines = {}
             PROVE  Spec => []IInv
  OBVIOUS
<1>1. Init => IInv
  BY InitIInv
<1>2. IInv /\ [Next]_vars => IInv'
  BY StepIInv
<1>3. QED
  BY <1>1, <1>2, PTL DEF Spec

-----------------------------------------------------------------------------
(***************************************************************************)
(* The properties.                                                         *)
(***************************************************************************)

\* The type invariant of the module: no block runs ahead of the pass that was rung.
THEOREM TypesHold == StaleLines = {} => (Spec => []TypeOK)
<1> SUFFICES ASSUME StaleLines = {}
             PROVE  Spec => []TypeOK
  OBVIOUS
<1>1. ASSUME IInv
      PROVE  TypeOK
  <2> USE <1>1 DEF IInv
  <2>1. hpass \in 0 .. MaxPass /\ MaxPass \in Nat
    BY Constants DEF Types
  <2>2. pass \in [GPU -> [Block -> 1 .. MaxPass + 1]]
    <3>1. \A g \in GPU, b \in Block : pass[g][b] \in 1 .. MaxPass + 1
      <4>1. SUFFICES ASSUME NEW g \in GPU, NEW b \in Block
                     PROVE  pass[g][b] \in 1 .. MaxPass + 1
        OBVIOUS
      <4>2. pass[g][b] <= hpass + 1 /\ pass[g][b] \in Nat \ {0}
        BY PlaceNats DEF Current
      <4>3. QED
        BY <2>1, <4>2
    <3>2. pass \in [GPU -> [Block -> Nat \ {0}]]
      BY DEF Types
    <3>3. QED
      BY <3>1, <3>2
  <2>3. \A g \in GPU, b \in Block : entered[g][b] - left[g][b] \in {0, 1}
    <3>1. \A g \in GPU, b \in Block : left[g][b] \in Nat
      BY DEF Types
    <3>2. QED
      BY <3>1 DEF Places
  <2>4. done \in [GPU -> 0 .. MaxPass]
    <3>1. done \in [GPU -> Nat] /\ \A g \in GPU : done[g] \in {hpass - 1, hpass}
      BY DEF Types, Driver, DriverOf
    <3>2. QED
      BY <2>1, <3>1
  <2>5. \A g \in GPU, b \in Block : \A st \in inFlight[g][b] : st[1] \in Site /\ st[2] \in Elem
    <3>1. \A g \in GPU, b \in Block : inFlight[g][b] \subseteq Site \X Elem \X Sums
      BY DEF Types
    <3>2. QED
      BY <3>1
  <2>6. pc \in [GPU -> [Block -> {"bell", "compute", "computed", "push", "membar", "pushed",
           "reduce", "publish", "poll", "fold", "folded", "exit"}]]
    BY DEF Types, Projecting, Pushing, Reducing
  <2>7. /\ site \in [GPU -> [Block -> Site]] /\ progSeqno \in [GPU -> 0 .. MaxPass]
        /\ a \in [GPU -> [Block -> 0 .. MaxPass]] /\ seqno \in [GPU -> [Site -> 0 .. MaxPass]]
        /\ doorbell \in [GPU -> 0 .. MaxPass \cup {HALT}] /\ dma \in [GPU -> BOOLEAN]
        /\ hpc \in {"ready", "ring0", "ring1", "wait", "failed", "halt0", "halt1", "closed"}
    BY DEF Types
  <2>8. QED
    BY <2>1, <2>2, <2>3, <2>4, <2>5, <2>6, <2>7 DEF TypeOK
<1>2. QED
  BY <1>1, Invariant, PTL

\* A seqno in a mailbox vouches for the payload of every block, though only block 0
\* publishes it and only a fence and a boundary order the stores before it.
THEOREM SeqnoVouches == StaleLines = {} => (Spec => []SeqnoMeansPayload)
<1> SUFFICES ASSUME StaleLines = {}
             PROVE  Spec => []SeqnoMeansPayload
  OBVIOUS
<1>1. ASSUME IInv
      PROVE  SeqnoMeansPayload
  <2> USE <1>1 DEF IInv
  <2>1. SUFFICES ASSUME NEW g \in GPU, NEW s \in Site, seqno[g][s] > 0, NEW e \in Elem
                 PROVE  \E p \in seqno[g][s] .. MaxPass :
                          payload[g][s][e] = Partial(Peer(g), p, s)
    BY DEF SeqnoMeansPayload
  <2> DEFINE h == Peer(g)
             c == PushBy[e]
             p == LastPass(h, c, s, Sent(h, c, e))
  <2>2. /\ h \in GPU /\ Peer(h) = g /\ c \in Block /\ MaxPass \in Nat /\ hpass \in 0 .. MaxPass
        /\ seqno[g][s] \in 0 .. MaxPass
    <3>1. seqno \in [GPU -> [Site -> 0 .. MaxPass]] /\ hpass \in 0 .. MaxPass
      BY DEF Types
    <3>2. QED
      BY <3>1, Peers, Constants
  <2>3. seqno[g][s] <= p
    <3>1. seqno[Peer(h)][s] = LastPass(h, 0, s, Published(h, 0))
      BY <2>2 DEF Seqnos
    <3>2. QED
      BY <2>2, <3>1, PublishedIsSent
  <2>4. p \in 0 .. hpass
    BY <2>2, SentIsRung
  <2>5. payload[Peer(h)][s][e] = Payload(h, p, s)
    BY <2>2 DEF Payloads
  <2>6. p # 0 /\ p \in seqno[g][s] .. MaxPass
    BY <2>1, <2>2, <2>3, <2>4
  <2>7. payload[g][s][e] = Partial(Peer(g), p, s)
    BY <2>2, <2>5, <2>6 DEF Payload
  <2>8. QED
    BY <2>6, <2>7
<1>2. QED
  BY <1>1, Invariant, PTL

\* A mailbox is reused every pass without an acknowledgement, and is not overrun: the
\* host rings no pass before both GPUs are done with the last.
THEOREM NotOverrun == StaleLines = {} => (Spec => []MailboxNotOverrun)
<1> SUFFICES ASSUME StaleLines = {}
             PROVE  Spec => []MailboxNotOverrun
  OBVIOUS
<1>1. ASSUME IInv
      PROVE  MailboxNotOverrun
  <2> USE <1>1 DEF IInv
  <2>1. SUFFICES ASSUME NEW g \in GPU, NEW b \in Block, NEW s \in Site,
                        pc[g][b] \notin {"folded", "bell", "exit"}
                 PROVE  LET ours == {Partial(Peer(g), p, s) : p \in 1 .. pass[g][b]} \cup {<<>>}
                        IN /\ \A e \in Elem : payload[g][s][e] \in ours
                           /\ \A c \in Block : \A st \in inFlight[Peer(g)][c] :
                                st[1] = s => st[3] \in ours
    BY DEF MailboxNotOverrun
  <2> DEFINE h == Peer(g)
             ours == {Partial(h, p, s) : p \in 1 .. pass[g][b]} \cup {<<>>}
  <2>2. h \in GPU /\ Peer(h) = g /\ pass[g][b] = hpass /\ hpass \in Nat
    BY <2>1, Peers, InRungPass, Constants DEF Types
  <2>3. ASSUME NEW e \in Elem
        PROVE  payload[g][s][e] \in ours
    <3> DEFINE p == LastPass(h, PushBy[e], s, Sent(h, PushBy[e], e))
    <3>1. p \in 0 .. hpass
      BY <2>2, SentIsRung, Constants
    <3>2. payload[Peer(h)][s][e] = Payload(h, p, s)
      BY <2>2 DEF Payloads
    <3>3. payload[g][s][e] = Payload(h, p, s)
      BY <2>2, <3>2
    <3> HIDE DEF p
    <3>4. p = 0 \/ p \in 1 .. pass[g][b]
      BY <2>2, <3>1
    <3>5. QED
      BY <3>3, <3>4 DEF Payload
  <2>4. ASSUME NEW c \in Block, NEW st \in inFlight[h][c], st[1] = s
        PROVE  st[3] \in ours
    <3>1. PICK e \in Mine(PushBy, c) :
            st = <<site[h][c], e, Partial(h, pass[h][c], site[h][c])>>
      BY <2>2, <2>4 DEF Flights
    <3>2. pc[h][c] = "membar"
      BY <2>2, <2>4 DEF Flights
    <3>3. pass[h][c] = pass[g][b] /\ pass[h][c] \in Nat \ {0}
      BY <2>2, <3>2, InRungPass, PlaceNats
    <3>4. st[3] = Partial(h, pass[h][c], s)
      BY <2>4, <3>1
    <3>5. QED
      BY <3>3, <3>4
  <2>5. QED
    BY <2>3, <2>4
<1>2. QED
  BY <1>1, Invariant, PTL

\* The host patches the seqno of the running program while no block can read it.
THEOREM PatchSafe == StaleLines = {} => (Spec => []PatchIsSafe)
<1>1. IInv => PatchIsSafe
  BY DEF IInv, Current, PatchIsSafe
<1>2. QED
  BY <1>1, Invariant, PTL

\* What is on its way to the peer is the partial of this site and pass, whichever
\* block computed it.
THEOREM PushedCurrent == StaleLines = {} => (Spec => []PushedIsCurrent)
<1>1. IInv => PushedIsCurrent
  <2> SUFFICES ASSUME IInv, NEW g \in GPU, NEW b \in Block, NEW st \in inFlight[g][b]
               PROVE  st[3] = Partial(g, pass[g][b], site[g][b])
    BY DEF PushedIsCurrent
  <2>1. PICK e \in Mine(PushBy, b) :
          st = <<site[g][b], e, Partial(g, pass[g][b], site[g][b])>>
    BY DEF IInv, Flights
  <2>2. QED
    BY <2>1
<1>2. QED
  BY <1>1, Invariant, PTL

-----------------------------------------------------------------------------
(***************************************************************************)
(* The exchange is a mirrored allreduce.                                   *)
(***************************************************************************)

\* The rounds a block has given its rows of.
StepsDone(g, b) == RoundOf(g, b) - IF pc[g][b] \in {"bell", "compute", "exit"} THEN 1 ELSE 0

\* A GPU has given the rounds all its blocks have, at most one more than it has taken.
GivenIsLeast ==
  \A g \in GPU :
    /\ Given(g) \in {Len(results[g]), Len(results[g]) + 1}
    /\ \A b \in Block : Given(g) <= StepsDone(g, b)
    /\ \E b \in Block : Given(g) = StepsDone(g, b)

\* A block is between the rounds it has folded and the next.
LEMMA StepsAndFolds ==
  ASSUME Types, NEW g \in GPU, NEW b \in Block
  PROVE  /\ StepsDone(g, b) \in Nat /\ FoldedRounds(g, b) \in Nat
         /\ StepsDone(g, b) \in {FoldedRounds(g, b), FoldedRounds(g, b) + 1}
<1>1. RoundOf(g, b) \in Nat \ {0}
  BY PlaceNats, RoundNumbers DEF RoundOf
<1>2. QED
  BY <1>1 DEF StepsDone, FoldedRounds

\* The least of the rounds of the blocks exists.
LEMMA GivenLeast ==
  ASSUME Types, Taken
  PROVE  GivenIsLeast
<1> SUFFICES ASSUME NEW g \in GPU
             PROVE  /\ Given(g) \in {Len(results[g]), Len(results[g]) + 1}
                    /\ \A b \in Block : Given(g) <= StepsDone(g, b)
                    /\ \E b \in Block : Given(g) = StepsDone(g, b)
  BY DEF GivenIsLeast
<1> DEFINE k == Len(results[g])
           least == IF \E b \in Block : StepsDone(g, b) = k THEN k ELSE k + 1
<1>1. k \in Nat
  BY DEF Types
<1>2. \A b \in Block : StepsDone(g, b) \in Nat /\ k <= StepsDone(g, b)
  BY <1>1, StepsAndFolds DEF Taken
<1>3. PICK d \in Block : k = FoldedRounds(g, d)
  BY DEF Taken
<1>4. /\ least \in {k, k + 1} /\ \A b \in Block : least <= StepsDone(g, b)
      /\ \E b \in Block : least = StepsDone(g, b)
  <2>1. StepsDone(g, d) \in {k, k + 1}
    BY <1>3, StepsAndFolds
  <2>2. CASE \E b \in Block : StepsDone(g, b) = k
    BY <1>1, <1>2, <2>2
  <2>3. CASE ~ \E b \in Block : StepsDone(g, b) = k
    BY <1>1, <1>2, <2>1, <2>3
  <2>4. QED
    BY <2>2, <2>3
<1> HIDE DEF least, k
<1>5. Given(g) = CHOOSE j \in {StepsDone(g, b) : b \in Block} :
                   \A b \in Block : j <= StepsDone(g, b)
  BY DEF Given, StepsDone, RoundOf
<1>6. /\ Given(g) \in {StepsDone(g, b) : b \in Block}
      /\ \A b \in Block : Given(g) <= StepsDone(g, b)
  <2>1. \E j \in {StepsDone(g, b) : b \in Block} : \A b \in Block : j <= StepsDone(g, b)
    BY <1>4
  <2>2. QED
    BY <1>5, <2>1
<1>7. Given(g) = least
  BY <1>1, <1>2, <1>4, <1>6
<1>8. QED
  BY <1>4, <1>7 DEF k

\* Only Compute gives, a round at a time.
LEMMA StepsMove ==
  ASSUME Types, NEW g \in GPU, NEW b \in Block, BlockStep(g, b), NEW h \in GPU, NEW c \in Block
  PROVE  StepsDone(h, c)' =
           StepsDone(h, c) + IF Compute(g, b) /\ h = g /\ c = b THEN 1 ELSE 0
<1>1. pass[h][c] \in Nat \ {0} /\ site[h][c] \in Site
  BY PlaceNats
<1>2. RoundOf(h, c) \in Nat \ {0}
  BY <1>1, RoundNumbers DEF RoundOf
<1>3. CASE h # g \/ c # b
  <2>1. pc'[h][c] = pc[h][c] /\ pass'[h][c] = pass[h][c] /\ site'[h][c] = site[h][c]
    BY <1>3, BlockFrame
  <2>2. QED
    BY <1>2, <1>3, <2>1 DEF StepsDone, RoundOf
<1>4. CASE h = g /\ c = b /\ Leave(g, b)
  <2>0. ~ Compute(g, b)
    BY <1>4, LeaveMoves DEF Compute
  <2>1. CASE pc[g][b] = "folded"
    <3>1. RoundOf(g, b)' = RoundOf(g, b) + 1 /\ pc'[g][b] \in {"compute", "bell"}
      BY <1>1, <1>4, <2>1, LeaveMoves, RoundNumbers DEF RoundOf
    <3>2. QED
      BY <1>2, <1>4, <2>0, <2>1, <3>1 DEF StepsDone
  <2>2. CASE pc[g][b] # "folded"
    <3>1. RoundOf(g, b)' = RoundOf(g, b) /\ pc[g][b] \in {"computed", "pushed"}
          /\ pc'[g][b] \in {"push", "reduce"}
      BY <1>4, <2>2, LeaveMoves DEF RoundOf
    <3>2. QED
      BY <1>2, <1>4, <2>0, <3>1 DEF StepsDone
  <2>3. QED
    BY <2>1, <2>2
<1>5. CASE h = g /\ c = b /\ ~ Leave(g, b)
  <2>1. RoundOf(g, b)' = RoundOf(g, b)
    BY <1>5, StepStays DEF RoundOf, Stays
  <2>2. /\ Compute(g, b) => pc[g][b] = "compute" /\ pc'[g][b] = "computed"
        /\ ~ Compute(g, b) => (pc[g][b] \in {"bell", "compute", "exit"}
                                 <=> pc'[g][b] \in {"bell", "compute", "exit"})
    BY <1>5, Moves DEF BlockStep
  <2>3. QED
    BY <1>2, <1>5, <2>1, <2>2 DEF StepsDone
<1>6. QED
  BY <1>3, <1>4, <1>5

\* A block that has sent its part of a round has given it.
LEMMA SentIsGiven ==
  ASSUME Types, NEW h \in GPU, NEW c \in Block, NEW e \in Elem,
         NEW p \in Nat \ {0}, NEW s \in Site, LastPass(h, c, s, Sent(h, c, e)) >= p
  PROVE  StepsDone(h, c) >= Round(p, s)
<1>1. pass[h][c] \in Nat \ {0} /\ site[h][c] \in Site /\ site[h][c] \in Nat /\ s \in Nat
  BY PlaceNats, Constants
<1>2. RoundOf(h, c) \in Nat \ {0} /\ Round(p, s) \in Nat \ {0}
  BY <1>1, RoundNumbers DEF RoundOf
<1>3. \/ pass[h][c] > p
      \/ pass[h][c] = p /\ site[h][c] > s
      \/ pass[h][c] = p /\ site[h][c] = s /\ Sent(h, c, e)
  BY <1>1 DEF LastPass
<1>4. CASE pass[h][c] > p \/ (pass[h][c] = p /\ site[h][c] > s)
  <2>1. Round(p, s) < RoundOf(h, c)
    BY <1>1, <1>4, RoundBefore DEF RoundOf
  <2>2. QED
    BY <1>2, <2>1 DEF StepsDone
<1>5. CASE pass[h][c] = p /\ site[h][c] = s /\ Sent(h, c, e)
  <2>1. pc[h][c] \notin {"bell", "compute", "exit"}
    BY <1>5 DEF Sent, Reducing
  <2>2. QED
    BY <1>2, <1>5, <2>1 DEF StepsDone, RoundOf
<1>6. QED
  BY <1>3, <1>4, <1>5

\* When a block folds a round both GPUs have given it.
LEMMA GivenAtFold ==
  ASSUME Types, Places, LockStep, Current, Seqnos, Seen, GivenIsLeast, Elem # {},
         NEW g \in GPU, NEW b \in Block, pc[g][b] = "fold", NEW h \in GPU
  PROVE  Given(h) >= RoundOf(g, b)
<1>1. PICK c \in Block : Given(h) = StepsDone(h, c)
  BY DEF GivenIsLeast
<1>2. pass[g][b] \in Nat \ {0} /\ site[g][b] \in Site /\ RoundOf(g, b) \in Nat
  BY PlaceNats, RoundNumbers DEF RoundOf
<1>3. CASE h = g
  <2>1. Window(pc[g][b]) = 2 /\ ~ AtBoundary(pc[g][b])
    BY DEF Window, AtBoundary, Projecting, Pushing
  <2>2. /\ pass[g][c] = pass[g][b] /\ site[g][c] = site[g][b]
        /\ Window(pc[g][c]) = 2 \/ AtBoundary(pc[g][c])
    BY <2>1, SameSite
  <2>3. pc[g][c] \notin {"bell", "compute", "exit"}
    BY <2>2 DEF Window, AtBoundary, Projecting
  <2>4. QED
    BY <1>1, <1>2, <1>3, <2>2, <2>3 DEF StepsDone, RoundOf
<1>4. CASE h = Peer(g)
  <2>1. PICK e \in Elem : TRUE
    OBVIOUS
  <2>2. pass[g][b] = hpass /\ LastPass(h, c, site[g][b], Sent(h, c, e)) = hpass
    BY <1>4, SentAtFold
  <2>3. LastPass(h, c, site[g][b], Sent(h, c, e)) >= pass[g][b]
    BY <1>2, <2>2
  <2>4. StepsDone(h, c) >= Round(pass[g][b], site[g][b])
    BY <1>2, <2>3, SentIsGiven
  <2>5. QED
    BY <1>1, <2>4 DEF RoundOf
<1>5. QED
  BY <1>3, <1>4, Peers

\* A round names its pass and its site.
LEMMA RoundNames ==
  ASSUME NEW p \in Nat \ {0}, NEW s \in Site
  PROVE  PassOf(Round(p, s)) = p /\ SiteOf(Round(p, s)) = s
<1> DEFINE q == p - 1
           r == s - 1
<1>1. q \in Nat /\ r \in 0 .. Sites - 1 /\ Sites \in Nat \ {0} /\ q + 1 = p /\ r + 1 = s
  BY Constants DEF Site
<1>2. q * Sites \in Nat
  BY <1>1, TimesSites
<1>3. Round(p, s) - 1 = q * Sites + r
  BY <1>1, <1>2 DEF Round
<1> HIDE DEF q, r
<1>4. (q * Sites + r) \div Sites = q /\ (q * Sites + r) % Sites = r
  BY <1>1
<1>5. QED
  BY <1>1, <1>3, <1>4 DEF PassOf, SiteOf

\* The sum of a round, as the allreduce counts rounds.
SumOf(k) == Partial(0, PassOf(k), SiteOf(k)) \o Partial(1, PassOf(k), SiteOf(k))

\* The vector all blocks of a GPU have folded is the sum of the round, in every element.
LEMMA FoldTakesSum ==
  ASSUME StaleLines = {}, IInv, Elem # {}, NEW g \in GPU, NEW b \in Block, Fold(g, b), IInv',
         \A c \in Block \ {b} : pc[g][c] = "folded"
  PROVE  {projOut'[g][e] : e \in Elem} = {SumOf(RoundOf(g, b))}
<1> USE DEF IInv
<1>1. pass[g][b] \in Nat \ {0} /\ site[g][b] \in Site
  BY PlaceNats
<1>2. SumOf(RoundOf(g, b)) = SumAt(pass[g][b], site[g][b])
  BY <1>1, RoundNames DEF SumOf, SumAt, RoundOf
<1>3. ASSUME NEW e \in Elem
      PROVE  projOut'[g][e] = SumAt(pass[g][b], site[g][b])
  <2> DEFINE c == ComputeBy[e]
             d == ReduceBy[e]
  <2>1. c \in Block /\ d \in Block
    BY Constants
  <2>2. pc[g][b] = "fold" /\ pc'[g][b] = "folded"
        /\ pass'[g][b] = pass[g][b] /\ site'[g][b] = site[g][b] /\ BlockStep(g, b)
    BY Moves DEF Waits, Stays, BlockStep
  <2>3. \A x \in Block : /\ pc'[g][x] = "folded"
                         /\ pass'[g][x] = pass[g][b] /\ site'[g][x] = site[g][b]
    <3>1. SUFFICES ASSUME NEW x \in Block
                   PROVE  /\ pc'[g][x] = "folded"
                          /\ pass'[g][x] = pass[g][b] /\ site'[g][x] = site[g][b]
      OBVIOUS
    <3>2. CASE x = b
      BY <2>2, <3>2
    <3>3. CASE x # b
      <4>1. pc'[g][x] = pc[g][x] /\ pass'[g][x] = pass[g][x] /\ site'[g][x] = site[g][x]
        BY <2>2, <3>3, BlockFrame
      <4>2. Window(pc[g][b]) = 2 /\ ~ AtBoundary(pc[g][b])
        BY <2>2 DEF Window, AtBoundary, Projecting, Pushing
      <4>3. pass[g][x] = pass[g][b] /\ site[g][x] = site[g][b]
        BY <4>2, SameSite
      <4>4. QED
        BY <3>3, <4>1, <4>3
    <3>4. QED
      BY <3>2, <3>3
  <2>4. HasFolded(g, d, pass[g][c], site[g][c])'
    BY <2>1, <2>3 DEF HasFolded
  <2>5. pc'[g][c] \notin {"bell", "compute", "exit"}
    BY <2>1, <2>3
  <2>6. projOut'[g][e] = SumAt(pass'[g][c], site'[g][c])
    BY <2>4, <2>5 DEF Vectors, SumAt, Partial
  <2>7. QED
    BY <2>1, <2>3, <2>6
<1>4. QED
  BY <1>2, <1>3

\* Every step gives, takes, or does nothing the allreduce sees.
LEMMA StepRefines ==
  ASSUME StaleLines = {}, Elem # {}, IInv, IInv', GivenIsLeast, GivenIsLeast', [Next]_vars
  PROVE  [Mirrored!Next]_(Mirrored!reduceVars)
<1> USE DEF IInv
<1> DEFINE given == [g \in GPU |-> Given(g)]
<1>1. SUFFICES \/ \E g \in GPU : Mirrored!Give(g) \/ Mirrored!Take(g)
               \/ given' = given /\ results' = results
  BY DEF Mirrored!Next, Mirrored!reduceVars
<1>2. \A h \in GPU : Given(h) \in Nat /\ Len(results[h]) \in Nat /\ Given(h)' \in Nat
  <2>1. \A h \in GPU : results[h] \in Seq(SUBSET Sums) /\ results'[h] \in Seq(SUBSET Sums)
    BY DEF Types
  <2>2. \A h \in GPU : Len(results[h]) \in Nat /\ Len(results'[h]) \in Nat
    BY <2>1
  <2>3. QED
    BY <2>2 DEF GivenIsLeast
<1>3. ASSUME NEW h \in GPU, \A c \in Block : StepsDone(h, c)' = StepsDone(h, c)
      PROVE  Given(h)' = Given(h)
  <2>1. PICK c \in Block : Given(h) = StepsDone(h, c)
    BY DEF GivenIsLeast
  <2>2. PICK d \in Block : Given(h)' = StepsDone(h, d)'
    BY DEF GivenIsLeast
  <2>3. Given(h) <= StepsDone(h, d) /\ Given(h)' <= StepsDone(h, c)'
    BY DEF GivenIsLeast
  <2>4. QED
    BY <1>2, <1>3, <2>1, <2>2, <2>3
<1>4. ASSUME NEW g \in GPU, NEW b \in Block, BlockStep(g, b), Compute(g, b)
      PROVE  \/ Mirrored!Give(g)
             \/ given' = given /\ results' = results
  <2>1. results' = results
    BY <1>4 DEF Compute
  <2>2. \A h \in GPU : h # g => Given(h)' = Given(h)
    <3>1. ASSUME NEW h \in GPU, h # g
          PROVE  \A c \in Block : StepsDone(h, c)' = StepsDone(h, c)
      <4>1. \A c \in Block : StepsDone(h, c)' = StepsDone(h, c) + 0
        BY <1>4, <3>1, StepsMove
      <4>2. \A c \in Block : StepsDone(h, c) \in Nat
        BY StepsAndFolds
      <4>3. QED
        BY <4>1, <4>2
    <3>2. QED
      BY <1>3, <3>1
  <2>3. Given(g) <= Given(g)'
    <3>1. PICK d \in Block : Given(g)' = StepsDone(g, d)'
      BY DEF GivenIsLeast
    <3>2. Given(g) <= StepsDone(g, d) /\ StepsDone(g, d) \in Nat
      BY StepsAndFolds DEF GivenIsLeast
    <3>3. StepsDone(g, d)' = StepsDone(g, d) + IF d = b THEN 1 ELSE 0
      BY <1>4, StepsMove
    <3>4. QED
      BY <1>2, <3>1, <3>2, <3>3
  <2>4. /\ Given(g) \in {Len(results[g]), Len(results[g]) + 1}
        /\ Given(g)' \in {Len(results[g]), Len(results[g]) + 1}
    BY <2>1 DEF GivenIsLeast
  <2>5. CASE Given(g)' = Given(g)
    <3>1. \A h \in GPU : Given(h)' = Given(h)
      BY <2>2, <2>5
    <3>2. QED
      BY <2>1, <3>1
  <2>6. CASE Given(g)' # Given(g)
    <3>1. Given(g) = Len(results[g]) /\ Given(g)' = Given(g) + 1
      BY <1>2, <2>3, <2>4, <2>6
    <3>2. given' = [given EXCEPT ![g] = given[g] + 1]
      BY <2>2, <3>1
    <3>3. QED
      BY <2>1, <3>1, <3>2 DEF Mirrored!Give
  <2>7. QED
    BY <2>5, <2>6
<1>5. ASSUME NEW g \in GPU, NEW b \in Block, BlockStep(g, b), ~ Compute(g, b)
      PROVE  given' = given
  <2>1. \A h \in GPU, c \in Block : StepsDone(h, c)' = StepsDone(h, c) + 0
    BY <1>5, StepsMove
  <2>2. \A h \in GPU, c \in Block : StepsDone(h, c) \in Nat
    BY StepsAndFolds
  <2>3. \A h \in GPU, c \in Block : StepsDone(h, c)' = StepsDone(h, c)
    BY <2>1, <2>2
  <2>4. \A h \in GPU : Given(h)' = Given(h)
    BY <1>3, <2>3
  <2>5. QED
    BY <2>4
<1>6. ASSUME NEW g \in GPU, NEW b \in Block, BlockStep(g, b), Fold(g, b), results' # results
      PROVE  Mirrored!Take(g)
  <2>1. /\ \A c \in Block \ {b} : pc[g][c] = "folded"
        /\ results' = [results EXCEPT ![g] = Append(results[g], {projOut'[g][e] : e \in Elem})]
    BY <1>6 DEF Fold
  <2>2. {projOut'[g][e] : e \in Elem} = {SumOf(RoundOf(g, b))}
    BY <1>6, <2>1, FoldTakesSum
  <2>3. pc[g][b] = "fold"
    BY <1>6 DEF Fold
  <2>4. RoundOf(g, b) \in Nat \ {0} /\ Len(results[g]) = RoundOf(g, b) - 1
    BY <2>3, FoldIsNext
  <2>5. RoundOf(g, b) = Len(results[g]) + 1
    BY <2>4
  <2>6. \A h \in GPU : Given(h) >= RoundOf(g, b)
    BY <2>3, GivenAtFold
  <2>7. given' = given
    BY <1>5, <1>6, <2>3 DEF Compute
  <2>8. /\ \A h \in GPU : given[h] >= Len(results[g]) + 1
        /\ results' = [results EXCEPT ![g] = Append(@, {SumOf(Len(results[g]) + 1)})]
    BY <2>1, <2>2, <2>5, <2>6
  <2>9. QED
    BY <2>7, <2>8 DEF Mirrored!Take, SumOf
<1>7. ASSUME UNCHANGED <<blockVars, results>>
      PROVE  given' = given /\ results' = results
  <2>1. UNCHANGED <<pc, pass, site>>
    BY <1>7 DEF blockVars
  <2>2. \A h \in GPU : Given(h)' = Given(h)
    BY <1>3, <2>1 DEF StepsDone, RoundOf
  <2>3. QED
    BY <1>7, <2>2
<1>8. ASSUME NEW g \in GPU, NEW b \in Block, BlockStep(g, b)
      PROVE  \/ Mirrored!Give(g) \/ Mirrored!Take(g)
             \/ given' = given /\ results' = results
  <2>1. CASE Compute(g, b)
    BY <1>4, <1>8, <2>1
  <2>2. CASE ~ Compute(g, b) /\ results' = results
    BY <1>5, <1>8, <2>2
  <2>3. CASE ~ Compute(g, b) /\ results' # results
    BY <1>6, <1>8, <2>3, BlockFrameHost
  <2>4. QED
    BY <2>1, <2>2, <2>3
<1>9. ASSUME NEW g \in GPU, NEW b \in Block, Land(g, b)
      PROVE  given' = given /\ results' = results
  BY <1>7, <1>9, LandFrame
<1>10. CASE HostStep
  BY <1>7, <1>10, HostFrame
<1>11. CASE UNCHANGED vars
  BY <1>7, <1>11 DEF vars
<1>12. QED
  BY <1>8, <1>9, <1>10, <1>11, Steps

\* At every site of every pass both GPUs take the same sum of both partials, in the
\* same order, and none twice: the exchange implements the mirrored allreduce.
THEOREM MirroredHolds == StaleLines = {} /\ Elem # {} => (Spec => ImplementsAllReduce)
<1> SUFFICES ASSUME StaleLines = {}, Elem # {}
             PROVE  Spec => ImplementsAllReduce
  OBVIOUS
<1>1. Spec => []IInv
  BY Invariant
<1>2. IInv => GivenIsLeast
  BY GivenLeast DEF IInv
<1>3. Init => Mirrored!Init
  <2> SUFFICES ASSUME Init
               PROVE  Mirrored!Init
    OBVIOUS
  <2>1. IInv /\ GivenIsLeast
    BY InitIInv, GivenLeast DEF IInv
  <2>2. \A g \in GPU, b \in Block : StepsDone(g, b) = 0
    BY Constants DEF Init, PerBlock, StepsDone, RoundOf, Round
  <2>3. \A g \in GPU : Given(g) = 0
    BY <2>1, <2>2 DEF GivenIsLeast
  <2>4. results = [g \in GPU |-> <<>>]
    BY DEF Init
  <2>5. QED
    BY <2>3, <2>4 DEF Mirrored!Init
<1>4. IInv /\ IInv' /\ GivenIsLeast /\ GivenIsLeast' /\ [Next]_vars
        => [Mirrored!Next]_(Mirrored!reduceVars)
  BY StepRefines
<1>5. QED
  BY <1>1, <1>2, <1>3, <1>4, PTL DEF Spec, ImplementsAllReduce, Mirrored!Spec
==============================================================================
