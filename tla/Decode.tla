------------------------------- MODULE Decode -------------------------------
(***************************************************************************)
(* The decode loop of k0/harness.cpp (parity_run) and what one pass does   *)
(* to the data that outlives it: the KV cache, the DeltaNet conv history   *)
(* and recurrent state, the scratch buffers that every layer reuses, and   *)
(* the cells the host rewrites between passes.                             *)
(*                                                                         *)
(* A pass is a program of windows (k0/compile_schedule.py).  Each block    *)
(* executes its share of a window, then crosses a boundary: no block       *)
(* starts a window before all have ended the one before (GridBoundary).    *)
(* Blocks own slices of a buffer; what reads a whole buffer is right only  *)
(* if its slices agree.                                                    *)
(*                                                                         *)
(* A value is what it was computed from (Decoder): a token, the sequence   *)
(* of the layer inputs of all positions, or Bad if computed from inputs    *)
(* that do not belong together.                                            *)
(***************************************************************************)
EXTENDS Naturals, Sequences, AttnChunks

CONSTANTS
  Grid,            \* GRID: blocks of the kernel, and chunks of the KV window
  Pad, Tile,       \* 256 and MK_FATTN_TILE
  NCtx,            \* --n-ctx: rows of each KV cache
  Layer,           \* sequence of "dn" and "attn": the kind of each layer
  Taps,            \* GDN_DCONV: the current input and Taps - 1 earlier ones
  Prompts, MaxSteps,            \* the runs: a prompt and 0 .. MaxSteps steps
  Argmax(_),       \* argmax_f32_first of a value of the last layer
  Zero, Bad, NonFinite          \* zero-filled memory, a wrong value, a NaN

Block == 0 .. Grid-1
NLayers == Len(Layer)
Kind(kind) == {l \in 1 .. NLayers : Layer[l] = kind}
MaskCap == PadUp(NCtx, Pad)

ASSUME DecodeAssumption ==
  /\ Grid \in Nat \ {0} /\ Pad \in Nat \ {0} /\ Tile \in Nat \ {0}
  /\ NCtx \in Nat /\ MaxSteps \in Nat /\ Taps \in Nat \ {0, 1}
  /\ Layer \in Seq({"dn", "attn"})
  /\ \A p \in Prompts : Len(p) \in Nat \ {0} /\ p = [i \in 1 .. Len(p) |-> p[i]]

VARIABLES
  prompt, steps,   \* index.json of the reference tree
  phase, pos,      \* the loop of parity_run and its position
  emitted,         \* the tokens of the greedy steps
  rows, residuals, states,      \* the dump tree
  cell,            \* token, positions, kv_row, n_kv and mask_f16
  at,              \* of each block: the window it executes next
  buf,             \* the scratch buffers, per block its slice
  lout,            \* dbg_lout: residual after each layer but the last
  hist, ssm,       \* conv_state_l*, ssm_state_l*: per layer and slice
  kv               \* cache_k_l* and cache_v_l*: per layer, row and slice

host == <<prompt, steps, phase, pos, emitted, rows, residuals, states>>
persistent == <<hist, ssm, kv>>
vars == <<host, cell, at, buf, lout, persistent>>

(***************************************************************************)
(* The program.  What only maps a vector to another between two boundaries *)
(* (quantisation, gates, the middle of an FFN) is part of the next window. *)
(***************************************************************************)
DnBlock == <<"norm", "gemv", "conv", "silu", "step", "store", "out",
             "ffnnorm", "ffn">>
AttnBlock == <<"norm", "gemv", "rope", "append", "decode", "reduce", "out",
               "ffnnorm", "ffn">>

Last == 1 + 9 * NLayers + 3     \* one embed window, the layers, the epilogue

LayerAt(w) == (w + 7) \div 9

WindowAt(w) ==
  IF w = 1 THEN "embed"
  ELSE IF LayerAt(w) <= NLayers
       THEN (IF LayerAt(w) \in Kind("dn") THEN DnBlock ELSE AttnBlock)[((w + 7) % 9) + 1]
  ELSE <<"norm", "head", "emit">>[((w + 7) % 9) + 1]

(***************************************************************************)
(* Values.                                                                 *)
(***************************************************************************)
All(value) == [b \in Block |-> value]

Whole(slices) == IF slices = All(slices[0]) THEN slices[0] ELSE Bad

IsSeq(v) == v \notin {Zero, Bad, NonFinite}

\* The residual fold: what a mixer and an FFN computed belongs to the residual it is
\* added to.
Fold(residual, out) ==
  IF IsSeq(out) /\ out # <<>> /\ out[Len(out)] = residual THEN out ELSE Bad

FoldFfn(residual, out) == IF IsSeq(out) /\ out = residual THEN out ELSE Bad

\* The last Taps inputs of inputs, zero-filled at the start of the sequence.
Window(inputs) ==
  [i \in 1 .. Taps |->
     IF Len(inputs) + i > Taps THEN inputs[Len(inputs) + i - Taps] ELSE Zero]

\* The delta-rule update of a state by the activations of a conv window.
Update(state, win) ==
  LET next == Append(state, win[Taps])
  IN IF IsSeq(state) /\ IsSeq(win) /\ win = Window(next) THEN next ELSE Bad

NoInput == [i \in 1 .. Taps - 1 |-> Zero]
Scratch == {"residual", "xn", "mixer_out", "k_stage", "conv_ws", "gdn_state",
            "fattn_q", "fattn_partial", "attn_out", "proj_out", "logits",
            "result_output"}

(***************************************************************************)
(* Everything is zero-filled once, when it is allocated.                   *)
(***************************************************************************)
Init ==
  /\ prompt \in Prompts /\ steps \in 0 .. MaxSteps
  /\ phase = "start" /\ pos = 0
  /\ emitted = <<>> /\ rows = <<>> /\ residuals = <<>> /\ states = <<>>
  /\ cell = [token |-> Zero, positions |-> 0, kv_row |-> 0, n_kv |-> 0,
             mask_f16 |-> [j \in 0 .. MaskCap-1 |-> TRUE]]     \* 0.0: attend
  /\ at = All(Last + 1)
  /\ buf = [name \in Scratch |-> All(Zero)]
  /\ lout = [l \in 1 .. NLayers - 1 |-> Zero]
  /\ hist = [l \in Kind("dn") |-> All(NoInput)]
  /\ ssm = [l \in Kind("dn") |-> All(<<>>)]
  /\ kv = [l \in Kind("attn") |-> [j \in 0 .. NCtx-1 |-> All(Zero)]]

(***************************************************************************)
(* The host.                                                               *)
(***************************************************************************)
Tokens == Len(prompt) + steps

\* The check at the head of parity_run.
Start ==
  /\ phase = "start"
  /\ phase' = IF Tokens > NCtx THEN "refused" ELSE "prepare"
  /\ UNCHANGED <<prompt, steps, pos, emitted, rows, residuals, states,
                 cell, at, buf, lout, persistent>>

\* The token of a greedy step is chosen before the inputs of its pass.
ChooseToken ==
  emitted' = IF pos < Len(prompt) THEN emitted
                                  ELSE Append(emitted, Argmax(rows[Len(rows)]))

\* Mutants of SetPassInputs: the row index is not written; the mask is written one
\* entry too far.
KvRowForgotten ==
  /\ phase = "prepare" /\ pos < Tokens
  /\ ChooseToken
  /\ phase' = "ring"
  /\ cell' = [cell EXCEPT
       !.positions = pos, !.n_kv = PadUp(pos + 1, Pad),
       !.mask_f16 = [j \in 0 .. MaskCap-1 |->
                       IF j < PadUp(pos + 1, Pad) THEN j <= pos ELSE @[j]]]
  /\ UNCHANGED <<prompt, steps, pos, rows, residuals, states, at, buf, lout, persistent>>

MaskTooLong ==
  /\ phase = "prepare" /\ pos < Tokens
  /\ ChooseToken
  /\ phase' = "ring"
  /\ cell' = [cell EXCEPT
       !.positions = pos, !.kv_row = pos, !.n_kv = PadUp(pos + 1, Pad),
       !.mask_f16 = [j \in 0 .. PadUp(pos + 1, Pad) |-> j <= pos]]
  /\ UNCHANGED <<prompt, steps, pos, rows, residuals, states, at, buf, lout, persistent>>

\* set_pass_inputs: the copies are synchronised before it returns.  Only the
\* first n_kv entries of the mask are written.
SetPassInputs ==
  /\ phase = "prepare" /\ pos < Tokens
  /\ ChooseToken
  /\ LET nkv == PadUp(pos + 1, Pad) IN
       IF nkv > MaskCap
       THEN phase' = "threw" /\ UNCHANGED cell
       ELSE /\ phase' = "ring"
            /\ cell' = [cell EXCEPT
                 !.positions = pos, !.kv_row = pos, !.n_kv = nkv,
                 !.mask_f16 = [j \in 0 .. MaskCap-1 |->
                                 IF j < nkv THEN j <= pos ELSE @[j]]]
  /\ UNCHANGED <<prompt, steps, pos, rows, residuals, states, at, buf, lout, persistent>>

\* run_pass: the token rides the doorbell; every block starts the program.
RunPass ==
  /\ phase = "ring"
  /\ phase' = "running"
  /\ cell' = [cell EXCEPT !.token = (prompt \o emitted)[pos + 1]]
  /\ at' = All(1)
  /\ UNCHANGED <<prompt, steps, pos, emitted, rows, residuals, states,
                 buf, lout, persistent>>

\* The pass is done.  The logits of the prompt's last token and of each step are
\* read, and after a step the dumps of the residual stream and of the states.
EndPass ==
  /\ phase = "running" /\ \A b \in Block : at[b] > Last
  /\ phase' = "prepare" /\ pos' = pos + 1
  /\ rows' = IF pos + 1 >= Len(prompt) THEN Append(rows, Whole(buf["logits"])) ELSE rows
  /\ IF pos < Len(prompt) THEN UNCHANGED <<residuals, states>>
     ELSE /\ residuals' = Append(residuals, lout)
          /\ states' = Append(states, [l \in Kind("dn") |-> Whole(ssm[l])])
  /\ UNCHANGED <<prompt, steps, emitted, cell, at, buf, lout, persistent>>

(***************************************************************************)
(* A block executes its share of a window.                                 *)
(***************************************************************************)
\* Block b is at a window of op op, in layer l, and the boundary before it is open.
Ready(b, op, l) ==
  /\ phase = "running" /\ at[b] <= Last
  /\ op = WindowAt(at[b]) /\ l = LayerAt(at[b])
  /\ \A c \in Block : at[c] >= at[b]

Turn(b, op, l) ==
  /\ Ready(b, op, l)
  /\ at' = [at EXCEPT ![b] = @ + 1]

Write(b, name, value) == buf' = [buf EXCEPT ![name][b] = value]

Embed(b, l) ==
  /\ Turn(b, "embed", l)
  /\ Write(b, "residual", cell.token)
  /\ UNCHANGED <<host, cell, lout, persistent>>

\* op_rmsnorm has one row, the share of the first block.  From the second layer
\* on it folds the FFN of the layer before and publishes the sum; a layer's
\* norm mirrors it to dbg_lout, the output norm does not.
Norm(b, l) ==
  LET sum == IF l = 1 THEN Whole(buf["residual"])
             ELSE FoldFfn(Whole(buf["residual"]), Whole(buf["proj_out"]))
  IN /\ Turn(b, "norm", l)
     /\ IF b = 0
        THEN /\ buf' = [buf EXCEPT !["residual"] = All(sum), !["xn"] = All(sum)]
             /\ lout' = IF l \in 2 .. NLayers THEN [lout EXCEPT ![l-1] = sum] ELSE lout
        ELSE UNCHANGED <<buf, lout>>
     /\ UNCHANGED <<host, cell, persistent>>

\* OP_STATE_LOAD: the state of a "dn" layer is copied to work on.
StateLoad(b, l) == [buf EXCEPT !["gdn_state"][b] = ssm[l][b]]

\* The antichain of projections, with the state load of a "dn" layer beside it.
Gemv(b, l) ==
  LET x == Whole(buf["xn"]) IN
    /\ Turn(b, "gemv", l)
    /\ buf' = IF l \in Kind("dn")
              THEN [StateLoad(b, l) EXCEPT !["mixer_out"][b] = x]
              ELSE [buf EXCEPT !["mixer_out"][b] = x, !["k_stage"][b] = x]
    /\ UNCHANGED <<host, cell, lout, persistent>>

\* Mutant of ConvShiftConcat: the commit is the window without its last input.
CommitUnshifted(b, l) ==
  LET win == Append(hist[l][b], buf["mixer_out"][b]) IN
    /\ Turn(b, "conv", l)
    /\ Write(b, "conv_ws", win)
    /\ hist' = [hist EXCEPT ![l][b] = SubSeq(win, 1, Taps - 1)]
    /\ UNCHANGED <<host, cell, lout, ssm, kv>>

\* op_conv_shift_concat: each channel reads its history before it commits the shift.
ConvShiftConcat(b, l) ==
  LET win == Append(hist[l][b], buf["mixer_out"][b]) IN
    /\ Turn(b, "conv", l)
    /\ Write(b, "conv_ws", win)
    /\ hist' = [hist EXCEPT ![l][b] = Tail(win)]
    /\ UNCHANGED <<host, cell, lout, ssm, kv>>

SsmConvSilu(b, l) ==
  /\ Turn(b, "silu", l)
  /\ Write(b, "mixer_out", buf["conv_ws"][b])
  /\ UNCHANGED <<host, cell, lout, persistent>>

\* op_gdn_step, in place in the working copy of the state.
GdnStep(b, l) ==
  LET state == Update(buf["gdn_state"][b], Whole(buf["mixer_out"])) IN
    /\ Turn(b, "step", l)
    /\ buf' = [buf EXCEPT !["gdn_state"][b] = state, !["attn_out"][b] = state]
    /\ UNCHANGED <<host, cell, lout, persistent>>

StateStore(b, l) ==
  /\ Turn(b, "store", l)
  /\ ssm' = [ssm EXCEPT ![l][b] = buf["gdn_state"][b]]
  /\ UNCHANGED <<host, cell, buf, lout, hist, kv>>

\* The rotation puts the position into q and k; v has none.
QkNormRope(b, l) ==
  /\ Turn(b, "rope", l)
  /\ buf' = [buf EXCEPT
       !["fattn_q"][b] = [at |-> cell.positions, x |-> buf["mixer_out"][b]],
       !["k_stage"][b] = [at |-> cell.positions, x |-> @]]
  /\ UNCHANGED <<host, cell, lout, persistent>>

KvAppend(b, l) ==
  /\ Turn(b, "append", l)
  /\ kv' = [kv EXCEPT ![l][cell.kv_row][b] = buf["k_stage"][b]]
  /\ UNCHANGED <<host, cell, buf, lout, hist, ssm>>

\* The rows chunk c attends, in the order of its loop.
Attended(c) ==
  LET lo == ChunkLo(cell.n_kv, Grid, Tile, c)
      hi == ChunkHi(cell.n_kv, Grid, Tile, c)
      attended[j \in lo .. hi] ==
        IF j = lo THEN <<>>
        ELSE attended[j-1] \o (IF cell.mask_f16[j-1] THEN <<j-1>> ELSE <<>>)
  IN attended[hi]

\* Rows past the cache are other memory: harmless under the mask if finite.
Overruns(c) == \E j \in ChunkRows(cell.n_kv, Grid, Tile, c) : j >= NCtx

\* Mutant of FattnDecode: a chunk without a row writes no record.
EmptyChunkSkipped(b, l) ==
  LET part == [q |-> Whole(buf["fattn_q"]), layer |-> l,
               kv |-> [i \in 1 .. Len(Attended(b)) |-> Whole(kv[l][Attended(b)[i]])]]
  IN /\ Turn(b, "decode", l)
     /\ IF ChunkRows(cell.n_kv, Grid, Tile, b) = {} THEN UNCHANGED buf
        ELSE Write(b, "fattn_partial", part)
     /\ UNCHANGED <<host, cell, lout, persistent>>

\* One record per chunk, an empty one too, with the rows it weighs.
FattnDecode(b, l) ==
  LET q    == Whole(buf["fattn_q"])
      part == [q |-> q, layer |-> l,
               kv |-> [i \in 1 .. Len(Attended(b)) |-> Whole(kv[l][Attended(b)[i]])]]
  IN /\ Turn(b, "decode", l)
     /\ \E value \in {part} \cup (IF Overruns(b) THEN {NonFinite} ELSE {}) :
          Write(b, "fattn_partial", value)
     /\ UNCHANGED <<host, cell, lout, persistent>>

(***************************************************************************)
(* op_fattn_reduce folds the partials of n_splits chunks in order.  What   *)
(* it returns is attention over the inputs of the positions up to that of  *)
(* the query if each is there once, rotated by its own position.           *)
(***************************************************************************)
NSplits == Grid

Merged ==
  LET merge[c \in 0 .. NSplits] ==
        IF c = 0 THEN <<>> ELSE merge[c-1] \o buf["fattn_partial"][c-1].kv
  IN merge[NSplits]

Attention ==
  LET q == buf["fattn_partial"][0].q IN
    IF /\ \A c \in 0 .. NSplits-1 : IsSeq(buf["fattn_partial"][c])
       /\ \A c \in 0 .. NSplits-1 : buf["fattn_partial"][c].q = q
       /\ q # Bad /\ Len(Merged) = q.at + 1
       /\ \A i \in 1 .. Len(Merged) : IsSeq(Merged[i]) /\ Merged[i].at = i - 1
       /\ Merged[Len(Merged)].x = q.x
    THEN [i \in 1 .. Len(Merged) |-> Merged[i].x]
    ELSE Bad

FattnReduce(b, l) ==
  /\ Turn(b, "reduce", l)
  /\ Write(b, "attn_out", Attention)
  /\ UNCHANGED <<host, cell, lout, persistent>>

Out(b, l) ==
  /\ Turn(b, "out", l)
  /\ Write(b, "proj_out", Whole(buf["attn_out"]))
  /\ UNCHANGED <<host, cell, lout, persistent>>

\* Mutant of FfnNorm: the sum is not published.
SumNotPublished(b, l) ==
  /\ Turn(b, "ffnnorm", l)
  /\ buf' = IF b = 0
            THEN [buf EXCEPT !["xn"] = All(Fold(Whole(buf["residual"]), Whole(buf["proj_out"])))]
            ELSE buf
  /\ UNCHANGED <<host, cell, lout, persistent>>

\* The norm before the FFN folds the mixer; its mirror, dbg_mid, the loop does not read.
FfnNorm(b, l) ==
  LET sum == Fold(Whole(buf["residual"]), Whole(buf["proj_out"]))
  IN /\ Turn(b, "ffnnorm", l)
     /\ buf' = IF b = 0 THEN [buf EXCEPT !["residual"] = All(sum), !["xn"] = All(sum)]
                        ELSE buf
     /\ UNCHANGED <<host, cell, lout, persistent>>

Ffn(b, l) ==
  /\ Turn(b, "ffn", l)
  /\ Write(b, "proj_out", Whole(buf["xn"]))
  /\ UNCHANGED <<host, cell, lout, persistent>>

HeadGemv(b, l) ==
  /\ Turn(b, "head", l)
  /\ Write(b, "logits", Whole(buf["xn"]))
  /\ UNCHANGED <<host, cell, lout, persistent>>

LogitsEmit(b, l) ==
  /\ Turn(b, "emit", l)
  /\ Write(b, "result_output", buf["logits"][b])
  /\ UNCHANGED <<host, cell, lout, persistent>>

Execute(b) ==
  \E l \in 0 .. NLayers + 1 :
    \/ Embed(b, l) \/ Norm(b, l) \/ Gemv(b, l)
    \/ ConvShiftConcat(b, l) \/ SsmConvSilu(b, l) \/ GdnStep(b, l) \/ StateStore(b, l)
    \/ QkNormRope(b, l) \/ KvAppend(b, l) \/ FattnDecode(b, l) \/ FattnReduce(b, l)
    \/ Out(b, l) \/ FfnNorm(b, l) \/ Ffn(b, l) \/ HeadGemv(b, l) \/ LogitsEmit(b, l)

HostStep == Start \/ SetPassInputs \/ RunPass \/ EndPass

Next == HostStep \/ \E b \in Block : Execute(b)

Spec == Init /\ [][Next]_vars

FairSpec == Spec /\ WF_vars(HostStep) /\ \A b \in Block : WF_vars(Execute(b))

(***************************************************************************)
(* Properties.                                                             *)
(***************************************************************************)
TypeOK ==
  /\ prompt \in Prompts /\ steps \in 0 .. MaxSteps
  /\ phase \in {"start", "refused", "prepare", "threw", "ring", "running"}
  /\ pos \in Nat /\ Len(emitted) \in 0 .. steps
  /\ cell.positions \in Nat /\ cell.kv_row \in Nat /\ cell.n_kv \in Nat
  /\ cell.mask_f16 \in [0 .. MaskCap-1 -> BOOLEAN]
  /\ at \in [Block -> 1 .. Last + 1]
  /\ DOMAIN buf = Scratch /\ \A name \in Scratch : DOMAIN buf[name] = Block

\* The loop is greedy decoding: every logits row, and every residual and state it
\* dumps, is that of exactly the tokens fed so far, whatever the interleaving of
\* the blocks and whatever the passes before left in caches, scratch and cells.
Greedy ==
  INSTANCE Decoder WITH Recurrent <- Kind("dn"), Capacity <- NCtx,
                        fed <- SubSeq(prompt \o emitted, 1, pos)

IsGreedyDecoding == Greedy!Spec

\* attn.cuh:281-287: the chunks of op_fattn_decode have every row of the padded
\* window once, and no row past it.
ChunksPartition ==
  LET rowsOf(c) == ChunkRows(cell.n_kv, Grid, Tile, c) IN
    /\ \A j \in 0 .. cell.n_kv - 1 : \E c \in Block : j \in rowsOf(c)
    /\ \A c \in Block : rowsOf(c) \subseteq 0 .. cell.n_kv - 1
    /\ \A c, d \in Block : c # d => rowsOf(c) \cap rowsOf(d) = {}

\* attn.cuh:409-417: fattn_partial serves all layers and is not seeded again, so
\* every record a reduce folds must be of its own layer and pass.
ReduceFoldsFreshPartials ==
  \A b \in Block, l \in Kind("attn"), c \in 0 .. NSplits-1 :
    LET record == buf["fattn_partial"][c] IN
      Ready(b, "reduce", l) =>
        \/ record = NonFinite
        \/ record # Zero /\ record.layer = l /\ record.q.at = pos

\* The two states of a DeltaNet layer are committed in different windows: between
\* passes the conv history is the last inputs of the recurrent state, and the
\* state has one input for each position.
ConvAndSsmAgree ==
  phase # "running" =>
    \A l \in Kind("dn"), b \in Block :
      /\ IsSeq(ssm[l][b]) /\ Len(ssm[l][b]) = pos
      /\ hist[l][b] = Tail(Window(ssm[l][b]))

\* A pass writes the row of its own position in every cache, and no other.
OnlyOwnRowWritten ==
  [][\A l \in Kind("attn") : \A j \in 0 .. NCtx-1 :
       j # pos => kv'[l][j] = kv[l][j]]_vars

\* harness.cpp:497-498: "padded/unwritten rows read as finite 0.0 f16".
PaddedRowsAreFinite ==
  \A b \in Block : buf["fattn_partial"][b] # NonFinite
==============================================================================
