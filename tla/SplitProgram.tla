----------------------------- MODULE SplitProgram -----------------------------
(***************************************************************************)
(* The instructions k0/compile_schedule.py emits for gpus GPUs: the        *)
(* program of one GPU for 1, the split program (--split) for 2, which      *)
(* halves the ranges and folds what a contract projection computes over    *)
(* both GPUs.  Boundaries and block ranges are left out (Schedule).        *)
(*                                                                         *)
(* An instruction has its operands in p, by their names (with an element   *)
(* offset if it has one), and its numbers in n.                            *)
(***************************************************************************)
EXTENDS Naturals, Sequences, WeightSplit

CONSTANTS
  Layer,                     \* sequence of "dn" and "attn": the kind of each layer
  DConv,                     \* CONV_KERNEL: the taps of a channel's window
  Embd,                      \* N_EMBD
  VHeads,                    \* GDN_HEADS, a multiple of KHeads
  QHeads, KvHeads,           \* ATTN_Q_HEADS, ATTN_KV_HEADS
  AttnHeadDim,               \* ATTN_HEAD_DIM
  Ff, Vocab                  \* N_FF, N_VOCAB

ASSUME SplitProgramAssumption ==
  /\ Layer \in Seq({"dn", "attn"})
  /\ DConv \in Nat \ {0} /\ Embd \in Nat \ {0}
  /\ VHeads \in Nat /\ VHeads % KHeads = 0
  /\ QHeads \in Nat /\ KvHeads \in Nat \ {0} /\ QHeads % KvHeads = 0 /\ KvHeads % 2 = 0
  /\ AttnHeadDim \in Nat \ {0}
  /\ Ff \in Nat /\ Ff % 2 = 0 /\ Vocab \in Nat /\ Vocab % 2 = 0

\* Q8_ELEMS is the half of N_FF, the largest vector quantised on a GPU, and one attn_out
\* serves both mixers: 48 heads of 128 and 24 of 256 are 6144 wide.
ASSUME ScratchAssumption ==
  /\ Embd <= Ff \div 2 /\ VHeads * HeadDim <= Ff
  /\ QHeads * AttnHeadDim <= VHeads * HeadDim

NLayers == Len(Layer)

QkvRows == (2 * KHeads + VHeads) * HeadDim       \* CONV_CHANNELS: q, k, v
QGateRows == 2 * QHeads * AttnHeadDim            \* each head's q, then its gate

\* A local share of a split dimension.
Sp(d, gpus) == d \div gpus

At(name, off) == [name |-> name, off |-> off]
Buf(name) == At(<<0, name>>, 0)
Weight(l, name) == At(<<l, name>>, 0)

Instr(kind, p, n) == [kind |-> kind, p |-> p, n |-> n]

\* The sites of a layer: its mixer's and its FFN's.
Site(l, k) == 2 * (l - 1) + k
Sites == 2 * NLayers

RmsnormInstr(weight, fold) ==
  Instr("RMSNORM",
        IF fold THEN [src |-> Buf("residual"), weight |-> weight, dst |-> Buf("xn"),
                      add_src |-> Buf("proj_out"), write_sum |-> Buf("residual")]
                ELSE [src |-> Buf("residual"), weight |-> weight, dst |-> Buf("xn")],
        [width |-> Embd])

Quant(src, elems) ==
  Instr("QUANT_Q8_1", [src |-> Buf(src), dst |-> Buf("q8_act")], [elems |-> elems])

Gemv(kind, weight, src, ncols, rows, dst) ==
  Instr(kind, [weight |-> weight, src |-> Buf(src), dst |-> Buf(dst)],
        [src_elems |-> ncols, row_lo |-> 0, row_hi |-> rows])

\* A projection that expands the mirrored activations to local rows.
Expand(weight, rows, dst, gpus) ==
  Gemv("MMVQ", weight, "q8_act", Embd, Sp(rows, gpus), dst)

\* A projection of local columns to all rows, and the fold of both partials.
Contract(weight, ncols, site, gpus) ==
  LET gemv == Gemv("MMVQ", weight, "q8_act", Sp(ncols, gpus), Embd, "proj_out")
      push == Instr("XCHG_PUSH", [local_partial |-> Buf("proj_out")],
                    [n_elems |-> Embd, site |-> site])
      red  == Instr("XCHG_REDUCE",
                    [local_partial |-> Buf("proj_out"), out |-> Buf("proj_out")],
                    [n_elems |-> Embd, site |-> site])
  IN IF gpus = 1 THEN <<gemv>> ELSE <<gemv, push, red>>

FfnInstrs(l, gpus) ==
  << RmsnormInstr(Weight(l, "post_attention_norm"), TRUE),
     Quant("xn", Embd),
     Instr("MMVQ_FUSED",
           [weight_up |-> Weight(l, "ffn_up"), weight_gate |-> Weight(l, "ffn_gate"),
            src |-> Buf("q8_act"), dst |-> Buf("ffn_ws")],
           [src_elems |-> Embd, row_lo |-> 0, row_hi |-> Sp(Ff, gpus)]),
     Quant("ffn_ws", Sp(Ff, gpus)) >>
  \o Contract(Weight(l, "ffn_down"), Ff, Site(l, 1), gpus)

DnInstrs(l, gpus) ==
  LET q == At(<<0, "mixer_out">>, 0)
      k == At(<<0, "mixer_out">>, Sp(KHeads * HeadDim, gpus))
      v == At(<<0, "mixer_out">>, Sp(2 * KHeads * HeadDim, gpus))
  IN
  << RmsnormInstr(Weight(l, "attn_norm"), l > 1),
     Quant("xn", Embd),
     Expand(Weight(l, "attn_qkv"), QkvRows, "mixer_out", gpus),
     Expand(Weight(l, "attn_gate"), VHeads * HeadDim, "gate_out", gpus),
     Gemv("GEMV_F16", Weight(l, "ssm_alpha"), "xn", Embd, Sp(VHeads, gpus), "gdn_alpha"),
     Gemv("GEMV_F16", Weight(l, "ssm_beta"), "xn", Embd, Sp(VHeads, gpus), "gdn_beta"),
     Instr("STATE_LOAD", [src |-> At(<<l, "state_s">>, 0), dst |-> Buf("gdn_state")],
           [elems |-> Sp(VHeads * HeadDim, gpus)]),
     Instr("GDN_GATES",
           [alpha |-> Buf("gdn_alpha"), beta |-> Buf("gdn_beta"),
            dt_bias |-> Weight(l, "ssm_dt"), a |-> Weight(l, "ssm_a"),
            g_dst |-> Buf("gdn_alpha"), beta_dst |-> Buf("gdn_beta")],
           [heads |-> Sp(VHeads, gpus)]),
     Instr("CONV_SHIFT_CONCAT",
           [hist |-> At(<<l, "state_r">>, 0), xnew |-> Buf("mixer_out"),
            win |-> Buf("conv_ws"), state |-> At(<<l, "state_r">>, 0)],
           [channels |-> Sp(QkvRows, gpus)]),
     Instr("SSM_CONV_SILU",
           [win |-> Buf("conv_ws"), weight |-> Weight(l, "ssm_conv1d"),
            dst |-> Buf("mixer_out")], [channels |-> Sp(QkvRows, gpus)]),
     Instr("QK_L2NORM", [q |-> q, k |-> k], [heads |-> Sp(KHeads, gpus)]),
     Instr("GDN_STEP",
           [q |-> q, k |-> k, v |-> v, g |-> Buf("gdn_alpha"), beta |-> Buf("gdn_beta"),
            state |-> Buf("gdn_state"), dst |-> Buf("attn_out")],
           [v_heads |-> Sp(VHeads, gpus), k_heads |-> Sp(KHeads, gpus)]),
     Instr("GATED_RMSNORM",
           [src |-> Buf("attn_out"), gate |-> Buf("gate_out"),
            weight |-> Weight(l, "ssm_norm"), dst |-> Buf("attn_out")],
           [heads |-> Sp(VHeads, gpus)]),
     Instr("STATE_STORE", [src |-> Buf("gdn_state"), dst |-> At(<<l, "state_s">>, 0)],
           [elems |-> Sp(VHeads * HeadDim, gpus)]),
     Quant("attn_out", Sp(VHeads * HeadDim, gpus)) >>
  \o Contract(Weight(l, "ssm_out"), VHeads * HeadDim, Site(l, 0), gpus)
  \o FfnInstrs(l, gpus)

AttnInstrs(l, gpus) ==
  LET cache == [cache_k |-> At(<<l, "cache_k">>, 0), cache_v |-> At(<<l, "cache_v">>, 0)] IN
  << RmsnormInstr(Weight(l, "attn_norm"), l > 1),
     Quant("xn", Embd),
     Expand(Weight(l, "attn_q"), QGateRows, "mixer_out", gpus),
     Expand(Weight(l, "attn_k"), KvHeads * AttnHeadDim, "k_stage", gpus),
     Expand(Weight(l, "attn_v"), KvHeads * AttnHeadDim, "v_stage", gpus),
     Instr("QK_NORM_ROPE",
           [q_src |-> Buf("mixer_out"), q_norm_weight |-> Weight(l, "attn_q_norm"),
            q_dst |-> Buf("fattn_q"), k_src |-> Buf("k_stage"),
            k_norm_weight |-> Weight(l, "attn_k_norm"), k_dst |-> Buf("k_stage"),
            positions |-> Buf("positions")],
           [q_heads |-> Sp(QHeads, gpus), k_heads |-> Sp(KvHeads, gpus),
            q_head_stride |-> 2 * AttnHeadDim]),
     Instr("KV_APPEND",
           [k_src |-> Buf("k_stage"), v_src |-> Buf("v_stage"), row |-> Buf("kv_row"),
            cache_k |-> cache.cache_k, cache_v |-> cache.cache_v],
           [row_width |-> Sp(KvHeads, gpus) * AttnHeadDim]),
     Instr("FATTN_DECODE",
           [q |-> Buf("fattn_q"), cache_k |-> cache.cache_k, cache_v |-> cache.cache_v,
            mask |-> Buf("mask_f16"), n_kv |-> Buf("n_kv"), partials |-> Buf("fattn_partial")],
           [q_heads |-> Sp(QHeads, gpus), kv_heads |-> Sp(KvHeads, gpus)]),
     Instr("FATTN_REDUCE", [partials |-> Buf("fattn_partial"), dst |-> Buf("attn_out")],
           [q_heads |-> Sp(QHeads, gpus)]),
     Instr("ATTN_GATE",
           [attn |-> Buf("attn_out"), gate |-> At(<<0, "mixer_out">>, AttnHeadDim),
            dst |-> Buf("attn_out")],
           [heads |-> Sp(QHeads, gpus), gate_head_stride |-> 2 * AttnHeadDim]),
     Quant("attn_out", Sp(QHeads * AttnHeadDim, gpus)) >>
  \o Contract(Weight(l, "attn_output"), QHeads * AttnHeadDim, Site(l, 0), gpus)
  \o FfnInstrs(l, gpus)

Program(gpus) ==
  LET upto[l \in 0 .. NLayers] ==
        IF l = 0
        THEN << Instr("EMBED_LOOKUP", [weight |-> Weight(0, "token_embd"),
                                       token |-> Buf("token"), dst |-> Buf("residual")],
                      [n_embd |-> Embd]) >>
        ELSE upto[l-1] \o (IF Layer[l] = "dn" THEN DnInstrs(l, gpus) ELSE AttnInstrs(l, gpus))
  IN upto[NLayers] \o
     << RmsnormInstr(Weight(0, "output_norm"), TRUE),
        Gemv("GEMV_F16", Weight(0, "output"), "xn", Embd, Sp(Vocab, gpus), "logits"),
        Instr("LOGITS_EMIT", [src |-> Buf("logits"), dst |-> Buf("result_output")],
              [elems |-> Sp(Vocab, gpus)]) >>

\* The buffer table: the local halves, but for the mirrored trunk and the outputs of
\* the contract projections.
BufferTable(gpus) ==
  [residual |-> Embd, xn |-> Embd, q8_act |-> Sp(Ff, gpus),
   mixer_out |-> Sp(IF QGateRows > QkvRows THEN QGateRows ELSE QkvRows, gpus),
   conv_ws |-> DConv * Sp(QkvRows, gpus),
   gdn_alpha |-> Sp(VHeads, gpus), gdn_beta |-> Sp(VHeads, gpus),
   gdn_state |-> Sp(VHeads * HeadDim, gpus), attn_out |-> Sp(VHeads * HeadDim, gpus),
   gate_out |-> Sp(VHeads * HeadDim, gpus), k_stage |-> Sp(KvHeads * AttnHeadDim, gpus),
   v_stage |-> Sp(KvHeads * AttnHeadDim, gpus), fattn_q |-> Sp(QHeads, gpus) * AttnHeadDim,
   fattn_partial |-> Sp(QHeads, gpus), ffn_ws |-> Sp(Ff, gpus), proj_out |-> Embd,
   logits |-> Sp(Vocab, gpus)]
==============================================================================
