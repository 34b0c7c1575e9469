-------------------------------- MODULE Packer --------------------------------
(***************************************************************************)
(* What of a device k0/harness.cpp allocates besides the weights, and how  *)
(* its packer turns an instruction of program.json into those the kernel   *)
(* executes: operands by name into pointers, and one instruction into one  *)
(* or two.                                                                 *)
(*                                                                         *)
(* A resolver is a function of names, to where a name begins and how many  *)
(* cells it has.                                                           *)
(***************************************************************************)
EXTENDS MacroOps

CONSTANTS NCtx,    \* rows of a KV cache
          KvPad    \* 256, the unit of the attention window

ASSUME PackerAssumption == NCtx \in Nat \ {0} /\ KvPad \in Nat \ {0}

PadUp(v, unit) == ((v + unit - 1) \div unit) * unit

\* f with what g has besides.
f ++ g == [x \in DOMAIN f \cup DOMAIN g |-> IF x \in DOMAIN f THEN f[x] ELSE g[x]]

Pointer(gpu, buf, off) == [gpu |-> gpu, buf |-> buf, off |-> off]

(***************************************************************************)
(* The allocations, all zero-filled.                                       *)
(***************************************************************************)
PassCells == {"positions", "kv_row", "n_kv", "mask_f16"}

RuntimeBuffers(gpus) ==
  {b \in (1 .. NLayers) \X {"cache_k", "cache_v"} : Layer[b[1]] = "attn"}
  \cup {b \in (1 .. NLayers) \X {"conv_state", "ssm_state"} : Layer[b[1]] = "dn"}
  \cup {<<0, c>> : c \in PassCells \cup {"result_output"} \cup DOMAIN BufferTable(gpus)}

CellsOf(name, gpus) ==
  LET c == name[2] IN
    CASE c \in {"cache_k", "cache_v"} -> NCtx * Sp(KvHeads * AttnHeadDim, gpus)
      [] c = "conv_state"             -> (DConv - 1) * Sp(QkvRows, gpus)
      [] c = "ssm_state"              -> Sp(VHeads * HeadDim, gpus)
      [] c = "mask_f16"               -> PadUp(NCtx, KvPad)
      [] c \in PassCells \ {"mask_f16"} -> 1
      [] c = "result_output"          -> Sp(Vocab, gpus)
      [] OTHER                        -> BufferTable(gpus)[c]

ZeroFilled(n) == [i \in 0 .. n-1 |-> Zero]

(***************************************************************************)
(* set_pass_inputs: the cells of a pass at position pos, on a device d.    *)
(***************************************************************************)
Window(pos) == PadUp(pos + 1, KvPad)

SetPassInputs(d, pos) ==
  [d EXCEPT ![<<0, "positions">>] = [i \in {0} |-> pos],
            ![<<0, "kv_row">>]    = [i \in {0} |-> pos],
            ![<<0, "n_kv">>]      = [i \in {0} |-> Window(pos)],
            ![<<0, "mask_f16">>]  =
              [j \in DOMAIN @ |-> IF j < Window(pos)
                                  THEN IF j <= pos THEN Zero ELSE NegInf
                                  ELSE @[j]]]

SetToken(d, token) == [d EXCEPT ![<<0, "token">>] = [i \in {0} |-> token]]

(***************************************************************************)
(* The packer.                                                             *)
(***************************************************************************)
DeviceName(name) ==
  CASE name[2] = "state_r" -> <<name[1], "conv_state">>
    [] name[2] = "state_s" -> <<name[1], "ssm_state">>
    [] OTHER               -> name

\* buffer base plus element offset
DevF32(resolver, operand) ==
  LET base == resolver[DeviceName(operand.name)].ptr
  IN [base EXCEPT !.off = @ + operand.off]

\* The kinds with a pack function, BOUNDARY and NOP apart.
KindTable ==
  {"EMBED_LOOKUP", "RMSNORM", "QUANT_Q8_1", "MMVQ", "MMVQ_FUSED", "GEMV_F16",
   "LOGITS_EMIT", "CONV_SHIFT_CONCAT", "SSM_CONV_SILU", "QK_L2NORM", "GDN_GATES",
   "GDN_STEP", "GATED_RMSNORM", "QK_NORM_ROPE", "KV_APPEND", "FATTN_DECODE",
   "FATTN_REDUCE", "ATTN_GATE", "STATE_LOAD", "STATE_STORE", "XCHG_PUSH", "XCHG_REDUCE"}

QkContiguous(ins) ==
  ins.p.q.name = ins.p.k.name /\ ins.p.k.off = ins.p.q.off + ins.n.heads * HeadDim

Emitted(ins) ==
  LET p == ins.p  n == ins.n IN
    CASE ins.kind = "QK_L2NORM" ->
           <<Instr("QK_L2NORM", [buf |-> p.q], [n_heads |-> 2 * n.heads])>>
      [] ins.kind = "QK_NORM_ROPE" ->
           <<Instr("QK_NORM_ROPE",
                   [src |-> p.q_src, norm_w |-> p.q_norm_weight, pos |-> p.positions,
                    dst |-> p.q_dst],
                   [n_heads |-> n.q_heads, src_stride |-> n.q_head_stride]),
             Instr("QK_NORM_ROPE",
                   [src |-> p.k_src, norm_w |-> p.k_norm_weight, pos |-> p.positions,
                    dst |-> p.k_dst],
                   [n_heads |-> n.k_heads, src_stride |-> AttnHeadDim])>>
      [] ins.kind = "KV_APPEND" ->
           <<Instr("KV_APPEND", [src |-> p.k_src, row_idx |-> p.row, cache |-> p.cache_k], n),
             Instr("KV_APPEND", [src |-> p.v_src, row_idx |-> p.row, cache |-> p.cache_v], n)>>
      [] OTHER -> <<ins>>

\* An unknown kind or name, or a q that k does not follow, ends the packing.
Packable(ins, resolver) ==
  /\ ins.kind \in KindTable
  /\ \A f \in DOMAIN ins.p : DeviceName(ins.p[f].name) \in DOMAIN resolver
  /\ ins.kind = "QK_L2NORM" => QkContiguous(ins)

Bound(ins, resolver) ==
  Instr(ins.kind, [f \in DOMAIN ins.p |-> DevF32(resolver, ins.p[f])], ins.n)
===============================================================================
