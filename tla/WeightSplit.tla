----------------------------- MODULE WeightSplit -----------------------------
(***************************************************************************)
(* What each GPU uploads of a weight: dn_stride, weight_axis and           *)
(* weight_slice of k0/harness.cpp, for two GPUs.                           *)
(*                                                                         *)
(* A tensor is an array of ne[1] rows of ne[0] units, in row-major order;  *)
(* a unit is as many elements as never part (a quantisation block at       *)
(* least).  A name is <<block, suffix>>, and block 0 is the whole model.   *)
(***************************************************************************)
EXTENDS Naturals

CONSTANTS KHeads,    \* 16, the q and k heads of a DeltaNet layer
          HeadDim    \* GDN_HEAD_DIM, 128: the rows of such a head

ASSUME WeightSplitAssumption ==
  KHeads \in Nat \ {0} /\ KHeads % 2 = 0 /\ HeadDim \in Nat \ {0}

GPU == {0, 1}

\* dim: what is halved, in blocks of period; "none" for the weights without a stride.
DnStride(name) ==
  CASE name[2] \in {"attn_qkv", "ssm_conv1d", "attn_gate"} ->
         [dim |-> "row", period |-> KHeads * HeadDim]
    [] name[2] \in {"ssm_alpha", "ssm_beta"} -> [dim |-> "row", period |-> KHeads]
    [] name[2] \in {"ssm_a", "ssm_dt"}       -> [dim |-> "row1d", period |-> KHeads]
    [] name[2] = "ssm_out"                   -> [dim |-> "col", period |-> KHeads * HeadDim]
    [] OTHER                                 -> [dim |-> "none", period |-> 0]

WeightAxis(name) ==
  CASE name[2] \in {"attn_output", "ffn_down"} -> "col"
    [] name[2] \in {"attn_q", "attn_k", "attn_v", "ffn_gate", "ffn_up", "output"} -> "row"
    [] OTHER -> "mirror"

\* The k-th index of GPU g, of a dimension split in blocks of period of which each
\* GPU has its half.
HalfOfBlocks(k, period, g) ==
  LET half == period \div 2
  IN (k \div half) * period + g * half + (k % half)

\* nbytes of a tensor.
Units(t) == t.ne[1] * t.ne[2]

(***************************************************************************)
(* The slice of GPU g of tensor t, from local offsets to those of the      *)
(* file.                                                                   *)
(***************************************************************************)
StridedRows(t, period, g) ==
  [k \in 0 .. ((t.ne[2] \div period) * (period \div 2)) * t.ne[1] - 1 |->
     HalfOfBlocks(k \div t.ne[1], period, g) * t.ne[1] + (k % t.ne[1])]

StridedVector(t, period, g) ==
  [k \in 0 .. (t.ne[1] \div period) * (period \div 2) - 1 |-> HalfOfBlocks(k, period, g)]

StridedColumns(t, period, g) ==
  LET width == (t.ne[1] \div period) * (period \div 2)
  IN [k \in 0 .. t.ne[2] * width - 1 |->
        (k \div width) * t.ne[1] + HalfOfBlocks(k % width, period, g)]

Mirror(t) == [k \in 0 .. Units(t) - 1 |-> k]

HalfOfRows(t, g) ==
  [k \in 0 .. (Units(t) \div 2) - 1 |-> g * (Units(t) \div 2) + k]

HalfOfColumns(t, g) ==
  LET half == t.ne[1] \div 2
  IN [k \in 0 .. t.ne[2] * half - 1 |-> (k \div half) * t.ne[1] + g * half + (k % half)]

\* Mutant of WeightSlice: the DeltaNet weights are split as those of attention.
PlainSlice(t, g) ==
  IF DnStride(t.name).dim = "col" \/ WeightAxis(t.name) = "col" THEN HalfOfColumns(t, g)
  ELSE IF DnStride(t.name).dim # "none" \/ WeightAxis(t.name) = "row" THEN HalfOfRows(t, g)
  ELSE Mirror(t)

WeightSlice(t, g) ==
  LET s == DnStride(t.name) IN
    CASE s.dim = "row"   -> StridedRows(t, s.period, g)
      [] s.dim = "row1d" -> StridedVector(t, s.period, g)
      [] s.dim = "col"   -> StridedColumns(t, s.period, g)
      [] s.dim = "none"  ->
           CASE WeightAxis(t.name) = "mirror" -> Mirror(t)
             [] WeightAxis(t.name) = "row"    -> HalfOfRows(t, g)
             [] WeightAxis(t.name) = "col"    -> HalfOfColumns(t, g)
==============================================================================
