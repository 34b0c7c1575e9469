------------------------------- MODULE MacroOps -------------------------------
(***************************************************************************)
(* The macro-ops of k0/ops as maps of device memory: the cells each reads, *)
(* the value it makes of them and the cells it writes.                     *)
(*                                                                         *)
(* Memory is m[gpu][buf][i] and a pointer is a record of gpu, buf and off. *)
(* A value is a weight, or a term: the name of a computation and what it   *)
(* was computed from, so equal values are the same computation of the      *)
(* same weights and tokens.  A dot product is the set of its products: the *)
(* order of its sum is left out, and so are the blocks of an instruction's *)
(* range and the conversions between f16, q8_1 and f32 that lose bits.     *)
(***************************************************************************)
EXTENDS SplitProgram, FiniteSets

CONSTANTS Zero,     \* 0.0f, and a mask's 0
          NegInf,   \* a mask's -inf
          Wild      \* what lies outside a buffer, or was never written

Write(p, val) == [to |-> p, val |-> val]

Load(m, p, i) ==
  LET cells == m[p.gpu][p.buf]
  IN IF p.off + i \in DOMAIN cells THEN cells[p.off + i] ELSE Wild

Vector(m, p, n) == [i \in 0 .. n-1 |-> Load(m, p, i)]
\* A head of a DeltaNet layer, and one of an attention layer.
HeadAt(m, p, first) == [i \in 0 .. HeadDim-1 |-> Load(m, p, first + i)]
AttnHeadAt(m, p, first) == [i \in 0 .. AttnHeadDim-1 |-> Load(m, p, first + i)]

EmbedLookup(m, p, n) ==
  LET row == Load(m, p.token, 0) * n.n_embd
  IN {Write(p.dst, [i \in 0 .. n.n_embd-1 |-> Load(m, p.weight, row + i)])}

Rmsnorm(m, p, n) ==
  LET sum == [i \in 0 .. n.width-1 |->
                IF "add_src" \in DOMAIN p
                THEN <<"add", Load(m, p.src, i), Load(m, p.add_src, i)>>
                ELSE Load(m, p.src, i)]
  IN {Write(p.dst, [i \in 0 .. n.width-1 |-> <<"rmsnorm", sum, i, Load(m, p.weight, i)>>])}
     \cup {Write(p[f], sum) : f \in DOMAIN p \cap {"write_sum"}}

QuantQ81(m, p, n) ==
  {Write(p.dst, [i \in 0 .. n.elems-1 |-> <<"q8_1", Load(m, p.src, i)>>])}

\* Row r of a weight times the vector at x.
RowDot(m, w, r, x, ncols) ==
  <<"dot", {<<Load(m, w, r * ncols + c), Load(m, x, c)>> : c \in 0 .. ncols-1}>>

Mmvq(m, p, n) ==
  {Write(p.dst, [r \in n.row_lo .. n.row_hi-1 |->
                   RowDot(m, p.weight, r, p.src, n.src_elems)])}

GemvF16(m, p, n) == Mmvq(m, p, n)

MmvqFused(m, p, n) ==
  {Write(p.dst, [r \in n.row_lo .. n.row_hi-1 |->
                   <<"swiglu", RowDot(m, p.weight_up, r, p.src, n.src_elems),
                               RowDot(m, p.weight_gate, r, p.src, n.src_elems)>>])}

StateCopy(m, p, n) == {Write(p.dst, Vector(m, p.src, n.elems))}   \* row 0 of the cache

\* The window of channel c is its history and the new column; the history moves on by one.
ConvShiftConcat(m, p, n) ==
  LET hist == DConv - 1
      win == [k \in 0 .. n.channels * DConv - 1 |->
                LET c == k \div DConv  j == k % DConv
                IN IF j < hist THEN Load(m, p.hist, c * hist + j) ELSE Load(m, p.xnew, c)]
  IN {Write(p.win, win),
      Write(p.state, [k \in 0 .. n.channels * hist - 1 |->
                        win[(k \div hist) * DConv + (k % hist) + 1]])}

SsmConvSilu(m, p, n) ==
  {Write(p.dst, [c \in 0 .. n.channels-1 |->
     <<"conv", [j \in 0 .. DConv-1 |->
                  <<Load(m, p.win, c * DConv + j), Load(m, p.weight, c * DConv + j)>>]>>])}

QkL2norm(m, p, n) ==
  {Write(p.buf, [i \in 0 .. n.n_heads * HeadDim - 1 |->
     <<"l2norm", HeadAt(m, p.buf, (i \div HeadDim) * HeadDim), i % HeadDim>>])}

GdnGates(m, p, n) ==
  {Write(p.g_dst, [h \in 0 .. n.heads-1 |->
     <<"decay", Load(m, p.alpha, h), Load(m, p.dt_bias, h), Load(m, p.a, h)>>]),
   Write(p.beta_dst, [h \in 0 .. n.heads-1 |-> <<"sigmoid", Load(m, p.beta, h)>>])}

\* One task per head and column; a cell of the state is a column of HeadDim.
GdnStep(m, p, n) ==
  LET step(t) ==
        LET h == t \div HeadDim
        IN <<"delta", Load(m, p.g, h), Load(m, p.beta, h), Load(m, p.v, t),
             Load(m, p.state, t), HeadAt(m, p.k, (h % n.k_heads) * HeadDim)>>
      tasks == 0 .. n.v_heads * HeadDim - 1
  IN {Write(p.state, [t \in tasks |-> step(t)]),
      Write(p.dst, [t \in tasks |->
        <<"readout", step(t), HeadAt(m, p.q, ((t \div HeadDim) % n.k_heads) * HeadDim)>>])}

GatedRmsnorm(m, p, n) ==
  {Write(p.dst, [i \in 0 .. n.heads * HeadDim - 1 |->
     <<"gated", HeadAt(m, p.src, (i \div HeadDim) * HeadDim), i % HeadDim,
       Load(m, p.weight, i % HeadDim), Load(m, p.gate, i)>>])}

QkNormRope(m, p, n) ==
  {Write(p.dst, [i \in 0 .. n.n_heads * AttnHeadDim - 1 |->
     <<"rope", Load(m, p.pos, 0), AttnHeadAt(m, p.src, (i \div AttnHeadDim) * n.src_stride),
       i % AttnHeadDim, AttnHeadAt(m, p.norm_w, 0)>>])}

\* Mutant of KvAppend: the row after that of the position.
KvAppendAfter(m, p, n) ==
  LET row == Load(m, p.row_idx, 0) + 1
  IN {Write([p.cache EXCEPT !.off = @ + row * n.row_width],
            [i \in 0 .. n.row_width-1 |-> <<"f16", Load(m, p.src, i)>>])}

KvAppend(m, p, n) ==
  LET row == Load(m, p.row_idx, 0)
  IN {Write([p.cache EXCEPT !.off = @ + row * n.row_width],
            [i \in 0 .. n.row_width-1 |-> <<"f16", Load(m, p.src, i)>>])}

\* The rows of the window the mask leaves, for each q head with the kv head it shares.
FattnDecode(m, p, n) ==
  LET rows == {j \in 0 .. Load(m, p.n_kv, 0) - 1 : Load(m, p.mask, j) = Zero}
      width == n.kv_heads * AttnHeadDim
      kvhead(h) == h \div (n.q_heads \div n.kv_heads)
  IN {Write(p.partials, [h \in 0 .. n.q_heads-1 |->
        <<"scores", AttnHeadAt(m, p.q, h * AttnHeadDim),
          {<<j, AttnHeadAt(m, p.cache_k, j * width + kvhead(h) * AttnHeadDim),
                AttnHeadAt(m, p.cache_v, j * width + kvhead(h) * AttnHeadDim)>> : j \in rows}>>])}

FattnReduce(m, p, n) ==
  {Write(p.dst, [i \in 0 .. n.q_heads * AttnHeadDim - 1 |->
     <<"attention", Load(m, p.partials, i \div AttnHeadDim), i % AttnHeadDim>>])}

AttnGate(m, p, n) ==
  {Write(p.dst, [i \in 0 .. n.heads * AttnHeadDim - 1 |->
     <<"gate", Load(m, p.attn, i),
       Load(m, p.gate, (i \div AttnHeadDim) * n.gate_head_stride + (i % AttnHeadDim))>>])}

LogitsEmit(m, p, n) == {Write(p.dst, Vector(m, p.src, n.elems))}

XchgPush(m, p, n) == {Write(p.peer_payload, Vector(m, p.local_partial, n.n_elems))}

\* The sum of two partial dot products over columns they do not share.
IsDot(v) == v \notin {Zero, NegInf, Wild} /\ v[1] = "dot"
Sum(x, y) ==
  IF IsDot(x) /\ IsDot(y) /\ x[2] \cap y[2] = {} THEN <<"dot", x[2] \cup y[2]>> ELSE Wild

XchgFold(m, p, n) ==
  {Write(p.out, [i \in 0 .. n.n_elems-1 |->
     Sum(Load(m, p.local_partial, i), Load(m, p.my_payload, i))])}

Execute(m, ins) ==
  LET k == ins.kind  p == ins.p  n == ins.n IN
    CASE k = "EMBED_LOOKUP"  -> EmbedLookup(m, p, n)
      [] k = "RMSNORM"       -> Rmsnorm(m, p, n)
      [] k = "QUANT_Q8_1"    -> QuantQ81(m, p, n)
      [] k = "MMVQ"          -> Mmvq(m, p, n)
      [] k = "MMVQ_FUSED"    -> MmvqFused(m, p, n)
      [] k = "GEMV_F16"      -> GemvF16(m, p, n)
      [] k \in {"STATE_LOAD", "STATE_STORE"} -> StateCopy(m, p, n)
      [] k = "CONV_SHIFT_CONCAT" -> ConvShiftConcat(m, p, n)
      [] k = "SSM_CONV_SILU" -> SsmConvSilu(m, p, n)
      [] k = "QK_L2NORM"     -> QkL2norm(m, p, n)
      [] k = "GDN_GATES"     -> GdnGates(m, p, n)
      [] k = "GDN_STEP"      -> GdnStep(m, p, n)
      [] k = "GATED_RMSNORM" -> GatedRmsnorm(m, p, n)
      [] k = "QK_NORM_ROPE"  -> QkNormRope(m, p, n)
      [] k = "KV_APPEND"     -> KvAppend(m, p, n)
      [] k = "FATTN_DECODE"  -> FattnDecode(m, p, n)
      [] k = "FATTN_REDUCE"  -> FattnReduce(m, p, n)
      [] k = "ATTN_GATE"     -> AttnGate(m, p, n)
      [] k = "LOGITS_EMIT"   -> LogitsEmit(m, p, n)
      [] k = "XCHG_PUSH"     -> XchgPush(m, p, n)
      [] k = "XCHG_REDUCE"   -> XchgFold(m, p, n)

InBounds(m, writes) ==
  \A w \in writes : \A i \in DOMAIN w.val : w.to.off + i \in DOMAIN m[w.to.gpu][w.to.buf]

\* Memory after writes that do not overlap.
Stored(m, writes) ==
  [g \in DOMAIN m |-> [b \in DOMAIN m[g] |->
     LET here == {w \in writes : w.to.gpu = g /\ w.to.buf = b} IN
     IF here = {} THEN m[g][b]
     ELSE [i \in DOMAIN m[g][b] |->
             LET by == {w \in here : i >= w.to.off /\ i - w.to.off \in DOMAIN w.val}
             IN IF by = {} THEN m[g][b][i]
                ELSE LET w == CHOOSE w \in by : TRUE IN w.val[i - w.to.off]]]]
==============================================================================
