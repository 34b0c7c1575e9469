------------------------------ MODULE WholeModel ------------------------------
(***************************************************************************)
(* The single-GPU harness: all weights and the unsplit program on one      *)
(* device, which decodes Tokens.  What its memory has at the end of each   *)
(* pass is what the split program must have computed.                      *)
(*                                                                         *)
(* To keep values small each term is replaced by its name in names, given  *)
(* at the first cell that holds it; equal names are equal terms.           *)
(***************************************************************************)
EXTENDS Packer

CONSTANT Tokens    \* the tokens of the passes, the first at position 0

\* prompt and steps together fit the context, or the run is refused
ASSUME WholeModelAssumption == Tokens \in Seq(0 .. Vocab - 1) /\ Len(Tokens) <= NCtx

VARIABLES
  whole,      \* memory of the device
  wat,        \* the instruction it is at
  names,      \* the name of each term computed so far
  expected    \* what the device has at the end of each pass so far

wvars == <<whole, wat, names, expected>>

(***************************************************************************)
(* The model file: the decode graph's tensors, and the MTP block's.        *)
(***************************************************************************)
Tensor(block, suffix, type, ne0, ne1) ==
  [name |-> <<block, suffix>>, type |-> type, ne |-> <<ne0, ne1>>]

FfnTensors(l) ==
  << Tensor(l, "post_attention_norm", "f32", Embd, 1),
     Tensor(l, "ffn_up", "q4_0", Embd, Ff), Tensor(l, "ffn_gate", "q4_0", Embd, Ff),
     Tensor(l, "ffn_down", "q4_0", Ff, Embd) >>

DnTensors(l) ==
  << Tensor(l, "attn_norm", "f32", Embd, 1),
     Tensor(l, "attn_qkv", "q4_0", Embd, QkvRows),
     Tensor(l, "attn_gate", "q4_0", Embd, VHeads * HeadDim),
     Tensor(l, "ssm_a", "f32", VHeads, 1), Tensor(l, "ssm_dt", "f32", VHeads, 1),
     Tensor(l, "ssm_alpha", "f16", Embd, VHeads), Tensor(l, "ssm_beta", "f16", Embd, VHeads),
     Tensor(l, "ssm_conv1d", "f32", DConv, QkvRows), Tensor(l, "ssm_norm", "f32", HeadDim, 1),
     Tensor(l, "ssm_out", "q4_0_ar16", VHeads * HeadDim, Embd) >>

AttnTensors(l) ==
  << Tensor(l, "attn_norm", "f32", Embd, 1),
     Tensor(l, "attn_q", "q4_0", Embd, QGateRows),
     Tensor(l, "attn_k", "q4_0", Embd, KvHeads * AttnHeadDim),
     Tensor(l, "attn_v", "q4_0", Embd, KvHeads * AttnHeadDim),
     Tensor(l, "attn_q_norm", "f32", AttnHeadDim, 1),
     Tensor(l, "attn_k_norm", "f32", AttnHeadDim, 1),
     Tensor(l, "attn_output", "q4_0", QHeads * AttnHeadDim, Embd) >>

MtpBlock == NLayers + 1

ModelFile ==
  LET upto[l \in 0 .. NLayers] ==
        IF l = 0 THEN << Tensor(0, "token_embd", "f16", Embd, Vocab),
                         Tensor(0, "output_norm", "f32", Embd, 1),
                         Tensor(0, "output", "f16", Embd, Vocab) >>
        ELSE upto[l-1] \o (IF Layer[l] = "dn" THEN DnTensors(l) ELSE AttnTensors(l))
                       \o FfnTensors(l)
  IN upto[NLayers] \o <<Tensor(MtpBlock, "attn_norm", "f32", Embd, 1)>>

Element(t, k) == <<"weight", t.name, k>>

(***************************************************************************)
(* The device, and the program packed for it.                              *)
(***************************************************************************)
WeightsWhole ==
  [b \in {ModelFile[k].name : k \in {j \in DOMAIN ModelFile : ModelFile[j].name[1] # MtpBlock}}
     |-> LET t == CHOOSE t \in {ModelFile[k] : k \in DOMAIN ModelFile} : t.name = b
         IN [k \in 0 .. Units(t) - 1 |-> Element(t, k)]]

WholeDevice ==
  WeightsWhole ++ [b \in RuntimeBuffers(1) |-> ZeroFilled(CellsOf(b, 1))]
               ++ [b \in {<<0, "token">>} |-> ZeroFilled(1)]

WholeResolver == [b \in DOMAIN WholeDevice |-> [ptr |-> Pointer(0, b, 0)]]

WholeInstrs ==
  LET instrs == Program(1)
      upto[k \in 0 .. Len(instrs)] ==
        IF k = 0 THEN << >>
        ELSE LET e == Emitted(instrs[k])
             IN upto[k-1] \o [j \in DOMAIN e |-> Bound(e[j], WholeResolver)]
  IN upto[Len(instrs)]

(***************************************************************************)
(* A pass.                                                                 *)
(***************************************************************************)
Atom(v) == v \in {Zero, NegInf, Wild} \/ v[1] \in {"weight", "value"}

CellsWritten(writes) == UNION {{[w |-> w, i |-> i] : i \in DOMAIN w.val} : w \in writes}

NewNames(known, writes, id) ==
  LET cells == {c \in CellsWritten(writes) :
                  ~ Atom(c.w.val[c.i]) /\ c.w.val[c.i] \notin DOMAIN known}
      first(v) == CHOOSE c \in cells : c.w.val[c.i] = v
  IN [v \in {c.w.val[c.i] : c \in cells} |-> <<"value", id, first(v).w.to.buf, first(v).i>>]

\* The writes with every term by its name.  A dot product without one is a partial
\* sum; what else has none is nothing the whole model computes.
Named(writes, known) ==
  {Write(w.to, [i \in DOMAIN w.val |->
      LET v == w.val[i] IN
        IF Atom(v) THEN v
        ELSE IF v \in DOMAIN known THEN known[v]
        ELSE IF IsDot(v) THEN v ELSE Wild]) : w \in writes}

Observed == {<<0, "residual">>, <<0, "xn">>, <<0, "proj_out">>, <<0, "result_output">>}
            \cup {b \in RuntimeBuffers(1) : b[1] # 0}

WInit ==
  /\ whole = [g \in {0} |-> WholeDevice] /\ wat = 0
  /\ names = << >> /\ expected = << >>

WRunPass ==
  /\ wat = 0 /\ Len(expected) < Len(Tokens)
  /\ whole' = [whole EXCEPT ![0] = SetToken(SetPassInputs(@, Len(expected)),
                                            Tokens[Len(expected) + 1])]
  /\ wat' = 1
  /\ UNCHANGED <<names, expected>>

WExecute ==
  /\ wat \in DOMAIN WholeInstrs
  /\ LET writes == Execute(whole, WholeInstrs[wat])
     IN names' = names ++ NewNames(names, writes, <<Len(expected), wat>>)
        /\ whole' = Stored(whole, Named(writes, names'))
  /\ wat' = wat + 1
  /\ UNCHANGED expected

WReturn ==
  /\ wat = Len(WholeInstrs) + 1
  /\ expected' = Append(expected, [b \in Observed |-> whole[0][b]])
  /\ wat' = 0
  /\ UNCHANGED <<whole, names>>

WDone == wat = 0 /\ Len(expected) = Len(Tokens)
WNext == WRunPass \/ WExecute \/ WReturn
===============================================================================
