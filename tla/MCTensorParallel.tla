-------------------------- MODULE MCTensorParallel --------------------------
(***************************************************************************)
(* TensorParallel for TLC: a DeltaNet and an attention layer, two blocks   *)
(* of k heads among the v heads, two q heads to a kv head and three        *)
(* passes, of the model file and of files that are wrong in ways the       *)
(* inventory does or does not look at.                                     *)
(***************************************************************************)
EXTENDS TensorParallel

MCLayer == <<"dn", "attn">>
MCTokens == <<0, 3, 1>>

Renaming(from, to) ==
  [k \in DOMAIN ModelFile |-> IF ModelFile[k].name = from
                              THEN [ModelFile[k] EXCEPT !.name = to] ELSE ModelFile[k]]

MCFiles ==
  { ModelFile,
    SubSeq(ModelFile, 1, Len(ModelFile) - 2),              \* a tensor is missing
    Renaming(<<1, "attn_norm">>, <<1, "input_norm">>),     \* a name nobody resolves
    Renaming(<<1, "ffn_gate">>, <<1, "ffn_up">>),          \* a name twice
    Renaming(<<1, "ffn_gate">>, <<0, "logits">>) }         \* the name of a buffer
=============================================================================
