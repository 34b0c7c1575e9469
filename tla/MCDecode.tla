------------------------------ MODULE MCDecode ------------------------------
(***************************************************************************)
(* Decode for TLC: the layer pattern of the model, four blocks so that in  *)
(* a window of one Pad the last chunk starts past the end, and contexts of *)
(* two Pads, which a run may fill, leave or overrun.                       *)
(***************************************************************************)
EXTENDS Decode

CONSTANTS t1, t2

MCLayer == <<"dn", "attn", "dn", "attn">>
MCPrompts == {<<t1>>, <<t1, t2, t2, t1, t2>>}

\* Two greedy tokens that depend on the whole value.
MCArgmax(v) == IF ~ IsSeq(v) THEN t1
               ELSE IF Len(v) % 3 = 0 THEN t1 ELSE t2
==============================================================================
