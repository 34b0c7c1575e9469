----------------------------- MODULE MCExchange -----------------------------
(***************************************************************************)
(* Exchange for TLC: two blocks per grid and one element each, so that the *)
(* float4 partition of PUSH gives an element to another block than the     *)
(* partitions of the projection and of REDUCE.                             *)
(***************************************************************************)
EXTENDS Exchange

MCElem == 0 .. N-1
Own     == [e \in MCElem |-> e]
Rotated == [e \in MCElem |-> (e + 1) % N]
==============================================================================
