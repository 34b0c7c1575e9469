----------------------------- MODULE PassService -----------------------------
(***************************************************************************)
(* What the persistent decode kernel promises its host, without doorbells, *)
(* blocks or boundaries: the host requests one pass at a time, each with   *)
(* the token id it wrote, and each request is answered once, in order, by  *)
(* a pass in which every reader of the token cell saw exactly that token   *)
(* (core/interp.cuh, the pass protocol; core/host.h).                      *)
(***************************************************************************)
EXTENDS Naturals, Sequences

CONSTANT Token

VARIABLES requested,   \* the tokens of the passes rung so far
          answered     \* per completed pass, the tokens its ops saw

serviceVars == <<requested, answered>>

Init == requested = <<>> /\ answered = <<>>

Request(t) ==
  /\ Len(answered) = Len(requested)
  /\ requested' = Append(requested, t)
  /\ UNCHANGED answered

Answer ==
  /\ Len(answered) < Len(requested)
  /\ answered' = Append(answered, {requested[Len(answered) + 1]})
  /\ UNCHANGED requested

Next == Answer \/ \E t \in Token : Request(t)

Spec == Init /\ [][Next]_serviceVars
==============================================================================
