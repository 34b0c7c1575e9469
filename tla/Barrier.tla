------------------------------- MODULE Barrier -------------------------------
(***************************************************************************)
(* What the Y02 instruction boundary promises, without its counter: the    *)
(* blocks of the grid enter and leave numbered crossings, and no block     *)
(* leaves crossing k until every block has entered crossing k              *)
(* (core/sync.cuh, "Producer stores issued before arrive() are visible to  *)
(* every consumer load issued after wait()").                              *)
(***************************************************************************)
EXTENDS Naturals

CONSTANT Block          \* the thread blocks of the cooperative grid

VARIABLES entered,      \* entered[b]: crossings block b has arrived at
          left          \* left[b]: crossings block b has come out of

barrierVars == <<entered, left>>

Init ==
  /\ entered = [b \in Block |-> 0]
  /\ left    = [b \in Block |-> 0]

Enter(b) ==
  /\ entered[b] = left[b]
  /\ entered' = [entered EXCEPT ![b] = @ + 1]
  /\ UNCHANGED left

Leave(b) ==
  /\ left[b] < entered[b]
  /\ \A c \in Block : entered[c] >= entered[b]
  /\ left' = [left EXCEPT ![b] = @ + 1]
  /\ UNCHANGED entered

Next == \E b \in Block : Enter(b) \/ Leave(b)

Spec == Init /\ [][Next]_barrierVars
==============================================================================
