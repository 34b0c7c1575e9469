----------------------------- MODULE AllReduce ------------------------------
(***************************************************************************)
(* What the cross-GPU exchange promises, without mailboxes, seqnos, blocks *)
(* or passes (core/EXCHANGE-DESIGN.md, "mirrored fp32 allreduce"): in each *)
(* round every GPU gives a partial vector; once all have given theirs each *)
(* takes the same sum, folded in GPU-index order, and it takes every round *)
(* exactly once.                                                           *)
(*                                                                         *)
(* A sum is the sequence of its addends: + of floats does not commute with *)
(* rounding, so the order is part of the promise.                          *)
(***************************************************************************)
EXTENDS Naturals, Sequences

CONSTANTS GPU,               \* the GPUs that exchange
          Sum(_)             \* Sum(k): the fold of the partials of round k

VARIABLES given,             \* given[g]: rounds GPU g has given a partial to
          taken              \* taken[g]: the sums GPU g has taken, per round

reduceVars == <<given, taken>>

Init ==
  /\ given = [g \in GPU |-> 0]
  /\ taken = [g \in GPU |-> <<>>]

Give(g) ==
  /\ given[g] = Len(taken[g])
  /\ given' = [given EXCEPT ![g] = @ + 1]
  /\ UNCHANGED taken

Take(g) ==
  LET k == Len(taken[g]) + 1 IN
    /\ \A h \in GPU : given[h] >= k
    /\ taken' = [taken EXCEPT ![g] = Append(@, {Sum(k)})]
    /\ UNCHANGED given

Next == \E g \in GPU : Give(g) \/ Take(g)

Spec == Init /\ [][Next]_reduceVars
==============================================================================
