------------------------------ MODULE Decoder -------------------------------
(***************************************************************************)
(* What the decode loop promises, without a GPU, caches or passes: a       *)
(* prompt is fed to a causal model one token at a time and then the        *)
(* model's own greedy choices are, each the argmax of the logits of all    *)
(* the tokens before it.                                                   *)
(*                                                                         *)
(* The model is free: what a layer computes for a token is the sequence of *)
(* what it was given for that token and for all earlier ones, so two       *)
(* values are equal only if they come from the same tokens in the same     *)
(* order.                                                                  *)
(***************************************************************************)
EXTENDS Naturals, Sequences

CONSTANTS NLayers,      \* layers of the trunk
          Recurrent,    \* those that keep a state
          Capacity,     \* tokens a run may have; a longer one is refused
          Argmax(_)     \* the token the head prefers, of the last layer's value

VARIABLES
  prompt, steps,        \* what the run was asked for
  fed,                  \* the tokens fed so far
  rows,                 \* the logits of the prompt and of each step
  residuals,            \* of each step: the residual after each layer but the last
  states                \* of each step: the state of each recurrent layer

decoderVars == <<prompt, steps, fed, rows, residuals, states>>

\* The value after layer l for the last of the tokens toks: layer by layer, what the
\* layer below has for it and for all before it.
Trunk(toks, l) ==
  LET values[k \in 0 .. NLayers] ==
        IF k = 0 THEN toks
        ELSE [n \in 1 .. Len(toks) |-> [i \in 1 .. n |-> values[k-1][i]]]
  IN values[l][Len(toks)]

Init ==
  /\ fed = <<>> /\ rows = <<>> /\ residuals = <<>> /\ states = <<>>
  /\ prompt # <<>>

Fed(token) ==
  /\ fed' = Append(fed, token)
  /\ UNCHANGED <<prompt, steps>>

Prefill ==
  /\ Len(fed) < Len(prompt)
  /\ Fed(prompt[Len(fed) + 1])
  /\ rows' = IF Len(fed') = Len(prompt) THEN <<Trunk(fed', NLayers)>> ELSE rows
  /\ UNCHANGED <<residuals, states>>

Generate ==
  /\ Len(rows) \in 1 .. steps
  /\ Fed(Argmax(rows[Len(rows)]))
  /\ rows' = Append(rows, Trunk(fed', NLayers))
  /\ residuals' = Append(residuals, [l \in 1 .. NLayers - 1 |-> Trunk(fed', l)])
  /\ states' = Append(states, [l \in Recurrent |-> Trunk(fed', l)])

Next == Len(prompt) + steps <= Capacity /\ (Prefill \/ Generate)

\* What it may do.
SafeSpec == Init /\ [][Next]_decoderVars

\* A run that is not refused is done to the end.
Spec == SafeSpec /\ WF_decoderVars(Next)
==============================================================================
