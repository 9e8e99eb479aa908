----------------------------- MODULE MCServing -----------------------------
(***************************************************************************)
(* Instances of Serving for TLC.                                           *)
(***************************************************************************)
EXTENDS Serving

CONSTANTS a, b, c

\* Two believe of each other that they have the model, and both of a third.
Mutual == [n \in Nodes |-> CASE n = a -> {b, c} [] n = b -> {a, c} [] n = c -> {}]
=============================================================================
