---------------------------- MODULE MCEnsemble ----------------------------
(***************************************************************************)
(* Instances of Ensemble for TLC.                                          *)
(***************************************************************************)
EXTENDS Ensemble

CONSTANTS here, gate, near, far
\* A model of this node, one behind a gateway, and the same model at two peers, of which one
\* shares a network with this node.
Kinds   == [t \in Targets |-> CASE t = here -> "local" [] t = gate -> "group" [] OTHER -> "peer"]
Models  == [t \in Targets |-> CASE t = here -> 1 [] t = gate -> 2 [] OTHER -> 3]
Declared == [t \in Targets |-> IF t = gate THEN {"proposer", "critic"} ELSE {}]
=============================================================================
