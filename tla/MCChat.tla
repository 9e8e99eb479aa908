------------------------------ MODULE MCChat ------------------------------
(***************************************************************************)
(* Instances of Chat for TLC.                                              *)
(***************************************************************************)
EXTENDS Chat

CONSTANTS big, small, embed, f1, f2

\* One node of the fleet has the large model alone.
Listed == [f \in Fleet |-> IF f = f1 THEN {big} ELSE {big, small}]
=============================================================================
