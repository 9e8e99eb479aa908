----------------------------- MODULE MCHyphae -----------------------------
(***************************************************************************)
(* Instances of Hyphae for TLC.                                            *)
(***************************************************************************)
EXTENDS Hyphae

CONSTANTS a, b, c, f, g

\* a and b run together, c after a.
After == [t \in Cards |-> IF t = c THEN {a} ELSE {}]
Mixed == [t \in Cards |-> IF t = a THEN "medium" ELSE IF t = b THEN "critical" ELSE "simple"]
=============================================================================
