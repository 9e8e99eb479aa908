---------------------------- MODULE MCSettlement ----------------------------
(***************************************************************************)
(* Instances of Settlement for TLC.                                        *)
(***************************************************************************)
EXTENDS Settlement, TLC

CONSTANTS a, b, c, r1, r2

\* a pays b, who pays c all it was opened with.
ChainPayer == (r1 :> a) @@ (r2 :> b)
ChainPayee == (r1 :> b) @@ (r2 :> c)

\* a pays b for both, and can pay for one.
SamePayer == (r1 :> a) @@ (r2 :> a)
SamePayee == (r1 :> b) @@ (r2 :> b)

Costs == (r1 :> 1) @@ (r2 :> 2)

Interchangeable == Permutations(Settlers)
=============================================================================
