----------------------------- MODULE MCPeering -----------------------------
(***************************************************************************)
(* Instances of Peering for TLC.                                           *)
(***************************************************************************)
EXTENDS Peering

CONSTANTS p1, a1, a2
OnePeer == [a \in Addrs |-> p1]
=============================================================================
