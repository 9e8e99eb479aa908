------------------------------ MODULE MCNetwork ------------------------------
(***************************************************************************)
(* What a node does with the others of a network, in parts that share no   *)
(* memory: the networks it hosts and joins, the rounds it trains in and    *)
(* what it answers to the public.  In a behaviour one of them moves (part) *)
(* and the others stay where they begin.                                   *)
(***************************************************************************)
EXTENDS Federation, Training, Gateway, TLC

CONSTANTS p, home, lab, far, k1, p1, p2, t1, t2, r1, r2

VARIABLE part

NetworkInit == part \in {"networks", "rounds", "gateway"} /\ FedInit /\ TrInit /\ GwInit

NetworkNext ==
    /\ UNCHANGED part
    /\ \/ part = "networks" /\ FedNext /\ UNCHANGED <<trVars, gwVars>>
       \/ part = "rounds"   /\ TrNext  /\ UNCHANGED <<fedVars, gwVars>>
       \/ part = "gateway"  /\ GwNext  /\ UNCHANGED <<fedVars, trVars>>

NetworkSpec == NetworkInit /\ [][NetworkNext]_<<part, fedVars, trVars, gwVars>>

\* Participants and rounds are alike.
Interchangeable == Permutations(Participants) \cup Permutations(Rounds)
Moves == {-2, 1}

\* A peer that says no size of "other" offers it in a lower tier than this node, which knows it.
MCOffers == <<[name |-> "small", tier |-> 1, hop |-> Http], [name |-> "small", tier |-> 1, hop |-> Quic],
              [name |-> "other", tier |-> 1, hop |-> Quic], [name |-> "other", tier |-> 2, hop |-> Local]>>
=============================================================================
