------------------------------ MODULE MCModels ------------------------------
(***************************************************************************)
(* Instances of InferenceManager and of Sources for TLC.  The one is about *)
(* tasks that wait for each other over few names, the other about names    *)
(* over restarts: neither reads what the other keeps, so in a behaviour    *)
(* one of the two moves (part) and the other stays where it begins.        *)
(***************************************************************************)
EXTENDS InferenceManager, Sources, TLC

CONSTANTS e1, e2, e3, m0, f, l, k

VARIABLE part

ModelsInit == part \in {"manager", "sources"} /\ Init /\ SrcInit

ModelsNext ==
    /\ UNCHANGED part
    /\ \/ part = "manager" /\ Next /\ UNCHANGED srcVars
       \/ part = "sources" /\ SrcNext /\ UNCHANGED vars

ModelsSpec == ModelsInit /\ [][ModelsNext]_<<part, vars, srcVars>>

\* Two ports of one host, and another host.
Hosts == [r \in Relays |-> IF r = e3 THEN k ELSE l]

\* Requests are interchangeable, and so are the ports.
Interchangeable == Permutations(Requests)
Endpoints == Permutations({e1, e2})
=============================================================================
