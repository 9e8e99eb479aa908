------------------------------- MODULE MCNode -------------------------------
(***************************************************************************)
(* The parts of a node that meet only in its event loop and share no state *)
(* in memory: the fleet registry, downloads, the batching backend and the  *)
(* node's own account (MCNetwork and MCModels have others).                *)
(* In a behaviour one of them is at work and the others are off: what they *)
(* do independently of each other is not multiplied.                       *)
(***************************************************************************)
EXTENDS Fleet, Downloads, Batching, Accounts, TLC

CONSTANTS a, g, hf, url, m1, j1, j2, q1, v1

MCStop == <<"x", "y">>
MCPieces == {<<>>, <<"x">>, <<"y">>}
MCMaxTokens == (j1 :> 3 @@ j2 :> 2)

NodeInit ==
    \/ FleetInit /\ DlOff  /\ BtOff  /\ AccOff
    \/ FleetOff  /\ DlInit /\ BtOff  /\ AccOff
    \/ FleetOff  /\ DlOff  /\ BtInit /\ AccOff
    \/ FleetOff  /\ DlOff  /\ BtOff  /\ AccInit

NodeNext ==
    \/ FleetNext /\ UNCHANGED <<dlVars, btVars, accVars>>
    \/ DlNext    /\ UNCHANGED <<fleetVars, btVars, accVars>>
    \/ BtNext    /\ UNCHANGED <<fleetVars, dlVars, accVars>>
    \/ AccNext   /\ UNCHANGED <<fleetVars, dlVars, btVars>>

nodeVars == <<fleetVars, dlVars, btVars, accVars>>
NodeSpec == NodeInit /\ [][NodeNext]_nodeVars /\ FleetFairness /\ DlFairness /\ BtFairness

-----------------------------------------------------------------------------
(* A property over several modules.                                        *)

(* Neither a download nor a stream of the batching backend is left hanging *)
(* while its worker lives (Downloads: DownloadsEnd; Batching: StreamsEnd). *)
WorkEnds == DownloadsEnd /\ StreamsEnd
=============================================================================
