---------------------------- MODULE DemandBridge ----------------------------
(***************************************************************************)
(* DemandAndReplicaManager: the request store and the replica tracker side *)
(* by side under one clock.  They share nothing else.                       *)
(***************************************************************************)
EXTENDS RequestStore, ReplicaTracker

bridgeVars == <<clock, requestVars, replicaVars>>

BridgeInit == clock = 1 /\ RequestInit /\ ReplicaInit

Tick == Advance /\ UNCHANGED <<requestVars, replicaVars>>

BridgeNext ==
    \/ RequestNext /\ UNCHANGED replicaVars
    \/ ReplicaNext /\ UNCHANGED requestVars
    \/ Tick

BridgeSpec == BridgeInit /\ [][BridgeNext]_bridgeVars /\ RequestFairness

-----------------------------------------------------------------------------
(* Properties *)

\* Both components keep their types.
BridgeTypeOK == RequestTypeOK /\ ReplicaTypeOK
=============================================================================
