----------------------------- MODULE RemoteAlone -----------------------------
(***************************************************************************)
(* The remote side under the most general client: any container may be     *)
(* submitted or stopped at any time. The provider is one such client, so   *)
(* what holds here holds of the door and of Slurm whatever KNoC asks.      *)
(***************************************************************************)
EXTENDS Remote

CONSTANT MaxLaunch   \* bound: the door processes started in a behaviour

ASSUME MaxLaunchAssumption == MaxLaunch \in Nat

ClientStep ==
  /\ Len(door) < MaxLaunch
  /\ \E c \in Container :
        runRemoteExecutionInstance(c) \/ stopRemoteExecutionInstance(c)
  /\ UNCHANGED <<job, script, jidFile, statusFile>>

RemoteNext == RemoteStep \/ ClientStep

RemoteSpec == RemoteInit /\ [][RemoteNext]_remoteVars

=============================================================================
