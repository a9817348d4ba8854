---------------------------- MODULE RemoteProofs ----------------------------
(***************************************************************************)
(* What holds of the remote side for any containers, instances, codes,     *)
(* faults and number of door processes, under any client.                  *)
(***************************************************************************)
EXTENDS RemoteAlone, RemoteLemmas

(* The whole inductive invariant of the remote side (door.go): its types,   *)
(* and how door processes, jobs and the three files agree.                  *)
THEOREM RemoteInvariant == RemoteSpec => []RemoteInv
<1>1. RemoteInit => RemoteInv
  BY RemoteInitInv
<1>2. RemoteInv /\ [RemoteNext]_remoteVars => RemoteInv'
  BY RemoteStepInv, RemoteStutterInv, LaunchInv DEF RemoteNext, ClientStep
<1>3. QED
  BY <1>1, <1>2, PTL DEF RemoteSpec

(* Every variable of the remote side keeps its type.                        *)
THEOREM RemoteTypes == RemoteSpec => []RemoteTypeOK
BY RemoteInvariant, PTL DEF RemoteInv

(* A .jid file only ever names a job of its own instance, so no stop can    *)
(* cancel another container's job (door.go 151-160, 194-206).               *)
THEOREM JidNamesOwnJobHolds == RemoteSpec => []JidNamesOwnJob
BY RemoteInvariant, PTL DEF RemoteInv

(* A .status file holds the exit code of a job of its instance that ended.  *)
THEOREM StatusHasAuthorHolds == RemoteSpec => []StatusHasAuthor
BY RemoteInvariant, PTL DEF RemoteInv

(* Only a stop of the same instance cancels a job.                          *)
THEOREM CancelHasStopHolds == RemoteSpec => []CancelHasStop
BY RemoteInvariant, PTL DEF RemoteInv

(* An instance submitted once can be stopped once its door has finished:    *)
(* the id in its .jid file is that of its only job.                         *)
THEOREM SoleSubmissionStoppableHolds == RemoteSpec => []SoleSubmissionStoppable
BY RemoteInvariant, SoleFromInv, PTL

=============================================================================
