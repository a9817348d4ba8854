------------------------------- MODULE Remote -------------------------------
(***************************************************************************)
(* The remote side of KNoC: the login host of the cluster, where the       *)
(* provider starts one `door` process per container it submits or stops    *)
(* (door/door.go), Slurm, and the files both leave in the home directory.  *)
(* Door processes are started in the background (`nohup ./door ... &`), so *)
(* any number of them run at once, in any order.                           *)
(*                                                                         *)
(* A container of a pod is a member of Container; the files of a container *)
(* are named after its instance name (namespace, pod uid and image), which *)
(* is InstOf[c]: two containers of one pod with the same image share it.   *)
(***************************************************************************)
EXTENDS Integers, Sequences, FiniteSets

CONSTANTS
  Container,   \* the containers of all pods, main and init
  Instance,    \* the instance names, which name the remote files
  InstOf,      \* InstOf[c] is the instance name of container c
  Code,        \* the exit codes the containers of this instance may end with
  Faults,      \* the kinds of fault the environment may show
  None         \* no pod, no container, no code, no file

ASSUME RemoteAssumption ==
  /\ InstOf \in [Container -> Instance]
  /\ Code \subseteq 0..255
  /\ None \notin Container
  /\ None \notin Int

VARIABLES
  door,        \* the door processes, in the order they were started
  job,         \* Slurm's jobs; a job's id is its place in the sequence
  script,      \* script[i]: the container whose command .tmp/i.sh runs
  jidFile,     \* jidFile[i]: the job id in .knoc/i.jid
  statusFile   \* statusFile[i]: the exit code in .knoc/i.status

remoteVars == <<door, job, script, jidFile, statusFile>>

-----------------------------------------------------------------------------
DoorProcess == [act : {"submit", "stop"}, ctr : Container,
                pc  : {"script", "sbatch", "jid", "cancel", "done", "dead"},
                jid : Nat \cup {None}]

SlurmJob == [ctr  : Container, st : {"active", "done", "cancelled", "lost"},
             code : Code \cup {None}]

RemoteTypeOK ==
  /\ door \in Seq(DoorProcess)
  /\ job \in Seq(SlurmJob)
  /\ script \in [Instance -> Container \cup {None}]
  /\ jidFile \in [Instance -> Nat \cup {None}]
  /\ statusFile \in [Instance -> Code \cup {None}]

RemoteInit ==
  /\ door = <<>>
  /\ job = <<>>
  /\ script = [i \in Instance |-> None]
  /\ jidFile = [i \in Instance |-> None]
  /\ statusFile = [i \in Instance |-> None]

DoorInst(d) == InstOf[door[d].ctr]

-----------------------------------------------------------------------------
(* What the provider's ssh commands do on the login host: a door process   *)
(* is started and the command returns at once.                             *)

(* Mutant: the batch script is handed over without being written. *)
runRemoteExecutionInstance_noScript(c) ==
  door' = Append(door, [act |-> "submit", ctr |-> c, pc |-> "sbatch", jid |-> None])

runRemoteExecutionInstance(c) ==
  door' = Append(door, [act |-> "submit", ctr |-> c, pc |-> "script", jid |-> None])

stopRemoteExecutionInstance(c) ==
  door' = Append(door, [act |-> "stop", ctr |-> c, pc |-> "cancel", jid |-> None])

(* door -a submit: write the batch script, hand it to sbatch, save the id. *)

(* Mutant: `echo $? > ....status` is run while the script is written. *)
produce_slurm_script_status(d) ==
  /\ door[d].pc = "script"
  /\ script' = [script EXCEPT ![DoorInst(d)] = door[d].ctr]
  /\ statusFile' = [statusFile EXCEPT ![DoorInst(d)] = 0]
  /\ door' = [door EXCEPT ![d].pc = "sbatch"]
  /\ UNCHANGED <<job, jidFile>>

produce_slurm_script(d) ==
  /\ door[d].pc = "script"
  /\ script' = [script EXCEPT ![DoorInst(d)] = door[d].ctr]
  /\ door' = [door EXCEPT ![d].pc = "sbatch"]
  /\ UNCHANGED <<job, jidFile, statusFile>>

(* Mutant: the id of the job before the one just accepted. *)
slurm_batch_submit_previousId(d) ==
  /\ door[d].pc = "sbatch"
  /\ job' = Append(job, [ctr |-> script[DoorInst(d)], st |-> "active",
                         code |-> None])
  /\ door' = [door EXCEPT ![d] = [@ EXCEPT !.pc = "jid", !.jid = Len(job)]]
  /\ UNCHANGED <<script, jidFile, statusFile>>

slurm_batch_submit(d) ==
  /\ door[d].pc = "sbatch"
  /\ job' = Append(job, [ctr |-> script[DoorInst(d)], st |-> "active",
                         code |-> None])
  /\ door' = [door EXCEPT ![d] = [@ EXCEPT !.pc = "jid", !.jid = Len(job) + 1]]
  /\ UNCHANGED <<script, jidFile, statusFile>>

(* Mutant: the .jid file is not written. *)
handle_jid_noFile(d) ==
  /\ door[d].pc = "jid"
  /\ door' = [door EXCEPT ![d].pc = "done"]
  /\ UNCHANGED <<job, script, jidFile, statusFile>>

handle_jid(d) ==
  /\ door[d].pc = "jid"
  /\ jidFile' = [jidFile EXCEPT ![DoorInst(d)] = door[d].jid]
  /\ door' = [door EXCEPT ![d].pc = "done"]
  /\ UNCHANGED <<job, script, statusFile>>

(* Slurm cancels a job that has not ended; it refuses any other. *)
scancel(j) ==
  job' = [job EXCEPT ![j].st = IF job[j].st = "active" THEN "cancelled" ELSE job[j].st]

(* Mutant: the id is taken from the last line of squeue. *)
delete_container_lastJob(d) ==
  /\ door[d].pc = "cancel"
  /\ IF job = <<>> THEN UNCHANGED job ELSE scancel(Len(job))
  /\ door' = [door EXCEPT ![d].pc = "done"]
  /\ UNCHANGED <<script, jidFile, statusFile>>

(* door -a stop: the id comes from the .jid file, and without one the      *)
(* process ends with a fatal log line. The `rm` commands that follow       *)
(* scancel are built and never run, so every file stays.                   *)
delete_container(d) ==
  /\ door[d].pc = "cancel"
  /\ \/ /\ jidFile[DoorInst(d)] = None
        /\ door' = [door EXCEPT ![d].pc = "dead"]
        /\ UNCHANGED job
     \/ /\ jidFile[DoorInst(d)] # None
        /\ scancel(jidFile[DoorInst(d)])
        /\ door' = [door EXCEPT ![d].pc = "done"]
  /\ UNCHANGED <<script, jidFile, statusFile>>

(* log.Fatalln on a file or on sbatch or scancel, or the process killed. *)
DoorDies(d) ==
  /\ "door" \in Faults
  /\ door[d].pc \notin {"done", "dead"}
  /\ door' = [door EXCEPT ![d].pc = "dead"]
  /\ UNCHANGED <<job, script, jidFile, statusFile>>

(* The batch script reaches its last line, `echo $? > .knoc/<name>.status` *)
JobEnds(j) ==
  /\ job[j].st = "active"
  /\ \E c \in Code :
        /\ statusFile' = [statusFile EXCEPT ![InstOf[job[j].ctr]] = c]
        /\ job' = [job EXCEPT ![j] = [@ EXCEPT !.st = "done", !.code = c]]
  /\ UNCHANGED <<door, script, jidFile>>

(* Slurm kills the script (time limit, node failure): no status is written *)
JobLost(j) ==
  /\ "job" \in Faults
  /\ job[j].st = "active"
  /\ job' = [job EXCEPT ![j].st = "lost"]
  /\ UNCHANGED <<door, script, jidFile, statusFile>>

DoorStep(d) ==
  \/ produce_slurm_script(d)
  \/ slurm_batch_submit(d)
  \/ handle_jid(d)
  \/ delete_container(d)

RemoteStep ==
  \/ \E d \in DOMAIN door : DoorStep(d) \/ DoorDies(d)
  \/ \E j \in DOMAIN job : JobEnds(j) \/ JobLost(j)

-----------------------------------------------------------------------------
SubmitDoors(i) == {d \in DOMAIN door : door[d].act = "submit" /\ DoorInst(d) = i}

(* A .jid file names a job Slurm accepted, and a job of that very instance: *)
(* a stop can never cancel a job of another instance, however the door      *)
(* processes of several containers interleave (door.go 151-160, 194-206).   *)
JidNamesOwnJob ==
  \A i \in Instance : jidFile[i] # None =>
     /\ jidFile[i] \in DOMAIN job
     /\ InstOf[job[jidFile[i]].ctr] = i

(* A .status file exists only when a job of that instance has run to the    *)
(* end of its script, and holds the exit code of such a job; no submission, *)
(* stop or lost job forges one.                                             *)
StatusHasAuthor ==
  \A i \in Instance : statusFile[i] # None =>
     \E j \in DOMAIN job : /\ job[j].st = "done"
                           /\ job[j].code = statusFile[i]
                           /\ InstOf[job[j].ctr] = i

(* A job is cancelled only when a door was told to stop its instance.       *)
CancelHasStop ==
  \A j \in DOMAIN job : job[j].st = "cancelled" =>
     \E d \in DOMAIN door :
        door[d].act = "stop" /\ DoorInst(d) = InstOf[job[j].ctr]

(* An instance submitted once, whose door finished, can be stopped: the     *)
(* .jid file holds the id of each job of that instance. (A second           *)
(* submission may overwrite the id with an older or a newer one.)           *)
SoleSubmissionStoppable ==
  \A d \in DOMAIN door :
     /\ door[d].act = "submit" /\ door[d].pc = "done"
     /\ SubmitDoors(DoorInst(d)) = {d}
     => \A j \in DOMAIN job :
           InstOf[job[j].ctr] = DoorInst(d) => jidFile[DoorInst(d)] = j

-----------------------------------------------------------------------------
(* Why these hold: what each door process, each job and each file owes to   *)
(* the others. RemoteInv is inductive; RemoteProofs shows it.               *)

ScriptIsOwn ==
  \A i \in Instance : script[i] # None => InstOf[script[i]] = i

DoorPhases ==
  \A d \in DOMAIN door :
     /\ door[d].act = "stop" => door[d].pc \in {"cancel", "done", "dead"}
     /\ door[d].act = "submit" => door[d].pc # "cancel"
     /\ door[d].pc = "sbatch" => script[DoorInst(d)] # None
     /\ door[d].pc \in {"script", "sbatch"} => door[d].jid = None
     /\ door[d].pc = "jid" => door[d].jid # None

DoorJidIsOwn ==
  \A d \in DOMAIN door : door[d].jid # None =>
     /\ door[d].act = "submit"
     /\ door[d].jid \in DOMAIN job
     /\ InstOf[job[door[d].jid].ctr] = DoorInst(d)

JobHasDoor ==
  \A j \in DOMAIN job : \E d \in DOMAIN door :
     /\ door[d].jid = j
     /\ DoorInst(d) = InstOf[job[j].ctr]

JidHasDoor ==
  \A i \in Instance : jidFile[i] # None =>
     \E d \in DOMAIN door :
        door[d].pc = "done" /\ door[d].jid = jidFile[i] /\ DoorInst(d) = i

DoneLeavesJid ==
  \A d \in DOMAIN door :
     door[d].act = "submit" /\ door[d].pc = "done" => jidFile[DoorInst(d)] # None

RemoteInv ==
  /\ RemoteTypeOK
  /\ ScriptIsOwn
  /\ DoorPhases
  /\ DoorJidIsOwn
  /\ JobHasDoor
  /\ JidHasDoor
  /\ DoneLeavesJid
  /\ JidNamesOwnJob
  /\ StatusHasAuthor
  /\ CancelHasStop

=============================================================================
