------------------------------- MODULE PodLife -------------------------------
(***************************************************************************)
(* What KNoC promises of a pod, without maps, files, doors, ssh or          *)
(* restarts: its containers run as jobs, the main ones after the init      *)
(* ones; its end is shown once, and for a reason; nothing is cancelled     *)
(* that nobody asked to delete. Containers of one image end together, as   *)
(* far as KNoC can tell. Knoc implements it.                               *)
(***************************************************************************)
EXTENDS Naturals, Sequences

CONSTANTS
  Uid,       \* the pods
  InitOf,    \* InitOf[u] are the init containers of pod u, in order
  MainOf,    \* MainOf[u] are its main containers, in order
  InstOf,    \* InstOf[c] names the files of container c, which it shares
             \* with the containers of its pod that have its image
  Code,      \* the exit codes of containers
  None       \* no code

VARIABLES
  job,       \* the jobs so far: container, state and exit code
  shown,     \* shown[u]: the phase of pod u in the API, and whether it says
             \* that a container could not be reached
  asked      \* the pods whose deletion was asked for

vars == <<job, shown, asked>>

Range(s) == {s[i] : i \in DOMAIN s}
ContainersOf(u) == Range(InitOf[u]) \cup Range(MainOf[u])

(* A container has ended as far as anyone can tell when a job that writes   *)
(* its files has.                                                           *)
EndedWith(c, codes) ==
  \E j \in DOMAIN job : /\ InstOf[job[j].ctr] = InstOf[c]
                        /\ job[j].st = "done" /\ job[j].code \in codes

Final == {"Succeeded", "Failed"}

Init ==
  /\ job = <<>>
  /\ shown = [u \in Uid |-> [phase |-> "Pending", unreachable |-> FALSE]]
  /\ asked = {}

Ask(u) ==
  /\ asked' = asked \cup {u}
  /\ UNCHANGED <<job, shown>>

(* A main container begins after every init container has come to its end. *)
Begin(u, c) ==
  /\ c \in Range(MainOf[u]) =>
       \A i \in DOMAIN InitOf[u] : EndedWith(InitOf[u][i], Code)
  /\ job' = Append(job, [ctr |-> c, st |-> "active", code |-> None])
  /\ UNCHANGED <<shown, asked>>

End(j, code) ==
  /\ job[j].st = "active"
  /\ job' = [job EXCEPT ![j] = [@ EXCEPT !.st = "done", !.code = code]]
  /\ UNCHANGED <<shown, asked>>

Lose(j) ==
  /\ job[j].st = "active"
  /\ job' = [job EXCEPT ![j].st = "lost"]
  /\ UNCHANGED <<shown, asked>>

Cancel(u, j) ==
  /\ u \in asked
  /\ job[j].ctr \in ContainersOf(u) /\ job[j].st = "active"
  /\ job' = [job EXCEPT ![j].st = "cancelled"]
  /\ UNCHANGED <<shown, asked>>

(* A final phase stays. A pod succeeds when each of its main containers has *)
(* ended with 0, or by its deletion; it fails when a container has ended    *)
(* with another code, or could not be reached.                              *)
Show(u, phase, unreachable) ==
  /\ shown[u].phase \notin Final
  /\ phase = "Succeeded" =>
       u \in asked \/ \A i \in DOMAIN MainOf[u] : EndedWith(MainOf[u][i], {0})
  /\ phase = "Failed" =>
       unreachable \/ \E c \in ContainersOf(u) : EndedWith(c, Code \ {0})
  /\ shown' = [shown EXCEPT ![u] = [phase |-> phase, unreachable |-> unreachable]]
  /\ UNCHANGED <<job, asked>>

Next ==
  \/ \E u \in Uid : Ask(u)
  \/ \E u \in Uid : \E c \in ContainersOf(u) : Begin(u, c)
  \/ \E j \in DOMAIN job : (\E code \in Code : End(j, code)) \/ Lose(j)
  \/ \E u \in Uid, j \in DOMAIN job : Cancel(u, j)
  \/ \E u \in Uid, phase \in {"Pending", "Running", "Succeeded", "Failed"},
        unreachable \in BOOLEAN : Show(u, phase, unreachable)

Spec == Init /\ [][Next]_vars

=============================================================================
