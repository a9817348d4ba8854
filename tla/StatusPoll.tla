----------------------------- MODULE StatusPoll -----------------------------
(***************************************************************************)
(* checkPodsStatus (remote.go), run by statusLoop on a goroutine of its    *)
(* own: for each stored pod that is running, read the .status files of its *)
(* containers over ssh, start the main containers once the init containers *)
(* have succeeded, and store the pod again when something changed. It      *)
(* writes into the stored pod in place, between blocking ssh calls.        *)
(***************************************************************************)
EXTENDS Provider

(* string(status) of an int32 is the character with that code point, so    *)
(* Atoi gives a digit's value for the codes of '0'..'9' and 0, with an     *)
(* error that is dropped, for any other code.                              *)
Reparse(code) == IF code \in 48..57 THEN code - 48 ELSE 0

(* Mutant: files named after the name of the pod, and not after its uid. *)
StatusReads_byName(c) ==
  {statusFile[InstOf[d]] : d \in
     UNION {ContainersOf(u) : u \in {v \in Uid : KeyOf[v] = poll.key}}}

(* What `cat .knoc/<instance>.status` gives: a failed cat reads as nothing *)
StatusReads(c) ==
  {statusFile[InstOf[c]]} \cup (IF "reply" \in Faults THEN {None} ELSE {})

(* The poll writes p into the pod it has in hand, and its locals become q. *)
Write(p, q) ==
  IF poll.orphan = None
  THEN pods' = [pods EXCEPT ![poll.key] = p] /\ poll' = q
  ELSE pods' = pods /\ poll' = [q EXCEPT !.orphan = p]

(* Mutant: the pod is stored, and nobody is told. *)
Leave_silent(p, update) ==
  LET next(todo) == [IdlePoll EXCEPT !.pc = "next", !.todo = todo] IN
  /\ pods' = IF update THEN [pods EXCEPT ![poll.key] = p] ELSE pods
  /\ \E todo \in Visits(poll.todo, poll.key) : poll' = next(todo)
  /\ UNCHANGED mail

(* The poll is through with a pod, without or with its call of UpdatePod,  *)
(* which stores the pod in hand under its key whatever is stored by now.   *)
Leave(p, update) ==
  LET next(todo) == [IdlePoll EXCEPT !.pc = "next", !.todo = todo] IN
  IF update
  THEN /\ pods' = [pods EXCEPT ![poll.key] = p]
       /\ mail' = [mail EXCEPT ![poll.key] = p]
       /\ \E todo \in Visits(poll.todo, poll.key) : poll' = next(todo)
  ELSE UNCHANGED <<pods, mail>> /\ poll' = next(poll.todo)

-----------------------------------------------------------------------------
(* The tick of the timer with no pod stored: nothing to do. *)
PollNothing ==
  /\ poll.pc = "idle"
  /\ Stored = {}
  /\ UNCHANGED <<providerVars, remoteVars>>

PollBegin ==
  /\ poll.pc = "idle"
  /\ Stored # {}
  /\ poll' = [poll EXCEPT !.pc = "next", !.todo = Stored]
  /\ UNCHANGED <<pods, call, mail, remoteVars>>

PollEnd ==
  /\ poll.pc = "next"
  /\ poll.todo = {}
  /\ poll' = IdlePoll
  /\ UNCHANGED <<pods, call, mail, remoteVars>>

PollSkip(k) ==
  /\ poll.pc = "next" /\ k \in poll.todo
  /\ pods[k].phase # "Running"
  /\ poll' = [poll EXCEPT !.todo = @ \ {k}]
  /\ UNCHANGED <<pods, call, mail, remoteVars>>

(* The first pass over a pod with init containers gives each of them a     *)
(* running status, reads nothing and notifies nobody.                      *)
PollFirstPass(k) ==
  LET p == pods[k] IN
  /\ poll.pc = "next" /\ k \in poll.todo
  /\ p.phase = "Running" /\ ~p.initialized
  /\ Len(p.ist) < Len(InitOf[p.uid])
  /\ pods' = [pods EXCEPT ![k].ist = All(Running, Len(InitOf[p.uid]))]
  /\ poll' = [poll EXCEPT !.todo = @ \ {k}]
  /\ UNCHANGED <<call, mail, remoteVars>>

PollPick(k) ==
  LET p == pods[k]
      branch(pc, n) == [poll EXCEPT !.pc = pc, !.todo = @ \ {k}, !.key = k,
                                    !.idx = 1, !.left = n]
  IN /\ poll.pc = "next" /\ k \in poll.todo
     /\ p.phase = "Running"
     /\ \/ /\ ~p.initialized
           /\ Len(p.ist) >= Len(InitOf[p.uid])
           /\ poll' = branch("init", Len(InitOf[p.uid]))
        \/ /\ p.initialized
           /\ poll' = branch("main", Len(MainOf[p.uid]))
     /\ UNCHANGED <<pods, call, mail, remoteVars>>

-----------------------------------------------------------------------------
(* Mutants: any end is a success; no end is counted. *)
Counted_success(success, wrote) ==
  [poll EXCEPT !.idx = @ + 1, !.left = @ - 1, !.good = @ + 1,
               !.dirty = @ \/ wrote]
Counted_never(success, wrote) ==
  [poll EXCEPT !.idx = @ + 1, !.good = IF success THEN @ + 1 ELSE @,
               !.dirty = @ \/ wrote]

(* The locals after a container counted as ended, with a verdict on it.    *)
Counted(success, wrote) ==
  [poll EXCEPT !.idx = @ + 1, !.left = @ - 1,
               !.good = IF success THEN @ + 1 ELSE @, !.dirty = @ \/ wrote]

NotYet == [poll EXCEPT !.idx = @ + 1]

PollInitContainer ==
  LET p == Held
      s == p.ist[poll.idx]
  IN /\ poll.pc = "init"
     /\ poll.idx <= Len(InitOf[p.uid])
     /\ \/ /\ s.st = "running"
           /\ \E c \in StatusReads(InitOf[p.uid][poll.idx]) :
                 IF c = None THEN poll' = NotYet /\ UNCHANGED pods
                 ELSE Write([p EXCEPT !.ist[poll.idx] = Exited(c)],
                            Counted(c = 0, TRUE))
        \/ /\ s.st # "running"
           /\ poll' = Counted(Reparse(s.code) = 0, FALSE)
           /\ UNCHANGED pods
     /\ UNCHANGED <<call, mail, remoteVars>>

(* Mutant: the Initialized condition is left false. *)
PollInitDone_noCondition ==
  LET p == Held
      n == Len(InitOf[p.uid])
      ended == poll.left = 0 /\ p.phase = "Running"
  IN /\ poll.pc = "init"
     /\ poll.idx > n
     /\ \/ /\ ended /\ poll.good = n
           /\ Write([p EXCEPT !.ready = TRUE],
                    [poll EXCEPT !.pc = "start", !.idx = 1])
           /\ UNCHANGED mail
        \/ /\ ended /\ poll.good # n
           /\ Leave([p EXCEPT !.phase = "Failed"], TRUE)
        \/ /\ ~ended
           /\ Leave(p, poll.dirty)
     /\ UNCHANGED <<call, remoteVars>>

(* All init containers were looked at: start the main containers when all  *)
(* count as successful, fail the pod when all have ended otherwise.        *)
PollInitDone ==
  LET p == Held
      n == Len(InitOf[p.uid])
      ended == poll.left = 0 /\ p.phase = "Running"
  IN /\ poll.pc = "init"
     /\ poll.idx > n
     /\ \/ /\ ended /\ poll.good = n
           /\ Write([p EXCEPT !.initialized = TRUE, !.ready = TRUE],
                    [poll EXCEPT !.pc = "start", !.idx = 1])
           /\ UNCHANGED mail
        \/ /\ ended /\ poll.good # n
           /\ Leave([p EXCEPT !.phase = "Failed"], TRUE)
        \/ /\ ~ended
           /\ Leave(p, poll.dirty)
     /\ UNCHANGED <<call, remoteVars>>

(* startMainContainers, then UpdatePod. *)
startMainContainers ==
  LET p == Held
      started(ok) == IF ok THEN [p EXCEPT !.cst[poll.idx] = Running]
                     ELSE [p EXCEPT !.cst[poll.idx] = Unreachable, !.phase = "Failed"]
  IN /\ poll.pc = "start"
     /\ poll.idx <= Len(MainOf[p.uid])
     /\ \E ok \in BOOLEAN :
           /\ RemoteExecution("submit", MainOf[p.uid][poll.idx], ok)
           /\ Write(started(ok), NotYet)
     /\ UNCHANGED <<call, mail>>

PollStarted ==
  /\ poll.pc = "start"
  /\ poll.idx > Len(MainOf[Held.uid])
  /\ Leave(Held, TRUE)
  /\ UNCHANGED <<call, remoteVars>>

(* A main container that waits, while init containers are active, is not   *)
(* counted (initContainersActive); any other has its last exit code read.  *)
initContainersActive(p) == \E i \in DOMAIN p.ist : p.ist[i].st # "terminated"

(* Mutant: a container that has ended is read again as if it were running. *)
PollMainContainer_rereads ==
  LET p == Held IN
  /\ poll.pc = "main"
  /\ poll.idx <= Len(MainOf[p.uid])
  /\ \E c \in StatusReads(MainOf[p.uid][poll.idx]) :
        IF c = None
        THEN Write([p EXCEPT !.cst[poll.idx] = Running], NotYet)
        ELSE Write([p EXCEPT !.cst[poll.idx] = Exited(c)], Counted(c = 0, TRUE))
  /\ UNCHANGED <<call, mail, remoteVars>>

PollMainContainer ==
  LET p == Held
      s == p.cst[poll.idx]
  IN /\ poll.pc = "main"
     /\ poll.idx <= Len(MainOf[p.uid])
     /\ \/ /\ s.st = "running"
           /\ \E c \in StatusReads(MainOf[p.uid][poll.idx]) :
                 IF c = None THEN poll' = NotYet /\ UNCHANGED pods
                 ELSE Write([p EXCEPT !.cst[poll.idx] = Exited(c)],
                            Counted(c = 0, TRUE))
        \/ /\ s.st # "running"
           /\ poll' = IF s.st = "waiting" /\ initContainersActive(p) THEN NotYet
                      ELSE Counted(s.code = 0, FALSE)
           /\ UNCHANGED pods
     /\ UNCHANGED <<call, mail, remoteVars>>

(* Mutant: the verdict does not wait for all containers to end. *)
PollMainDone_early ==
  LET p == Held
      n == Len(MainOf[p.uid])
      verdict == IF poll.good = n THEN "Succeeded" ELSE "Failed"
  IN /\ poll.pc = "main"
     /\ poll.idx > n
     /\ \/ /\ p.phase = "Running" /\ (poll.good > 0 \/ poll.dirty)
           /\ Leave([p EXCEPT !.ready = FALSE, !.phase = verdict], TRUE)
        \/ /\ ~(p.phase = "Running" /\ (poll.good > 0 \/ poll.dirty))
           /\ Leave(p, poll.dirty)
     /\ UNCHANGED <<call, remoteVars>>

PollMainDone ==
  LET p == Held
      n == Len(MainOf[p.uid])
      ended == poll.left = 0 /\ p.phase = "Running"
      verdict == IF poll.good = n THEN "Succeeded" ELSE "Failed"
  IN /\ poll.pc = "main"
     /\ poll.idx > n
     /\ \/ /\ ended
           /\ Leave([p EXCEPT !.ready = FALSE, !.phase = verdict], TRUE)
        \/ /\ ~ended
           /\ Leave(p, poll.dirty)
     /\ UNCHANGED <<call, remoteVars>>

PollStep ==
  \/ PollBegin
  \/ PollEnd
  \/ \E k \in Key : PollSkip(k) \/ PollFirstPass(k) \/ PollPick(k)
  \/ PollInitContainer
  \/ PollInitDone
  \/ startMainContainers
  \/ PollStarted
  \/ PollMainContainer
  \/ PollMainDone

=============================================================================
