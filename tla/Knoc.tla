-------------------------------- MODULE Knoc --------------------------------
(***************************************************************************)
(* KNoC as a whole: users and the API server, the virtual-kubelet          *)
(* controller that calls the provider (a library, modelled from the calls  *)
(* the provider is written for), the provider's handlers and status poll,  *)
(* and the remote side. Also the death and restart of the provider's       *)
(* process, which loses the map and everything in flight.                  *)
(***************************************************************************)
EXTENDS StatusPoll

CONSTANTS
  Requests,   \* what users may ask of a pod: to edit, delete or force-delete it
  MaxEdit,    \* bound: the edits of pods by users in a behaviour
  MaxCrash    \* bound: the restarts of the provider in a behaviour

ASSUME BoundsAssumption == MaxEdit \in Nat /\ MaxCrash \in Nat

VARIABLES
  api,        \* api[u]: the life of pod u and its object in the API server
  edits,      \* the number of edits so far
  crashes     \* the number of restarts so far

vars == <<remoteVars, providerVars, api, edits, crashes>>

-----------------------------------------------------------------------------
(* life: not created; created; deletion requested; removed from the API    *)
(* with the controller yet to handle it; handled.                          *)

ApiObject == [life : {"none", "live", "deleting", "removed", "gone"}, pod : Pod]

TypeOK ==
  /\ RemoteTypeOK
  /\ ProviderTypeOK
  /\ api \in [Uid -> ApiObject]
  /\ edits \in 0..MaxEdit
  /\ crashes \in 0..MaxCrash

Init ==
  /\ RemoteInit
  /\ ProviderInit
  /\ api = [u \in Uid |-> [life |-> "none", pod |-> FreshPod(u)]]
  /\ edits = 0
  /\ crashes = 0

Finished(p) == p.phase \in {"Succeeded", "Failed"}
ShowsRunning(p) == \E i \in DOMAIN p.cst : p.cst[i].st = "running"
Present(u) == api[u].life \in {"live", "deleting"}
Owned(k) == {u \in Uid : KeyOf[u] = k}

-----------------------------------------------------------------------------
(* Users: create a pod (one per name at a time), edit its labels or        *)
(* annotations, delete it, delete it with no grace period.                 *)

UserCreate(u) ==
  /\ api[u].life = "none"
  /\ \A v \in Owned(KeyOf[u]) : ~Present(v)
  /\ api' = [api EXCEPT ![u].life = "live"]
  /\ UNCHANGED <<remoteVars, providerVars, edits, crashes>>

UserEdit(u) ==
  /\ "edit" \in Requests /\ edits < MaxEdit
  /\ api[u].life = "live"
  /\ api' = [api EXCEPT ![u].pod.gen = @ + 1]
  /\ edits' = edits + 1
  /\ UNCHANGED <<remoteVars, providerVars, crashes>>

UserDelete(u) ==
  /\ "delete" \in Requests
  /\ api[u].life = "live"
  /\ api' = [api EXCEPT ![u].life = "deleting"]
  /\ UNCHANGED <<remoteVars, providerVars, edits, crashes>>

UserForceDelete(u) ==
  /\ "force" \in Requests
  /\ Present(u)
  /\ api' = [api EXCEPT ![u].life = "removed"]
  /\ UNCHANGED <<remoteVars, providerVars, edits, crashes>>

UserStep == \E u \in Uid :
  \/ UserCreate(u)
  \/ UserEdit(u)
  \/ UserDelete(u)
  \/ UserForceDelete(u)

-----------------------------------------------------------------------------
(* The controller's worker for a key: compare the API server's pod with    *)
(* the one GetPod returns, and call the handler that reconciles them.      *)

KubeletCreate(u) ==
  /\ api[u].life = "live" /\ ~Finished(api[u].pod)
  /\ pods[KeyOf[u]] = None
  /\ CreatePod(KeyOf[u], api[u].pod)
  /\ UNCHANGED <<api, edits, crashes>>

KubeletUpdate(u) ==
  LET stored == pods[KeyOf[u]] IN
  /\ api[u].life = "live" /\ ~Finished(api[u].pod)
  /\ stored # None
  /\ stored.uid # u \/ stored.gen # api[u].pod.gen
  /\ UpdatePod(KeyOf[u], api[u].pod)
  /\ UNCHANGED <<api, edits, crashes>>

KubeletDelete(u) ==
  /\ api[u].life = "deleting" /\ ShowsRunning(api[u].pod)
  /\ DeletePod(KeyOf[u], api[u].pod)
  /\ UNCHANGED <<api, edits, crashes>>

(* The pod left the API: the controller deletes what GetPod returns,       *)
(* unless a pod of the same name has come since.                           *)
KubeletDeleteRemoved(u) ==
  /\ api[u].life = "removed"
  /\ \A v \in Owned(KeyOf[u]) : ~Present(v)
  /\ DeletePod(KeyOf[u], pods[KeyOf[u]])
  /\ api' = [api EXCEPT ![u].life = "gone"]
  /\ UNCHANGED <<edits, crashes>>

KubeletForget(u) ==
  /\ api[u].life = "removed"
  /\ call[KeyOf[u]].op = "none"
  /\ pods[KeyOf[u]] = None \/ \E v \in Owned(KeyOf[u]) : Present(v)
  /\ api' = [api EXCEPT ![u].life = "gone"]
  /\ UNCHANGED <<remoteVars, providerVars, edits, crashes>>

(* A pod being deleted is removed from the API once its status shows no    *)
(* running container, or when the provider does not know it.               *)
KubeletRemove(u) ==
  /\ api[u].life = "deleting"
  /\ \/ ~ShowsRunning(api[u].pod)
     \/ pods[KeyOf[u]] = None /\ call[KeyOf[u]].op = "none"
  /\ api' = [api EXCEPT ![u].life = "removed"]
  /\ UNCHANGED <<remoteVars, providerVars, edits, crashes>>

(* The last status the provider notified reaches the API server, unless    *)
(* the pod there has already finished.                                     *)
KubeletSync(k) ==
  LET p == mail[k] IN
  /\ p # None
  /\ Present(p.uid) /\ ~Finished(api[p.uid].pod)
  /\ api' = [api EXCEPT ![p.uid].pod = [p EXCEPT !.gen = api[p.uid].pod.gen]]
  /\ api' # api
  /\ UNCHANGED <<remoteVars, providerVars, edits, crashes>>

KubeletStep(u) ==
  \/ KubeletCreate(u)
  \/ KubeletUpdate(u)
  \/ KubeletDelete(u)
  \/ KubeletDeleteRemoved(u)
  \/ KubeletForget(u)
  \/ KubeletRemove(u)

-----------------------------------------------------------------------------
(* The provider's process ends (a panic when ssh cannot connect, when the  *)
(* door cannot be uploaded, when sftp fails; a concurrent use of the map;  *)
(* a kill) and is restarted.                                               *)
Crash ==
  /\ "crash" \in Faults /\ crashes < MaxCrash
  /\ crashes' = crashes + 1
  /\ pods' = [k \in Key |-> None]
  /\ poll' = IdlePoll
  /\ call' = [k \in Key |-> NoCall]
  /\ mail' = [k \in Key |-> None]
  /\ UNCHANGED <<remoteVars, api, edits>>

ControlUnchanged == UNCHANGED <<api, edits, crashes>>

Next ==
  \/ UserStep
  \/ \E u \in Uid : KubeletStep(u)
  \/ \E k \in Key : KubeletSync(k)
  \/ \E k \in Key : HandlerStep(k) /\ ControlUnchanged
  \/ PollStep /\ ControlUnchanged
  \/ PollNothing /\ ControlUnchanged
  \/ RemoteStep /\ UNCHANGED providerVars /\ ControlUnchanged
  \/ Crash

Spec == Init /\ [][Next]_vars

(* The scheduling the code justifies: the poll's timer always fires again  *)
(* and its goroutine is never blocked for good; a handler in progress goes *)
(* on; the controller's work queues and informers serve every pod; door    *)
(* processes run; a job ends by itself. Users promise nothing.             *)
Fairness ==
  /\ WF_vars(PollStep /\ ControlUnchanged)
  /\ \A k \in Key : WF_vars(HandlerStep(k) /\ ControlUnchanged)
  /\ \A k \in Key : WF_vars(KubeletSync(k))
  /\ \A u \in Uid : WF_vars(KubeletStep(u))
  /\ WF_vars((\E d \in DOMAIN door : DoorStep(d))
               /\ UNCHANGED providerVars /\ ControlUnchanged)
  /\ WF_vars((\E j \in DOMAIN job : JobEnds(j))
               /\ UNCHANGED providerVars /\ ControlUnchanged)

FairSpec == Spec /\ Fairness

-----------------------------------------------------------------------------
(* Properties.                                                             *)

Submissions(c) == {d \in DOMAIN door : door[d].act = "submit" /\ door[d].ctr = c}

(* A job of c's instance ended with that code: of c itself, or of another   *)
(* container of its pod with the same image, for these share one .status   *)
(* file (remote.go 120) and nothing can tell their ends apart.              *)
HasExited(c, code) ==
  \E j \in DOMAIN job : /\ InstOf[job[j].ctr] = InstOf[c]
                        /\ job[j].st = "done" /\ job[j].code = code

IsActive(c) == \E j \in DOMAIN job : job[j].ctr = c /\ job[j].st = "active"

(* Every copy of a pod there is: stored, in the poll's or a handler's hand, *)
(* on its way to the API server, or there.                                  *)
Copies ==
  ({pods[k] : k \in Key} \cup {mail[k] : k \in Key} \cup {call[k].pod : k \in Key}
     \cup {api[u].pod : u \in Uid} \cup {poll.orphan}) \ {None}

(* The poll never indexes past the statuses of the pod it has in hand, nor  *)
(* reads the exit code of a container that has not terminated (remote.go    *)
(* 306, 379, 424; knoc.go 643, 658), although handlers replace and remove   *)
(* pods, with older statuses, between its steps.                            *)
PollNeverPanics ==
  Working =>
    /\ Held # None
    /\ poll.pc = "init" => Len(Held.ist) = Len(InitOf[Held.uid])
    /\ Len(Held.cst) = Len(MainOf[Held.uid])
    /\ poll.pc = "main" =>
         \A i \in DOMAIN Held.cst : Held.cst[i].st \in {"running", "terminated"}

(* No copy of a pod shows for a container an exit code that no job of its   *)
(* instance ended with: not one of another pod, nor of an earlier pod of    *)
(* its name (remote.go 306-349, 379-419).                                   *)
ExitsAreReal ==
  \A p \in Copies :
    /\ \A i \in DOMAIN p.ist : p.ist[i].why = "exit" =>
          HasExited(InitOf[p.uid][i], p.ist[i].code)
    /\ \A i \in DOMAIN p.cst : p.cst[i].why = "exit" =>
          HasExited(MainOf[p.uid][i], p.cst[i].code)

(* A pod is reported Succeeded, other than by a deletion, only when each of *)
(* its main containers, or one with its image, ran to its end with exit    *)
(* code 0 (remote.go 434-446).                                              *)
SuccessIsEarned ==
  \A p \in Copies : p.phase = "Succeeded" /\ p.reason = None =>
    \A i \in DOMAIN MainOf[p.uid] : HasExited(MainOf[p.uid][i], 0)

(* A pod is reported Failed only when one of its containers ended with an   *)
(* exit code other than 0, or could not be submitted (remote.go 353-366,    *)
(* 434-446; knoc.go 217-233, 657-673).                                      *)
FailureHasCause ==
  \A p \in Copies : p.phase = "Failed" =>
    \/ \E i \in DOMAIN p.cst : p.cst[i].why = "unreachable"
    \/ \E c \in ContainersOf(p.uid), code \in Code \ {0} : HasExited(c, code)

(* A main container is submitted only after each init container of its pod  *)
(* has run to its end, or another one with its image, which nobody can tell *)
(* from it (knoc.go 157-165, remote.go 284-366), through crashes and        *)
(* updates that bring back older statuses.                                  *)
MainAfterInit ==
  \A u \in Uid, c \in Container :
    c \in Elems(MainOf[u]) /\ Submissions(c) # {} =>
      \A i \in DOMAIN InitOf[u] : \E code \in Code : HasExited(InitOf[u][i], code)

(* Nobody cancels the job of a pod whose deletion no user asked for.        *)
OnlyDeletionCancels ==
  \A u \in Uid : api[u].life \in {"none", "live"} =>
    \A j \in DOMAIN job : job[j].ctr \in ContainersOf(u) => job[j].st # "cancelled"

(* A container is submitted once, and once more for each restart or edit.   *)
SubmitsBounded ==
  \A c \in Container : Cardinality(Submissions(c)) <= 1 + crashes + edits

(* Why PollNeverPanics holds: what the poll and the handlers owe to each    *)
(* other. The conjunction SafeInv is inductive; KnocProofs shows it.        *)

(* A pod the poll may pick: as many statuses as containers, and no waiting  *)
(* main container once it is initialized.                                   *)
AllStarted(p) == \A i \in DOMAIN p.cst : p.cst[i].st # "waiting"

Settled(p) ==
  p.phase = "Running" =>
    /\ Len(p.cst) = Len(MainOf[p.uid])
    /\ p.initialized => AllStarted(p)
    /\ Len(p.ist) \in {0, Len(InitOf[p.uid])}

PollHolds ==
  /\ poll.todo \subseteq Stored
  /\ ~Working => poll.orphan = None
  /\ Working => poll.key \in Key /\ Held # None /\ poll.idx > 0

CallHolds(c) ==
  /\ c.op # "none" => c.pod # None /\ c.idx > 0
  /\ c.op = "delete" => c.pod.phase = "Succeeded"
  /\ c.op = "create" =>
       /\ c.pod.ist = <<>>
       /\ InitOf[c.pod.uid] = <<>> => /\ AllStarted(c.pod)
                                      /\ Len(c.pod.cst) = c.idx - 1
                                      /\ c.idx <= Len(MainOf[c.pod.uid]) + 1
       /\ InitOf[c.pod.uid] # <<>> => ~c.pod.initialized

HandlersHold == \A k \in Key : CallHolds(call[k])

(* A pod in the poll's hand while it starts main containers is the only one *)
(* that is not settled.                                                     *)
Starting(k) == poll.pc = "start" /\ poll.key = k /\ poll.orphan = None

StoredSettled == \A k \in Stored : Starting(k) \/ Settled(pods[k])
MailSettled == \A k \in Key : mail[k] # None => Settled(mail[k])
ApiSettled == \A u \in Uid : Settled(api[u].pod)

InHand ==
  /\ Working => Len(Held.cst) = Len(MainOf[Held.uid])
  /\ poll.pc = "init" => /\ Held.phase = "Running" /\ ~Held.initialized
                         /\ Len(Held.ist) = Len(InitOf[Held.uid])
  /\ poll.pc = "start" =>
       /\ Len(Held.ist) = Len(InitOf[Held.uid])
       /\ \A i \in DOMAIN Held.cst : i < poll.idx => Held.cst[i].st # "waiting"
  /\ poll.pc = "main" => /\ AllStarted(Held)
                         /\ Len(Held.ist) \in {0, Len(InitOf[Held.uid])}

SafeInv ==
  /\ TypeOK
  /\ RemoteInv
  /\ PollHolds
  /\ HandlersHold
  /\ StoredSettled
  /\ MailSettled
  /\ ApiSettled
  /\ InHand

(* Whatever the provider shows in its map was notified, unless a handler or *)
(* the poll is at work on it; the one exception is the running status the   *)
(* first pass gives to init containers (remote.go 292-305).                 *)
NotifiedIsCurrent ==
  \A k \in Stored : ~(Working /\ poll.key = k) =>
    \/ mail[k] = pods[k]
    \/ /\ mail[k] = [pods[k] EXCEPT !.ist = <<>>]
       /\ \A i \in DOMAIN pods[k].ist : pods[k].ist[i].st = "running"

(* A pod whose deletion was handled is not in the map any more.             *)
DeletedStaysDeleted ==
  \A k \in Stored : api[pods[k].uid].life = "gone" => call[k].op = "delete"

(* No main container runs while an init container of its pod does.          *)
NoMainDuringInit ==
  \A u \in Uid : (\E c \in Elems(InitOf[u]) : IsActive(c)) =>
    ~ \E c \in Elems(MainOf[u]) : IsActive(c)

(* Main containers are started only when all init containers succeeded.     *)
FailedInitStopsPod ==
  \A u \in Uid, c \in Container :
    c \in Elems(MainOf[u]) /\ Submissions(c) # {} =>
      \A i \in DOMAIN InitOf[u] : HasExited(InitOf[u][i], 0)

(* Once a deletion was handled and every door has ended, nothing of it runs *)
NoJobAfterDelete ==
  \A u \in Uid :
    /\ api[u].life = "gone" /\ call[KeyOf[u]].op = "none"
    /\ \A d \in DOMAIN door : door[d].pc \in {"done", "dead"}
    => \A c \in ContainersOf(u) : ~IsActive(c)

(* What the API shows as the end of a container is never taken back.        *)
TerminatedStays ==
  [][\A u \in Uid : \A i \in DOMAIN api[u].pod.cst :
        api[u].pod.cst[i].why = "exit" =>
          i \in DOMAIN api'[u].pod.cst /\ api'[u].pod.cst[i].st = "terminated"]_vars

(* A pod that nobody deletes comes to its end in the API.                   *)
LivePodFinishes ==
  \A u \in Uid : api[u].life = "live" ~> (api[u].life # "live" \/ Finished(api[u].pod))

(* A container of pod u that will never leave a .status file: its door died *)
(* before it had a job, its job was killed, or it is an init container that *)
(* could not be submitted, which CreatePod does not look at.                *)
Lost(u) ==
  \/ \E d \in DOMAIN door : /\ door[d].act = "submit" /\ door[d].ctr \in ContainersOf(u)
                             /\ door[d].pc = "dead" /\ door[d].jid = None
  \/ \E j \in DOMAIN job : job[j].ctr \in ContainersOf(u) /\ job[j].st = "lost"
  \/ /\ pods[KeyOf[u]] # None /\ pods[KeyOf[u]].uid = u
     /\ \E i \in DOMAIN InitOf[u] : Submissions(InitOf[u][i]) = {}

(* A pod that nobody deletes or edits comes to its end in the API, through  *)
(* all its doors, jobs and passes of the poll, unless one of its containers *)
(* is lost (knoc.go 158-165, remote.go 284-449, door.go 135).               *)
FinishesUnlessLost ==
  \A u \in Uid : api[u].life = "live" /\ api[u].pod.gen = 0 ~>
    \/ api[u].life # "live" \/ api[u].pod.gen > 0
    \/ Finished(api[u].pod)
    \/ Lost(u)

(* The provider ends up with the latest edit of a pod that lives on, even   *)
(* when the poll has stored the pod before the edit over it (knoc.go        *)
(* 251-269, remote.go 367, 448).                                            *)
EditsArrive ==
  \A u \in Uid : api[u].life = "live" ~>
    \/ api[u].life # "live" \/ Finished(api[u].pod)
    \/ /\ pods[KeyOf[u]] # None
       /\ pods[KeyOf[u]].uid = u /\ pods[KeyOf[u]].gen = api[u].pod.gen

(* A deletion comes to its end: the controller is done with the pod and no  *)
(* handler call for it is left hanging (knoc.go 272-327).                   *)
DeletionCompletes ==
  \A u \in Uid : api[u].life \in {"deleting", "removed"} ~>
                  api[u].life = "gone" /\ call[KeyOf[u]].op = "none"

-----------------------------------------------------------------------------
(* Knoc implements PodLife: of each pod only its jobs, its phase in the API *)
(* and whether a user has asked to delete it are looked at.                 *)

asked == {u \in Uid : api[u].life \in {"deleting", "removed", "gone"}}
shown == [u \in Uid |->
  [phase |-> api[u].pod.phase,
   unreachable |-> \E i \in DOMAIN api[u].pod.cst : api[u].pod.cst[i].why = "unreachable"]]

Life == INSTANCE PodLife WITH job <- job, shown <- shown, asked <- asked

(* Every behaviour of the provider, the poll, the doors and the controller, *)
(* restarts included, is a life of pods as PodLife promises it: main after  *)
(* init containers, one end, shown for a reason, no job cancelled without a *)
(* deletion (knoc.go 132-330, remote.go 267-455, door.go 140-213).          *)
ImplementsPodLife == Life!Spec

=============================================================================
