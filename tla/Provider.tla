------------------------------ MODULE Provider ------------------------------
(***************************************************************************)
(* The KNoC provider (knoc.go, remote.go): the map of pods it keeps in     *)
(* memory, the handlers the virtual-kubelet controller calls on worker     *)
(* threads, and the goroutine that polls the remote cluster every five     *)
(* seconds. Nothing locks the map or the pods in it. Each handler and the  *)
(* poll are split at their ssh calls, where the others may run.            *)
(*                                                                         *)
(* The controller makes at most one call at a time for a key and passes    *)
(* each handler a copy of a pod, so the poll is the only one that writes   *)
(* into a pod stored in the map; handlers replace or remove it whole.      *)
(***************************************************************************)
EXTENDS Remote

CONSTANTS
  Uid,      \* the pods, by the uid the API server gives them
  Key,      \* the keys "<namespace>-<name>" of the pods map
  KeyOf,    \* KeyOf[u] is the key of pod u
  InitOf,   \* InitOf[u] are the init containers of pod u, in order
  MainOf    \* MainOf[u] are its main containers, in order

Elems(s) == {s[i] : i \in DOMAIN s}
ContainersOf(u) == Elems(InitOf[u]) \cup Elems(MainOf[u])

ASSUME ProviderAssumption ==
  /\ KeyOf \in [Uid -> Key]
  /\ InitOf \in [Uid -> Seq(Container)]
  /\ MainOf \in [Uid -> Seq(Container)]
  /\ \A u \in Uid : MainOf[u] # <<>>
  /\ None \notin Uid
  /\ None \notin Key

(* The uid is part of the instance name, so pods never share remote files. *)
ASSUME UidInInstance ==
  \A u, v \in Uid : \A c \in ContainersOf(u), d \in ContainersOf(v) :
     InstOf[c] = InstOf[d] => u = v

(* The API server takes no pod in which two containers have one name, be   *)
(* they main or init containers.                                           *)
ASSUME ContainersDistinct ==
  \A u \in Uid :
    /\ \A i, j \in DOMAIN InitOf[u] : InitOf[u][i] = InitOf[u][j] => i = j
    /\ \A i, j \in DOMAIN MainOf[u] : MainOf[u][i] = MainOf[u][j] => i = j
    /\ Elems(InitOf[u]) \cap Elems(MainOf[u]) = {}

VARIABLES
  pods,   \* KNOCProvider.pods: the stored pod of each key, or None
  poll,   \* the locals of checkPodsStatus
  call,   \* the handler call in progress for each key
  mail    \* the last pod of each key passed to the notifier, or None

providerVars == <<pods, poll, call, mail>>

-----------------------------------------------------------------------------
(* The status of a container, and of a pod. Ready is set exactly while the *)
(* state is running, so it is not a field of its own.                      *)

ContainerStatus == [st   : {"waiting", "running", "terminated"},
                    code : 0..255 \cup {None},
                    why  : {"exit", "unreachable", "deleted", None}]

Waiting == [st |-> "waiting", code |-> None, why |-> None]
Running == [st |-> "running", code |-> None, why |-> None]
Exited(c) == [st |-> "terminated", code |-> c, why |-> "exit"]
(* Mutant: an exit code no process can have. *)
Unreachable_negative == [st |-> "terminated", code |-> -1, why |-> "unreachable"]

Unreachable == [st |-> "terminated", code |-> 130, why |-> "unreachable"]
Deleted == [st |-> "terminated", code |-> 0, why |-> "deleted"]

Pod == [uid : Uid, gen : Nat,
        phase : {"Pending", "Running", "Succeeded", "Failed"},
        reason : {"deleted", None},
        initialized : BOOLEAN, ready : BOOLEAN,
        ist : Seq(ContainerStatus), cst : Seq(ContainerStatus)]

(* Neither a pod nor a reason is the value that stands for none. *)
ASSUME NoneAssumption ==
  /\ None \notin Pod
  /\ None \notin {"exit", "unreachable", "deleted"}

All(s, n) == [i \in 1..n |-> s]

(* A pod as the API server holds it before any provider touched it. *)
FreshPod(u) ==
  [uid |-> u, gen |-> 0, phase |-> "Pending", reason |-> None,
   initialized |-> FALSE, ready |-> FALSE, ist |-> <<>>, cst |-> <<>>]

(* Mutant: the pod counts as initialized although it has init containers. *)
ResetPod_initialized(p) ==
  [p EXCEPT !.phase = "Running", !.reason = None, !.initialized = TRUE,
            !.ready = TRUE, !.ist = <<>>, !.cst = <<>>]

(* How the pod looks right after CreatePod has reset its status. *)
ResetPod(p) ==
  LET plain == InitOf[p.uid] = <<>> IN
  [p EXCEPT !.phase = "Running", !.reason = None, !.initialized = plain,
            !.ready = plain, !.ist = <<>>, !.cst = <<>>]

DeletedPod(p) ==
  [p EXCEPT !.ist = All(Deleted, Len(p.ist)), !.cst = All(Deleted, Len(p.cst))]

NoCall == [op |-> "none", pod |-> None, idx |-> 0]

IdlePoll == [pc |-> "idle", todo |-> {}, key |-> None, orphan |-> None,
             idx |-> 0, left |-> 0, good |-> 0, dirty |-> FALSE]

HandlerCall == [op : {"none", "create", "delete"}, pod : Pod \cup {None}, idx : Nat]

PollLocals == [pc : {"idle", "next", "init", "start", "main"},
               todo : SUBSET Key, key : Key \cup {None}, orphan : Pod \cup {None},
               idx : Nat, left : Int, good : Nat, dirty : BOOLEAN]

ProviderTypeOK ==
  /\ pods \in [Key -> Pod \cup {None}]
  /\ mail \in [Key -> Pod \cup {None}]
  /\ call \in [Key -> HandlerCall]
  /\ poll \in PollLocals

ProviderInit ==
  /\ pods = [k \in Key |-> None]
  /\ poll = IdlePoll
  /\ call = [k \in Key |-> NoCall]
  /\ mail = [k \in Key |-> None]

Stored == {k \in Key : pods[k] # None}

-----------------------------------------------------------------------------
(* RemoteExecution: connect, prepare the container's data, start a door.   *)
(* It fails before the door starts, or after it when the answer is lost.   *)

Launch(mode, c) ==
  IF mode = "submit" THEN runRemoteExecutionInstance(c)
                     ELSE stopRemoteExecutionInstance(c)

RemoteExecution(mode, c, ok) ==
  /\ \/ ok /\ Launch(mode, c)
     \/ ~ok /\ "ssh" \in Faults /\ UNCHANGED door
     \/ ~ok /\ "reply" \in Faults /\ Launch(mode, c)
  /\ UNCHANGED <<job, script, jidFile, statusFile>>

(* The map under the poll's range loop, and the pod the poll has in hand.  *)
(* A key inserted during the loop may or may not be visited; a pod that is *)
(* replaced or removed while the poll works on it lives on in poll.orphan. *)

Working == poll.pc \in {"init", "start", "main"}

Held == IF poll.orphan # None THEN poll.orphan ELSE pods[poll.key]

Visits(todo, k) ==
  IF poll.pc # "idle" /\ pods[k] = None THEN {todo, todo \cup {k}} ELSE {todo}

LetGo(k) ==
  IF Working /\ poll.key = k /\ poll.orphan = None THEN pods[k] ELSE poll.orphan

StoreByHandler(k, p) ==
  /\ pods' = [pods EXCEPT ![k] = p]
  /\ mail' = [mail EXCEPT ![k] = p]
  /\ \E todo \in Visits(poll.todo, k) :
        poll' = [poll EXCEPT !.todo = todo, !.orphan = LetGo(k)]

-----------------------------------------------------------------------------
(* CreatePod: submit the init containers if there are any, all at once and *)
(* ignoring errors; otherwise the main containers.                         *)

CreatePod(k, p) ==
  /\ call[k].op = "none"
  /\ call' = [call EXCEPT ![k] = [op |-> "create", pod |-> ResetPod(p), idx |-> 1]]
  /\ UNCHANGED <<pods, poll, mail, remoteVars>>

(* Mutant: the main containers are submitted along with the init ones. *)
CreateList_all(u) == InitOf[u] \o MainOf[u]

CreateList(u) == IF InitOf[u] = <<>> THEN MainOf[u] ELSE InitOf[u]

Launched(p, ok) ==
  IF InitOf[p.uid] # <<>> THEN p
  ELSE IF ok THEN [p EXCEPT !.cst = Append(@, Running)]
  ELSE [p EXCEPT !.cst = Append(@, Unreachable), !.phase = "Failed"]

CreateContainer(k) ==
  LET c == call[k] IN
  /\ c.op = "create"
  /\ c.idx <= Len(CreateList(c.pod.uid))
  /\ \E ok \in BOOLEAN :
        /\ RemoteExecution("submit", CreateList(c.pod.uid)[c.idx], ok)
        /\ call' = [call EXCEPT ![k] =
             [c EXCEPT !.pod = Launched(c.pod, ok), !.idx = c.idx + 1]]
  /\ UNCHANGED <<pods, poll, mail>>

CreateStore(k) ==
  LET c == call[k]
      p == IF InitOf[c.pod.uid] = <<>> THEN c.pod
           ELSE [c.pod EXCEPT !.cst = All(Waiting, Len(MainOf[c.pod.uid]))]
  IN /\ c.op = "create"
     /\ c.idx > Len(CreateList(c.pod.uid))
     /\ StoreByHandler(k, p)
     /\ call' = [call EXCEPT ![k] = NoCall]
     /\ UNCHANGED remoteVars

(* Mutant: the pod is passed on to the notifier and not stored. *)
UpdatePod_notStored(k, p) ==
  /\ call[k].op = "none"
  /\ mail' = [mail EXCEPT ![k] = p]
  /\ UNCHANGED <<pods, poll, call, remoteVars>>

(* UpdatePod, called by the controller: the pod it passes replaces the     *)
(* stored one, status included.                                            *)
UpdatePod(k, p) ==
  /\ call[k].op = "none"
  /\ StoreByHandler(k, p)
  /\ UNCHANGED <<call, remoteVars>>

(* DeletePod: stop the main containers, then the init containers, ignoring *)
(* errors; then notify and forget the pod. (Its NotFound return, for a key *)
(* that is not stored, changes nothing.)                                   *)
DeletePod(k, p) ==
  /\ call[k].op = "none"
  /\ pods[k] # None
  /\ call' = [call EXCEPT ![k] =
       [op |-> "delete", idx |-> 1,
        pod |-> [p EXCEPT !.phase = "Succeeded", !.reason = "deleted"]]]
  /\ UNCHANGED <<pods, poll, mail, remoteVars>>

DeleteList(u) == MainOf[u] \o InitOf[u]

(* Mutant: the containers to stop are looked up by the name of the pod. *)
DeleteContainer_byName(k) ==
  LET c == call[k] IN
  /\ c.op = "delete"
  /\ c.idx <= Len(DeleteList(c.pod.uid))
  /\ \E ok \in BOOLEAN, u \in {v \in Uid : KeyOf[v] = k} :
        RemoteExecution("stop", DeleteList(u)[c.idx], ok)
  /\ call' = [call EXCEPT ![k].idx = c.idx + 1]
  /\ UNCHANGED <<pods, poll, mail>>

(* Mutant: the stop waits for the .jid file of the container. *)
DeleteContainer_waits(k) ==
  LET c == call[k] IN
  /\ c.op = "delete"
  /\ c.idx <= Len(DeleteList(c.pod.uid))
  /\ jidFile[InstOf[DeleteList(c.pod.uid)[c.idx]]] # None
  /\ \E ok \in BOOLEAN : RemoteExecution("stop", DeleteList(c.pod.uid)[c.idx], ok)
  /\ call' = [call EXCEPT ![k].idx = c.idx + 1]
  /\ UNCHANGED <<pods, poll, mail>>

DeleteContainer(k) ==
  LET c == call[k] IN
  /\ c.op = "delete"
  /\ c.idx <= Len(DeleteList(c.pod.uid))
  /\ \E ok \in BOOLEAN : RemoteExecution("stop", DeleteList(c.pod.uid)[c.idx], ok)
  /\ call' = [call EXCEPT ![k].idx = c.idx + 1]
  /\ UNCHANGED <<pods, poll, mail>>

DeleteForget(k) ==
  LET c == call[k] IN
  /\ c.op = "delete"
  /\ c.idx > Len(DeleteList(c.pod.uid))
  /\ mail' = [mail EXCEPT ![k] = DeletedPod(c.pod)]
  /\ pods' = [pods EXCEPT ![k] = None]
  /\ poll' = [poll EXCEPT !.todo = @ \ {k}, !.orphan = LetGo(k)]
  /\ call' = [call EXCEPT ![k] = NoCall]
  /\ UNCHANGED remoteVars

HandlerStep(k) ==
  \/ CreateContainer(k)
  \/ CreateStore(k)
  \/ DeleteContainer(k)
  \/ DeleteForget(k)

=============================================================================
