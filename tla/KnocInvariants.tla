--------------------------- MODULE KnocInvariants ---------------------------
(***************************************************************************)
(* Why the properties of Knoc hold: OwnInv, that pods stay under their own *)
(* keys and only what a user gave up is stopped, and HonestInv, that every *)
(* copy of a pod and the poll's counts tell what the jobs have done; then  *)
(* NotifiedInv, that the notifier knows the map, and SubmitInv, how often a *)
(* container was submitted. With SafeInv, and the ones before it, each is  *)
(* inductive; KnocProofs, HonestProofs and SubmitProofs show it.           *)
(***************************************************************************)
EXTENDS Knoc

Asked(u) == api[u].life \in {"deleting", "removed", "gone"}

(* A copy of a pod under key k: of a pod of that name, which was created,  *)
(* and which says that it was deleted only when a user asked for it.       *)
BelongsTo(k, p) ==
  p # None =>
    /\ KeyOf[p.uid] = k
    /\ api[p.uid].life # "none"
    /\ p.reason = "deleted" => Asked(p.uid)

CopiesOwned ==
  /\ \A k \in Key : BelongsTo(k, pods[k]) /\ BelongsTo(k, mail[k]) /\ BelongsTo(k, call[k].pod)
  /\ BelongsTo(poll.key, poll.orphan)

ObjectsOwned ==
  \A u \in Uid : api[u].pod.uid = u /\ (api[u].pod.reason = "deleted" => Asked(u))

DeletesAsked == \A k \in Key : call[k].op = "delete" => Asked(call[k].pod.uid)

StopsAsked ==
  \A d \in DOMAIN door : door[d].act = "stop" =>
     \E u \in Uid : door[d].ctr \in ContainersOf(u) /\ Asked(u)

(* Whatever runs was submitted, for a container of some pod.                *)
DoorsOfPods == \A d \in DOMAIN door : \E u \in Uid : door[d].ctr \in ContainersOf(u)

IsSubmitted(c) == \E d \in DOMAIN door : door[d].act = "submit" /\ door[d].ctr = c

ScriptSubmitted == \A i \in Instance : script[i] # None => IsSubmitted(script[i])
JobsSubmitted == \A j \in DOMAIN job : IsSubmitted(job[j].ctr)

OwnInv ==
  /\ CopiesOwned
  /\ ObjectsOwned
  /\ DeletesAsked
  /\ StopsAsked
  /\ DoorsOfPods
  /\ ScriptSubmitted
  /\ JobsSubmitted

-----------------------------------------------------------------------------
(* The ends of jobs so far: under which instance name, with which exit code. *)
(* That is all a .status file tells, for the containers of a pod with one  *)
(* image share its name.                                                   *)
Exits ==
  {<<InstOf[job[j].ctr], job[j].code>> : j \in {i \in DOMAIN job : job[i].st = "done"}}

Ended(c, exits) == \E code \in Code : <<InstOf[c], code>> \in exits
AllEnded(u, exits) == \A i \in DOMAIN InitOf[u] : Ended(InitOf[u][i], exits)
AllSucceeded(u, exits) == \A i \in DOMAIN MainOf[u] : <<InstOf[MainOf[u][i]], 0>> \in exits
SomeFailed(u, exits) ==
  \E c \in ContainersOf(u), code \in Code \ {0} : <<InstOf[c], code>> \in exits

HasUnreachable(p) == \E i \in DOMAIN p.cst : p.cst[i].why = "unreachable"
HasCause(p, exits) == HasUnreachable(p) \/ SomeFailed(p.uid, exits)

(* A copy of a pod tells what its jobs did.                                 *)
IsExit(s, c, exits) == \E code \in Code : s = Exited(code) /\ <<InstOf[c], code>> \in exits

InitTold(p, exits) ==
  \A i \in DOMAIN p.ist : \/ p.ist[i] = Running
                          \/ IsExit(p.ist[i], InitOf[p.uid][i], exits)
                          \/ p.ist[i] = Deleted /\ p.reason = "deleted"

MainTold(p, exits) ==
  \A i \in DOMAIN p.cst : \/ p.cst[i] \in {Waiting, Running, Unreachable}
                          \/ IsExit(p.cst[i], MainOf[p.uid][i], exits)
                          \/ p.cst[i] = Deleted /\ p.reason = "deleted"

PhaseTold(p, exits) ==
  /\ p.reason = "deleted" => p.phase = "Succeeded"
  /\ p.initialized => AllEnded(p.uid, exits)
  /\ p.phase = "Succeeded" /\ p.reason = None => AllSucceeded(p.uid, exits)
  /\ p.phase = "Failed" => HasCause(p, exits)

Honest(p, exits) == InitTold(p, exits) /\ MainTold(p, exits) /\ PhaseTold(p, exits)

CopiesHonest ==
  /\ \A k \in Key : /\ pods[k] # None => Honest(pods[k], Exits)
                    /\ mail[k] # None => Honest(mail[k], Exits)
                    /\ call[k].pod # None => Honest(call[k].pod, Exits)
  /\ poll.orphan # None => Honest(poll.orphan, Exits)
  /\ \A u \in Uid : Honest(api[u].pod, Exits)

(* CreatePod fails a pod only for a main container it submitted itself.     *)
CallHonest(c) ==
  /\ c.op = "create" =>
       /\ c.pod.phase \in {"Running", "Failed"}
       /\ InitOf[c.pod.uid] # <<>> => c.pod.phase = "Running"
  /\ c.op = "delete" => c.pod.reason = "deleted"

CallsHonest == \A k \in Key : CallHonest(call[k])

(* The poll's counts, for the containers before idx: while it has not met   *)
(* one that still runs, all of these ended, and each that does not count as *)
(* good is a failure.                                                       *)
CountsInit(u, idx, left, good, exits) ==
  LET n == Len(InitOf[u]) IN
  /\ idx <= n + 1
  /\ left >= n + 1 - idx
  /\ left = n + 1 - idx =>
       /\ \A i \in 1..n : i < idx => Ended(InitOf[u][i], exits)
       /\ good # idx - 1 => SomeFailed(u, exits)

CountsMain(p, idx, left, good, exits) ==
  LET n == Len(MainOf[p.uid]) IN
  /\ idx <= n + 1
  /\ left >= n + 1 - idx
  /\ good <= idx - 1
  /\ good = idx - 1 =>
       \A i \in 1..n : i < idx => <<InstOf[MainOf[p.uid][i]], 0>> \in exits
  /\ left = n + 1 - idx /\ good # idx - 1 => HasCause(p, exits)

StartsHonest(p, idx) ==
  /\ p.initialized
  /\ p.phase \in {"Running", "Failed"}
  /\ p.phase = "Failed" =>
       \E i \in DOMAIN p.cst : i < idx /\ p.cst[i].why = "unreachable"

PollHonest ==
  /\ poll.pc \in {"idle", "next"} => poll.good = 0
  /\ poll.pc = "init" => CountsInit(Held.uid, poll.idx, poll.left, poll.good, Exits)
  /\ poll.pc = "start" => StartsHonest(Held, poll.idx)
  /\ poll.pc = "main" => /\ CountsMain(Held, poll.idx, poll.left, poll.good, Exits)
                         /\ Held.phase = "Running"

HonestInv ==
  /\ CopiesHonest
  /\ CallsHonest
  /\ PollHonest
  /\ MainAfterInit

-----------------------------------------------------------------------------
(* The map and the notifier: m, the last pod notified under a key, tells    *)
(* what p, the one stored there, shows, unless the poll has it in hand and  *)
(* is bound to store it again.                                              *)
Told(p, m) ==
  \/ m = p
  \/ /\ m = [p EXCEPT !.ist = <<>>]
     /\ \A i \in DOMAIN p.ist : p.ist[i].st = "running"

AtHand(k) ==
  /\ poll.key = k /\ poll.orphan = None
  /\ poll.pc = "start" \/ (poll.pc \in {"init", "main"} /\ poll.dirty)

NotifiedInv == \A k \in Stored : Told(pods[k], mail[k]) \/ AtHand(k)

-----------------------------------------------------------------------------
(* How often a container may be submitted. A pod is created once, and once  *)
(* more after each restart; its main containers are started once for each   *)
(* creation and each edit, because only an edit makes the controller bring  *)
(* back a copy that the poll has not yet initialized.                       *)
Count(c) == Cardinality(Submissions(c))

OnePresent ==
  \A u, v \in Uid : KeyOf[u] = KeyOf[v] /\ Present(u) /\ Present(v) => u = v

(* No copy is newer than the API's, which counts the edits of its pod; and  *)
(* none that runs waits for init containers that its pod does not have.     *)
Sound(p) ==
  p # None =>
    /\ p.gen <= api[p.uid].pod.gen
    /\ p.phase = "Running" /\ InitOf[p.uid] = <<>> => p.initialized

CopiesSound ==
  /\ \A k \in Key : Sound(pods[k]) /\ Sound(mail[k]) /\ Sound(call[k].pod)
  /\ Sound(poll.orphan)
  /\ \A u \in Uid : Sound(api[u].pod) /\ api[u].pod.gen <= edits

StartsInitialized ==
  poll.pc = "start" => Held.initialized /\ InitOf[Held.uid] # <<>>

IsStored(u) == pods[KeyOf[u]] # None /\ pods[KeyOf[u]].uid = u
InPollsHand(u) == Working /\ Held.uid = u
Creating(u) == call[KeyOf[u]].op = "create" /\ call[KeyOf[u]].pod.uid = u

(* While a handler works on the key of a pod that lives on, the provider    *)
(* has no other copy of it; and it never removes one that the poll holds.   *)
Alone(u) ==
  Creating(u) \/ (api[u].life = "live" /\ call[KeyOf[u]].op # "none") =>
    ~IsStored(u) /\ ~InPollsHand(u)

CallsAlone == \A u \in Uid : Alone(u)

HandStored(u) == api[u].life = "live" /\ InPollsHand(u) => IsStored(u)
HandIsStored == \A u \in Uid : HandStored(u)

(* A live pod that CreatePod may yet be called for, in this run of the      *)
(* provider.                                                                *)
Uncreated(u) ==
  /\ ~Creating(u)
  /\ \/ api[u].life = "none"
     \/ api[u].life = "live" /\ (pods[KeyOf[u]] = None \/ call[KeyOf[u]].op # "none")

CreateBounds(u, i, n) ==
  /\ n <= crashes + 1
  /\ Uncreated(u) \/ (Creating(u) /\ i >= call[KeyOf[u]].idx) => n <= crashes

(* A live pod that is not stored, or will be overwritten by another one of  *)
(* its name, and has not been started since the API's copy was edited.      *)
Unstarted(u) ==
  \/ api[u].life = "none"
  \/ /\ api[u].life = "live"
     /\ ~IsStored(u) \/ (Working /\ poll.key = KeyOf[u] /\ Held.uid # u)

StartsAt(k) == poll.pc = "start" /\ poll.key = k

(* The starts behind a copy: one less than its edits and the restarts allow *)
(* when the poll may still start its main containers.                       *)
Started(p) == crashes + p.gen + IF p.initialized THEN 1 ELSE 0

StartBounds(u, i, n) ==
  /\ n <= crashes + api[u].pod.gen + 1
  /\ Unstarted(u) => n <= crashes + api[u].pod.gen
  /\ Creating(u) => n <= crashes + call[KeyOf[u]].pod.gen
  /\ IsStored(u) /\ ~StartsAt(KeyOf[u]) => n <= Started(pods[KeyOf[u]])
  /\ InPollsHand(u) =>
       n <= IF poll.pc = "start" /\ i >= poll.idx THEN crashes + Held.gen
            ELSE Started(Held)

CreatesCounted ==
  \A u \in Uid : \A i \in DOMAIN CreateList(u) :
    CreateBounds(u, i, Count(CreateList(u)[i]))

StartsCounted ==
  \A u \in Uid : InitOf[u] # <<>> =>
    \A i \in DOMAIN MainOf[u] : StartBounds(u, i, Count(MainOf[u][i]))

SubmitInv ==
  /\ OnePresent
  /\ CopiesSound
  /\ StartsInitialized
  /\ CallsAlone
  /\ HandIsStored
  /\ CreatesCounted
  /\ StartsCounted

=============================================================================
