------------------------------ MODULE KnocProofs ------------------------------
(***************************************************************************)
(* What holds of KNoC for any pods, containers, codes, faults, requests    *)
(* and number of edits and restarts: SafeInv is inductive. Then, with it,  *)
(* OwnInv: what is stored, notified or stopped under a key belongs to a    *)
(* pod of that name, and only what a user gave up is stopped. Then         *)
(* NotifiedInv: what the map shows was notified.                           *)
(***************************************************************************)
EXTENDS KnocInvariants, RemoteLemmas
(* The statuses the provider writes, and a sequence of equal ones. *)
LEMMA StatusTypes ==
  /\ Waiting \in ContainerStatus /\ Running \in ContainerStatus
  /\ Unreachable \in ContainerStatus /\ Deleted \in ContainerStatus
  /\ \A c \in Code : Exited(c) \in ContainerStatus /\ Exited(c).st = "terminated"
  /\ Running.st = "running" /\ Unreachable.st = "terminated"
BY RemoteAssumption DEF Waiting, Running, Unreachable, Deleted, Exited, ContainerStatus

LEMMA AllFacts ==
  ASSUME NEW s \in ContainerStatus, NEW n \in Nat
  PROVE  /\ All(s, n) \in Seq(ContainerStatus)
         /\ Len(All(s, n)) = n
         /\ \A i \in 1..n : All(s, n)[i] = s
BY DEF All

LEMMA PodFacts ==
  ASSUME NEW p \in Pod
  PROVE  /\ p # None /\ p.uid \in Uid /\ p.gen \in Nat
         /\ InitOf[p.uid] \in Seq(Container) /\ MainOf[p.uid] \in Seq(Container)
         /\ p.ist \in Seq(ContainerStatus) /\ p.cst \in Seq(ContainerStatus)
         /\ Len(InitOf[p.uid]) \in Nat /\ Len(MainOf[p.uid]) \in Nat
BY ProviderAssumption, NoneAssumption DEF Pod

LEMMA ResetFacts ==
  ASSUME NEW p \in Pod
  PROVE  LET q == ResetPod(p) IN
         /\ q \in Pod /\ q.uid = p.uid /\ q.ist = <<>> /\ q.cst = <<>>
         /\ InitOf[p.uid] # <<>> => ~q.initialized
BY EmptySeq DEF Pod, ResetPod

LEMMA DeletedFacts ==
  ASSUME NEW p \in Pod
  PROVE  /\ DeletedPod(p) \in Pod
         /\ DeletedPod(p).phase = p.phase
<1>1. /\ All(Deleted, Len(p.ist)) \in Seq(ContainerStatus)
      /\ All(Deleted, Len(p.cst)) \in Seq(ContainerStatus)
  BY StatusTypes, AllFacts, PodFacts
<1>2. QED
  BY <1>1 DEF DeletedPod, Pod

LEMMA IdleFacts ==
  /\ IdlePoll \in PollLocals /\ IdlePoll.orphan = None /\ IdlePoll.pc = "idle"
  /\ IdlePoll.todo = {}
  /\ \A todo \in SUBSET Key :
       LET q == [IdlePoll EXCEPT !.pc = "next", !.todo = todo] IN
       /\ q \in PollLocals /\ q.pc = "next" /\ q.todo = todo /\ q.orphan = None
<1>1. IdlePoll \in PollLocals
  BY DEF IdlePoll, PollLocals
<1>2. /\ IdlePoll.orphan = None /\ IdlePoll.pc = "idle" /\ IdlePoll.todo = {}
  BY DEF IdlePoll
<1>3. QED
  BY <1>1, <1>2 DEF PollLocals

-----------------------------------------------------------------------------
(* What the steps of others leave to the poll: its place, and the pod it    *)
(* has in hand, which is the stored one or the orphan.                      *)

HandKept ==
  /\ poll' \in PollLocals
  /\ poll'.pc = poll.pc /\ poll'.key = poll.key /\ poll'.idx = poll.idx
  /\ ~Working => poll'.orphan = None
  /\ Working => Held' = Held

LEMMA InHandKept ==
  ASSUME InHand, PollHolds, HandKept, poll'.todo \subseteq Stored'
  PROVE  InHand' /\ PollHolds'
<1>1. Working' = Working
  BY DEF HandKept, Working
<1>2. PollHolds'
  BY <1>1 DEF HandKept, PollHolds
<1>3. InHand'
  BY <1>1 DEF HandKept, InHand, Working, AllStarted
<1>4. QED
  BY <1>2, <1>3

LEMMA TypeFacts ==
  ASSUME ProviderTypeOK, PollHolds
  PROVE  /\ \A k \in Stored : pods[k] \in Pod
         /\ Working => Held \in Pod
         /\ poll \in PollLocals /\ poll.todo \subseteq Key
         /\ poll.orphan \in Pod \cup {None}
BY DEF ProviderTypeOK, PollHolds, Held, Stored, PollLocals

(* A handler stores p, or removes the pod (p = None). *)
Replaced(k, p) ==
  /\ pods' = [pods EXCEPT ![k] = p]
  /\ HandKept
  /\ poll'.todo \subseteq Stored'
  /\ \A x \in Key : Starting(x)' <=> x # k /\ Starting(x)

LEMMA StoreReplaces ==
  ASSUME ProviderTypeOK, PollHolds, NEW k \in Key, NEW p \in Pod, StoreByHandler(k, p)
  PROVE  Replaced(k, p)
<1>1. PICK todo \in Visits(poll.todo, k) :
         poll' = [poll EXCEPT !.todo = todo, !.orphan = LetGo(k)]
  BY DEF StoreByHandler
<1>2. todo \subseteq poll.todo \cup {k}
  BY <1>1 DEF Visits
<1>3. pods' = [pods EXCEPT ![k] = p] /\ pods \in [Key -> Pod \cup {None}] /\ p # None
  BY NoneAssumption DEF StoreByHandler, ProviderTypeOK
<1>4. LetGo(k) \in Pod \cup {None}
  BY TypeFacts, <1>3 DEF LetGo
<1>5. /\ poll' \in PollLocals /\ poll'.pc = poll.pc /\ poll'.key = poll.key
      /\ poll'.idx = poll.idx /\ poll'.todo = todo /\ poll'.orphan = LetGo(k)
  BY <1>1, <1>2, <1>4, TypeFacts DEF PollLocals
<1>6. HandKept
  BY <1>3, <1>5 DEF HandKept, PollHolds, Held, LetGo, Working
<1>7. todo \subseteq Stored'
  BY <1>2, <1>3 DEF PollHolds, Stored
<1>8. \A x \in Key : Starting(x)' <=> x # k /\ Starting(x)
  BY <1>3, <1>5 DEF Starting, LetGo, Working, PollHolds, Held
<1>9. QED
  BY <1>3, <1>5, <1>6, <1>7, <1>8 DEF Replaced

LEMMA ForgetReplaces ==
  ASSUME ProviderTypeOK, PollHolds, NEW k \in Key,
         pods' = [pods EXCEPT ![k] = None],
         poll' = [poll EXCEPT !.todo = @ \ {k}, !.orphan = LetGo(k)]
  PROVE  Replaced(k, None)
<1>1. LetGo(k) \in Pod \cup {None}
  BY TypeFacts DEF LetGo, ProviderTypeOK
<1>2. /\ poll' \in PollLocals /\ poll'.pc = poll.pc /\ poll'.key = poll.key
      /\ poll'.idx = poll.idx /\ poll'.todo = poll.todo \ {k} /\ poll'.orphan = LetGo(k)
  BY <1>1, TypeFacts DEF PollLocals
<1>3. HandKept
  BY <1>2 DEF HandKept, PollHolds, Held, LetGo, Working, ProviderTypeOK
<1>4. poll'.todo \subseteq Stored'
  BY <1>2 DEF PollHolds, Stored, ProviderTypeOK
<1>5. \A x \in Key : Starting(x)' <=> x # k /\ Starting(x)
  BY <1>2 DEF Starting, LetGo, Working, PollHolds, Held
<1>6. QED
  BY <1>3, <1>4, <1>5 DEF Replaced

(* A settled pod in the place of a stored one, or none, keeps the poll's    *)
(* part of the invariant.                                                   *)
LEMMA ReplacedKeeps ==
  ASSUME ProviderTypeOK, PollHolds, InHand, StoredSettled,
         NEW k \in Key, NEW p \in Pod \cup {None}, p # None => Settled(p),
         Replaced(k, p)
  PROVE  /\ pods' \in [Key -> Pod \cup {None}] /\ poll' \in PollLocals
         /\ PollHolds' /\ InHand' /\ StoredSettled'
<1>1. /\ pods' \in [Key -> Pod \cup {None}]
      /\ \A x \in Key : pods'[x] = IF x = k THEN p ELSE pods[x]
  BY DEF Replaced, ProviderTypeOK
<1>2. poll' \in PollLocals
  BY DEF Replaced, HandKept
<1>3. PollHolds' /\ InHand'
  BY InHandKept DEF Replaced
<1>4. StoredSettled'
  <2> SUFFICES ASSUME NEW x \in Key, pods'[x] # None
               PROVE  Starting(x)' \/ Settled(pods'[x])
    BY DEF StoredSettled, Stored
  <2>1. CASE x = k
    BY <1>1, <2>1
  <2>2. CASE x # k
    BY <1>1, <2>2 DEF StoredSettled, Stored, Replaced
  <2>3. QED
    BY <2>1, <2>2
<1>5. QED
  BY <1>1, <1>2, <1>3, <1>4

-----------------------------------------------------------------------------
(* The poll's own steps on the pod in its hand. *)

LEMMA WriteFacts ==
  ASSUME ProviderTypeOK, PollHolds, Working, NEW p \in Pod, NEW q \in PollLocals,
         q.orphan = poll.orphan, q.key = poll.key, q.todo = poll.todo,
         q.pc \in {"init", "start", "main"}, q.idx > 0, Write(p, q)
  PROVE  /\ pods' \in [Key -> Pod \cup {None}] /\ poll' \in PollLocals
         /\ Held' = p /\ Stored' = Stored
         /\ poll'.pc = q.pc /\ poll'.key = q.key /\ poll'.idx = q.idx
         /\ (poll'.orphan = None) = (poll.orphan = None)
         /\ \A x \in Key : pods'[x] = IF x = poll.key /\ poll.orphan = None
                                      THEN p ELSE pods[x]
         /\ PollHolds'
<1>1. /\ poll.key \in Key /\ Held # None /\ p # None
      /\ pods \in [Key -> Pod \cup {None}]
  BY NoneAssumption DEF PollHolds, ProviderTypeOK
<1>2. CASE poll.orphan = None
  <2>1. pods' = [pods EXCEPT ![poll.key] = p] /\ poll' = q
    BY <1>2 DEF Write
  <2>2. /\ pods' \in [Key -> Pod \cup {None}]
        /\ \A x \in Key : pods'[x] = IF x = poll.key THEN p ELSE pods[x]
    BY <1>1, <2>1
  <2>3. Held' = p /\ Stored' = Stored
    BY <1>1, <1>2, <2>1, <2>2 DEF Held, Stored
  <2>4. QED
    BY <1>1, <1>2, <2>1, <2>2, <2>3 DEF PollHolds, Working
<1>3. CASE poll.orphan # None
  <2>1. pods' = pods /\ poll' = [q EXCEPT !.orphan = p]
    BY <1>3 DEF Write
  <2>2. /\ poll' \in PollLocals /\ poll'.orphan = p /\ poll'.pc = q.pc
        /\ poll'.key = q.key /\ poll'.idx = q.idx /\ poll'.todo = q.todo
    BY <2>1 DEF PollLocals
  <2>3. Held' = p /\ Stored' = Stored
    BY <1>1, <2>1, <2>2 DEF Held, Stored
  <2>4. QED
    BY <1>1, <1>3, <2>1, <2>2, <2>3 DEF PollHolds, Working
<1>4. QED
  BY <1>2, <1>3

(* Writing a pod that is settled, or while it starts its main containers. *)
LEMMA WriteSettled ==
  ASSUME ProviderTypeOK, PollHolds, Working, StoredSettled,
         NEW p \in Pod, NEW q \in PollLocals,
         q.orphan = poll.orphan, q.key = poll.key, q.todo = poll.todo,
         q.pc \in {"init", "start", "main"}, q.idx > 0, Write(p, q),
         q.pc = "start" \/ (Settled(p) /\ poll.pc # "start")
  PROVE  StoredSettled'
<1> SUFFICES ASSUME NEW x \in Key, pods'[x] # None
             PROVE  Starting(x)' \/ Settled(pods'[x])
  BY DEF StoredSettled, Stored
<1>1. /\ poll'.pc = q.pc /\ poll'.key = q.key
      /\ (poll'.orphan = None) = (poll.orphan = None)
      /\ pods'[x] = IF x = poll.key /\ poll.orphan = None THEN p ELSE pods[x]
  BY WriteFacts
<1>2. CASE x = poll.key /\ poll.orphan = None
  BY <1>1, <1>2 DEF Starting
<1>3. CASE ~(x = poll.key /\ poll.orphan = None)
  <2>1. ~Starting(x) /\ pods'[x] = pods[x]
    BY <1>1, <1>3 DEF Starting
  <2>2. QED
    BY <2>1 DEF StoredSettled, Stored
<1>4. QED
  BY <1>2, <1>3

LEMMA LeaveFacts ==
  ASSUME ProviderTypeOK, PollHolds, Working, StoredSettled,
         MailSettled,
         NEW p \in Pod, NEW update \in BOOLEAN, Leave(p, update),
         IF update THEN Settled(p) ELSE poll.pc # "start"
  PROVE  /\ pods' \in [Key -> Pod \cup {None}] /\ poll' \in PollLocals
         /\ mail' \in [Key -> Pod \cup {None}]
         /\ PollHolds' /\ InHand' /\ StoredSettled'
         /\ MailSettled'
<1>1. /\ poll.key \in Key /\ p # None /\ poll.todo \subseteq Stored
      /\ pods \in [Key -> Pod \cup {None}] /\ mail \in [Key -> Pod \cup {None}]
  BY NoneAssumption DEF PollHolds, ProviderTypeOK
<1>2. CASE update
  <2>1. /\ pods' = [pods EXCEPT ![poll.key] = p]
        /\ mail' = [mail EXCEPT ![poll.key] = p]
    BY <1>2 DEF Leave
  <2>2. PICK todo \in Visits(poll.todo, poll.key) :
           poll' = [IdlePoll EXCEPT !.pc = "next", !.todo = todo]
    BY <1>2 DEF Leave
  <2>3. todo \subseteq poll.todo \cup {poll.key}
    BY <2>2 DEF Visits
  <2>4. todo \subseteq Stored' /\ Stored' \subseteq Key
    BY <1>1, <2>1, <2>3 DEF Stored
  <2>5. poll' \in PollLocals /\ poll'.pc = "next" /\ poll'.todo = todo
        /\ poll'.orphan = None
    BY <2>2, <2>4, IdleFacts
  <2>6. PollHolds' /\ InHand'
    BY <2>4, <2>5 DEF PollHolds, InHand, Working
  <2>7. StoredSettled'
    <3> SUFFICES ASSUME NEW x \in Key, pods'[x] # None PROVE Settled(pods'[x])
      BY DEF StoredSettled, Stored
    <3>1. CASE x = poll.key
      BY <1>1, <1>2, <2>1, <3>1
    <3>2. CASE x # poll.key
      BY <1>1, <2>1, <3>2 DEF StoredSettled, Stored, Starting
    <3>3. QED
      BY <3>1, <3>2
  <2>8. QED
    BY <1>1, <1>2, <2>1, <2>5, <2>6, <2>7 DEF MailSettled
<1>3. CASE ~update
  <2>1. UNCHANGED <<pods, mail>> /\ poll' = [IdlePoll EXCEPT !.pc = "next", !.todo = poll.todo]
    BY <1>3 DEF Leave
  <2>2. poll' \in PollLocals /\ poll'.pc = "next" /\ poll'.todo = poll.todo
        /\ poll'.orphan = None
    BY <1>1, <2>1, IdleFacts DEF Stored
  <2>3. PollHolds' /\ InHand'
    BY <1>1, <2>1, <2>2 DEF PollHolds, InHand, Working, Stored
  <2>4. StoredSettled'
    BY <1>3, <2>1 DEF StoredSettled, Stored, Starting
  <2>5. QED
    BY <1>1, <2>1, <2>2, <2>3, <2>4 DEF MailSettled
<1>4. QED
  BY <1>2, <1>3

-----------------------------------------------------------------------------
(* The handlers. *)

LEMMA ExecutionInv ==
  ASSUME RemoteInv, NEW mode, NEW c \in Container, NEW ok \in BOOLEAN,
         RemoteExecution(mode, c, ok)
  PROVE  RemoteInv'
<1>1. CASE UNCHANGED door
  BY <1>1, RemoteStutterInv DEF RemoteExecution, remoteVars
<1>2. CASE Launch(mode, c)
  BY <1>2, LaunchInv DEF RemoteExecution, Launch
<1>3. QED
  BY <1>1, <1>2 DEF RemoteExecution

LEMMA CallUpdate ==
  ASSUME call \in [Key -> HandlerCall], HandlersHold, NEW k \in Key,
         NEW c \in HandlerCall, CallHolds(c), call' = [call EXCEPT ![k] = c]
  PROVE  call' \in [Key -> HandlerCall] /\ HandlersHold'
<1>1. /\ call' \in [Key -> HandlerCall]
      /\ \A x \in Key : call'[x] = IF x = k THEN c ELSE call[x]
  OBVIOUS
<1>2. \A x \in Key : CallHolds(call'[x])
  BY <1>1 DEF HandlersHold
<1>3. QED
  BY <1>1, <1>2 DEF HandlersHold

LEMMA NoCallFacts == NoCall \in HandlerCall /\ CallHolds(NoCall)
BY DEF NoCall, HandlerCall, CallHolds

(* The invariant of the provider, and what it is when only call changes. *)
ProviderInv ==
  /\ ProviderTypeOK /\ PollHolds /\ HandlersHold
  /\ StoredSettled /\ MailSettled /\ InHand

LEMMA CallOnly ==
  ASSUME ProviderInv, UNCHANGED <<pods, poll, mail>>,
         call' \in [Key -> HandlerCall], HandlersHold'
  PROVE  ProviderInv'
<1>1. ProviderTypeOK'
  BY DEF ProviderInv, ProviderTypeOK
<1>2. PollHolds' /\ StoredSettled' /\ MailSettled'
  BY DEF ProviderInv, PollHolds, StoredSettled, MailSettled, Stored, Working, Held, Starting
<1>3. InHand'
  BY DEF ProviderInv, InHand, Working, Held, AllStarted
<1>4. QED
  BY <1>1, <1>2, <1>3 DEF ProviderInv

LEMMA CallFacts ==
  ASSUME ProviderInv, NEW k \in Key, call[k].op # "none"
  PROVE  /\ call[k] \in HandlerCall /\ call[k].pod \in Pod /\ call[k].idx \in Nat \ {0}
         /\ CallHolds(call[k]) /\ call \in [Key -> HandlerCall]
BY DEF ProviderInv, ProviderTypeOK, HandlerCall, HandlersHold, CallHolds

LEMMA CreatePodKeeps ==
  ASSUME ProviderInv, NEW k \in Key, NEW p \in Pod, CreatePod(k, p)
  PROVE  ProviderInv'
<1> DEFINE c == [op |-> "create", pod |-> ResetPod(p), idx |-> 1]
<1>1. c \in HandlerCall
  BY ResetFacts DEF HandlerCall
<1>2. /\ ResetPod(p) \in Pod /\ ResetPod(p).ist = <<>> /\ ResetPod(p).cst = <<>>
      /\ InitOf[ResetPod(p).uid] # <<>> => ~ResetPod(p).initialized
  BY ResetFacts
<1>3. call' = [call EXCEPT ![k] = c] /\ UNCHANGED <<pods, poll, mail>>
  BY DEF CreatePod
<1>4. c.op = "create" /\ c.pod = ResetPod(p) /\ c.idx = 1
  OBVIOUS
<1> HIDE DEF c
<1>5. CallHolds(c)
  <2>1. /\ ResetPod(p) # None /\ Len(MainOf[ResetPod(p).uid]) \in Nat
        /\ Len(ResetPod(p).cst) = 0 /\ DOMAIN ResetPod(p).cst = {}
    BY <1>2, PodFacts
  <2>2. QED
    BY <1>2, <1>4, <2>1 DEF CallHolds, AllStarted
<1>6. QED
  BY <1>1, <1>3, <1>5, CallUpdate, CallOnly DEF ProviderInv, ProviderTypeOK

LEMMA LaunchedFacts ==
  ASSUME NEW p \in Pod, NEW ok \in BOOLEAN
  PROVE  LET q == Launched(p, ok) IN
         /\ q \in Pod /\ q.uid = p.uid /\ q.ist = p.ist /\ q.initialized = p.initialized
         /\ InitOf[p.uid] = <<>> =>
              /\ Len(q.cst) = Len(p.cst) + 1
              /\ AllStarted(p) => AllStarted(q)
<1>1. CASE InitOf[p.uid] # <<>>
  BY <1>1 DEF Launched
<1>2. CASE InitOf[p.uid] = <<>>
  <2>1. PICK e \in ContainerStatus :
          /\ e.st # "waiting"
          /\ Launched(p, ok) = [p EXCEPT !.cst = Append(@, e)] \/
             Launched(p, ok) = [p EXCEPT !.cst = Append(@, e), !.phase = "Failed"]
    BY <1>2, StatusTypes DEF Launched
  <2>2. /\ Append(p.cst, e) \in Seq(ContainerStatus)
        /\ Len(Append(p.cst, e)) = Len(p.cst) + 1
        /\ (\A i \in DOMAIN p.cst : p.cst[i].st # "waiting") =>
              \A i \in DOMAIN Append(p.cst, e) : Append(p.cst, e)[i].st # "waiting"
    BY <2>1, PodFacts, AppendProperties
  <2>3. LET q == Launched(p, ok) IN
        /\ q \in Pod /\ q.uid = p.uid /\ q.ist = p.ist
        /\ q.initialized = p.initialized /\ q.cst = Append(p.cst, e)
    BY <2>1, <2>2 DEF Pod
  <2>4. QED
    BY <1>2, <2>2, <2>3 DEF AllStarted
<1>3. QED
  BY <1>1, <1>2

LEMMA CreateContainerKeeps ==
  ASSUME ProviderInv, RemoteInv, NEW k \in Key, CreateContainer(k)
  PROVE  ProviderInv' /\ RemoteInv'
<1> DEFINE p == call[k].pod
<1>1. /\ call[k].op = "create" /\ call[k].idx <= Len(CreateList(p.uid))
      /\ UNCHANGED <<pods, poll, mail>>
  BY DEF CreateContainer
<1>2. PICK ok \in BOOLEAN :
        /\ RemoteExecution("submit", CreateList(p.uid)[call[k].idx], ok)
        /\ call' = [call EXCEPT ![k] =
             [call[k] EXCEPT !.pod = Launched(p, ok), !.idx = call[k].idx + 1]]
  BY DEF CreateContainer
<1>3. /\ call[k] \in HandlerCall /\ p \in Pod /\ call[k].idx \in Nat \ {0}
      /\ CallHolds(call[k]) /\ call \in [Key -> HandlerCall]
  BY <1>1, CallFacts
<1>4. CreateList(p.uid)[call[k].idx] \in Container
  BY <1>1, <1>3, PodFacts DEF CreateList
<1>5. RemoteInv'
  BY <1>2, <1>4, ExecutionInv
<1> DEFINE c == [call[k] EXCEPT !.pod = Launched(p, ok), !.idx = call[k].idx + 1]
<1>6. /\ c \in HandlerCall /\ c.op = "create" /\ c.pod = Launched(p, ok)
      /\ c.idx = call[k].idx + 1
  <2>1. Launched(p, ok) \in Pod
    BY <1>3, LaunchedFacts
  <2>2. call[k].idx + 1 \in Nat
    BY <1>3
  <2>3. /\ c \in HandlerCall
        /\ c.op = call[k].op
        /\ c.pod = Launched(p, ok)
        /\ c.idx = call[k].idx + 1
    <3> HIDE DEF p
    <3>1. \A q \in Pod, n \in Nat : LET r == [call[k] EXCEPT !.pod = q, !.idx = n] IN
             r \in HandlerCall /\ r.op = call[k].op /\ r.pod = q /\ r.idx = n
      BY <1>3 DEF HandlerCall
    <3>2. QED
      BY <2>1, <2>2, <3>1, Zenon
  <2>4. QED
    BY <1>1, <2>3
<1>7. call' = [call EXCEPT ![k] = c]
  BY <1>2
<1> HIDE DEF c
<1>8. CallHolds(c)
  <2>1. /\ Launched(p, ok) \in Pod /\ Launched(p, ok).uid = p.uid
        /\ Launched(p, ok).ist = p.ist /\ Launched(p, ok).initialized = p.initialized
        /\ InitOf[p.uid] = <<>> =>
              /\ Len(Launched(p, ok).cst) = Len(p.cst) + 1
              /\ AllStarted(p) => AllStarted(Launched(p, ok))
    BY <1>3, LaunchedFacts
  <2>2. InitOf[p.uid] = <<>> => call[k].idx <= Len(MainOf[p.uid])
    BY <1>1 DEF CreateList
  <2>3. Launched(p, ok) # None /\ Len(MainOf[p.uid]) \in Nat /\ Len(p.cst) \in Nat
    BY <1>3, <2>1, PodFacts, LenProperties
  <2>4. QED
    <3> HIDE DEF p
    <3>1. c.pod.ist = <<>>
      BY <1>1, <1>3, <1>6, <2>1 DEF CallHolds, p
    <3>2. InitOf[c.pod.uid] # <<>> => ~c.pod.initialized
      BY <1>1, <1>3, <1>6, <2>1 DEF CallHolds, p
    <3>3. ASSUME InitOf[c.pod.uid] = <<>>
          PROVE  /\ AllStarted(c.pod)
                 /\ Len(c.pod.cst) = c.idx - 1
                 /\ c.idx <= Len(MainOf[c.pod.uid]) + 1
      <4>1. InitOf[p.uid] = <<>>
        BY <1>6, <2>1, <3>3
      <4>2. AllStarted(p) /\ Len(p.cst) = call[k].idx - 1
        BY <1>1, <1>3, <4>1 DEF CallHolds, p
      <4>3. call[k].idx <= Len(MainOf[p.uid])
        BY <2>2, <4>1
      <4>4. /\ AllStarted(c.pod) /\ Len(c.pod.cst) = Len(p.cst) + 1
            /\ c.pod.uid = p.uid
        BY <1>6, <2>1, <4>1, <4>2
      <4>5. QED
        BY <1>3, <1>6, <2>3, <4>2, <4>3, <4>4
    <3>4. QED
      BY <1>6, <2>3, <3>1, <3>2, <3>3, <1>3 DEF CallHolds
<1>9. QED
  BY <1>1, <1>3, <1>5, <1>6, <1>7, <1>8, CallUpdate, CallOnly DEF ProviderInv

LEMMA CreateStoreKeeps ==
  ASSUME ProviderInv, NEW k \in Key, CreateStore(k)
  PROVE  ProviderInv'
<1> DEFINE c == call[k].pod
           p == IF InitOf[c.uid] = <<>> THEN c
                ELSE [c EXCEPT !.cst = All(Waiting, Len(MainOf[c.uid]))]
<1>1. /\ call[k].op = "create" /\ call[k].idx > Len(CreateList(c.uid))
      /\ StoreByHandler(k, p) /\ call' = [call EXCEPT ![k] = NoCall]
  BY DEF CreateStore
<1>2. /\ c \in Pod /\ call[k].idx \in Nat \ {0}
      /\ CallHolds(call[k]) /\ call \in [Key -> HandlerCall]
  BY <1>1, CallFacts
<1>3. p \in Pod /\ Settled(p)
  <2>1. CASE InitOf[c.uid] = <<>>
    <3>1. p = c /\ c.ist = <<>> /\ AllStarted(c) /\ Len(c.cst) = call[k].idx - 1
          /\ call[k].idx <= Len(MainOf[c.uid]) + 1
      BY <1>1, <1>2, <2>1 DEF CallHolds
    <3>2. call[k].idx > Len(MainOf[c.uid]) /\ Len(MainOf[c.uid]) \in Nat
      BY <1>1, <1>2, <2>1, PodFacts DEF CreateList
    <3> HIDE DEF p
    <3>3. Len(c.cst) = Len(MainOf[c.uid]) /\ Len(c.ist) = 0
      BY <1>2, <3>1, <3>2, PodFacts, LenProperties
    <3>4. QED
      BY <1>2, <3>1, <3>3 DEF Settled
  <2>2. CASE InitOf[c.uid] # <<>>
    <3>1. /\ All(Waiting, Len(MainOf[c.uid])) \in Seq(ContainerStatus)
          /\ Len(All(Waiting, Len(MainOf[c.uid]))) = Len(MainOf[c.uid])
      BY <1>2, StatusTypes, AllFacts, PodFacts
    <3>2. p = [c EXCEPT !.cst = All(Waiting, Len(MainOf[c.uid]))]
      BY <2>2
    <3>3. c.ist = <<>> /\ ~c.initialized
      BY <1>1, <1>2, <2>2 DEF CallHolds
    <3> HIDE DEF p
    <3>4. /\ p \in Pod /\ p.uid = c.uid /\ p.ist = <<>>
          /\ ~p.initialized /\ p.cst = All(Waiting, Len(MainOf[c.uid]))
      BY <1>2, <3>1, <3>2, <3>3 DEF Pod
    <3>5. QED
      BY <3>1, <3>4 DEF Settled
  <2>3. QED
    BY <2>1, <2>2
<1> HIDE DEF p
<1>4. /\ ProviderTypeOK /\ PollHolds /\ InHand /\ StoredSettled /\ MailSettled
      /\ HandlersHold
  BY DEF ProviderInv
<1>5. Replaced(k, p)
  BY <1>1, <1>3, <1>4, StoreReplaces
<1>6. /\ pods' \in [Key -> Pod \cup {None}] /\ poll' \in PollLocals
      /\ PollHolds' /\ InHand' /\ StoredSettled'
  BY <1>3, <1>4, <1>5, ReplacedKeeps
<1>7. mail' \in [Key -> Pod \cup {None}] /\ MailSettled'
  BY <1>1, <1>3, <1>4 DEF StoreByHandler, ProviderTypeOK, MailSettled
<1>8. call' \in [Key -> HandlerCall] /\ HandlersHold'
  BY <1>1, <1>2, <1>4, NoCallFacts, CallUpdate
<1>9. QED
  BY <1>6, <1>7, <1>8 DEF ProviderInv, ProviderTypeOK

LEMMA UpdatePodKeeps ==
  ASSUME ProviderInv, NEW k \in Key, NEW p \in Pod, Settled(p), UpdatePod(k, p)
  PROVE  ProviderInv'
<1>1. /\ ProviderTypeOK /\ PollHolds /\ InHand /\ StoredSettled /\ MailSettled
      /\ HandlersHold
  BY DEF ProviderInv
<1>2. StoreByHandler(k, p) /\ UNCHANGED call
  BY DEF UpdatePod
<1>3. Replaced(k, p)
  BY <1>1, <1>2, StoreReplaces
<1>4. /\ pods' \in [Key -> Pod \cup {None}] /\ poll' \in PollLocals
      /\ PollHolds' /\ InHand' /\ StoredSettled'
  BY <1>1, <1>3, ReplacedKeeps
<1>5. mail' \in [Key -> Pod \cup {None}] /\ MailSettled'
  BY <1>1, <1>2 DEF StoreByHandler, ProviderTypeOK, MailSettled
<1>6. call' \in [Key -> HandlerCall] /\ HandlersHold'
  BY <1>1, <1>2 DEF ProviderTypeOK, HandlersHold
<1>7. QED
  BY <1>4, <1>5, <1>6 DEF ProviderInv, ProviderTypeOK

LEMMA DeletePodKeeps ==
  ASSUME ProviderInv, NEW k \in Key, NEW p \in Pod, DeletePod(k, p)
  PROVE  ProviderInv'
<1> DEFINE q == [p EXCEPT !.phase = "Succeeded", !.reason = "deleted"]
           c == [op |-> "delete", idx |-> 1, pod |-> q]
<1>1. call' = [call EXCEPT ![k] = c] /\ UNCHANGED <<pods, poll, mail>>
  BY DEF DeletePod
<1>2. q \in Pod /\ q.phase = "Succeeded"
  BY DEF Pod
<1> HIDE DEF q
<1>3. c \in HandlerCall /\ c.op = "delete" /\ c.idx = 1 /\ c.pod = q
  BY <1>2 DEF HandlerCall
<1> HIDE DEF c
<1>4. CallHolds(c)
  BY <1>2, <1>3, NoneAssumption DEF CallHolds
<1>5. QED
  BY <1>1, <1>3, <1>4, CallUpdate, CallOnly DEF ProviderInv, ProviderTypeOK

LEMMA DeleteContainerKeeps ==
  ASSUME ProviderInv, RemoteInv, NEW k \in Key, DeleteContainer(k)
  PROVE  ProviderInv' /\ RemoteInv'
<1> DEFINE u == call[k].pod.uid
<1>1. /\ call[k].op = "delete" /\ call[k].idx <= Len(DeleteList(u))
      /\ call' = [call EXCEPT ![k].idx = call[k].idx + 1]
      /\ UNCHANGED <<pods, poll, mail>>
  BY DEF DeleteContainer
<1>2. PICK ok \in BOOLEAN : RemoteExecution("stop", DeleteList(u)[call[k].idx], ok)
  BY DEF DeleteContainer
<1>3. /\ call[k] \in HandlerCall /\ call[k].pod \in Pod /\ call[k].idx \in Nat \ {0}
      /\ CallHolds(call[k]) /\ call \in [Key -> HandlerCall]
  BY <1>1, CallFacts
<1>4. DeleteList(u)[call[k].idx] \in Container
  <2>1. DeleteList(u) \in Seq(Container)
    BY <1>3, PodFacts, ConcatProperties DEF DeleteList
  <2>2. QED
    BY <1>1, <1>3, <2>1
<1>5. RemoteInv'
  BY <1>2, <1>4, ExecutionInv
<1> DEFINE c == [call[k] EXCEPT !.idx = call[k].idx + 1]
<1>6. /\ c \in HandlerCall /\ c.op = "delete" /\ c.pod = call[k].pod
      /\ c.idx = call[k].idx + 1
  BY <1>1, <1>3 DEF HandlerCall
<1>7. call' = [call EXCEPT ![k] = c]
  BY <1>1
<1> HIDE DEF c
<1>8. CallHolds(c)
  BY <1>1, <1>3, <1>6 DEF CallHolds
<1>9. QED
  BY <1>1, <1>3, <1>5, <1>6, <1>7, <1>8, CallUpdate, CallOnly DEF ProviderInv

LEMMA DeleteForgetKeeps ==
  ASSUME ProviderInv, NEW k \in Key, DeleteForget(k)
  PROVE  ProviderInv'
<1>1. /\ call[k].op = "delete"
      /\ mail' = [mail EXCEPT ![k] = DeletedPod(call[k].pod)]
      /\ pods' = [pods EXCEPT ![k] = None]
      /\ poll' = [poll EXCEPT !.todo = @ \ {k}, !.orphan = LetGo(k)]
      /\ call' = [call EXCEPT ![k] = NoCall]
  BY DEF DeleteForget
<1>2. /\ ProviderTypeOK /\ PollHolds /\ InHand /\ StoredSettled /\ MailSettled
      /\ HandlersHold
  BY DEF ProviderInv
<1>3. /\ call[k].pod \in Pod /\ CallHolds(call[k]) /\ call \in [Key -> HandlerCall]
  BY <1>1, CallFacts
<1>4. Replaced(k, None)
  BY <1>1, <1>2, ForgetReplaces
<1>5. /\ pods' \in [Key -> Pod \cup {None}] /\ poll' \in PollLocals
      /\ PollHolds' /\ InHand' /\ StoredSettled'
  BY <1>2, <1>4, ReplacedKeeps
<1>6. mail' \in [Key -> Pod \cup {None}] /\ MailSettled'
  <2>1. DeletedPod(call[k].pod) \in Pod /\ Settled(DeletedPod(call[k].pod))
    BY <1>1, <1>3, DeletedFacts DEF CallHolds, Settled
  <2>2. QED
    BY <1>1, <1>2, <2>1 DEF ProviderTypeOK, MailSettled
<1>7. call' \in [Key -> HandlerCall] /\ HandlersHold'
  BY <1>1, <1>2, <1>3, NoCallFacts, CallUpdate
<1>8. QED
  BY <1>5, <1>6, <1>7 DEF ProviderInv, ProviderTypeOK

LEMMA HandlerKeeps ==
  ASSUME ProviderInv, RemoteInv, NEW k \in Key, HandlerStep(k)
  PROVE  ProviderInv' /\ RemoteInv'
<1>1. CASE CreateContainer(k)
  BY <1>1, CreateContainerKeeps
<1>2. CASE CreateStore(k)
  BY <1>2, CreateStoreKeeps, RemoteStutterInv DEF CreateStore
<1>3. CASE DeleteContainer(k)
  BY <1>3, DeleteContainerKeeps
<1>4. CASE DeleteForget(k)
  BY <1>4, DeleteForgetKeeps, RemoteStutterInv DEF DeleteForget
<1>5. QED
  BY <1>1, <1>2, <1>3, <1>4 DEF HandlerStep

-----------------------------------------------------------------------------
(* The poll. *)

LEMMA StatusUpdate ==
  ASSUME NEW s \in Seq(ContainerStatus), NEW i \in Nat \ {0}, i <= Len(s),
         NEW e \in ContainerStatus
  PROVE  LET t == [s EXCEPT ![i] = e] IN
         /\ t \in Seq(ContainerStatus) /\ Len(t) = Len(s) /\ DOMAIN t = DOMAIN s
         /\ \A j \in DOMAIN s : t[j] = IF j = i THEN e ELSE s[j]
<1>1. i \in DOMAIN s
  OBVIOUS
<1>2. QED
  BY <1>1, SeqUpdate

(* What the poll knows of the pod in its hand. *)
LEMMA HandFacts ==
  ASSUME ProviderInv, Working
  PROVE  /\ Held \in Pod /\ Held.uid \in Uid /\ poll \in PollLocals
         /\ poll.key \in Key /\ poll.idx \in Nat \ {0}
         /\ poll.dirty \in BOOLEAN
         /\ Held.ist \in Seq(ContainerStatus) /\ Held.cst \in Seq(ContainerStatus)
         /\ InitOf[Held.uid] \in Seq(Container) /\ MainOf[Held.uid] \in Seq(Container)
         /\ Len(Held.cst) = Len(MainOf[Held.uid])
         /\ InHand
<1>1. Held \in Pod /\ poll \in PollLocals /\ poll.key \in Key /\ poll.idx > 0 /\ InHand
  BY TypeFacts DEF ProviderInv, PollHolds
<1>2. poll.idx \in Nat \ {0} /\ poll.dirty \in BOOLEAN
  BY <1>1 DEF PollLocals
<1>3. Len(Held.cst) = Len(MainOf[Held.uid])
  BY <1>1 DEF InHand
<1>4. QED
  BY <1>1, <1>2, <1>3, PodFacts

(* The poll goes on to the next container, with or without a verdict. *)
NextOne(q) ==
  /\ q \in PollLocals /\ q.pc = poll.pc /\ q.key = poll.key /\ q.todo = poll.todo
  /\ q.orphan = poll.orphan /\ q.idx = poll.idx + 1

LEMMA NextOneFacts ==
  ASSUME poll \in PollLocals
  PROVE  /\ NextOne(NotYet)
         /\ \A good, wrote \in BOOLEAN : NextOne(Counted(good, wrote))
<1>1. NextOne(NotYet)
  BY DEF NextOne, NotYet, PollLocals
<1>2. ASSUME NEW good \in BOOLEAN, NEW wrote \in BOOLEAN
      PROVE  NextOne(Counted(good, wrote))
  <2> DEFINE g == IF good THEN poll.good + 1 ELSE poll.good
             d == poll.dirty \/ wrote
             n == poll.idx + 1
             l == poll.left - 1
  <2>1. g \in Nat /\ n \in Nat /\ l \in Int
    BY DEF PollLocals
  <2>2. d \in BOOLEAN
    OBVIOUS
  <2>3. Counted(good, wrote) =
          [poll EXCEPT !.idx = n, !.left = l, !.good = g, !.dirty = d]
    BY Zenon DEF Counted
  <2>4. n = poll.idx + 1
    OBVIOUS
  <2> HIDE DEF g, d, n, l
  <2>5. QED
    BY <2>1, <2>2, <2>3, <2>4 DEF NextOne, PollLocals
<1>3. QED
  BY <1>1, <1>2

LEMMA PollOnly ==
  ASSUME ProviderInv, UNCHANGED call, poll' \in PollLocals,
         pods' \in [Key -> Pod \cup {None}], mail' \in [Key -> Pod \cup {None}],
         PollHolds', InHand', StoredSettled', MailSettled'
  PROVE  ProviderInv'
BY DEF ProviderInv, ProviderTypeOK, HandlersHold

LEMMA SkipContainer ==
  ASSUME ProviderInv, poll.pc \in {"init", "main"}, NextOne(poll'),
         UNCHANGED <<pods, call, mail>>
  PROVE  ProviderInv'
<1>1. /\ Working /\ Working' /\ Held' = Held /\ Stored' = Stored
      /\ poll'.pc = poll.pc
  BY DEF NextOne, Working, Held, Stored
<1>2. PollHolds'
  BY <1>1, HandFacts DEF ProviderInv, PollHolds, NextOne
<1>3. InHand'
  BY <1>1 DEF ProviderInv, InHand, AllStarted
<1>4. StoredSettled' /\ MailSettled'
  BY <1>1 DEF ProviderInv, StoredSettled, MailSettled, Starting
<1>5. QED
  BY <1>2, <1>3, <1>4, PollOnly DEF ProviderInv, ProviderTypeOK, NextOne

(* The poll writes the end of a container into the pod. *)
LEMMA WriteContainer ==
  ASSUME ProviderInv, poll.pc \in {"init", "main"}, NEW q, NextOne(q),
         NEW p \in Pod, p.uid = Held.uid, p.phase = Held.phase,
         p.initialized = Held.initialized,
         Len(p.cst) = Len(Held.cst), Len(p.ist) = Len(Held.ist),
         AllStarted(Held) => AllStarted(p),
         Write(p, q), UNCHANGED <<call, mail>>
  PROVE  ProviderInv'
<1>1. /\ Working /\ ProviderTypeOK /\ PollHolds /\ StoredSettled /\ MailSettled
      /\ InHand
  BY DEF Working, ProviderInv
<1>2. q \in PollLocals /\ q.idx > 0 /\ q.pc = poll.pc /\ q.pc \in {"init", "start", "main"}
      /\ q.orphan = poll.orphan /\ q.key = poll.key /\ q.todo = poll.todo
  BY <1>1, HandFacts DEF NextOne
<1>3. /\ pods' \in [Key -> Pod \cup {None}] /\ poll' \in PollLocals
      /\ Held' = p /\ poll'.pc = poll.pc /\ PollHolds'
  BY <1>1, <1>2, WriteFacts
<1>4. Settled(p)
  BY <1>1 DEF InHand, Settled
<1>5. StoredSettled'
  BY <1>1, <1>2, <1>4, WriteSettled
<1>6. InHand'
  BY <1>1, <1>3 DEF InHand, Working
<1>7. mail' \in [Key -> Pod \cup {None}] /\ MailSettled'
  BY <1>1 DEF ProviderTypeOK, MailSettled
<1>8. QED
  BY <1>3, <1>5, <1>6, <1>7, PollOnly

LEMMA InitContainerKeeps ==
  ASSUME ProviderInv, RemoteTypeOK, PollInitContainer
  PROVE  ProviderInv'
<1> DEFINE e == InitOf[Held.uid][poll.idx]
<1>1. /\ Working /\ poll.pc = "init" /\ poll.idx <= Len(InitOf[Held.uid])
      /\ UNCHANGED <<call, mail>>
  BY DEF PollInitContainer, Working
<1>2. /\ Held \in Pod /\ poll \in PollLocals /\ poll.idx \in Nat \ {0}
      /\ InitOf[Held.uid] \in Seq(Container) /\ Held.ist \in Seq(ContainerStatus)
      /\ Len(Held.ist) = Len(InitOf[Held.uid])
  BY <1>1, HandFacts DEF InHand
<1>3. StatusReads(e) \subseteq Code \cup {None}
  BY <1>1, <1>2, RemoteAssumption DEF StatusReads, RemoteTypeOK
<1>4. CASE UNCHANGED pods /\ NextOne(poll')
  BY <1>1, <1>4, SkipContainer
<1>5. ASSUME NEW c \in Code,
             Write([Held EXCEPT !.ist[poll.idx] = Exited(c)], Counted(c = 0, TRUE))
      PROVE  ProviderInv'
  <2> DEFINE t == [Held.ist EXCEPT ![poll.idx] = Exited(c)]
             p == [Held EXCEPT !.ist = t]
  <2>1. t \in Seq(ContainerStatus) /\ Len(t) = Len(Held.ist)
    BY <1>1, <1>2, StatusTypes, StatusUpdate
  <2>2. Write(p, Counted(c = 0, TRUE))
    BY <1>5
  <2> HIDE DEF t
  <2>3. /\ p \in Pod /\ p.uid = Held.uid /\ p.phase = Held.phase
        /\ p.initialized = Held.initialized /\ p.cst = Held.cst /\ p.ist = t
    BY <1>2, <2>1 DEF Pod
  <2> HIDE DEF p
  <2>4. NextOne(Counted(c = 0, TRUE))
    BY <1>2, NextOneFacts
  <2>5. AllStarted(Held) => AllStarted(p)
    BY <2>3 DEF AllStarted
  <2>6. QED
    BY <1>1, <2>1, <2>2, <2>3, <2>4, <2>5, WriteContainer
<1>6. QED
  BY <1>2, <1>3, <1>4, <1>5, NextOneFacts DEF PollInitContainer

LEMMA MainContainerKeeps ==
  ASSUME ProviderInv, RemoteTypeOK, PollMainContainer
  PROVE  ProviderInv'
<1> DEFINE e == MainOf[Held.uid][poll.idx]
<1>1. /\ Working /\ poll.pc = "main" /\ poll.idx <= Len(MainOf[Held.uid])
      /\ UNCHANGED <<call, mail>>
  BY DEF PollMainContainer, Working
<1>2. /\ Held \in Pod /\ poll \in PollLocals /\ poll.idx \in Nat \ {0}
      /\ MainOf[Held.uid] \in Seq(Container) /\ Held.cst \in Seq(ContainerStatus)
      /\ Len(Held.cst) = Len(MainOf[Held.uid])
  BY <1>1, HandFacts
<1>3. StatusReads(e) \subseteq Code \cup {None}
  BY <1>1, <1>2, RemoteAssumption DEF StatusReads, RemoteTypeOK
<1>4. CASE UNCHANGED pods /\ NextOne(poll')
  BY <1>1, <1>4, SkipContainer
<1>5. ASSUME NEW c \in Code,
             Write([Held EXCEPT !.cst[poll.idx] = Exited(c)], Counted(c = 0, TRUE))
      PROVE  ProviderInv'
  <2> DEFINE t == [Held.cst EXCEPT ![poll.idx] = Exited(c)]
             p == [Held EXCEPT !.cst = t]
  <2>1. /\ t \in Seq(ContainerStatus) /\ Len(t) = Len(Held.cst)
        /\ DOMAIN t = DOMAIN Held.cst
        /\ \A j \in DOMAIN t : t[j] = IF j = poll.idx THEN Exited(c) ELSE Held.cst[j]
    BY <1>1, <1>2, StatusTypes, StatusUpdate
  <2>2. Write(p, Counted(c = 0, TRUE))
    BY <1>5
  <2> HIDE DEF t
  <2>3. /\ p \in Pod /\ p.uid = Held.uid /\ p.phase = Held.phase
        /\ p.initialized = Held.initialized /\ p.cst = t /\ p.ist = Held.ist
    BY <1>2, <2>1 DEF Pod
  <2> HIDE DEF p
  <2>4. NextOne(Counted(c = 0, TRUE))
    BY <1>2, NextOneFacts
  <2>5. AllStarted(Held) => AllStarted(p)
    BY <2>1, <2>3, StatusTypes DEF AllStarted
  <2>6. QED
    BY <1>1, <2>1, <2>2, <2>3, <2>4, <2>5, WriteContainer
<1>6. QED
  BY <1>2, <1>3, <1>4, <1>5, NextOneFacts DEF PollMainContainer

(* The poll leaves a pod. *)
LEMMA LeaveKeeps ==
  ASSUME ProviderInv, Working, NEW p \in Pod, NEW update \in BOOLEAN,
         Leave(p, update), UNCHANGED call,
         IF update THEN Settled(p) ELSE poll.pc # "start"
  PROVE  ProviderInv'
<1>1. /\ ProviderTypeOK /\ PollHolds /\ StoredSettled /\ MailSettled
  BY DEF ProviderInv
<1>2. /\ pods' \in [Key -> Pod \cup {None}] /\ poll' \in PollLocals
      /\ mail' \in [Key -> Pod \cup {None}]
      /\ PollHolds' /\ InHand' /\ StoredSettled' /\ MailSettled'
  BY <1>1, LeaveFacts
<1>3. QED
  BY <1>2, PollOnly

LEMMA InitDoneKeeps ==
  ASSUME ProviderInv, PollInitDone
  PROVE  ProviderInv'
<1>1. Working /\ poll.pc = "init" /\ UNCHANGED call
  BY DEF PollInitDone, Working
<1>2. /\ Held \in Pod /\ poll \in PollLocals /\ poll.dirty \in BOOLEAN
      /\ Held.phase = "Running" /\ ~Held.initialized
      /\ Len(Held.ist) = Len(InitOf[Held.uid]) /\ Len(Held.cst) = Len(MainOf[Held.uid])
  BY <1>1, HandFacts DEF InHand
<1>3. CASE /\ Write([Held EXCEPT !.initialized = TRUE, !.ready = TRUE],
                    [poll EXCEPT !.pc = "start", !.idx = 1])
           /\ UNCHANGED mail
  <2> DEFINE p == [Held EXCEPT !.initialized = TRUE, !.ready = TRUE]
             q == [poll EXCEPT !.pc = "start", !.idx = 1]
  <2>1. p \in Pod /\ p.uid = Held.uid /\ p.ist = Held.ist /\ p.cst = Held.cst
    BY <1>2 DEF Pod
  <2>2. /\ q \in PollLocals /\ q.pc = "start" /\ q.idx = 1 /\ q.key = poll.key
        /\ q.todo = poll.todo /\ q.orphan = poll.orphan
    BY <1>2 DEF PollLocals
  <2>3. Write(p, q)
    BY <1>3
  <2> HIDE DEF p, q
  <2>4. ProviderTypeOK /\ PollHolds /\ StoredSettled /\ MailSettled
    BY DEF ProviderInv
  <2>5. /\ pods' \in [Key -> Pod \cup {None}] /\ poll' \in PollLocals
        /\ Held' = p /\ poll'.pc = "start" /\ poll'.idx = 1 /\ PollHolds'
    BY <1>1, <2>1, <2>2, <2>3, <2>4, WriteFacts
  <2>6. StoredSettled'
    BY <1>1, <2>1, <2>2, <2>3, <2>4, WriteSettled
  <2>7. InHand'
    <3>1. \A i \in DOMAIN p.cst : i >= 1
      BY <1>2, <2>1 DEF Pod
    <3>2. QED
      BY <1>2, <2>1, <2>5, <3>1 DEF InHand
  <2>8. mail' \in [Key -> Pod \cup {None}] /\ MailSettled'
    BY <1>3, <2>4 DEF ProviderTypeOK, MailSettled
  <2>9. QED
    BY <1>1, <2>5, <2>6, <2>7, <2>8, PollOnly
<1>4. CASE Leave([Held EXCEPT !.phase = "Failed"], TRUE)
  <2> DEFINE p == [Held EXCEPT !.phase = "Failed"]
  <2>1. p \in Pod /\ p.phase = "Failed"
    BY <1>2 DEF Pod
  <2>2. Leave(p, TRUE)
    BY <1>4
  <2> HIDE DEF p
  <2>3. Settled(p)
    BY <2>1 DEF Settled
  <2>4. QED
    BY <1>1, <2>1, <2>2, <2>3, LeaveKeeps
<1>5. CASE Leave(Held, poll.dirty)
  <2>1. Settled(Held)
    BY <1>2 DEF Settled
  <2>2. QED
    BY <1>1, <1>2, <1>5, <2>1, LeaveKeeps
<1>6. QED
  BY <1>3, <1>4, <1>5 DEF PollInitDone

LEMMA StartContainerKeeps ==
  ASSUME ProviderInv, RemoteInv, startMainContainers
  PROVE  ProviderInv' /\ RemoteInv'
<1>1. /\ Working /\ poll.pc = "start" /\ poll.idx <= Len(MainOf[Held.uid])
      /\ UNCHANGED <<call, mail>>
  BY DEF startMainContainers, Working
<1>2. /\ Held \in Pod /\ poll \in PollLocals /\ poll.idx \in Nat \ {0}
      /\ MainOf[Held.uid] \in Seq(Container) /\ Held.cst \in Seq(ContainerStatus)
      /\ Len(Held.cst) = Len(MainOf[Held.uid])
      /\ Len(Held.ist) = Len(InitOf[Held.uid])
      /\ \A i \in DOMAIN Held.cst : i < poll.idx => Held.cst[i].st # "waiting"
  BY <1>1, HandFacts DEF InHand
<1>3. PICK ok \in BOOLEAN :
        /\ RemoteExecution("submit", MainOf[Held.uid][poll.idx], ok)
        /\ Write(IF ok THEN [Held EXCEPT !.cst[poll.idx] = Running]
                 ELSE [Held EXCEPT !.cst[poll.idx] = Unreachable, !.phase = "Failed"],
                 NotYet)
  BY DEF startMainContainers
<1>4. RemoteInv'
  <2>1. MainOf[Held.uid][poll.idx] \in Container
    BY <1>1, <1>2
  <2>2. QED
    BY <1>3, <2>1, ExecutionInv
<1>5. PICK p \in Pod :
        /\ Write(p, NotYet) /\ p.uid = Held.uid /\ p.ist = Held.ist
        /\ Len(p.cst) = Len(Held.cst)
        /\ \A i \in DOMAIN p.cst : i < poll.idx + 1 => p.cst[i].st # "waiting"
  <2> DEFINE e == IF ok THEN Running ELSE Unreachable
             t == [Held.cst EXCEPT ![poll.idx] = e]
  <2>1. e \in ContainerStatus /\ e.st # "waiting"
    BY StatusTypes
  <2> HIDE DEF e
  <2>2. /\ t \in Seq(ContainerStatus) /\ Len(t) = Len(Held.cst)
        /\ DOMAIN t = DOMAIN Held.cst
        /\ \A j \in DOMAIN Held.cst : t[j] = IF j = poll.idx THEN e ELSE Held.cst[j]
    BY <1>1, <1>2, <2>1, StatusUpdate
  <2>3. \A i \in DOMAIN t : i < poll.idx + 1 => t[i].st # "waiting"
    BY <1>2, <2>1, <2>2
  <2>4. \/ Write([Held EXCEPT !.cst = t], NotYet)
        \/ Write([Held EXCEPT !.cst = t, !.phase = "Failed"], NotYet)
    BY <1>3 DEF e
  <2> HIDE DEF t
  <2> DEFINE q == [Held EXCEPT !.cst = t]
             r == [Held EXCEPT !.cst = t, !.phase = "Failed"]
  <2>5. q \in Pod /\ q.uid = Held.uid /\ q.ist = Held.ist /\ q.cst = t
    BY <1>2, <2>2 DEF Pod
  <2>6. r \in Pod /\ r.uid = Held.uid /\ r.ist = Held.ist /\ r.cst = t
    BY <1>2, <2>2 DEF Pod
  <2>7. Write(q, NotYet) \/ Write(r, NotYet)
    BY <2>4
  <2> HIDE DEF q, r
  <2>8. QED
    BY <2>2, <2>3, <2>5, <2>6, <2>7
<1>6. NextOne(NotYet)
  BY <1>2, NextOneFacts
<1>7. /\ ProviderTypeOK /\ PollHolds /\ StoredSettled /\ MailSettled
  BY DEF ProviderInv
<1>8. /\ NotYet \in PollLocals /\ NotYet.idx = poll.idx + 1 /\ NotYet.idx > 0
      /\ NotYet.pc = "start" /\ NotYet.orphan = poll.orphan
      /\ NotYet.key = poll.key /\ NotYet.todo = poll.todo
  BY <1>1, <1>2, <1>6 DEF NextOne
<1>9. /\ pods' \in [Key -> Pod \cup {None}] /\ poll' \in PollLocals
      /\ Held' = p /\ poll'.pc = "start" /\ poll'.idx = poll.idx + 1 /\ PollHolds'
  BY <1>1, <1>5, <1>7, <1>8, WriteFacts
<1>10. StoredSettled'
  BY <1>1, <1>5, <1>7, <1>8, WriteSettled
<1>11. InHand'
  BY <1>2, <1>5, <1>9 DEF InHand
<1>12. mail' \in [Key -> Pod \cup {None}] /\ MailSettled'
  BY <1>1, <1>7 DEF ProviderTypeOK, MailSettled
<1>13. QED
  BY <1>1, <1>4, <1>9, <1>10, <1>11, <1>12, PollOnly

LEMMA StartedKeeps ==
  ASSUME ProviderInv, PollStarted
  PROVE  ProviderInv'
<1>1. /\ Working /\ poll.pc = "start" /\ poll.idx > Len(MainOf[Held.uid])
      /\ Leave(Held, TRUE) /\ UNCHANGED call
  BY DEF PollStarted, Working
<1>2. /\ Held \in Pod /\ poll.idx \in Nat \ {0} /\ Held.cst \in Seq(ContainerStatus)
      /\ Len(Held.cst) = Len(MainOf[Held.uid])
      /\ Len(Held.ist) = Len(InitOf[Held.uid])
      /\ \A i \in DOMAIN Held.cst : i < poll.idx => Held.cst[i].st # "waiting"
  BY <1>1, HandFacts DEF InHand
<1>3. AllStarted(Held)
  BY <1>1, <1>2 DEF AllStarted
<1>4. Settled(Held)
  BY <1>2, <1>3 DEF Settled
<1>5. QED
  BY <1>1, <1>2, <1>4, LeaveKeeps

LEMMA MainDoneKeeps ==
  ASSUME ProviderInv, PollMainDone
  PROVE  ProviderInv'
<1>1. Working /\ poll.pc = "main" /\ UNCHANGED call
  BY DEF PollMainDone, Working
<1>2. /\ Held \in Pod /\ poll.dirty \in BOOLEAN
      /\ Len(Held.cst) = Len(MainOf[Held.uid])
      /\ AllStarted(Held) /\ Len(Held.ist) \in {0, Len(InitOf[Held.uid])}
  BY <1>1, HandFacts DEF InHand
<1>3. ASSUME NEW v \in {"Succeeded", "Failed"},
             Leave([Held EXCEPT !.ready = FALSE, !.phase = v], TRUE)
      PROVE  ProviderInv'
  <2> DEFINE p == [Held EXCEPT !.ready = FALSE, !.phase = v]
  <2>1. p \in Pod /\ p.phase = v
    BY <1>2 DEF Pod
  <2>2. Leave(p, TRUE)
    BY <1>3
  <2> HIDE DEF p
  <2>3. Settled(p)
    BY <2>1 DEF Settled
  <2>4. QED
    BY <1>1, <2>1, <2>2, <2>3, LeaveKeeps
<1>4. CASE Leave(Held, poll.dirty)
  <2>1. Settled(Held)
    BY <1>2 DEF Settled
  <2>2. QED
    BY <1>1, <1>2, <1>4, <2>1, LeaveKeeps
<1>5. QED
  BY <1>3, <1>4 DEF PollMainDone

(* Between two pods. *)
LEMMA BetweenKeeps ==
  ASSUME ProviderInv, ~Working, poll' \in PollLocals, poll'.orphan = None,
         poll'.pc \in {"idle", "next"}, poll'.todo \subseteq Stored,
         UNCHANGED <<pods, call, mail>>
  PROVE  ProviderInv'
<1>1. PollHolds' /\ InHand'
  BY DEF PollHolds, InHand, Working, Stored
<1>2. StoredSettled' /\ MailSettled'
  BY DEF ProviderInv, StoredSettled, MailSettled, Stored, Starting, Working
<1>3. QED
  BY <1>1, <1>2, PollOnly DEF ProviderInv, ProviderTypeOK

LEMMA BeginEndSkipKeep ==
  ASSUME ProviderInv, PollBegin \/ PollEnd \/ \E k \in Key : PollSkip(k)
  PROVE  ProviderInv'
<1>1. /\ ~Working /\ poll \in PollLocals /\ poll.orphan = None
      /\ poll.todo \subseteq Stored /\ Stored \subseteq Key
      /\ UNCHANGED <<pods, call, mail>>
  BY DEF ProviderInv, ProviderTypeOK, PollHolds, Working, Stored,
         PollBegin, PollEnd, PollSkip
<1>2. CASE PollBegin
  BY <1>1, <1>2, BetweenKeeps DEF PollBegin, PollLocals
<1>3. CASE PollEnd
  BY <1>1, <1>3, BetweenKeeps, IdleFacts DEF PollEnd
<1>4. ASSUME NEW k \in Key, PollSkip(k) PROVE ProviderInv'
  BY <1>1, <1>4, BetweenKeeps DEF PollSkip, PollLocals
<1>5. QED
  BY <1>2, <1>3, <1>4

LEMMA FirstPassKeeps ==
  ASSUME ProviderInv, NEW k \in Key, PollFirstPass(k)
  PROVE  ProviderInv'
<1> DEFINE u == pods[k].uid
           p == [pods[k] EXCEPT !.ist = All(Running, Len(InitOf[u]))]
<1>1. /\ poll.pc = "next" /\ k \in poll.todo /\ ~pods[k].initialized
      /\ pods[k].phase = "Running"
      /\ pods' = [pods EXCEPT ![k] = p]
      /\ poll' = [poll EXCEPT !.todo = @ \ {k}]
      /\ UNCHANGED <<call, mail>>
  BY DEF PollFirstPass
<1>2. /\ ~Working /\ poll \in PollLocals /\ poll.orphan = None
      /\ poll.todo \subseteq Stored /\ pods \in [Key -> Pod \cup {None}]
      /\ pods[k] \in Pod /\ Settled(pods[k])
  BY <1>1, TypeFacts
     DEF ProviderInv, ProviderTypeOK, PollHolds, Working, StoredSettled, Starting
<1>3. /\ All(Running, Len(InitOf[u])) \in Seq(ContainerStatus)
      /\ Len(All(Running, Len(InitOf[u]))) = Len(InitOf[u])
  BY <1>2, StatusTypes, AllFacts, PodFacts
<1>4. /\ p \in Pod /\ p.uid = u /\ p.ist = All(Running, Len(InitOf[u]))
      /\ p.cst = pods[k].cst /\ ~p.initialized /\ p # None
  BY <1>1, <1>2, <1>3, NoneAssumption DEF Pod
<1> HIDE DEF p
<1>5. Settled(p)
  BY <1>1, <1>2, <1>3, <1>4 DEF Settled
<1>6. /\ pods' \in [Key -> Pod \cup {None}]
      /\ \A x \in Key : pods'[x] = IF x = k THEN p ELSE pods[x]
  BY <1>1, <1>2, <1>4
<1>7. /\ poll' \in PollLocals /\ poll'.pc = "next" /\ poll'.orphan = None
      /\ poll'.todo \subseteq poll.todo
  BY <1>1, <1>2 DEF PollLocals
<1>8. Stored' = Stored
  BY <1>1, <1>2, <1>4, <1>6 DEF Stored
<1>9. PollHolds' /\ InHand'
  BY <1>2, <1>7, <1>8 DEF PollHolds, InHand, Working
<1>10. StoredSettled'
  <2> SUFFICES ASSUME NEW x \in Key, pods'[x] # None PROVE Settled(pods'[x])
    BY DEF StoredSettled, Stored
  <2>1. CASE x = k
    BY <1>5, <1>6, <2>1
  <2>2. CASE x # k
    BY <1>1, <1>6, <2>2 DEF ProviderInv, StoredSettled, Stored, Starting
  <2>3. QED
    BY <2>1, <2>2
<1>11. mail' \in [Key -> Pod \cup {None}] /\ MailSettled'
  BY <1>1 DEF ProviderInv, ProviderTypeOK, MailSettled
<1>12. QED
  BY <1>1, <1>6, <1>7, <1>9, <1>10, <1>11, PollOnly

LEMMA PickKeeps ==
  ASSUME ProviderInv, NEW k \in Key, PollPick(k)
  PROVE  ProviderInv'
<1>1. /\ poll.pc = "next" /\ k \in poll.todo /\ pods[k].phase = "Running"
      /\ UNCHANGED <<pods, call, mail>>
  BY DEF PollPick
<1>2. /\ poll \in PollLocals /\ poll.orphan = None
      /\ poll.todo \subseteq Stored /\ k \in Stored
      /\ pods[k] \in Pod /\ Settled(pods[k])
  BY <1>1, TypeFacts
     DEF ProviderInv, ProviderTypeOK, PollHolds, Working, StoredSettled, Starting
<1>3. PICK pc \in {"init", "main"}, n \in Nat :
        /\ poll' = [poll EXCEPT !.pc = pc, !.todo = @ \ {k}, !.key = k,
                                !.idx = 1, !.left = n]
        /\ pc = "init" => ~pods[k].initialized /\ Len(pods[k].ist) >= Len(InitOf[pods[k].uid])
        /\ pc = "main" => pods[k].initialized
  BY <1>2, PodFacts DEF PollPick
<1>4. /\ poll' \in PollLocals /\ poll'.pc = pc /\ poll'.key = k /\ poll'.idx = 1
      /\ poll'.orphan = None /\ poll'.todo \subseteq poll.todo
  <2> DEFINE todo == poll.todo \ {k}
  <2>1. todo \in SUBSET Key /\ todo \subseteq poll.todo /\ n \in Int
    BY <1>2 DEF PollLocals
  <2>2. poll' = [poll EXCEPT !.pc = pc, !.todo = todo, !.key = k, !.idx = 1, !.left = n]
    BY <1>3
  <2>3. pc \in {"idle", "next", "init", "start", "main"}
    OBVIOUS
  <2> HIDE DEF todo
  <2>4. QED
    BY <1>2, <2>1, <2>2, <2>3 DEF PollLocals
<1>5. Held' = pods[k] /\ Stored' = Stored /\ pods[k] # None
  BY <1>1, <1>2, <1>4 DEF Held, Stored
<1>6. PollHolds'
  BY <1>2, <1>4, <1>5 DEF PollHolds, Working
<1>7. InHand'
  <2>1. /\ Len(InitOf[pods[k].uid]) \in Nat /\ Len(pods[k].ist) \in Nat
    BY <1>2, PodFacts, LenProperties
  <2>2. pc = "init" => Len(pods[k].ist) = Len(InitOf[pods[k].uid])
    BY <1>1, <1>2, <1>3, <2>1 DEF Settled
  <2>3. QED
    BY <1>1, <1>2, <1>3, <1>4, <1>5, <2>2 DEF InHand, Settled
<1>8. StoredSettled' /\ MailSettled'
  BY <1>1, <1>4, <1>5 DEF ProviderInv, StoredSettled, MailSettled, Starting
<1>9. QED
  BY <1>1, <1>4, <1>6, <1>7, <1>8, PollOnly DEF ProviderInv, ProviderTypeOK

LEMMA PollKeeps ==
  ASSUME ProviderInv, RemoteInv, PollStep
  PROVE  ProviderInv' /\ RemoteInv'
<1>1. CASE startMainContainers
  BY <1>1, StartContainerKeeps
<1>2. CASE UNCHANGED remoteVars /\ ~startMainContainers
  <2>1. RemoteInv' /\ RemoteTypeOK
    BY <1>2, RemoteStutterInv DEF RemoteInv
  <2>2. ProviderInv'
    BY <1>2, <2>1, BeginEndSkipKeep, FirstPassKeeps, PickKeeps, InitContainerKeeps,
       InitDoneKeeps, StartedKeeps, MainContainerKeeps, MainDoneKeeps DEF PollStep
  <2>3. QED
    BY <2>1, <2>2
<1>3. PollStep => startMainContainers \/ UNCHANGED remoteVars
  BY DEF PollStep, PollBegin, PollEnd, PollSkip, PollFirstPass, PollPick,
     PollInitContainer, PollInitDone, PollStarted, PollMainContainer, PollMainDone
<1>4. QED
  BY <1>1, <1>2, <1>3

-----------------------------------------------------------------------------
(* The API server, its users and the controller; crashes. *)

ControlInv ==
  /\ api \in [Uid -> ApiObject]
  /\ edits \in 0..MaxEdit
  /\ crashes \in 0..MaxCrash
  /\ ApiSettled

LEMMA SafeInvSplits == SafeInv <=> RemoteInv /\ ProviderInv /\ ControlInv
BY DEF SafeInv, TypeOK, ProviderInv, ControlInv, RemoteInv

LEMMA SafeInvJoins == RemoteInv' /\ ProviderInv' /\ ControlInv' => SafeInv'
BY DEF SafeInv, TypeOK, ProviderInv, ControlInv, RemoteInv

LEMMA FreshPodFacts ==
  ASSUME NEW u \in Uid
  PROVE  FreshPod(u) \in Pod /\ Settled(FreshPod(u))
BY EmptySeq DEF FreshPod, Pod, Settled

LEMMA IdleProvider ==
  ASSUME ProviderInit
  PROVE  ProviderInv
<1>1. /\ pods = [k \in Key |-> None] /\ poll = IdlePoll
      /\ call = [k \in Key |-> NoCall] /\ mail = [k \in Key |-> None]
  BY DEF ProviderInit
<1>2. ProviderTypeOK
  BY <1>1, IdleFacts, NoCallFacts DEF ProviderTypeOK
<1>3. Stored = {} /\ ~Working /\ poll.pc = "idle"
  BY <1>1, IdleFacts DEF Stored, Working
<1>4. PollHolds /\ InHand
  BY <1>1, <1>3, IdleFacts DEF PollHolds, InHand
<1>5. HandlersHold
  BY <1>1, NoCallFacts DEF HandlersHold
<1>6. StoredSettled /\ MailSettled
  BY <1>1, <1>3 DEF StoredSettled, MailSettled
<1>7. QED
  BY <1>2, <1>4, <1>5, <1>6 DEF ProviderInv

LEMMA InitSafe == Init => SafeInv
<1> SUFFICES ASSUME Init PROVE SafeInv
  OBVIOUS
<1>1. RemoteInv
  BY RemoteInitInv DEF Init
<1>2. ProviderInv
  BY IdleProvider DEF Init
<1>3. api \in [Uid -> ApiObject] /\ \A u \in Uid : api[u].pod = FreshPod(u)
  BY FreshPodFacts DEF Init, ApiObject
<1>4. ControlInv
  BY <1>3, FreshPodFacts, BoundsAssumption DEF Init, ControlInv, ApiSettled
<1>5. QED
  BY <1>1, <1>2, <1>4, SafeInvSplits

LEMMA ControlStutters ==
  ASSUME ControlInv, ControlUnchanged
  PROVE  ControlInv'
BY DEF ControlInv, ControlUnchanged, ApiSettled

LEMMA ProviderStutters ==
  ASSUME ProviderInv, UNCHANGED providerVars
  PROVE  ProviderInv'
<1>1. UNCHANGED <<pods, poll, mail>> /\ call' = call
  BY DEF providerVars
<1>2. call' \in [Key -> HandlerCall] /\ HandlersHold'
  BY <1>1 DEF ProviderInv, ProviderTypeOK, HandlersHold
<1>3. QED
  BY <1>1, <1>2, CallOnly

(* The life of a pod moves on; or its object is replaced. *)
LEMMA LifeMoves ==
  ASSUME ControlInv, NEW u \in Uid,
         NEW l \in {"none", "live", "deleting", "removed", "gone"},
         api' = [api EXCEPT ![u].life = l], UNCHANGED <<edits, crashes>>
  PROVE  ControlInv'
<1>1. api' \in [Uid -> ApiObject] /\ \A v \in Uid : api'[v].pod = api[v].pod
  BY DEF ControlInv, ApiObject
<1>2. QED
  BY <1>1 DEF ControlInv, ApiSettled

LEMMA ObjectReplaced ==
  ASSUME ControlInv, NEW u \in Uid, NEW p \in Pod, Settled(p),
         api' = [api EXCEPT ![u].pod = p],
         edits' \in 0..MaxEdit, UNCHANGED crashes
  PROVE  ControlInv'
<1>1. /\ api' \in [Uid -> ApiObject]
      /\ \A v \in Uid : api'[v].pod = IF v = u THEN p ELSE api[v].pod
  BY DEF ControlInv, ApiObject
<1>2. QED
  BY <1>1 DEF ControlInv, ApiSettled

(* Another generation of a settled pod is settled. *)
LEMMA GenerationSettled ==
  ASSUME NEW p \in Pod, NEW g \in Nat, Settled(p)
  PROVE  [p EXCEPT !.gen = g] \in Pod /\ Settled([p EXCEPT !.gen = g])
<1> DEFINE q == [p EXCEPT !.gen = g]
<1>1. /\ q \in Pod /\ q.phase = p.phase /\ q.cst = p.cst /\ q.ist = p.ist
      /\ q.uid = p.uid /\ q.initialized = p.initialized
  BY DEF Pod
<1> HIDE DEF q
<1>2. Settled(q)
  BY <1>1 DEF Settled, AllStarted
<1>3. QED
  BY <1>1, <1>2 DEF q

LEMMA UserKeeps ==
  ASSUME SafeInv, UserStep
  PROVE  SafeInv'
<1>1. RemoteInv /\ ProviderInv /\ ControlInv
  BY SafeInvSplits
<1>2. UNCHANGED <<remoteVars, providerVars, crashes>>
  BY DEF UserStep, UserCreate, UserEdit, UserDelete, UserForceDelete
<1>3. ControlInv'
  <2>1. PICK u \in Uid :
          UserCreate(u) \/ UserEdit(u) \/ UserDelete(u) \/ UserForceDelete(u)
    BY DEF UserStep
  <2>2. CASE UserEdit(u)
    <3>1. api[u].pod \in Pod /\ Settled(api[u].pod) /\ api[u].pod.gen + 1 \in Nat
      BY <1>1 DEF ControlInv, ApiObject, ApiSettled, Pod
    <3> DEFINE p == [api[u].pod EXCEPT !.gen = api[u].pod.gen + 1]
    <3>2. p \in Pod /\ Settled(p)
      BY <3>1, GenerationSettled
    <3>3. /\ api' = [api EXCEPT ![u].pod = p]
          /\ edits' \in 0..MaxEdit
      BY <1>1, <2>2, BoundsAssumption DEF UserEdit, ControlInv, ApiObject
    <3> HIDE DEF p
    <3>4. QED
      BY <1>1, <1>2, <3>2, <3>3, ObjectReplaced
  <2>3. CASE UserCreate(u)
    BY <1>1, <2>3, LifeMoves DEF UserCreate
  <2>4. CASE UserDelete(u)
    BY <1>1, <2>4, LifeMoves DEF UserDelete
  <2>5. CASE UserForceDelete(u)
    BY <1>1, <2>5, LifeMoves DEF UserForceDelete
  <2>6. QED
    BY <2>1, <2>2, <2>3, <2>4, <2>5
<1>4. QED
  BY <1>1, <1>2, <1>3, RemoteStutterInv, ProviderStutters, SafeInvJoins

LEMMA KubeletKeeps ==
  ASSUME SafeInv, NEW u \in Uid, KubeletStep(u)
  PROVE  SafeInv'
<1>1. /\ RemoteInv /\ ProviderInv /\ ControlInv
      /\ KeyOf[u] \in Key /\ api[u].pod \in Pod /\ Settled(api[u].pod)
  BY SafeInvSplits, ProviderAssumption DEF ControlInv, ApiObject, ApiSettled
<1>2. CASE KubeletCreate(u)
  <2>1. UNCHANGED remoteVars /\ ControlUnchanged /\ CreatePod(KeyOf[u], api[u].pod)
    BY <1>2 DEF KubeletCreate, CreatePod, ControlUnchanged
  <2>2. QED
    BY <1>1, <2>1, CreatePodKeeps, RemoteStutterInv, ControlStutters, SafeInvJoins
<1>3. CASE KubeletUpdate(u)
  <2>1. UNCHANGED remoteVars /\ ControlUnchanged /\ UpdatePod(KeyOf[u], api[u].pod)
    BY <1>3 DEF KubeletUpdate, UpdatePod, ControlUnchanged
  <2>2. QED
    BY <1>1, <2>1, UpdatePodKeeps, RemoteStutterInv, ControlStutters, SafeInvJoins
<1>4. CASE KubeletDelete(u)
  <2>1. UNCHANGED remoteVars /\ ControlUnchanged /\ DeletePod(KeyOf[u], api[u].pod)
    BY <1>4 DEF KubeletDelete, DeletePod, ControlUnchanged
  <2>2. QED
    BY <1>1, <2>1, DeletePodKeeps, RemoteStutterInv, ControlStutters, SafeInvJoins
<1>5. CASE KubeletDeleteRemoved(u)
  <2>1. /\ UNCHANGED remoteVars /\ DeletePod(KeyOf[u], pods[KeyOf[u]])
        /\ pods[KeyOf[u]] # None
    BY <1>5 DEF KubeletDeleteRemoved, DeletePod
  <2>2. pods[KeyOf[u]] \in Pod
    BY <1>1, <2>1 DEF ProviderInv, ProviderTypeOK
  <2>3. ControlInv'
    BY <1>1, <1>5, LifeMoves DEF KubeletDeleteRemoved
  <2>4. QED
    BY <1>1, <2>1, <2>2, <2>3, DeletePodKeeps, RemoteStutterInv, SafeInvJoins
<1>6. CASE KubeletForget(u) \/ KubeletRemove(u)
  <2>1. UNCHANGED <<remoteVars, providerVars, edits, crashes>>
    BY <1>6 DEF KubeletForget, KubeletRemove
  <2>2. ControlInv'
    BY <1>1, <1>6, LifeMoves DEF KubeletForget, KubeletRemove
  <2>3. QED
    BY <1>1, <2>1, <2>2, RemoteStutterInv, ProviderStutters, SafeInvJoins
<1>7. QED
  BY <1>2, <1>3, <1>4, <1>5, <1>6 DEF KubeletStep

LEMMA SyncKeeps ==
  ASSUME SafeInv, NEW k \in Key, KubeletSync(k)
  PROVE  SafeInv'
<1>1. RemoteInv /\ ProviderInv /\ ControlInv
  BY SafeInvSplits
<1>2. UNCHANGED <<remoteVars, providerVars, edits, crashes>>
  BY DEF KubeletSync
<1>3. /\ mail[k] \in Pod /\ Settled(mail[k]) /\ mail[k].uid \in Uid
      /\ api[mail[k].uid].pod.gen \in Nat
  BY <1>1 DEF KubeletSync, ProviderInv, ProviderTypeOK, MailSettled, Pod, ControlInv, ApiObject
<1> DEFINE p == [mail[k] EXCEPT !.gen = api[mail[k].uid].pod.gen]
<1>4. p \in Pod /\ Settled(p)
  BY <1>3, GenerationSettled
<1>5. api' = [api EXCEPT ![mail[k].uid].pod = p]
  BY DEF KubeletSync
<1> HIDE DEF p
<1>6. ControlInv'
  BY <1>1, <1>2, <1>3, <1>4, <1>5, ObjectReplaced DEF ControlInv
<1>7. QED
  BY <1>1, <1>2, <1>6, RemoteStutterInv, ProviderStutters, SafeInvJoins

LEMMA CrashKeeps ==
  ASSUME SafeInv, Crash
  PROVE  SafeInv'
<1>1. RemoteInv /\ ControlInv
  BY SafeInvSplits
<1>2. ProviderInv'
  <2>1. /\ pods' = [k \in Key |-> None] /\ poll' = IdlePoll
        /\ call' = [k \in Key |-> NoCall] /\ mail' = [k \in Key |-> None]
    BY DEF Crash
  <2>2. ProviderTypeOK'
    BY <2>1, IdleFacts, NoCallFacts DEF ProviderTypeOK
  <2>3. Stored' = {} /\ ~Working' /\ poll'.pc = "idle"
    BY <2>1, IdleFacts DEF Stored, Working
  <2>4. PollHolds' /\ InHand'
    BY <2>1, <2>3, IdleFacts DEF PollHolds, InHand
  <2>5. HandlersHold'
    BY <2>1, NoCallFacts DEF HandlersHold
  <2>6. StoredSettled' /\ MailSettled'
    BY <2>1, <2>3 DEF StoredSettled, MailSettled
  <2>7. QED
    BY <2>2, <2>4, <2>5, <2>6 DEF ProviderInv
<1>3. ControlInv'
  BY <1>1, BoundsAssumption DEF Crash, ControlInv, ApiSettled
<1>4. QED
  BY <1>1, <1>2, <1>3, RemoteStutterInv, SafeInvJoins DEF Crash

-----------------------------------------------------------------------------
LEMMA StepSafe ==
  ASSUME SafeInv, [Next]_vars
  PROVE  SafeInv'
<1>1. RemoteInv /\ ProviderInv /\ ControlInv
  BY SafeInvSplits
<1>2. CASE UserStep
  BY <1>2, UserKeeps
<1>3. CASE \E u \in Uid : KubeletStep(u)
  BY <1>3, KubeletKeeps
<1>4. CASE \E k \in Key : KubeletSync(k)
  BY <1>4, SyncKeeps
<1>5. CASE \E k \in Key : HandlerStep(k) /\ ControlUnchanged
  BY <1>1, <1>5, HandlerKeeps, ControlStutters, SafeInvJoins
<1>6. CASE PollStep /\ ControlUnchanged
  BY <1>1, <1>6, PollKeeps, ControlStutters, SafeInvJoins
<1>7. CASE RemoteStep /\ UNCHANGED providerVars /\ ControlUnchanged
  BY <1>1, <1>7, RemoteStepInv, ProviderStutters, ControlStutters, SafeInvJoins
<1>8. CASE Crash
  BY <1>8, CrashKeeps
<1>9. CASE (PollNothing /\ ControlUnchanged) \/ UNCHANGED vars
  <2>1. UNCHANGED <<remoteVars, providerVars>> /\ ControlUnchanged
    BY <1>9 DEF PollNothing, vars, ControlUnchanged
  <2>2. QED
    BY <1>1, <2>1, RemoteStutterInv, ProviderStutters, ControlStutters, SafeInvJoins
<1>10. QED
  BY <1>2, <1>3, <1>4, <1>5, <1>6, <1>7, <1>8, <1>9 DEF Next

(* The inductive invariant of the whole system: types, the agreement of the *)
(* remote files, and what the poll, the handlers, the notifications and the *)
(* API server owe to each other (knoc.go 132-327, remote.go 267-453).       *)
THEOREM SafeInvariant == Spec => []SafeInv
<1>1. Init => SafeInv
  BY InitSafe
<1>2. SafeInv /\ [Next]_vars => SafeInv'
  BY StepSafe
<1>3. QED
  BY <1>1, <1>2, PTL DEF Spec

(* Every variable of the system keeps its type.                             *)
THEOREM TypesHold == Spec => []TypeOK
BY SafeInvariant, PTL DEF SafeInv

LEMMA SafeInvNoPanic == SafeInv => PollNeverPanics
<1> SUFFICES ASSUME SafeInv, Working PROVE PollNeverPanics
  BY DEF PollNeverPanics
<1>1. Held # None /\ InHand
  BY DEF SafeInv, PollHolds
<1>2. Held \in Pod
  BY TypeFacts DEF SafeInv, TypeOK
<1>3. \A i \in DOMAIN Held.cst : Held.cst[i].st \in {"waiting", "running", "terminated"}
  <2>1. Held.cst \in Seq(ContainerStatus)
    BY <1>2, PodFacts
  <2>2. \A i \in DOMAIN Held.cst : Held.cst[i] \in ContainerStatus
    BY <2>1
  <2>3. QED
    BY <2>2 DEF ContainerStatus
<1>4. poll.pc = "main" =>
        \A i \in DOMAIN Held.cst : Held.cst[i].st \in {"running", "terminated"}
  BY <1>1, <1>3 DEF InHand, AllStarted
<1>5. /\ poll.pc = "init" => Len(Held.ist) = Len(InitOf[Held.uid])
      /\ Len(Held.cst) = Len(MainOf[Held.uid])
  BY <1>1 DEF InHand
<1>6. QED
  BY <1>1, <1>4, <1>5 DEF PollNeverPanics

(* For any pods, users, faults and restarts, the poll finds as many         *)
(* statuses as it indexes, and reads no exit code of a container that has   *)
(* not terminated (remote.go 306, 379, 424).                                *)
THEOREM PollNeverPanicsHolds == Spec => []PollNeverPanics
BY SafeInvariant, SafeInvNoPanic, PTL

(* Within the whole system too, a stop cancels no other container's job.    *)
THEOREM KnocJidNamesOwnJob == Spec => []JidNamesOwnJob
BY SafeInvariant, PTL DEF SafeInv, RemoteInv

-----------------------------------------------------------------------------
(* What each step of the provider and of the remote side does to the       *)
(* copies of pods, to the poll's counts, to doors and to jobs: the facts   *)
(* on which the proofs about Knoc's invariants rest.                       *)

(* The effects of the provider's steps on the copies of pods. *)

LEMMA StoreEffect ==
  ASSUME ProviderTypeOK, NEW k \in Key, NEW p, StoreByHandler(k, p)
  PROVE  /\ \A x \in Key : pods'[x] = IF x = k THEN p ELSE pods[x]
         /\ \A x \in Key : mail'[x] = IF x = k THEN p ELSE mail[x]
         /\ poll'.key = poll.key /\ poll'.pc = poll.pc /\ poll'.idx = poll.idx
         /\ poll'.left = poll.left /\ poll'.good = poll.good /\ poll'.dirty = poll.dirty
         /\ \/ poll'.orphan = poll.orphan
            \/ poll.key = k /\ Working /\ poll'.orphan = pods[k]
<1>1. PICK todo \in Visits(poll.todo, k) :
         poll' = [poll EXCEPT !.todo = todo, !.orphan = LetGo(k)]
  BY DEF StoreByHandler
<1>2. /\ poll'.key = poll.key /\ poll'.pc = poll.pc /\ poll'.idx = poll.idx
      /\ poll'.left = poll.left /\ poll'.good = poll.good /\ poll'.dirty = poll.dirty
      /\ poll'.orphan = LetGo(k)
  BY <1>1 DEF ProviderTypeOK, PollLocals
<1>3. QED
  BY <1>2 DEF StoreByHandler, ProviderTypeOK, LetGo

LEMMA ForgetEffect ==
  ASSUME ProviderTypeOK, NEW k \in Key, DeleteForget(k)
  PROVE  /\ \A x \in Key : pods'[x] = IF x = k THEN None ELSE pods[x]
         /\ \A x \in Key : mail'[x] = IF x = k THEN DeletedPod(call[k].pod) ELSE mail[x]
         /\ poll'.key = poll.key /\ poll'.pc = poll.pc /\ poll'.idx = poll.idx
         /\ poll'.left = poll.left /\ poll'.good = poll.good /\ poll'.dirty = poll.dirty
         /\ \/ poll'.orphan = poll.orphan
            \/ poll.key = k /\ Working /\ poll'.orphan = pods[k]
<1>1. poll' = [poll EXCEPT !.todo = poll.todo \ {k}, !.orphan = LetGo(k)]
  BY DEF DeleteForget
<1>2. /\ poll'.key = poll.key /\ poll'.pc = poll.pc /\ poll'.idx = poll.idx
      /\ poll'.left = poll.left /\ poll'.good = poll.good /\ poll'.dirty = poll.dirty
      /\ poll'.orphan = LetGo(k)
  BY <1>1 DEF ProviderTypeOK, PollLocals
<1>3. QED
  BY <1>2 DEF DeleteForget, ProviderTypeOK, LetGo

LEMMA WriteEffect ==
  ASSUME ProviderTypeOK, PollHolds, Working, NEW p \in Pod, NEW q \in PollLocals,
         q.orphan = poll.orphan, q.key = poll.key, Write(p, q)
  PROVE  /\ \A x \in Key : pods'[x] = pods[x] \/ (x = poll.key /\ pods'[x] = p)
         /\ poll'.orphan = None \/ poll'.orphan = p
         /\ poll'.key = poll.key /\ poll'.pc = q.pc /\ poll'.idx = q.idx
         /\ poll'.left = q.left /\ poll'.good = q.good /\ poll'.dirty = q.dirty
         /\ poll'.orphan # None <=> poll.orphan # None
<1>1. CASE poll.orphan = None
  BY <1>1 DEF Write, PollHolds, ProviderTypeOK
<1>2. CASE poll.orphan # None
  <2>1. pods' = pods /\ poll' = [q EXCEPT !.orphan = p]
    BY <1>2 DEF Write
  <2>2. /\ poll'.orphan = p /\ poll'.key = q.key /\ poll'.pc = q.pc
        /\ poll'.idx = q.idx /\ poll'.left = q.left /\ poll'.good = q.good
        /\ poll'.dirty = q.dirty /\ p # None
    BY <2>1, PodFacts DEF PollLocals
  <2>3. QED
    BY <1>2, <2>1, <2>2
<1>3. QED
  BY <1>1, <1>2

LEMMA LeaveEffect ==
  ASSUME ProviderTypeOK, PollHolds, Working, NEW p \in Pod, NEW update \in BOOLEAN,
         Leave(p, update)
  PROVE  /\ \A x \in Key : pods'[x] = pods[x] \/ (update /\ x = poll.key /\ pods'[x] = p)
         /\ \A x \in Key : mail'[x] = mail[x] \/ (update /\ x = poll.key /\ mail'[x] = p)
         /\ poll'.orphan = None /\ poll'.pc = "next" /\ poll'.good = 0 /\ ~poll'.dirty
<1>1. PICK todo : poll' = [IdlePoll EXCEPT !.pc = "next", !.todo = todo]
  BY DEF Leave
<1>2. poll'.orphan = None /\ poll'.pc = "next" /\ poll'.good = 0 /\ ~poll'.dirty
  BY <1>1 DEF IdlePoll
<1>3. /\ \A x \in Key : pods'[x] = pods[x] \/ (update /\ x = poll.key /\ pods'[x] = p)
      /\ \A x \in Key : mail'[x] = mail[x] \/ (update /\ x = poll.key /\ mail'[x] = p)
  BY DEF Leave, ProviderTypeOK
<1>4. QED
  BY <1>2, <1>3

LEMMA PodShapes ==
  ASSUME NEW p \in Pod
  PROVE  /\ ResetPod(p).uid = p.uid /\ ResetPod(p).reason = None
         /\ ResetPod(p).gen = p.gen /\ (InitOf[p.uid] = <<>> => ResetPod(p).initialized)
         /\ DeletedPod(p).uid = p.uid /\ DeletedPod(p).reason = p.reason
         /\ DeletedPod(p).gen = p.gen /\ DeletedPod(p).phase = p.phase
         /\ DeletedPod(p).initialized = p.initialized
         /\ \A ok \in BOOLEAN : /\ Launched(p, ok).uid = p.uid
                                /\ Launched(p, ok).reason = p.reason
                                /\ Launched(p, ok).gen = p.gen
                                /\ Launched(p, ok).initialized = p.initialized
                                /\ Launched(p, ok).phase \in {p.phase, "Failed"}
<1>1. /\ ResetPod(p).uid = p.uid /\ ResetPod(p).reason = None
      /\ ResetPod(p).gen = p.gen /\ (InitOf[p.uid] = <<>> => ResetPod(p).initialized)
  BY DEF ResetPod, Pod
<1>2. /\ DeletedPod(p).uid = p.uid /\ DeletedPod(p).reason = p.reason
      /\ DeletedPod(p).gen = p.gen /\ DeletedPod(p).phase = p.phase
      /\ DeletedPod(p).initialized = p.initialized
  BY DEF DeletedPod, Pod
<1>3. ASSUME NEW ok \in BOOLEAN
      PROVE  /\ Launched(p, ok).uid = p.uid /\ Launched(p, ok).reason = p.reason
             /\ Launched(p, ok).gen = p.gen /\ Launched(p, ok).initialized = p.initialized
             /\ Launched(p, ok).phase \in {p.phase, "Failed"}
  BY DEF Launched, Pod
<1>4. QED
  BY <1>1, <1>2, <1>3

-----------------------------------------------------------------------------
(* The effects of the remote side's steps on doors, scripts and jobs. *)

SameDoors ==
  /\ DOMAIN door' = DOMAIN door
  /\ \A d \in DOMAIN door : door'[d].act = door[d].act /\ door'[d].ctr = door[d].ctr

ScriptsFromDoors ==
  \A i \in Instance : \/ script'[i] = script[i]
                      \/ \E d \in DOMAIN door : /\ door[d].act = "submit"
                                                /\ script'[i] = door[d].ctr

JobBegins ==
  \E i \in Instance :
    /\ script[i] # None
    /\ job' = Append(job, [ctr |-> script[i], st |-> "active", code |-> None])

JobFinishes ==
  \E j \in DOMAIN job, code \in Code :
    /\ job[j].st = "active"
    /\ job' = [job EXCEPT ![j] = [@ EXCEPT !.st = "done", !.code = code]]

JobIsKilled ==
  \E j \in DOMAIN job : job[j].st = "active" /\ job' = [job EXCEPT ![j].st = "lost"]

JobIsCancelled ==
  \E j \in DOMAIN job, d \in DOMAIN door :
    /\ door[d].act = "stop" /\ DoorInst(d) = InstOf[job[j].ctr]
    /\ job[j].st = "active"
    /\ job' = [job EXCEPT ![j].st = "cancelled"]

JobEffect ==
  UNCHANGED job \/ JobBegins \/ JobFinishes \/ JobIsKilled \/ JobIsCancelled

LEMMA DoorEffect ==
  ASSUME RemoteInv, NEW d \in DOMAIN door, DoorStep(d) \/ DoorDies(d)
  PROVE  SameDoors /\ ScriptsFromDoors /\ JobEffect
<1>1. /\ RemoteTypeOK /\ door[d] \in DoorProcess /\ DoorInst(d) \in Instance
      /\ script \in [Instance -> Container \cup {None}]
  <2>1. RemoteTypeOK /\ door[d] \in DoorProcess
    BY DEF RemoteInv, RemoteTypeOK
  <2>2. DoorInst(d) \in Instance
    BY <2>1, RemoteAssumption DEF DoorProcess, DoorInst
  <2>3. QED
    BY <2>1, <2>2 DEF RemoteTypeOK
<1>2. CASE produce_slurm_script(d)
  <2>1. door[d].act = "submit"
    BY <1>1, <1>2 DEF RemoteInv, DoorPhases, DoorProcess, produce_slurm_script
  <2>2. DoorMoved(d, "sbatch", door[d].jid)
    BY <1>1, <1>2, DoorPcUpdate DEF produce_slurm_script, PhaseSet
  <2>3. QED
    BY <1>1, <1>2, <2>1, <2>2
       DEF produce_slurm_script, SameDoors, ScriptsFromDoors, JobEffect, DoorMoved
<1>3. CASE slurm_batch_submit(d)
  <2> DEFINE r == [door[d] EXCEPT !.pc = "jid", !.jid = Len(job) + 1]
  <2>1. /\ r \in DoorProcess /\ r.act = door[d].act /\ r.ctr = door[d].ctr
    <3>1. Len(job) + 1 \in Nat
      BY <1>1, LenProperties DEF RemoteTypeOK
    <3>2. QED
      BY <1>1, <3>1 DEF DoorProcess
  <2>2. door' = [door EXCEPT ![d] = r] /\ UNCHANGED script
    BY <1>3 DEF slurm_batch_submit
  <2> HIDE DEF r
  <2>3. DoorMoved(d, r.pc, r.jid)
    BY <1>1, <2>1, <2>2, DoorUpdate
  <2>4. JobBegins
    BY <1>1, <1>3 DEF JobBegins, slurm_batch_submit, RemoteInv, DoorPhases
  <2>5. QED
    BY <2>2, <2>3, <2>4 DEF SameDoors, ScriptsFromDoors, JobEffect, DoorMoved
<1>4. CASE handle_jid(d)
  <2>1. DoorMoved(d, "done", door[d].jid)
    BY <1>1, <1>4, DoorPcUpdate DEF handle_jid, PhaseSet
  <2>2. QED
    BY <1>4, <2>1 DEF handle_jid, SameDoors, ScriptsFromDoors, JobEffect, DoorMoved
<1>5. CASE DoorDies(d)
  <2>1. DoorMoved(d, "dead", door[d].jid)
    BY <1>1, <1>5, DoorPcUpdate DEF DoorDies, PhaseSet
  <2>2. QED
    BY <1>5, <2>1 DEF DoorDies, SameDoors, ScriptsFromDoors, JobEffect, DoorMoved
<1>6. CASE delete_container(d)
  <2>1. door[d].act = "stop" /\ UNCHANGED script
    BY <1>1, <1>6 DEF RemoteInv, DoorPhases, DoorProcess, delete_container
  <2>2. SameDoors
    <3>1. CASE jidFile[DoorInst(d)] = None
      BY <1>1, <1>6, <3>1, DoorPcUpdate DEF delete_container, PhaseSet, SameDoors, DoorMoved
    <3>2. CASE jidFile[DoorInst(d)] # None
      BY <1>1, <1>6, <3>2, DoorPcUpdate DEF delete_container, PhaseSet, SameDoors, DoorMoved
    <3>3. QED
      BY <3>1, <3>2
  <2>3. JobEffect
    <3> DEFINE j == jidFile[DoorInst(d)]
    <3>1. CASE j = None
      BY <1>6, <3>1 DEF delete_container, JobEffect
    <3>2. CASE j # None
      <4>1. j \in DOMAIN job /\ InstOf[job[j].ctr] = DoorInst(d)
        BY <1>1, <3>2 DEF RemoteInv, JidNamesOwnJob
      <4>2. scancel(j)
        BY <1>6, <3>2 DEF delete_container
      <4>3. CASE job[j].st = "active"
        <5>1. job' = [job EXCEPT ![j].st = "cancelled"]
          BY <4>2, <4>3 DEF scancel
        <5>2. QED
          BY <2>1, <4>1, <4>3, <5>1 DEF JobEffect, JobIsCancelled
      <4>4. CASE job[j].st # "active"
        <5>1. job' = [job EXCEPT ![j].st = job[j].st]
          BY <4>2, <4>4 DEF scancel
        <5>2. job[j] \in SlurmJob /\ job \in Seq(SlurmJob)
          BY <1>1, <4>1 DEF RemoteTypeOK
        <5>3. job' = [job EXCEPT ![j] = job[j]]
          BY <5>1, <5>2 DEF SlurmJob
        <5>4. job' = job
          BY <5>2, <5>3
        <5>5. QED
          BY <5>4 DEF JobEffect
      <4>5. QED
        BY <4>3, <4>4
    <3>3. QED
      BY <3>1, <3>2
  <2>4. QED
    BY <2>1, <2>2, <2>3 DEF ScriptsFromDoors
<1>7. QED
  BY <1>2, <1>3, <1>4, <1>5, <1>6 DEF DoorStep

LEMMA RemoteEffect ==
  ASSUME RemoteInv, RemoteStep
  PROVE  SameDoors /\ ScriptsFromDoors /\ JobEffect
<1>1. CASE \E d \in DOMAIN door : DoorStep(d) \/ DoorDies(d)
  BY <1>1, DoorEffect
<1>2. ASSUME NEW j \in DOMAIN job, JobEnds(j) \/ JobLost(j)
      PROVE  SameDoors /\ ScriptsFromDoors /\ JobEffect
  <2>1. SameDoors /\ ScriptsFromDoors
    BY <1>2 DEF JobEnds, JobLost, SameDoors, ScriptsFromDoors
  <2>2. CASE JobEnds(j)
    BY <2>1, <2>2 DEF JobEnds, JobEffect, JobFinishes
  <2>3. CASE JobLost(j)
    BY <2>1, <2>3 DEF JobLost, JobEffect, JobIsKilled
  <2>4. QED
    BY <1>2, <2>1, <2>2, <2>3
<1>3. QED
  BY <1>1, <1>2 DEF RemoteStep

-----------------------------------------------------------------------------
(* The effects of the poll's steps on the pod in its hand. *)

LEMMA InitEffect ==
  ASSUME ProviderInv, RemoteTypeOK, PollInitContainer
  PROVE  LET e == InitOf[Held.uid][poll.idx]
             s == Held.ist[poll.idx]
         IN \/ poll' = NotYet /\ UNCHANGED pods
            \/ /\ s.st # "running" /\ poll' = Counted(Reparse(s.code) = 0, FALSE)
               /\ UNCHANGED pods
            \/ \E c \in Code, p \in Pod :
                 /\ c = statusFile[InstOf[e]]
                 /\ Write(p, Counted(c = 0, TRUE))
                 /\ p.uid = Held.uid /\ p.reason = Held.reason /\ p.phase = Held.phase
                 /\ p.gen = Held.gen /\ p.initialized = Held.initialized /\ p.cst = Held.cst
                 /\ DOMAIN p.ist = DOMAIN Held.ist
                 /\ \A j \in DOMAIN Held.ist :
                      p.ist[j] = IF j = poll.idx THEN Exited(c) ELSE Held.ist[j]
<1> DEFINE e == InitOf[Held.uid][poll.idx]
<1>1. Working /\ poll.pc = "init" /\ poll.idx <= Len(InitOf[Held.uid])
  BY DEF PollInitContainer, Working
<1>2. /\ Held \in Pod /\ poll.idx \in Nat \ {0}
      /\ InitOf[Held.uid] \in Seq(Container) /\ Held.ist \in Seq(ContainerStatus)
      /\ Len(Held.ist) = Len(InitOf[Held.uid])
  BY <1>1, HandFacts DEF InHand
<1>3. \A c \in StatusReads(e) : c # None => c \in Code /\ c = statusFile[InstOf[e]]
  BY <1>1, <1>2, RemoteAssumption DEF StatusReads, RemoteTypeOK
<1>4. ASSUME NEW c \in Code, c = statusFile[InstOf[e]],
             Write([Held EXCEPT !.ist[poll.idx] = Exited(c)], Counted(c = 0, TRUE))
      PROVE  \E p \in Pod :
                 /\ Write(p, Counted(c = 0, TRUE))
                 /\ p.uid = Held.uid /\ p.reason = Held.reason /\ p.phase = Held.phase
                 /\ p.gen = Held.gen /\ p.initialized = Held.initialized /\ p.cst = Held.cst
                 /\ DOMAIN p.ist = DOMAIN Held.ist
                 /\ \A j \in DOMAIN Held.ist :
                      p.ist[j] = IF j = poll.idx THEN Exited(c) ELSE Held.ist[j]
  <2> DEFINE t == [Held.ist EXCEPT ![poll.idx] = Exited(c)]
             p == [Held EXCEPT !.ist = t]
  <2>1. /\ t \in Seq(ContainerStatus) /\ DOMAIN t = DOMAIN Held.ist
        /\ \A j \in DOMAIN Held.ist : t[j] = IF j = poll.idx THEN Exited(c) ELSE Held.ist[j]
    BY <1>1, <1>2, StatusTypes, StatusUpdate
  <2>2. Write(p, Counted(c = 0, TRUE))
    BY <1>4
  <2> HIDE DEF t
  <2>3. /\ p \in Pod /\ p.uid = Held.uid /\ p.phase = Held.phase /\ p.reason = Held.reason
        /\ p.initialized = Held.initialized /\ p.cst = Held.cst /\ p.ist = t
        /\ p.gen = Held.gen
    BY <1>2, <2>1 DEF Pod
  <2> HIDE DEF p
  <2>4. QED
    BY <2>1, <2>2, <2>3
<1>5. CASE Held.ist[poll.idx].st # "running"
  BY <1>5 DEF PollInitContainer
<1>6. CASE Held.ist[poll.idx].st = "running"
  <2>1. PICK c \in StatusReads(e) :
          IF c = None THEN poll' = NotYet /\ UNCHANGED pods
          ELSE Write([Held EXCEPT !.ist[poll.idx] = Exited(c)], Counted(c = 0, TRUE))
    BY <1>6 DEF PollInitContainer
  <2>2. QED
    BY <1>3, <1>4, <2>1
<1>7. QED
  BY <1>5, <1>6

LEMMA MainEffect ==
  ASSUME ProviderInv, RemoteTypeOK, PollMainContainer
  PROVE  LET e == MainOf[Held.uid][poll.idx]
             s == Held.cst[poll.idx]
         IN \/ poll' = NotYet /\ UNCHANGED pods
            \/ /\ s.st # "running" /\ poll' = Counted(s.code = 0, FALSE)
               /\ UNCHANGED pods
            \/ \E c \in Code, p \in Pod :
                 /\ c = statusFile[InstOf[e]] /\ s.st = "running"
                 /\ Write(p, Counted(c = 0, TRUE))
                 /\ p.uid = Held.uid /\ p.reason = Held.reason /\ p.phase = Held.phase
                 /\ p.gen = Held.gen /\ p.initialized = Held.initialized /\ p.ist = Held.ist
                 /\ DOMAIN p.cst = DOMAIN Held.cst
                 /\ \A j \in DOMAIN Held.cst :
                      p.cst[j] = IF j = poll.idx THEN Exited(c) ELSE Held.cst[j]
<1> DEFINE e == MainOf[Held.uid][poll.idx]
<1>1. Working /\ poll.pc = "main" /\ poll.idx <= Len(MainOf[Held.uid])
  BY DEF PollMainContainer, Working
<1>2. /\ Held \in Pod /\ poll.idx \in Nat \ {0}
      /\ MainOf[Held.uid] \in Seq(Container) /\ Held.cst \in Seq(ContainerStatus)
      /\ Len(Held.cst) = Len(MainOf[Held.uid])
  BY <1>1, HandFacts
<1>3. \A c \in StatusReads(e) : c # None => c \in Code /\ c = statusFile[InstOf[e]]
  BY <1>1, <1>2, RemoteAssumption DEF StatusReads, RemoteTypeOK
<1>4. ASSUME NEW c \in Code, c = statusFile[InstOf[e]],
             Write([Held EXCEPT !.cst[poll.idx] = Exited(c)], Counted(c = 0, TRUE))
      PROVE  \E p \in Pod :
                 /\ Write(p, Counted(c = 0, TRUE))
                 /\ p.uid = Held.uid /\ p.reason = Held.reason /\ p.phase = Held.phase
                 /\ p.gen = Held.gen /\ p.initialized = Held.initialized /\ p.ist = Held.ist
                 /\ DOMAIN p.cst = DOMAIN Held.cst
                 /\ \A j \in DOMAIN Held.cst :
                      p.cst[j] = IF j = poll.idx THEN Exited(c) ELSE Held.cst[j]
  <2> DEFINE t == [Held.cst EXCEPT ![poll.idx] = Exited(c)]
             p == [Held EXCEPT !.cst = t]
  <2>1. /\ t \in Seq(ContainerStatus) /\ DOMAIN t = DOMAIN Held.cst
        /\ \A j \in DOMAIN Held.cst : t[j] = IF j = poll.idx THEN Exited(c) ELSE Held.cst[j]
    BY <1>1, <1>2, StatusTypes, StatusUpdate
  <2>2. Write(p, Counted(c = 0, TRUE))
    BY <1>4
  <2> HIDE DEF t
  <2>3. /\ p \in Pod /\ p.uid = Held.uid /\ p.phase = Held.phase /\ p.reason = Held.reason
        /\ p.initialized = Held.initialized /\ p.ist = Held.ist /\ p.cst = t
        /\ p.gen = Held.gen
    BY <1>2, <2>1 DEF Pod
  <2> HIDE DEF p
  <2>4. QED
    BY <2>1, <2>2, <2>3
<1>5. CASE Held.cst[poll.idx].st # "running"
  BY <1>5 DEF PollMainContainer
<1>6. CASE Held.cst[poll.idx].st = "running"
  <2>1. PICK c \in StatusReads(e) :
          IF c = None THEN poll' = NotYet /\ UNCHANGED pods
          ELSE Write([Held EXCEPT !.cst[poll.idx] = Exited(c)], Counted(c = 0, TRUE))
    BY <1>6 DEF PollMainContainer
  <2>2. QED
    BY <1>3, <1>4, <1>6, <2>1
<1>7. QED
  BY <1>5, <1>6

LEMMA InitDoneEffect ==
  ASSUME ProviderInv, PollInitDone
  PROVE  LET n == Len(InitOf[Held.uid]) IN
         \/ \E p \in Pod, q \in PollLocals :
              /\ poll.left = 0 /\ poll.good = n /\ poll.idx > n
              /\ Held.phase = "Running"
              /\ Write(p, q) /\ UNCHANGED mail
              /\ p.uid = Held.uid /\ p.reason = Held.reason /\ p.phase = Held.phase
              /\ p.gen = Held.gen /\ p.initialized /\ p.ist = Held.ist /\ p.cst = Held.cst
              /\ q.pc = "start" /\ q.idx = 1 /\ q.key = poll.key /\ q.orphan = poll.orphan
              /\ q.todo = poll.todo
         \/ \E p \in Pod :
              /\ poll.left = 0 /\ poll.good # n /\ poll.idx > n
              /\ Leave(p, TRUE)
              /\ p.uid = Held.uid /\ p.reason = Held.reason /\ p.phase = "Failed"
              /\ p.gen = Held.gen /\ p.initialized = Held.initialized
              /\ p.ist = Held.ist /\ p.cst = Held.cst
         \/ Leave(Held, poll.dirty)
<1>1. Working /\ poll.pc = "init" /\ poll.idx > Len(InitOf[Held.uid])
  BY DEF PollInitDone, Working
<1>2. Held \in Pod /\ poll \in PollLocals
  BY <1>1, HandFacts
<1>3. CASE /\ Write([Held EXCEPT !.initialized = TRUE, !.ready = TRUE],
                    [poll EXCEPT !.pc = "start", !.idx = 1])
           /\ poll.left = 0 /\ Held.phase = "Running"
           /\ poll.good = Len(InitOf[Held.uid]) /\ UNCHANGED mail
  <2> DEFINE p == [Held EXCEPT !.initialized = TRUE, !.ready = TRUE]
             q == [poll EXCEPT !.pc = "start", !.idx = 1]
  <2>1. /\ p \in Pod /\ p.uid = Held.uid /\ p.ist = Held.ist /\ p.cst = Held.cst
        /\ p.phase = Held.phase /\ p.reason = Held.reason /\ p.initialized
        /\ p.gen = Held.gen
    BY <1>2 DEF Pod
  <2>2. /\ q \in PollLocals /\ q.pc = "start" /\ q.idx = 1 /\ q.key = poll.key
        /\ q.orphan = poll.orphan /\ q.todo = poll.todo
    BY <1>2 DEF PollLocals
  <2>3. Write(p, q)
    BY <1>3
  <2> HIDE DEF p, q
  <2>4. QED
    BY <1>1, <1>3, <2>1, <2>2, <2>3
<1>4. CASE /\ Leave([Held EXCEPT !.phase = "Failed"], TRUE)
           /\ poll.left = 0 /\ poll.good # Len(InitOf[Held.uid])
  <2> DEFINE p == [Held EXCEPT !.phase = "Failed"]
  <2>1. /\ p \in Pod /\ p.uid = Held.uid /\ p.ist = Held.ist /\ p.cst = Held.cst
        /\ p.phase = "Failed" /\ p.reason = Held.reason
        /\ p.initialized = Held.initialized /\ p.gen = Held.gen
    BY <1>2 DEF Pod
  <2>2. Leave(p, TRUE)
    BY <1>4
  <2> HIDE DEF p
  <2>3. QED
    BY <1>1, <1>4, <2>1, <2>2
<1>5. QED
  BY <1>3, <1>4 DEF PollInitDone

LEMMA MainDoneEffect ==
  ASSUME ProviderInv, PollMainDone
  PROVE  \/ \E p \in Pod :
              /\ poll.left = 0 /\ poll.idx > Len(MainOf[Held.uid])
              /\ Leave(p, TRUE)
              /\ p.uid = Held.uid /\ p.reason = Held.reason
              /\ p.gen = Held.gen /\ p.initialized = Held.initialized
              /\ p.ist = Held.ist /\ p.cst = Held.cst
              /\ p.phase = IF poll.good = Len(MainOf[Held.uid]) THEN "Succeeded"
                                                                ELSE "Failed"
         \/ Leave(Held, poll.dirty)
<1>1. Working /\ poll.pc = "main" /\ poll.idx > Len(MainOf[Held.uid])
  BY DEF PollMainDone, Working
<1>2. Held \in Pod
  BY <1>1, HandFacts
<1> DEFINE v == IF poll.good = Len(MainOf[Held.uid]) THEN "Succeeded" ELSE "Failed"
<1>3. v \in {"Succeeded", "Failed"}
  OBVIOUS
<1>4. CASE Leave([Held EXCEPT !.ready = FALSE, !.phase = v], TRUE) /\ poll.left = 0
  <2> HIDE DEF v
  <2> DEFINE p == [Held EXCEPT !.ready = FALSE, !.phase = v]
  <2>1. /\ p \in Pod /\ p.uid = Held.uid /\ p.ist = Held.ist /\ p.cst = Held.cst
        /\ p.phase = v /\ p.reason = Held.reason
        /\ p.initialized = Held.initialized /\ p.gen = Held.gen
    BY <1>2, <1>3 DEF Pod
  <2>2. Leave(p, TRUE)
    BY <1>4
  <2> HIDE DEF p
  <2>3. QED
    BY <1>1, <1>4, <2>1, <2>2 DEF v
<1>5. QED
  BY <1>4 DEF PollMainDone

LEMMA StartEffect ==
  ASSUME ProviderInv, startMainContainers
  PROVE  \E p \in Pod, ok \in BOOLEAN :
           /\ RemoteExecution("submit", MainOf[Held.uid][poll.idx], ok)
           /\ Write(p, NotYet)
           /\ p.uid = Held.uid /\ p.reason = Held.reason
           /\ p.gen = Held.gen /\ p.initialized = Held.initialized /\ p.ist = Held.ist
           /\ p.phase = (IF ok THEN Held.phase ELSE "Failed")
           /\ DOMAIN p.cst = DOMAIN Held.cst /\ poll.idx \in DOMAIN Held.cst
           /\ \A j \in DOMAIN Held.cst :
                p.cst[j] = IF j = poll.idx THEN IF ok THEN Running ELSE Unreachable
                                           ELSE Held.cst[j]
<1>1. Working /\ poll.pc = "start" /\ poll.idx <= Len(MainOf[Held.uid])
  BY DEF startMainContainers, Working
<1>2. /\ Held \in Pod /\ poll.idx \in Nat \ {0}
      /\ Held.cst \in Seq(ContainerStatus) /\ Len(Held.cst) = Len(MainOf[Held.uid])
  BY <1>1, HandFacts
<1>3. PICK ok \in BOOLEAN :
        /\ RemoteExecution("submit", MainOf[Held.uid][poll.idx], ok)
        /\ Write(IF ok THEN [Held EXCEPT !.cst[poll.idx] = Running]
                 ELSE [Held EXCEPT !.cst[poll.idx] = Unreachable, !.phase = "Failed"],
                 NotYet)
  BY DEF startMainContainers
<1> DEFINE e == IF ok THEN Running ELSE Unreachable
           t == [Held.cst EXCEPT ![poll.idx] = e]
<1>4. e \in ContainerStatus /\ e = IF ok THEN Running ELSE Unreachable
  BY StatusTypes
<1> HIDE DEF e
<1>5. /\ t \in Seq(ContainerStatus) /\ DOMAIN t = DOMAIN Held.cst
      /\ \A j \in DOMAIN Held.cst : t[j] = IF j = poll.idx THEN e ELSE Held.cst[j]
      /\ poll.idx \in DOMAIN Held.cst
  BY <1>1, <1>2, <1>4, StatusUpdate
<1>6. CASE ok
  <2> DEFINE p == [Held EXCEPT !.cst = t]
  <2>1. Write(p, NotYet)
    BY <1>3, <1>6 DEF e
  <2> HIDE DEF t
  <2>2. /\ p \in Pod /\ p.uid = Held.uid /\ p.ist = Held.ist /\ p.cst = t
        /\ p.phase = Held.phase /\ p.reason = Held.reason
        /\ p.initialized = Held.initialized /\ p.gen = Held.gen
    BY <1>2, <1>5 DEF Pod
  <2> HIDE DEF p
  <2>3. QED
    BY <1>3, <1>4, <1>5, <1>6, <2>1, <2>2
<1>7. CASE ~ok
  <2> DEFINE p == [Held EXCEPT !.cst = t, !.phase = "Failed"]
  <2>1. Write(p, NotYet)
    BY <1>3, <1>7 DEF e
  <2> HIDE DEF t
  <2>2. /\ p \in Pod /\ p.uid = Held.uid /\ p.ist = Held.ist /\ p.cst = t
        /\ p.phase = "Failed" /\ p.reason = Held.reason
        /\ p.initialized = Held.initialized /\ p.gen = Held.gen
    BY <1>2, <1>5 DEF Pod
  <2> HIDE DEF p
  <2>3. QED
    BY <1>3, <1>4, <1>5, <1>7, <2>1, <2>2
<1>8. QED
  BY <1>6, <1>7

(* What the poll does between two pods. *)
LEMMA BetweenEffect ==
  ASSUME ProviderInv, PollBegin \/ PollEnd \/ \E k \in Key : PollSkip(k)
  PROVE  /\ UNCHANGED <<pods, call, mail>>
         /\ poll'.orphan = None /\ poll'.pc \in {"idle", "next"}
         /\ poll'.good = 0 \/ poll'.good = poll.good
         /\ poll'.dirty => poll.dirty
         /\ poll.pc \in {"idle", "next"}
<1>1. poll \in PollLocals /\ (~Working => poll.orphan = None)
  BY DEF ProviderInv, ProviderTypeOK, PollHolds
<1>2. CASE PollBegin
  BY <1>1, <1>2 DEF PollBegin, PollLocals, Working
<1>3. CASE PollEnd
  BY <1>1, <1>3 DEF PollEnd, IdlePoll
<1>4. ASSUME NEW k \in Key, PollSkip(k)
      PROVE  /\ UNCHANGED <<pods, call, mail>>
             /\ poll'.orphan = None /\ poll'.pc \in {"idle", "next"}
             /\ poll'.good = poll.good /\ poll.pc \in {"idle", "next"}
             /\ poll'.dirty => poll.dirty
  BY <1>1, <1>4 DEF PollSkip, PollLocals, Working
<1>5. QED
  BY <1>2, <1>3, <1>4

LEMMA FirstPassEffect ==
  ASSUME ProviderInv, NEW k \in Key, PollFirstPass(k)
  PROVE  \E p \in Pod :
           /\ pods' = [pods EXCEPT ![k] = p] /\ UNCHANGED <<call, mail>>
           /\ pods[k] \in Pod /\ pods[k] # None
           /\ p.uid = pods[k].uid /\ p.reason = pods[k].reason
           /\ p.phase = pods[k].phase /\ p.phase = "Running"
           /\ p.initialized = pods[k].initialized /\ p.cst = pods[k].cst
           /\ p.gen = pods[k].gen
           /\ \A i \in DOMAIN p.ist : p.ist[i] = Running
           /\ poll'.orphan = None /\ poll'.pc = "next" /\ poll'.good = poll.good
           /\ poll.pc = "next" /\ poll'.dirty = poll.dirty
<1> DEFINE n == Len(InitOf[pods[k].uid])
           t == All(Running, n)
           p == [pods[k] EXCEPT !.ist = t]
<1>1. /\ poll.pc = "next" /\ k \in poll.todo /\ pods[k].phase = "Running"
      /\ pods' = [pods EXCEPT ![k] = p] /\ UNCHANGED <<call, mail>>
      /\ poll' = [poll EXCEPT !.todo = poll.todo \ {k}]
  BY DEF PollFirstPass
<1>2. poll \in PollLocals /\ poll.orphan = None /\ pods[k] \in Pod /\ pods[k] # None
  BY <1>1, TypeFacts DEF ProviderInv, PollHolds, Working, Stored
<1>3. n \in Nat
  BY <1>2, PodFacts
<1>4. t \in Seq(ContainerStatus) /\ \A i \in DOMAIN t : t[i] = Running
  BY <1>3, StatusTypes DEF All
<1> HIDE DEF t
<1>5. /\ p \in Pod /\ p.uid = pods[k].uid /\ p.reason = pods[k].reason
      /\ p.phase = pods[k].phase /\ p.ist = t
      /\ p.initialized = pods[k].initialized /\ p.cst = pods[k].cst /\ p.gen = pods[k].gen
  BY <1>2, <1>4 DEF Pod
<1>6. /\ poll'.orphan = None /\ poll'.pc = "next" /\ poll'.good = poll.good
      /\ poll'.dirty = poll.dirty
  BY <1>1, <1>2 DEF PollLocals
<1> HIDE DEF p
<1>7. QED
  BY <1>1, <1>2, <1>4, <1>5, <1>6

LEMMA PickEffect ==
  ASSUME ProviderInv, NEW k \in Key, PollPick(k)
  PROVE  /\ UNCHANGED <<pods, call, mail>>
         /\ poll'.key = k /\ poll'.orphan = None /\ poll'.idx = 1
         /\ poll'.good = poll.good /\ poll.pc = "next" /\ poll'.dirty = poll.dirty
         /\ Held' = pods[k] /\ pods[k] \in Pod /\ pods[k].phase = "Running"
         /\ \/ poll'.pc = "init" /\ poll'.left = Len(InitOf[pods[k].uid])
            \/ poll'.pc = "main" /\ poll'.left = Len(MainOf[pods[k].uid])
<1>1. poll.pc = "next" /\ k \in poll.todo /\ pods[k].phase = "Running"
      /\ UNCHANGED <<pods, call, mail>>
  BY DEF PollPick
<1>2. poll \in PollLocals /\ poll.orphan = None /\ pods[k] \in Pod
  BY <1>1, TypeFacts DEF ProviderInv, PollHolds, Working, Stored
<1>3. PICK pc, n :
        /\ poll' = [poll EXCEPT !.pc = pc, !.todo = poll.todo \ {k}, !.key = k,
                                !.idx = 1, !.left = n]
        /\ \/ pc = "init" /\ n = Len(InitOf[pods[k].uid])
           \/ pc = "main" /\ n = Len(MainOf[pods[k].uid])
  BY DEF PollPick
<1>4. /\ poll'.key = k /\ poll'.orphan = None /\ poll'.idx = 1
      /\ poll'.dirty = poll.dirty /\ poll'.good = poll.good /\ poll'.pc = pc /\ poll'.left = n
  BY <1>2, <1>3 DEF PollLocals
<1>5. QED
  BY <1>1, <1>2, <1>3, <1>4 DEF Held

-----------------------------------------------------------------------------
(* Whose copies and jobs. *)

(* Copies derived from copies. *)

LEMMA ReasonFacts == None # "deleted"
BY NoneAssumption

LEMMA SameOwner ==
  ASSUME NEW k, NEW p, NEW q, q # None, BelongsTo(k, q),
         p.uid = q.uid, p.reason = q.reason \/ p.reason = None
  PROVE  BelongsTo(k, p)
BY ReasonFacts DEF BelongsTo

LEMMA NobodyBelongs == \A k : BelongsTo(k, None)
BY DEF BelongsTo

-----------------------------------------------------------------------------
(* The life of a pod goes forward, and with it what belongs to it. *)

Forward ==
  \A u \in Uid : /\ api[u].life # "none" => api'[u].life # "none"
                 /\ Asked(u) => Asked(u)'

LEMMA CopiesForward ==
  ASSUME Forward, ProviderTypeOK',
         \A x \in Key : /\ BelongsTo(x, pods'[x]) /\ BelongsTo(x, mail'[x])
                        /\ BelongsTo(x, call'[x].pod),
         BelongsTo(poll'.key, poll'.orphan)
  PROVE  CopiesOwned'
<1>1. ASSUME NEW x, NEW p, p \in Pod \cup {None}, BelongsTo(x, p)
      PROVE  p # None => /\ KeyOf[p.uid] = x
                         /\ api'[p.uid].life # "none"
                         /\ p.reason = "deleted" => Asked(p.uid)'
  BY <1>1 DEF BelongsTo, Forward, Pod, Asked
<1>2. /\ \A x \in Key : /\ pods'[x] \in Pod \cup {None} /\ mail'[x] \in Pod \cup {None}
                        /\ call'[x].pod \in Pod \cup {None}
      /\ poll'.orphan \in Pod \cup {None}
  BY DEF ProviderTypeOK, HandlerCall, PollLocals
<1>3. \A x \in Key : /\ BelongsTo(x, pods[x])' /\ BelongsTo(x, mail[x])'
                     /\ BelongsTo(x, call[x].pod)'
  BY <1>1, <1>2 DEF BelongsTo, Asked
<1>4. BelongsTo(poll.key, poll.orphan)'
  BY <1>1, <1>2 DEF BelongsTo, Asked
<1>5. QED
  BY <1>3, <1>4 DEF CopiesOwned

LEMMA ApiUntouched ==
  ASSUME api' = api
  PROVE  Forward /\ (ObjectsOwned => ObjectsOwned')
BY DEF Forward, ObjectsOwned, Asked

-----------------------------------------------------------------------------
(* The steps of the provider. *)

LEMMA HandlerOwned ==
  ASSUME ProviderInv, ProviderTypeOK', CopiesOwned, DeletesAsked, Forward,
         NEW k \in Key, HandlerStep(k)
  PROVE  CopiesOwned' /\ DeletesAsked'
<1>1. /\ ProviderTypeOK /\ call \in [Key -> HandlerCall]
      /\ \A x \in Key : /\ BelongsTo(x, pods[x]) /\ BelongsTo(x, mail[x])
                        /\ BelongsTo(x, call[x].pod)
      /\ BelongsTo(poll.key, poll.orphan)
  BY DEF ProviderInv, ProviderTypeOK, CopiesOwned
<1>2. /\ call[k].op \in {"create", "delete"}
      /\ call[k].pod \in Pod /\ call[k].pod # None
  BY CallFacts, PodFacts DEF HandlerStep, CreateContainer, CreateStore,
     DeleteContainer, DeleteForget
<1>3. CASE CreateContainer(k) \/ DeleteContainer(k)
  <2>1. UNCHANGED <<pods, poll, mail>>
    BY <1>3 DEF CreateContainer, DeleteContainer
  <2>2. PICK c :
          /\ call' = [call EXCEPT ![k] = c]
          /\ c.op = call[k].op /\ c.pod.uid = call[k].pod.uid
          /\ c.pod.reason = call[k].pod.reason
    <3>1. CASE CreateContainer(k)
      <4>1. PICK ok \in BOOLEAN :
              call' = [call EXCEPT ![k] =
                [call[k] EXCEPT !.pod = Launched(call[k].pod, ok), !.idx = call[k].idx + 1]]
        BY <3>1 DEF CreateContainer
      <4> DEFINE c == [call[k] EXCEPT !.pod = Launched(call[k].pod, ok),
                                      !.idx = call[k].idx + 1]
      <4>2. c.op = call[k].op /\ c.pod = Launched(call[k].pod, ok)
        BY <1>1 DEF HandlerCall
      <4>3. call' = [call EXCEPT ![k] = c]
        BY <4>1
      <4> HIDE DEF c
      <4>4. /\ Launched(call[k].pod, ok).uid = call[k].pod.uid
            /\ Launched(call[k].pod, ok).reason = call[k].pod.reason
        BY <1>2, PodShapes
      <4>5. QED
        BY <4>2, <4>3, <4>4
    <3>2. CASE DeleteContainer(k)
      <4>1. call' = [call EXCEPT ![k] = [call[k] EXCEPT !.idx = call[k].idx + 1]]
        BY <3>2 DEF DeleteContainer
      <4> DEFINE c == [call[k] EXCEPT !.idx = call[k].idx + 1]
      <4>2. c.op = call[k].op /\ c.pod = call[k].pod
        BY <1>1 DEF HandlerCall
      <4>3. call' = [call EXCEPT ![k] = c]
        BY <4>1
      <4> HIDE DEF c
      <4>4. QED
        BY <4>2, <4>3
    <3>3. QED
      BY <1>3, <3>1, <3>2
  <2>3. BelongsTo(k, c.pod)
    BY <1>1, <1>2, <2>2, SameOwner
  <2>4. \A x \in Key : call'[x] = IF x = k THEN c ELSE call[x]
    BY <1>1, <2>2
  <2>5. CopiesOwned'
    BY <1>1, <2>1, <2>3, <2>4, CopiesForward
  <2>6. DeletesAsked'
    <3> SUFFICES ASSUME NEW x \in Key, call'[x].op = "delete"
                 PROVE  Asked(call[x].pod.uid)'
      BY DEF DeletesAsked
    <3>1. /\ call[x].op = "delete" /\ call'[x].pod.uid = call[x].pod.uid
      BY <2>2, <2>4
    <3>2. Asked(call[x].pod.uid) /\ call[x].pod.uid \in Uid
      BY <3>1, CallFacts, PodFacts DEF DeletesAsked
    <3>3. QED
      BY <3>1, <3>2 DEF Forward, Asked
  <2>7. QED
    BY <2>5, <2>6
<1>4. CASE CreateStore(k) \/ DeleteForget(k)
  <2>1. PICK p, q :
          /\ \A x \in Key : pods'[x] = IF x = k THEN p ELSE pods[x]
          /\ \A x \in Key : mail'[x] = IF x = k THEN q ELSE mail[x]
          /\ BelongsTo(k, p) /\ BelongsTo(k, q)
          /\ poll'.key = poll.key
          /\ \/ poll'.orphan = poll.orphan
             \/ poll.key = k /\ Working /\ poll'.orphan = pods[k]
    <3>1. CASE CreateStore(k)
      <4> DEFINE c == call[k].pod
                 p == IF InitOf[c.uid] = <<>> THEN c
                      ELSE [c EXCEPT !.cst = All(Waiting, Len(MainOf[c.uid]))]
      <4>1. StoreByHandler(k, p)
        BY <3>1 DEF CreateStore
      <4>2. p.uid = c.uid /\ p.reason = c.reason
        BY <1>2 DEF Pod
      <4> HIDE DEF p
      <4>3. BelongsTo(k, p)
        BY <1>1, <1>2, <4>2, SameOwner
      <4>4. QED
        BY <1>1, <4>1, <4>3, StoreEffect
    <3>2. CASE DeleteForget(k)
      <4>1. BelongsTo(k, DeletedPod(call[k].pod))
        BY <1>1, <1>2, PodShapes, SameOwner
      <4>2. QED
        BY <1>1, <3>2, <4>1, ForgetEffect, NobodyBelongs
    <3>3. QED
      BY <1>4, <3>1, <3>2
  <2>2. \A x \in Key : call'[x] = IF x = k THEN NoCall ELSE call[x]
    BY <1>1, <1>4 DEF CreateStore, DeleteForget
  <2>3. NoCall.pod = None /\ NoCall.op = "none"
    BY DEF NoCall
  <2>4. CopiesOwned'
    BY <1>1, <2>1, <2>2, <2>3, NobodyBelongs, CopiesForward
  <2>5. DeletesAsked'
    <3> SUFFICES ASSUME NEW x \in Key, call'[x].op = "delete"
                 PROVE  Asked(call[x].pod.uid)'
      BY DEF DeletesAsked
    <3>1. call[x].op = "delete" /\ call'[x] = call[x]
      BY <2>2, <2>3
    <3>2. Asked(call[x].pod.uid) /\ call[x].pod.uid \in Uid
      BY <3>1, CallFacts, PodFacts DEF DeletesAsked
    <3>3. QED
      BY <3>1, <3>2 DEF Forward, Asked
  <2>6. QED
    BY <2>4, <2>5
<1>5. QED
  BY <1>3, <1>4 DEF HandlerStep

(* The poll writes into the pod it holds, or stores and notifies it. *)

LEMMA HeldOwned ==
  ASSUME ProviderInv, CopiesOwned, Working
  PROVE  BelongsTo(poll.key, Held)
BY HandFacts DEF CopiesOwned, Held

LEMMA WriteOwned ==
  ASSUME ProviderInv, ProviderTypeOK', CopiesOwned, Forward, Working,
         NEW p \in Pod, NEW q \in PollLocals, q.orphan = poll.orphan, q.key = poll.key,
         p.uid = Held.uid, p.reason = Held.reason, Write(p, q),
         UNCHANGED <<call, mail>>
  PROVE  CopiesOwned'
<1>1. BelongsTo(poll.key, p)
  BY HeldOwned, SameOwner, HandFacts, PodFacts
<1>2. /\ \A x \in Key : pods'[x] = pods[x] \/ (x = poll.key /\ pods'[x] = p)
      /\ poll'.orphan = None \/ poll'.orphan = p
      /\ poll'.key = poll.key
  BY WriteEffect DEF ProviderInv
<1>3. \A x \in Key : /\ BelongsTo(x, pods'[x]) /\ BelongsTo(x, mail'[x])
                     /\ BelongsTo(x, call'[x].pod)
  BY <1>1, <1>2 DEF CopiesOwned
<1>4. BelongsTo(poll'.key, poll'.orphan)
  BY <1>1, <1>2, NobodyBelongs
<1>5. QED
  BY <1>3, <1>4, CopiesForward

LEMMA LeaveOwned ==
  ASSUME ProviderInv, ProviderTypeOK', CopiesOwned, Forward, Working,
         NEW p \in Pod, NEW update \in BOOLEAN,
         p.uid = Held.uid, p.reason = Held.reason, Leave(p, update),
         UNCHANGED call
  PROVE  CopiesOwned'
<1>1. BelongsTo(poll.key, p)
  BY HeldOwned, SameOwner, HandFacts, PodFacts
<1>2. /\ \A x \in Key : pods'[x] = pods[x] \/ (update /\ x = poll.key /\ pods'[x] = p)
      /\ \A x \in Key : mail'[x] = mail[x] \/ (update /\ x = poll.key /\ mail'[x] = p)
      /\ poll'.orphan = None
  BY LeaveEffect DEF ProviderInv
<1>3. \A x \in Key : /\ BelongsTo(x, pods'[x]) /\ BelongsTo(x, mail'[x])
                     /\ BelongsTo(x, call'[x].pod)
  BY <1>1, <1>2 DEF CopiesOwned
<1>4. QED
  BY <1>2, <1>3, NobodyBelongs, CopiesForward

(* The poll goes on, and no copy changes. *)
LEMMA OnlyPollMoves ==
  ASSUME ProviderTypeOK', CopiesOwned, Forward, UNCHANGED <<pods, call, mail>>,
         \/ poll'.orphan = None
         \/ poll'.orphan = poll.orphan /\ poll'.key = poll.key
  PROVE  CopiesOwned'
BY NobodyBelongs, CopiesForward DEF CopiesOwned

LEMMA ContainerOwned ==
  ASSUME ProviderInv, ProviderTypeOK', RemoteTypeOK, CopiesOwned, Forward,
         PollInitContainer \/ PollMainContainer
  PROVE  CopiesOwned'
<1>1. Working /\ UNCHANGED <<call, mail>> /\ poll \in PollLocals
  BY DEF PollInitContainer, PollMainContainer, Working, ProviderInv, ProviderTypeOK
<1>2. NextOne(NotYet) /\ \A good, wrote \in BOOLEAN : NextOne(Counted(good, wrote))
  BY <1>1, NextOneFacts
<1>3. CASE UNCHANGED pods /\ NextOne(poll')
  BY <1>1, <1>3, OnlyPollMoves DEF NextOne
<1>4. ASSUME NEW p \in Pod, NEW good \in BOOLEAN, Write(p, Counted(good, TRUE)),
             p.uid = Held.uid, p.reason = Held.reason
      PROVE  CopiesOwned'
  <2> DEFINE q == Counted(good, TRUE)
  <2>1. q \in PollLocals /\ q.orphan = poll.orphan /\ q.key = poll.key
    BY <1>2 DEF NextOne
  <2>2. Write(p, q)
    BY <1>4
  <2> HIDE DEF q
  <2>3. QED
    BY <1>1, <1>4, <2>1, <2>2, WriteOwned
<1>5. CASE PollInitContainer
  BY <1>2, <1>3, <1>4, <1>5, InitEffect
<1>6. CASE PollMainContainer
  BY <1>2, <1>3, <1>4, <1>6, MainEffect
<1>7. QED
  BY <1>5, <1>6

LEMMA PollOwned ==
  ASSUME ProviderInv, ProviderTypeOK', RemoteTypeOK, CopiesOwned, Forward, PollStep
  PROVE  CopiesOwned' /\ UNCHANGED call
<1>1. UNCHANGED call
  BY DEF PollStep, PollBegin, PollEnd, PollSkip, PollFirstPass, PollPick,
     PollInitContainer, PollInitDone, startMainContainers, PollStarted,
     PollMainContainer, PollMainDone
<1>2. CASE PollBegin \/ PollEnd \/ \E k \in Key : PollSkip(k)
  BY <1>2, BetweenEffect, OnlyPollMoves
<1>3. ASSUME NEW k \in Key, PollFirstPass(k) PROVE CopiesOwned'
  <2>1. PICK p :
          /\ pods' = [pods EXCEPT ![k] = p] /\ UNCHANGED <<call, mail>>
          /\ pods[k] # None /\ p.uid = pods[k].uid /\ p.reason = pods[k].reason
          /\ poll'.orphan = None
    BY <1>3, FirstPassEffect
  <2>2. BelongsTo(k, p)
    BY <2>1, SameOwner DEF CopiesOwned
  <2>3. \A x \in Key : pods'[x] = IF x = k THEN p ELSE pods[x]
    BY <2>1 DEF ProviderInv, ProviderTypeOK
  <2>4. QED
    BY <2>1, <2>2, <2>3, NobodyBelongs, CopiesForward DEF CopiesOwned
<1>4. ASSUME NEW k \in Key, PollPick(k) PROVE CopiesOwned'
  BY <1>4, PickEffect, OnlyPollMoves
<1>5. CASE PollInitContainer \/ PollMainContainer
  BY <1>1, <1>5, ContainerOwned
<1>6. CASE PollInitDone
  <2>1. Working /\ Held \in Pod /\ poll.dirty \in BOOLEAN
    BY <1>6, HandFacts DEF PollInitDone, Working
  <2>2. QED
    BY <1>1, <1>6, <2>1, InitDoneEffect, WriteOwned, LeaveOwned
<1>7. CASE startMainContainers
  <2>1. Working /\ poll \in PollLocals /\ UNCHANGED <<call, mail>>
    BY <1>7, HandFacts DEF startMainContainers, Working
  <2>2. NotYet \in PollLocals /\ NotYet.orphan = poll.orphan /\ NotYet.key = poll.key
    BY <2>1, NextOneFacts DEF NextOne
  <2>3. QED
    BY <1>7, <2>1, <2>2, StartEffect, WriteOwned
<1>8. CASE PollStarted
  <2>1. Working /\ Held \in Pod /\ Leave(Held, TRUE)
    BY <1>8, HandFacts DEF PollStarted, Working
  <2>2. QED
    BY <1>1, <2>1, LeaveOwned
<1>9. CASE PollMainDone
  <2>1. Working /\ Held \in Pod /\ poll.dirty \in BOOLEAN
    BY <1>9, HandFacts DEF PollMainDone, Working
  <2>2. QED
    BY <1>1, <1>9, <2>1, MainDoneEffect, LeaveOwned
<1>10. QED
  BY <1>1, <1>2, <1>3, <1>4, <1>5, <1>6, <1>7, <1>8, <1>9 DEF PollStep

-----------------------------------------------------------------------------
(* The remote side: what runs was submitted, what is stopped was asked for. *)

DoorsOwn == StopsAsked /\ DoorsOfPods /\ ScriptSubmitted /\ JobsSubmitted

LEMMA DoorsForward ==
  ASSUME DoorsOwn, Forward, UNCHANGED remoteVars
  PROVE  DoorsOwn'
<1>1. StopsAsked'
  BY DEF DoorsOwn, StopsAsked, Forward, remoteVars, Asked
<1>2. DoorsOfPods' /\ ScriptSubmitted' /\ JobsSubmitted'
  BY DEF DoorsOwn, DoorsOfPods, ScriptSubmitted, JobsSubmitted, IsSubmitted, remoteVars
<1>3. QED
  BY <1>1, <1>2 DEF DoorsOwn

LEMMA JobContainers ==
  ASSUME RemoteTypeOK, JobEffect
  PROVE  \A j \in DOMAIN job' :
            \/ j \in DOMAIN job /\ job'[j].ctr = job[j].ctr
            \/ \E i \in Instance : script[i] # None /\ job'[j].ctr = script[i]
<1>1. CASE UNCHANGED job
  BY <1>1
<1>2. CASE JobBegins
  <2>1. PICK i \in Instance :
          /\ script[i] # None
          /\ job' = Append(job, [ctr |-> script[i], st |-> "active", code |-> None])
    BY <1>2 DEF JobBegins
  <2> DEFINE r == [ctr |-> script[i], st |-> "active", code |-> None]
  <2>2. r \in SlurmJob /\ r.ctr = script[i]
    BY <2>1 DEF RemoteTypeOK, SlurmJob
  <2>3. job' = Append(job, r)
    BY <2>1
  <2> HIDE DEF r
  <2>4. /\ DOMAIN job' = DOMAIN job \cup {Len(job) + 1}
        /\ \A j \in DOMAIN job : job'[j] = job[j]
        /\ job'[Len(job) + 1] = r
    BY <2>2, <2>3, SeqAppend DEF RemoteTypeOK
  <2>5. QED
    BY <2>1, <2>2, <2>4
<1>3. CASE JobFinishes
  <2>1. PICK j \in DOMAIN job, code \in Code :
          job' = [job EXCEPT ![j] = [@ EXCEPT !.st = "done", !.code = code]]
    BY <1>3 DEF JobFinishes
  <2>2. JobMoved(j, "done", code)
    BY <2>1, JobEndUpdate
  <2>3. QED
    BY <2>2 DEF JobMoved
<1>4. CASE JobIsKilled
  <2>1. PICK j \in DOMAIN job : job' = [job EXCEPT ![j].st = "lost"]
    BY <1>4 DEF JobIsKilled
  <2>2. JobMoved(j, "lost", job[j].code)
    BY <2>1, JobStUpdate DEF JobStates
  <2>3. QED
    BY <2>2 DEF JobMoved
<1>5. CASE JobIsCancelled
  <2>1. PICK j \in DOMAIN job : job' = [job EXCEPT ![j].st = "cancelled"]
    BY <1>5 DEF JobIsCancelled
  <2>2. JobMoved(j, "cancelled", job[j].code)
    BY <2>1, JobStUpdate DEF JobStates
  <2>3. QED
    BY <2>2 DEF JobMoved
<1>6. QED
  BY <1>1, <1>2, <1>3, <1>4, <1>5 DEF JobEffect

LEMMA RemoteOwned ==
  ASSUME RemoteInv, DoorsOwn, Forward, RemoteStep
  PROVE  DoorsOwn'
<1>1. SameDoors /\ ScriptsFromDoors /\ JobEffect
  BY RemoteEffect
<1>2. StopsAsked' /\ DoorsOfPods'
  <2>1. StopsAsked'
    BY <1>1 DEF DoorsOwn, StopsAsked, Forward, SameDoors, Asked
  <2>2. DoorsOfPods'
    BY <1>1 DEF DoorsOwn, DoorsOfPods, SameDoors
  <2>3. QED
    BY <2>1, <2>2
<1>3. \A c : IsSubmitted(c) => IsSubmitted(c)'
  BY <1>1 DEF IsSubmitted, SameDoors
<1>4. ScriptSubmitted'
  <2> SUFFICES ASSUME NEW i \in Instance, script'[i] # None
               PROVE  IsSubmitted(script[i])'
    BY DEF ScriptSubmitted
  <2>1. CASE script'[i] = script[i]
    <3>1. PICK d \in DOMAIN door : door[d].act = "submit" /\ door[d].ctr = script[i]
      BY <2>1 DEF DoorsOwn, ScriptSubmitted, IsSubmitted
    <3>2. QED
      BY <1>1, <2>1, <3>1 DEF IsSubmitted, SameDoors
  <2>2. CASE \E d \in DOMAIN door : door[d].act = "submit" /\ script'[i] = door[d].ctr
    BY <1>1, <2>2 DEF IsSubmitted, SameDoors
  <2>3. QED
    BY <1>1, <2>1, <2>2 DEF ScriptsFromDoors
<1>5. JobsSubmitted'
  <2> SUFFICES ASSUME NEW j \in DOMAIN job'
               PROVE  \E d \in DOMAIN door' :
                        door'[d].act = "submit" /\ door'[d].ctr = job'[j].ctr
    BY DEF JobsSubmitted, IsSubmitted
  <2>1. PICK d \in DOMAIN door : door[d].act = "submit" /\ door[d].ctr = job'[j].ctr
    BY <1>1, JobContainers DEF RemoteInv, DoorsOwn, JobsSubmitted, ScriptSubmitted, IsSubmitted
  <2>2. QED
    BY <1>1, <2>1 DEF SameDoors
<1>6. QED
  BY <1>2, <1>4, <1>5 DEF DoorsOwn

(* A door for a container of a pod, that stops only what was asked for. *)
LEMMA LaunchOwned ==
  ASSUME RemoteInv, DoorsOwn, Forward, NEW mode \in {"submit", "stop"},
         NEW u \in Uid, NEW c \in ContainersOf(u), NEW ok \in BOOLEAN,
         mode = "stop" => Asked(u), c \in Container, RemoteExecution(mode, c, ok)
  PROVE  DoorsOwn'
<1>1. CASE UNCHANGED door
  BY <1>1, DoorsForward DEF RemoteExecution, remoteVars
<1>2. CASE Launch(mode, c)
  <2>1. PICK r \in DoorProcess : door' = Append(door, r) /\ r.act = mode /\ r.ctr = c
    BY <1>2 DEF Launch, runRemoteExecutionInstance, stopRemoteExecutionInstance, DoorProcess
  <2>2. /\ DOMAIN door' = DOMAIN door \cup {Len(door) + 1}
        /\ \A d \in DOMAIN door : door'[d] = door[d]
        /\ door'[Len(door) + 1] = r
        /\ UNCHANGED <<job, script>>
    BY <2>1, SeqAppend DEF RemoteInv, RemoteTypeOK, RemoteExecution
  <2>3. StopsAsked'
    BY <2>1, <2>2 DEF DoorsOwn, StopsAsked, Forward, Asked
  <2>4. DoorsOfPods'
    BY <2>1, <2>2 DEF DoorsOwn, DoorsOfPods
  <2>5. ScriptSubmitted' /\ JobsSubmitted'
    BY <2>2 DEF DoorsOwn, ScriptSubmitted, JobsSubmitted, IsSubmitted
  <2>6. QED
    BY <2>3, <2>4, <2>5 DEF DoorsOwn
<1>3. QED
  BY <1>1, <1>2 DEF RemoteExecution

LEMMA OneOf ==
  ASSUME NEW s \in Seq(Container), NEW i \in Nat \ {0}, i <= Len(s)
  PROVE  s[i] \in Elems(s) /\ s[i] \in Container
BY DEF Elems

LEMMA OneOfTwo ==
  ASSUME NEW s \in Seq(Container), NEW t \in Seq(Container),
         NEW i \in Nat \ {0}, i <= Len(s \o t)
  PROVE  (s \o t)[i] \in Elems(s) \cup Elems(t) /\ (s \o t)[i] \in Container
<1>1. Len(s) \in Nat /\ Len(t) \in Nat
  BY LenProperties
<1>2. /\ Len(s \o t) = Len(s) + Len(t)
      /\ \A j \in 1..Len(s) + Len(t) :
           (s \o t)[j] = IF j <= Len(s) THEN s[j] ELSE t[j - Len(s)]
  BY ConcatProperties
<1>3. CASE i <= Len(s)
  BY <1>1, <1>2, <1>3, OneOf
<1>4. CASE i > Len(s)
  <2>1. i - Len(s) \in Nat \ {0} /\ i - Len(s) <= Len(t)
    BY <1>1, <1>2, <1>4
  <2>2. (s \o t)[i] = t[i - Len(s)]
    BY <1>1, <1>2, <1>4
  <2>3. QED
    BY <2>1, <2>2, OneOf
<1>5. QED
  BY <1>1, <1>3, <1>4

LEMMA ListedContainers ==
  ASSUME NEW u \in Uid, NEW i \in Nat \ {0}
  PROVE  /\ i <= Len(CreateList(u)) =>
              CreateList(u)[i] \in ContainersOf(u) /\ CreateList(u)[i] \in Container
         /\ i <= Len(DeleteList(u)) =>
              DeleteList(u)[i] \in ContainersOf(u) /\ DeleteList(u)[i] \in Container
         /\ i <= Len(MainOf[u]) =>
              MainOf[u][i] \in ContainersOf(u) /\ MainOf[u][i] \in Container
<1>1. InitOf[u] \in Seq(Container) /\ MainOf[u] \in Seq(Container)
  BY ProviderAssumption
<1>2. i <= Len(DeleteList(u)) => /\ DeleteList(u)[i] \in ContainersOf(u)
                                 /\ DeleteList(u)[i] \in Container
  BY <1>1, OneOfTwo DEF DeleteList, ContainersOf
<1>3. /\ i <= Len(MainOf[u]) => MainOf[u][i] \in ContainersOf(u) /\ MainOf[u][i] \in Container
      /\ i <= Len(InitOf[u]) => InitOf[u][i] \in ContainersOf(u) /\ InitOf[u][i] \in Container
  BY <1>1, OneOf DEF ContainersOf
<1>4. QED
  BY <1>2, <1>3 DEF CreateList

LEMMA HandlerDoors ==
  ASSUME RemoteInv, ProviderInv, DoorsOwn, DeletesAsked, Forward,
         NEW k \in Key, HandlerStep(k)
  PROVE  DoorsOwn'
<1>1. /\ call[k].op \in {"create", "delete"}
      /\ call[k].pod.uid \in Uid /\ call[k].idx \in Nat \ {0}
  BY CallFacts, PodFacts DEF HandlerStep, CreateContainer, CreateStore,
     DeleteContainer, DeleteForget
<1> DEFINE u == call[k].pod.uid
           i == call[k].idx
<1>2. CASE CreateContainer(k)
  <2>1. PICK ok \in BOOLEAN : RemoteExecution("submit", CreateList(u)[i], ok)
    BY <1>2 DEF CreateContainer
  <2>2. CreateList(u)[i] \in ContainersOf(u) /\ CreateList(u)[i] \in Container
    BY <1>1, <1>2, ListedContainers DEF CreateContainer
  <2>3. QED
    BY <1>1, <2>1, <2>2, LaunchOwned
<1>3. CASE DeleteContainer(k)
  <2>1. PICK ok \in BOOLEAN : RemoteExecution("stop", DeleteList(u)[i], ok)
    BY <1>3 DEF DeleteContainer
  <2>2. DeleteList(u)[i] \in ContainersOf(u) /\ DeleteList(u)[i] \in Container
    BY <1>1, <1>3, ListedContainers DEF DeleteContainer
  <2>3. Asked(u)
    BY <1>3 DEF DeleteContainer, DeletesAsked
  <2>4. QED
    BY <1>1, <2>1, <2>2, <2>3, LaunchOwned
<1>4. CASE CreateStore(k) \/ DeleteForget(k)
  BY <1>4, DoorsForward DEF CreateStore, DeleteForget
<1>5. QED
  BY <1>2, <1>3, <1>4 DEF HandlerStep

LEMMA PollDoors ==
  ASSUME RemoteInv, ProviderInv, DoorsOwn, Forward, PollStep
  PROVE  DoorsOwn'
<1>1. CASE startMainContainers
  <2>1. /\ Held.uid \in Uid /\ poll.idx \in Nat \ {0} /\ poll.idx <= Len(MainOf[Held.uid])
    BY <1>1, HandFacts DEF startMainContainers, Working
  <2>2. PICK ok \in BOOLEAN : RemoteExecution("submit", MainOf[Held.uid][poll.idx], ok)
    BY <1>1 DEF startMainContainers
  <2>3. QED
    BY <2>1, <2>2, ListedContainers, LaunchOwned
<1>2. CASE UNCHANGED remoteVars
  BY <1>2, DoorsForward
<1>3. QED
  BY <1>1, <1>2 DEF PollStep, PollBegin, PollEnd, PollSkip, PollFirstPass, PollPick,
     PollInitContainer, PollInitDone, PollStarted, PollMainContainer, PollMainDone

-----------------------------------------------------------------------------
(* Users and the controller. *)

LEMMA LifeForward ==
  ASSUME ControlInv, ObjectsOwned, NEW u \in Uid, NEW l,
         api' = [api EXCEPT ![u].life = l],
         \/ l \in {"deleting", "removed", "gone"}
         \/ l = "live" /\ api[u].life = "none"
  PROVE  Forward /\ ObjectsOwned'
<1>1. \A v \in Uid : /\ api'[v].pod = api[v].pod
                     /\ api'[v].life = IF v = u THEN l ELSE api[v].life
  BY DEF ControlInv, ApiObject
<1>2. Forward
  BY <1>1 DEF Forward, Asked
<1>3. QED
  BY <1>1, <1>2 DEF ObjectsOwned, Forward, Asked

LEMMA ObjectForward ==
  ASSUME ControlInv, ObjectsOwned, NEW u \in Uid, NEW p \in Pod,
         api' = [api EXCEPT ![u].pod = p],
         p.uid = u, p.reason = "deleted" => Asked(u)
  PROVE  Forward /\ ObjectsOwned'
<1>1. \A v \in Uid : /\ api'[v].life = api[v].life
                     /\ api'[v].pod = IF v = u THEN p ELSE api[v].pod
  BY DEF ControlInv, ApiObject
<1>2. QED
  BY <1>1 DEF ObjectsOwned, Forward, Asked

LEMMA CopiesStay ==
  ASSUME ProviderTypeOK', CopiesOwned, Forward, UNCHANGED <<pods, poll, mail>>,
         \A x \in Key : BelongsTo(x, call'[x].pod)
  PROVE  CopiesOwned'
BY CopiesForward DEF CopiesOwned

LEMMA ProviderWaits ==
  ASSUME ProviderInv, ProviderTypeOK', CopiesOwned, DeletesAsked, Forward,
         UNCHANGED providerVars
  PROVE  CopiesOwned' /\ DeletesAsked'
<1>1. CopiesOwned'
  BY CopiesStay DEF CopiesOwned, providerVars
<1>2. DeletesAsked'
  <2> SUFFICES ASSUME NEW x \in Key, call'[x].op = "delete"
               PROVE  Asked(call[x].pod.uid)'
    BY DEF DeletesAsked
  <2>1. call[x].op = "delete" /\ call'[x] = call[x]
    BY DEF providerVars
  <2>2. Asked(call[x].pod.uid) /\ call[x].pod.uid \in Uid
    BY <2>1, CallFacts, PodFacts DEF DeletesAsked
  <2>3. QED
    BY <2>1, <2>2 DEF Forward, Asked
<1>3. QED
  BY <1>1, <1>2

(* The controller calls a handler with a pod of the key; one whose deletion *)
(* was asked for, when it calls DeletePod.                                  *)
LEMMA CallOwned ==
  ASSUME ProviderInv, ProviderTypeOK', CopiesOwned, DeletesAsked, Forward,
         NEW k \in Key, NEW p \in Pod, BelongsTo(k, p),
         \/ CreatePod(k, p)
         \/ DeletePod(k, p) /\ Asked(p.uid)
  PROVE  CopiesOwned' /\ DeletesAsked'
<1>1. PICK c :
        /\ call' = [call EXCEPT ![k] = c] /\ UNCHANGED <<pods, poll, mail>>
        /\ c.op = "delete" => Asked(p.uid)
        /\ c.pod.uid = p.uid
        /\ c.pod.reason = None \/ (c.pod.reason = "deleted" /\ Asked(p.uid))
  <2>1. CASE CreatePod(k, p)
    <3> DEFINE c == [op |-> "create", pod |-> ResetPod(p), idx |-> 1]
    <3>1. call' = [call EXCEPT ![k] = c] /\ UNCHANGED <<pods, poll, mail>>
      BY <2>1 DEF CreatePod
    <3>2. c.op = "create" /\ c.pod = ResetPod(p)
      OBVIOUS
    <3> HIDE DEF c
    <3>3. c.op # "delete" /\ c.pod.uid = p.uid /\ c.pod.reason = None
      BY <3>2, PodShapes
    <3>4. QED
      BY <3>1, <3>3
  <2>2. CASE DeletePod(k, p) /\ Asked(p.uid)
    <3> DEFINE q == [p EXCEPT !.phase = "Succeeded", !.reason = "deleted"]
               c == [op |-> "delete", idx |-> 1, pod |-> q]
    <3>1. call' = [call EXCEPT ![k] = c] /\ UNCHANGED <<pods, poll, mail>>
      BY <2>2 DEF DeletePod
    <3>2. q.uid = p.uid /\ q.reason = "deleted"
      BY DEF Pod
    <3> HIDE DEF q
    <3>3. c.pod = q
      OBVIOUS
    <3> HIDE DEF c
    <3>4. QED
      BY <2>2, <3>1, <3>2, <3>3
  <2>3. QED
    BY <2>1, <2>2
<1>2. \A x \in Key : call'[x] = IF x = k THEN c ELSE call[x]
  BY <1>1 DEF ProviderInv, ProviderTypeOK
<1>3. p.uid \in Uid /\ p # None
  BY PodFacts, NoneAssumption
<1>4. BelongsTo(k, c.pod)
  BY <1>1, <1>3, ReasonFacts DEF BelongsTo
<1>5. CopiesOwned'
  BY <1>1, <1>2, <1>4, CopiesStay DEF CopiesOwned
<1>6. DeletesAsked'
  <2> SUFFICES ASSUME NEW x \in Key, call'[x].op = "delete"
               PROVE  Asked(call[x].pod.uid)'
    BY DEF DeletesAsked
  <2>1. CASE x = k
    <3>1. call'[x].pod.uid = p.uid /\ Asked(p.uid)
      BY <1>1, <1>2, <2>1
    <3>2. QED
      BY <1>3, <3>1 DEF Forward, Asked
  <2>2. CASE x # k
    <3>1. call'[x] = call[x] /\ call[x].op = "delete"
      BY <1>2, <2>2
    <3>2. Asked(call[x].pod.uid) /\ call[x].pod.uid \in Uid
      BY <3>1, CallFacts, PodFacts DEF DeletesAsked
    <3>3. QED
      BY <3>1, <3>2 DEF Forward, Asked
  <2>3. QED
    BY <2>1, <2>2
<1>7. QED
  BY <1>5, <1>6

LEMMA UpdateOwned ==
  ASSUME ProviderInv, ProviderTypeOK', CopiesOwned, DeletesAsked, api' = api,
         NEW k \in Key, NEW p \in Pod, BelongsTo(k, p), UpdatePod(k, p)
  PROVE  CopiesOwned' /\ DeletesAsked'
<1>1. StoreByHandler(k, p) /\ UNCHANGED call
  BY DEF UpdatePod
<1>2. /\ \A x \in Key : pods'[x] = IF x = k THEN p ELSE pods[x]
      /\ \A x \in Key : mail'[x] = IF x = k THEN p ELSE mail[x]
      /\ poll'.key = poll.key
      /\ \/ poll'.orphan = poll.orphan
         \/ poll.key = k /\ Working /\ poll'.orphan = pods[k]
  BY <1>1, StoreEffect DEF ProviderInv
<1>3. CopiesOwned'
  BY <1>1, <1>2, ApiUntouched, CopiesForward DEF CopiesOwned
<1>4. DeletesAsked'
  BY <1>1 DEF DeletesAsked, Asked
<1>5. QED
  BY <1>3, <1>4

LEMMA KubeletOwned ==
  ASSUME SafeInv, SafeInv', OwnInv, NEW u \in Uid, KubeletStep(u)
  PROVE  OwnInv'
<1>1. /\ ProviderInv /\ ControlInv /\ ProviderTypeOK' /\ RemoteInv
      /\ CopiesOwned /\ ObjectsOwned /\ DeletesAsked /\ DoorsOwn
      /\ KeyOf[u] \in Key /\ api[u].pod \in Pod
  BY SafeInvSplits, ProviderAssumption DEF SafeInv, TypeOK, OwnInv, DoorsOwn, ControlInv,
     ApiObject
<1>2. UNCHANGED remoteVars
  BY DEF KubeletStep, KubeletCreate, KubeletUpdate, KubeletDelete, KubeletDeleteRemoved,
     KubeletForget, KubeletRemove, CreatePod, UpdatePod, DeletePod
<1>3. api[u].life # "none" => BelongsTo(KeyOf[u], api[u].pod)
  BY <1>1 DEF BelongsTo, ObjectsOwned
<1>4. CASE KubeletCreate(u)
  <2>1. CreatePod(KeyOf[u], api[u].pod) /\ api' = api /\ api[u].life = "live"
    BY <1>4 DEF KubeletCreate
  <2>2. Forward /\ ObjectsOwned'
    BY <1>1, <2>1, ApiUntouched
  <2>3. QED
    BY <1>1, <1>2, <1>3, <2>1, <2>2, CallOwned, DoorsForward DEF OwnInv, DoorsOwn
<1>5. CASE KubeletUpdate(u)
  <2>1. UpdatePod(KeyOf[u], api[u].pod) /\ api' = api /\ api[u].life = "live"
    BY <1>5 DEF KubeletUpdate
  <2>2. Forward /\ ObjectsOwned'
    BY <1>1, <2>1, ApiUntouched
  <2>3. QED
    BY <1>1, <1>2, <1>3, <2>1, <2>2, UpdateOwned, DoorsForward DEF OwnInv, DoorsOwn
<1>6. CASE KubeletDelete(u)
  <2>1. /\ DeletePod(KeyOf[u], api[u].pod) /\ api' = api /\ api[u].life = "deleting"
    BY <1>6 DEF KubeletDelete
  <2>2. Forward /\ ObjectsOwned'
    BY <1>1, <2>1, ApiUntouched
  <2>3. Asked(api[u].pod.uid)
    BY <1>1, <2>1 DEF ObjectsOwned, Asked
  <2>4. QED
    BY <1>1, <1>2, <1>3, <2>1, <2>2, <2>3, CallOwned, DoorsForward DEF OwnInv, DoorsOwn
<1>7. CASE KubeletDeleteRemoved(u)
  <2> DEFINE p == pods[KeyOf[u]]
  <2>1. /\ DeletePod(KeyOf[u], p) /\ api' = [api EXCEPT ![u].life = "gone"] /\ p # None
    BY <1>7 DEF KubeletDeleteRemoved, DeletePod
  <2>2. p \in Pod /\ p.uid \in Uid /\ BelongsTo(KeyOf[u], p)
    BY <1>1, <2>1, TypeFacts, PodFacts DEF CopiesOwned, ProviderInv, ProviderTypeOK
  <2>3. Forward /\ ObjectsOwned'
    BY <1>1, <2>1, LifeForward
  <2>4. Asked(p.uid)
    <3>1. KeyOf[p.uid] = KeyOf[u] /\ api[p.uid].life # "none"
      BY <2>1, <2>2 DEF BelongsTo
    <3>2. ~Present(p.uid)
      BY <1>7, <2>2, <3>1 DEF KubeletDeleteRemoved, Owned
    <3>3. api[p.uid].life \in {"none", "live", "deleting", "removed", "gone"}
      BY <1>1, <2>2 DEF ControlInv, ApiObject
    <3>4. QED
      BY <3>1, <3>2, <3>3 DEF Present, Asked
  <2>5. QED
    BY <1>1, <1>2, <2>1, <2>2, <2>3, <2>4, CallOwned, DoorsForward DEF OwnInv, DoorsOwn
<1>8. CASE KubeletForget(u) \/ KubeletRemove(u)
  <2>1. UNCHANGED providerVars
    BY <1>8 DEF KubeletForget, KubeletRemove
  <2>2. Forward /\ ObjectsOwned'
    BY <1>1, <1>8, LifeForward DEF KubeletForget, KubeletRemove
  <2>3. QED
    BY <1>1, <1>2, <2>1, <2>2, ProviderWaits, DoorsForward DEF OwnInv, DoorsOwn
<1>9. QED
  BY <1>4, <1>5, <1>6, <1>7, <1>8 DEF KubeletStep

LEMMA UserOwned ==
  ASSUME SafeInv, SafeInv', OwnInv, UserStep
  PROVE  OwnInv'
<1>1. /\ ProviderInv /\ ControlInv /\ ProviderTypeOK' /\ RemoteInv
      /\ CopiesOwned /\ ObjectsOwned /\ DeletesAsked /\ DoorsOwn
  BY SafeInvSplits DEF SafeInv, TypeOK, OwnInv, DoorsOwn
<1>2. UNCHANGED <<remoteVars, providerVars>>
  BY DEF UserStep, UserCreate, UserEdit, UserDelete, UserForceDelete
<1>3. Forward /\ ObjectsOwned'
  <2>1. PICK u \in Uid :
          UserCreate(u) \/ UserEdit(u) \/ UserDelete(u) \/ UserForceDelete(u)
    BY DEF UserStep
  <2>2. CASE UserEdit(u)
    <3> DEFINE p == [api[u].pod EXCEPT !.gen = api[u].pod.gen + 1]
    <3>1. api' = [api EXCEPT ![u].pod = p]
      BY <1>1, <2>2 DEF UserEdit, ControlInv, ApiObject
    <3>2. api[u].pod \in Pod /\ api[u].pod.gen + 1 \in Nat
      BY <1>1 DEF ControlInv, ApiObject, Pod
    <3>3. p \in Pod /\ p.uid = api[u].pod.uid /\ p.reason = api[u].pod.reason
      BY <3>2 DEF Pod
    <3> HIDE DEF p
    <3>4. p.uid = u /\ (p.reason = "deleted" => Asked(u))
      BY <1>1, <3>3 DEF ObjectsOwned
    <3>5. QED
      BY <1>1, <3>1, <3>3, <3>4, ObjectForward
  <2>3. CASE UserCreate(u)
    BY <1>1, <2>3, LifeForward DEF UserCreate
  <2>4. CASE UserDelete(u)
    BY <1>1, <2>4, LifeForward DEF UserDelete
  <2>5. CASE UserForceDelete(u)
    BY <1>1, <2>5, LifeForward DEF UserForceDelete
  <2>6. QED
    BY <2>1, <2>2, <2>3, <2>4, <2>5
<1>4. QED
  BY <1>1, <1>2, <1>3, ProviderWaits, DoorsForward DEF OwnInv, DoorsOwn

LEMMA SyncOwned ==
  ASSUME SafeInv, SafeInv', OwnInv, NEW k \in Key, KubeletSync(k)
  PROVE  OwnInv'
<1>1. /\ ProviderInv /\ ControlInv /\ ProviderTypeOK' /\ RemoteInv
      /\ CopiesOwned /\ ObjectsOwned /\ DeletesAsked /\ DoorsOwn
  BY SafeInvSplits DEF SafeInv, TypeOK, OwnInv, DoorsOwn
<1>2. UNCHANGED <<remoteVars, providerVars>> /\ mail[k] # None
  BY DEF KubeletSync
<1>3. /\ mail[k] \in Pod /\ mail[k].uid \in Uid
      /\ api[mail[k].uid].pod.gen \in Nat
      /\ mail[k].reason = "deleted" => Asked(mail[k].uid)
  BY <1>1, <1>2 DEF ProviderInv, ProviderTypeOK, Pod, ControlInv, ApiObject,
     CopiesOwned, BelongsTo
<1> DEFINE p == [mail[k] EXCEPT !.gen = api[mail[k].uid].pod.gen]
<1>4. p \in Pod /\ p.uid = mail[k].uid /\ p.reason = mail[k].reason
  BY <1>3 DEF Pod
<1>5. api' = [api EXCEPT ![mail[k].uid].pod = p]
  BY DEF KubeletSync
<1> HIDE DEF p
<1>6. Forward /\ ObjectsOwned'
  BY <1>1, <1>3, <1>4, <1>5, ObjectForward
<1>7. QED
  BY <1>1, <1>2, <1>6, ProviderWaits, DoorsForward DEF OwnInv, DoorsOwn

LEMMA CrashOwned ==
  ASSUME SafeInv, SafeInv', OwnInv, Crash
  PROVE  OwnInv'
<1>1. ProviderTypeOK' /\ ObjectsOwned /\ DoorsOwn
  BY DEF SafeInv, TypeOK, OwnInv, DoorsOwn
<1>2. Forward /\ ObjectsOwned'
  BY <1>1, ApiUntouched DEF Crash
<1>3. /\ \A x \in Key : /\ pods'[x] = None /\ mail'[x] = None
                        /\ call'[x].pod = None /\ call'[x].op = "none"
      /\ poll'.orphan = None
  BY DEF Crash, NoCall, IdlePoll
<1>4. CopiesOwned' /\ DeletesAsked'
  BY <1>1, <1>2, <1>3, NobodyBelongs, CopiesForward DEF DeletesAsked
<1>5. DoorsOwn'
  BY <1>1, <1>2, DoorsForward DEF Crash
<1>6. QED
  BY <1>2, <1>4, <1>5 DEF OwnInv, DoorsOwn

-----------------------------------------------------------------------------
LEMMA InitOwned == Init => OwnInv
<1> SUFFICES ASSUME Init PROVE OwnInv
  OBVIOUS
<1>1. /\ \A x \in Key : /\ pods[x] = None /\ mail[x] = None
                        /\ call[x].pod = None /\ call[x].op = "none"
      /\ poll.orphan = None
  BY DEF Init, ProviderInit, NoCall, IdlePoll
<1>2. CopiesOwned /\ DeletesAsked
  BY <1>1, NobodyBelongs DEF CopiesOwned, DeletesAsked
<1>3. ObjectsOwned
  BY ReasonFacts DEF Init, ObjectsOwned, FreshPod
<1>4. StopsAsked /\ DoorsOfPods /\ ScriptSubmitted /\ JobsSubmitted
  BY DEF Init, RemoteInit, StopsAsked, DoorsOfPods, ScriptSubmitted, JobsSubmitted
<1>5. QED
  BY <1>2, <1>3, <1>4 DEF OwnInv

LEMMA StepOwned ==
  ASSUME SafeInv, OwnInv, [Next]_vars
  PROVE  OwnInv'
<1>1. SafeInv'
  BY StepSafe
<1>2. /\ ProviderInv /\ ProviderTypeOK' /\ RemoteInv /\ RemoteTypeOK
      /\ CopiesOwned /\ ObjectsOwned /\ DeletesAsked /\ DoorsOwn
  BY <1>1, SafeInvSplits DEF SafeInv, TypeOK, OwnInv, DoorsOwn
<1>3. ControlUnchanged => Forward /\ ObjectsOwned'
  BY <1>2, ApiUntouched DEF ControlUnchanged
<1>4. CASE UserStep
  BY <1>1, <1>4, UserOwned
<1>5. CASE \E u \in Uid : KubeletStep(u)
  BY <1>1, <1>5, KubeletOwned
<1>6. CASE \E k \in Key : KubeletSync(k)
  BY <1>1, <1>6, SyncOwned
<1>7. CASE \E k \in Key : HandlerStep(k) /\ ControlUnchanged
  BY <1>2, <1>3, <1>7, HandlerOwned, HandlerDoors DEF OwnInv, DoorsOwn
<1>8. CASE PollStep /\ ControlUnchanged
  <2>1. CopiesOwned' /\ DoorsOwn'
    BY <1>2, <1>3, <1>8, PollOwned, PollDoors
  <2>2. DeletesAsked'
    BY <1>2, <1>8, PollOwned, <1>3 DEF DeletesAsked, ControlUnchanged, Asked
  <2>3. QED
    BY <1>3, <1>8, <2>1, <2>2 DEF OwnInv, DoorsOwn
<1>9. CASE RemoteStep /\ UNCHANGED providerVars /\ ControlUnchanged
  BY <1>2, <1>3, <1>9, RemoteOwned, ProviderWaits DEF OwnInv, DoorsOwn
<1>10. CASE Crash
  BY <1>1, <1>10, CrashOwned
<1>11. CASE (PollNothing /\ ControlUnchanged) \/ UNCHANGED vars
  <2>1. UNCHANGED <<remoteVars, providerVars>> /\ ControlUnchanged
    BY <1>11 DEF PollNothing, vars, ControlUnchanged
  <2>2. QED
    BY <1>2, <1>3, <2>1, ProviderWaits, DoorsForward DEF OwnInv, DoorsOwn
<1>12. QED
  BY <1>4, <1>5, <1>6, <1>7, <1>8, <1>9, <1>10, <1>11 DEF Next

(* Whatever the provider holds, notifies or is called with under a key is a *)
(* pod of that name; what it stops, and what it calls deleted, a user asked *)
(* to delete; and all that Slurm runs was submitted by the provider         *)
(* (knoc.go 132-327, remote.go 57-81, 267-453).                             *)
THEOREM OwnInvariant == Spec => []OwnInv
<1>1. Init => OwnInv
  BY InitOwned
<1>2. SafeInv /\ OwnInv /\ [Next]_vars => OwnInv'
  BY StepOwned
<1>3. QED
  BY <1>1, <1>2, SafeInvariant, PTL DEF Spec

LEMMA OwnInvCancels == SafeInv /\ OwnInv => OnlyDeletionCancels
<1> SUFFICES ASSUME SafeInv, OwnInv, NEW u \in Uid, api[u].life \in {"none", "live"},
                    NEW j \in DOMAIN job, job[j].ctr \in ContainersOf(u),
                    job[j].st = "cancelled"
             PROVE  FALSE
  BY DEF OnlyDeletionCancels
<1>1. PICK d \in DOMAIN door : door[d].act = "stop" /\ DoorInst(d) = InstOf[job[j].ctr]
  BY DEF SafeInv, RemoteInv, CancelHasStop
<1>2. PICK v \in Uid : door[d].ctr \in ContainersOf(v) /\ Asked(v)
  BY <1>1 DEF OwnInv, StopsAsked
<1>3. u = v
  BY <1>1, <1>2, UidInInstance DEF DoorInst
<1>4. QED
  BY <1>2, <1>3 DEF Asked

(* The job of a pod is cancelled only after a user has asked to delete the  *)
(* pod, whatever races, restarts and pods of the same name there are        *)
(* (knoc.go 272-327, door.go 196-213).                                      *)
THEOREM OnlyDeletionCancelsHolds == Spec => []OnlyDeletionCancels
BY SafeInvariant, OwnInvariant, OwnInvCancels, PTL

-----------------------------------------------------------------------------
(* What the map shows was notified. *)

LEMMA OthersTold ==
  ASSUME NotifiedInv, NEW k,
         \A x \in Key : x # k => pods'[x] = pods[x] /\ mail'[x] = mail[x],
         \A x \in Key : x # k /\ AtHand(x) => AtHand(x)',
         k \in Key /\ pods'[k] # None => Told(pods'[k], mail'[k]) \/ AtHand(k)'
  PROVE  NotifiedInv'
<1> SUFFICES ASSUME NEW x \in Key, pods'[x] # None
             PROVE  Told(pods'[x], mail'[x]) \/ AtHand(x)'
  BY DEF NotifiedInv, Stored
<1>1. CASE x = k
  BY <1>1
<1>2. CASE x # k
  BY <1>2 DEF NotifiedInv, Stored
<1>3. QED
  BY <1>1, <1>2

LEMMA ToldSame == \A p : Told(p, p)
BY DEF Told

LEMMA StoreTold ==
  ASSUME ProviderTypeOK, NotifiedInv, NEW k \in Key, NEW p, StoreByHandler(k, p)
  PROVE  NotifiedInv'
<1>1. /\ pods'[k] = p /\ mail'[k] = p
      /\ \A x \in Key : x # k => pods'[x] = pods[x] /\ mail'[x] = mail[x]
      /\ \A x \in Key : x # k /\ AtHand(x) => AtHand(x)'
  BY StoreEffect DEF AtHand
<1>2. QED
  BY <1>1, OthersTold, ToldSame

LEMMA ForgetTold ==
  ASSUME ProviderTypeOK, NotifiedInv, NEW k \in Key, DeleteForget(k)
  PROVE  NotifiedInv'
<1>1. /\ pods'[k] = None
      /\ \A x \in Key : x # k => pods'[x] = pods[x] /\ mail'[x] = mail[x]
      /\ \A x \in Key : x # k /\ AtHand(x) => AtHand(x)'
  BY ForgetEffect DEF AtHand
<1>2. QED
  BY <1>1, OthersTold

(* The poll writes into the pod in hand only when it will store it again.   *)
LEMMA WriteTold ==
  ASSUME ProviderTypeOK, PollHolds, Working, NotifiedInv,
         NEW p \in Pod, NEW q \in PollLocals, q.orphan = poll.orphan, q.key = poll.key,
         q.pc = "start" \/ (q.pc \in {"init", "main"} /\ q.dirty),
         Write(p, q), UNCHANGED mail
  PROVE  NotifiedInv'
<1>1. CASE poll.orphan = None
  <2>1. PICK k \in Key : k = poll.key
    BY DEF PollHolds
  <2>2. AtHand(k)'
    BY <1>1, <2>1, WriteEffect DEF AtHand
  <2>3. /\ \A x \in Key : x # k => pods'[x] = pods[x] /\ mail'[x] = mail[x]
        /\ \A x \in Key : x # k /\ AtHand(x) => AtHand(x)'
    BY <2>1, WriteEffect DEF AtHand
  <2>4. QED
    BY <2>2, <2>3, OthersTold
<1>2. CASE poll.orphan # None
  <2>1. UNCHANGED pods
    BY <1>2 DEF Write
  <2>2. QED
    BY <1>2, <2>1 DEF NotifiedInv, AtHand, Stored
<1>3. QED
  BY <1>1, <1>2

LEMMA LeaveTold ==
  ASSUME ProviderTypeOK, PollHolds, Working, NotifiedInv,
         NEW p \in Pod, NEW update \in BOOLEAN, Leave(p, update),
         update \/ (poll.pc # "start" /\ ~poll.dirty)
  PROVE  NotifiedInv'
<1>1. CASE update
  <2>1. /\ pods' = [pods EXCEPT ![poll.key] = p]
        /\ mail' = [mail EXCEPT ![poll.key] = p]
    BY <1>1 DEF Leave
  <2>2. pods \in [Key -> Pod \cup {None}] /\ mail \in [Key -> Pod \cup {None}]
    BY DEF ProviderTypeOK
  <2>3. /\ poll.key \in Key => pods'[poll.key] = p /\ mail'[poll.key] = p
        /\ \A x \in Key : x # poll.key => pods'[x] = pods[x] /\ mail'[x] = mail[x]
    BY <2>1, <2>2
  <2>4. \A x \in Key : x # poll.key => ~AtHand(x)
    BY DEF AtHand
  <2>5. QED
    BY <2>3, <2>4, OthersTold, ToldSame
<1>2. CASE ~update
  <2>1. UNCHANGED <<pods, mail>>
    BY <1>2 DEF Leave
  <2>2. \A x \in Key : ~AtHand(x)
    BY <1>2 DEF AtHand
  <2>3. QED
    BY <2>1, <2>2 DEF NotifiedInv, Stored
<1>3. QED
  BY <1>1, <1>2

(* The first pass gives statuses to a pod that has none.                    *)
LEMMA FirstPassTold ==
  ASSUME ProviderInv, NotifiedInv, NEW k \in Key, PollFirstPass(k)
  PROVE  NotifiedInv'
<1> DEFINE n == Len(InitOf[pods[k].uid])
           t == All(Running, n)
           p == [pods[k] EXCEPT !.ist = t]
<1>1. /\ poll.pc = "next" /\ k \in poll.todo /\ pods[k].phase = "Running"
      /\ Len(pods[k].ist) < n
      /\ pods' = [pods EXCEPT ![k] = p] /\ UNCHANGED mail
  BY DEF PollFirstPass
<1>2. k \in Stored /\ pods[k] \in Pod /\ ProviderTypeOK
  BY <1>1, TypeFacts DEF ProviderInv, PollHolds, Stored
<1>3. n \in Nat /\ pods[k].ist \in Seq(ContainerStatus)
  BY <1>2, PodFacts
<1>4. pods[k].ist = <<>>
  <2>1. Settled(pods[k])
    BY <1>1, <1>2 DEF ProviderInv, StoredSettled, Starting
  <2>2. Len(pods[k].ist) = 0
    BY <1>1, <1>3, <2>1 DEF Settled
  <2>3. QED
    BY <1>3, <2>2, EmptySeq
<1>5. \A x : ~AtHand(x)
  BY <1>1 DEF AtHand
<1>6. mail[k] = pods[k]
  <2>1. Told(pods[k], mail[k])
    BY <1>2, <1>5 DEF NotifiedInv
  <2>2. [pods[k] EXCEPT !.ist = <<>>] = pods[k]
    BY <1>2, <1>4 DEF Pod
  <2>3. QED
    BY <2>1, <2>2 DEF Told
<1>7. \A i \in DOMAIN t : t[i].st = "running"
  BY <1>3 DEF All, Running
<1> HIDE DEF t
<1>8. p.ist = t /\ [p EXCEPT !.ist = <<>>] = pods[k]
  BY <1>2, <1>4 DEF Pod
<1> HIDE DEF p
<1>9. Told(p, mail[k])
  BY <1>6, <1>7, <1>8 DEF Told
<1>10. /\ pods'[k] = p /\ mail' = mail
       /\ \A x \in Key : x # k => pods'[x] = pods[x]
  BY <1>1, <1>2 DEF ProviderTypeOK
<1>11. QED
  BY <1>5, <1>9, <1>10, OthersTold

LEMMA ContainerTold ==
  ASSUME ProviderInv, RemoteTypeOK, NotifiedInv, PollInitContainer \/ PollMainContainer
  PROVE  NotifiedInv'
<1>1. /\ Working /\ poll \in PollLocals /\ UNCHANGED mail
      /\ poll.pc \in {"init", "main"} /\ ProviderTypeOK /\ PollHolds
  BY DEF PollInitContainer, PollMainContainer, Working, ProviderInv, ProviderTypeOK
<1>2. ASSUME NEW good \in BOOLEAN, NEW wrote \in BOOLEAN
      PROVE  LET q == Counted(good, wrote) IN
             /\ q \in PollLocals /\ q.orphan = poll.orphan /\ q.key = poll.key
             /\ q.pc = poll.pc /\ q.dirty = (poll.dirty \/ wrote)
  <2> DEFINE g == IF good THEN poll.good + 1 ELSE poll.good
             d == poll.dirty \/ wrote
             n == poll.idx + 1
             l == poll.left - 1
             q == [poll EXCEPT !.idx = n, !.left = l, !.good = g, !.dirty = d]
  <2>1. g \in Nat /\ n \in Nat /\ l \in Int
    BY <1>1 DEF PollLocals
  <2>2. d \in BOOLEAN
    OBVIOUS
  <2>3. Counted(good, wrote) = q
    BY Zenon DEF Counted
  <2> HIDE DEF g, d, n, l
  <2>4. /\ q \in PollLocals /\ q.orphan = poll.orphan /\ q.key = poll.key
        /\ q.pc = poll.pc /\ q.dirty = d
    BY <1>1, <2>1, <2>2 DEF PollLocals
  <2> HIDE DEF q
  <2>5. QED
    BY <2>3, <2>4 DEF d
<1>3. /\ NotYet.orphan = poll.orphan /\ NotYet.key = poll.key
      /\ NotYet.pc = poll.pc /\ NotYet.dirty = poll.dirty
  BY <1>1 DEF NotYet, PollLocals
<1>4. ASSUME UNCHANGED pods, poll'.orphan = poll.orphan, poll'.key = poll.key,
             poll'.pc = poll.pc, poll'.dirty = poll.dirty
      PROVE  NotifiedInv'
  BY <1>1, <1>4 DEF NotifiedInv, AtHand, Stored
<1>5. ASSUME NEW p \in Pod, NEW good \in BOOLEAN, Write(p, Counted(good, TRUE))
      PROVE  NotifiedInv'
  <2> DEFINE q == Counted(good, TRUE)
  <2>1. /\ q \in PollLocals /\ q.orphan = poll.orphan /\ q.key = poll.key
        /\ q.pc = poll.pc /\ q.dirty
    BY <1>2
  <2>2. Write(p, q)
    BY <1>5
  <2> HIDE DEF q
  <2>3. QED
    BY <1>1, <2>1, <2>2, WriteTold
<1>6. ASSUME NEW good \in BOOLEAN, poll' = Counted(good, FALSE), UNCHANGED pods
      PROVE  NotifiedInv'
  <2> DEFINE q == Counted(good, FALSE)
  <2>1. /\ q.orphan = poll.orphan /\ q.key = poll.key /\ q.pc = poll.pc
        /\ q.dirty = (poll.dirty \/ FALSE)
    BY <1>2
  <2>2. poll' = q /\ poll.dirty \in BOOLEAN
    BY <1>1, <1>6 DEF PollLocals
  <2> HIDE DEF q
  <2>3. QED
    BY <1>4, <1>6, <2>1, <2>2
<1>7. CASE PollInitContainer
  BY <1>1, <1>3, <1>4, <1>5, <1>6, <1>7, InitEffect
<1>8. CASE PollMainContainer
  BY <1>1, <1>3, <1>4, <1>5, <1>6, <1>8, MainEffect
<1>9. QED
  BY <1>7, <1>8

LEMMA PollTold ==
  ASSUME ProviderInv, RemoteTypeOK, NotifiedInv, PollStep
  PROVE  NotifiedInv'
<1>0. ProviderTypeOK /\ PollHolds
  BY DEF ProviderInv
<1>1. CASE PollBegin \/ PollEnd \/ \E k \in Key : PollSkip(k)
  BY <1>1, BetweenEffect DEF NotifiedInv, AtHand, Stored
<1>2. ASSUME NEW k \in Key, PollPick(k) PROVE NotifiedInv'
  BY <1>2, PickEffect DEF NotifiedInv, AtHand, Stored
<1>3. CASE PollInitDone
  <2>1. Working /\ Held \in Pod /\ poll.dirty \in BOOLEAN /\ poll.pc = "init"
    BY <1>3, HandFacts DEF PollInitDone, Working
  <2>2. QED
    BY <1>0, <1>3, <2>1, InitDoneEffect, WriteTold, LeaveTold
<1>4. CASE startMainContainers
  <2>1. Working /\ poll \in PollLocals /\ poll.pc = "start" /\ UNCHANGED mail
    BY <1>4, HandFacts DEF startMainContainers, Working
  <2>2. /\ NotYet \in PollLocals /\ NotYet.orphan = poll.orphan
        /\ NotYet.key = poll.key /\ NotYet.pc = "start"
    BY <2>1 DEF NotYet, PollLocals
  <2>3. QED
    BY <1>0, <1>4, <2>1, <2>2, StartEffect, WriteTold
<1>5. CASE PollStarted
  <2>1. Working /\ Held \in Pod /\ Leave(Held, TRUE)
    BY <1>5, HandFacts DEF PollStarted, Working
  <2>2. QED
    BY <1>0, <2>1, LeaveTold
<1>6. CASE PollMainDone
  <2>1. Working /\ Held \in Pod /\ poll.dirty \in BOOLEAN /\ poll.pc = "main"
    BY <1>6, HandFacts DEF PollMainDone, Working
  <2>2. QED
    BY <1>0, <1>6, <2>1, MainDoneEffect, LeaveTold
<1>7. QED
  BY <1>1, <1>2, <1>3, <1>4, <1>5, <1>6, FirstPassTold, ContainerTold DEF PollStep

LEMMA HandlerTold ==
  ASSUME ProviderTypeOK, NotifiedInv, NEW k \in Key, HandlerStep(k)
  PROVE  NotifiedInv'
<1>1. CASE CreateContainer(k) \/ DeleteContainer(k)
  BY <1>1 DEF CreateContainer, DeleteContainer, NotifiedInv, AtHand, Stored
<1>2. CASE CreateStore(k)
  BY <1>2, StoreTold DEF CreateStore
<1>3. CASE DeleteForget(k)
  BY <1>3, ForgetTold
<1>4. QED
  BY <1>1, <1>2, <1>3 DEF HandlerStep

LEMMA KubeletTold ==
  ASSUME ProviderTypeOK, NotifiedInv, NEW u \in Uid, KubeletStep(u)
  PROVE  NotifiedInv'
<1>1. KeyOf[u] \in Key
  BY ProviderAssumption
<1>2. CASE KubeletUpdate(u)
  BY <1>1, <1>2, StoreTold DEF KubeletUpdate, UpdatePod
<1>3. CASE ~KubeletUpdate(u)
  <2>1. UNCHANGED <<pods, poll, mail>>
    BY <1>3 DEF KubeletStep, KubeletCreate, KubeletDelete, KubeletDeleteRemoved,
       KubeletForget, KubeletRemove, CreatePod, DeletePod, providerVars
  <2>2. QED
    BY <2>1 DEF NotifiedInv, AtHand, Stored
<1>4. QED
  BY <1>2, <1>3

LEMMA StepTold ==
  ASSUME SafeInv, NotifiedInv, [Next]_vars
  PROVE  NotifiedInv'
<1>1. ProviderInv /\ ProviderTypeOK /\ RemoteTypeOK
  BY SafeInvSplits DEF SafeInv, TypeOK
<1>2. CASE UNCHANGED providerVars
  BY <1>2 DEF providerVars, NotifiedInv, AtHand, Stored
<1>3. CASE UserStep \/ \E k \in Key : KubeletSync(k)
  BY <1>2, <1>3 DEF UserStep, UserCreate, UserEdit, UserDelete, UserForceDelete, KubeletSync
<1>4. CASE Crash
  BY <1>4 DEF Crash, NotifiedInv, Stored
<1>5. CASE PollNothing \/ UNCHANGED vars
  BY <1>2, <1>5 DEF PollNothing, vars
<1>6. QED
  BY <1>1, <1>2, <1>3, <1>4, <1>5, KubeletTold, HandlerTold, PollTold DEF Next

LEMMA NotifiedInvTells == NotifiedInv => NotifiedIsCurrent
BY DEF NotifiedInv, NotifiedIsCurrent, Told, AtHand, Working

(* Whatever the provider shows of a pod was passed to the notifier: each    *)
(* write of the poll into a stored pod is followed by an UpdatePod of it in *)
(* the same pass, and a handler that replaces the pod notifies at once, so  *)
(* that no status stays behind unannounced (remote.go 267-453, knoc.go      *)
(* 132-327).                                                                *)
THEOREM NotifiedIsCurrentHolds == Spec => []NotifiedIsCurrent
<1>1. Init => NotifiedInv
  BY DEF Init, ProviderInit, NotifiedInv, Stored
<1>2. SafeInv /\ NotifiedInv /\ [Next]_vars => NotifiedInv'
  BY StepTold
<1>3. QED
  BY <1>1, <1>2, SafeInvariant, NotifiedInvTells, PTL DEF Spec

=============================================================================
