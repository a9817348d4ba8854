----------------------------- MODULE SubmitProofs -----------------------------
(***************************************************************************)
(* How often a container is submitted: SubmitInv is inductive with SafeInv *)
(* and OwnInv, for any pods, containers, faults, edits and restarts, and   *)
(* SubmitsBounded follows.                                                 *)
(***************************************************************************)
EXTENDS KnocProofs, FiniteSetTheorems

(* Counting submissions. *)

LEMMA CountFacts ==
  ASSUME RemoteTypeOK, NEW c
  PROVE  IsFiniteSet(Submissions(c)) /\ Count(c) \in Nat
<1>1. door \in Seq(DoorProcess)
  BY DEF RemoteTypeOK
<1>2. Len(door) \in Nat /\ DOMAIN door = 1..Len(door)
  BY <1>1, LenProperties
<1>3. Submissions(c) \subseteq 1..Len(door)
  BY <1>2 DEF Submissions
<1>4. IsFiniteSet(1..Len(door))
  BY <1>2, FS_Interval
<1>5. QED
  BY <1>3, <1>4, FS_Subset, FS_CardinalityType DEF Count

LEMMA SameCount ==
  ASSUME SameDoors, NEW c
  PROVE  Count(c)' = Count(c)
BY DEF SameDoors, Count, Submissions

(* A call of ssh submits what it is asked to submit at most once more.      *)
LEMMA LaunchCounts ==
  ASSUME RemoteTypeOK, NEW mode \in {"submit", "stop"}, NEW c \in Container,
         NEW ok \in BOOLEAN, RemoteExecution(mode, c, ok)
  PROVE  /\ \A e : e # c \/ mode = "stop" => Count(e)' = Count(e)
         /\ Count(c)' \in {Count(c), Count(c) + 1}
<1>1. CASE UNCHANGED door
  BY <1>1 DEF Count, Submissions
<1>2. CASE Launch(mode, c)
  <2>1. PICK r \in DoorProcess : door' = Append(door, r) /\ r.act = mode /\ r.ctr = c
    BY <1>2 DEF Launch, runRemoteExecutionInstance, stopRemoteExecutionInstance, DoorProcess
  <2>2. /\ DOMAIN door' = DOMAIN door \cup {Len(door) + 1}
        /\ \A d \in DOMAIN door : door'[d] = door[d]
        /\ door'[Len(door) + 1] = r
    BY <2>1, SeqAppend DEF RemoteTypeOK
  <2>3. \A e : e # c \/ mode = "stop" => Submissions(e)' = Submissions(e)
    BY <2>1, <2>2 DEF Submissions
  <2>4. Submissions(c)' = Submissions(c) \/ Submissions(c)' = Submissions(c) \cup {Len(door) + 1}
    BY <2>1, <2>2 DEF Submissions
  <2>5. Count(c)' = Cardinality(Submissions(c)')
    BY DEF Count
  <2>6. Count(c)' \in {Count(c), Count(c) + 1}
    BY <2>4, <2>5, CountFacts, FS_AddElement DEF Count
  <2>7. QED
    BY <2>3, <2>6 DEF Count
<1>3. QED
  BY <1>1, <1>2 DEF RemoteExecution

-----------------------------------------------------------------------------
(* The parts of the system's state that pods are counted by. *)

LEMMA Ground ==
  ASSUME SafeInv, OwnInv, NEW u \in Uid
  PROVE  /\ ProviderTypeOK /\ PollHolds /\ ProviderInv /\ ControlInv /\ RemoteTypeOK
         /\ KeyOf[u] \in Key /\ crashes \in Nat /\ edits \in Nat
         /\ api[u].pod \in Pod /\ api[u].pod.uid = u /\ api[u].pod.gen \in Nat
         /\ api[u].life \in {"none", "live", "deleting", "removed", "gone"}
         /\ call[KeyOf[u]] \in HandlerCall
         /\ pods[KeyOf[u]] \in Pod \cup {None}
<1>1. ProviderInv /\ ControlInv /\ ProviderTypeOK /\ PollHolds /\ RemoteTypeOK
  BY SafeInvSplits DEF SafeInv, TypeOK
<1>2. KeyOf[u] \in Key
  BY ProviderAssumption
<1>3. /\ api[u] \in ApiObject /\ crashes \in Nat /\ edits \in Nat
  BY BoundsAssumption DEF SafeInv, TypeOK
<1>4. api[u].pod.uid = u
  BY DEF OwnInv, ObjectsOwned
<1>5. QED
  BY <1>1, <1>2, <1>3, <1>4 DEF ApiObject, Pod, ProviderTypeOK

(* A pod that is stored, in the poll's hand, or created was created in the  *)
(* API, and is handled under its own key.                                   *)
LEMMA CopiesLive ==
  ASSUME SafeInv, OwnInv, NEW u \in Uid
  PROVE  /\ IsStored(u) \/ InPollsHand(u) \/ Creating(u) => api[u].life # "none"
         /\ InPollsHand(u) => poll.key = KeyOf[u]
<1>1. ProviderInv /\ CopiesOwned /\ KeyOf[u] \in Key
  BY SafeInvSplits, ProviderAssumption DEF OwnInv
<1>2. IsStored(u) => api[u].life # "none"
  BY <1>1 DEF IsStored, CopiesOwned, BelongsTo
<1>3. InPollsHand(u) => api[u].life # "none" /\ poll.key = KeyOf[u]
  BY <1>1, HeldOwned, HandFacts, PodFacts DEF InPollsHand, BelongsTo
<1>4. Creating(u) => api[u].life # "none"
  BY <1>1, CallFacts, PodFacts DEF Creating, CopiesOwned, BelongsTo
<1>5. QED
  BY <1>2, <1>3, <1>4

(* The handler at work on a key works on a pod of that key. *)
LEMMA CallUnderKey ==
  ASSUME SafeInv, OwnInv, NEW k \in Key, call[k].op # "none"
  PROVE  /\ call[k].pod \in Pod /\ call[k].pod # None /\ call[k].pod.uid \in Uid
         /\ call[k].idx \in Nat \ {0} /\ call[k].pod.gen \in Nat
         /\ KeyOf[call[k].pod.uid] = k
         /\ call[k].op = "create" => Creating(call[k].pod.uid)
<1>1. ProviderInv /\ CopiesOwned
  BY SafeInvSplits DEF OwnInv
<1>2. /\ call[k].pod \in Pod /\ call[k].idx \in Nat \ {0} /\ call[k].pod # None
      /\ call[k].pod.uid \in Uid
  BY <1>1, CallFacts, PodFacts
<1>3. KeyOf[call[k].pod.uid] = k
  BY <1>1, <1>2 DEF CopiesOwned, BelongsTo
<1>4. QED
  BY <1>2, <1>3 DEF Creating, Pod

(* Another pod's containers are other containers. *)
LEMMA OtherContainers ==
  ASSUME NEW u \in Uid, NEW v \in Uid, NEW c \in ContainersOf(u), c \in ContainersOf(v)
  PROVE  u = v
BY UidInInstance

-----------------------------------------------------------------------------
(* A step that only lets a pod be where it was, with a copy as old as it    *)
(* was, keeps the bounds on how often its containers were submitted.        *)

SameStarts(p, q) == p.gen = q.gen /\ p.initialized = q.initialized

StaysCreated(u) ==
  /\ crashes' = crashes
  /\ Uncreated(u)' => Uncreated(u)
  /\ Creating(u)' => \/ Uncreated(u)
                     \/ Creating(u) /\ call'[KeyOf[u]].idx >= call[KeyOf[u]].idx

StaysStarted(u) ==
  /\ crashes' = crashes
  /\ api'[u].pod.gen >= api[u].pod.gen
  /\ Unstarted(u)' => Unstarted(u)
  /\ Creating(u)' =>
       \/ Creating(u) /\ call'[KeyOf[u]].pod.gen = call[KeyOf[u]].pod.gen
       \/ Unstarted(u) /\ call'[KeyOf[u]].pod.gen = api[u].pod.gen
  /\ IsStored(u)' /\ ~StartsAt(KeyOf[u])' =>
       LET p == pods'[KeyOf[u]] IN
       \/ IsStored(u) /\ ~StartsAt(KeyOf[u]) /\ SameStarts(p, pods[KeyOf[u]])
       \/ IsStored(u) /\ ~StartsAt(KeyOf[u]) /\ p.gen > pods[KeyOf[u]].gen
       \/ Unstarted(u) /\ p.gen = api[u].pod.gen
       \/ Creating(u) /\ p.gen = call[KeyOf[u]].pod.gen
       \/ /\ InPollsHand(u) /\ SameStarts(p, Held)
          /\ poll.pc = "start" => poll.idx > Len(MainOf[u])
  /\ InPollsHand(u)' =>
       \/ /\ InPollsHand(u) /\ SameStarts(Held', Held)
          /\ poll'.pc = poll.pc
          /\ poll.pc = "start" => poll'.idx >= poll.idx
       \/ /\ InPollsHand(u) /\ Held'.gen = Held.gen
          /\ poll.pc # "start" /\ ~Held.initialized
       \/ /\ IsStored(u) /\ ~StartsAt(KeyOf[u]) /\ poll'.pc # "start"
          /\ SameStarts(Held', pods[KeyOf[u]])

LEMMA CreatesKept ==
  ASSUME SafeInv, OwnInv, SafeInv', NEW u \in Uid, StaysCreated(u),
         NEW i \in DOMAIN CreateList(u), NEW c, Count(c)' = Count(c),
         CreateBounds(u, i, Count(c))
  PROVE  CreateBounds(u, i, Count(c))'
<1>1. /\ i \in Nat
      /\ call[KeyOf[u]].idx \in Nat /\ call'[KeyOf[u]].idx \in Nat
  <2>1. KeyOf[u] \in Key /\ CreateList(u) \in Seq(Container)
    BY ProviderAssumption DEF CreateList
  <2>2. i \in Nat
    BY <2>1
  <2>3. QED
    BY <2>1, <2>2 DEF SafeInv, TypeOK, ProviderTypeOK, HandlerCall
<1>2. QED
  BY <1>1 DEF StaysCreated, CreateBounds

LEMMA StartsKept ==
  ASSUME SafeInv, OwnInv, SafeInv', OwnInv', NEW u \in Uid, StaysStarted(u),
         NEW i \in DOMAIN MainOf[u], NEW c, Count(c)' = Count(c),
         StartBounds(u, i, Count(c))
  PROVE  StartBounds(u, i, Count(c))'
<1> DEFINE n == Count(c)
           k == KeyOf[u]
<1>1. n \in Nat /\ crashes \in Nat /\ api[u].pod.gen \in Nat /\ crashes' = crashes
  BY CountFacts, Ground DEF StaysStarted
<1>2. api'[u].pod.gen \in Nat /\ api'[u].pod.gen >= api[u].pod.gen
  BY DEF StaysStarted, SafeInv, TypeOK, ApiObject, Pod
<1>3. n <= crashes + api'[u].pod.gen + 1
  BY <1>1, <1>2 DEF StartBounds
<1>4. Unstarted(u)' => n <= crashes + api'[u].pod.gen
  BY <1>1, <1>2 DEF StartBounds, StaysStarted
<1>5. Creating(u)' => n <= crashes + call'[k].pod.gen
  BY DEF StartBounds, StaysStarted
<1>6. ASSUME IsStored(u)', ~StartsAt(k)'
      PROVE  n <= crashes + pods'[k].gen + IF pods'[k].initialized THEN 1 ELSE 0
  <2>1. pods'[k].gen \in Nat
    <3>1. pods' \in [Key -> Pod \cup {None}] /\ k \in Key /\ pods'[k] # None
      BY <1>6, ProviderAssumption DEF IsStored, SafeInv, TypeOK, ProviderTypeOK
    <3>2. QED
      BY <3>1 DEF Pod
  <2>2. IsStored(u) => pods[k].gen \in Nat
    BY Ground DEF IsStored, Pod
  <2>3. CASE IsStored(u) /\ ~StartsAt(k) /\ SameStarts(pods'[k], pods[k])
    BY <2>3 DEF StartBounds, SameStarts, Started
  <2>4. CASE IsStored(u) /\ ~StartsAt(k) /\ pods'[k].gen > pods[k].gen
    BY <1>1, <2>1, <2>2, <2>4 DEF StartBounds, Started
  <2>5. CASE Unstarted(u) /\ pods'[k].gen = api[u].pod.gen
    BY <1>1, <2>1, <2>5 DEF StartBounds
  <2>6. CASE Creating(u) /\ pods'[k].gen = call[k].pod.gen
    BY <1>1, <2>1, <2>6 DEF StartBounds
  <2>7. CASE /\ InPollsHand(u) /\ SameStarts(pods'[k], Held)
             /\ poll.pc = "start" => poll.idx > Len(MainOf[u])
    <3>1. poll.pc = "start" => ~(i >= poll.idx)
      BY <2>7, HandFacts, Ground, ProviderAssumption DEF InPollsHand
    <3>2. QED
      BY <2>7, <3>1 DEF StartBounds, SameStarts, Started
  <2>8. QED
    BY <1>6, <2>3, <2>4, <2>5, <2>6, <2>7 DEF StaysStarted
<1>7. ASSUME InPollsHand(u)'
      PROVE  n <= IF poll'.pc = "start" /\ i >= poll'.idx THEN crashes + Held'.gen
                  ELSE crashes + Held'.gen + IF Held'.initialized THEN 1 ELSE 0
  <2>1. Held'.gen \in Nat
    BY <1>7 DEF InPollsHand, SafeInv, TypeOK, ProviderTypeOK, PollHolds, PollLocals,
       Held, Pod
  <2>2. CASE /\ InPollsHand(u) /\ SameStarts(Held', Held)
             /\ poll'.pc = poll.pc
             /\ poll.pc = "start" => poll'.idx >= poll.idx
    <3>1. i \in Nat /\ poll.idx \in Nat /\ poll'.idx \in Nat /\ Held.gen \in Nat
      <4>1. MainOf[u] \in Seq(Container)
        BY ProviderAssumption
      <4>2. i \in Nat
        BY <4>1
      <4>3. QED
        BY <2>1, <2>2, <4>2 DEF SafeInv, TypeOK, ProviderTypeOK, PollLocals, SameStarts
    <3>2. QED
      BY <1>1, <2>2, <3>1 DEF StartBounds, SameStarts, Started
  <2>3. CASE /\ InPollsHand(u) /\ Held'.gen = Held.gen
             /\ poll.pc # "start" /\ ~Held.initialized
    BY <1>1, <2>1, <2>3 DEF StartBounds, Started
  <2>4. CASE /\ IsStored(u) /\ ~StartsAt(k) /\ poll'.pc # "start"
             /\ SameStarts(Held', pods[k])
    BY <2>4 DEF StartBounds, SameStarts, Started
  <2>5. QED
    BY <1>7, <2>2, <2>3, <2>4 DEF StaysStarted
<1>8. QED
  BY <1>1, <1>3, <1>4, <1>5, <1>6, <1>7 DEF StartBounds, Started

-----------------------------------------------------------------------------
SameCounts == \A c : Count(c)' = Count(c)

LEMMA QuietCounts ==
  ASSUME SafeInv, OwnInv, SafeInv', OwnInv', CreatesCounted, StartsCounted, SameCounts,
         \A u \in Uid : StaysCreated(u) /\ StaysStarted(u)
  PROVE  CreatesCounted' /\ StartsCounted'
<1>1. ASSUME NEW u \in Uid, NEW i \in DOMAIN CreateList(u)
      PROVE  CreateBounds(u, i, Count(CreateList(u)[i]))'
  BY CreatesKept DEF SameCounts, CreatesCounted
<1>2. ASSUME NEW u \in Uid, InitOf[u] # <<>>, NEW i \in DOMAIN MainOf[u]
      PROVE  StartBounds(u, i, Count(MainOf[u][i]))'
  BY <1>2, StartsKept DEF SameCounts, StartsCounted
<1>3. QED
  BY <1>1, <1>2 DEF CreatesCounted, StartsCounted

(* CreatePod submits a container of the pod it creates: of one that has     *)
(* init containers, an init container.                                      *)
LEMMA CreateContainerCounts ==
  ASSUME SafeInv, OwnInv, SafeInv', OwnInv', CreatesCounted, StartsCounted,
         NEW k \in Key, CreateContainer(k),
         \A u \in Uid : StaysCreated(u) /\ StaysStarted(u)
  PROVE  CreatesCounted' /\ StartsCounted'
<1>0. /\ call[k].op = "create" /\ call[k].idx <= Len(CreateList(call[k].pod.uid))
      /\ call[k].pod.uid \in Uid /\ KeyOf[call[k].pod.uid] = k
      /\ Creating(call[k].pod.uid) /\ call[k].idx \in Nat \ {0}
  BY CallUnderKey DEF CreateContainer
<1>1. PICK v \in Uid, m \in Nat \ {0}, ok \in BOOLEAN :
        /\ call[k].op = "create" /\ call[k].pod.uid = v /\ call[k].idx = m
        /\ m <= Len(CreateList(v)) /\ KeyOf[v] = k /\ Creating(v)
        /\ RemoteExecution("submit", CreateList(v)[m], ok)
        /\ call' = [call EXCEPT ![k] =
             [call[k] EXCEPT !.pod = Launched(call[k].pod, ok), !.idx = call[k].idx + 1]]
  BY <1>0, Zenon DEF CreateContainer
<1> DEFINE c == CreateList(v)[m]
<1>2. CreateList(v) \in Seq(Container) /\ m \in DOMAIN CreateList(v) /\ c \in Container
      /\ c \in ContainersOf(v) /\ InitOf[v] \in Seq(Container) /\ MainOf[v] \in Seq(Container)
  BY <1>1, ListedContainers, ProviderAssumption DEF CreateList
<1>3. /\ \A e : e # c => Count(e)' = Count(e)
      /\ Count(c)' \in {Count(c), Count(c) + 1}
  BY <1>1, <1>2, LaunchCounts, Ground
<1>4. ASSUME NEW u \in Uid, NEW i \in DOMAIN CreateList(u), u # v \/ i # m
      PROVE  CreateList(u)[i] # c
  <2>1. CreateList(u) \in Seq(Container)
    BY ProviderAssumption DEF CreateList
  <2>2. i \in Nat \ {0} /\ i <= Len(CreateList(u))
    BY <2>1
  <2>3. CreateList(u)[i] \in ContainersOf(u)
    BY <2>2, ListedContainers
  <2>4. CASE u # v
    BY <1>2, <2>3, <2>4, OtherContainers
  <2>5. CASE u = v
    BY <1>2, <1>4, <2>5, ContainersDistinct DEF CreateList
  <2>6. QED
    BY <2>4, <2>5
<1>5. ASSUME NEW u \in Uid, InitOf[u] # <<>>, NEW i \in DOMAIN MainOf[u]
      PROVE  MainOf[u][i] # c
  <2>1. MainOf[u][i] \in Elems(MainOf[u]) /\ MainOf[u][i] \in ContainersOf(u)
    BY DEF Elems, ContainersOf
  <2>2. CASE u # v
    BY <1>2, <2>1, <2>2, OtherContainers
  <2>3. CASE u = v
    <3>1. c \in Elems(InitOf[u])
      BY <1>2, <1>5, <2>3 DEF CreateList, Elems
    <3>2. QED
      BY <2>1, <3>1, ContainersDistinct
  <2>4. QED
    BY <2>2, <2>3
<1> HIDE DEF c
<1>6. ASSUME NEW u \in Uid, InitOf[u] # <<>>, NEW i \in DOMAIN MainOf[u]
      PROVE  StartBounds(u, i, Count(MainOf[u][i]))'
  BY <1>3, <1>5, <1>6, StartsKept DEF StartsCounted
<1>7. ASSUME NEW u \in Uid, NEW i \in DOMAIN CreateList(u), u # v \/ i # m
      PROVE  CreateBounds(u, i, Count(CreateList(u)[i]))'
  BY <1>3, <1>4, <1>7, CreatesKept DEF CreatesCounted
<1>8. CreateBounds(v, m, Count(CreateList(v)[m]))'
  <2>1. CreateBounds(v, m, Count(c))
    BY <1>2 DEF CreatesCounted, c
  <2>2. Count(c) \in Nat /\ crashes \in Nat /\ crashes' = crashes
    BY CountFacts, Ground DEF StaysCreated
  <2>3. Count(c) <= crashes
    BY <1>1, <2>1, <2>2 DEF CreateBounds
  <2>4. Count(c)' <= crashes + 1
    BY <1>3, <2>2, <2>3
  <2>5. /\ call'[k].op = "create" /\ call'[k].pod.uid = v /\ call'[k].idx = m + 1
    <3>1. call \in [Key -> HandlerCall] /\ call[k].pod \in Pod
      BY <1>1, CallUnderKey DEF SafeInv, TypeOK, ProviderTypeOK
    <3>2. call'[k] = [call[k] EXCEPT !.pod = Launched(call[k].pod, ok), !.idx = call[k].idx + 1]
      BY <1>1, <3>1
    <3>3. /\ call'[k].op = call[k].op /\ call'[k].pod = Launched(call[k].pod, ok)
          /\ call'[k].idx = call[k].idx + 1
      BY <3>1, <3>2 DEF HandlerCall
    <3>4. QED
      BY <1>1, <3>1, <3>3, PodShapes
  <2>6. ~Uncreated(v)'
    BY <1>1, <2>5 DEF Uncreated, Creating
  <2>7. QED
    BY <1>1, <1>2, <2>2, <2>4, <2>5, <2>6 DEF CreateBounds, c
<1>9. QED
  BY <1>6, <1>7, <1>8 DEF CreatesCounted, StartsCounted

(* The poll submits a main container of a pod with init containers.         *)
LEMMA StartContainerCounts ==
  ASSUME SafeInv, OwnInv, SafeInv', OwnInv', SubmitInv, OwnInv', CopiesSound',
         startMainContainers,
         \A u \in Uid : StaysCreated(u) /\ StaysStarted(u)
  PROVE  CreatesCounted' /\ StartsCounted'
<1>1. Working /\ poll.pc = "start" /\ poll.idx <= Len(MainOf[Held.uid]) /\ ProviderInv
  BY SafeInvSplits DEF startMainContainers, Working
<1>2. /\ Held \in Pod /\ poll.idx \in Nat \ {0} /\ Held.uid \in Uid /\ poll \in PollLocals
      /\ MainOf[Held.uid] \in Seq(Container) /\ InitOf[Held.uid] \in Seq(Container)
      /\ Held.initialized /\ InitOf[Held.uid] # <<>>
  BY <1>1, HandFacts DEF SubmitInv, StartsInitialized
<1>3. PICK v \in Uid, m \in Nat \ {0}, p \in Pod, ok \in BOOLEAN :
        /\ v = Held.uid /\ m = poll.idx /\ m <= Len(MainOf[v])
        /\ RemoteExecution("submit", MainOf[v][m], ok)
        /\ Write(p, NotYet)
        /\ p.uid = v /\ p.gen = Held.gen /\ p.initialized
  BY <1>1, <1>2, StartEffect
<1>4. InPollsHand(v) /\ poll.key = KeyOf[v]
  BY <1>1, <1>3, CopiesLive DEF InPollsHand
<1> DEFINE c == MainOf[v][m]
<1>5. m \in DOMAIN MainOf[v] /\ c \in Container /\ c \in ContainersOf(v)
      /\ c \in Elems(MainOf[v])
  BY <1>2, <1>3 DEF ContainersOf, Elems
<1>6. /\ \A e : e # c => Count(e)' = Count(e)
      /\ Count(c)' \in {Count(c), Count(c) + 1}
  BY <1>3, <1>5, LaunchCounts, Ground
<1>7. ASSUME NEW u \in Uid, NEW i \in DOMAIN MainOf[u], u # v \/ i # m
      PROVE  MainOf[u][i] # c
  <2>1. MainOf[u][i] \in ContainersOf(u)
    BY DEF ContainersOf, Elems
  <2>2. CASE u # v
    BY <1>5, <2>1, <2>2, OtherContainers
  <2>3. CASE u = v
    BY <1>5, <1>7, <2>3, ContainersDistinct
  <2>4. QED
    BY <2>2, <2>3
<1>8. ASSUME NEW u \in Uid, NEW i \in DOMAIN CreateList(u)
      PROVE  CreateList(u)[i] # c
  <2>1. CreateList(u)[i] \in ContainersOf(u)
    BY DEF CreateList, ContainersOf, Elems
  <2>2. CASE u # v
    BY <1>5, <2>1, <2>2, OtherContainers
  <2>3. CASE u = v
    <3>1. CreateList(u)[i] \in Elems(InitOf[u])
      BY <1>2, <1>3, <2>3 DEF CreateList, Elems
    <3>2. QED
      BY <1>5, <2>3, <3>1, ContainersDistinct
  <2>4. QED
    BY <2>2, <2>3
<1> HIDE DEF c
<1>9. ASSUME NEW u \in Uid, NEW i \in DOMAIN CreateList(u)
      PROVE  CreateBounds(u, i, Count(CreateList(u)[i]))'
  BY <1>6, <1>8, CreatesKept DEF SubmitInv, CreatesCounted
<1>10. ASSUME NEW u \in Uid, InitOf[u] # <<>>, NEW i \in DOMAIN MainOf[u], u # v \/ i # m
       PROVE  StartBounds(u, i, Count(MainOf[u][i]))'
  BY <1>6, <1>7, <1>10, StartsKept DEF SubmitInv, StartsCounted
<1>11. StartBounds(v, m, Count(MainOf[v][m]))'
  <2>1. StartBounds(v, m, Count(c))
    BY <1>2, <1>3, <1>5 DEF SubmitInv, StartsCounted, c
  <2>2. /\ Count(c) \in Nat /\ crashes \in Nat /\ crashes' = crashes /\ Held.gen \in Nat
        /\ api[v].pod.gen \in Nat /\ api'[v].pod.gen \in Nat
        /\ api'[v].pod.gen >= api[v].pod.gen
    BY <1>2, CountFacts, Ground, PodFacts
       DEF StaysStarted, SafeInv, TypeOK, ApiObject, Pod
  <2>3. Count(c) <= crashes + Held.gen
    BY <1>1, <1>2, <1>3, <1>4, <2>1 DEF StartBounds
  <2>4. Held.gen <= api[v].pod.gen
    <3>1. Sound(Held)
      BY <1>1, HandFacts DEF SubmitInv, CopiesSound, Held
    <3>2. QED
      BY <1>2, <1>3, <3>1, PodFacts DEF Sound
  <2>5. Count(c)' <= crashes + Held.gen + 1
    BY <1>6, <2>2, <2>3
  <2>6. NextOne(NotYet) /\ NotYet \in PollLocals
    BY <1>2, NextOneFacts DEF NextOne
  <2>7. /\ Held' = p /\ poll'.pc = "start" /\ poll'.key = poll.key /\ poll'.idx = m + 1
    BY <1>1, <1>2, <1>3, <2>6, WriteFacts DEF NextOne, ProviderInv
  <2>8. ~Unstarted(v)'
    <3>1. ~Unstarted(v)
      BY <1>3, <1>4, CopiesLive DEF Unstarted, SubmitInv, HandIsStored, HandStored, InPollsHand
    <3>2. QED
      BY <3>1 DEF StaysStarted
  <2>9. ~Creating(v)'
    <3>1. ~Creating(v)
      BY <1>4 DEF SubmitInv, CallsAlone, Alone
    <3>2. QED
      BY <3>1 DEF startMainContainers, Creating
  <2>10. StartsAt(KeyOf[v])'
    BY <1>4, <2>7 DEF StartsAt
  <2>11. InPollsHand(v)' => Count(c)' <= crashes' + p.gen + 1
    BY <1>3, <2>2, <2>5
  <2>12. Count(c)' <= crashes' + api'[v].pod.gen + 1
    <3> DEFINE n == Count(c)'
    <3>1. n \in Nat
      BY <1>6, <2>2
    <3> HIDE DEF n
    <3>2. QED
      BY <2>2, <2>4, <2>5, <3>1 DEF n
  <2>13. ~(m >= poll'.idx)
    BY <2>7
  <2>14. Held'.initialized /\ Held'.gen = p.gen
    BY <1>3, <2>7
  <2>15. QED
    BY <2>7, <2>8, <2>9, <2>10, <2>11, <2>12, <2>13, <2>14 DEF StartBounds, Started, c
<1>12. QED
  BY <1>9, <1>10, <1>11 DEF CreatesCounted, StartsCounted

-----------------------------------------------------------------------------
(* Where the copies of a pod go in each step. *)

Kept(u) == Alone(u)' /\ HandStored(u)' /\ StaysCreated(u) /\ StaysStarted(u)

LEMMA StoreStays ==
  ASSUME UNCHANGED <<pods, poll>>, NEW u
  PROVE  /\ Working' = Working /\ Held' = Held
         /\ IsStored(u)' = IsStored(u) /\ InPollsHand(u)' = InPollsHand(u)
         /\ StartsAt(KeyOf[u])' = StartsAt(KeyOf[u])
BY DEF Working, Held, IsStored, InPollsHand, StartsAt

(* Only handler calls, and the API, change. *)
LEMMA CallMoves ==
  ASSUME SafeInv, OwnInv, SafeInv', NEW u \in Uid, UNCHANGED <<pods, poll, crashes>>,
         api'[u].pod.gen >= api[u].pod.gen,
         Unstarted(u)' => Unstarted(u), Uncreated(u)' => Uncreated(u),
         Creating(u)' =>
           \/ /\ Creating(u) /\ call'[KeyOf[u]].pod.gen = call[KeyOf[u]].pod.gen
              /\ call'[KeyOf[u]].idx >= call[KeyOf[u]].idx
           \/ Uncreated(u) /\ Unstarted(u) /\ call'[KeyOf[u]].pod.gen = api[u].pod.gen
  PROVE  StaysCreated(u) /\ StaysStarted(u)
<1>1. StaysCreated(u)
  BY DEF StaysCreated
<1>2. /\ IsStored(u)' /\ ~StartsAt(KeyOf[u])' =>
           IsStored(u) /\ ~StartsAt(KeyOf[u]) /\ SameStarts(pods'[KeyOf[u]], pods[KeyOf[u]])
      /\ InPollsHand(u)' => InPollsHand(u) /\ SameStarts(Held', Held)
  BY StoreStays DEF SameStarts
<1>3. poll'.pc = poll.pc /\ poll'.idx = poll.idx /\ poll.idx \in Nat
  BY DEF SafeInv, TypeOK, ProviderTypeOK, PollLocals
<1>4. QED
  BY <1>1, <1>2, <1>3 DEF StaysStarted

LEMMA ContainerKept ==
  ASSUME SafeInv, OwnInv, SafeInv', SubmitInv, NEW k \in Key, ControlUnchanged,
         CreateContainer(k) \/ DeleteContainer(k)
  PROVE  \A u \in Uid : Kept(u)
<1>1. UNCHANGED <<pods, poll, api, crashes>> /\ call[k].op # "none"
  BY DEF CreateContainer, DeleteContainer, ControlUnchanged
<1>2. /\ call[k].pod \in Pod /\ call[k].pod.uid \in Uid /\ call[k].idx \in Nat
      /\ call \in [Key -> HandlerCall]
  BY <1>1, CallUnderKey DEF SafeInv, TypeOK, ProviderTypeOK
<1>3. /\ \A x \in Key : x # k => call'[x] = call[x]
      /\ call'[k].op = call[k].op /\ call'[k].pod.uid = call[k].pod.uid
      /\ call'[k].pod.gen = call[k].pod.gen /\ call'[k].idx >= call[k].idx
  <2>1. CASE CreateContainer(k)
    <3>1. PICK ok \in BOOLEAN :
            call' = [call EXCEPT ![k] =
              [call[k] EXCEPT !.pod = Launched(call[k].pod, ok), !.idx = call[k].idx + 1]]
      BY <2>1 DEF CreateContainer
    <3>2. /\ call'[k] =
               [call[k] EXCEPT !.pod = Launched(call[k].pod, ok), !.idx = call[k].idx + 1]
          /\ \A x \in Key : x # k => call'[x] = call[x]
      BY <1>2, <3>1
    <3>3. /\ call'[k].op = call[k].op /\ call'[k].pod = Launched(call[k].pod, ok)
          /\ call'[k].idx = call[k].idx + 1
      BY <1>2, <3>2 DEF HandlerCall
    <3>4. QED
      BY <1>2, <3>2, <3>3, PodShapes
  <2>2. CASE DeleteContainer(k)
    <3>1. call' = [call EXCEPT ![k] = [call[k] EXCEPT !.idx = call[k].idx + 1]]
      BY <2>2 DEF DeleteContainer
    <3>2. /\ call'[k] = [call[k] EXCEPT !.idx = call[k].idx + 1]
          /\ \A x \in Key : x # k => call'[x] = call[x]
      BY <1>2, <3>1
    <3>3. /\ call'[k].op = call[k].op /\ call'[k].pod = call[k].pod
          /\ call'[k].idx = call[k].idx + 1
      BY <1>2, <3>2 DEF HandlerCall
    <3>4. QED
      BY <1>2, <3>2, <3>3
  <2>3. QED
    BY <2>1, <2>2
<1>4. ASSUME NEW u \in Uid
      PROVE  /\ Creating(u)' = Creating(u) /\ Uncreated(u)' = Uncreated(u)
             /\ call'[KeyOf[u]].op = call[KeyOf[u]].op
             /\ Creating(u) =>
                  /\ call'[KeyOf[u]].pod.gen = call[KeyOf[u]].pod.gen
                  /\ call'[KeyOf[u]].idx >= call[KeyOf[u]].idx
  <2>1. KeyOf[u] \in Key /\ call[KeyOf[u]].idx \in Nat
    BY <1>2, ProviderAssumption DEF HandlerCall
  <2>2. /\ call'[KeyOf[u]].op = call[KeyOf[u]].op
        /\ Creating(u) =>
             /\ call'[KeyOf[u]].pod.gen = call[KeyOf[u]].pod.gen
             /\ call'[KeyOf[u]].idx >= call[KeyOf[u]].idx
    BY <1>3, <2>1
  <2>3. Creating(u)' = Creating(u)
    BY <1>3, <2>1 DEF Creating
  <2>4. Uncreated(u)' = Uncreated(u)
    BY <1>1, <2>2, <2>3 DEF Uncreated
  <2>5. QED
    BY <2>2, <2>3, <2>4
<1>5. ASSUME NEW u \in Uid PROVE StaysCreated(u) /\ StaysStarted(u)
  <2>1. Unstarted(u)' = Unstarted(u)
    BY <1>1 DEF Unstarted, IsStored, Working, Held
  <2>2. api'[u].pod.gen >= api[u].pod.gen
    BY <1>1, Ground
  <2>3. QED
    BY <1>1, <1>4, <2>1, <2>2, CallMoves
<1>6. ASSUME NEW u \in Uid PROVE Alone(u)' /\ HandStored(u)'
  <2>1. Alone(u)'
    BY <1>1, <1>4, StoreStays DEF SubmitInv, CallsAlone, Alone
  <2>2. HandStored(u)'
    BY <1>1, StoreStays DEF SubmitInv, HandIsStored, HandStored
  <2>3. QED
    BY <2>1, <2>2
<1>7. QED
  BY <1>5, <1>6 DEF Kept

(* A handler replaces or removes the pod of a key.                          *)
LEMMA ReplacedView ==
  ASSUME SafeInv, OwnInv, NEW k \in Key, NEW p \in Pod \cup {None}, Replaced(k, p),
         NEW u \in Uid
  PROVE  /\ Working' = Working /\ poll'.pc = poll.pc /\ poll'.idx = poll.idx
         /\ poll'.key = poll.key /\ (Working => Held' = Held)
         /\ InPollsHand(u)' = InPollsHand(u)
         /\ StartsAt(KeyOf[u])' = StartsAt(KeyOf[u])
         /\ pods'[KeyOf[u]] = IF KeyOf[u] = k THEN p ELSE pods[KeyOf[u]]
         /\ IsStored(u)' = IF KeyOf[u] = k THEN p # None /\ p.uid = u ELSE IsStored(u)
<1>1. /\ poll'.pc = poll.pc /\ poll'.key = poll.key /\ poll'.idx = poll.idx
      /\ Working => Held' = Held
      /\ pods' = [pods EXCEPT ![k] = p]
  BY DEF Replaced, HandKept
<1>2. Working' = Working
  BY <1>1 DEF Working
<1>3. InPollsHand(u)' = InPollsHand(u)
  BY <1>1, <1>2 DEF InPollsHand
<1>4. StartsAt(KeyOf[u])' = StartsAt(KeyOf[u])
  BY <1>1 DEF StartsAt
<1>5. pods'[KeyOf[u]] = IF KeyOf[u] = k THEN p ELSE pods[KeyOf[u]]
  BY <1>1, Ground DEF ProviderTypeOK
<1>6. IsStored(u)' = IF KeyOf[u] = k THEN p # None /\ p.uid = u ELSE IsStored(u)
  BY <1>5 DEF IsStored
<1>7. QED
  BY <1>1, <1>2, <1>3, <1>4, <1>5, <1>6

(* Pods of other keys do not notice.                                        *)
LEMMA OthersKept ==
  ASSUME SafeInv, OwnInv, SubmitInv, NEW k \in Key, NEW p \in Pod \cup {None},
         Replaced(k, p), UNCHANGED <<api, crashes>>,
         \A x \in Key : x # k => call'[x] = call[x],
         NEW u \in Uid, KeyOf[u] # k
  PROVE  Kept(u)
<1>1. /\ Working' = Working /\ poll'.pc = poll.pc /\ poll'.idx = poll.idx
      /\ poll'.key = poll.key /\ (Working => Held' = Held)
      /\ InPollsHand(u)' = InPollsHand(u) /\ IsStored(u)' = IsStored(u)
      /\ StartsAt(KeyOf[u])' = StartsAt(KeyOf[u])
      /\ pods'[KeyOf[u]] = pods[KeyOf[u]] /\ call'[KeyOf[u]] = call[KeyOf[u]]
  BY ReplacedView, Ground
<1>2. Creating(u)' = Creating(u) /\ Uncreated(u)' = Uncreated(u) /\ Unstarted(u)' = Unstarted(u)
  BY <1>1 DEF Creating, Uncreated, Unstarted
<1>3. Alone(u)' /\ HandStored(u)'
  BY <1>1, <1>2 DEF SubmitInv, CallsAlone, HandIsStored, Alone, HandStored
<1>4. /\ poll.idx \in Nat /\ call[KeyOf[u]].idx \in Nat /\ api[u].pod.gen \in Nat
  BY Ground DEF ProviderTypeOK, PollLocals, HandlerCall
<1>5. StaysCreated(u)
  BY <1>1, <1>2, <1>4 DEF StaysCreated
<1>6. InPollsHand(u) => SameStarts(Held', Held)
  BY <1>1 DEF InPollsHand, SameStarts
<1>7. StaysStarted(u)
  BY <1>1, <1>2, <1>4, <1>6 DEF StaysStarted, SameStarts
<1>8. QED
  BY <1>3, <1>5, <1>7 DEF Kept

(* A pod of the key, while the handler leaves: it is not in the poll's hand *)
(* if it lives, and nor is it being created any more.                       *)
LEMMA ReplacedKept ==
  ASSUME SafeInv, OwnInv, SubmitInv, NEW k \in Key, NEW p \in Pod \cup {None},
         Replaced(k, p), UNCHANGED <<api, crashes>>, call'[k].op = "none",
         NEW u \in Uid, KeyOf[u] = k,
         api[u].life = "live" =>
           \/ call[k].op # "none"
           \/ p # None /\ p.uid = u,
         p = None => call[k].op = "delete",
         p # None /\ p.uid = u =>
           \/ Creating(u) /\ p.gen = call[k].pod.gen
           \/ Unstarted(u) /\ p.gen = api[u].pod.gen
           \/ IsStored(u) /\ p.gen > pods[k].gen
  PROVE  Kept(u)
<1>1. /\ Working' = Working /\ poll'.pc = poll.pc /\ poll'.idx = poll.idx
      /\ poll'.key = poll.key /\ (Working => Held' = Held)
      /\ InPollsHand(u)' = InPollsHand(u)
      /\ IsStored(u)' = (p # None /\ p.uid = u)
      /\ StartsAt(k)' = StartsAt(k) /\ pods'[k] = p
  BY ReplacedView
<1>2. ~Creating(u)' /\ api'[u] = api[u]
  BY DEF Creating
<1>3. Alone(u)'
  BY <1>2 DEF Alone
<1>4. api[u].life = "live" /\ call[k].op # "none" => ~IsStored(u) /\ ~InPollsHand(u)
  BY DEF SubmitInv, CallsAlone, Alone
<1>5. HandStored(u)'
  BY <1>1, <1>2, <1>4 DEF HandStored
<1>6. api[u].life = "none" => ~Creating(u)
  BY CopiesLive
<1>7. Uncreated(u)' => Uncreated(u)
  <2> SUFFICES ASSUME Uncreated(u)' PROVE Uncreated(u)
    OBVIOUS
  <2>1. api[u].life = "none" \/ (api[u].life = "live" /\ p = None)
    BY <1>1, <1>2 DEF Uncreated
  <2>2. CASE api[u].life = "none"
    BY <1>6, <2>2 DEF Uncreated
  <2>3. CASE api[u].life = "live" /\ p = None
    BY <2>3 DEF Uncreated, Creating
  <2>4. QED
    BY <2>1, <2>2, <2>3
<1>8. Unstarted(u)' => Unstarted(u)
  BY <1>1, <1>2, <1>4 DEF Unstarted
<1>9. poll.idx \in Nat /\ api[u].pod.gen \in Nat
  BY Ground DEF ProviderTypeOK, PollLocals
<1>10. StaysCreated(u)
  BY <1>2, <1>7 DEF StaysCreated
<1>11. InPollsHand(u) => SameStarts(Held', Held)
  BY <1>1 DEF InPollsHand, SameStarts
<1>12. StaysStarted(u)
  <2>1. IsStored(u)' /\ ~StartsAt(KeyOf[u])' =>
          \/ IsStored(u) /\ ~StartsAt(KeyOf[u]) /\ p.gen > pods[KeyOf[u]].gen
          \/ Unstarted(u) /\ p.gen = api[u].pod.gen
          \/ Creating(u) /\ p.gen = call[KeyOf[u]].pod.gen
    BY <1>1
  <2>2. api'[u].pod.gen >= api[u].pod.gen /\ poll'.idx >= poll.idx
    BY <1>1, <1>2, <1>9
  <2>3. pods'[KeyOf[u]] = p
    BY <1>1
  <2>4. QED
    BY <1>1, <1>2, <1>8, <1>11, <2>1, <2>2, <2>3 DEF StaysStarted
<1>13. QED
  BY <1>3, <1>5, <1>10, <1>12 DEF Kept

LEMMA CreateStoreReplaces ==
  ASSUME SafeInv, OwnInv, NEW k \in Key, CreateStore(k)
  PROVE  /\ Creating(call[k].pod.uid) /\ call[k].pod.uid \in Uid
         /\ \E p \in Pod : /\ Replaced(k, p) /\ p # None
                          /\ p.uid = call[k].pod.uid /\ p.gen = call[k].pod.gen
<1> DEFINE c == call[k].pod
           p == IF InitOf[c.uid] = <<>> THEN c
                ELSE [c EXCEPT !.cst = All(Waiting, Len(MainOf[c.uid]))]
<1>1. call[k].op = "create" /\ StoreByHandler(k, p)
  BY DEF CreateStore
<1>2. /\ c \in Pod /\ c.uid \in Uid /\ Creating(c.uid)
      /\ ProviderTypeOK /\ PollHolds
  BY <1>1, CallUnderKey, Ground
<1>3. p \in Pod /\ p.uid = c.uid /\ p.gen = c.gen
  <2>1. CASE InitOf[c.uid] = <<>>
    BY <1>2, <2>1
  <2>2. CASE InitOf[c.uid] # <<>>
    <3>1. All(Waiting, Len(MainOf[c.uid])) \in Seq(ContainerStatus)
      BY <1>2, StatusTypes, AllFacts, PodFacts
    <3>2. p = [c EXCEPT !.cst = All(Waiting, Len(MainOf[c.uid]))]
      BY <2>2
    <3> HIDE DEF p
    <3>3. QED
      BY <1>2, <3>1, <3>2 DEF Pod
  <2>3. QED
    BY <2>1, <2>2
<1> HIDE DEF p
<1>4. QED
  BY <1>1, <1>2, <1>3, StoreReplaces, PodFacts

LEMMA CreateStoreKept ==
  ASSUME SafeInv, OwnInv, SubmitInv, NEW k \in Key, CreateStore(k), ControlUnchanged
  PROVE  \A u \in Uid : Kept(u)
<1>1. PICK p \in Pod : /\ Replaced(k, p) /\ p # None
                       /\ p.uid = call[k].pod.uid /\ p.gen = call[k].pod.gen
  BY CreateStoreReplaces
<1>2. /\ call[k].op = "create" /\ call' = [call EXCEPT ![k] = NoCall]
      /\ UNCHANGED <<api, crashes>>
  BY DEF CreateStore, ControlUnchanged
<1>3. call \in [Key -> HandlerCall]
  BY DEF SafeInv, TypeOK, ProviderTypeOK
<1>4. call'[k].op = "none" /\ \A x \in Key : x # k => call'[x] = call[x]
  BY <1>2, <1>3 DEF NoCall
<1>5. ASSUME NEW u \in Uid, KeyOf[u] = k PROVE Kept(u)
  BY <1>1, <1>2, <1>4, <1>5, CreateStoreReplaces, ReplacedKept
<1>6. QED
  BY <1>1, <1>2, <1>4, <1>5, OthersKept

LEMMA DeleteForgetKept ==
  ASSUME SafeInv, OwnInv, SubmitInv, NEW k \in Key, DeleteForget(k), ControlUnchanged
  PROVE  \A u \in Uid : Kept(u)
<1>1. /\ call[k].op = "delete" /\ call' = [call EXCEPT ![k] = NoCall]
      /\ pods' = [pods EXCEPT ![k] = None]
      /\ poll' = [poll EXCEPT !.todo = @ \ {k}, !.orphan = LetGo(k)]
      /\ UNCHANGED <<api, crashes>>
  BY DEF DeleteForget, ControlUnchanged
<1>2. ProviderTypeOK /\ PollHolds /\ call \in [Key -> HandlerCall]
  BY DEF SafeInv, TypeOK, ProviderTypeOK
<1>3. Replaced(k, None)
  BY <1>1, <1>2, ForgetReplaces
<1>4. call'[k].op = "none" /\ \A x \in Key : x # k => call'[x] = call[x]
  BY <1>1, <1>2 DEF NoCall
<1>5. ASSUME NEW u \in Uid, KeyOf[u] = k PROVE Kept(u)
  BY <1>1, <1>3, <1>4, <1>5, ReplacedKept
<1>6. QED
  BY <1>1, <1>3, <1>4, <1>5, OthersKept

LEMMA KubeletUpdateKept ==
  ASSUME SafeInv, OwnInv, SubmitInv, NEW v \in Uid, KubeletUpdate(v)
  PROVE  \A u \in Uid : Kept(u)
<1> DEFINE k == KeyOf[v]
           p == api[v].pod
<1>1. /\ api[v].life = "live" /\ call[k].op = "none" /\ pods[k] # None
      /\ pods[k].uid # v \/ pods[k].gen # p.gen
      /\ StoreByHandler(k, p) /\ UNCHANGED <<api, crashes, call>>
  BY DEF KubeletUpdate, UpdatePod
<1>2. /\ ProviderTypeOK /\ PollHolds /\ k \in Key /\ p \in Pod /\ p.uid = v
      /\ p # None /\ p.gen \in Nat
  BY Ground, PodFacts
<1>3. Replaced(k, p)
  BY <1>1, <1>2, StoreReplaces
<1>4. ~IsStored(v) => Unstarted(v)
  BY <1>1 DEF Unstarted
<1>5. IsStored(v) => p.gen > pods[k].gen
  <2> SUFFICES ASSUME IsStored(v) PROVE p.gen > pods[k].gen
    OBVIOUS
  <2>1. pods[k].uid = v /\ pods[k].gen # p.gen
    BY <1>1 DEF IsStored
  <2>2. pods[k] \in Pod /\ Sound(pods[k])
    BY <1>1, <1>2 DEF SubmitInv, CopiesSound, ProviderTypeOK
  <2>3. pods[k].gen \in Nat /\ pods[k].gen <= p.gen
    BY <1>1, <2>1, <2>2, PodFacts DEF Sound
  <2>4. QED
    BY <1>2, <2>1, <2>3
<1>6. ASSUME NEW u \in Uid, KeyOf[u] = k PROVE Kept(u)
  <2>1. api[u].life = "live" => u = v
    BY <1>1, <1>6 DEF SubmitInv, OnePresent, Present
  <2>2. api[u].life = "live" => p.uid = u
    BY <1>2, <2>1
  <2>3. p.uid = u => (Unstarted(u) /\ p.gen = api[u].pod.gen) \/ (IsStored(u) /\ p.gen > pods[k].gen)
    BY <1>2, <1>4, <1>5
  <2> HIDE DEF p, k
  <2>4. QED
    BY <1>1, <1>2, <1>3, <1>6, <2>2, <2>3, ReplacedKept
<1>7. QED
  BY <1>1, <1>2, <1>3, <1>6, OthersKept

(* Steps of users and of the controller that leave the provider alone.      *)
LEMMA LifeKept ==
  ASSUME SafeInv, OwnInv, SafeInv', SubmitInv, NEW u \in Uid,
         UNCHANGED <<providerVars, crashes>>, api'[u].pod.gen >= api[u].pod.gen,
         \/ api'[u].life = api[u].life
         \/ api'[u].life \in {"deleting", "removed", "gone"}
         \/ api[u].life = "none"
  PROVE  Kept(u)
<1>1. UNCHANGED <<pods, poll, call>>
  BY DEF providerVars
<1>2. /\ IsStored(u)' = IsStored(u) /\ InPollsHand(u)' = InPollsHand(u)
      /\ Creating(u)' = Creating(u) /\ Working' = Working /\ Held' = Held
  BY <1>1, StoreStays DEF Creating
<1>3. IsStored(u) \/ InPollsHand(u) \/ Creating(u) => api[u].life # "none"
  BY CopiesLive
<1>4. Uncreated(u)' => Uncreated(u)
  BY <1>1, <1>2, <1>3 DEF Uncreated
<1>5. Unstarted(u)' => Unstarted(u)
  BY <1>1, <1>2, <1>3 DEF Unstarted
<1>6. call[KeyOf[u]].idx \in Nat
  BY Ground DEF HandlerCall
<1>7. StaysCreated(u) /\ StaysStarted(u)
  BY <1>1, <1>2, <1>4, <1>5, <1>6, CallMoves
<1>8. Alone(u)' /\ HandStored(u)'
  BY <1>1, <1>2, <1>3 DEF SubmitInv, CallsAlone, HandIsStored, Alone, HandStored
<1>9. QED
  BY <1>7, <1>8 DEF Kept


(* The poll is between pods, before the step and after it.                  *)
LEMMA BetweenKept ==
  ASSUME SafeInv, OwnInv, SubmitInv, NEW u \in Uid, UNCHANGED <<call, api, crashes>>,
         ~Working, ~Working', (pods[KeyOf[u]] = None)' = (pods[KeyOf[u]] = None),
         pods[KeyOf[u]] # None =>
           /\ pods'[KeyOf[u]].uid = pods[KeyOf[u]].uid
           /\ SameStarts(pods'[KeyOf[u]], pods[KeyOf[u]])
  PROVE  Kept(u)
<1>1. /\ IsStored(u)' = IsStored(u) /\ ~InPollsHand(u) /\ ~InPollsHand(u)'
      /\ Creating(u)' = Creating(u) /\ ~StartsAt(KeyOf[u])
  BY DEF IsStored, InPollsHand, Creating, StartsAt, Working
<1>2. Uncreated(u)' = Uncreated(u) /\ Unstarted(u)' = Unstarted(u)
  BY <1>1 DEF Uncreated, Unstarted
<1>3. api[u].pod.gen \in Nat /\ call[KeyOf[u]].idx \in Nat
  BY Ground DEF HandlerCall
<1>4. StaysCreated(u)
  BY <1>1, <1>2, <1>3 DEF StaysCreated
<1>5. IsStored(u) => SameStarts(pods'[KeyOf[u]], pods[KeyOf[u]])
  BY DEF IsStored
<1>6. StaysStarted(u)
  BY <1>1, <1>2, <1>3, <1>5 DEF StaysStarted
<1>7. Alone(u)' /\ HandStored(u)'
  BY <1>1 DEF SubmitInv, CallsAlone, Alone, HandStored
<1>8. QED
  BY <1>4, <1>6, <1>7 DEF Kept

(* The poll takes a stored pod in hand.                                     *)
LEMMA PickKept ==
  ASSUME SafeInv, OwnInv, SubmitInv, NEW k \in Key, PollPick(k), ControlUnchanged,
         NEW u \in Uid
  PROVE  Kept(u)
<1>1. /\ UNCHANGED <<pods, call, api, crashes>>
      /\ poll'.key = k /\ poll'.pc \in {"init", "main"} /\ ~Working
      /\ Held' = pods[k] /\ pods[k] \in Pod
  BY SafeInvSplits, PickEffect DEF ControlUnchanged, Working
<1>2. KeyOf[pods[k].uid] = k /\ pods[k] # None
  BY <1>1, PodFacts DEF OwnInv, CopiesOwned, BelongsTo
<1>3. /\ IsStored(u)' = IsStored(u) /\ ~InPollsHand(u)
      /\ Creating(u)' = Creating(u) /\ ~StartsAt(KeyOf[u]) /\ ~StartsAt(KeyOf[u])'
  BY <1>1 DEF IsStored, InPollsHand, Creating, StartsAt, Working
<1>4. InPollsHand(u)' => IsStored(u) /\ KeyOf[u] = k
  BY <1>1, <1>2 DEF InPollsHand, IsStored
<1>5. Uncreated(u)' = Uncreated(u)
  BY <1>1, <1>3 DEF Uncreated
<1>6. Unstarted(u)' => Unstarted(u)
  BY <1>1, <1>3 DEF Unstarted, IsStored
<1>7. api[u].pod.gen \in Nat /\ call[KeyOf[u]].idx \in Nat
  BY Ground DEF HandlerCall
<1>8. StaysCreated(u)
  BY <1>1, <1>3, <1>5, <1>7 DEF StaysCreated
<1>9. StaysStarted(u)
  BY <1>1, <1>3, <1>4, <1>6, <1>7 DEF StaysStarted, SameStarts
<1>10. Alone(u)' /\ HandStored(u)'
  BY <1>1, <1>3, <1>4 DEF SubmitInv, CallsAlone, Alone, HandStored
<1>11. QED
  BY <1>8, <1>9, <1>10 DEF Kept

(* The poll goes on with the pod in hand, which stays where it is.          *)
LEMMA HandMoves ==
  ASSUME SafeInv, OwnInv, SubmitInv, UNCHANGED <<call, api, crashes>>,
         Working, Working', poll'.key = poll.key, poll'.idx \in Nat,
         Held'.uid = Held.uid, Held'.gen = Held.gen,
         \A x \in Key : pods'[x] = IF x = poll.key /\ poll.orphan = None
                                   THEN Held' ELSE pods[x],
         Held' # None,
         \/ /\ poll'.pc = poll.pc /\ Held'.initialized = Held.initialized
            /\ poll.pc = "start" => poll'.idx >= poll.idx
         \/ poll.pc = "init" /\ poll'.pc = "start" /\ ~Held.initialized,
         NEW u \in Uid
  PROVE  Kept(u)
<1> DEFINE k == KeyOf[u]
<1>1. /\ k \in Key /\ Held # None /\ api[u].pod.gen \in Nat /\ call[k].idx \in Nat
  BY Ground DEF HandlerCall, PollHolds
<1>2. \/ pods'[k] = pods[k]
      \/ pods'[k] = Held' /\ pods[k] = Held /\ k = poll.key
  BY <1>1 DEF Held
<1>3. (pods'[k] = None) = (pods[k] = None) /\ IsStored(u)' = IsStored(u)
  BY <1>1, <1>2 DEF IsStored
<1>4. InPollsHand(u)' = InPollsHand(u) /\ Creating(u)' = Creating(u)
  BY DEF InPollsHand, Creating
<1>5. Uncreated(u)' = Uncreated(u) /\ Unstarted(u)' = Unstarted(u)
  BY <1>3, <1>4 DEF Uncreated, Unstarted
<1>6. StaysCreated(u)
  BY <1>1, <1>4, <1>5 DEF StaysCreated
<1>7. IsStored(u)' /\ ~StartsAt(k)' =>
        IsStored(u) /\ ~StartsAt(k) /\ SameStarts(pods'[k], pods[k])
  BY <1>2, <1>3 DEF StartsAt, SameStarts
<1>8. InPollsHand(u)' =>
        \/ /\ InPollsHand(u) /\ SameStarts(Held', Held) /\ poll'.pc = poll.pc
           /\ poll.pc = "start" => poll'.idx >= poll.idx
        \/ /\ InPollsHand(u) /\ Held'.gen = Held.gen
           /\ poll.pc # "start" /\ ~Held.initialized
  BY <1>4 DEF SameStarts
<1>9. StaysStarted(u)
  BY <1>1, <1>4, <1>5, <1>7, <1>8 DEF StaysStarted
<1>10. Alone(u)' /\ HandStored(u)'
  BY <1>3, <1>4 DEF SubmitInv, CallsAlone, HandIsStored, Alone, HandStored
<1>11. QED
  BY <1>6, <1>9, <1>10 DEF Kept

(* The poll is through with the pod in hand, which it may store again.      *)
LEMMA LeaveKept ==
  ASSUME SafeInv, OwnInv, SubmitInv, ControlUnchanged, UNCHANGED call,
         Working, NEW p \in Pod, NEW update \in BOOLEAN, Leave(p, update),
         p.uid = Held.uid, SameStarts(p, Held),
         poll.pc = "start" => update /\ poll.idx > Len(MainOf[Held.uid]),
         NEW u \in Uid
  PROVE  Kept(u)
<1> DEFINE k == KeyOf[u]
<1>1. /\ k \in Key /\ api[u].pod.gen \in Nat /\ call[k].idx \in Nat
      /\ UNCHANGED <<api, crashes>> /\ p # None /\ ProviderTypeOK /\ PollHolds
  BY Ground, PodFacts DEF HandlerCall, ControlUnchanged
<1>2. ~Working' /\ poll'.pc # "start"
  BY <1>1, LeaveEffect DEF Working
<1>3. \/ pods'[k] = pods[k] /\ (k # poll.key \/ ~update)
      \/ pods'[k] = p /\ k = poll.key
  BY <1>1 DEF Leave, ProviderTypeOK
<1>4. InPollsHand(u) <=> Held.uid = u
  BY DEF InPollsHand
<1>5. /\ ~InPollsHand(u)' /\ Creating(u)' = Creating(u)
      /\ IsStored(u)' => IsStored(u) \/ InPollsHand(u)
  BY <1>2, <1>3, <1>4 DEF InPollsHand, Creating, IsStored
<1>6. Uncreated(u)' => Uncreated(u)
  BY <1>1, <1>3, <1>5 DEF Uncreated
<1>7. Unstarted(u)' => Unstarted(u)
  BY <1>1, <1>2, <1>3, <1>4 DEF Unstarted, IsStored
<1>8. StaysCreated(u)
  BY <1>1, <1>5, <1>6 DEF StaysCreated
<1>9. IsStored(u)' =>
        \/ IsStored(u) /\ ~StartsAt(k) /\ SameStarts(pods'[k], pods[k])
        \/ /\ InPollsHand(u) /\ SameStarts(pods'[k], Held)
           /\ poll.pc = "start" => poll.idx > Len(MainOf[u])
  BY <1>1, <1>3, <1>4 DEF IsStored, StartsAt, SameStarts
<1>10. StaysStarted(u)
  BY <1>1, <1>5, <1>7, <1>9 DEF StaysStarted
<1>11. Alone(u)' /\ HandStored(u)'
  BY <1>1, <1>5 DEF SubmitInv, CallsAlone, Alone, HandStored
<1>12. QED
  BY <1>8, <1>10, <1>11 DEF Kept


LEMMA FirstPassKept ==
  ASSUME SafeInv, OwnInv, SubmitInv, NEW k \in Key, PollFirstPass(k), ControlUnchanged,
         NEW u \in Uid
  PROVE  Kept(u)
<1>1. PICK p \in Pod :
        /\ pods' = [pods EXCEPT ![k] = p] /\ UNCHANGED call
        /\ pods[k] # None
        /\ p.uid = pods[k].uid /\ p.gen = pods[k].gen
        /\ p.initialized = pods[k].initialized
        /\ poll'.pc = "next" /\ poll.pc = "next"
  BY SafeInvSplits, FirstPassEffect
<1>2. ~Working /\ ~Working' /\ UNCHANGED <<call, api, crashes>> /\ p # None
  BY <1>1, PodFacts DEF Working, ControlUnchanged
<1>3. KeyOf[u] \in Key /\ pods'[KeyOf[u]] = IF KeyOf[u] = k THEN p ELSE pods[KeyOf[u]]
  BY <1>1, Ground DEF ProviderTypeOK
<1>4. (pods[KeyOf[u]] = None)' = (pods[KeyOf[u]] = None)
  BY <1>1, <1>2, <1>3
<1>5. /\ pods'[KeyOf[u]].uid = pods[KeyOf[u]].uid
      /\ SameStarts(pods'[KeyOf[u]], pods[KeyOf[u]])
  BY <1>1, <1>3 DEF SameStarts
<1>6. QED
  BY <1>2, <1>4, <1>5, BetweenKept

(* The poll writes into the pod in hand.                                    *)
LEMMA WriteKept ==
  ASSUME SafeInv, OwnInv, SubmitInv, ControlUnchanged, UNCHANGED call, Working,
         NEW p \in Pod, NEW q \in PollLocals, Write(p, q),
         q.orphan = poll.orphan, q.key = poll.key, q.todo = poll.todo, q.idx > 0,
         p.uid = Held.uid, p.gen = Held.gen,
         \/ /\ q.pc = poll.pc /\ p.initialized = Held.initialized
            /\ q.idx >= poll.idx
         \/ poll.pc = "init" /\ q.pc = "start" /\ ~Held.initialized,
         NEW u \in Uid
  PROVE  Kept(u)
<1>1. ProviderTypeOK /\ PollHolds /\ q.idx \in Nat /\ UNCHANGED <<api, crashes>>
  BY Ground DEF PollLocals, ControlUnchanged
<1>2. q.pc \in {"init", "start", "main"}
  BY DEF Working
<1>3. /\ Held' = p /\ poll'.pc = q.pc /\ poll'.key = q.key /\ poll'.idx = q.idx
      /\ \A x \in Key : pods'[x] = IF x = poll.key /\ poll.orphan = None
                                   THEN p ELSE pods[x]
  BY <1>1, <1>2, WriteFacts
<1>4. Working' /\ Held' # None
  BY <1>2, <1>3, PodFacts DEF Working
<1>5. QED
  BY <1>1, <1>3, <1>4, HandMoves

LEMMA ContainerReadKept ==
  ASSUME SafeInv, OwnInv, SubmitInv, ControlUnchanged,
         PollInitContainer \/ PollMainContainer, NEW u \in Uid
  PROVE  Kept(u)
<1>1. /\ ProviderInv /\ RemoteTypeOK /\ Working /\ poll.pc \in {"init", "main"}
      /\ UNCHANGED <<call, api, crashes>>
  BY SafeInvSplits DEF SafeInv, TypeOK, PollInitContainer, PollMainContainer, Working,
     ControlUnchanged
<1>2. poll \in PollLocals /\ poll.idx \in Nat \ {0} /\ Held # None
  BY <1>1, HandFacts, PodFacts
<1>3. NextOne(NotYet) /\ \A good, wrote \in BOOLEAN : NextOne(Counted(good, wrote))
  BY <1>2, NextOneFacts
<1>4. CASE UNCHANGED pods /\ NextOne(poll')
  <2>1. /\ poll'.orphan = poll.orphan /\ poll'.key = poll.key /\ poll'.pc = poll.pc
        /\ poll'.idx = poll.idx + 1 /\ pods' = pods
    BY <1>4 DEF NextOne
  <2>2. Working' /\ Held' = Held
    BY <1>1, <2>1 DEF Working, Held
  <2>3. /\ poll'.idx \in Nat /\ poll'.idx >= poll.idx
        /\ \A x \in Key : pods'[x] = IF x = poll.key /\ poll.orphan = None
                                     THEN Held' ELSE pods[x]
    BY <1>2, <2>1, <2>2 DEF Held
  <2>4. QED
    BY <1>1, <1>2, <2>1, <2>2, <2>3, HandMoves
<1>5. ASSUME NEW p \in Pod, NEW good \in BOOLEAN, Write(p, Counted(good, TRUE)),
             p.uid = Held.uid, p.gen = Held.gen, p.initialized = Held.initialized
      PROVE  Kept(u)
  <2> DEFINE q == Counted(good, TRUE)
  <2>1. /\ q \in PollLocals /\ q.orphan = poll.orphan /\ q.key = poll.key
        /\ q.todo = poll.todo /\ q.pc = poll.pc /\ q.idx = poll.idx + 1
    BY <1>3 DEF NextOne
  <2>2. Write(p, q)
    BY <1>5
  <2> HIDE DEF q
  <2>3. q.idx > 0 /\ q.idx >= poll.idx
    BY <1>2, <2>1
  <2>4. QED
    BY <1>1, <1>5, <2>1, <2>2, <2>3, WriteKept
<1>6. CASE PollInitContainer
  BY <1>1, <1>3, <1>4, <1>5, <1>6, InitEffect
<1>7. CASE PollMainContainer
  BY <1>1, <1>3, <1>4, <1>5, <1>7, MainEffect
<1>8. QED
  BY <1>6, <1>7

LEMMA InitDoneKept ==
  ASSUME SafeInv, OwnInv, SubmitInv, ControlUnchanged, PollInitDone, NEW u \in Uid
  PROVE  Kept(u)
<1>1. ProviderInv /\ Working /\ poll.pc = "init" /\ UNCHANGED call
  BY SafeInvSplits DEF PollInitDone, Working
<1>2. Held \in Pod /\ poll.dirty \in BOOLEAN /\ ~Held.initialized
  BY <1>1, HandFacts DEF InHand
<1>3. ASSUME NEW p \in Pod, NEW q \in PollLocals, Write(p, q),
             p.uid = Held.uid, p.gen = Held.gen, q.pc = "start", q.idx = 1,
             q.key = poll.key, q.orphan = poll.orphan, q.todo = poll.todo
      PROVE  Kept(u)
  <2>1. q.idx > 0
    BY <1>3
  <2>2. QED
    BY <1>1, <1>2, <1>3, <2>1, WriteKept
<1>4. ASSUME NEW p \in Pod, NEW update \in BOOLEAN, Leave(p, update),
             p.uid = Held.uid, p.gen = Held.gen, p.initialized = Held.initialized
      PROVE  Kept(u)
  BY <1>1, <1>4, LeaveKept DEF SameStarts
<1>5. QED
  BY <1>1, <1>2, <1>3, <1>4, InitDoneEffect

LEMMA StartKept ==
  ASSUME SafeInv, OwnInv, SubmitInv, ControlUnchanged, startMainContainers, NEW u \in Uid
  PROVE  Kept(u)
<1>1. ProviderInv /\ Working /\ poll.pc = "start" /\ UNCHANGED call
  BY SafeInvSplits DEF startMainContainers, Working
<1>2. poll \in PollLocals /\ poll.idx \in Nat \ {0}
  BY <1>1, HandFacts
<1>3. PICK p \in Pod : /\ Write(p, NotYet) /\ p.uid = Held.uid /\ p.gen = Held.gen
                       /\ p.initialized = Held.initialized
  BY <1>1, StartEffect
<1> DEFINE q == NotYet
<1>4. /\ q \in PollLocals /\ q.orphan = poll.orphan /\ q.key = poll.key
      /\ q.todo = poll.todo /\ q.pc = poll.pc /\ q.idx = poll.idx + 1
  BY <1>2, NextOneFacts DEF NextOne
<1>5. Write(p, q)
  BY <1>3
<1> HIDE DEF q
<1>6. q.idx > 0 /\ q.idx >= poll.idx
  BY <1>2, <1>4
<1>7. QED
  BY <1>1, <1>3, <1>4, <1>5, <1>6, WriteKept

LEMMA PollKept ==
  ASSUME SafeInv, OwnInv, SubmitInv, ControlUnchanged, PollStep
  PROVE  \A u \in Uid : Kept(u)
<1> SUFFICES ASSUME NEW u \in Uid PROVE Kept(u)
  OBVIOUS
<1>1. ProviderInv /\ UNCHANGED <<api, crashes>>
  BY SafeInvSplits DEF ControlUnchanged
<1>2. CASE PollBegin \/ PollEnd \/ \E k \in Key : PollSkip(k)
  <2>1. UNCHANGED <<pods, call>> /\ ~Working /\ ~Working'
    BY <1>1, <1>2, BetweenEffect DEF Working
  <2>2. QED
    BY <1>1, <2>1, BetweenKept DEF SameStarts
<1>3. CASE PollStarted
  <2>1. /\ Working /\ Held \in Pod /\ Leave(Held, TRUE) /\ UNCHANGED call
        /\ poll.idx > Len(MainOf[Held.uid])
    BY <1>1, <1>3, HandFacts DEF PollStarted, Working
  <2>2. QED
    BY <2>1, LeaveKept DEF SameStarts
<1>4. CASE PollMainDone
  <2>1. /\ Working /\ Held \in Pod /\ poll.dirty \in BOOLEAN /\ poll.pc = "main"
        /\ UNCHANGED call
    BY <1>1, <1>4, HandFacts DEF PollMainDone, Working
  <2>2. QED
    BY <1>1, <1>4, <2>1, MainDoneEffect, LeaveKept DEF SameStarts
<1>5. QED
  BY <1>2, <1>3, <1>4, FirstPassKept, PickKept, ContainerReadKept, InitDoneKept, StartKept
     DEF PollStep


(* The controller begins a call of DeletePod for a key, or of CreatePod     *)
(* for another pod.                                                         *)
LEMMA CallBeginsKept ==
  ASSUME SafeInv, OwnInv, SafeInv', SubmitInv, NEW u \in Uid,
         UNCHANGED <<pods, poll, crashes>>,
         api'[u].pod.gen = api[u].pod.gen, api'[u].life \in {api[u].life, "gone"},
         \/ call'[KeyOf[u]] = call[KeyOf[u]]
         \/ call[KeyOf[u]].op = "none" /\ api[u].life # "live" /\ ~Creating(u)'
  PROVE  Kept(u)
<1>1. /\ IsStored(u)' = IsStored(u) /\ InPollsHand(u)' = InPollsHand(u)
      /\ Working' = Working /\ Held' = Held
  BY StoreStays
<1>2. Creating(u)' => Creating(u) /\ call'[KeyOf[u]] = call[KeyOf[u]]
  BY DEF Creating
<1>3. Uncreated(u)' => Uncreated(u)
  BY <1>1 DEF Uncreated, Creating
<1>4. Unstarted(u)' => Unstarted(u)
  BY <1>1 DEF Unstarted
<1>5. call[KeyOf[u]].idx \in Nat /\ api[u].pod.gen \in Nat
  BY Ground DEF HandlerCall
<1>6. StaysCreated(u) /\ StaysStarted(u)
  BY <1>2, <1>3, <1>4, <1>5, CallMoves
<1>7. Alone(u)'
  BY <1>1, <1>2 DEF SubmitInv, CallsAlone, Alone
<1>8. HandStored(u)'
  BY <1>1 DEF SubmitInv, HandIsStored, HandStored
<1>9. QED
  BY <1>6, <1>7, <1>8 DEF Kept

LEMMA KubeletCreateKept ==
  ASSUME SafeInv, OwnInv, SafeInv', SubmitInv, NEW v \in Uid, KubeletCreate(v)
  PROVE  \A u \in Uid : Kept(u)
<1> DEFINE k == KeyOf[v]
           p == api[v].pod
<1>1. /\ api[v].life = "live" /\ pods[k] = None /\ call[k].op = "none"
      /\ call' = [call EXCEPT ![k] = [op |-> "create", pod |-> ResetPod(p), idx |-> 1]]
      /\ UNCHANGED <<pods, poll, crashes, api>>
  BY DEF KubeletCreate, CreatePod
<1>2. /\ k \in Key /\ p \in Pod /\ p.uid = v /\ p.gen \in Nat
      /\ call \in [Key -> HandlerCall]
  BY Ground DEF ProviderTypeOK
<1>3. /\ call'[k].op = "create" /\ call'[k].idx = 1
      /\ call'[k].pod.uid = v /\ call'[k].pod.gen = p.gen
      /\ \A x \in Key : x # k => call'[x] = call[x]
  BY <1>1, <1>2, PodShapes
<1>4. ASSUME NEW u \in Uid, u # v PROVE Kept(u)
  <2>1. KeyOf[u] = k => api[u].life # "live"
    BY <1>1, <1>4 DEF SubmitInv, OnePresent, Present
  <2>2. KeyOf[u] = k => ~Creating(u)'
    BY <1>3, <1>4 DEF Creating
  <2>3. KeyOf[u] # k => call'[KeyOf[u]] = call[KeyOf[u]]
    BY <1>3, Ground
  <2>4. QED
    BY <1>1, <2>1, <2>2, <2>3, CallBeginsKept
<1>5. Kept(v)
  <2>1. ~IsStored(v) /\ ~Creating(v) /\ ~InPollsHand(v)
    BY <1>1 DEF IsStored, Creating, SubmitInv, HandIsStored, HandStored
  <2>2. Uncreated(v) /\ Unstarted(v)
    BY <1>1, <2>1 DEF Uncreated, Unstarted
  <2>3. StaysCreated(v) /\ StaysStarted(v)
    BY <1>1, <1>2, <1>3, <2>2, CallMoves
  <2>4. ~IsStored(v)' /\ ~InPollsHand(v)'
    BY <1>1, <2>1, StoreStays
  <2>5. QED
    BY <2>3, <2>4 DEF Kept, Alone, HandStored
<1>6. QED
  BY <1>4, <1>5

LEMMA KubeletDeleteKept ==
  ASSUME SafeInv, OwnInv, SafeInv', SubmitInv, NEW v \in Uid,
         KubeletDelete(v) \/ KubeletDeleteRemoved(v)
  PROVE  \A u \in Uid : Kept(u)
<1> DEFINE k == KeyOf[v]
<1>1. PICK c : /\ call' = [call EXCEPT ![k] = c] /\ c.op = "delete"
               /\ call[k].op = "none" /\ UNCHANGED <<pods, poll>>
  BY DEF KubeletDelete, KubeletDeleteRemoved, DeletePod
<1>2. UNCHANGED crashes /\ k \in Key /\ call \in [Key -> HandlerCall] /\ api \in [Uid -> ApiObject]
  BY Ground DEF SafeInv, TypeOK, ProviderTypeOK, KubeletDelete, KubeletDeleteRemoved
<1>3. \A x \in Key : call'[x] = IF x = k THEN c ELSE call[x]
  BY <1>1, <1>2
<1>4. ASSUME NEW u \in Uid
      PROVE  api'[u].pod.gen = api[u].pod.gen /\ api'[u].life \in {api[u].life, "gone"}
  BY <1>2 DEF KubeletDelete, KubeletDeleteRemoved, ApiObject
<1>5. ASSUME NEW u \in Uid, KeyOf[u] = k PROVE api[u].life # "live"
  <2>1. CASE KubeletDelete(v)
    BY <1>5, <2>1 DEF KubeletDelete, SubmitInv, OnePresent, Present
  <2>2. CASE KubeletDeleteRemoved(v)
    BY <1>5, <2>2 DEF KubeletDeleteRemoved, Owned, Present
  <2>3. QED
    BY <2>1, <2>2
<1> SUFFICES ASSUME NEW u \in Uid PROVE Kept(u)
  OBVIOUS
<1>6. KeyOf[u] \in Key
  BY Ground
<1>7. \/ call'[KeyOf[u]] = call[KeyOf[u]]
      \/ call[KeyOf[u]].op = "none" /\ api[u].life # "live" /\ ~Creating(u)'
  BY <1>1, <1>3, <1>5, <1>6 DEF Creating
<1>8. QED
  BY <1>1, <1>2, <1>4, <1>7, CallBeginsKept

(* An edit and a status from the provider change the API's object only.     *)
LEMMA EditEffect ==
  ASSUME SafeInv, OwnInv, NEW v \in Uid, UserEdit(v)
  PROVE  \E p \in Pod : /\ api' = [api EXCEPT ![v].pod = p]
                        /\ p.gen = api[v].pod.gen + 1 /\ p.uid = v
                        /\ p.phase = api[v].pod.phase
                        /\ p.initialized = api[v].pod.initialized
<1> DEFINE p == [api[v].pod EXCEPT !.gen = api[v].pod.gen + 1]
<1>1. api[v].pod \in Pod /\ api[v].pod.uid = v /\ api[v].pod.gen + 1 \in Nat
  BY Ground
<1>2. api' = [api EXCEPT ![v].pod = p]
  BY DEF UserEdit, SafeInv, TypeOK, ApiObject
<1>3. /\ p \in Pod /\ p.gen = api[v].pod.gen + 1 /\ p.uid = v
      /\ p.phase = api[v].pod.phase /\ p.initialized = api[v].pod.initialized
  BY <1>1 DEF Pod
<1> HIDE DEF p
<1>4. QED
  BY <1>2, <1>3

LEMMA SyncEffect ==
  ASSUME SafeInv, OwnInv, NEW k \in Key, KubeletSync(k)
  PROVE  \E v \in Uid, p \in Pod :
           /\ api' = [api EXCEPT ![v].pod = p]
           /\ p.gen = api[v].pod.gen /\ p.uid = v
           /\ p.phase = mail[k].phase /\ p.initialized = mail[k].initialized
           /\ mail[k] # None /\ mail[k].uid = v
<1> DEFINE v == mail[k].uid
           p == [mail[k] EXCEPT !.gen = api[v].pod.gen]
<1>1. mail[k] \in Pod /\ mail[k] # None /\ v \in Uid
  BY PodFacts DEF KubeletSync, SafeInv, TypeOK, ProviderTypeOK
<1>2. api[v].pod.gen \in Nat
  BY <1>1, Ground
<1>3. api' = [api EXCEPT ![v].pod = p]
  BY DEF KubeletSync
<1>4. /\ p \in Pod /\ p.gen = api[v].pod.gen /\ p.uid = v
      /\ p.phase = mail[k].phase /\ p.initialized = mail[k].initialized
  BY <1>1, <1>2 DEF Pod
<1> HIDE DEF p
<1>5. QED
  BY <1>1, <1>3, <1>4

LEMMA ApiStepKept ==
  ASSUME SafeInv, OwnInv, SafeInv', SubmitInv,
         \/ UserStep
         \/ \E u \in Uid : KubeletForget(u) \/ KubeletRemove(u)
         \/ \E k \in Key : KubeletSync(k)
  PROVE  \A u \in Uid : Kept(u)
<1> SUFFICES ASSUME NEW u \in Uid PROVE Kept(u)
  OBVIOUS
<1>1. api \in [Uid -> ApiObject] /\ api[u].pod.gen \in Nat /\ api[u].pod \in Pod
  BY Ground DEF SafeInv, TypeOK
<1>2. UNCHANGED <<providerVars, crashes>>
  BY DEF UserStep, UserCreate, UserEdit, UserDelete, UserForceDelete, KubeletForget,
     KubeletRemove, KubeletSync
<1>3. CASE \E v \in Uid : UserEdit(v)
  <2>1. PICK v \in Uid, p \in Pod :
          api' = [api EXCEPT ![v].pod = p] /\ p.gen = api[v].pod.gen + 1
    BY <1>3, EditEffect
  <2>2. api'[u].life = api[u].life /\ api'[u].pod.gen \in {api[u].pod.gen, api[u].pod.gen + 1}
    BY <1>1, <2>1 DEF ApiObject
  <2>3. QED
    BY <1>1, <1>2, <2>2, LifeKept
<1>4. CASE \E k \in Key : KubeletSync(k)
  <2>1. PICK v \in Uid, p \in Pod :
          api' = [api EXCEPT ![v].pod = p] /\ p.gen = api[v].pod.gen
    BY <1>4, SyncEffect
  <2>2. api'[u].life = api[u].life /\ api'[u].pod.gen = api[u].pod.gen
    BY <1>1, <2>1 DEF ApiObject
  <2>3. QED
    BY <1>1, <1>2, <2>2, LifeKept
<1>5. CASE \E v \in Uid : \/ UserCreate(v) \/ UserDelete(v) \/ UserForceDelete(v)
                          \/ KubeletForget(v) \/ KubeletRemove(v)
  <2>1. /\ api'[u].pod = api[u].pod
        /\ \/ api'[u].life = api[u].life
           \/ api'[u].life \in {"deleting", "removed", "gone"}
           \/ api[u].life = "none"
    BY <1>1, <1>5 DEF UserCreate, UserDelete, UserForceDelete, KubeletForget, KubeletRemove,
       ApiObject
  <2>2. api'[u].pod.gen >= api[u].pod.gen
    BY <1>1, <2>1
  <2>3. QED
    BY <1>2, <2>1, <2>2, LifeKept
<1>6. QED
  BY <1>3, <1>4, <1>5 DEF UserStep


(* A restart forgets every copy, and allows for one more of everything.     *)
LEMMA CrashCounts ==
  ASSUME SafeInv, OwnInv, SubmitInv, Crash
  PROVE  CreatesCounted' /\ StartsCounted' /\ CallsAlone' /\ HandIsStored'
<1>1. /\ SameCounts /\ crashes' = crashes + 1 /\ UNCHANGED api
      /\ ~Working' /\ \A x \in Key : pods'[x] = None /\ call'[x] = NoCall
  BY DEF Crash, SameCounts, Count, Submissions, remoteVars, IdlePoll, Working
<1>2. ASSUME NEW u \in Uid
      PROVE  ~IsStored(u)' /\ ~InPollsHand(u)' /\ ~Creating(u)'
  BY <1>1, ProviderAssumption DEF IsStored, InPollsHand, Creating, NoCall
<1>3. ASSUME NEW u \in Uid, NEW i \in DOMAIN CreateList(u)
      PROVE  CreateBounds(u, i, Count(CreateList(u)[i]))'
  <2> DEFINE n == Count(CreateList(u)[i])
  <2>1. n <= crashes + 1 /\ n' = n
    BY <1>1 DEF SubmitInv, CreatesCounted, CreateBounds, SameCounts
  <2>2. n \in Nat /\ crashes \in Nat
    BY CountFacts, Ground
  <2>3. n' <= crashes'
    BY <1>1, <2>1, <2>2
  <2>4. n' <= crashes' + 1
    BY <1>1, <2>1, <2>2
  <2>5. QED
    BY <1>2, <2>3, <2>4 DEF CreateBounds
<1>4. ASSUME NEW u \in Uid, InitOf[u] # <<>>, NEW i \in DOMAIN MainOf[u]
      PROVE  StartBounds(u, i, Count(MainOf[u][i]))'
  <2> DEFINE n == Count(MainOf[u][i])
  <2>1. n <= crashes + api[u].pod.gen + 1 /\ n' = n
    BY <1>1, <1>4 DEF SubmitInv, StartsCounted, StartBounds, SameCounts
  <2>2. n \in Nat /\ crashes \in Nat /\ api[u].pod.gen \in Nat /\ api'[u] = api[u]
    BY <1>1, CountFacts, Ground
  <2>3. n' <= crashes' + api'[u].pod.gen
    BY <1>1, <2>1, <2>2
  <2>4. n' <= crashes' + api'[u].pod.gen + 1
    BY <1>1, <2>1, <2>2
  <2>5. QED
    BY <1>2, <2>3, <2>4 DEF StartBounds
<1>5. CallsAlone' /\ HandIsStored'
  <2>1. ASSUME NEW u \in Uid PROVE Alone(u)' /\ HandStored(u)'
    BY <1>2 DEF Alone, HandStored
  <2>2. QED
    BY <2>1 DEF CallsAlone, HandIsStored
<1>6. QED
  BY <1>3, <1>4, <1>5 DEF CreatesCounted, StartsCounted

-----------------------------------------------------------------------------
(* No copy is newer than the API's. *)

LEMMA NobodySound == Sound(None)
BY DEF Sound

LEMMA SameSound ==
  ASSUME NEW p, NEW q, q # None, Sound(q), p.uid = q.uid, p.gen = q.gen,
         q.initialized => p.initialized, p.phase = "Running" => q.phase = "Running"
  PROVE  Sound(p)
BY DEF Sound

ProviderSound ==
  /\ \A k \in Key : Sound(pods[k]) /\ Sound(mail[k]) /\ Sound(call[k].pod)
  /\ Sound(poll.orphan)

ObjectsSound == \A u \in Uid : Sound(api[u].pod) /\ api[u].pod.gen <= edits

LEMMA CopiesSplit == CopiesSound <=> ProviderSound /\ ObjectsSound
BY DEF CopiesSound, ProviderSound, ObjectsSound

(* Edits go forward. *)
EditsForward == \A u \in Uid : api'[u].pod.gen >= api[u].pod.gen

LEMMA SoundForward ==
  ASSUME SafeInv, SafeInv', EditsForward,
         \A x \in Key : Sound(pods'[x]) /\ Sound(mail'[x]) /\ Sound(call'[x].pod),
         Sound(poll'.orphan)
  PROVE  ProviderSound'
<1>1. ASSUME NEW p, p \in Pod \cup {None}, Sound(p)
      PROVE  p # None => /\ p.gen <= api'[p.uid].pod.gen
                         /\ p.phase = "Running" /\ InitOf[p.uid] = <<>> => p.initialized
  <2> SUFFICES ASSUME p # None PROVE p.gen <= api'[p.uid].pod.gen
    BY <1>1 DEF Sound
  <2>1. p.uid \in Uid /\ p.gen \in Nat /\ p.gen <= api[p.uid].pod.gen
    BY <1>1, PodFacts DEF Sound
  <2>2. /\ api'[p.uid].pod.gen >= api[p.uid].pod.gen
        /\ api[p.uid].pod.gen \in Nat /\ api'[p.uid].pod.gen \in Nat
    BY <2>1 DEF EditsForward, SafeInv, TypeOK, ApiObject, Pod
  <2>3. QED
    BY <2>1, <2>2
<1>2. /\ \A x \in Key : /\ pods'[x] \in Pod \cup {None} /\ mail'[x] \in Pod \cup {None}
                        /\ call'[x].pod \in Pod \cup {None}
      /\ poll'.orphan \in Pod \cup {None}
  BY DEF SafeInv, TypeOK, ProviderTypeOK, HandlerCall, PollLocals
<1>3. \A x \in Key : Sound(pods[x])' /\ Sound(mail[x])' /\ Sound(call[x].pod)'
  BY <1>1, <1>2 DEF Sound
<1>4. Sound(poll.orphan)'
  BY <1>1, <1>2 DEF Sound
<1>5. QED
  BY <1>3, <1>4 DEF ProviderSound

LEMMA ApiStays ==
  ASSUME SafeInv, OwnInv, ControlUnchanged
  PROVE  EditsForward /\ (ObjectsSound => ObjectsSound')
BY Ground DEF EditsForward, ObjectsSound, ControlUnchanged, Sound

(* The pod in hand is written, left, or replaced by a handler.              *)
LEMMA HandSound ==
  ASSUME SafeInv, ProviderSound, Working
  PROVE  /\ Sound(Held) /\ Held \in Pod /\ Held # None /\ poll.key \in Key
         /\ ProviderTypeOK /\ PollHolds
BY SafeInvSplits, HandFacts, PodFacts DEF ProviderSound, Held, ProviderInv

LEMMA WriteSound ==
  ASSUME SafeInv, SafeInv', EditsForward, ProviderSound, Working,
         NEW p \in Pod, NEW q \in PollLocals, q.orphan = poll.orphan, q.key = poll.key,
         p.uid = Held.uid, p.gen = Held.gen, Held.initialized => p.initialized,
         p.phase = "Running" => Held.phase = "Running",
         Write(p, q), UNCHANGED <<call, mail>>
  PROVE  ProviderSound'
<1>1. Sound(p)
  BY HandSound, SameSound
<1>2. /\ \A x \in Key : pods'[x] = pods[x] \/ (x = poll.key /\ pods'[x] = p)
      /\ poll'.orphan = None \/ poll'.orphan = p
  BY HandSound, WriteEffect
<1>3. \A x \in Key : Sound(pods'[x]) /\ Sound(mail'[x]) /\ Sound(call'[x].pod)
  BY <1>1, <1>2 DEF ProviderSound
<1>4. QED
  BY <1>1, <1>2, <1>3, NobodySound, SoundForward

LEMMA LeaveSound ==
  ASSUME SafeInv, SafeInv', EditsForward, ProviderSound, Working,
         NEW p \in Pod, NEW update \in BOOLEAN,
         p.uid = Held.uid, p.gen = Held.gen, Held.initialized => p.initialized,
         p.phase = "Running" => Held.phase = "Running",
         Leave(p, update), UNCHANGED call
  PROVE  ProviderSound'
<1>1. Sound(p)
  BY HandSound, SameSound
<1>2. /\ \A x \in Key : pods'[x] = pods[x] \/ (update /\ x = poll.key /\ pods'[x] = p)
      /\ \A x \in Key : mail'[x] = mail[x] \/ (update /\ x = poll.key /\ mail'[x] = p)
      /\ poll'.orphan = None
  BY HandSound, LeaveEffect
<1>3. \A x \in Key : Sound(pods'[x]) /\ Sound(mail'[x]) /\ Sound(call'[x].pod)
  BY <1>1, <1>2 DEF ProviderSound
<1>4. QED
  BY <1>2, <1>3, NobodySound, SoundForward

LEMMA StoreSound ==
  ASSUME SafeInv, SafeInv', EditsForward, ProviderSound, NEW k \in Key, NEW p, Sound(p),
         StoreByHandler(k, p), \A x \in Key : Sound(call'[x].pod)
  PROVE  ProviderSound'
<1>1. ProviderTypeOK
  BY DEF SafeInv, TypeOK
<1>2. /\ \A x \in Key : pods'[x] = IF x = k THEN p ELSE pods[x]
      /\ \A x \in Key : mail'[x] = IF x = k THEN p ELSE mail[x]
      /\ poll'.orphan \in {poll.orphan, pods[k]}
  BY <1>1, StoreEffect
<1>3. QED
  BY <1>2, SoundForward DEF ProviderSound

(* Only calls move. *)
LEMMA CallSound ==
  ASSUME SafeInv, SafeInv', EditsForward, ProviderSound, NEW k \in Key, NEW c,
         call' = [call EXCEPT ![k] = c], Sound(c.pod), UNCHANGED <<pods, poll, mail>>
  PROVE  ProviderSound'
<1>1. \A x \in Key : call'[x] = IF x = k THEN c ELSE call[x]
  BY DEF SafeInv, TypeOK, ProviderTypeOK
<1>2. QED
  BY <1>1, SoundForward DEF ProviderSound

(* No copy of a pod moves, but for what the poll lets go.                   *)
LEMMA NothingSound ==
  ASSUME SafeInv, SafeInv', EditsForward, ProviderSound, UNCHANGED <<pods, call, mail>>,
         poll'.orphan \in {None, poll.orphan}
  PROVE  ProviderSound'
BY NobodySound, SoundForward DEF ProviderSound


LEMMA HandlerSound ==
  ASSUME SafeInv, SafeInv', OwnInv, EditsForward, ProviderSound, NEW k \in Key,
         HandlerStep(k)
  PROVE  ProviderSound'
<1>1. /\ ProviderTypeOK /\ call \in [Key -> HandlerCall] /\ Sound(call[k].pod)
      /\ call[k].op # "none"
  BY DEF SafeInv, TypeOK, ProviderTypeOK, ProviderSound, HandlerStep, CreateContainer,
     CreateStore, DeleteContainer, DeleteForget
<1> DEFINE c == call[k].pod
<1>2. c \in Pod /\ c # None
  BY <1>1, CallUnderKey
<1>3. CASE CreateContainer(k)
  <2>1. PICK ok \in BOOLEAN :
          call' = [call EXCEPT ![k] =
            [call[k] EXCEPT !.pod = Launched(call[k].pod, ok), !.idx = call[k].idx + 1]]
    BY <1>3 DEF CreateContainer
  <2> DEFINE d == [call[k] EXCEPT !.pod = Launched(call[k].pod, ok), !.idx = call[k].idx + 1]
  <2>2. d.pod = Launched(c, ok) /\ call' = [call EXCEPT ![k] = d]
    BY <1>1, <2>1 DEF HandlerCall
  <2> HIDE DEF d
  <2>3. Sound(Launched(c, ok))
    BY <1>1, <1>2, PodShapes, SameSound
  <2>4. UNCHANGED <<pods, poll, mail>>
    BY <1>3 DEF CreateContainer
  <2>5. QED
    BY <2>2, <2>3, <2>4, CallSound
<1>4. CASE DeleteContainer(k)
  <2> DEFINE d == [call[k] EXCEPT !.idx = call[k].idx + 1]
  <2>1. call' = [call EXCEPT ![k] = d] /\ UNCHANGED <<pods, poll, mail>>
    BY <1>4 DEF DeleteContainer
  <2>2. d.pod = c
    BY <1>1 DEF HandlerCall
  <2> HIDE DEF d
  <2>3. QED
    BY <1>1, <2>1, <2>2, CallSound
<1>5. CASE CreateStore(k)
  <2> DEFINE p == IF InitOf[c.uid] = <<>> THEN c
                  ELSE [c EXCEPT !.cst = All(Waiting, Len(MainOf[c.uid]))]
  <2>1. StoreByHandler(k, p) /\ call' = [call EXCEPT ![k] = NoCall]
    BY <1>5 DEF CreateStore
  <2>2. p.uid = c.uid /\ p.gen = c.gen /\ p.initialized = c.initialized /\ p.phase = c.phase
    BY <1>2 DEF Pod
  <2> HIDE DEF p
  <2>3. Sound(p)
    BY <1>1, <1>2, <2>2, SameSound
  <2>4. NoCall.pod = None
    BY DEF NoCall
  <2>5. \A x \in Key : Sound(call'[x].pod)
    BY <1>1, <2>1, <2>4, NobodySound DEF ProviderSound
  <2>6. QED
    BY <2>1, <2>3, <2>5, StoreSound
<1>6. CASE DeleteForget(k)
  <2>1. Sound(DeletedPod(c))
    BY <1>1, <1>2, PodShapes, SameSound
  <2>2. /\ \A x \in Key : pods'[x] = IF x = k THEN None ELSE pods[x]
        /\ \A x \in Key : mail'[x] = IF x = k THEN DeletedPod(c) ELSE mail[x]
        /\ poll'.orphan \in {poll.orphan, pods[k]}
    BY <1>1, <1>6, ForgetEffect
  <2>3. \A x \in Key : call'[x].pod \in {None, call[x].pod}
    BY <1>1, <1>6 DEF DeleteForget, NoCall
  <2>4. \A x \in Key : Sound(pods'[x]) /\ Sound(mail'[x]) /\ Sound(call'[x].pod)
    BY <2>1, <2>2, <2>3, NobodySound DEF ProviderSound
  <2>5. Sound(poll'.orphan)
    BY <2>2 DEF ProviderSound
  <2>6. QED
    BY <2>4, <2>5, SoundForward
<1>7. QED
  BY <1>3, <1>4, <1>5, <1>6 DEF HandlerStep

LEMMA ContainerReadSound ==
  ASSUME SafeInv, SafeInv', EditsForward, ProviderSound,
         PollInitContainer \/ PollMainContainer
  PROVE  ProviderSound'
<1>1. ProviderInv /\ RemoteTypeOK /\ Working /\ UNCHANGED <<call, mail>>
  BY SafeInvSplits DEF SafeInv, TypeOK, PollInitContainer, PollMainContainer, Working
<1>2. poll \in PollLocals
  BY <1>1, HandFacts
<1>3. NextOne(NotYet) /\ \A good, wrote \in BOOLEAN : NextOne(Counted(good, wrote))
  BY <1>2, NextOneFacts
<1>4. CASE UNCHANGED pods /\ NextOne(poll')
  BY <1>1, <1>4, NothingSound DEF NextOne
<1>5. ASSUME NEW p \in Pod, NEW good \in BOOLEAN, Write(p, Counted(good, TRUE)),
             p.uid = Held.uid, p.gen = Held.gen, p.initialized = Held.initialized,
             p.phase = Held.phase
      PROVE  ProviderSound'
  <2> DEFINE q == Counted(good, TRUE)
  <2>1. q \in PollLocals /\ q.orphan = poll.orphan /\ q.key = poll.key
    BY <1>3 DEF NextOne
  <2>2. Write(p, q)
    BY <1>5
  <2> HIDE DEF q
  <2>3. QED
    BY <1>1, <1>5, <2>1, <2>2, WriteSound
<1>6. CASE PollInitContainer
  BY <1>1, <1>3, <1>4, <1>5, <1>6, InitEffect
<1>7. CASE PollMainContainer
  BY <1>1, <1>3, <1>4, <1>5, <1>7, MainEffect
<1>8. QED
  BY <1>6, <1>7

LEMMA PollSound ==
  ASSUME SafeInv, SafeInv', OwnInv, EditsForward, ProviderSound, PollStep
  PROVE  ProviderSound'
<1>1. ProviderInv /\ pods \in [Key -> Pod \cup {None}]
  BY SafeInvSplits DEF SafeInv, TypeOK, ProviderTypeOK
<1>2. CASE PollBegin \/ PollEnd \/ \E k \in Key : PollSkip(k)
  BY <1>1, <1>2, BetweenEffect, NothingSound
<1>3. ASSUME NEW k \in Key, PollPick(k) PROVE ProviderSound'
  BY <1>1, <1>3, PickEffect, NothingSound
<1>4. ASSUME NEW k \in Key, PollFirstPass(k) PROVE ProviderSound'
  <2>1. PICK p \in Pod :
          /\ pods' = [pods EXCEPT ![k] = p] /\ UNCHANGED <<call, mail>>
          /\ pods[k] # None /\ p.uid = pods[k].uid /\ p.gen = pods[k].gen
          /\ p.initialized = pods[k].initialized /\ p.phase = pods[k].phase
          /\ poll'.orphan = None
    BY <1>1, <1>4, FirstPassEffect
  <2>2. Sound(p)
    BY <2>1, SameSound DEF ProviderSound
  <2>3. \A x \in Key : pods'[x] = IF x = k THEN p ELSE pods[x]
    BY <1>1, <2>1
  <2>4. QED
    BY <2>1, <2>2, <2>3, NobodySound, SoundForward DEF ProviderSound
<1>5. CASE PollInitDone
  <2>1. /\ Working /\ Held \in Pod /\ poll.dirty \in BOOLEAN /\ UNCHANGED call
        /\ ~Held.initialized
    BY <1>1, <1>5, HandFacts DEF PollInitDone, Working, InHand
  <2>2. QED
    BY <1>1, <1>5, <2>1, InitDoneEffect, WriteSound, LeaveSound
<1>6. CASE startMainContainers
  <2>1. Working /\ poll \in PollLocals /\ UNCHANGED <<call, mail>>
    BY <1>1, <1>6, HandFacts DEF startMainContainers, Working
  <2>2. NotYet \in PollLocals /\ NotYet.orphan = poll.orphan /\ NotYet.key = poll.key
    BY <2>1, NextOneFacts DEF NextOne
  <2>3. QED
    BY <1>1, <1>6, <2>1, <2>2, StartEffect, WriteSound
<1>7. CASE PollStarted
  <2>1. Working /\ Held \in Pod /\ Leave(Held, TRUE) /\ UNCHANGED call
    BY <1>1, <1>7, HandFacts DEF PollStarted, Working
  <2>2. QED
    BY <2>1, LeaveSound
<1>8. CASE PollMainDone
  <2>1. /\ Working /\ Held \in Pod /\ poll.dirty \in BOOLEAN /\ UNCHANGED call
        /\ Held.phase = "Running" \/ Leave(Held, poll.dirty)
    BY <1>1, <1>8, HandFacts DEF PollMainDone, Working
  <2>2. ASSUME NEW p \in Pod, Leave(p, TRUE), p.uid = Held.uid, p.gen = Held.gen,
               p.initialized = Held.initialized, p.phase # "Running"
        PROVE  ProviderSound'
    BY <2>1, <2>2, LeaveSound
  <2>3. QED
    BY <1>1, <1>8, <2>1, <2>2, MainDoneEffect, LeaveSound
<1>9. QED
  BY <1>2, <1>3, <1>4, <1>5, <1>6, <1>7, <1>8, ContainerReadSound DEF PollStep

LEMMA KubeletSound ==
  ASSUME SafeInv, SafeInv', OwnInv, EditsForward, ProviderSound, ObjectsSound,
         NEW v \in Uid, KubeletStep(v)
  PROVE  ProviderSound' /\ ObjectsSound'
<1> DEFINE k == KeyOf[v]
<1>1. /\ k \in Key /\ api[v].pod \in Pod /\ Sound(api[v].pod) /\ ProviderTypeOK
      /\ \A x \in Key : Sound(call[x].pod)
  BY Ground DEF ObjectsSound, ProviderSound
<1>2. ObjectsSound'
  <2>1. /\ \A u \in Uid : api'[u].pod = api[u].pod
        /\ edits' = edits
    BY DEF KubeletStep, KubeletCreate, KubeletUpdate, KubeletDelete, KubeletDeleteRemoved,
       KubeletForget, KubeletRemove, SafeInv, TypeOK, ApiObject
  <2>2. \A u \in Uid : api[u].pod.uid = u
    BY Ground
  <2>3. QED
    BY <2>1, <2>2 DEF ObjectsSound, Sound
<1>3. CASE KubeletCreate(v)
  <2> DEFINE p == ResetPod(api[v].pod)
             c == [op |-> "create", pod |-> p, idx |-> 1]
  <2>1. call' = [call EXCEPT ![k] = c] /\ UNCHANGED <<pods, poll, mail>>
    BY <1>3 DEF KubeletCreate, CreatePod
  <2>2. /\ p.uid = api[v].pod.uid /\ p.gen = api[v].pod.gen
        /\ InitOf[p.uid] = <<>> => p.initialized
    BY <1>1, PodShapes
  <2>3. c.pod = p
    OBVIOUS
  <2> HIDE DEF p, c
  <2>4. Sound(p)
    BY <1>1, <2>2, PodFacts DEF Sound
  <2>5. QED
    BY <1>1, <1>2, <2>1, <2>3, <2>4, CallSound
<1>4. CASE KubeletUpdate(v)
  <2>1. StoreByHandler(k, api[v].pod) /\ UNCHANGED call
    BY <1>4 DEF KubeletUpdate, UpdatePod
  <2>2. QED
    BY <1>1, <1>2, <2>1, StoreSound
<1>5. CASE KubeletDelete(v) \/ KubeletDeleteRemoved(v)
  <2>1. PICK q \in Pod :
          /\ Sound(q) /\ UNCHANGED <<pods, poll, mail>>
          /\ call' = [call EXCEPT ![k] =
               [op |-> "delete", idx |-> 1,
                pod |-> [q EXCEPT !.phase = "Succeeded", !.reason = "deleted"]]]
    BY <1>1, <1>5 DEF KubeletDelete, KubeletDeleteRemoved, DeletePod, ProviderSound,
       ProviderTypeOK
  <2> DEFINE p == [q EXCEPT !.phase = "Succeeded", !.reason = "deleted"]
             c == [op |-> "delete", idx |-> 1, pod |-> p]
  <2>2. /\ p.uid = q.uid /\ p.gen = q.gen /\ p.phase = "Succeeded" /\ c.pod = p
        /\ call' = [call EXCEPT ![k] = c]
    BY <2>1 DEF Pod
  <2> HIDE DEF p, c
  <2>3. Sound(p)
    BY <2>1, <2>2, PodFacts DEF Sound
  <2>4. QED
    BY <1>1, <1>2, <2>1, <2>2, <2>3, CallSound
<1>6. CASE KubeletForget(v) \/ KubeletRemove(v)
  <2>1. UNCHANGED <<pods, poll, mail, call>>
    BY <1>6 DEF KubeletForget, KubeletRemove, providerVars
  <2>2. QED
    BY <1>2, <2>1, NothingSound
<1>7. QED
  BY <1>3, <1>4, <1>5, <1>6 DEF KubeletStep


LEMMA ApiStepSound ==
  ASSUME SafeInv, SafeInv', OwnInv, EditsForward, ProviderSound, ObjectsSound,
         UserStep \/ \E k \in Key : KubeletSync(k)
  PROVE  ProviderSound' /\ ObjectsSound'
<1>1. api \in [Uid -> ApiObject] /\ \A u \in Uid : api[u].pod.uid = u
  BY Ground DEF SafeInv, TypeOK
<1>2. UNCHANGED providerVars
  BY DEF UserStep, UserCreate, UserEdit, UserDelete, UserForceDelete, KubeletSync
<1>3. ProviderSound'
  BY <1>2, NothingSound DEF providerVars
<1>4. ASSUME NEW v \in Uid, NEW p \in Pod, api' = [api EXCEPT ![v].pod = p],
             p.uid = v, p.gen <= edits', edits' \in {edits, edits + 1},
             p.phase = "Running" /\ InitOf[v] = <<>> => p.initialized
      PROVE  ObjectsSound'
  <2> SUFFICES ASSUME NEW u \in Uid
               PROVE  Sound(api[u].pod)' /\ api'[u].pod.gen <= edits'
    BY DEF ObjectsSound
  <2>1. api'[u].pod = IF u = v THEN p ELSE api[u].pod
    BY <1>1, <1>4 DEF ApiObject
  <2>2. /\ api[u].pod.gen \in Nat /\ edits \in Nat /\ api[u].pod.gen <= edits
        /\ p.gen \in Nat /\ Sound(api[u].pod) /\ api[u].pod # None
    BY Ground, PodFacts DEF ObjectsSound
  <2>3. CASE u = v
    BY <1>1, <1>4, <2>1, <2>2, <2>3 DEF Sound
  <2>4. CASE u # v
    BY <1>1, <1>4, <2>1, <2>2, <2>4 DEF Sound
  <2>5. QED
    BY <2>3, <2>4
<1>5. CASE \E u \in Uid : UserEdit(u)
  <2>1. PICK v \in Uid : UserEdit(v)
    BY <1>5
  <2>2. PICK p \in Pod : /\ api' = [api EXCEPT ![v].pod = p]
                         /\ p.gen = api[v].pod.gen + 1 /\ p.uid = v
                         /\ p.phase = api[v].pod.phase
                         /\ p.initialized = api[v].pod.initialized
    BY <2>1, EditEffect
  <2>3. /\ edits' = edits + 1 /\ api[v].pod.gen <= edits /\ api[v].pod.gen \in Nat
        /\ edits \in Nat /\ Sound(api[v].pod) /\ api[v].pod # None
    BY <2>1, Ground, PodFacts DEF UserEdit, ObjectsSound
  <2>4. p.phase = "Running" /\ InitOf[v] = <<>> => p.initialized
    BY <1>1, <2>2, <2>3 DEF Sound
  <2>5. p.gen <= edits' /\ edits' \in {edits, edits + 1}
    BY <2>2, <2>3
  <2>6. QED
    BY <1>3, <1>4, <2>2, <2>4, <2>5
<1>6. CASE \E k \in Key : KubeletSync(k)
  <2>1. PICK k \in Key : KubeletSync(k)
    BY <1>6
  <2>2. PICK v \in Uid, p \in Pod :
          /\ api' = [api EXCEPT ![v].pod = p]
          /\ p.gen = api[v].pod.gen /\ p.uid = v
          /\ p.phase = mail[k].phase /\ p.initialized = mail[k].initialized
          /\ mail[k] # None /\ mail[k].uid = v
    BY <2>1, SyncEffect
  <2>3. edits' = edits /\ api[v].pod.gen <= edits /\ Sound(mail[k])
    BY <2>1 DEF KubeletSync, ObjectsSound, ProviderSound
  <2>4. p.phase = "Running" /\ InitOf[v] = <<>> => p.initialized
    BY <2>2, <2>3 DEF Sound
  <2>5. p.gen <= edits' /\ edits' \in {edits, edits + 1}
    BY <2>2, <2>3
  <2>6. QED
    BY <1>3, <1>4, <2>2, <2>4, <2>5
<1>7. CASE \E u \in Uid : UserCreate(u) \/ UserDelete(u) \/ UserForceDelete(u)
  <2>1. edits' = edits /\ \A u \in Uid : api'[u].pod = api[u].pod
    BY <1>1, <1>7 DEF UserCreate, UserDelete, UserForceDelete, ApiObject
  <2>2. QED
    BY <1>1, <1>3, <2>1 DEF ObjectsSound, Sound
<1>8. QED
  BY <1>3, <1>5, <1>6, <1>7 DEF UserStep

-----------------------------------------------------------------------------
(* The poll starts main containers only of a pod with init containers, and  *)
(* one pod of each name is in the API.                                      *)

LEMMA HandStarts ==
  ASSUME StartsInitialized, poll'.pc = poll.pc, Working => Held' = Held
  PROVE  StartsInitialized'
BY DEF StartsInitialized, Working

LEMMA HandlerStarts ==
  ASSUME SafeInv, OwnInv, StartsInitialized, NEW k \in Key, HandlerStep(k)
  PROVE  StartsInitialized'
<1>1. CASE CreateContainer(k) \/ DeleteContainer(k)
  BY <1>1, HandStarts DEF CreateContainer, DeleteContainer, Held
<1>2. CASE CreateStore(k)
  BY <1>2, CreateStoreReplaces, HandStarts DEF Replaced, HandKept
<1>3. CASE DeleteForget(k)
  <2>1. ProviderTypeOK /\ PollHolds
    BY DEF SafeInv, TypeOK
  <2>2. Replaced(k, None)
    BY <1>3, <2>1, ForgetReplaces DEF DeleteForget
  <2>3. QED
    BY <2>2, HandStarts DEF Replaced, HandKept
<1>4. QED
  BY <1>1, <1>2, <1>3 DEF HandlerStep

LEMMA KubeletStarts ==
  ASSUME SafeInv, OwnInv, StartsInitialized, NEW u \in Uid, KubeletStep(u)
  PROVE  StartsInitialized'
<1>1. CASE KubeletUpdate(u)
  <2>1. /\ ProviderTypeOK /\ PollHolds /\ KeyOf[u] \in Key /\ api[u].pod \in Pod
        /\ StoreByHandler(KeyOf[u], api[u].pod)
    BY <1>1, Ground DEF KubeletUpdate, UpdatePod
  <2>2. QED
    BY <2>1, StoreReplaces, HandStarts DEF Replaced, HandKept
<1>2. CASE ~KubeletUpdate(u)
  <2>1. UNCHANGED <<pods, poll>>
    BY <1>2 DEF KubeletStep, KubeletCreate, KubeletDelete, KubeletDeleteRemoved,
       KubeletForget, KubeletRemove, CreatePod, DeletePod, providerVars
  <2>2. QED
    BY <2>1, HandStarts DEF Held
<1>3. QED
  BY <1>1, <1>2

LEMMA PollStarts ==
  ASSUME SafeInv, ProviderSound, StartsInitialized, PollStep
  PROVE  StartsInitialized'
<1>1. ProviderInv /\ ProviderTypeOK /\ PollHolds /\ RemoteTypeOK
  BY SafeInvSplits DEF ProviderInv, SafeInv, TypeOK
<1>2. ASSUME poll'.pc # "start" PROVE StartsInitialized'
  BY <1>2 DEF StartsInitialized
<1>3. ASSUME NEW p \in Pod, NEW update \in BOOLEAN, Leave(p, update), Working
      PROVE  StartsInitialized'
  BY <1>1, <1>2, <1>3, LeaveEffect
<1>4. CASE PollBegin \/ PollEnd \/ \E k \in Key : PollSkip(k)
  BY <1>1, <1>2, <1>4, BetweenEffect
<1>5. CASE \E k \in Key : PollFirstPass(k) \/ PollPick(k)
  BY <1>1, <1>2, <1>5, FirstPassEffect, PickEffect
<1>6. CASE PollInitContainer \/ PollMainContainer
  <2>1. poll.pc \in {"init", "main"} /\ poll \in PollLocals
    BY <1>6 DEF PollInitContainer, PollMainContainer, SafeInv, TypeOK, ProviderTypeOK
  <2>2. NextOne(NotYet) /\ \A good, wrote \in BOOLEAN : NextOne(Counted(good, wrote))
    BY <2>1, NextOneFacts
  <2>3. ASSUME NEW p \in Pod, NEW good \in BOOLEAN, Write(p, Counted(good, TRUE))
        PROVE  poll'.pc = poll.pc
    <3> DEFINE q == Counted(good, TRUE)
    <3>1. q \in PollLocals /\ q.pc = poll.pc
      BY <2>2 DEF NextOne
    <3>2. Write(p, q)
      BY <2>3
    <3> HIDE DEF q
    <3>3. QED
      BY <3>1, <3>2 DEF Write, PollLocals
  <2>4. NextOne(poll') => poll'.pc = poll.pc
    BY DEF NextOne
  <2>5. CASE PollInitContainer
    BY <1>1, <1>2, <1>6, <2>1, <2>2, <2>3, <2>4, <2>5, InitEffect
  <2>6. CASE PollMainContainer
    BY <1>1, <1>2, <1>6, <2>1, <2>2, <2>3, <2>4, <2>6, MainEffect
  <2>7. QED
    BY <1>6, <2>5, <2>6
<1>7. CASE PollInitDone
  <2>1. /\ Working /\ Held \in Pod /\ poll.dirty \in BOOLEAN /\ poll.idx \in Nat \ {0}
        /\ Held.phase = "Running" /\ ~Held.initialized /\ poll.pc = "init"
    BY <1>1, <1>7, HandFacts DEF PollInitDone, Working, InHand
  <2>2. InitOf[Held.uid] # <<>>
    BY <2>1, HandSound DEF Sound
  <2>3. ASSUME NEW p \in Pod, NEW q \in PollLocals, Write(p, q), p.uid = Held.uid,
               p.initialized, q.pc = "start", q.idx = 1, q.key = poll.key,
               q.orphan = poll.orphan, q.todo = poll.todo
        PROVE  StartsInitialized'
    <3>1. Held' = p
      BY <1>1, <2>1, <2>3, WriteFacts
    <3>2. QED
      BY <2>2, <2>3, <3>1 DEF StartsInitialized
  <2>4. QED
    BY <1>1, <1>3, <1>7, <2>1, <2>3, InitDoneEffect
<1>8. CASE startMainContainers
  <2>1. Working /\ poll \in PollLocals /\ poll.pc = "start" /\ poll.idx \in Nat \ {0}
    BY <1>1, <1>8, HandFacts DEF startMainContainers, Working
  <2>2. PICK p \in Pod : /\ Write(p, NotYet) /\ p.uid = Held.uid
                         /\ p.initialized = Held.initialized
    BY <1>1, <1>8, StartEffect
  <2>3. Held' = p
    BY <1>1, <2>1, <2>2, WriteFacts, NextOneFacts DEF NextOne
  <2>4. QED
    BY <2>1, <2>2, <2>3 DEF StartsInitialized
<1>9. CASE PollStarted
  <2>1. Working /\ Held \in Pod /\ Leave(Held, TRUE)
    BY <1>1, <1>9, HandFacts DEF PollStarted, Working
  <2>2. QED
    BY <1>3, <2>1
<1>10. CASE PollMainDone
  <2>1. Working /\ Held \in Pod /\ poll.dirty \in BOOLEAN
    BY <1>1, <1>10, HandFacts DEF PollMainDone, Working
  <2>2. QED
    BY <1>1, <1>3, <1>10, <2>1, MainDoneEffect
<1>11. QED
  BY <1>4, <1>5, <1>6, <1>7, <1>8, <1>9, <1>10 DEF PollStep

LEMMA PresentStays ==
  ASSUME OnePresent, \A u \in Uid : Present(u)' => Present(u)
  PROVE  OnePresent'
BY DEF OnePresent

LEMMA ApiPresent ==
  ASSUME SafeInv, OwnInv, OnePresent,
         \/ UserStep
         \/ \E u \in Uid : KubeletStep(u)
         \/ \E k \in Key : KubeletSync(k)
  PROVE  OnePresent'
<1>1. api \in [Uid -> ApiObject]
  BY DEF SafeInv, TypeOK
<1>2. ASSUME NEW v \in Uid, NEW l, l \in {"live", "deleting", "removed", "gone"},
             api' = [api EXCEPT ![v].life = l],
             \A u \in Uid : u # v /\ KeyOf[u] = KeyOf[v] /\ l \in {"live", "deleting"} =>
                               ~Present(u)
      PROVE  OnePresent'
  <2>1. \A u \in Uid : api'[u].life = IF u = v THEN l ELSE api[u].life
    BY <1>1, <1>2 DEF ApiObject
  <2>2. QED
    BY <1>2, <2>1 DEF OnePresent, Present
<1>3. CASE \E u \in Uid : UserCreate(u)
  BY <1>2, <1>3 DEF UserCreate, Owned
<1>4. CASE \E u \in Uid : \/ UserDelete(u) \/ UserForceDelete(u)
                          \/ KubeletDeleteRemoved(u) \/ KubeletForget(u) \/ KubeletRemove(u)
  <2>1. PICK v \in Uid : \/ UserDelete(v) \/ UserForceDelete(v)
                         \/ KubeletDeleteRemoved(v) \/ KubeletForget(v) \/ KubeletRemove(v)
    BY <1>4
  <2>2. \E l \in {"deleting", "removed", "gone"} :
          api' = [api EXCEPT ![v].life = l] /\ (l = "deleting" => api[v].life = "live")
    BY <2>1 DEF UserDelete, UserForceDelete, KubeletDeleteRemoved, KubeletForget, KubeletRemove
  <2>3. PICK l \in {"deleting", "removed", "gone"} :
          api' = [api EXCEPT ![v].life = l] /\ (l = "deleting" => api[v].life = "live")
    BY <2>2
  <2>4. ASSUME NEW u \in Uid, u # v, KeyOf[u] = KeyOf[v], l \in {"live", "deleting"}
        PROVE  ~Present(u)
    BY <2>3, <2>4 DEF OnePresent, Present
  <2>5. QED
    BY <1>2, <2>3, <2>4
<1>5. CASE \/ \E u \in Uid : UserEdit(u)
           \/ \E k \in Key : KubeletSync(k)
  <2>0. PICK v \in Uid : \E p : api' = [api EXCEPT ![v].pod = p]
    BY <1>5, EditEffect, SyncEffect
  <2>1. PICK p : api' = [api EXCEPT ![v].pod = p]
    BY <2>0
  <2>2. \A u \in Uid : api'[u].life = api[u].life
    BY <1>1, <2>1 DEF ApiObject
  <2>3. QED
    BY <2>2, PresentStays DEF Present
<1>6. CASE \E u \in Uid : KubeletCreate(u) \/ KubeletUpdate(u) \/ KubeletDelete(u)
  BY <1>6, PresentStays DEF KubeletCreate, KubeletUpdate, KubeletDelete, Present
<1>7. QED
  BY <1>3, <1>4, <1>5, <1>6 DEF UserStep, KubeletStep


-----------------------------------------------------------------------------
(* The steps of the system. *)

LEMMA KeptTells ==
  ASSUME \A u \in Uid : Kept(u)
  PROVE  CallsAlone' /\ HandIsStored' /\ EditsForward
BY DEF Kept, CallsAlone, HandIsStored, EditsForward, StaysStarted

LEMMA ProviderRests ==
  ASSUME SafeInv, SafeInv', OwnInv, SubmitInv, UNCHANGED providerVars, ControlUnchanged
  PROVE  /\ \A u \in Uid : Kept(u)
         /\ ProviderSound' /\ ObjectsSound' /\ StartsInitialized' /\ OnePresent'
<1>1. /\ UNCHANGED <<pods, poll, call, mail, api, crashes>>
      /\ ProviderSound /\ ObjectsSound /\ StartsInitialized /\ OnePresent
  BY CopiesSplit DEF providerVars, ControlUnchanged, SubmitInv
<1>2. ASSUME NEW u \in Uid PROVE Kept(u)
  <2>1. api'[u].pod.gen >= api[u].pod.gen /\ api'[u].life = api[u].life
    BY <1>1, Ground
  <2>2. QED
    BY <1>1, <2>1, LifeKept
<1>3. ProviderSound' /\ ObjectsSound'
  BY <1>1, ApiStays, NothingSound
<1>4. StartsInitialized'
  BY <1>1, HandStarts DEF Held
<1>5. OnePresent'
  BY <1>1, PresentStays DEF Present
<1>6. QED
  BY <1>2, <1>3, <1>4, <1>5

(* Who submits: CreatePod and startMainContainers.                          *)
LEMMA DeleteCounts ==
  ASSUME SafeInv, OwnInv, NEW k \in Key, DeleteContainer(k)
  PROVE  SameCounts
<1>1. /\ call[k].op = "delete" /\ call[k].idx <= Len(DeleteList(call[k].pod.uid))
      /\ call[k].pod.uid \in Uid /\ call[k].idx \in Nat \ {0} /\ RemoteTypeOK
  BY CallUnderKey, SafeInvSplits DEF DeleteContainer, SafeInv, TypeOK
<1> DEFINE c == DeleteList(call[k].pod.uid)[call[k].idx]
<1>2. PICK ok \in BOOLEAN : RemoteExecution("stop", c, ok)
  BY DEF DeleteContainer
<1>3. c \in Container
  <2>1. DeleteList(call[k].pod.uid) \in Seq(Container)
    BY <1>1, ProviderAssumption DEF DeleteList
  <2>2. call[k].idx \in DOMAIN DeleteList(call[k].pod.uid)
    BY <1>1, <2>1
  <2>3. QED
    BY <2>1, <2>2
<1> HIDE DEF c
<1>4. QED
  BY <1>1, <1>2, <1>3, LaunchCounts DEF SameCounts

LEMMA QuietDoors ==
  ASSUME UNCHANGED door
  PROVE  SameCounts
BY DEF SameCounts, Count, Submissions

LEMMA StepSubmits ==
  ASSUME SafeInv, OwnInv, SubmitInv, SafeInv', OwnInv', [Next]_vars
  PROVE  SubmitInv'
<1> SUFFICES /\ OnePresent' /\ ProviderSound' /\ ObjectsSound' /\ StartsInitialized'
             /\ CallsAlone' /\ HandIsStored' /\ CreatesCounted' /\ StartsCounted'
  BY DEF SubmitInv, CopiesSound, ProviderSound, ObjectsSound
<1>1. /\ ProviderSound /\ ObjectsSound /\ StartsInitialized /\ OnePresent
      /\ CreatesCounted /\ StartsCounted
  BY CopiesSplit DEF SubmitInv
<1>2. ASSUME \A u \in Uid : Kept(u)
      PROVE  /\ \A u \in Uid : StaysCreated(u) /\ StaysStarted(u)
             /\ CallsAlone' /\ HandIsStored' /\ EditsForward
             /\ SameCounts => CreatesCounted' /\ StartsCounted'
  <2>1. \A u \in Uid : StaysCreated(u) /\ StaysStarted(u)
    BY <1>2 DEF Kept
  <2>2. QED
    BY <1>1, <1>2, <2>1, KeptTells, QuietCounts
<1>3. CASE UserStep \/ \E k \in Key : KubeletSync(k)
  <2>1. \A u \in Uid : Kept(u)
    BY <1>3, ApiStepKept
  <2>2. SameCounts
    BY <1>3, QuietDoors DEF UserStep, UserCreate, UserEdit, UserDelete, UserForceDelete,
       KubeletSync, remoteVars
  <2>3. StartsInitialized'
    <3>1. UNCHANGED <<pods, poll>>
      BY <1>3 DEF UserStep, UserCreate, UserEdit, UserDelete, UserForceDelete,
         KubeletSync, providerVars
    <3>2. QED
      BY <1>1, <3>1, HandStarts DEF Held
  <2>4. QED
    BY <1>1, <1>2, <1>3, <2>1, <2>2, <2>3, ApiStepSound, ApiPresent
<1>4. ASSUME NEW v \in Uid, KubeletStep(v)
      PROVE  /\ OnePresent' /\ ProviderSound' /\ ObjectsSound' /\ StartsInitialized'
             /\ CallsAlone' /\ HandIsStored' /\ CreatesCounted' /\ StartsCounted'
  <2>1. \A u \in Uid : Kept(u)
    BY <1>4, ApiStepKept, KubeletCreateKept, KubeletUpdateKept, KubeletDeleteKept
       DEF KubeletStep
  <2>2. SameCounts
    BY <1>4, QuietDoors DEF KubeletStep, KubeletCreate, KubeletUpdate, KubeletDelete,
       KubeletDeleteRemoved, KubeletForget, KubeletRemove, CreatePod, UpdatePod, DeletePod,
       remoteVars
  <2>3. QED
    BY <1>1, <1>2, <1>4, <2>1, <2>2, KubeletSound, KubeletStarts, ApiPresent
<1>5. ASSUME NEW k \in Key, HandlerStep(k), ControlUnchanged
      PROVE  /\ OnePresent' /\ ProviderSound' /\ ObjectsSound' /\ StartsInitialized'
             /\ CallsAlone' /\ HandIsStored' /\ CreatesCounted' /\ StartsCounted'
  <2>1. \A u \in Uid : Kept(u)
    BY <1>5, ContainerKept, CreateStoreKept, DeleteForgetKept DEF HandlerStep
  <2>2. CreatesCounted' /\ StartsCounted'
    <3>1. CASE CreateContainer(k)
      BY <1>1, <1>2, <2>1, <3>1, CreateContainerCounts
    <3>2. CASE DeleteContainer(k)
      BY <1>2, <2>1, <3>2, DeleteCounts
    <3>3. CASE CreateStore(k) \/ DeleteForget(k)
      BY <1>2, <2>1, <3>3, QuietDoors DEF CreateStore, DeleteForget, remoteVars
    <3>4. QED
      BY <1>5, <3>1, <3>2, <3>3 DEF HandlerStep
  <2>3. OnePresent'
    BY <1>1, <1>5, PresentStays DEF ControlUnchanged, Present
  <2>4. QED
    BY <1>1, <1>2, <1>5, <2>1, <2>2, <2>3, ApiStays, HandlerSound, HandlerStarts
<1>6. CASE PollStep /\ ControlUnchanged
  <2>1. \A u \in Uid : Kept(u)
    BY <1>6, PollKept
  <2>2. EditsForward /\ ObjectsSound' /\ ProviderSound'
    BY <1>1, <1>6, ApiStays, PollSound
  <2>3. CreatesCounted' /\ StartsCounted'
    <3>1. CASE startMainContainers
      <4>1. CopiesSound'
        BY <2>2 DEF CopiesSound, ProviderSound, ObjectsSound
      <4>2. QED
        BY <1>2, <2>1, <3>1, <4>1, StartContainerCounts
    <3>2. CASE ~startMainContainers
      <4>1. UNCHANGED door
        BY <1>6, <3>2 DEF PollStep, PollBegin, PollEnd, PollSkip, PollFirstPass, PollPick,
           PollInitContainer, PollInitDone, PollStarted, PollMainContainer, PollMainDone,
           remoteVars
      <4>2. QED
        BY <1>2, <2>1, <4>1, QuietDoors
    <3>3. QED
      BY <3>1, <3>2
  <2>4. OnePresent'
    BY <1>1, <1>6, PresentStays DEF ControlUnchanged, Present
  <2>5. QED
    BY <1>1, <1>2, <1>6, <2>1, <2>2, <2>3, <2>4, PollStarts
<1>7. CASE RemoteStep /\ UNCHANGED providerVars /\ ControlUnchanged
  <2>1. SameCounts
    BY <1>7, RemoteEffect, SameCount DEF SafeInv, SameCounts
  <2>2. QED
    BY <1>2, <1>7, <2>1, ProviderRests
<1>8. CASE (PollNothing /\ ControlUnchanged) \/ UNCHANGED vars
  <2>1. UNCHANGED <<remoteVars, providerVars>> /\ ControlUnchanged
    BY <1>8 DEF PollNothing, vars, ControlUnchanged
  <2>2. SameCounts
    BY <2>1, QuietDoors DEF remoteVars
  <2>3. QED
    BY <1>2, <2>1, <2>2, ProviderRests
<1>9. CASE Crash
  <2>1. UNCHANGED <<api, edits>> /\ EditsForward
    BY <1>9, Ground DEF Crash, EditsForward
  <2>2. \A x \in Key : pods'[x] = None /\ mail'[x] = None /\ call'[x].pod = None
    BY <1>9 DEF Crash, NoCall
  <2>3. poll'.orphan = None /\ poll'.pc = "idle"
    BY <1>9 DEF Crash, IdlePoll
  <2>4. ProviderSound'
    BY <2>1, <2>2, <2>3, NobodySound, SoundForward
  <2>5. ObjectsSound'
    BY <1>1, <2>1 DEF ObjectsSound, Sound
  <2>6. OnePresent' /\ StartsInitialized'
    BY <1>1, <2>1, <2>3, PresentStays DEF Present, StartsInitialized
  <2>7. QED
    BY <1>9, <2>4, <2>5, <2>6, CrashCounts
<1>10. QED
  BY <1>3, <1>4, <1>5, <1>6, <1>7, <1>8, <1>9 DEF Next

LEMMA InitSubmits == Init => SubmitInv
<1> SUFFICES ASSUME Init PROVE SubmitInv
  OBVIOUS
<1>1. /\ \A x \in Key : pods[x] = None /\ mail[x] = None /\ call[x] = NoCall
      /\ poll = IdlePoll /\ poll.orphan = None /\ poll.pc = "idle" /\ crashes = 0
      /\ \A u \in Uid : api[u] = [life |-> "none", pod |-> FreshPod(u)]
      /\ edits = 0 /\ door = <<>>
  BY DEF Init, ProviderInit, RemoteInit, IdlePoll
<1>2. \A c : Count(c) = 0
  <2>1. \A c : Submissions(c) = {}
    BY <1>1 DEF Submissions
  <2>2. QED
    BY <2>1, FS_EmptySet DEF Count
<1>3. \A u \in Uid : ~IsStored(u) /\ ~InPollsHand(u) /\ ~Creating(u)
  BY <1>1, ProviderAssumption DEF IsStored, InPollsHand, Creating, Working, NoCall
<1>4. \A u \in Uid : api[u].pod.gen = 0 /\ api[u].pod.phase = "Pending"
                     /\ api[u].pod.uid = u /\ api[u].life = "none"
  <2>1. ASSUME NEW u \in Uid PROVE api[u].life = "none" /\ api[u].pod = FreshPod(u)
    <3>1. api[u] = [life |-> "none", pod |-> FreshPod(u)]
      BY <1>1
    <3>2. QED
      BY <3>1
  <2>2. \A u \in Uid : FreshPod(u).gen = 0 /\ FreshPod(u).phase = "Pending"
                       /\ FreshPod(u).uid = u
    BY DEF FreshPod
  <2>3. QED
    BY <2>1, <2>2
<1>5. OnePresent /\ StartsInitialized
  BY <1>1, <1>4 DEF OnePresent, Present, StartsInitialized
<1>6. CopiesSound
  <2>1. \A u \in Uid : Sound(api[u].pod) /\ api[u].pod.gen <= edits
    BY <1>1, <1>4 DEF Sound
  <2>2. QED
    BY <1>1, <2>1, NobodySound DEF CopiesSound, NoCall
<1>7. CallsAlone /\ HandIsStored
  BY <1>3 DEF CallsAlone, Alone, HandIsStored, HandStored
<1>8. CreatesCounted
  BY <1>1, <1>2, <1>3 DEF CreatesCounted, CreateBounds
<1>9. StartsCounted
  BY <1>1, <1>2, <1>3, <1>4 DEF StartsCounted, StartBounds
<1>10. QED
  BY <1>5, <1>6, <1>7, <1>8, <1>9 DEF SubmitInv

(* A pod is created once in each life of the provider and its main          *)
(* containers started once for each creation and edit, because a handler    *)
(* never works on a pod that the poll holds or the map stores, and the only *)
(* copies the controller brings back are of the API's edit of the pod       *)
(* (knoc.go 132-330, remote.go 267-449).                                    *)
THEOREM SubmitInvariant == Spec => []SubmitInv
<1>1. Init => SubmitInv
  BY InitSubmits
<1>2. SafeInv /\ OwnInv /\ SubmitInv /\ SafeInv' /\ OwnInv' /\ [Next]_vars => SubmitInv'
  BY StepSubmits
<1>3. QED
  BY <1>1, <1>2, SafeInvariant, OwnInvariant, PTL DEF Spec

LEMMA SubmitInvBounds == SafeInv /\ OwnInv /\ SubmitInv => SubmitsBounded
<1> SUFFICES ASSUME SafeInv, OwnInv, SubmitInv, NEW c \in Container
             PROVE  Count(c) <= 1 + crashes + edits
  BY DEF SubmitsBounded, Count
<1>1. Count(c) \in Nat /\ crashes \in Nat /\ edits \in Nat
  BY CountFacts, BoundsAssumption DEF SafeInv, TypeOK
<1>2. CASE Submissions(c) = {}
  <2>1. Count(c) = 0
    BY <1>2, FS_EmptySet DEF Count
  <2>2. QED
    BY <1>1, <2>1
<1>3. CASE Submissions(c) # {}
  <2>1. PICK u \in Uid : c \in ContainersOf(u)
    BY <1>3 DEF OwnInv, DoorsOfPods, Submissions
  <2>2. api[u].pod.gen \in Nat /\ api[u].pod.gen <= edits
    BY Ground DEF SubmitInv, CopiesSound
  <2>3. CASE \E i \in DOMAIN CreateList(u) : c = CreateList(u)[i]
    <3>1. Count(c) <= crashes + 1
      BY <2>3 DEF SubmitInv, CreatesCounted, CreateBounds
    <3>2. QED
      BY <1>1, <3>1
  <2>4. CASE InitOf[u] # <<>> /\ \E i \in DOMAIN MainOf[u] : c = MainOf[u][i]
    <3>1. Count(c) <= crashes + api[u].pod.gen + 1
      BY <2>4 DEF SubmitInv, StartsCounted, StartBounds
    <3>2. QED
      BY <1>1, <2>2, <3>1
  <2>5. QED
    BY <2>1, <2>3, <2>4 DEF ContainersOf, Elems, CreateList
<1>4. QED
  BY <1>2, <1>3

(* No container is submitted more often than the restarts of the provider   *)
(* and the edits of users account for: no race between the handlers, the    *)
(* poll and the controller submits one twice (knoc.go 132-249, remote.go    *)
(* 284-366).                                                                *)
THEOREM SubmitsBoundedHolds == Spec => []SubmitsBounded
BY SafeInvariant, OwnInvariant, SubmitInvariant, SubmitInvBounds, PTL

=============================================================================
