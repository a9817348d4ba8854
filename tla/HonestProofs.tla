---------------------------- MODULE HonestProofs ----------------------------
(***************************************************************************)
(* What is stored, notified and shown of a pod is what its jobs did, for   *)
(* pods whose containers have images of their own: HonestInv is inductive  *)
(* with SafeInv and OwnInv.                                                *)
(***************************************************************************)
EXTENDS KnocProofs

(* What was told stays true, for the ends of jobs are never taken back. *)

LEMMA HonestGrows ==
  ASSUME NEW p, NEW old, NEW new, old \subseteq new, Honest(p, old)
  PROVE  Honest(p, new)
<1>1. InitTold(p, new) /\ MainTold(p, new)
  BY DEF Honest, InitTold, MainTold, IsExit
<1>2. PhaseTold(p, new)
  BY DEF Honest, PhaseTold, AllEnded, Ended, AllSucceeded, HasCause, SomeFailed
<1>3. QED
  BY <1>1, <1>2 DEF Honest

LEMMA CountsGrow ==
  ASSUME NEW p, NEW idx, NEW left, NEW good, NEW old, NEW new, old \subseteq new
  PROVE  /\ CountsInit(p.uid, idx, left, good, old) =>
              CountsInit(p.uid, idx, left, good, new)
         /\ CountsMain(p, idx, left, good, old) => CountsMain(p, idx, left, good, new)
<1>1. \A u : SomeFailed(u, old) => SomeFailed(u, new)
  BY DEF SomeFailed
<1>2. HasCause(p, old) => HasCause(p, new)
  BY <1>1 DEF HasCause
<1>3. \A c : Ended(c, old) => Ended(c, new)
  BY DEF Ended
<1>4. QED
  BY <1>1, <1>2, <1>3 DEF CountsInit, CountsMain

LEMMA ExitsMeaning == \A c, code : <<InstOf[c], code>> \in Exits <=> HasExited(c, code)
BY DEF Exits, HasExited

LEMMA ExitsGrow ==
  ASSUME RemoteTypeOK, JobEffect
  PROVE  Exits \subseteq Exits'
<1> SUFFICES ASSUME NEW i \in DOMAIN job, job[i].st = "done"
             PROVE  i \in DOMAIN job' /\ job'[i] = job[i]
  BY DEF Exits
<1>1. CASE UNCHANGED job
  BY <1>1
<1>2. CASE JobBegins
  <2>1. PICK k \in Instance :
          /\ script[k] # None
          /\ job' = Append(job, [ctr |-> script[k], st |-> "active", code |-> None])
    BY <1>2 DEF JobBegins
  <2> DEFINE r == [ctr |-> script[k], st |-> "active", code |-> None]
  <2>2. r \in SlurmJob
    BY <2>1 DEF RemoteTypeOK, SlurmJob
  <2>3. job' = Append(job, r)
    BY <2>1
  <2> HIDE DEF r
  <2>4. QED
    BY <2>2, <2>3, SeqAppend DEF RemoteTypeOK
<1>3. CASE JobFinishes
  <2>1. PICK j \in DOMAIN job, code \in Code :
          /\ job[j].st = "active"
          /\ job' = [job EXCEPT ![j] = [@ EXCEPT !.st = "done", !.code = code]]
    BY <1>3 DEF JobFinishes
  <2>2. QED
    BY <2>1 DEF RemoteTypeOK
<1>4. CASE JobIsKilled
  <2>1. PICK j \in DOMAIN job :
          job[j].st = "active" /\ job' = [job EXCEPT ![j].st = "lost"]
    BY <1>4 DEF JobIsKilled
  <2>2. QED
    BY <2>1 DEF RemoteTypeOK
<1>5. CASE JobIsCancelled
  <2>1. PICK j \in DOMAIN job :
          job[j].st = "active" /\ job' = [job EXCEPT ![j].st = "cancelled"]
    BY <1>5 DEF JobIsCancelled
  <2>2. QED
    BY <2>1 DEF RemoteTypeOK
<1>6. QED
  BY <1>1, <1>2, <1>3, <1>4, <1>5 DEF JobEffect

-----------------------------------------------------------------------------
(* The copies of a pod that the handlers and the API server make. *)

LEMMA SameHonest ==
  ASSUME NEW p, NEW q, NEW exits, Honest(q, exits),
         p.uid = q.uid, p.reason = q.reason, p.phase = q.phase,
         p.initialized = q.initialized, p.ist = q.ist, p.cst = q.cst
  PROVE  Honest(p, exits)
<1>1. InitTold(p, exits) /\ MainTold(p, exits)
  BY DEF Honest, InitTold, MainTold
<1>2. PhaseTold(p, exits)
  BY DEF Honest, PhaseTold, HasCause, HasUnreachable
<1>3. QED
  BY <1>1, <1>2 DEF Honest

LEMMA FreshHonest ==
  ASSUME NEW u \in Uid, NEW exits
  PROVE  Honest(FreshPod(u), exits)
BY ReasonFacts DEF FreshPod, Honest, InitTold, MainTold, PhaseTold

LEMMA ResetHonest ==
  ASSUME NEW p \in Pod, NEW exits
  PROVE  Honest(ResetPod(p), exits) /\ ResetPod(p).phase = "Running"
<1> DEFINE q == ResetPod(p)
<1>1. /\ q.uid = p.uid /\ q.phase = "Running" /\ q.reason = None
      /\ q.initialized = (InitOf[p.uid] = <<>>) /\ q.ist = <<>> /\ q.cst = <<>>
  BY DEF ResetPod, Pod
<1> HIDE DEF q
<1>2. InitOf[p.uid] = <<>> => AllEnded(p.uid, exits)
  BY DEF AllEnded
<1>3. InitTold(q, exits) /\ MainTold(q, exits)
  BY <1>1 DEF InitTold, MainTold
<1>4. q.initialized => AllEnded(q.uid, exits)
  BY <1>1, <1>2
<1>5. PhaseTold(q, exits)
  BY <1>1, <1>4, ReasonFacts DEF PhaseTold
<1>6. QED
  BY <1>1, <1>3, <1>5 DEF q, Honest

LEMMA LaunchedHonest ==
  ASSUME NEW p \in Pod, NEW ok \in BOOLEAN, NEW exits, Honest(p, exits),
         p.phase \in {"Running", "Failed"}
  PROVE  LET q == Launched(p, ok) IN
         /\ Honest(q, exits) /\ q.phase \in {"Running", "Failed"}
         /\ InitOf[p.uid] # <<>> => q = p
<1>1. CASE InitOf[p.uid] # <<>>
  BY <1>1 DEF Launched
<1>2. CASE InitOf[p.uid] = <<>>
  <2> DEFINE q == Launched(p, ok)
             e == IF ok THEN Running ELSE Unreachable
             t == Append(p.cst, e)
  <2>1. p.cst \in Seq(ContainerStatus) /\ e \in ContainerStatus
    BY PodFacts, StatusTypes
  <2>2. /\ q.uid = p.uid /\ q.reason = p.reason /\ q.initialized = p.initialized
        /\ q.ist = p.ist /\ q.cst = t
        /\ q.phase = (IF ok THEN p.phase ELSE "Failed")
    BY <1>2 DEF Launched, Pod
  <2>3. e \in {Running, Unreachable} /\ (~ok => e.why = "unreachable")
    BY DEF Unreachable
  <2> HIDE DEF q, e
  <2>4. /\ DOMAIN t = DOMAIN p.cst \cup {Len(p.cst) + 1}
        /\ \A i \in DOMAIN p.cst : t[i] = p.cst[i]
        /\ t[Len(p.cst) + 1] = e
    BY <2>1, SeqAppend
  <2> HIDE DEF t
  <2>5. InitTold(q, exits)
    BY <2>2 DEF Honest, InitTold
  <2>6. MainTold(q, exits)
    BY <2>2, <2>3, <2>4 DEF Honest, MainTold
  <2>7. PhaseTold(q, exits)
    <3>1. p.reason # "deleted"
      BY DEF Honest, PhaseTold
    <3>2. HasUnreachable(p) \/ ~ok => HasUnreachable(q)
      BY <2>2, <2>3, <2>4 DEF HasUnreachable
    <3>3. QED
      BY <2>2, <3>1, <3>2 DEF Honest, PhaseTold, HasCause
  <2>8. QED
    BY <1>2, <2>2, <2>5, <2>6, <2>7 DEF Honest, q
<1>3. QED
  BY <1>1, <1>2

LEMMA WaitingHonest ==
  ASSUME NEW p \in Pod, NEW n \in Nat, NEW exits, Honest(p, exits), p.phase = "Running"
  PROVE  Honest([p EXCEPT !.cst = All(Waiting, n)], exits)
<1> DEFINE t == All(Waiting, n)
           q == [p EXCEPT !.cst = t]
<1>1. \A i \in DOMAIN t : t[i] = Waiting
  BY DEF All
<1> HIDE DEF t
<1>2. /\ q.uid = p.uid /\ q.reason = p.reason /\ q.initialized = p.initialized
      /\ q.ist = p.ist /\ q.cst = t /\ q.phase = "Running"
  BY DEF Pod
<1> HIDE DEF q
<1>3. Honest(q, exits)
  BY <1>1, <1>2 DEF Honest, InitTold, MainTold, PhaseTold
<1>4. QED
  BY <1>3 DEF q, t

LEMMA DeletingHonest ==
  ASSUME NEW p \in Pod, NEW exits, Honest(p, exits)
  PROVE  LET q == [p EXCEPT !.phase = "Succeeded", !.reason = "deleted"] IN
         Honest(q, exits) /\ q.reason = "deleted"
<1> DEFINE q == [p EXCEPT !.phase = "Succeeded", !.reason = "deleted"]
<1>1. /\ q.uid = p.uid /\ q.reason = "deleted" /\ q.initialized = p.initialized
      /\ q.ist = p.ist /\ q.cst = p.cst /\ q.phase = "Succeeded"
  BY DEF Pod
<1> HIDE DEF q
<1>2. Honest(q, exits)
  BY <1>1, ReasonFacts DEF Honest, InitTold, MainTold, PhaseTold
<1>3. QED
  BY <1>1, <1>2 DEF q

LEMMA DeletedHonest ==
  ASSUME NEW p \in Pod, NEW exits, Honest(p, exits), p.reason = "deleted"
  PROVE  Honest(DeletedPod(p), exits)
<1> DEFINE s == All(Deleted, Len(p.ist))
           t == All(Deleted, Len(p.cst))
           q == [p EXCEPT !.ist = s, !.cst = t]
<1>1. (\A i \in DOMAIN s : s[i] = Deleted) /\ (\A i \in DOMAIN t : t[i] = Deleted)
  BY DEF All
<1> HIDE DEF s, t
<1>2. /\ q.uid = p.uid /\ q.reason = p.reason /\ q.initialized = p.initialized
      /\ q.ist = s /\ q.cst = t /\ q.phase = p.phase
  BY DEF Pod
<1> HIDE DEF q
<1>3. Honest(q, exits)
  BY <1>1, <1>2, ReasonFacts DEF Honest, InitTold, MainTold, PhaseTold
<1>4. QED
  BY <1>3 DEF q, s, t, DeletedPod

-----------------------------------------------------------------------------
(* The poll's counts. *)

LEMMA ReadIsExit ==
  ASSUME RemoteInv, NEW e \in Container, NEW c \in Code,
         c = statusFile[InstOf[e]]
  PROVE  <<InstOf[e], c>> \in Exits
<1>1. InstOf[e] \in Instance /\ c # None
  BY RemoteAssumption
<1>2. PICK j \in DOMAIN job : /\ job[j].st = "done" /\ job[j].code = c
                              /\ InstOf[job[j].ctr] = InstOf[e]
  BY <1>1 DEF RemoteInv, StatusHasAuthor
<1>3. QED
  BY <1>2 DEF Exits

LEMMA InitExitHonest ==
  ASSUME NEW p, NEW q, NEW i, NEW c \in Code, NEW exits, Honest(q, exits),
         p.uid = q.uid, p.reason = q.reason, p.phase = q.phase,
         p.initialized = q.initialized, p.cst = q.cst, DOMAIN p.ist = DOMAIN q.ist,
         \A j \in DOMAIN q.ist : p.ist[j] = IF j = i THEN Exited(c) ELSE q.ist[j],
         <<InstOf[InitOf[q.uid][i]], c>> \in exits
  PROVE  Honest(p, exits)
<1>1. InitTold(p, exits) /\ MainTold(p, exits)
  <2>1. InitTold(p, exits)
    BY DEF Honest, InitTold, IsExit
  <2>2. MainTold(p, exits)
    BY DEF Honest, MainTold
  <2>3. QED
    BY <2>1, <2>2
<1>2. PhaseTold(p, exits)
  BY DEF Honest, PhaseTold, HasCause, HasUnreachable
<1>3. QED
  BY <1>1, <1>2 DEF Honest

LEMMA MainExitHonest ==
  ASSUME NEW p, NEW q, NEW i, NEW c \in Code, NEW exits, Honest(q, exits),
         p.uid = q.uid, p.reason = q.reason, p.phase = q.phase,
         p.initialized = q.initialized, p.ist = q.ist, DOMAIN p.cst = DOMAIN q.cst,
         \A j \in DOMAIN q.cst : p.cst[j] = IF j = i THEN Exited(c) ELSE q.cst[j],
         <<InstOf[MainOf[q.uid][i]], c>> \in exits, q.cst[i].st = "running"
  PROVE  Honest(p, exits) /\ (HasCause(q, exits) => HasCause(p, exits))
<1>1. InitTold(p, exits) /\ MainTold(p, exits)
  <2>1. InitTold(p, exits)
    BY DEF Honest, InitTold
  <2>2. MainTold(p, exits)
    BY DEF Honest, MainTold, IsExit
  <2>3. QED
    BY <2>1, <2>2
<1>2. i \in DOMAIN q.cst => q.cst[i].why # "unreachable"
  <2> SUFFICES ASSUME i \in DOMAIN q.cst PROVE q.cst[i] = Running
    BY NoneAssumption DEF Running
  <2>1. /\ Waiting.st = "waiting" /\ Unreachable.st = "terminated"
        /\ Deleted.st = "terminated" /\ \A code : Exited(code).st = "terminated"
    BY DEF Waiting, Unreachable, Deleted, Exited
  <2>2. QED
    BY <2>1 DEF Honest, MainTold, IsExit
<1>3. HasUnreachable(q) => HasUnreachable(p)
  BY <1>2 DEF HasUnreachable
<1>4. PhaseTold(p, exits)
  BY <1>3 DEF Honest, PhaseTold, HasCause
<1>5. QED
  BY <1>1, <1>3, <1>4 DEF Honest, HasCause

LEMMA CountSkipped ==
  ASSUME NEW p \in Pod, NEW idx \in Nat \ {0}, NEW left \in Int, NEW good \in Nat, NEW exits
  PROVE  /\ CountsInit(p.uid, idx, left, good, exits) /\ idx <= Len(InitOf[p.uid]) =>
              CountsInit(p.uid, idx + 1, left, good, exits)
         /\ CountsMain(p, idx, left, good, exits) /\ idx <= Len(MainOf[p.uid]) =>
              CountsMain(p, idx + 1, left, good, exits)
<1> DEFINE m == Len(InitOf[p.uid])
           n == Len(MainOf[p.uid])
<1>1. m \in Nat /\ n \in Nat
  BY PodFacts
<1> HIDE DEF m, n
<1>2. ASSUME CountsInit(p.uid, idx, left, good, exits), idx <= m
      PROVE  CountsInit(p.uid, idx + 1, left, good, exits)
  <2>1. left >= m + 1 - idx
    BY <1>2 DEF CountsInit, m
  <2>2. left >= m + 1 - (idx + 1) /\ left # m + 1 - (idx + 1) /\ idx + 1 <= m + 1
    BY <1>1, <1>2, <2>1
  <2>3. QED
    BY <2>2 DEF CountsInit, m
<1>3. ASSUME CountsMain(p, idx, left, good, exits), idx <= n
      PROVE  CountsMain(p, idx + 1, left, good, exits)
  <2>1. left >= n + 1 - idx /\ good <= idx - 1
    BY <1>3 DEF CountsMain, n
  <2>2. /\ left >= n + 1 - (idx + 1) /\ left # n + 1 - (idx + 1) /\ idx + 1 <= n + 1
        /\ good <= (idx + 1) - 1 /\ good # (idx + 1) - 1
    BY <1>1, <1>3, <2>1
  <2>3. QED
    BY <2>2 DEF CountsMain, n
<1>4. QED
  BY <1>2, <1>3 DEF m, n

LEMMA InitCounted ==
  ASSUME NEW u \in Uid, NEW idx \in Nat \ {0}, NEW left \in Int, NEW good \in Nat,
         NEW exits, NEW success \in BOOLEAN,
         CountsInit(u, idx, left, good, exits), idx <= Len(InitOf[u]),
         Ended(InitOf[u][idx], exits), ~success => SomeFailed(u, exits)
  PROVE  CountsInit(u, idx + 1, left - 1, IF success THEN good + 1 ELSE good, exits)
<1> DEFINE n == Len(InitOf[u])
           g == IF success THEN good + 1 ELSE good
<1>1. n \in Nat /\ idx <= n
  BY ProviderAssumption, LenProperties
<1>2. g = good + 1 \/ (g = good /\ ~success)
  OBVIOUS
<1>3. /\ left >= n + 1 - idx
      /\ left = n + 1 - idx =>
           /\ \A i \in 1..n : i < idx => Ended(InitOf[u][i], exits)
           /\ good # idx - 1 => SomeFailed(u, exits)
  BY DEF CountsInit
<1> HIDE DEF g, n
<1>4. idx + 1 <= n + 1 /\ left - 1 >= n + 1 - (idx + 1)
  BY <1>1, <1>3
<1>5. ASSUME left - 1 = n + 1 - (idx + 1)
      PROVE  /\ \A i \in 1..n : i < idx + 1 => Ended(InitOf[u][i], exits)
             /\ g # (idx + 1) - 1 => SomeFailed(u, exits)
  <2>1. left = n + 1 - idx
    BY <1>1, <1>5
  <2>2. \A i \in 1..n : i < idx + 1 => i < idx \/ i = idx
    BY <1>1
  <2>3. g # (idx + 1) - 1 => good # idx - 1 \/ ~success
    BY <1>2
  <2>4. QED
    BY <1>3, <2>1, <2>2, <2>3
<1>6. CountsInit(u, idx + 1, left - 1, g, exits)
  BY <1>4, <1>5 DEF CountsInit, n
<1>7. QED
  BY <1>6 DEF g

LEMMA MainCounted ==
  ASSUME NEW p \in Pod, NEW q \in Pod, NEW idx \in Nat \ {0}, NEW left \in Int,
         NEW good \in Nat, NEW exits, NEW success \in BOOLEAN,
         CountsMain(p, idx, left, good, exits), idx <= Len(MainOf[p.uid]),
         q.uid = p.uid, HasCause(p, exits) => HasCause(q, exits),
         success => <<InstOf[MainOf[p.uid][idx]], 0>> \in exits,
         ~success => HasCause(q, exits)
  PROVE  CountsMain(q, idx + 1, left - 1, IF success THEN good + 1 ELSE good, exits)
<1> DEFINE n == Len(MainOf[p.uid])
           g == IF success THEN good + 1 ELSE good
<1>1. n \in Nat /\ idx <= n
  BY PodFacts
<1>2. \/ g = good + 1 /\ success
      \/ g = good /\ ~success
  OBVIOUS
<1>3. /\ left >= n + 1 - idx /\ good <= idx - 1
      /\ good = idx - 1 =>
           \A i \in 1..n : i < idx => <<InstOf[MainOf[p.uid][i]], 0>> \in exits
      /\ left = n + 1 - idx /\ good # idx - 1 => HasCause(p, exits)
  BY DEF CountsMain
<1> HIDE DEF g, n
<1>4. idx + 1 <= n + 1 /\ left - 1 >= n + 1 - (idx + 1) /\ g <= (idx + 1) - 1
  BY <1>1, <1>2, <1>3
<1>5. ASSUME g = (idx + 1) - 1
      PROVE  \A i \in 1..n : i < idx + 1 => <<InstOf[MainOf[p.uid][i]], 0>> \in exits
  <2>1. good = idx - 1 /\ success
    BY <1>2, <1>3, <1>5
  <2>2. \A i \in 1..n : i < idx + 1 => i < idx \/ i = idx
    BY <1>1
  <2>3. QED
    BY <1>3, <2>1, <2>2
<1>6. ASSUME left - 1 = n + 1 - (idx + 1), g # (idx + 1) - 1
      PROVE  HasCause(q, exits)
  <2>1. left = n + 1 - idx /\ (good # idx - 1 \/ ~success)
    BY <1>1, <1>2, <1>6
  <2>2. QED
    BY <1>3, <2>1
<1>7. CountsMain(q, idx + 1, left - 1, g, exits)
  BY <1>4, <1>5, <1>6 DEF CountsMain, n
<1>8. QED
  BY <1>7 DEF g

LEMMA CountedFields ==
  ASSUME poll \in PollLocals
  PROVE  /\ NotYet.left = poll.left /\ NotYet.good = poll.good
         /\ \A success, wrote \in BOOLEAN :
              /\ Counted(success, wrote).left = poll.left - 1
              /\ Counted(success, wrote).good = IF success THEN poll.good + 1 ELSE poll.good
<1>1. NotYet.left = poll.left /\ NotYet.good = poll.good
  BY DEF NotYet, PollLocals
<1>2. ASSUME NEW success \in BOOLEAN, NEW wrote \in BOOLEAN
      PROVE  /\ Counted(success, wrote).left = poll.left - 1
             /\ Counted(success, wrote).good = IF success THEN poll.good + 1 ELSE poll.good
  <2> DEFINE g == IF success THEN poll.good + 1 ELSE poll.good
             d == poll.dirty \/ wrote
             n == poll.idx + 1
             l == poll.left - 1
  <2>1. Counted(success, wrote) =
          [poll EXCEPT !.idx = n, !.left = l, !.good = g, !.dirty = d]
    BY Zenon DEF Counted
  <2> HIDE DEF g, d, n, l
  <2>2. Counted(success, wrote).left = l /\ Counted(success, wrote).good = g
    BY <2>1 DEF PollLocals
  <2>3. QED
    BY <2>2 DEF l, g
<1>3. QED
  BY <1>1, <1>2

-----------------------------------------------------------------------------
(* The copies after a step of the poll. *)

LEMMA HeldHonest ==
  ASSUME ProviderInv, CopiesHonest, Working
  PROVE  Honest(Held, Exits)
BY HandFacts DEF CopiesHonest, Held, ProviderInv, PollHolds

LEMMA WriteHonest ==
  ASSUME ProviderInv, CopiesHonest, Working,
         NEW p \in Pod, NEW q \in PollLocals, q.orphan = poll.orphan, q.key = poll.key,
         Honest(p, Exits), Write(p, q), UNCHANGED <<call, mail, api, job>>
  PROVE  CopiesHonest'
<1>1. /\ \A x \in Key : pods'[x] = pods[x] \/ (x = poll.key /\ pods'[x] = p)
      /\ poll'.orphan = None \/ poll'.orphan = p
  BY WriteEffect DEF ProviderInv
<1>2. Exits' = Exits
  BY DEF Exits
<1>3. QED
  BY <1>1, <1>2 DEF CopiesHonest

LEMMA LeaveHonest ==
  ASSUME ProviderInv, CopiesHonest, Working, NEW p \in Pod, NEW update \in BOOLEAN,
         update => Honest(p, Exits), Leave(p, update), UNCHANGED <<call, api, job>>
  PROVE  CopiesHonest' /\ PollHonest'
<1>1. /\ \A x \in Key : pods'[x] = pods[x] \/ (update /\ x = poll.key /\ pods'[x] = p)
      /\ \A x \in Key : mail'[x] = mail[x] \/ (update /\ x = poll.key /\ mail'[x] = p)
      /\ poll'.orphan = None /\ poll'.pc = "next" /\ poll'.good = 0
  BY LeaveEffect DEF ProviderInv
<1>2. Exits' = Exits
  BY DEF Exits
<1>3. CopiesHonest'
  BY <1>1, <1>2 DEF CopiesHonest
<1>4. PollHonest'
  BY <1>1 DEF PollHonest
<1>5. QED
  BY <1>3, <1>4

(* The poll goes on to the next container without writing. *)
LEMMA GoesOn ==
  ASSUME ProviderInv, CopiesHonest, NEW q, poll' = q, NextOne(q),
         UNCHANGED <<pods, call, mail, api, job>>
  PROVE  /\ CopiesHonest' /\ Exits' = Exits /\ Held' = Held
         /\ poll'.pc = poll.pc /\ poll'.idx = poll.idx + 1
<1>1. /\ poll'.pc = poll.pc /\ poll'.idx = poll.idx + 1
      /\ poll'.orphan = poll.orphan /\ poll'.key = poll.key
  BY DEF NextOne
<1>2. Exits' = Exits
  BY DEF Exits
<1>3. CopiesHonest'
  BY <1>1, <1>2 DEF CopiesHonest
<1>4. QED
  BY <1>1, <1>2, <1>3 DEF Held

(* The poll writes p into the pod in its hand and goes on. *)
LEMMA WritesOn ==
  ASSUME ProviderInv, CopiesHonest, Working, NEW p \in Pod, NEW q, NextOne(q),
         Honest(p, Exits), Write(p, q), UNCHANGED <<call, mail, api, job>>
  PROVE  /\ CopiesHonest' /\ Exits' = Exits /\ Held' = p
         /\ poll'.pc = poll.pc /\ poll'.idx = poll.idx + 1
         /\ poll'.left = q.left /\ poll'.good = q.good
<1>1. /\ ProviderTypeOK /\ PollHolds /\ poll.idx \in Nat \ {0}
      /\ poll.pc \in {"init", "start", "main"}
  BY HandFacts DEF ProviderInv, Working
<1>2. /\ q \in PollLocals /\ q.orphan = poll.orphan /\ q.key = poll.key
      /\ q.todo = poll.todo /\ q.pc = poll.pc /\ q.idx = poll.idx + 1 /\ q.idx > 0
  BY <1>1 DEF NextOne
<1>3. Held' = p /\ poll'.pc = poll.pc /\ poll'.idx = poll.idx + 1
  BY <1>1, <1>2, WriteFacts
<1>4. poll'.left = q.left /\ poll'.good = q.good
  BY <1>1, <1>2, WriteEffect
<1>5. CopiesHonest'
  BY <1>2, WriteHonest
<1>6. Exits' = Exits
  BY DEF Exits
<1>7. QED
  BY <1>3, <1>4, <1>5, <1>6

LEMMA InitContainerHonest ==
  ASSUME ProviderInv, RemoteInv, CopiesHonest, PollHonest,
         PollInitContainer, UNCHANGED api
  PROVE  CopiesHonest' /\ PollHonest'
<1> DEFINE u == Held.uid
           e == InitOf[u][poll.idx]
           s == Held.ist[poll.idx]
<1>1. /\ Working /\ poll.pc = "init" /\ poll.idx <= Len(InitOf[u])
      /\ UNCHANGED <<call, mail, api, job>>
  BY DEF PollInitContainer, Working, remoteVars
<1>2. /\ Held \in Pod /\ u \in Uid /\ poll \in PollLocals /\ poll.idx \in Nat \ {0}
      /\ poll.left \in Int /\ poll.good \in Nat
      /\ Held.phase = "Running" /\ Len(Held.ist) = Len(InitOf[u])
      /\ InitOf[u] \in Seq(Container) /\ Held.ist \in Seq(ContainerStatus)
  BY <1>1, HandFacts DEF InHand, PollLocals
<1>3. e \in Container /\ poll.idx \in DOMAIN Held.ist /\ e \in ContainersOf(u)
  BY <1>1, <1>2, OneOf DEF ContainersOf
<1>4. /\ Honest(Held, Exits)
      /\ CountsInit(u, poll.idx, poll.left, poll.good, Exits)
  BY <1>1, HeldHonest DEF PollHonest
<1>5. /\ NextOne(NotYet)
      /\ \A success, wrote \in BOOLEAN : NextOne(Counted(success, wrote))
  BY <1>2, NextOneFacts
<1>6. CASE poll' = NotYet /\ UNCHANGED pods
  <2>1. /\ CopiesHonest' /\ Exits' = Exits /\ Held' = Held
        /\ poll'.pc = "init" /\ poll'.idx = poll.idx + 1
    BY <1>1, <1>5, <1>6, GoesOn
  <2>2. poll'.left = poll.left /\ poll'.good = poll.good
    BY <1>2, <1>6, CountedFields
  <2>3. CountsInit(u, poll.idx + 1, poll.left, poll.good, Exits)
    BY <1>1, <1>2, <1>4, CountSkipped
  <2>4. PollHonest'
    BY <2>1, <2>2, <2>3 DEF PollHonest
  <2>5. QED
    BY <2>1, <2>4
<1>7. CASE /\ s.st # "running" /\ poll' = Counted(Reparse(s.code) = 0, FALSE)
           /\ UNCHANGED pods
  <2> DEFINE success == Reparse(s.code) = 0
  <2>1. success \in BOOLEAN /\ poll' = Counted(success, FALSE)
    BY <1>7
  <2>2. IsExit(s, e, Exits)
    <3>1. Held.reason # "deleted"
      BY <1>2, <1>4 DEF Honest, PhaseTold
    <3>2. s # Running
      BY <1>7 DEF Running
    <3>3. QED
      BY <1>3, <1>4, <3>1, <3>2 DEF Honest, InitTold
  <2>3. Ended(e, Exits) /\ (~success => SomeFailed(u, Exits))
    <3>1. PICK code \in Code : s = Exited(code) /\ <<InstOf[e], code>> \in Exits
      BY <2>2 DEF IsExit
    <3>2. ~success => code # 0
      BY <3>1 DEF Exited, Reparse
    <3>3. QED
      BY <1>3, <3>1, <3>2 DEF Ended, SomeFailed
  <2> HIDE DEF success
  <2>4. /\ CopiesHonest' /\ Exits' = Exits /\ Held' = Held
        /\ poll'.pc = "init" /\ poll'.idx = poll.idx + 1
    BY <1>1, <1>5, <1>7, <2>1, GoesOn
  <2>5. /\ poll'.left = poll.left - 1
        /\ poll'.good = IF success THEN poll.good + 1 ELSE poll.good
    BY <1>2, <2>1, CountedFields
  <2>6. CountsInit(u, poll.idx + 1, poll.left - 1,
                   IF success THEN poll.good + 1 ELSE poll.good, Exits)
    BY <1>1, <1>2, <1>4, <2>1, <2>3, InitCounted
  <2>7. PollHonest'
    BY <2>4, <2>5, <2>6 DEF PollHonest
  <2>8. QED
    BY <2>4, <2>7
<1>8. ASSUME NEW c \in Code, NEW p \in Pod, c = statusFile[InstOf[e]],
             Write(p, Counted(c = 0, TRUE)),
             p.uid = Held.uid, p.reason = Held.reason, p.phase = Held.phase,
             p.initialized = Held.initialized, p.cst = Held.cst,
             DOMAIN p.ist = DOMAIN Held.ist,
             \A j \in DOMAIN Held.ist :
                p.ist[j] = IF j = poll.idx THEN Exited(c) ELSE Held.ist[j]
      PROVE  CopiesHonest' /\ PollHonest'
  <2> DEFINE success == c = 0
             q == Counted(success, TRUE)
  <2>1. <<InstOf[e], c>> \in Exits
    BY <1>3, <1>8, ReadIsExit
  <2>2. Honest(p, Exits)
    <3>1. \A j \in DOMAIN Held.ist : p.ist[j] = IF j = poll.idx THEN Exited(c) ELSE Held.ist[j]
      BY <1>8
    <3>2. /\ p.uid = Held.uid /\ p.reason = Held.reason /\ p.phase = Held.phase
          /\ p.initialized = Held.initialized /\ p.cst = Held.cst
          /\ DOMAIN p.ist = DOMAIN Held.ist
      BY <1>8
    <3>3. <<InstOf[InitOf[Held.uid][poll.idx]], c>> \in Exits
      BY <2>1
    <3> DEFINE h == Held  exits == Exits  at == poll.idx
    <3>4. /\ Honest(h, exits) /\ p.uid = h.uid /\ p.reason = h.reason /\ p.phase = h.phase
          /\ p.initialized = h.initialized /\ p.cst = h.cst /\ DOMAIN p.ist = DOMAIN h.ist
          /\ \A j \in DOMAIN h.ist : p.ist[j] = IF j = at THEN Exited(c) ELSE h.ist[j]
          /\ <<InstOf[InitOf[h.uid][at]], c>> \in exits
      BY <1>4, <3>1, <3>2, <3>3
    <3> HIDE DEF h, exits, at
    <3>5. Honest(p, exits)
      BY <3>4, InitExitHonest
    <3>6. QED
      BY <3>5 DEF exits
  <2>3. Ended(e, Exits) /\ (~success => SomeFailed(u, Exits))
    BY <1>3, <2>1 DEF Ended, SomeFailed
  <2>4. success \in BOOLEAN /\ Write(p, Counted(success, TRUE))
    BY <1>8
  <2> HIDE DEF success
  <2>5. /\ NextOne(q) /\ q.left = poll.left - 1
        /\ q.good = IF success THEN poll.good + 1 ELSE poll.good
    BY <1>2, <1>5, <2>4, CountedFields
  <2>6. Write(p, q)
    BY <2>4
  <2> HIDE DEF q
  <2>7. /\ CopiesHonest' /\ Exits' = Exits /\ Held' = p
        /\ poll'.pc = "init" /\ poll'.idx = poll.idx + 1
        /\ poll'.left = q.left /\ poll'.good = q.good
    BY <1>1, <2>2, <2>5, <2>6, WritesOn
  <2>8. CountsInit(u, poll.idx + 1, poll.left - 1,
                   IF success THEN poll.good + 1 ELSE poll.good, Exits)
    BY <1>1, <1>2, <1>4, <2>3, <2>4, InitCounted
  <2>9. PollHonest'
    BY <1>8, <2>5, <2>7, <2>8 DEF PollHonest
  <2>10. QED
    BY <2>7, <2>9
<1>9. RemoteTypeOK
  BY DEF RemoteInv
<1>10. QED
  BY <1>6, <1>7, <1>8, <1>9, InitEffect

LEMMA MainContainerHonest ==
  ASSUME ProviderInv, RemoteInv, CopiesHonest, PollHonest,
         PollMainContainer, UNCHANGED api
  PROVE  CopiesHonest' /\ PollHonest'
<1> DEFINE u == Held.uid
           e == MainOf[u][poll.idx]
           s == Held.cst[poll.idx]
<1>1. /\ Working /\ poll.pc = "main" /\ poll.idx <= Len(MainOf[u])
      /\ UNCHANGED <<call, mail, api, job>>
  BY DEF PollMainContainer, Working, remoteVars
<1>2. /\ Held \in Pod /\ u \in Uid /\ poll \in PollLocals /\ poll.idx \in Nat \ {0}
      /\ poll.left \in Int /\ poll.good \in Nat
      /\ Len(Held.cst) = Len(MainOf[u]) /\ AllStarted(Held)
      /\ MainOf[u] \in Seq(Container) /\ Held.cst \in Seq(ContainerStatus)
  BY <1>1, HandFacts DEF InHand, PollLocals
<1>3. e \in Container /\ poll.idx \in DOMAIN Held.cst /\ e \in ContainersOf(u)
  BY <1>1, <1>2, OneOf DEF ContainersOf
<1>4. /\ Honest(Held, Exits) /\ Held.phase = "Running"
      /\ CountsMain(Held, poll.idx, poll.left, poll.good, Exits)
  BY <1>1, HeldHonest DEF PollHonest
<1>5. /\ NextOne(NotYet)
      /\ \A success, wrote \in BOOLEAN : NextOne(Counted(success, wrote))
  BY <1>2, NextOneFacts
<1>6. CASE poll' = NotYet /\ UNCHANGED pods
  <2>1. /\ CopiesHonest' /\ Exits' = Exits /\ Held' = Held
        /\ poll'.pc = "main" /\ poll'.idx = poll.idx + 1
    BY <1>1, <1>5, <1>6, GoesOn
  <2>2. poll'.left = poll.left /\ poll'.good = poll.good
    BY <1>2, <1>6, CountedFields
  <2>3. CountsMain(Held, poll.idx + 1, poll.left, poll.good, Exits)
    BY <1>1, <1>2, <1>4, CountSkipped
  <2>4. PollHonest'
    BY <1>4, <2>1, <2>2, <2>3 DEF PollHonest
  <2>5. QED
    BY <2>1, <2>4
<1>7. CASE s.st # "running" /\ poll' = Counted(s.code = 0, FALSE) /\ UNCHANGED pods
  <2> DEFINE success == s.code = 0
  <2>1. success \in BOOLEAN /\ poll' = Counted(success, FALSE)
    BY <1>7
  <2>2. s = Unreachable \/ IsExit(s, e, Exits)
    <3>1. Held.reason # "deleted"
      BY <1>4 DEF Honest, PhaseTold
    <3>2. s # Running /\ s # Waiting
      BY <1>2, <1>3, <1>7 DEF Running, Waiting, AllStarted
    <3>3. QED
      BY <1>3, <1>4, <3>1, <3>2 DEF Honest, MainTold
  <2>3. (success => <<InstOf[e], 0>> \in Exits) /\ (~success => HasCause(Held, Exits))
    <3>1. CASE s = Unreachable
      BY <1>3, <3>1 DEF Unreachable, HasCause, HasUnreachable
    <3>2. CASE IsExit(s, e, Exits)
      <4>1. PICK code \in Code : s = Exited(code) /\ <<InstOf[e], code>> \in Exits
        BY <3>2 DEF IsExit
      <4>2. s.code = code
        BY <4>1 DEF Exited
      <4>3. QED
        BY <1>3, <4>1, <4>2 DEF HasCause, SomeFailed
    <3>3. QED
      BY <2>2, <3>1, <3>2
  <2> HIDE DEF success
  <2>4. /\ CopiesHonest' /\ Exits' = Exits /\ Held' = Held
        /\ poll'.pc = "main" /\ poll'.idx = poll.idx + 1
    BY <1>1, <1>5, <1>7, <2>1, GoesOn
  <2>5. /\ poll'.left = poll.left - 1
        /\ poll'.good = IF success THEN poll.good + 1 ELSE poll.good
    BY <1>2, <2>1, CountedFields
  <2>6. CountsMain(Held, poll.idx + 1, poll.left - 1,
                   IF success THEN poll.good + 1 ELSE poll.good, Exits)
    BY <1>1, <1>2, <1>4, <2>1, <2>3, MainCounted
  <2>7. PollHonest'
    BY <1>4, <2>4, <2>5, <2>6 DEF PollHonest
  <2>8. QED
    BY <2>4, <2>7
<1>8. ASSUME NEW c \in Code, NEW p \in Pod, c = statusFile[InstOf[e]],
             s.st = "running", Write(p, Counted(c = 0, TRUE)),
             p.uid = Held.uid, p.reason = Held.reason, p.phase = Held.phase,
             p.initialized = Held.initialized, p.ist = Held.ist,
             DOMAIN p.cst = DOMAIN Held.cst,
             \A j \in DOMAIN Held.cst :
                p.cst[j] = IF j = poll.idx THEN Exited(c) ELSE Held.cst[j]
      PROVE  CopiesHonest' /\ PollHonest'
  <2> DEFINE success == c = 0
             q == Counted(success, TRUE)
  <2>1. <<InstOf[e], c>> \in Exits
    BY <1>3, <1>8, ReadIsExit
  <2>2. Honest(p, Exits) /\ (HasCause(Held, Exits) => HasCause(p, Exits))
    <3>1. <<InstOf[MainOf[Held.uid][poll.idx]], c>> \in Exits
      BY <2>1
    <3>2. Held.cst[poll.idx].st = "running"
      BY <1>8
    <3>3. /\ p.uid = Held.uid /\ p.reason = Held.reason /\ p.phase = Held.phase
          /\ p.initialized = Held.initialized /\ p.ist = Held.ist
          /\ DOMAIN p.cst = DOMAIN Held.cst
      BY <1>8
    <3>4. \A j \in DOMAIN Held.cst :
             p.cst[j] = IF j = poll.idx THEN Exited(c) ELSE Held.cst[j]
      BY <1>8
    <3> HIDE DEF u, e, s, success, q
    <3>5. QED
      BY <1>4, <3>1, <3>2, <3>3, <3>4, MainExitHonest
  <2>3. (success => <<InstOf[e], 0>> \in Exits) /\ (~success => HasCause(p, Exits))
    BY <1>3, <1>8, <2>1 DEF HasCause, SomeFailed
  <2>4. success \in BOOLEAN /\ Write(p, Counted(success, TRUE))
    BY <1>8
  <2> HIDE DEF success
  <2>5. /\ NextOne(q) /\ q.left = poll.left - 1
        /\ q.good = IF success THEN poll.good + 1 ELSE poll.good
    BY <1>2, <1>5, <2>4, CountedFields
  <2>6. Write(p, q)
    BY <2>4
  <2> HIDE DEF q
  <2>7. /\ CopiesHonest' /\ Exits' = Exits /\ Held' = p
        /\ poll'.pc = "main" /\ poll'.idx = poll.idx + 1
        /\ poll'.left = q.left /\ poll'.good = q.good
    BY <1>1, <2>2, <2>5, <2>6, WritesOn
  <2>8. CountsMain(p, poll.idx + 1, poll.left - 1,
                   IF success THEN poll.good + 1 ELSE poll.good, Exits)
    BY <1>1, <1>2, <1>4, <1>8, <2>2, <2>3, <2>4, MainCounted
  <2>9. PollHonest'
    BY <1>4, <1>8, <2>5, <2>7, <2>8 DEF PollHonest
  <2>10. QED
    BY <2>7, <2>9
<1>9. RemoteTypeOK
  BY DEF RemoteInv
<1>10. QED
  BY <1>6, <1>7, <1>8, <1>9, MainEffect

LEMMA InitDoneHonest ==
  ASSUME ProviderInv, CopiesHonest, PollHonest, PollInitDone, UNCHANGED <<api, job>>
  PROVE  CopiesHonest' /\ PollHonest'
<1> DEFINE u == Held.uid
           n == Len(InitOf[u])
<1>1. Working /\ poll.pc = "init" /\ UNCHANGED call
  BY DEF PollInitDone, Working
<1>2. /\ Held \in Pod /\ u \in Uid /\ n \in Nat /\ poll \in PollLocals
      /\ poll.idx \in Nat \ {0} /\ poll.left \in Int /\ poll.dirty \in BOOLEAN
      /\ ProviderTypeOK /\ PollHolds
  BY <1>1, HandFacts, PodFacts DEF PollLocals, ProviderInv
<1>3. /\ Honest(Held, Exits)
      /\ CountsInit(u, poll.idx, poll.left, poll.good, Exits)
  BY <1>1, HeldHonest DEF PollHonest
<1>4. ASSUME poll.left = 0, poll.idx > n
      PROVE  AllEnded(u, Exits) /\ (poll.good # n => SomeFailed(u, Exits))
  <2>1. poll.idx <= n + 1
    BY <1>3 DEF CountsInit
  <2>2. poll.idx = n + 1 /\ poll.left = n + 1 - poll.idx
    BY <1>2, <1>4, <2>1
  <2>3. \A i \in 1..n : i < poll.idx
    BY <1>2, <2>2
  <2>4. DOMAIN InitOf[u] = 1..n
    BY <1>2, PodFacts
  <2>5. poll.good # n => poll.good # poll.idx - 1
    BY <1>2, <2>2
  <2>6. QED
    BY <1>3, <2>2, <2>3, <2>4, <2>5 DEF CountsInit, AllEnded
<1>5. CASE Leave(Held, poll.dirty)
  BY <1>1, <1>2, <1>3, <1>5, LeaveHonest
<1>6. ASSUME NEW p \in Pod, poll.left = 0, poll.good # n, poll.idx > n, Leave(p, TRUE),
             p.uid = Held.uid, p.reason = Held.reason, p.phase = "Failed",
             p.initialized = Held.initialized, p.ist = Held.ist, p.cst = Held.cst
      PROVE  CopiesHonest' /\ PollHonest'
  <2>1. Held.phase = "Running"
    BY <1>1, HandFacts DEF InHand
  <2>2. Held.reason # "deleted"
    BY <1>3, <2>1 DEF Honest, PhaseTold
  <2>3. InitTold(p, Exits) /\ MainTold(p, Exits)
    BY <1>3, <1>6 DEF Honest, InitTold, MainTold
  <2>4. PhaseTold(p, Exits)
    BY <1>3, <1>4, <1>6, <2>2 DEF Honest, PhaseTold, HasCause
  <2>5. QED
    BY <1>1, <1>6, <2>3, <2>4, LeaveHonest DEF Honest
<1>7. ASSUME NEW p \in Pod, NEW q \in PollLocals,
             poll.left = 0, poll.idx > n, Held.phase = "Running",
             Write(p, q), UNCHANGED mail,
             p.uid = Held.uid, p.reason = Held.reason, p.phase = Held.phase,
             p.initialized, p.ist = Held.ist, p.cst = Held.cst,
             q.pc = "start", q.idx = 1, q.key = poll.key, q.orphan = poll.orphan,
             q.todo = poll.todo
      PROVE  CopiesHonest' /\ PollHonest'
  <2>1. InitTold(p, Exits) /\ MainTold(p, Exits)
    BY <1>3, <1>7 DEF Honest, InitTold, MainTold
  <2>2. PhaseTold(p, Exits)
    BY <1>3, <1>4, <1>7 DEF Honest, PhaseTold
  <2>3. CopiesHonest'
    BY <1>1, <1>7, <2>1, <2>2, WriteHonest DEF Honest
  <2>4. Held' = p /\ poll'.pc = "start"
    BY <1>1, <1>2, <1>7, WriteFacts
  <2>5. PollHonest'
    BY <1>7, <2>4 DEF PollHonest, StartsHonest
  <2>6. QED
    BY <2>3, <2>5
<1>8. QED
  BY <1>5, <1>6, <1>7, InitDoneEffect

LEMMA MainDoneHonest ==
  ASSUME ProviderInv, CopiesHonest, PollHonest, PollMainDone, UNCHANGED <<api, job>>
  PROVE  CopiesHonest' /\ PollHonest'
<1> DEFINE u == Held.uid
           n == Len(MainOf[u])
<1>1. Working /\ poll.pc = "main" /\ UNCHANGED call
  BY DEF PollMainDone, Working
<1>2. /\ Held \in Pod /\ u \in Uid /\ n \in Nat /\ poll \in PollLocals
      /\ poll.idx \in Nat \ {0} /\ poll.left \in Int /\ poll.dirty \in BOOLEAN
  BY <1>1, HandFacts, PodFacts DEF PollLocals
<1>3. /\ Honest(Held, Exits) /\ Held.phase = "Running"
      /\ CountsMain(Held, poll.idx, poll.left, poll.good, Exits)
  BY <1>1, HeldHonest DEF PollHonest
<1>4. ASSUME poll.left = 0, poll.idx > n
      PROVE  /\ poll.good = n => AllSucceeded(u, Exits)
             /\ poll.good # n => HasCause(Held, Exits)
  <2>1. poll.idx <= n + 1
    BY <1>3 DEF CountsMain
  <2>2. poll.idx = n + 1 /\ poll.left = n + 1 - poll.idx
    BY <1>2, <1>4, <2>1
  <2>3. \A i \in 1..n : i < poll.idx
    BY <1>2, <2>2
  <2>4. DOMAIN MainOf[u] = 1..n
    BY <1>2, PodFacts
  <2>5. poll.good = n <=> poll.good = poll.idx - 1
    BY <1>2, <2>2
  <2>6. QED
    BY <1>3, <2>2, <2>3, <2>4, <2>5 DEF CountsMain, AllSucceeded
<1>5. CASE Leave(Held, poll.dirty)
  BY <1>1, <1>2, <1>3, <1>5, LeaveHonest
<1>6. ASSUME NEW p \in Pod, poll.left = 0, poll.idx > n, Leave(p, TRUE),
             p.uid = Held.uid, p.reason = Held.reason,
             p.initialized = Held.initialized, p.ist = Held.ist, p.cst = Held.cst,
             p.phase = IF poll.good = n THEN "Succeeded" ELSE "Failed"
      PROVE  CopiesHonest' /\ PollHonest'
  <2>1. Held.reason # "deleted"
    BY <1>3 DEF Honest, PhaseTold
  <2>2. InitTold(p, Exits) /\ MainTold(p, Exits)
    BY <1>3, <1>6 DEF Honest, InitTold, MainTold
  <2>3. HasCause(Held, Exits) => HasCause(p, Exits)
    BY <1>6 DEF HasCause, HasUnreachable
  <2>4. PhaseTold(p, Exits)
    BY <1>3, <1>4, <1>6, <2>1, <2>3 DEF Honest, PhaseTold
  <2>5. QED
    BY <1>1, <1>6, <2>2, <2>4, LeaveHonest DEF Honest
<1>7. QED
  BY <1>5, <1>6, MainDoneEffect

LEMMA StartedHonest ==
  ASSUME ProviderInv, CopiesHonest, PollStarted, UNCHANGED <<api, job>>
  PROVE  CopiesHonest' /\ PollHonest'
<1>1. Working /\ Held \in Pod /\ Leave(Held, TRUE) /\ UNCHANGED call
  BY HandFacts DEF PollStarted, Working
<1>2. QED
  BY <1>1, HeldHonest, LeaveHonest

LEMMA StartHonest ==
  ASSUME ProviderInv, CopiesHonest, PollHonest, startMainContainers, UNCHANGED api
  PROVE  CopiesHonest' /\ PollHonest'
<1>1. /\ Working /\ poll.pc = "start" /\ UNCHANGED <<call, mail>>
  BY DEF startMainContainers, Working
<1>2. /\ Held \in Pod /\ poll \in PollLocals /\ poll.idx \in Nat \ {0}
      /\ Honest(Held, Exits) /\ StartsHonest(Held, poll.idx)
  BY <1>1, HandFacts, HeldHonest DEF PollHonest
<1>3. PICK p \in Pod, ok \in BOOLEAN :
        /\ RemoteExecution("submit", MainOf[Held.uid][poll.idx], ok)
        /\ Write(p, NotYet)
        /\ p.uid = Held.uid /\ p.reason = Held.reason
        /\ p.initialized = Held.initialized /\ p.ist = Held.ist
        /\ p.phase = (IF ok THEN Held.phase ELSE "Failed")
        /\ DOMAIN p.cst = DOMAIN Held.cst /\ poll.idx \in DOMAIN Held.cst
        /\ \A j \in DOMAIN Held.cst :
             p.cst[j] = IF j = poll.idx THEN IF ok THEN Running ELSE Unreachable
                                        ELSE Held.cst[j]
  BY StartEffect
<1>4. UNCHANGED job
  BY <1>3 DEF RemoteExecution
<1>5. InitTold(p, Exits) /\ MainTold(p, Exits)
  BY <1>2, <1>3 DEF Honest, InitTold, MainTold
<1>6. p.phase = "Failed" =>
        \E i \in DOMAIN p.cst : i < poll.idx + 1 /\ p.cst[i].why = "unreachable"
  <2>1. CASE ok
    <3> SUFFICES ASSUME p.phase = "Failed"
                 PROVE  \E i \in DOMAIN p.cst : /\ i < poll.idx + 1
                                                /\ p.cst[i].why = "unreachable"
      OBVIOUS
    <3>1. PICK i \in DOMAIN Held.cst : i < poll.idx /\ Held.cst[i].why = "unreachable"
      BY <1>2, <1>3, <2>1 DEF StartsHonest
    <3>2. i \in Nat
      BY <1>2, PodFacts
    <3>3. i # poll.idx /\ i < poll.idx + 1
      BY <1>2, <3>1, <3>2
    <3>4. QED
      BY <1>3, <3>1, <3>3
  <2>2. CASE ~ok
    <3>1. p.cst[poll.idx].why = "unreachable"
      BY <1>3, <2>2 DEF Unreachable
    <3>2. poll.idx < poll.idx + 1
      BY <1>2
    <3>3. QED
      BY <1>3, <3>1, <3>2
  <2>3. QED
    BY <2>1, <2>2
<1>7. PhaseTold(p, Exits)
  <2>1. p.reason # "deleted" /\ p.phase \in {"Running", "Failed"}
    BY <1>2, <1>3 DEF Honest, PhaseTold, StartsHonest
  <2>2. p.phase = "Failed" => HasUnreachable(p)
    BY <1>6 DEF HasUnreachable
  <2>3. QED
    BY <1>2, <1>3, <2>1, <2>2 DEF Honest, PhaseTold, HasCause
<1>8. NextOne(NotYet)
  BY <1>2, NextOneFacts
<1>9. /\ CopiesHonest' /\ Held' = p /\ poll'.pc = "start" /\ poll'.idx = poll.idx + 1
  <2>1. Honest(p, Exits)
    BY <1>5, <1>7 DEF Honest
  <2> HIDE DEF NotYet
  <2>2. QED
    BY <1>1, <1>3, <1>4, <1>8, <2>1, WritesOn
<1>10. StartsHonest(p, poll.idx + 1)
  BY <1>2, <1>3, <1>6 DEF StartsHonest
<1>11. PollHonest'
  BY <1>9, <1>10 DEF PollHonest
<1>12. QED
  BY <1>9, <1>11

LEMMA BetweenHonest ==
  ASSUME ProviderInv, CopiesHonest, PollHonest, UNCHANGED <<api, job>>,
         PollBegin \/ PollEnd \/ \E k \in Key : PollSkip(k) \/ PollFirstPass(k)
  PROVE  CopiesHonest' /\ PollHonest'
<1>1. Exits' = Exits
  BY DEF Exits
<1>2. CASE PollBegin \/ PollEnd \/ \E k \in Key : PollSkip(k)
  <2>1. /\ UNCHANGED <<pods, call, mail>>
        /\ poll'.orphan = None /\ poll'.pc \in {"idle", "next"}
        /\ poll'.good = 0 \/ poll'.good = poll.good
        /\ poll.pc \in {"idle", "next"}
    BY <1>2, BetweenEffect
  <2>2. CopiesHonest'
    BY <1>1, <2>1 DEF CopiesHonest
  <2>3. PollHonest'
    BY <2>1 DEF PollHonest
  <2>4. QED
    BY <2>2, <2>3
<1>3. ASSUME NEW k \in Key, PollFirstPass(k)
      PROVE  CopiesHonest' /\ PollHonest'
  <2>1. PICK p \in Pod :
          /\ pods' = [pods EXCEPT ![k] = p] /\ UNCHANGED <<call, mail>>
          /\ pods[k] \in Pod /\ pods[k] # None
          /\ p.uid = pods[k].uid /\ p.reason = pods[k].reason
          /\ p.phase = pods[k].phase /\ p.phase = "Running"
          /\ p.initialized = pods[k].initialized /\ p.cst = pods[k].cst
          /\ \A i \in DOMAIN p.ist : p.ist[i] = Running
          /\ poll'.orphan = None /\ poll'.pc = "next" /\ poll'.good = poll.good
          /\ poll.pc = "next"
    BY <1>3, FirstPassEffect
  <2>2. Honest(pods[k], Exits)
    BY <2>1 DEF CopiesHonest
  <2>3. InitTold(p, Exits) /\ MainTold(p, Exits)
    BY <2>1, <2>2 DEF Honest, InitTold, MainTold
  <2>4. PhaseTold(p, Exits)
    BY <2>1, <2>2 DEF Honest, PhaseTold
  <2>5. \A x \in Key : pods'[x] = IF x = k THEN p ELSE pods[x]
    BY <2>1 DEF ProviderInv, ProviderTypeOK
  <2>6. CopiesHonest'
    BY <1>1, <2>1, <2>3, <2>4, <2>5 DEF CopiesHonest, Honest
  <2>7. PollHonest'
    BY <2>1 DEF PollHonest
  <2>8. QED
    BY <2>6, <2>7
<1>4. QED
  BY <1>2, <1>3

LEMMA PickHonest ==
  ASSUME ProviderInv, CopiesHonest, PollHonest, UNCHANGED <<api, job>>,
         NEW k \in Key, PollPick(k)
  PROVE  CopiesHonest' /\ PollHonest'
<1> DEFINE p == pods[k]
           m == Len(InitOf[p.uid])
           n == Len(MainOf[p.uid])
<1>1. /\ UNCHANGED <<pods, call, mail>>
      /\ poll'.orphan = None /\ poll'.idx = 1
      /\ poll'.good = poll.good /\ poll.pc = "next"
      /\ Held' = p /\ p \in Pod /\ p.phase = "Running"
      /\ \/ poll'.pc = "init" /\ poll'.left = m
         \/ poll'.pc = "main" /\ poll'.left = n
  BY PickEffect
<1>2. m \in Nat /\ n \in Nat /\ poll.good = 0
  BY <1>1, PodFacts DEF PollHonest
<1>3. CopiesHonest'
  BY <1>1 DEF CopiesHonest, Exits
<1>4. CountsInit(p.uid, 1, m, 0, Exits')
  <2> HIDE DEF m
  <2>1. 1 <= m + 1 /\ m >= m + 1 - 1 /\ \A i \in 1..m : ~(i < 1)
    BY <1>2
  <2>2. QED
    BY <2>1 DEF CountsInit, m
<1>5. CountsMain(p, 1, n, 0, Exits')
  <2> HIDE DEF n
  <2>1. 1 <= n + 1 /\ n >= n + 1 - 1 /\ \A i \in 1..n : ~(i < 1)
    BY <1>2
  <2>2. QED
    BY <2>1 DEF CountsMain, n
<1>6. PollHonest'
  BY <1>1, <1>2, <1>4, <1>5 DEF PollHonest
<1>7. QED
  BY <1>3, <1>6

LEMMA PollStepHonest ==
  ASSUME ProviderInv, RemoteInv, CopiesHonest, CallsHonest, PollHonest,
         PollStep, UNCHANGED api
  PROVE  CopiesHonest' /\ CallsHonest' /\ PollHonest'
<1>1. UNCHANGED <<call, job>>
  BY DEF PollStep, PollBegin, PollEnd, PollSkip, PollFirstPass, PollPick,
     PollInitContainer, PollInitDone, startMainContainers, RemoteExecution, PollStarted,
     PollMainContainer, PollMainDone, remoteVars
<1>2. CallsHonest'
  BY <1>1 DEF CallsHonest
<1>3. QED
  BY <1>1, <1>2, BetweenHonest, PickHonest, InitContainerHonest, InitDoneHonest,
     StartHonest, StartedHonest, MainContainerHonest, MainDoneHonest DEF PollStep

-----------------------------------------------------------------------------
(* The handlers. *)

LEMMA PollHonestKept ==
  ASSUME PollHonest, HandKept, poll'.left = poll.left, poll'.good = poll.good,
         UNCHANGED job
  PROVE  PollHonest'
<1>1. Exits' = Exits
  BY DEF Exits
<1>2. poll.pc \in {"init", "start", "main"} => Held' = Held
  BY DEF HandKept, Working
<1>3. poll'.pc = poll.pc /\ poll'.idx = poll.idx
  BY DEF HandKept
<1>4. QED
  BY <1>1, <1>2, <1>3 DEF PollHonest

LEMMA ReplacedHonest ==
  ASSUME ProviderInv, CopiesHonest, UNCHANGED <<api, job>>, NEW k \in Key, NEW p, NEW q,
         p # None => Honest(p, Exits), q # None => Honest(q, Exits),
         \A x \in Key : pods'[x] = IF x = k THEN p ELSE pods[x],
         \A x \in Key : mail'[x] = IF x = k THEN q ELSE mail[x],
         \A x \in Key : call'[x].pod = None \/ call'[x].pod = call[x].pod,
         \/ poll'.orphan = poll.orphan
         \/ poll.key = k /\ Working /\ poll'.orphan = pods[k]
  PROVE  CopiesHonest'
<1>1. Exits' = Exits
  BY DEF Exits
<1>2. QED
  BY <1>1 DEF CopiesHonest

LEMMA CallMovesHonest ==
  ASSUME ProviderInv, CopiesHonest, CallsHonest, PollHonest, NEW k \in Key, NEW c,
         call' = [call EXCEPT ![k] = c], CallHonest(c), Honest(c.pod, Exits),
         UNCHANGED <<pods, poll, mail, job>>,
         \A v \in Uid : api'[v].pod = api[v].pod
  PROVE  CopiesHonest' /\ CallsHonest' /\ PollHonest'
<1>1. Exits' = Exits /\ Held' = Held
  BY DEF Exits, Held
<1>2. \A x \in Key : call'[x] = IF x = k THEN c ELSE call[x]
  BY DEF ProviderInv, ProviderTypeOK
<1>3. CopiesHonest'
  BY <1>1, <1>2 DEF CopiesHonest
<1>4. CallsHonest'
  BY <1>2 DEF CallsHonest
<1>5. PollHonest'
  BY <1>1 DEF PollHonest
<1>6. QED
  BY <1>3, <1>4, <1>5

LEMMA HandlerHonest ==
  ASSUME ProviderInv, CopiesHonest, CallsHonest, PollHonest, UNCHANGED api,
         NEW k \in Key, HandlerStep(k)
  PROVE  CopiesHonest' /\ CallsHonest' /\ PollHonest'
<1> DEFINE p == call[k].pod
<1>1. UNCHANGED job
  BY DEF HandlerStep, CreateContainer, CreateStore, DeleteContainer, DeleteForget,
     RemoteExecution, remoteVars
<1>2. /\ call[k] \in HandlerCall /\ p \in Pod /\ p # None /\ CallHonest(call[k])
      /\ Honest(p, Exits) /\ ProviderTypeOK /\ PollHolds
      /\ call \in [Key -> HandlerCall]
  BY CallFacts, PodFacts DEF HandlerStep, CreateContainer, CreateStore,
     DeleteContainer, DeleteForget, CallsHonest, CopiesHonest, ProviderInv
<1>3. CASE CreateContainer(k)
  <2>1. PICK ok \in BOOLEAN :
          call' = [call EXCEPT ![k] =
            [call[k] EXCEPT !.pod = Launched(p, ok), !.idx = call[k].idx + 1]]
    BY <1>3 DEF CreateContainer
  <2> DEFINE c == [call[k] EXCEPT !.pod = Launched(p, ok), !.idx = call[k].idx + 1]
  <2>2. call[k].op = "create" /\ UNCHANGED <<pods, poll, mail>>
    BY <1>3 DEF CreateContainer
  <2>3. c.op = "create" /\ c.pod = Launched(p, ok)
    BY <1>2, <2>2 DEF HandlerCall
  <2>4. call' = [call EXCEPT ![k] = c]
    BY <2>1
  <2> HIDE DEF c
  <2>5. p.phase \in {"Running", "Failed"} /\ (InitOf[p.uid] # <<>> => p.phase = "Running")
    BY <1>2, <2>2 DEF CallHonest
  <2>6. /\ Honest(c.pod, Exits) /\ c.pod.phase \in {"Running", "Failed"}
        /\ InitOf[p.uid] # <<>> => c.pod = p
    BY <1>2, <2>3, <2>5, LaunchedHonest
  <2>7. c.pod.uid = p.uid
    BY <1>2, <2>3, PodShapes
  <2>8. CallHonest(c)
    BY <2>3, <2>5, <2>6, <2>7 DEF CallHonest
  <2>9. QED
    BY <1>1, <2>2, <2>4, <2>6, <2>8, CallMovesHonest
<1>4. CASE DeleteContainer(k)
  <2> DEFINE c == [call[k] EXCEPT !.idx = call[k].idx + 1]
  <2>1. call' = [call EXCEPT ![k] = c] /\ UNCHANGED <<pods, poll, mail>>
    BY <1>4 DEF DeleteContainer
  <2>2. c.op = call[k].op /\ c.pod = p
    BY <1>2 DEF HandlerCall
  <2> HIDE DEF c
  <2>3. CallHonest(c) /\ Honest(c.pod, Exits)
    BY <1>2, <2>2 DEF CallHonest
  <2>4. QED
    BY <1>1, <2>1, <2>3, CallMovesHonest
<1>5. ASSUME CreateStore(k) \/ DeleteForget(k)
      PROVE  /\ \A x \in Key : call'[x] = IF x = k THEN NoCall ELSE call[x]
             /\ \A x \in Key : call'[x].pod = None \/ call'[x].pod = call[x].pod
             /\ CallsHonest'
  <2>1. \A x \in Key : call'[x] = IF x = k THEN NoCall ELSE call[x]
    BY <1>2, <1>5 DEF CreateStore, DeleteForget
  <2>2. NoCall.pod = None /\ CallHonest(NoCall)
    BY DEF NoCall, CallHonest
  <2>3. QED
    BY <2>1, <2>2 DEF CallsHonest
<1>6. CASE CreateStore(k)
  <2> DEFINE t == All(Waiting, Len(MainOf[p.uid]))
             s == IF InitOf[p.uid] = <<>> THEN p ELSE [p EXCEPT !.cst = t]
  <2>1. call[k].op = "create" /\ StoreByHandler(k, s)
    BY <1>6 DEF CreateStore
  <2>2. Honest(s, Exits)
    <3>1. InitOf[p.uid] # <<>> => p.phase = "Running"
      BY <1>2, <2>1 DEF CallHonest
    <3>2. Len(MainOf[p.uid]) \in Nat
      BY <1>2, PodFacts
    <3>3. QED
      BY <1>2, <3>1, <3>2, WaitingHonest
  <2>3. s \in Pod
    <3>1. Len(MainOf[p.uid]) \in Nat
      BY <1>2, PodFacts
    <3>2. t \in Seq(ContainerStatus)
      BY <3>1, StatusTypes DEF All
    <3> HIDE DEF t
    <3>3. QED
      BY <1>2, <3>2 DEF Pod
  <2> HIDE DEF s
  <2>4. HandKept /\ poll'.left = poll.left /\ poll'.good = poll.good
    BY <1>2, <2>1, <2>3, StoreReplaces, StoreEffect DEF Replaced
  <2>5. CopiesHonest'
    BY <1>1, <1>2, <1>5, <1>6, <2>1, <2>2, StoreEffect, ReplacedHonest
  <2>6. QED
    BY <1>1, <1>5, <1>6, <2>4, <2>5, PollHonestKept
<1>7. CASE DeleteForget(k)
  <2>1. /\ call[k].op = "delete" /\ pods' = [pods EXCEPT ![k] = None]
        /\ poll' = [poll EXCEPT !.todo = @ \ {k}, !.orphan = LetGo(k)]
    BY <1>7 DEF DeleteForget
  <2>2. Honest(DeletedPod(p), Exits)
    BY <1>2, <2>1, DeletedHonest DEF CallHonest
  <2>3. HandKept /\ poll'.left = poll.left /\ poll'.good = poll.good
    BY <1>2, <1>7, <2>1, ForgetReplaces, ForgetEffect DEF Replaced
  <2>4. CopiesHonest'
    BY <1>1, <1>2, <1>5, <1>7, <2>2, ForgetEffect, ReplacedHonest
  <2>5. QED
    BY <1>1, <1>5, <1>7, <2>3, <2>4, PollHonestKept
<1>8. QED
  BY <1>3, <1>4, <1>6, <1>7 DEF HandlerStep

-----------------------------------------------------------------------------
(* Users and the controller. *)

LEMMA ProviderStaysHonest ==
  ASSUME CopiesHonest, CallsHonest, PollHonest, UNCHANGED <<providerVars, job>>,
         \A u \in Uid : Honest(api'[u].pod, Exits)
  PROVE  CopiesHonest' /\ CallsHonest' /\ PollHonest'
<1>1. Exits' = Exits /\ Held' = Held /\ UNCHANGED <<pods, poll, call, mail>>
  BY DEF Exits, Held, providerVars
<1>2. QED
  BY <1>1 DEF CopiesHonest, CallsHonest, PollHonest

LEMMA GenerationHonest ==
  ASSUME NEW p \in Pod, NEW g \in Nat, NEW exits, Honest(p, exits)
  PROVE  Honest([p EXCEPT !.gen = g], exits)
<1> DEFINE q == [p EXCEPT !.gen = g]
<1>1. /\ q.uid = p.uid /\ q.reason = p.reason /\ q.phase = p.phase
      /\ q.initialized = p.initialized /\ q.ist = p.ist /\ q.cst = p.cst
  BY DEF Pod
<1> HIDE DEF q
<1>2. Honest(q, exits)
  BY <1>1, SameHonest
<1>3. QED
  BY <1>2 DEF q

LEMMA UserHonest ==
  ASSUME ControlInv, CopiesHonest, CallsHonest, PollHonest, UserStep
  PROVE  CopiesHonest' /\ CallsHonest' /\ PollHonest'
<1>1. UNCHANGED <<providerVars, job>>
  BY DEF UserStep, UserCreate, UserEdit, UserDelete, UserForceDelete, remoteVars
<1>2. \A u \in Uid : Honest(api'[u].pod, Exits)
  <2>1. PICK u \in Uid :
          UserCreate(u) \/ UserEdit(u) \/ UserDelete(u) \/ UserForceDelete(u)
    BY DEF UserStep
  <2>2. CASE UserEdit(u)
    <3> DEFINE p == [api[u].pod EXCEPT !.gen = api[u].pod.gen + 1]
    <3>1. api[u].pod \in Pod /\ api[u].pod.gen + 1 \in Nat
      BY DEF ControlInv, ApiObject, Pod
    <3>2. Honest(p, Exits)
      BY <3>1, GenerationHonest DEF CopiesHonest
    <3>3. api' = [api EXCEPT ![u].pod = p]
      BY <2>2 DEF UserEdit, ControlInv, ApiObject
    <3> HIDE DEF p
    <3>4. QED
      BY <3>2, <3>3 DEF CopiesHonest, ControlInv, ApiObject
  <2>3. CASE UserCreate(u) \/ UserDelete(u) \/ UserForceDelete(u)
    BY <2>3 DEF UserCreate, UserDelete, UserForceDelete, CopiesHonest, ControlInv, ApiObject
  <2>4. QED
    BY <2>1, <2>2, <2>3
<1>3. QED
  BY <1>1, <1>2, ProviderStaysHonest

LEMMA SyncHonest ==
  ASSUME ProviderInv, ControlInv, CopiesHonest, CallsHonest, PollHonest,
         NEW k \in Key, KubeletSync(k)
  PROVE  CopiesHonest' /\ CallsHonest' /\ PollHonest'
<1>1. UNCHANGED <<providerVars, job>> /\ mail[k] # None
  BY DEF KubeletSync, remoteVars
<1>2. /\ mail[k] \in Pod /\ mail[k].uid \in Uid /\ api[mail[k].uid].pod.gen \in Nat
      /\ Honest(mail[k], Exits)
  BY <1>1 DEF ProviderInv, ProviderTypeOK, Pod, ControlInv, ApiObject, CopiesHonest
<1> DEFINE p == [mail[k] EXCEPT !.gen = api[mail[k].uid].pod.gen]
<1>3. Honest(p, Exits)
  BY <1>2, GenerationHonest
<1>4. api' = [api EXCEPT ![mail[k].uid].pod = p]
  BY DEF KubeletSync
<1> HIDE DEF p
<1>5. \A u \in Uid : Honest(api'[u].pod, Exits)
  BY <1>2, <1>3, <1>4 DEF CopiesHonest, ControlInv, ApiObject
<1>6. QED
  BY <1>1, <1>5, ProviderStaysHonest

LEMMA DeleteCallHonest ==
  ASSUME ProviderInv, CopiesHonest, CallsHonest, PollHonest, NEW k \in Key,
         NEW p \in Pod, Honest(p, Exits), DeletePod(k, p),
         \A v \in Uid : api'[v].pod = api[v].pod
  PROVE  CopiesHonest' /\ CallsHonest' /\ PollHonest'
<1> DEFINE q == [p EXCEPT !.phase = "Succeeded", !.reason = "deleted"]
           c == [op |-> "delete", idx |-> 1, pod |-> q]
<1>1. call' = [call EXCEPT ![k] = c] /\ UNCHANGED <<pods, poll, mail, job>>
  BY DEF DeletePod, remoteVars
<1>2. Honest(q, Exits) /\ q.reason = "deleted"
  BY DeletingHonest
<1> HIDE DEF q
<1>3. c.op = "delete" /\ c.pod = q
  OBVIOUS
<1> HIDE DEF c
<1>4. CallHonest(c) /\ Honest(c.pod, Exits)
  BY <1>2, <1>3 DEF CallHonest
<1>5. QED
  BY <1>1, <1>4, CallMovesHonest

LEMMA KubeletHonest ==
  ASSUME ProviderInv, ControlInv, CopiesHonest, CallsHonest, PollHonest,
         NEW u \in Uid, KubeletStep(u)
  PROVE  CopiesHonest' /\ CallsHonest' /\ PollHonest'
<1> DEFINE k == KeyOf[u]
           p == api[u].pod
<1>1. k \in Key /\ p \in Pod /\ Honest(p, Exits) /\ ProviderTypeOK /\ PollHolds
  BY ProviderAssumption DEF ControlInv, ApiObject, CopiesHonest, ProviderInv
<1>2. CASE KubeletCreate(u)
  <2> DEFINE c == [op |-> "create", pod |-> ResetPod(p), idx |-> 1]
  <2>1. call' = [call EXCEPT ![k] = c] /\ UNCHANGED <<pods, poll, mail, job, api>>
    BY <1>2 DEF KubeletCreate, CreatePod, remoteVars
  <2>2. c.op = "create" /\ c.pod = ResetPod(p)
    OBVIOUS
  <2> HIDE DEF c
  <2>3. CallHonest(c) /\ Honest(c.pod, Exits)
    BY <1>1, <2>2, ResetHonest DEF CallHonest
  <2>4. QED
    BY <1>1, <2>1, <2>3, CallMovesHonest
<1>3. CASE KubeletUpdate(u)
  <2>1. StoreByHandler(k, p) /\ UNCHANGED <<call, job, api>>
    BY <1>3 DEF KubeletUpdate, UpdatePod, remoteVars
  <2>2. HandKept /\ poll'.left = poll.left /\ poll'.good = poll.good
    BY <1>1, <2>1, StoreReplaces, StoreEffect DEF Replaced
  <2>3. CopiesHonest'
    BY <1>1, <2>1, StoreEffect, ReplacedHonest
  <2>4. CallsHonest'
    BY <2>1 DEF CallsHonest
  <2>5. QED
    BY <2>1, <2>2, <2>3, <2>4, PollHonestKept
<1>4. CASE KubeletDelete(u)
  BY <1>1, <1>4, DeleteCallHonest DEF KubeletDelete
<1>5. ASSUME UNCHANGED job, \A v \in Uid : api'[v].pod = api[v].pod
      PROVE  \A v \in Uid : Honest(api'[v].pod, Exits)
  BY <1>5 DEF CopiesHonest
<1>6. CASE KubeletDeleteRemoved(u)
  <2>1. /\ DeletePod(k, pods[k]) /\ pods[k] # None
        /\ api' = [api EXCEPT ![u].life = "gone"]
    BY <1>6 DEF KubeletDeleteRemoved, DeletePod
  <2>2. pods[k] \in Pod /\ Honest(pods[k], Exits)
    BY <1>1, <2>1 DEF ProviderTypeOK, CopiesHonest
  <2>3. \A v \in Uid : api'[v].pod = api[v].pod
    BY <2>1 DEF ControlInv, ApiObject
  <2>4. QED
    BY <1>1, <2>1, <2>2, <2>3, DeleteCallHonest
<1>7. CASE KubeletForget(u) \/ KubeletRemove(u)
  <2>1. UNCHANGED <<providerVars, job>>
    BY <1>7 DEF KubeletForget, KubeletRemove, remoteVars
  <2>2. \A v \in Uid : api'[v].pod = api[v].pod
    BY <1>7 DEF KubeletForget, KubeletRemove, ControlInv, ApiObject
  <2>3. QED
    BY <1>5, <2>1, <2>2, ProviderStaysHonest
<1>8. QED
  BY <1>2, <1>3, <1>4, <1>6, <1>7 DEF KubeletStep

-----------------------------------------------------------------------------
(* Main containers after init containers. *)

LEMMA SameSubmissions ==
  ASSUME MainAfterInit, Exits \subseteq Exits', UNCHANGED door \/ SameDoors
  PROVE  MainAfterInit'
<1> SUFFICES ASSUME NEW u \in Uid, NEW c \in Container,
                    c \in Elems(MainOf[u]), (Submissions(c))' # {},
                    NEW i \in DOMAIN InitOf[u]
             PROVE  \E code \in Code : HasExited(InitOf[u][i], code)'
  BY DEF MainAfterInit
<1>1. Submissions(c) # {}
  BY DEF Submissions, SameDoors
<1>2. PICK code \in Code : HasExited(InitOf[u][i], code)
  BY <1>1 DEF MainAfterInit
<1>3. <<InstOf[InitOf[u][i]], code>> \in Exits'
  BY <1>2, ExitsMeaning
<1>4. HasExited(InitOf[u][i], code)'
  BY <1>3 DEF Exits, HasExited
<1>5. QED
  BY <1>4

LEMMA LaunchAfterInit ==
  ASSUME RemoteInv, MainAfterInit, NEW mode \in {"submit", "stop"},
         NEW c \in Container, NEW ok \in BOOLEAN, RemoteExecution(mode, c, ok),
         mode = "submit" => \A v \in Uid : c \in Elems(MainOf[v]) => AllEnded(v, Exits)
  PROVE  MainAfterInit'
<1>1. UNCHANGED job /\ Exits' = Exits
  BY DEF RemoteExecution, Exits
<1>2. CASE UNCHANGED door
  BY <1>1, <1>2, SameSubmissions
<1>3. CASE Launch(mode, c)
  <2>1. PICK r \in DoorProcess : door' = Append(door, r) /\ r.act = mode /\ r.ctr = c
    BY <1>3 DEF Launch, runRemoteExecutionInstance, stopRemoteExecutionInstance, DoorProcess
  <2>2. /\ DOMAIN door' = DOMAIN door \cup {Len(door) + 1}
        /\ \A d \in DOMAIN door : door'[d] = door[d]
        /\ door'[Len(door) + 1] = r
    BY <2>1, SeqAppend DEF RemoteInv, RemoteTypeOK
  <2> SUFFICES ASSUME NEW v \in Uid, NEW e \in Container,
                      e \in Elems(MainOf[v]), (Submissions(e))' # {},
                      NEW i \in DOMAIN InitOf[v]
               PROVE  \E code \in Code : HasExited(InitOf[v][i], code)'
    BY DEF MainAfterInit
  <2>3. Submissions(e) # {} \/ (e = c /\ mode = "submit")
    BY <2>1, <2>2 DEF Submissions
  <2>4. \E code \in Code : HasExited(InitOf[v][i], code)
    <3>1. CASE Submissions(e) # {}
      BY <3>1 DEF MainAfterInit
    <3>2. CASE e = c /\ mode = "submit"
      BY <3>2, ExitsMeaning DEF AllEnded, Ended
    <3>3. QED
      BY <2>3, <3>1, <3>2
  <2>5. QED
    BY <1>1, <2>4 DEF HasExited
<1>4. QED
  BY <1>2, <1>3 DEF RemoteExecution

LEMMA HandlerAfterInit ==
  ASSUME RemoteInv, ProviderInv, MainAfterInit,
         NEW k \in Key, HandlerStep(k)
  PROVE  MainAfterInit'
<1> DEFINE u == call[k].pod.uid
           i == call[k].idx
<1>1. u \in Uid /\ i \in Nat \ {0}
  BY CallFacts, PodFacts DEF HandlerStep, CreateContainer, CreateStore,
     DeleteContainer, DeleteForget
<1>2. CASE CreateContainer(k)
  <2> DEFINE c == CreateList(u)[i]
  <2>1. PICK ok \in BOOLEAN : RemoteExecution("submit", c, ok)
    BY <1>2 DEF CreateContainer
  <2>2. i <= Len(CreateList(u))
    BY <1>2 DEF CreateContainer
  <2>3. c \in ContainersOf(u) /\ c \in Container
    BY <1>1, <2>2, ListedContainers
  <2>4. ASSUME NEW v \in Uid, c \in Elems(MainOf[v]) PROVE AllEnded(v, Exits)
    <3>1. v = u
      BY <1>1, <2>3, <2>4, UidInInstance DEF ContainersOf
    <3>2. InitOf[u] # <<>> => c \in Elems(InitOf[u])
      BY <1>1, <2>2, OneOf, ProviderAssumption DEF CreateList
    <3>3. InitOf[u] = <<>>
      BY <1>1, <2>4, <3>1, <3>2, ContainersDistinct
    <3>4. QED
      BY <3>1, <3>3 DEF AllEnded
  <2> HIDE DEF c
  <2>5. QED
    BY <2>1, <2>3, <2>4, LaunchAfterInit
<1>3. CASE DeleteContainer(k)
  <2>1. PICK ok \in BOOLEAN : RemoteExecution("stop", DeleteList(u)[i], ok)
    BY <1>3 DEF DeleteContainer
  <2>2. DeleteList(u)[i] \in Container
    BY <1>1, <1>3, ListedContainers DEF DeleteContainer
  <2>3. QED
    BY <2>1, <2>2, LaunchAfterInit
<1>4. CASE CreateStore(k) \/ DeleteForget(k)
  BY <1>4, SameSubmissions DEF CreateStore, DeleteForget, remoteVars, Exits
<1>5. QED
  BY <1>2, <1>3, <1>4 DEF HandlerStep

LEMMA PollAfterInit ==
  ASSUME RemoteInv, ProviderInv, CopiesHonest, PollHonest, MainAfterInit, PollStep
  PROVE  MainAfterInit'
<1>1. CASE startMainContainers
  <2> DEFINE u == Held.uid
             c == MainOf[u][poll.idx]
  <2>1. /\ Working /\ u \in Uid /\ poll.idx \in Nat \ {0} /\ poll.idx <= Len(MainOf[u])
        /\ Held.initialized
    BY <1>1, HandFacts DEF startMainContainers, Working, PollHonest, StartsHonest
  <2>2. PICK ok \in BOOLEAN : RemoteExecution("submit", c, ok)
    BY <1>1 DEF startMainContainers
  <2>3. c \in ContainersOf(u) /\ c \in Container
    BY <2>1, ListedContainers
  <2>4. ASSUME NEW v \in Uid, c \in Elems(MainOf[v]) PROVE AllEnded(v, Exits)
    <3>1. v = u
      BY <2>1, <2>3, <2>4, UidInInstance DEF ContainersOf
    <3>2. QED
      BY <2>1, <3>1, HeldHonest DEF Honest, PhaseTold
  <2> HIDE DEF c
  <2>5. QED
    BY <2>2, <2>3, <2>4, LaunchAfterInit
<1>2. CASE UNCHANGED remoteVars
  BY <1>2, SameSubmissions DEF remoteVars, Exits
<1>3. QED
  BY <1>1, <1>2 DEF PollStep, PollBegin, PollEnd, PollSkip, PollFirstPass, PollPick,
     PollInitContainer, PollInitDone, PollStarted, PollMainContainer, PollMainDone

-----------------------------------------------------------------------------
LEMMA RemoteHonest ==
  ASSUME RemoteInv, HonestInv, RemoteStep, UNCHANGED <<providerVars, api>>
  PROVE  HonestInv'
<1>1. SameDoors /\ JobEffect /\ RemoteTypeOK
  BY RemoteEffect DEF RemoteInv
<1>2. Exits \subseteq Exits'
  BY <1>1, ExitsGrow
<1>3. UNCHANGED <<pods, poll, call, mail, api>> /\ Held' = Held
  BY DEF providerVars, Held
<1>4. CopiesHonest'
  BY <1>2, <1>3, HonestGrows DEF HonestInv, CopiesHonest
<1>5. CallsHonest'
  BY <1>3 DEF HonestInv, CallsHonest
<1>6. PollHonest'
  BY <1>2, <1>3, CountsGrow DEF HonestInv, PollHonest
<1>7. MainAfterInit'
  BY <1>1, <1>2, SameSubmissions DEF HonestInv
<1>8. QED
  BY <1>4, <1>5, <1>6, <1>7 DEF HonestInv

LEMMA CrashHonest ==
  ASSUME HonestInv, Crash
  PROVE  HonestInv'
<1>1. /\ \A x \in Key : /\ pods'[x] = None /\ mail'[x] = None
                        /\ call'[x].pod = None /\ call'[x].op = "none"
      /\ poll'.orphan = None /\ poll'.pc = "idle" /\ poll'.good = 0
      /\ UNCHANGED <<api, door, job>>
  BY DEF Crash, NoCall, IdlePoll, remoteVars
<1>2. Exits' = Exits
  BY <1>1 DEF Exits
<1>3. CopiesHonest' /\ CallsHonest'
  BY <1>1, <1>2 DEF HonestInv, CopiesHonest, CallsHonest, CallHonest
<1>4. PollHonest'
  BY <1>1 DEF PollHonest
<1>5. MainAfterInit'
  BY <1>1, <1>2, SameSubmissions DEF HonestInv
<1>6. QED
  BY <1>3, <1>4, <1>5 DEF HonestInv

LEMMA InitHonest == Init => HonestInv
<1> SUFFICES ASSUME Init PROVE HonestInv
  OBVIOUS
<1>1. /\ \A x \in Key : /\ pods[x] = None /\ mail[x] = None
                        /\ call[x].pod = None /\ call[x].op = "none"
      /\ poll.orphan = None /\ poll.pc = "idle" /\ poll.good = 0
      /\ \A u \in Uid : api[u].pod = FreshPod(u)
      /\ door = <<>>
  BY DEF Init, ProviderInit, RemoteInit, NoCall, IdlePoll
<1>2. CopiesHonest /\ CallsHonest
  BY <1>1, FreshHonest DEF CopiesHonest, CallsHonest, CallHonest
<1>3. PollHonest
  BY <1>1 DEF PollHonest
<1>4. MainAfterInit
  BY <1>1 DEF MainAfterInit, Submissions
<1>5. QED
  BY <1>2, <1>3, <1>4 DEF HonestInv

LEMMA StepHonest ==
  ASSUME SafeInv, HonestInv, [Next]_vars
  PROVE  HonestInv'
<1>1. RemoteInv /\ ProviderInv /\ ControlInv
  BY SafeInvSplits
<1>2. CopiesHonest /\ CallsHonest /\ PollHonest /\ MainAfterInit
  BY DEF HonestInv
<1>3. UNCHANGED remoteVars => MainAfterInit'
  BY <1>2, SameSubmissions DEF remoteVars, Exits
<1>4. CASE UserStep
  <2>1. UNCHANGED remoteVars
    BY <1>4 DEF UserStep, UserCreate, UserEdit, UserDelete, UserForceDelete
  <2>2. QED
    BY <1>1, <1>2, <1>3, <1>4, <2>1, UserHonest DEF HonestInv
<1>5. ASSUME NEW u \in Uid, KubeletStep(u) PROVE HonestInv'
  <2>1. UNCHANGED remoteVars
    BY <1>5 DEF KubeletStep, KubeletCreate, KubeletUpdate, KubeletDelete,
       KubeletDeleteRemoved, KubeletForget, KubeletRemove, CreatePod, UpdatePod, DeletePod
  <2>2. QED
    BY <1>1, <1>2, <1>3, <1>5, <2>1, KubeletHonest DEF HonestInv
<1>6. ASSUME NEW k \in Key, KubeletSync(k) PROVE HonestInv'
  <2>1. UNCHANGED remoteVars
    BY <1>6 DEF KubeletSync
  <2>2. QED
    BY <1>1, <1>2, <1>3, <1>6, <2>1, SyncHonest DEF HonestInv
<1>7. ASSUME NEW k \in Key, HandlerStep(k), ControlUnchanged PROVE HonestInv'
  <2>1. api' = api
    BY <1>7 DEF ControlUnchanged
  <2>2. QED
    BY <1>1, <1>2, <1>7, <2>1, HandlerHonest, HandlerAfterInit DEF HonestInv
<1>8. CASE PollStep /\ ControlUnchanged
  <2>1. api' = api
    BY <1>8 DEF ControlUnchanged
  <2>2. QED
    BY <1>1, <1>2, <1>8, <2>1, PollStepHonest, PollAfterInit DEF HonestInv
<1>9. CASE RemoteStep /\ UNCHANGED providerVars /\ ControlUnchanged
  <2>1. UNCHANGED <<providerVars, api>>
    BY <1>9 DEF ControlUnchanged
  <2>2. QED
    BY <1>1, <1>9, <2>1, RemoteHonest
<1>10. CASE Crash
  BY <1>10, CrashHonest
<1>11. CASE (PollNothing /\ ControlUnchanged) \/ UNCHANGED vars
  <2>1. UNCHANGED <<remoteVars, providerVars, job, api>>
    BY <1>11 DEF PollNothing, vars, ControlUnchanged, remoteVars
  <2>2. \A u \in Uid : Honest(api'[u].pod, Exits)
    BY <1>2, <2>1 DEF CopiesHonest
  <2>3. QED
    BY <1>2, <1>3, <2>1, <2>2, ProviderStaysHonest DEF HonestInv
<1>12. QED
  BY <1>4, <1>5, <1>6, <1>7, <1>8, <1>9, <1>10, <1>11 DEF Next

(* What is stored, in hand, notified or shown of a pod agrees with what its *)
(* jobs did, and the poll's counts with what it has looked at (remote.go    *)
(* 267-453, knoc.go 132-327).                                               *)
THEOREM HonestInvariant ==
  Spec => []HonestInv
<1>1. Init => HonestInv
  BY InitHonest
<1>2. SafeInv /\ HonestInv /\ [Next]_vars => HonestInv'
  BY StepHonest
<1>3. QED
  BY <1>1, <1>2, SafeInvariant, PTL DEF Spec

(* A main container is submitted only after each init container of its pod  *)
(* has run to its end (knoc.go 157-165, remote.go 284-366).                 *)
THEOREM MainAfterInitHolds ==
  Spec => []MainAfterInit
BY HonestInvariant, PTL DEF HonestInv

LEMMA CopyHonest ==
  ASSUME CopiesHonest, NEW p \in Copies
  PROVE  Honest(p, Exits)
BY DEF Copies, CopiesHonest

LEMMA HonestExits == HonestInv => ExitsAreReal
<1> SUFFICES ASSUME HonestInv, NEW p \in Copies
             PROVE  /\ \A i \in DOMAIN p.ist : p.ist[i].why = "exit" =>
                          HasExited(InitOf[p.uid][i], p.ist[i].code)
                    /\ \A i \in DOMAIN p.cst : p.cst[i].why = "exit" =>
                          HasExited(MainOf[p.uid][i], p.cst[i].code)
  BY DEF ExitsAreReal
<1>1. InitTold(p, Exits) /\ MainTold(p, Exits)
  BY CopyHonest DEF HonestInv, Honest
<1>2. /\ Running.why = None /\ Waiting.why = None
      /\ Unreachable.why = "unreachable" /\ Deleted.why = "deleted"
      /\ \A code : Exited(code).code = code
  BY DEF Running, Waiting, Unreachable, Deleted, Exited
<1>3. None # "exit"
  BY NoneAssumption
<1>4. ASSUME NEW s, NEW c, IsExit(s, c, Exits) PROVE HasExited(c, s.code)
  BY <1>2, <1>4, ExitsMeaning DEF IsExit
<1>5. QED
  BY <1>1, <1>2, <1>3, <1>4 DEF InitTold, MainTold

(* No copy of a pod shows for a container an exit code that no job of its   *)
(* instance ended with (remote.go 306-349, 379-419).                        *)
THEOREM ExitsAreRealHolds ==
  Spec => []ExitsAreReal
BY HonestInvariant, HonestExits, PTL

LEMMA HonestEnds == HonestInv => SuccessIsEarned /\ FailureHasCause
<1> SUFFICES ASSUME HonestInv, NEW p \in Copies
             PROVE  /\ p.phase = "Succeeded" /\ p.reason = None =>
                         \A i \in DOMAIN MainOf[p.uid] : HasExited(MainOf[p.uid][i], 0)
                    /\ p.phase = "Failed" =>
                         \/ \E i \in DOMAIN p.cst : p.cst[i].why = "unreachable"
                         \/ \E c \in ContainersOf(p.uid), code \in Code \ {0} :
                               HasExited(c, code)
  BY DEF SuccessIsEarned, FailureHasCause
<1>1. PhaseTold(p, Exits)
  BY CopyHonest DEF HonestInv, Honest
<1>2. QED
  BY <1>1, ExitsMeaning DEF PhaseTold, AllSucceeded, HasCause, HasUnreachable, SomeFailed

(* A pod is reported Succeeded, other than by a deletion, only when each of *)
(* its main containers ended with exit code 0 (remote.go 434-446).          *)
THEOREM SuccessIsEarnedHolds ==
  Spec => []SuccessIsEarned
BY HonestInvariant, HonestEnds, PTL

(* A pod is reported Failed only when a container of it ended with another  *)
(* exit code, or could not be submitted (remote.go 353-366, 434-446; knoc.go *)
(* 217-233, 657-673).                                                       *)
THEOREM FailureHasCauseHolds ==
  Spec => []FailureHasCause
BY HonestInvariant, HonestEnds, PTL

-----------------------------------------------------------------------------
(* Knoc implements PodLife for any pods, containers, faults and requests:  *)
(* every initial state is one of PodLife, and every step is a step of      *)
(* PodLife or leaves its variables alone.                                  *)

LifeStep == Life!Next \/ UNCHANGED Life!vars

LEMMA ElemsAreRange == \A u \in Uid : ContainersOf(u) = Life!ContainersOf(u)
BY DEF ContainersOf, Elems, Life!ContainersOf, Life!Range

(* What PodLife looks at stays. *)
LEMMA ViewStays ==
  ASSUME UNCHANGED job,
         \A u \in Uid : /\ api'[u].pod.phase = api[u].pod.phase
                        /\ api'[u].pod.cst = api[u].pod.cst
                        /\ api'[u].life = api[u].life
                             \/ {api[u].life, api'[u].life} \cap
                                  {"deleting", "removed", "gone"} = {}
  PROVE  UNCHANGED Life!vars
<1>1. shown' = shown
  BY DEF shown
<1>2. asked' = asked
  BY DEF asked
<1>3. QED
  BY <1>1, <1>2 DEF Life!vars

(* A pod's life moves on to a state in which its deletion is asked for. *)
LEMMA LifeAsks ==
  ASSUME ControlInv, NEW u \in Uid, NEW l \in {"deleting", "removed", "gone"},
         api' = [api EXCEPT ![u].life = l], UNCHANGED job
  PROVE  Life!Ask(u)
<1>1. \A v \in Uid : /\ api'[v].pod = api[v].pod
                     /\ api'[v].life = IF v = u THEN l ELSE api[v].life
  BY DEF ControlInv, ApiObject
<1>2. shown' = shown
  BY <1>1 DEF shown
<1>3. asked' = asked \cup {u}
  BY <1>1 DEF asked
<1>4. QED
  BY <1>2, <1>3 DEF Life!Ask

LEMMA UserLife ==
  ASSUME ControlInv, UserStep
  PROVE  LifeStep
<1>1. PICK u \in Uid :
        UserCreate(u) \/ UserEdit(u) \/ UserDelete(u) \/ UserForceDelete(u)
  BY DEF UserStep
<1>2. UNCHANGED job
  BY <1>1 DEF UserCreate, UserEdit, UserDelete, UserForceDelete, remoteVars
<1>3. CASE UserCreate(u)
  <2>1. \A v \in Uid : /\ api'[v].pod = api[v].pod
                       /\ api'[v].life = IF v = u THEN "live" ELSE api[v].life
    BY <1>3 DEF UserCreate, ControlInv, ApiObject
  <2>2. QED
    BY <1>2, <1>3, <2>1, ViewStays DEF UserCreate, LifeStep
<1>4. CASE UserEdit(u)
  <2> DEFINE p == [api[u].pod EXCEPT !.gen = api[u].pod.gen + 1]
  <2>1. api' = [api EXCEPT ![u].pod = p]
    BY <1>4 DEF UserEdit, ControlInv, ApiObject
  <2>2. p.phase = api[u].pod.phase /\ p.cst = api[u].pod.cst
    BY DEF ControlInv, ApiObject, Pod
  <2> HIDE DEF p
  <2>3. \A v \in Uid : /\ api'[v].life = api[v].life
                       /\ api'[v].pod = IF v = u THEN p ELSE api[v].pod
    BY <2>1 DEF ControlInv, ApiObject
  <2>4. QED
    BY <1>2, <2>2, <2>3, ViewStays DEF LifeStep
<1>5. CASE UserDelete(u) \/ UserForceDelete(u)
  <2>1. Life!Ask(u)
    BY <1>2, <1>5, LifeAsks DEF UserDelete, UserForceDelete
  <2>2. QED
    BY <2>1 DEF LifeStep, Life!Next
<1>6. QED
  BY <1>1, <1>3, <1>4, <1>5

LEMMA KubeletLife ==
  ASSUME ControlInv, NEW u \in Uid, KubeletStep(u)
  PROVE  LifeStep
<1>1. UNCHANGED job
  BY DEF KubeletStep, KubeletCreate, KubeletUpdate, KubeletDelete, KubeletDeleteRemoved,
     KubeletForget, KubeletRemove, CreatePod, UpdatePod, DeletePod, remoteVars
<1>2. CASE KubeletCreate(u) \/ KubeletUpdate(u) \/ KubeletDelete(u)
  <2>1. api' = api
    BY <1>2 DEF KubeletCreate, KubeletUpdate, KubeletDelete
  <2>2. QED
    BY <1>1, <2>1, ViewStays DEF LifeStep
<1>3. CASE KubeletDeleteRemoved(u) \/ KubeletForget(u) \/ KubeletRemove(u)
  <2>1. Life!Ask(u)
    BY <1>1, <1>3, LifeAsks DEF KubeletDeleteRemoved, KubeletForget, KubeletRemove
  <2>2. QED
    BY <2>1 DEF LifeStep, Life!Next
<1>4. QED
  BY <1>2, <1>3 DEF KubeletStep

(* What the notifier was told reaches the API server: PodLife's Show. *)
LEMMA SyncLife ==
  ASSUME ProviderInv, ControlInv, CopiesOwned, CopiesHonest, NEW k \in Key, KubeletSync(k)
  PROVE  LifeStep
<1> DEFINE p == mail[k]
           u == p.uid
           q == [p EXCEPT !.gen = api[u].pod.gen]
<1>1. /\ p \in Pod /\ u \in Uid /\ PhaseTold(p, Exits)
      /\ p.reason = "deleted" => Asked(u)
      /\ ~Finished(api[u].pod) /\ UNCHANGED job
      /\ api' = [api EXCEPT ![u].pod = q]
  <2>1. p # None /\ ~Finished(api[u].pod) /\ UNCHANGED job
        /\ api' = [api EXCEPT ![u].pod = q]
    BY DEF KubeletSync, remoteVars
  <2>2. p \in Pod
    BY <2>1 DEF ProviderInv, ProviderTypeOK
  <2>3. u \in Uid
    BY <2>2 DEF Pod
  <2>4. PhaseTold(p, Exits)
    BY <2>1 DEF CopiesHonest, Honest
  <2>5. p.reason = "deleted" => Asked(u)
    BY <2>1 DEF CopiesOwned, BelongsTo
  <2>6. QED
    BY <2>1, <2>2, <2>3, <2>4, <2>5
<1>2. q.phase = p.phase /\ q.cst = p.cst
  BY <1>1 DEF Pod
<1>3. /\ p.phase \in {"Pending", "Running", "Succeeded", "Failed"}
      /\ p.reason \in {"deleted", None}
  BY <1>1 DEF Pod
<1> HIDE DEF q
<1>4. \A v \in Uid : /\ api'[v].life = api[v].life
                     /\ api'[v].pod = IF v = u THEN q ELSE api[v].pod
  BY <1>1 DEF ControlInv, ApiObject
<1> DEFINE unreachable == \E i \in DOMAIN p.cst : p.cst[i].why = "unreachable"
<1>5. shown' = [shown EXCEPT ![u] = [phase |-> p.phase, unreachable |-> unreachable]]
  <2>1. \A v \in Uid \ {u} : api'[v].pod = api[v].pod
    BY <1>4
  <2>2. api'[u].pod.phase = p.phase /\ api'[u].pod.cst = p.cst
    BY <1>1, <1>2, <1>4
  <2>3. /\ \A v \in Uid \ {u} : shown'[v] = shown[v]
        /\ shown'[u] = [phase |-> p.phase, unreachable |-> unreachable]
        /\ shown' = [v \in Uid |-> shown'[v]] /\ shown = [v \in Uid |-> shown[v]]
    <3>1. \A v \in Uid \ {u} : shown'[v] = shown[v]
      BY <2>1 DEF shown
    <3>2. shown'[u] = [phase |-> p.phase, unreachable |-> unreachable]
      BY <1>1, <2>2 DEF shown
    <3>3. shown' = [v \in Uid |-> shown'[v]] /\ shown = [v \in Uid |-> shown[v]]
      BY DEF shown
    <3>4. QED
      BY <3>1, <3>2, <3>3
  <2> HIDE DEF unreachable
  <2>4. QED
    BY <1>1, <2>3
<1>6. asked' = asked
  BY <1>4 DEF asked
<1>7. shown[u].phase \notin Life!Final
  BY <1>1 DEF shown, Finished, Life!Final
<1>8. p.phase = "Succeeded" =>
        u \in asked \/ \A i \in DOMAIN MainOf[u] : Life!EndedWith(MainOf[u][i], {0})
  <2>1. CASE p.reason = "deleted"
    BY <1>1, <2>1 DEF asked, Asked
  <2>2. CASE p.reason = None
    <3> SUFFICES ASSUME p.phase = "Succeeded", NEW i \in DOMAIN MainOf[u]
                 PROVE  Life!EndedWith(MainOf[u][i], {0})
      OBVIOUS
    <3>1. <<InstOf[MainOf[u][i]], 0>> \in Exits
      BY <1>1, <2>2 DEF PhaseTold, AllSucceeded
    <3>2. HasExited(MainOf[u][i], 0)
      BY <3>1, ExitsMeaning
    <3>3. QED
      BY <3>2 DEF HasExited, Life!EndedWith
  <2>3. QED
    BY <1>3, <2>1, <2>2
<1>9. p.phase = "Failed" =>
        unreachable \/ \E c \in Life!ContainersOf(u) : Life!EndedWith(c, Code \ {0})
  <2> SUFFICES ASSUME p.phase = "Failed", ~unreachable
               PROVE  \E c \in Life!ContainersOf(u) : Life!EndedWith(c, Code \ {0})
    OBVIOUS
  <2>1. PICK c \in ContainersOf(u), code \in Code \ {0} : <<InstOf[c], code>> \in Exits
    BY <1>1 DEF PhaseTold, HasCause, HasUnreachable, SomeFailed
  <2>2. HasExited(c, code)
    BY <2>1, ExitsMeaning
  <2>3. QED
    BY <1>1, <2>1, <2>2, ElemsAreRange DEF HasExited, Life!EndedWith
<1>10. unreachable \in BOOLEAN
  OBVIOUS
<1> HIDE DEF unreachable
<1>11. Life!Show(u, p.phase, unreachable)
  BY <1>1, <1>5, <1>6, <1>7, <1>8, <1>9 DEF Life!Show
<1>12. QED
  BY <1>1, <1>3, <1>10, <1>11 DEF LifeStep, Life!Next

(* The jobs: begun for a pod's container, and cancelled for a pod that a   *)
(* user asked to delete.                                                   *)
LEMMA RemoteLife ==
  ASSUME RemoteInv, OwnInv, MainAfterInit, RemoteStep, api' = api
  PROVE  LifeStep
<1>1. shown' = shown /\ asked' = asked
  BY DEF shown, asked
<1>2. CASE UNCHANGED job
  BY <1>1, <1>2 DEF LifeStep, Life!vars
<1>3. CASE JobBegins
  <2>1. PICK i \in Instance :
          /\ script[i] # None
          /\ job' = Append(job, [ctr |-> script[i], st |-> "active", code |-> None])
    BY <1>3 DEF JobBegins
  <2> DEFINE c == script[i]
  <2>2. PICK d \in DOMAIN door : door[d].act = "submit" /\ door[d].ctr = c
    BY <2>1 DEF OwnInv, ScriptSubmitted, IsSubmitted
  <2>3. PICK u \in Uid : c \in ContainersOf(u)
    BY <2>2 DEF OwnInv, DoorsOfPods
  <2>4. c \in Container
    BY <2>1 DEF RemoteInv, RemoteTypeOK
  <2>5. Submissions(c) # {}
    BY <2>2 DEF Submissions
  <2>6. c \in Life!Range(MainOf[u]) =>
          \A n \in DOMAIN InitOf[u] : Life!EndedWith(InitOf[u][n], Code)
    BY <2>4, <2>5 DEF MainAfterInit, HasExited, Elems, Life!Range, Life!EndedWith
  <2>7. Life!Begin(u, c)
    BY <1>1, <2>1, <2>6 DEF Life!Begin
  <2>8. c \in Life!ContainersOf(u)
    BY <2>3, ElemsAreRange
  <2>9. QED
    BY <2>7, <2>8 DEF LifeStep, Life!Next
<1>4. CASE JobFinishes
  <2>1. PICK j \in DOMAIN job, code \in Code : Life!End(j, code)
    BY <1>1, <1>4 DEF JobFinishes, Life!End
  <2>2. QED
    BY <2>1 DEF LifeStep, Life!Next
<1>5. CASE JobIsKilled
  <2>1. PICK j \in DOMAIN job : Life!Lose(j)
    BY <1>1, <1>5 DEF JobIsKilled, Life!Lose
  <2>2. QED
    BY <2>1 DEF LifeStep, Life!Next
<1>6. CASE JobIsCancelled
  <2>1. PICK j \in DOMAIN job, d \in DOMAIN door :
          /\ door[d].act = "stop" /\ DoorInst(d) = InstOf[job[j].ctr]
          /\ job[j].st = "active"
          /\ job' = [job EXCEPT ![j].st = "cancelled"]
    BY <1>6 DEF JobIsCancelled
  <2>2. PICK u \in Uid : door[d].ctr \in ContainersOf(u) /\ Asked(u)
    BY <2>1 DEF OwnInv, StopsAsked
  <2>3. PICK e \in DOMAIN door : door[e].ctr = job[j].ctr
    BY DEF OwnInv, JobsSubmitted, IsSubmitted
  <2>4. PICK v \in Uid : job[j].ctr \in ContainersOf(v)
    BY <2>3 DEF OwnInv, DoorsOfPods
  <2>5. u = v
    BY <2>1, <2>2, <2>4, UidInInstance DEF DoorInst
  <2>6. u \in asked /\ job[j].ctr \in Life!ContainersOf(u)
    BY <2>2, <2>4, <2>5, ElemsAreRange DEF asked, Asked
  <2>7. Life!Cancel(u, j)
    BY <1>1, <2>1, <2>6 DEF Life!Cancel
  <2>8. QED
    BY <2>7 DEF LifeStep, Life!Next
<1>7. QED
  BY <1>2, <1>3, <1>4, <1>5, <1>6, RemoteEffect DEF JobEffect

LEMMA StepLife ==
  ASSUME SafeInv, OwnInv, HonestInv, [Next]_vars
  PROVE  LifeStep
<1>1. /\ RemoteInv /\ ProviderInv /\ ControlInv /\ CopiesOwned
      /\ CopiesHonest /\ MainAfterInit
  BY SafeInvSplits DEF OwnInv, HonestInv
<1>2. CASE UserStep
  BY <1>1, <1>2, UserLife
<1>3. CASE \E u \in Uid : KubeletStep(u)
  BY <1>1, <1>3, KubeletLife
<1>4. CASE \E k \in Key : KubeletSync(k)
  BY <1>1, <1>4, SyncLife
<1>5. CASE RemoteStep /\ UNCHANGED providerVars /\ ControlUnchanged
  BY <1>1, <1>5, RemoteLife DEF ControlUnchanged
<1>6. CASE \/ \E k \in Key : HandlerStep(k) /\ ControlUnchanged
           \/ PollStep /\ ControlUnchanged
           \/ PollNothing /\ ControlUnchanged
           \/ Crash
           \/ UNCHANGED vars
  <2>1. api' = api
    BY <1>6 DEF ControlUnchanged, Crash, vars
  <2>2. UNCHANGED job
    <3>1. ASSUME NEW k \in Key, HandlerStep(k) PROVE UNCHANGED job
      BY <3>1 DEF HandlerStep, CreateContainer, CreateStore, DeleteContainer,
         DeleteForget, RemoteExecution, remoteVars
    <3>2. ASSUME PollStep PROVE UNCHANGED job
      BY <3>2 DEF PollStep, PollBegin, PollEnd, PollSkip, PollFirstPass, PollPick,
         PollInitContainer, PollInitDone, startMainContainers, PollStarted,
         PollMainContainer, PollMainDone, RemoteExecution, remoteVars
    <3>3. PollNothing \/ Crash \/ UNCHANGED vars => UNCHANGED job
      BY DEF PollNothing, Crash, vars, remoteVars
    <3>4. QED
      BY <1>6, <3>1, <3>2, <3>3
  <2>3. QED
    BY <2>1, <2>2, ViewStays DEF LifeStep
<1>7. QED
  BY <1>2, <1>3, <1>4, <1>5, <1>6 DEF Next

LEMMA InitLife == Init => Life!Init
<1> SUFFICES ASSUME Init PROVE Life!Init
  OBVIOUS
<1>1. \A u \in Uid : api[u].life = "none" /\ api[u].pod = FreshPod(u)
  BY DEF Init
<1>2. shown = [u \in Uid |-> [phase |-> "Pending", unreachable |-> FALSE]]
  <2>1. \A u \in Uid : api[u].pod.phase = "Pending" /\ api[u].pod.cst = <<>>
    <3>1. \A u \in Uid : FreshPod(u).phase = "Pending" /\ FreshPod(u).cst = <<>>
      BY DEF FreshPod
    <3>2. QED
      BY <1>1, <3>1
  <2>2. DOMAIN <<>> = {}
    OBVIOUS
  <2>3. \A u \in Uid : ~ \E i \in DOMAIN api[u].pod.cst : api[u].pod.cst[i].why = "unreachable"
    BY <2>1, <2>2
  <2>4. QED
    BY <2>1, <2>3 DEF shown
<1>3. asked = {}
  BY <1>1 DEF asked
<1>4. QED
  BY <1>2, <1>3 DEF Init, RemoteInit, Life!Init

(* Every behaviour of the provider, the poll, the doors and the controller, *)
(* restarts included, is a life of pods as PodLife promises it (knoc.go     *)
(* 132-330, remote.go 267-455, door.go 140-213).                            *)
THEOREM KnocImplementsPodLife ==
  Spec => ImplementsPodLife
<1>1. Init => Life!Init
  BY InitLife
<1>2. SafeInv /\ OwnInv /\ HonestInv /\ [Next]_vars => [Life!Next]_(Life!vars)
  BY StepLife DEF LifeStep
<1>3. QED
  BY <1>1, <1>2, SafeInvariant, OwnInvariant, HonestInvariant, PTL
     DEF Spec, ImplementsPodLife, Life!Spec

=============================================================================
