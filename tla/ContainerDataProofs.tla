-------------------------- MODULE ContainerDataProofs --------------------------
(***************************************************************************)
(* What holds of the volumes for any pods, names, objects and faults.      *)
(***************************************************************************)
EXTENDS ContainerData, SequenceTheorems, TLAPS

(* Sequences with equal ends of one length have those ends in common. *)
LEMMA SameEnds ==
  ASSUME NEW S, NEW s \in Seq(S), NEW t \in Seq(S), NEW a \in Seq(S), NEW b \in Seq(S),
         Len(a) = Len(b), s \o a = t \o b
  PROVE  a = b
<1>1. /\ Len(s \o a) = Len(s) + Len(a) /\ Len(t \o b) = Len(t) + Len(b)
      /\ Len(s) \in Nat /\ Len(t) \in Nat /\ Len(a) \in Nat
  BY ConcatProperties, LenProperties
<1>2. Len(s) = Len(t)
  BY <1>1
<1>3. ASSUME NEW i \in 1..Len(a) PROVE a[i] = b[i]
  <2>1. /\ Len(s) + i \in 1..Len(s) + Len(a) /\ ~(Len(s) + i <= Len(s))
        /\ (Len(s) + i) - Len(s) = i
    BY <1>1, <1>3
  <2>2. (s \o a)[Len(s) + i] = a[i]
    BY <2>1, ConcatProperties
  <2>3. (t \o b)[Len(s) + i] = b[i]
    BY <1>2, <2>1, ConcatProperties
  <2>4. QED
    BY <2>2, <2>3
<1>4. QED
  BY <1>3, SeqEqual

(* The uid is the end of a pod's remote name, so that no two pods, whatever *)
(* their namespaces, share it.                                              *)
LEMMA PodNamesDiffer ==
  \A u, w \in Uid :
    BuildRemoteExecutionPodName(u) = BuildRemoteExecutionPodName(w) => u = w
<1> SUFFICES ASSUME NEW u \in Uid, NEW w \in Uid,
                    NamespaceOf[u] \o UidOf[u] = NamespaceOf[w] \o UidOf[w]
             PROVE  u = w
  BY DEF BuildRemoteExecutionPodName
<1>1. /\ NamespaceOf[u] \in Seq(Word) /\ NamespaceOf[w] \in Seq(Word)
      /\ UidOf[u] \in Seq(Word) /\ UidOf[w] \in Seq(Word)
      /\ Len(UidOf[u]) = Len(UidOf[w])
  BY ContainerDataAssumption
<1>2. UidOf[u] = UidOf[w]
  BY <1>1, SameEnds
<1>3. QED
  BY <1>2, ContainerDataAssumption

LEMMA FilesStayOwn == FilesAreOwn /\ [Next]_dataVars => FilesAreOwn'
<1> SUFFICES ASSUME FilesAreOwn, [Next]_dataVars PROVE FilesAreOwn'
  OBVIOUS
<1>1. CASE files' \subseteq files
  BY <1>1 DEF FilesAreOwn
<1>2. CASE \E u \in Uid : UploadData(u)
  <2>1. PICK u \in Uid : UploadData(u)
    BY <1>2
  <2> DEFINE v == Volumes(u)[work[u].mount]
             d == DirOf(u, v)
             o == ObjectOf(u, v)
             file(f, n) == [dir |-> d, file |-> f, from |-> o, ver |-> n]
             others(f) == {x \in files : x.dir # d \/ x.file # f}
  <2>2. \E f, n : files' \in {files, others(f) \cup {file(f, n)}}
    BY <2>1 DEF UploadData
  <2>3. \A x \in files' : x \in files \/ (x.dir = d /\ x.from = o)
    <3> HIDE DEF v, d, o
    <3>1. PICK f, n : files' \in {files, others(f) \cup {file(f, n)}}
      BY <2>2
    <3> DEFINE g == file(f, n)
               r == others(f)
    <3>2. r \subseteq files /\ g.dir = d /\ g.from = o
      OBVIOUS
    <3>3. files' = files \/ files' = r \cup {g}
      BY <3>1
    <3> HIDE DEF g, r
    <3>4. QED
      BY <3>2, <3>3
  <2> USE DEF d, o
  <2> HIDE DEF v
  <2>4. ASSUME NEW w \in Uid, NEW z \in Volume, DirOf(u, v) = DirOf(w, z)
        PROVE  ObjectOf(u, v) = ObjectOf(w, z)
    <3>1. BuildRemoteExecutionPodName(u) = BuildRemoteExecutionPodName(w) /\ v = z
      BY <2>4 DEF DirOf
    <3>2. QED
      BY <3>1, PodNamesDiffer
  <2>5. QED
    BY <2>3, <2>4 DEF FilesAreOwn
<1>3. [Next]_dataVars => files' = files \/ \E u \in Uid : UploadData(u)
  BY DEF Next, dataVars, ObjectChanges, PrepareVolume, StartDoor, Unreached, Restart
<1>4. QED
  BY <1>1, <1>2, <1>3

(* Over all pods, users, faults and restarts, a file in a volume of a pod   *)
(* is from the object this volume of this pod names (remote.go 200-241).    *)
THEOREM FilesAreOwnHolds == Spec => []FilesAreOwn
<1>1. Init => FilesAreOwn
  BY DEF Init, FilesAreOwn
<1>2. FilesAreOwn /\ [Next]_dataVars => FilesAreOwn'
  BY FilesStayOwn
<1>3. QED
  BY <1>1, <1>2, PTL DEF Spec

-----------------------------------------------------------------------------
(* DataInv. The places a pod may be at. *)

LEMMA PlaceFacts ==
  ASSUME NEW w \in Place
  PROVE  /\ w.ctr \in Nat /\ w.mount \in Nat /\ w.ver \in Nat
         /\ NextContainer(w) \in Place
         /\ NextContainer(w).ctr = w.ctr + 1 /\ NextContainer(w).mount = 1
         /\ NextContainer(w).ver = 0 /\ NextContainer(w).todo = {}
         /\ NextMount(w) \in Place
         /\ NextMount(w).ctr = w.ctr /\ NextMount(w).mount = w.mount + 1
         /\ NextMount(w).ver = 0 /\ NextMount(w).todo = {}
<1>1. /\ w.ctr \in Nat /\ w.mount \in Nat /\ w.ver \in Nat
      /\ w.ctr + 1 \in Nat /\ w.mount + 1 \in Nat /\ 0 \in 0..MaxChange
  BY ContainerDataAssumption DEF Place
<1>2. NextContainer(w) = [ctr |-> w.ctr + 1, mount |-> 1, ver |-> 0, todo |-> {}]
  BY DEF NextContainer, Start
<1>3. NextMount(w) = [ctr |-> w.ctr, mount |-> w.mount + 1, ver |-> 0, todo |-> {}]
  <2> DEFINE m == w.mount + 1
             none == {}
  <2>1. NextMount(w) = [w EXCEPT !.mount = m, !.ver = 0, !.todo = none]
    BY DEF NextMount
  <2> HIDE DEF m, none
  <2>2. NextMount(w) = [ctr |-> w.ctr, mount |-> m, ver |-> 0, todo |-> none]
    BY <2>1 DEF Place
  <2>3. QED
    BY <2>2 DEF m, none
<1>4. QED
  BY <1>1, <1>2, <1>3 DEF Place

LEMMA StartIsPlace == /\ Start \in Place
                      /\ Start.mount = 1 /\ Start.ver = 0 /\ Start.todo = {}
BY ContainerDataAssumption DEF Place, Start

LEMMA MountFacts ==
  ASSUME NEW u \in Uid, NEW n \in DOMAIN ContainersOf[u]
  PROVE  /\ ContainersOf[u][n] \in Container
         /\ Mounts[ContainersOf[u][n]] \in Seq(Volume)
         /\ Len(Mounts[ContainersOf[u][n]]) \in Nat
         /\ DOMAIN Mounts[ContainersOf[u][n]] = 1..Len(Mounts[ContainersOf[u][n]])
BY ContainerDataAssumption, LenProperties, ElementOfSeq

(* At the first mount of a container nothing is prepared yet. *)
LEMMA FirstMountFits ==
  ASSUME NEW u \in Uid, NEW w, w.mount = 1, w.ver = 0, w.todo = {},
         NEW ds, NEW fs, NEW objects, NEW n
  PROVE  MayBeAt(u, w, ds, fs, objects, n)
<1>1. ASSUME w.ctr \in DOMAIN ContainersOf[u]
      PROVE  /\ w.mount \in 1..Len(Mounts[ContainersOf[u][w.ctr]]) + 1
             /\ \A m \in DOMAIN Mounts[ContainersOf[u][w.ctr]] : ~(m < w.mount)
  <2> DEFINE mounts == Mounts[ContainersOf[u][w.ctr]]
  <2>1. Len(mounts) \in Nat /\ DOMAIN mounts = 1..Len(mounts)
    BY <1>1, MountFacts
  <2> HIDE DEF mounts
  <2>2. w.mount \in 1..Len(mounts) + 1 /\ \A m \in DOMAIN mounts : ~(m < w.mount)
    BY <2>1
  <2>3. QED
    BY <2>2 DEF mounts
<1>2. QED
  BY <1>1 DEF MayBeAt

(* More directories, and files in directories of other pods, change nothing. *)
LEMMA StillFits ==
  ASSUME NEW u, NEW w, NEW ds, NEW fs, NEW objects, NEW n,
         NEW ds2, NEW fs2, ds \subseteq ds2,
         \A x \in fs2 : x \in fs \/ \A v : x.dir # DirOf(u, v),
         MayBeAt(u, w, ds, fs, objects, n)
  PROVE  MayBeAt(u, w, ds2, fs2, objects, n)
<1>1. ASSUME NEW v, MayUpload(u, v, w.ver, ds, fs, objects, n)
      PROVE  MayUpload(u, v, w.ver, ds2, fs2, objects, n)
  BY <1>1 DEF MayUpload
<1>2. QED
  BY <1>1 DEF MayBeAt

(* The mount the pod is at is prepared, and it goes on to the next. *)
LEMMA NextMountFits ==
  ASSUME NEW u \in Uid, NEW w \in Place, NEW ds, NEW fs, NEW objects, NEW n,
         w.ctr \in DOMAIN ContainersOf[u],
         w.mount \in DOMAIN Mounts[ContainersOf[u][w.ctr]],
         LET v == Mounts[ContainersOf[u][w.ctr]][w.mount] IN
           Supported(u, v) => DirOf(u, v) \in ds,
         MayBeAt(u, w, ds, fs, objects, n)
  PROVE  MayBeAt(u, NextMount(w), ds, fs, objects, n)
<1> DEFINE mounts == Mounts[ContainersOf[u][w.ctr]]
           r == NextMount(w)
<1>1. /\ Len(mounts) \in Nat /\ DOMAIN mounts = 1..Len(mounts)
      /\ w.mount \in DOMAIN mounts
      /\ Supported(u, mounts[w.mount]) => DirOf(u, mounts[w.mount]) \in ds
      /\ \A m \in DOMAIN mounts :
           m < w.mount /\ Supported(u, mounts[m]) => DirOf(u, mounts[m]) \in ds
  BY MountFacts DEF MayBeAt
<1>2. r.ctr = w.ctr /\ r.mount = w.mount + 1 /\ r.ver = 0 /\ r.todo = {}
  BY PlaceFacts
<1> HIDE DEF r
<1>3. Mounts[ContainersOf[u][r.ctr]] = mounts
  BY <1>2
<1> HIDE DEF mounts
<1>4. /\ r.mount \in 1..Len(mounts) + 1
      /\ \A m \in DOMAIN mounts : m < r.mount => m < w.mount \/ m = w.mount
  BY <1>1, <1>2
<1>5. \A m \in DOMAIN mounts :
        m < r.mount /\ Supported(u, mounts[m]) => DirOf(u, mounts[m]) \in ds
  BY <1>1, <1>4
<1>6. QED
  BY <1>2, <1>3, <1>4, <1>5 DEF MayBeAt, r

(* One pod goes on, and the others stay where they are. *)
LEMMA OneMoves ==
  ASSUME TypeOK, PlacesFit, NEW u \in Uid, NEW w \in Place, Proceed(u, w),
         dirs \subseteq dirs', UNCHANGED <<lister, changes>>,
         \A x \in files' : x \in files \/ \E v : x.dir = DirOf(u, v),
         MayBeAt(u, w, dirs', files', lister, changes)
  PROVE  work' \in [Uid -> Place] /\ PlacesFit'
<1>1. \A z \in Uid : work'[z] = IF z = u THEN w ELSE work[z]
  BY DEF TypeOK, Proceed
<1>2. ASSUME NEW z \in Uid, z # u PROVE \A v, y : DirOf(u, v) # DirOf(z, y)
  BY <1>2, PodNamesDiffer DEF DirOf
<1>3. ASSUME NEW z \in Uid
      PROVE  MayBeAt(z, work'[z], dirs', files', lister, changes)
  <2>1. CASE z = u
    BY <1>1, <2>1
  <2>2. CASE z # u
    <3>1. MayBeAt(z, work[z], dirs, files, lister, changes)
      BY DEF PlacesFit
    <3>2. \A x \in files' : x \in files \/ \A v : x.dir # DirOf(z, v)
      BY <1>2, <2>2
    <3>3. QED
      BY <1>1, <2>2, <3>1, <3>2, StillFits
  <2>3. QED
    BY <2>1, <2>2
<1>4. work' \in [Uid -> Place]
  BY DEF TypeOK, Proceed
<1>5. QED
  BY <1>3, <1>4 DEF PlacesFit

LEMMA PlacesInRange ==
  ASSUME PlacesFit'
  PROVE  \A u \in Uid : AtWork(u)' => work'[u].mount \in 1..Len(Volumes(u)') + 1
BY DEF PlacesFit, MayBeAt, AtWork, Volumes, Current

(* The steps. *)

LEMMA MoveKeeps ==
  ASSUME DataInv, NEW u \in Uid, NEW w \in Place, Proceed(u, w),
         dirs \subseteq dirs', UNCHANGED <<lister, changes>>,
         dirs' \subseteq {DirOf(z, v) : z \in Uid, v \in Volume},
         \A x \in files' : x \in files \/ \E v : x.dir = DirOf(u, v),
         \A x \in files' : x \in files \/ (x.dir \in dirs /\ x.ver \in 0..changes),
         launched' \subseteq Container,
         MayBeAt(u, w, dirs', files', lister, changes)
  PROVE  TypeOK' /\ ObjectsCounted' /\ PlacesFit'
<1>1. TypeOK /\ PlacesFit /\ ObjectsCounted
  BY DEF DataInv
<1>2. work' \in [Uid -> Place] /\ PlacesFit'
  BY <1>1, OneMoves
<1>3. \A z \in Uid : AtWork(z)' => work'[z].mount \in 1..Len(Volumes(z)') + 1
  BY <1>2, PlacesInRange
<1>4. \A x \in files' : x.dir \in dirs' /\ x.ver \in 0..changes'
  BY <1>1 DEF TypeOK
<1>5. TypeOK'
  BY <1>1, <1>2, <1>3, <1>4 DEF TypeOK
<1>6. ObjectsCounted'
  BY <1>1 DEF ObjectsCounted
<1>7. QED
  BY <1>2, <1>5, <1>6

LEMMA FilesKept ==
  ASSUME DataInv, UNCHANGED <<files, lister>>
  PROVE  FilesUnique' /\ FilesBehind'
BY DEF DataInv, FilesUnique, FilesBehind

LEMMA StartedKept ==
  ASSUME DataInv, UNCHANGED launched, dirs \subseteq dirs'
  PROVE  StartedPrepared'
BY DEF DataInv, StartedPrepared

LEMMA ObjectKeeps ==
  ASSUME DataInv, NEW x \in Objects, ObjectChanges(x)
  PROVE  /\ TypeOK' /\ ObjectsCounted' /\ PlacesFit' /\ StartedPrepared'
         /\ FilesUnique' /\ FilesBehind'
<1>1. /\ TypeOK /\ ObjectsCounted /\ PlacesFit /\ FilesUnique /\ FilesBehind
      /\ changes' = changes + 1 /\ changes \in Nat /\ changes' \in 1..MaxChange
      /\ UNCHANGED <<dirs, files, work, launched>>
  BY ContainerDataAssumption DEF DataInv, TypeOK, ObjectChanges
<1>2. PICK data \in Data \cup {None} :
        /\ lister' = [lister EXCEPT ![x] = data]
        /\ data # None => data.ver = changes + 1
  <2>1. CASE \E keys \in SUBSET File :
               lister' = [lister EXCEPT ![x] = [ver |-> changes + 1, keys |-> keys]]
    <3>1. PICK keys \in SUBSET File :
            lister' = [lister EXCEPT ![x] = [ver |-> changes + 1, keys |-> keys]]
      BY <2>1
    <3> DEFINE data == [ver |-> changes + 1, keys |-> keys]
    <3>2. data \in Data /\ data.ver = changes + 1
      BY <1>1 DEF Data
    <3>3. lister' = [lister EXCEPT ![x] = data]
      BY <3>1
    <3> HIDE DEF data
    <3>4. QED
      BY <3>2, <3>3
  <2>2. CASE lister' = [lister EXCEPT ![x] = None]
    BY <2>2
  <2>3. QED
    BY <2>1, <2>2 DEF ObjectChanges
<1>3. \A y \in Objects : lister'[y] = IF y = x THEN data ELSE lister[y]
  BY <1>1, <1>2 DEF TypeOK
<1>4. \A y \in Objects : lister[y] # None => lister[y].ver \in Nat /\ lister[y].ver <= changes
  BY <1>1 DEF TypeOK, ObjectsCounted, Data
<1>5. ObjectsCounted'
  BY <1>1, <1>2, <1>3, <1>4 DEF ObjectsCounted
<1>6. PlacesFit'
  <2>1. ASSUME NEW u \in Uid, NEW v, NEW ver \in Nat,
               MayUpload(u, v, ver, dirs, files, lister, changes)
        PROVE  MayUpload(u, v, ver, dirs, files, lister', changes')
    BY <1>1, <1>2, <1>3, <2>1 DEF MayUpload
  <2>2. ASSUME NEW u \in Uid
        PROVE  MayBeAt(u, work[u], dirs, files, lister', changes')
    <3>1. MayBeAt(u, work[u], dirs, files, lister, changes) /\ work[u].ver \in Nat
      BY <1>1, PlaceFacts DEF PlacesFit, TypeOK
    <3>2. QED
      BY <2>1, <3>1 DEF MayBeAt
  <2>3. QED
    BY <1>1, <2>2 DEF PlacesFit
<1>7. FilesBehind'
  <2> SUFFICES ASSUME NEW y \in files
               PROVE  /\ y.from \in Objects
                      /\ lister'[y.from] # None => y.ver <= lister'[y.from].ver
    BY <1>1 DEF FilesBehind
  <2>1. /\ y.from \in Objects /\ y.ver \in 0..changes
        /\ lister[y.from] # None => y.ver <= lister[y.from].ver
    BY <1>1 DEF FilesBehind, TypeOK
  <2>2. QED
    BY <1>1, <1>2, <1>3, <2>1
<1>8. TypeOK'
  <2>1. lister' \in [Objects -> Data \cup {None}]
    BY <1>1, <1>2 DEF TypeOK
  <2>2. \A y \in files : y.dir \in dirs /\ y.ver \in 0..changes'
    BY <1>1 DEF TypeOK
  <2>3. \A u \in Uid : AtWork(u)' => work'[u].mount \in 1..Len(Volumes(u)') + 1
    BY <1>6, PlacesInRange
  <2>4. QED
    BY <1>1, <2>1, <2>2, <2>3 DEF TypeOK
<1>9. QED
  BY <1>1, <1>5, <1>6, <1>7, <1>8, StartedKept DEF FilesUnique

(* A volume is looked at. *)
LEMMA PrepareKeeps ==
  ASSUME DataInv, NEW u \in Uid, PrepareVolume(u)
  PROVE  /\ TypeOK' /\ ObjectsCounted' /\ PlacesFit' /\ StartedPrepared'
         /\ FilesUnique' /\ FilesBehind'
<1> DEFINE w == work[u]
           mounts == Mounts[ContainersOf[u][w.ctr]]
           v == mounts[w.mount]
<1>1. /\ w \in Place /\ w.ctr \in DOMAIN ContainersOf[u]
      /\ w.mount \in DOMAIN mounts /\ v \in Volume
      /\ PassOver(u, v) \/ MakeEmptyDir(u, v) \/ Refuse(u, v) \/ ReadObject(u, v)
      /\ UNCHANGED <<lister, changes, files, launched>>
      /\ MayBeAt(u, w, dirs, files, lister, changes)
      /\ w.ver = 0
  <2>1. /\ w \in Place /\ w.ctr \in DOMAIN ContainersOf[u] /\ w.ver = 0
        /\ MayBeAt(u, w, dirs, files, lister, changes)
        /\ w.mount <= Len(mounts)
    BY DEF DataInv, TypeOK, PlacesFit, PrepareVolume, AtWork, Volumes, Current
  <2>2. w.mount \in DOMAIN mounts
    <3> DEFINE n == Len(mounts)
    <3>1. n \in Nat /\ DOMAIN mounts = 1..n /\ w.mount \in 1..n + 1 /\ w.mount <= n
      BY <2>1, MountFacts DEF MayBeAt
    <3> HIDE DEF n, mounts
    <3>2. QED
      BY <3>1
  <2>3. v \in Volume
    BY <2>1, <2>2, MountFacts, ElementOfSeq
  <2>4. QED
    BY <2>1, <2>2, <2>3 DEF PrepareVolume, AtWork, Volumes, Current
<1>2. /\ dirs \subseteq {DirOf(z, y) : z \in Uid, y \in Volume} /\ launched \subseteq Container
      /\ DirOf(u, v) \in {DirOf(z, y) : z \in Uid, y \in Volume}
  <2>1. /\ dirs \subseteq {DirOf(z, y) : z \in Uid, y \in Volume}
        /\ launched \subseteq Container
    BY DEF DataInv, TypeOK
  <2>2. v \in Volume
    BY <1>1
  <2> HIDE DEF w, mounts, v
  <2>3. DirOf(u, v) \in {DirOf(z, y) : z \in Uid, y \in Volume}
    BY <2>2
  <2>4. QED
    BY <2>1, <2>3
<1>3. ASSUME NEW q \in Place, Proceed(u, q), dirs' \in {dirs, dirs \cup {DirOf(u, v)}},
             MayBeAt(u, q, dirs', files, lister, changes)
      PROVE  /\ TypeOK' /\ ObjectsCounted' /\ PlacesFit' /\ StartedPrepared'
             /\ FilesUnique' /\ FilesBehind'
  <2> HIDE DEF w, mounts, v
  <2>1. /\ dirs \subseteq dirs' /\ dirs' \subseteq {DirOf(z, y) : z \in Uid, y \in Volume}
        /\ launched' \subseteq Container /\ files' = files
    BY <1>1, <1>2, <1>3
  <2>2. TypeOK' /\ ObjectsCounted' /\ PlacesFit'
    <3>1. MayBeAt(u, q, dirs', files', lister, changes)
      BY <1>3, <2>1
    <3>2. UNCHANGED <<lister, changes>>
      BY <1>1
    <3>3. Proceed(u, q)
      BY <1>3
    <3>4. QED
      BY <2>1, <3>1, <3>2, <3>3, MoveKeeps
  <2>3. QED
    BY <1>1, <2>1, <2>2, FilesKept, StartedKept
<1>4. dirs' \in {dirs, dirs \cup {DirOf(u, v)}}
  BY <1>1 DEF PassOver, MakeEmptyDir, Refuse, ReadObject
<1>5. MayBeAt(u, w, dirs', files, lister, changes)
  BY <1>1, <1>4, StillFits
<1>6. ASSUME Supported(u, v) => DirOf(u, v) \in dirs'
      PROVE  NextMount(w) \in Place /\ MayBeAt(u, NextMount(w), dirs', files, lister, changes)
  BY <1>1, <1>5, <1>6, NextMountFits, PlaceFacts
<1>7. NextContainer(w) \in Place /\ MayBeAt(u, NextContainer(w), dirs', files, lister, changes)
  BY <1>1, PlaceFacts, FirstMountFits
<1>8. CASE PassOver(u, v)
  BY <1>3, <1>4, <1>6, <1>8 DEF PassOver, Supported
<1>9. CASE MakeEmptyDir(u, v)
  BY <1>3, <1>4, <1>6, <1>9 DEF MakeEmptyDir
<1>10. CASE Refuse(u, v)
  BY <1>3, <1>4, <1>7, <1>10 DEF Refuse
<1>11. CASE ReadObject(u, v)
  <2> DEFINE o == ObjectOf(u, v)
             data == lister[o]
             q == [w EXCEPT !.ver = data.ver, !.todo = data.keys]
  <2>1. DirOf(u, v) \in dirs' /\ data # None /\ Source[u][v].kind = "object"
    BY <1>11 DEF ReadObject
  <2>2. o \in Objects
    BY <1>1, <2>1, ContainerDataAssumption DEF ObjectOf, Objects
  <2>3. /\ data \in Data /\ data.ver \in 1..MaxChange /\ data.keys \in SUBSET File
        /\ data.ver <= changes /\ data.ver \in Nat
    <3> HIDE DEF w, mounts, v, o
    <3>1. data \in Data \cup {None} /\ data.ver <= changes
      BY <2>1, <2>2 DEF DataInv, TypeOK, ObjectsCounted
    <3> HIDE DEF data
    <3>2. QED
      BY <2>1, <3>1, ContainerDataAssumption DEF Data
  <2>4. CASE data.keys = {}
    BY <1>3, <1>4, <1>6, <1>11, <2>1, <2>4 DEF ReadObject
  <2>5. CASE data.keys # {}
    <3>1. Proceed(u, q)
      BY <1>11, <2>5 DEF ReadObject
    <3>2. /\ q.ctr = w.ctr /\ q.mount = w.mount /\ q.ver = data.ver /\ q.todo = data.keys
          /\ q \in Place
      <4> HIDE DEF data
      <4>1. data.ver \in 0..MaxChange
        BY <2>3, ContainerDataAssumption
      <4>2. QED
        BY <1>1, <2>3, <4>1 DEF Place
    <3>3. MayUpload(u, v, data.ver, dirs', files, lister, changes)
      <4> SUFFICES ASSUME NEW x \in files, x.dir = DirOf(u, v)
                   PROVE  x.ver <= data.ver
        <5> HIDE DEF w, mounts, v, data
        <5>1. data.ver <= data.ver
          BY <2>3
        <5>2. lister[o] # None => data.ver <= lister[o].ver
          BY <5>1 DEF data
        <5>3. QED
          BY <2>1, <2>2, <2>3, <5>2 DEF MayUpload
      <4>1. x.from = o
        BY <1>1 DEF DataInv, FilesAreOwn
      <4>2. QED
        BY <2>1, <4>1 DEF DataInv, FilesBehind
    <3> HIDE DEF q, data
    <3>4. MayBeAt(u, q, dirs', files, lister, changes)
      <4>1. q.ver # 0 /\ q.todo # {}
        BY <2>3, <2>5, <3>2
      <4>2. QED
        BY <1>1, <1>5, <3>2, <3>3, <4>1 DEF MayBeAt
    <3>5. QED
      BY <1>3, <1>4, <3>1, <3>2, <3>4
  <2>6. QED
    BY <2>4, <2>5
<1>12. QED
  BY <1>1, <1>8, <1>9, <1>10, <1>11

(* A file is uploaded, or fails to be, into the volume the pod is at. *)
Writes(u, w, v, f, n, g) ==
  /\ f \in w.todo /\ n \in {0, w.ver}
  /\ g.dir = DirOf(u, v) /\ g.file = f /\ g.from = ObjectOf(u, v) /\ g.ver = n
  /\ files' \in {files, {x \in files : x.dir # DirOf(u, v) \/ x.file # f} \cup {g}}
  /\ Proceed(u, IF w.todo = {f} THEN NextMount(w) ELSE [w EXCEPT !.todo = w.todo \ {f}])

LEMMA UploadWrites ==
  ASSUME DataInv, NEW u \in Uid, UploadData(u)
  PROVE  \E f, n, g :
           Writes(u, work[u], Mounts[ContainersOf[u][work[u].ctr]][work[u].mount], f, n, g)
<1> DEFINE w == work[u]
           v == Volumes(u)[w.mount]
           d == DirOf(u, v)
           o == ObjectOf(u, v)
           others(f) == {x \in files : x.dir # d \/ x.file # f}
           file(f, n) == [dir |-> d, file |-> f, from |-> o, ver |-> n]
<1>1. PICK f \in w.todo :
        /\ \/ files' = others(f) \cup {file(f, w.ver)}
           \/ files' \in {files, others(f) \cup {file(f, 0)}}
        /\ Proceed(u, IF w.todo = {f} THEN NextMount(w)
                      ELSE [w EXCEPT !.todo = w.todo \ {f}])
  BY DEF UploadData
<1>2. PICK n \in {0, w.ver} : files' \in {files, others(f) \cup {file(f, n)}}
  BY <1>1
<1> DEFINE g == file(f, n)
<1>3. g.dir = d /\ g.file = f /\ g.from = o /\ g.ver = n
  OBVIOUS
<1>4. files' \in {files, others(f) \cup {g}}
  BY <1>2
<1> HIDE DEF g
<1>5. Writes(u, w, v, f, n, g)
  <2> HIDE DEF w, v
  <2>1. QED
    BY <1>1, <1>2, <1>3, <1>4 DEF Writes
<1>6. v = Mounts[ContainersOf[u][w.ctr]][w.mount]
  BY DEF Volumes, Current
<1>7. QED
  BY <1>5, <1>6

LEMMA UploadKeeps ==
  ASSUME DataInv, NEW u \in Uid, UploadData(u)
  PROVE  /\ TypeOK' /\ ObjectsCounted' /\ PlacesFit' /\ StartedPrepared'
         /\ FilesUnique' /\ FilesBehind'
<1> DEFINE w == work[u]
           mounts == Mounts[ContainersOf[u][w.ctr]]
           v == mounts[w.mount]
           d == DirOf(u, v)
           o == ObjectOf(u, v)
<1>1. PICK f, n, g :
        /\ f \in w.todo /\ n \in {0, w.ver}
        /\ g.dir = d /\ g.file = f /\ g.from = o /\ g.ver = n
        /\ files' \in {files, {x \in files : x.dir # d \/ x.file # f} \cup {g}}
        /\ Proceed(u, IF w.todo = {f} THEN NextMount(w)
                      ELSE [w EXCEPT !.todo = w.todo \ {f}])
  BY UploadWrites DEF Writes
<1>2. /\ w \in Place /\ w.ver \in Nat /\ w.ver # 0 /\ w.ctr \in DOMAIN ContainersOf[u]
      /\ w.mount \in DOMAIN mounts
      /\ MayUpload(u, v, w.ver, dirs, files, lister, changes)
      /\ MayBeAt(u, w, dirs, files, lister, changes)
      /\ UNCHANGED <<lister, changes, dirs, launched>>
  <2>1. /\ w \in Place /\ w.ctr \in DOMAIN ContainersOf[u]
        /\ MayBeAt(u, w, dirs, files, lister, changes)
        /\ UNCHANGED <<lister, changes, dirs, launched>>
    BY DEF DataInv, TypeOK, PlacesFit, UploadData, AtWork
  <2>2. w.ver # 0 /\ w.ver \in Nat
    BY <1>1, <2>1, PlaceFacts DEF MayBeAt
  <2>3. QED
    BY <2>1, <2>2 DEF MayBeAt
<1>3. /\ dirs \subseteq {DirOf(z, y) : z \in Uid, y \in Volume} /\ launched \subseteq Container
      /\ d \in dirs /\ o \in Objects /\ w.ver <= changes /\ changes \in Nat
      /\ lister[o] # None => w.ver <= lister[o].ver /\ lister[o].ver \in Nat
      /\ \A x \in files : x.dir = d => x.ver <= w.ver
  <2>1. /\ dirs \subseteq {DirOf(z, y) : z \in Uid, y \in Volume} /\ launched \subseteq Container
        /\ changes \in Nat /\ lister \in [Objects -> Data \cup {None}]
    BY DEF DataInv, TypeOK
  <2>2. \A data \in Data : data.ver \in Nat
    BY ContainerDataAssumption DEF Data
  <2>3. /\ d \in dirs /\ o \in Objects /\ w.ver <= changes
        /\ lister[o] # None => w.ver <= lister[o].ver
        /\ \A x \in files : x.dir = d => x.ver <= w.ver
    BY <1>2 DEF MayUpload
  <2>4. lister[o] # None => lister[o].ver \in Nat
    <3> HIDE DEF o
    <3>1. QED
      BY <2>1, <2>2, <2>3
  <2> HIDE DEF w, mounts, v, d, o
  <2>5. QED
    BY <2>1, <2>3, <2>4
<1>4. \A x \in files : x.ver \in Nat /\ x.ver <= changes
  <2> HIDE DEF w, mounts, v, d, o
  <2>1. changes \in Nat
    BY <1>3
  <2>2. \A x \in files : x.ver \in 0..changes
    BY DEF DataInv, TypeOK
  <2>3. QED
    BY <2>1, <2>2
<1> HIDE DEF w, mounts, v, d, o
<1>5. n \in Nat /\ n <= w.ver
  BY <1>1, <1>2
<1>6. \A x \in files' : x \in files \/ x = g
  BY <1>1
<1>7. FilesUnique'
  <2>1. FilesUnique
    BY DEF DataInv
  <2>2. CASE files' = files
    BY <2>1, <2>2 DEF FilesUnique
  <2>3. CASE files' = {x \in files : x.dir # d \/ x.file # f} \cup {g}
    BY <1>1, <2>1, <2>3 DEF FilesUnique
  <2>4. QED
    BY <1>1, <2>2, <2>3
<1>8. FilesBehind'
  <2>1. FilesBehind
    BY DEF DataInv
  <2>2. g.from \in Objects /\ (lister[g.from] # None => g.ver <= lister[g.from].ver)
    BY <1>1, <1>2, <1>3, <1>5
  <2>3. QED
    BY <1>2, <1>6, <2>1, <2>2 DEF FilesBehind
<1>9. MayUpload(u, v, w.ver, dirs, files', lister, changes)
  <2>1. \A x \in files' : x.dir = d => x.ver <= w.ver
    BY <1>1, <1>3, <1>5, <1>6
  <2>2. QED
    BY <1>2, <2>1 DEF MayUpload, d
<1>10. MayBeAt(u, w, dirs, files', lister, changes)
  BY <1>2, <1>9 DEF MayBeAt, mounts, v
<1>11. PICK q \in Place : Proceed(u, q) /\ MayBeAt(u, q, dirs, files', lister, changes)
  <2>1. CASE w.todo = {f}
    <3>1. NextMount(w) \in Place /\ Proceed(u, NextMount(w))
      BY <1>1, <1>2, <2>1, PlaceFacts
    <3>2. MayBeAt(u, NextMount(w), dirs, files', lister, changes)
      <4>1. /\ w \in Place /\ w.ctr \in DOMAIN ContainersOf[u]
            /\ w.mount \in DOMAIN Mounts[ContainersOf[u][w.ctr]]
        BY <1>2 DEF mounts
      <4>2. LET y == Mounts[ContainersOf[u][w.ctr]][w.mount] IN
              Supported(u, y) => DirOf(u, y) \in dirs
        BY <1>2, <1>3 DEF mounts, v, d
      <4>3. QED
        BY <1>10, <4>1, <4>2, NextMountFits
    <3>3. QED
      BY <3>1, <3>2
  <2>2. CASE w.todo # {f}
    <3> DEFINE rest == w.todo \ {f}
               q == [w EXCEPT !.todo = rest]
    <3>1. rest \in SUBSET File /\ rest # {} /\ w.todo # {}
      BY <1>1, <1>2, <2>2 DEF Place
    <3>2. Proceed(u, q)
      BY <1>1, <2>2
    <3> HIDE DEF rest
    <3>3. /\ q \in Place /\ q.ctr = w.ctr /\ q.mount = w.mount /\ q.ver = w.ver
          /\ q.todo = rest
      BY <1>2, <3>1 DEF Place
    <3> HIDE DEF q
    <3>4. MayBeAt(u, q, dirs, files', lister, changes)
      BY <1>10, <3>1, <3>3 DEF MayBeAt
    <3>5. QED
      BY <3>2, <3>3, <3>4
  <2>3. QED
    BY <2>1, <2>2
<1>12. TypeOK' /\ ObjectsCounted' /\ PlacesFit'
  <2>1. /\ dirs \subseteq dirs' /\ dirs' \subseteq {DirOf(z, y) : z \in Uid, y \in Volume}
        /\ launched' \subseteq Container /\ UNCHANGED <<lister, changes>>
    BY <1>2, <1>3
  <2>2. \A x \in files' : x \in files \/ \E y : x.dir = DirOf(u, y)
    BY <1>1, <1>6 DEF d
  <2>3. \A x \in files' : x \in files \/ (x.dir \in dirs /\ x.ver \in 0..changes)
    BY <1>1, <1>2, <1>3, <1>5, <1>6
  <2>4. MayBeAt(u, q, dirs', files', lister, changes)
    BY <1>2, <1>11
  <2>5. QED
    BY <1>11, <2>1, <2>2, <2>3, <2>4, MoveKeeps
<1>13. QED
  BY <1>2, <1>7, <1>8, <1>12, StartedKept

(* The door of the container is started, or the provider gives up on it. *)
LEMMA DoorKeeps ==
  ASSUME DataInv, NEW u \in Uid, StartDoor(u) \/ Unreached(u)
  PROVE  /\ TypeOK' /\ ObjectsCounted' /\ PlacesFit' /\ StartedPrepared'
         /\ FilesUnique' /\ FilesBehind'
<1> DEFINE w == work[u]
           c == ContainersOf[u][w.ctr]
           q == NextContainer(w)
<1>1. /\ w \in Place /\ w.ctr \in DOMAIN ContainersOf[u] /\ c \in Container
      /\ MayBeAt(u, w, dirs, files, lister, changes)
      /\ Proceed(u, q) /\ UNCHANGED <<lister, changes, dirs, files>>
      /\ launched' \subseteq launched \cup {c}
  <2>1. w \in Place /\ MayBeAt(u, w, dirs, files, lister, changes)
    BY DEF DataInv, TypeOK, PlacesFit
  <2>2. /\ w.ctr \in DOMAIN ContainersOf[u]
        /\ Proceed(u, q) /\ UNCHANGED <<lister, changes, dirs, files>>
        /\ launched' \subseteq launched \cup {c}
    BY DEF StartDoor, Unreached, AtWork, Current
  <2>3. QED
    BY <2>1, <2>2, MountFacts
<1>2. q \in Place /\ MayBeAt(u, q, dirs', files', lister, changes)
  BY <1>1, PlaceFacts, FirstMountFits
<1>3. TypeOK' /\ ObjectsCounted' /\ PlacesFit'
  <2> HIDE DEF w, c, q
  <2>1. /\ dirs \subseteq dirs' /\ dirs' \subseteq {DirOf(z, y) : z \in Uid, y \in Volume}
        /\ launched' \subseteq Container /\ UNCHANGED <<lister, changes>> /\ files' = files
    BY <1>1 DEF DataInv, TypeOK
  <2>2. QED
    BY <1>1, <1>2, <2>1, MoveKeeps
<1>4. StartedPrepared'
  <2>1. CASE Unreached(u)
    BY <2>1, StartedKept DEF Unreached
  <2>2. CASE StartDoor(u)
    <3>1. \A m \in DOMAIN Mounts[c] :
            Supported(u, Mounts[c][m]) => DirOf(u, Mounts[c][m]) \in dirs
      <4> DEFINE n == Len(Mounts[c])
      <4>1. n \in Nat /\ DOMAIN Mounts[c] = 1..n /\ w.mount = n + 1
        BY <1>1, <2>2, MountFacts DEF StartDoor, Volumes, Current
      <4>2. \A m \in DOMAIN Mounts[c] :
              m < w.mount /\ Supported(u, Mounts[c][m]) => DirOf(u, Mounts[c][m]) \in dirs
        BY <1>1 DEF MayBeAt
      <4> HIDE DEF n
      <4>3. \A m \in DOMAIN Mounts[c] : m < w.mount
        BY <4>1
      <4>4. QED
        BY <4>2, <4>3
    <3>2. ASSUME NEW z \in Uid, NEW i \in DOMAIN ContainersOf[z], ContainersOf[z][i] = c
          PROVE  z = u
      BY <1>1, <3>2, ContainerDataAssumption
    <3>3. StartedPrepared
      BY DEF DataInv
    <3> HIDE DEF c
    <3>4. QED
      BY <1>1, <3>1, <3>2, <3>3 DEF StartedPrepared
  <2>3. QED
    BY <2>1, <2>2
<1>5. QED
  BY <1>1, <1>3, <1>4, FilesKept

LEMMA RestartKeeps ==
  ASSUME DataInv, Restart
  PROVE  /\ TypeOK' /\ ObjectsCounted' /\ PlacesFit' /\ StartedPrepared'
         /\ FilesUnique' /\ FilesBehind'
<1>1. /\ work' = [u \in Uid |-> Start]
      /\ UNCHANGED <<lister, changes, dirs, files, launched>>
  BY DEF Restart
<1>2. PlacesFit'
  BY <1>1, StartIsPlace, FirstMountFits DEF PlacesFit
<1>3. \A z \in Uid : AtWork(z)' => work'[z].mount \in 1..Len(Volumes(z)') + 1
  BY <1>2, PlacesInRange
<1>4. work' \in [Uid -> Place]
  BY <1>1, StartIsPlace
<1>5. TypeOK'
  BY <1>1, <1>3, <1>4 DEF DataInv, TypeOK
<1>6. ObjectsCounted'
  BY <1>1 DEF DataInv, ObjectsCounted
<1>7. QED
  BY <1>1, <1>2, <1>5, <1>6, FilesKept, StartedKept

-----------------------------------------------------------------------------
LEMMA InitData == Init => DataInv
<1> SUFFICES ASSUME Init PROVE DataInv
  OBVIOUS
<1>1. PlacesFit
  BY StartIsPlace, FirstMountFits DEF Init, PlacesFit
<1>2. TypeOK
  <2>1. \A u \in Uid : AtWork(u) => work[u].mount \in 1..Len(Volumes(u)) + 1
    BY <1>1 DEF PlacesFit, MayBeAt, AtWork, Volumes, Current
  <2>2. QED
    BY <2>1, StartIsPlace, ContainerDataAssumption DEF Init, TypeOK
<1>3. QED
  BY <1>1, <1>2 DEF Init, DataInv, ObjectsCounted, StartedPrepared, FilesAreOwn,
     FilesUnique, FilesBehind

LEMMA StepData ==
  ASSUME DataInv, [Next]_dataVars
  PROVE  DataInv'
<1>1. FilesAreOwn'
  BY FilesStayOwn DEF DataInv
<1>2. /\ TypeOK' /\ ObjectsCounted' /\ PlacesFit' /\ StartedPrepared'
      /\ FilesUnique' /\ FilesBehind'
  <2>1. CASE UNCHANGED dataVars
    <3>1. UNCHANGED <<lister, changes, dirs, files, work, launched>>
      BY <2>1 DEF dataVars
    <3>2. PlacesFit'
      BY <3>1 DEF DataInv, PlacesFit
    <3>3. \A z \in Uid : AtWork(z)' => work'[z].mount \in 1..Len(Volumes(z)') + 1
      BY <3>2, PlacesInRange
    <3>4. TypeOK' /\ ObjectsCounted'
      BY <3>1, <3>3 DEF DataInv, TypeOK, ObjectsCounted
    <3>5. QED
      BY <3>1, <3>2, <3>4, FilesKept, StartedKept
  <2>2. QED
    BY <2>1, ObjectKeeps, PrepareKeeps, UploadKeeps, DoorKeeps, RestartKeeps DEF Next
<1>3. QED
  BY <1>1, <1>2 DEF DataInv

(* Over all pods, users, faults and restarts, the provider's places, the    *)
(* directories and the files fit together (remote.go 192-253).              *)
THEOREM DataInvariant == Spec => []DataInv
<1>1. Init => DataInv
  BY InitData
<1>2. DataInv /\ [Next]_dataVars => DataInv'
  BY StepData
<1>3. QED
  BY <1>1, <1>2, PTL DEF Spec

(* Every variable keeps its type.                                           *)
THEOREM DataTypesHold == Spec => []TypeOK
BY DataInvariant, PTL DEF DataInv

-----------------------------------------------------------------------------
LEMMA ConcatFacts ==
  ASSUME NEW S, NEW s \in Seq(S), NEW t \in Seq(S), NEW r, r = s \o t,
         NEW m, NEW n, m = Len(s), n = Len(t)
  PROVE  r \in Seq(S) /\ Len(r) = m + n /\ \A i \in 1..m : r[i] = s[i]
<1>1. /\ s \o t \in Seq(S) /\ Len(s \o t) = Len(s) + Len(t)
      /\ \A i \in 1..Len(s) + Len(t) : (s \o t)[i] = IF i <= Len(s) THEN s[i] ELSE t[i - Len(s)]
  BY ConcatProperties
<1>2. Len(s) \in Nat /\ Len(t) \in Nat
  BY LenProperties
<1>3. \A i \in 1..Len(s) : (s \o t)[i] = s[i]
  BY <1>1, <1>2
<1>4. QED
  BY <1>1, <1>3

(* A name whose namespace is one word: the first six words are the pod's. *)
LEMMA FirstSixWords ==
  ASSUME NEW u \in Uid, NEW c \in Container, Len(NamespaceOf[u]) = 1
  PROVE  SubSeq(BuildRemoteExecutionInstanceName(u, c), 1, 6) = BuildRemoteExecutionPodName(u)
<1> DEFINE pod == BuildRemoteExecutionPodName(u)
           name == BuildRemoteExecutionInstanceName(u, c)
           image == ImageOf[c]
           n == Len(image)
<1>1. /\ NamespaceOf[u] \in Seq(Word) /\ UidOf[u] \in Seq(Word) /\ Len(UidOf[u]) = 5
      /\ image \in Seq(Word) /\ n \in Nat
  BY ContainerDataAssumption, LenProperties
<1>2. pod = NamespaceOf[u] \o UidOf[u] /\ name = pod \o image
  BY DEF BuildRemoteExecutionPodName, BuildRemoteExecutionInstanceName
<1>3. n = Len(image)
  OBVIOUS
<1> HIDE DEF pod, name, image, n
<1>4. pod \in Seq(Word) /\ Len(pod) = 6
  <2> DEFINE namespace == NamespaceOf[u]
             uid == UidOf[u]
             one == 1
             five == 5
  <2>1. /\ namespace \in Seq(Word) /\ uid \in Seq(Word) /\ pod = namespace \o uid
        /\ one = Len(namespace) /\ five = Len(uid)
    BY <1>1, <1>2
  <2> HIDE DEF namespace, uid, one, five
  <2>2. pod \in Seq(Word) /\ Len(pod) = one + five
    BY <2>1, ConcatFacts
  <2>3. QED
    BY <2>2 DEF one, five
<1>5. /\ name \in Seq(Word) /\ \A i \in 1..6 : name[i] = pod[i]
  <2> DEFINE six == 6
  <2>1. /\ pod \in Seq(Word) /\ image \in Seq(Word) /\ name = pod \o image
        /\ six = Len(pod) /\ n = Len(image)
    BY <1>1, <1>2, <1>3, <1>4
  <2> HIDE DEF six
  <2>2. name \in Seq(Word) /\ \A i \in 1..six : name[i] = pod[i]
    BY <2>1, ConcatFacts
  <2>3. QED
    BY <2>2 DEF six
<1>6. \A i \in 1..6 : name[i] \in Word
  <2>1. \A i \in 1..Len(pod) : pod[i] \in Word
    BY <1>4, ElementOfSeq
  <2>2. QED
    BY <1>4, <1>5, <2>1
<1>7. /\ SubSeq(name, 1, 6) \in Seq(Word) /\ Len(SubSeq(name, 1, 6)) = 6
      /\ \A i \in 1..6 : SubSeq(name, 1, 6)[i] = name[i]
  BY <1>6, SubSeqProperties
<1>8. QED
  BY <1>4, <1>5, <1>7, SeqEqual DEF pod, name

LEMMA DataInvBinds == DataInv => BindsPrepared
<1> SUFFICES ASSUME DataInv, NEW u \in Uid, Len(NamespaceOf[u]) = 1,
                    NEW i \in DOMAIN ContainersOf[u], ContainersOf[u][i] \in launched,
                    NEW m \in DOMAIN Mounts[ContainersOf[u][i]],
                    Supported(u, Mounts[ContainersOf[u][i]][m])
             PROVE  <<SubSeq(BuildRemoteExecutionInstanceName(u, ContainersOf[u][i]), 1, 6),
                      Mounts[ContainersOf[u][i]][m]>> \in dirs
  BY DEF BindsPrepared, prepare_mounts, Supported
<1>1. DirOf(u, Mounts[ContainersOf[u][i]][m]) \in dirs
  BY DEF DataInv, StartedPrepared
<1>2. QED
  BY <1>1, MountFacts, FirstSixWords DEF DirOf

(* The directories of the supported volumes of a started container are      *)
(* there, under the very name its door binds, when the namespace of its pod *)
(* has no hyphen (remote.go 192-253, door.go 92-105).                       *)
THEOREM BindsPreparedHolds == Spec => []BindsPrepared
BY DataInvariant, DataInvBinds, PTL

LEMMA StepNotOlder ==
  ASSUME DataInv, [Next]_dataVars
  PROVE  \A x \in files, y \in files' :
           x.dir = y.dir /\ x.file = y.file /\ y.ver # 0 => x.ver <= y.ver
<1> SUFFICES ASSUME NEW x \in files, NEW y \in files',
                    x.dir = y.dir, x.file = y.file, y.ver # 0
             PROVE  x.ver <= y.ver
  OBVIOUS
<1>1. FilesUnique /\ \A z \in files : z.ver \in Nat
  BY ContainerDataAssumption DEF DataInv, TypeOK
<1>2. CASE y \in files
  BY <1>1, <1>2 DEF FilesUnique
<1>3. CASE \E u \in Uid : UploadData(u)
  <2>1. PICK u \in Uid : UploadData(u)
    BY <1>3
  <2> DEFINE w == work[u]
             v == Mounts[ContainersOf[u][w.ctr]][w.mount]
  <2>2. PICK f, n, g : Writes(u, w, v, f, n, g)
    BY <2>1, UploadWrites
  <2>3. MayBeAt(u, w, dirs, files, lister, changes) /\ w.ctr \in DOMAIN ContainersOf[u]
    BY <2>1 DEF DataInv, PlacesFit, UploadData, AtWork
  <2>4. w.ver # 0
    BY <2>2, <2>3 DEF Writes, MayBeAt
  <2>5. \A z \in files : z.dir = DirOf(u, v) => z.ver <= w.ver
    BY <2>3, <2>4 DEF MayBeAt, MayUpload
  <2> HIDE DEF w, v
  <2>6. CASE y \notin files
    <3>1. y = g /\ g.dir = DirOf(u, v) /\ g.ver \in {0, w.ver}
      BY <2>2, <2>6 DEF Writes
    <3>2. QED
      BY <2>5, <3>1
  <2>7. QED
    BY <1>2, <2>6
<1>4. files' = files \/ \E u \in Uid : UploadData(u)
  BY DEF Next, dataVars, ObjectChanges, PrepareVolume, StartDoor, Unreached, Restart
<1>5. QED
  BY <1>2, <1>3, <1>4

(* While users change the objects and the pods' containers are prepared,    *)
(* restarts included, no file of a volume falls back to older content       *)
(* (remote.go 192-253).                                                     *)
THEOREM NeverOlderHolds == Spec => NeverOlder
<1>1. DataInv /\ [Next]_dataVars =>
        [\A x \in files, y \in files' :
           x.dir = y.dir /\ x.file = y.file /\ y.ver # 0 => x.ver <= y.ver]_dataVars
  BY StepNotOlder
<1>2. QED
  BY <1>1, DataInvariant, PTL DEF Spec, NeverOlder

=============================================================================
