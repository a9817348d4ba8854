---------------------------- MODULE ContainerData ----------------------------
(***************************************************************************)
(* PrepareContainerData (remote.go): before the provider starts the door   *)
(* of a container, it makes the directories of the volumes the container   *)
(* mounts on the login host, and uploads the files of its config maps and  *)
(* secrets, which users may change or delete meanwhile. The door then      *)
(* binds directories whose names it derives from the instance name.        *)
(*                                                                         *)
(* The containers of one pod are prepared one after the other, those of    *)
(* different pods concurrently. A name is a sequence of the words between  *)
(* its hyphens. Config maps and secrets are treated alike: both are        *)
(* objects, found by namespace and name in the cache of a lister.          *)
(***************************************************************************)
EXTENDS Integers, Sequences, FiniteSets

CONSTANTS
  Uid,          \* the pods
  Word,         \* the words of names, which have no hyphen
  NamespaceOf,  \* NamespaceOf[u]: the words of the namespace of pod u
  UidOf,        \* UidOf[u]: the five words of its uid
  ContainersOf, \* ContainersOf[u]: its containers, in the order of their start
  Container, ImageOf,  \* ImageOf[c]: the words of the image of container c
  Volume, Mounts,      \* Mounts[c]: the volumes container c mounts, in order
  Source,       \* Source[u][v]: what the spec of pod u says of volume v
  Object,       \* the names of config maps and secrets
  File,         \* the keys of their data, which name files
  Faults,       \* the kinds of fault: "sftp", "ssh", "crash"
  MaxChange,    \* bound: the changes of objects in a behaviour
  None

VolumeSource == [kind : {"object", "emptyDir", "other"},
                 name : Object \cup {None}, optional : BOOLEAN \cup {None}]

ASSUME ContainerDataAssumption ==
  /\ NamespaceOf \in [Uid -> Seq(Word) \ {<<>>}]
  /\ UidOf \in [Uid -> Seq(Word)] /\ \A u \in Uid : Len(UidOf[u]) = 5
  /\ \A u, w \in Uid : UidOf[u] = UidOf[w] => u = w
  /\ ContainersOf \in [Uid -> Seq(Container)]
  /\ \A u, w \in Uid : \A i \in DOMAIN ContainersOf[u], j \in DOMAIN ContainersOf[w] :
       ContainersOf[u][i] = ContainersOf[w][j] => u = w
  /\ ImageOf \in [Container -> Seq(Word) \ {<<>>}]
  /\ Mounts \in [Container -> Seq(Volume)]
  /\ Source \in [Uid -> [Volume -> VolumeSource]]
  /\ \A u \in Uid, v \in Volume :
       Source[u][v].kind = "object" => Source[u][v].name \in Object
  /\ None \notin Nat
  /\ MaxChange \in Nat

VARIABLES
  lister,    \* lister[x]: the data of object x = <<namespace, name>>, or None
  changes,   \* the number of changes of objects, which are their versions
  dirs,      \* the directories under .knoc of the login host
  files,     \* the files in them: where each is from, and which version
  work,      \* work[u]: how far the provider is with the containers of pod u
  launched   \* the containers whose door was started

dataVars == <<lister, changes, dirs, files, work, launched>>

-----------------------------------------------------------------------------
Objects == {NamespaceOf[u] : u \in Uid} \X Object

Data == [ver : 1..MaxChange, keys : SUBSET File]

(* Mutant: the directory is named after the namespace alone. *)
BuildRemoteExecutionPodName_noUid(u) == NamespaceOf[u]

BuildRemoteExecutionPodName(u) == NamespaceOf[u] \o UidOf[u]
BuildRemoteExecutionInstanceName(u, c) == NamespaceOf[u] \o UidOf[u] \o ImageOf[c]

DirOf(u, v) == <<BuildRemoteExecutionPodName(u), v>>
ObjectOf(u, v) == <<NamespaceOf[u], Source[u][v].name>>

(* The directories the door binds: the first six words of the name of the  *)
(* container, which are the pod's when its namespace has no hyphen.        *)
prepare_mounts(u, c) ==
  LET name == BuildRemoteExecutionInstanceName(u, c)
  IN {<<SubSeq(name, 1, 6), Mounts[c][i]>> : i \in DOMAIN Mounts[c]}

(* The container and the mount the provider is at; the version it has read *)
(* of an object, and the keys it has still to upload.                      *)
Place == [ctr : Nat, mount : Nat, ver : 0..MaxChange, todo : SUBSET File]

Start == [ctr |-> 1, mount |-> 1, ver |-> 0, todo |-> {}]

(* Mutant: the next container goes on where the last one was. *)
NextContainer_keepsMount(w) == [w EXCEPT !.ctr = @ + 1, !.ver = 0, !.todo = {}]

NextContainer(w) == [Start EXCEPT !.ctr = w.ctr + 1]
NextMount(w) == [w EXCEPT !.mount = @ + 1, !.ver = 0, !.todo = {}]

Current(u) == ContainersOf[u][work[u].ctr]
Volumes(u) == Mounts[Current(u)]
AtWork(u) == work[u].ctr \in DOMAIN ContainersOf[u]

TypeOK ==
  /\ lister \in [Objects -> Data \cup {None}]
  /\ changes \in 0..MaxChange
  /\ dirs \subseteq {DirOf(u, v) : u \in Uid, v \in Volume}
  /\ \A x \in files : x.dir \in dirs /\ x.ver \in 0..changes
  /\ work \in [Uid -> Place]
  /\ \A u \in Uid : AtWork(u) => work[u].mount \in 1..Len(Volumes(u)) + 1
  /\ launched \subseteq Container

Init ==
  /\ lister = [x \in Objects |-> None]
  /\ changes = 0
  /\ dirs = {}
  /\ files = {}
  /\ work = [u \in Uid |-> Start]
  /\ launched = {}

-----------------------------------------------------------------------------
(* Users write and delete objects, and the lister's cache follows. *)
ObjectChanges(x) ==
  /\ changes < MaxChange
  /\ changes' = changes + 1
  /\ \/ \E keys \in SUBSET File :
           lister' = [lister EXCEPT ![x] = [ver |-> changes + 1, keys |-> keys]]
     \/ lister[x] # None /\ lister' = [lister EXCEPT ![x] = None]
  /\ UNCHANGED <<dirs, files, work, launched>>

Proceed(u, w) == work' = [work EXCEPT ![u] = w]

(* A volume of the spec that neither is an object nor an empty directory   *)
(* is passed over, and the door binds it all the same.                     *)
PassOver(u, v) ==
  /\ Source[u][v].kind = "other"
  /\ Proceed(u, NextMount(work[u]))
  /\ UNCHANGED dirs

MakeEmptyDir(u, v) ==
  /\ Source[u][v].kind = "emptyDir"
  /\ dirs' = dirs \cup {DirOf(u, v)}
  /\ Proceed(u, NextMount(work[u]))

(* Mutant: a missing object that is optional is passed over. *)
Refuse_required(u, v) ==
  /\ Source[u][v].kind = "object"
  /\ lister[ObjectOf(u, v)] = None \/ Source[u][v].optional = FALSE
  /\ Proceed(u, IF Source[u][v].optional = TRUE THEN NextMount(work[u])
                ELSE NextContainer(work[u]))
  /\ UNCHANGED dirs

(* The container is refused when the object is not there, marked optional  *)
(* or not, and when it is marked as not optional, there or not.            *)
Refuse(u, v) ==
  /\ Source[u][v].kind = "object"
  /\ lister[ObjectOf(u, v)] = None \/ Source[u][v].optional = FALSE
  /\ Proceed(u, NextContainer(work[u]))
  /\ UNCHANGED dirs

ReadObject(u, v) ==
  LET data == lister[ObjectOf(u, v)] IN
  /\ Source[u][v].kind = "object"
  /\ data # None /\ Source[u][v].optional # FALSE
  /\ dirs' = dirs \cup {DirOf(u, v)}
  /\ Proceed(u, IF data.keys = {} THEN NextMount(work[u])
                ELSE [work[u] EXCEPT !.ver = data.ver, !.todo = data.keys])

PrepareVolume(u) ==
  /\ AtWork(u)
  /\ work[u].ver = 0 /\ work[u].mount <= Len(Volumes(u))
  /\ LET v == Volumes(u)[work[u].mount] IN
       PassOver(u, v) \/ MakeEmptyDir(u, v) \/ Refuse(u, v) \/ ReadObject(u, v)
  /\ UNCHANGED <<lister, changes, files, launched>>

(* UploadData of one key, in any order. Its error is not looked at: under  *)
(* the "sftp" fault the file stays as it was, or is left cut off (ver 0).  *)
UploadData(u) ==
  LET w == work[u]
      v == Volumes(u)[w.mount]
      d == DirOf(u, v)
      others(f) == {x \in files : x.dir # d \/ x.file # f}
      file(f, n) == [dir |-> d, file |-> f, from |-> ObjectOf(u, v), ver |-> n]
  IN /\ AtWork(u)
     /\ \E f \in w.todo :
          /\ \/ files' = others(f) \cup {file(f, w.ver)}
             \/ "sftp" \in Faults /\ files' \in {files, others(f) \cup {file(f, 0)}}
          /\ Proceed(u, IF w.todo = {f} THEN NextMount(w)
                        ELSE [w EXCEPT !.todo = @ \ {f}])
     /\ UNCHANGED <<lister, changes, dirs, launched>>

(* The door of the container is started; or RemoteExecution fails, before  *)
(* it prepared anything or at the end. The caller goes on in either case.  *)
StartDoor(u) ==
  /\ AtWork(u)
  /\ work[u].mount = Len(Volumes(u)) + 1
  /\ launched' = launched \cup {Current(u)}
  /\ Proceed(u, NextContainer(work[u]))
  /\ UNCHANGED <<lister, changes, dirs, files>>

Unreached(u) ==
  /\ "ssh" \in Faults
  /\ AtWork(u)
  /\ work[u].mount \in {1, Len(Volumes(u)) + 1} /\ work[u].ver = 0
  /\ Proceed(u, NextContainer(work[u]))
  /\ UNCHANGED <<lister, changes, dirs, files, launched>>

(* The provider dies and starts over with every pod of the node. *)
Restart ==
  /\ "crash" \in Faults
  /\ work' = [u \in Uid |-> Start]
  /\ UNCHANGED <<lister, changes, dirs, files, launched>>

Next ==
  \/ \E x \in Objects : ObjectChanges(x)
  \/ \E u \in Uid : PrepareVolume(u) \/ UploadData(u) \/ StartDoor(u) \/ Unreached(u)
  \/ Restart

Spec == Init /\ [][Next]_dataVars

-----------------------------------------------------------------------------
(* Properties.                                                             *)

(* The directories of the volumes that are supported (README.md 20) and    *)
(* mounted by a started container were made, under the very name its door  *)
(* binds, whatever was refused, deleted or restarted on the way: for pods  *)
(* in a namespace without a hyphen, if mkdir itself does not fail, whose    *)
(* error is not looked at (remote.go 192-253, door.go 92-105).             *)
BindsPrepared ==
  \A u \in Uid : Len(NamespaceOf[u]) = 1 =>
    \A i \in DOMAIN ContainersOf[u] :
      LET c == ContainersOf[u][i] IN
      c \in launched =>
        \A b \in prepare_mounts(u, c) :
          Source[u][b[2]].kind # "other" => b \in dirs

(* A file in a volume of a pod is from the object that this volume of this *)
(* pod names, in the pod's own namespace (remote.go 200-217, 225-241).     *)
FilesAreOwn ==
  \A x \in files : \A u \in Uid, v \in Volume :
    x.dir = DirOf(u, v) => x.from = ObjectOf(u, v)

(* While users change the objects and the pods' containers are prepared,   *)
(* restarts included, no file of a volume falls back to older content.     *)
NeverOlder ==
  [][\A x \in files, y \in files' :
        x.dir = y.dir /\ x.file = y.file /\ y.ver # 0 => x.ver <= y.ver]_dataVars

-----------------------------------------------------------------------------
(* Why these hold. DataInv is inductive; ContainerDataProofs shows it.      *)

Supported(u, v) == Source[u][v].kind # "other"

(* Pod u may be at place w, given the directories and files on the login   *)
(* host, the objects and the number of their changes: the volumes before   *)
(* have their directories; and what is being uploaded is not newer than    *)
(* its object, nor older than any file of the volume.                      *)
MayUpload(u, v, ver, ds, fs, objects, n) ==
  LET o == ObjectOf(u, v) IN
  /\ DirOf(u, v) \in ds
  /\ o \in Objects
  /\ ver <= n
  /\ objects[o] # None => ver <= objects[o].ver
  /\ \A x \in fs : x.dir = DirOf(u, v) => x.ver <= ver

MayBeAt(u, w, ds, fs, objects, n) ==
  /\ w.ver # 0 <=> w.todo # {}
  /\ w.ctr \in DOMAIN ContainersOf[u] =>
       LET mounts == Mounts[ContainersOf[u][w.ctr]] IN
       /\ w.mount \in 1..Len(mounts) + 1
       /\ \A m \in DOMAIN mounts :
            m < w.mount /\ Supported(u, mounts[m]) => DirOf(u, mounts[m]) \in ds
       /\ w.ver # 0 => /\ w.mount \in DOMAIN mounts
                       /\ MayUpload(u, mounts[w.mount], w.ver, ds, fs, objects, n)

PlacesFit == \A u \in Uid : MayBeAt(u, work[u], dirs, files, lister, changes)

StartedPrepared ==
  \A u \in Uid : \A i \in DOMAIN ContainersOf[u] :
    LET c == ContainersOf[u][i] IN
    c \in launched =>
      \A m \in DOMAIN Mounts[c] :
        Supported(u, Mounts[c][m]) => DirOf(u, Mounts[c][m]) \in dirs

FilesUnique == \A x, y \in files : x.dir = y.dir /\ x.file = y.file => x = y

FilesBehind ==
  \A x \in files : x.from \in Objects /\ (lister[x.from] # None => x.ver <= lister[x.from].ver)

ObjectsCounted == \A x \in Objects : lister[x] # None => lister[x].ver <= changes

DataInv ==
  /\ TypeOK
  /\ ObjectsCounted
  /\ PlacesFit
  /\ StartedPrepared
  /\ FilesAreOwn
  /\ FilesUnique
  /\ FilesBehind

=============================================================================
