# KNoC in TLA+

A verification project for KNoC (Kubernetes Node on Cluster), a virtual-kubelet
provider that runs the containers of pods as Slurm jobs on the login host of a
remote cluster. The modules model the provider, the `door` tool it starts on the
login host, Slurm as far as `door` uses it, and the virtual-kubelet controller
that drives the provider; further modules model the algorithms that need no
cluster: environments, expansion, names, the container's command line and the
node's configuration. TLC checks them on small instances; TLAPS proves all of
their invariants, and that the system implements an abstract life of pods, for all
values of the constants.

## 1. The system

### Components

| component | state | operations | talks to |
|---|---|---|---|
| **Provider store and handlers** (`knoc.go` 43-330) | `KNOCProvider.pods`, a Go map from `<namespace>-<name>` to a pod; `notifier`, a callback | `CreatePod`, `UpdatePod`, `DeletePod`, and the reads `GetPod`, `GetPods`, `GetPodStatus`, `GetContainerLogs`, `RunInContainer` | called by the controller's workers; calls `RemoteExecution` over ssh; notifies the controller |
| **Status poll** (`remote.go` 267-455, `knoc.go` 617-687) | locals of one pass; writes into the stored pods in place | `statusLoop` → `checkPodsStatus` → `startMainContainers`, `UpdatePod` | shares the map with the handlers, without a lock; reads `.status` files over ssh; starts doors |
| **Remote execution** (`remote.go` 92-163) | none (an ssh connection per call) | `RemoteExecution` = connect, `prepareDoor`, `PrepareContainerData`, start a door with `nohup ... &` | login host |
| **Container data** (`remote.go` 165-255, `common/utils.go`) | none | `PrepareContainerData`: config maps and secrets to files, empty directories, the kubeconfig; `UploadData`, `UploadFile` | resource manager, sftp |
| **Door** (`door/door.go`) | one process per submission or stop; files `.tmp/<i>.sh`, `.knoc/<i>.jid`, `.knoc/<i>.status`, `.knoc/<i>.out/.err` | submit: `produce_slurm_script`, `slurm_batch_submit`, `handle_jid`; stop: `delete_container` | `sbatch`, `scancel` |
| **Slurm** (external) | jobs | run a script to its last line, cancel it, kill it | writes `.status` |
| **Controller and API server** (virtual-kubelet library and Kubernetes, external) | API objects, work queues | calls a handler at a time per key; pushes notified statuses; removes deleted pods | provider |
| **Names** (`common.BuildKey`, `BuildRemoteExecutionInstanceName`) | none | the key of a pod, the instance name of a container | everything above goes by them |
| **Pod environment, expansion** (`internal/podutils`, `internal/expansion`) | the environment written so far, events | `PopulateEnvironmentVariables`; `Expand` of `$(VAR)` | the resource manager's listers, the event recorder; not called by the provider's handlers |
| **Configuration** (`knoc.go` 54-129, 459-465) | none that changes | `NewProvider`, `loadConfig`, `capacity` | read once at the start; asked for by the controller |
| **Node conditions, statistics, command line** (`knoc.go` 439-613; `cmd/`) | none that changes | `ConfigureNode`, `GetStatsSummary`, flags | controller |

### What is hard here

* The poll and the handlers share the map and nothing locks it. The poll picks a
  pod, makes several blocking ssh calls, and stores the pod again; meanwhile a
  handler may have replaced or removed it. Every ssh call is a point where the
  others may run.
* `door` processes are started in the background, so a submission and a stop of
  one container may run in either order, and two submissions may interleave.
* The only sign that a container ended is a file written by the last line of its
  script, and neither that file nor the `.jid` file is ever removed.
* An ssh call may fail before or after its command was executed.
* `panic` ends the provider in several places; a restarted provider knows no pod,
  and submits again what the cluster may still be running.
* `UpdatePod` stores the pod it is handed, status included, and that status may
  be older than what the provider knows.
* The environment of a container is one map written over several sources whose
  order matters, while services come in any order; a call that fails half-way has
  changed the containers before the failure and not the ones after it.
* `Expand` walks a string with a cursor and a checkpoint; the door joins words with
  spaces and the shell cuts them again.

### What makes each part correct

* Remote side: a `.jid` file names a job of its own instance; a `.status` file
  has an author; only a stop cancels; what was submitted once can be stopped.
* Handlers and poll: nothing is indexed or dereferenced that is not there; what
  is shown is what was notified; main containers follow init containers; a pod is
  Succeeded or Failed for a reason; a container is submitted once.
* Container data: a door binds directories that were made under that very name;
  a volume holds files of its own object, and never goes back to older ones.
* Environment, expansion, names, configuration: the result is the one a definition
  without cursors, maps and loops gives.
* Whole system: a pod ends, a deletion ends, neither disturbs another pod, and
  what the API shows of a pod is a life as `PodLife` tells it.

`PROJECT.json` lists every hazard at its line with the properties that watch it.

## 2. Modules

```
Remote ──┬── RemoteAlone ── MCRemote               (the remote side, any client)
         ├── RemoteLemmas ── RemoteProofs
         └── Provider ── StatusPoll ── Knoc ── MCKnoc     (the whole system)
                                        │  └─ INSTANCE PodLife (what it implements)
                                        └── KnocInvariants ──┐
                             RemoteLemmas ── KnocProofs ──┬── HonestProofs
                                                          └── SubmitProofs

ContainerData ──┬── MCContainerData      (what is uploaded before a container)
                └── ContainerDataProofs

Expansion ── PodEnv ── MCPodEnv ──┐
Names, BatchScript, NodeConfig ───┴── MCFunctions   (what needs no cluster)
                                        └── FunctionProofs ── PodEnvProofs
```

**Remote** is the login host. `door` is the sequence of door processes ever
started, each with its container and a program counter; `job` is the sequence of
Slurm's jobs, an id being a place in it; `script`, `jidFile`, `statusFile` are the
files of each instance name. An action is one step of one process:
`produce_slurm_script`, `slurm_batch_submit` (sbatch reads the script that is
there *now*, which another process of the same instance may have rewritten),
`handle_jid`, `delete_container`, `DoorDies` (each `log.Fatalln`, or a kill),
`JobEnds`, `JobLost`. The commands that would remove the files on a stop are built
and never run by the code (door.go 207-211), so no action removes them.

**RemoteAlone** closes Remote with the most general client: any container is
submitted or stopped at any time. The provider is one such client.

**Provider** has the map `pods`, the locals `poll` of the poll's pass, the handler
`call` in progress for each key and `mail`, the last pod handed to the notifier.
A handler is one action per ssh call (`CreateContainer`, `DeleteContainer`) and
one that stores or forgets the pod and notifies (`CreateStore`, `DeleteForget`);
`UpdatePod` has no ssh call and is one action. `RemoteExecution` succeeds, fails
before the door was started, or fails after.

**StatusPoll** is `checkPodsStatus`: the choice of the next key of the map
(`PollSkip`, `PollFirstPass`, `PollPick`), one action per `cat` of a `.status`
file (`PollInitContainer`, `PollMainContainer`), the verdict on the pod
(`PollInitDone`, `PollMainDone`), and `startMainContainers`, an action per
submission. The poll holds a pointer to a pod. While that pod is the stored one
the poll writes into the map; once a handler has replaced or removed it, it lives
on in `poll.orphan` and the poll's last `UpdatePod` stores it under its key.
`Visits` is Go's rule for a key inserted into a map that is being ranged over:
it may or may not be visited.

**Knoc** adds users, the API server and the controller (external, modelled from
the calls the provider is written for), and `Crash`, the death and restart of
the provider. Its fairness is `FairSpec`.

**ContainerData** is `PrepareContainerData`, which Provider sees only as a
`RemoteExecution` that may fail. `work[u]` is how far the provider is with the
containers of pod `u`: the container, the mount, and while it uploads an object
the version it read and the keys still to write. `dirs` and `files` are what is
under `.knoc` on the login host, `lister` the informer's cache of config maps and
secrets. `PrepareVolume` is one turn of the loop over the mounts (`PassOver`,
`MakeEmptyDir`, `Refuse`, `ReadObject`), `UploadData` one file, in the order a Go map
is ranged over, that is in any order; `StartDoor` and `Unreached` are the two ends
of the call. Pods are prepared concurrently, by the controller's workers and by
the poll; the containers of one pod one after the other. Names are sequences of
the words between hyphens, which is what `prepare_mounts` in the door cuts them
into: the directory it binds is the first six words of the instance name, and the
one the provider makes is the namespace and the five words of the uid.

**PodLife** is the abstract specification: the jobs of a pod begin, the main ones
after the init ones, and end, are lost or, once a user asked, cancelled; its end
is shown once and for a reason. There is no map, file, ssh or restart in it. Knoc
implements it under the mapping at the end of Knoc: `job` is Slurm's sequence of jobs,
`shown[u]` the phase of the API's object and whether it has an unreachable
container, `asked` the pods whose deletion a user requested. A `sbatch` is a
`Begin`, `JobEnds` an `End`, `scancel` a `Cancel`, a `KubeletSync` a `Show`, a deletion by a user an
`Ask`; all other steps, crashes included, are stutters. What makes this hard is
`Show` and `Begin`: the phase the controller pushes was computed by the poll from files,
over many steps, out of a pod that others replaced meanwhile.

**PodEnv** is `PopulateEnvironmentVariables` as a state machine: one entry of the
container at work a step, through `.envFrom` (`makeEnvironmentMapBasedOnEnvFrom`), the
services (`getServiceEnvVarMap`: one step with any outcome that an order of the lister
and an order of the Go map it ranges over can give; a service carries the variables
that Kubernetes makes of it, which two services may share, as `foo` and
`foo-service` share `FOO_SERVICE_PORT`, and `FromServices` lets the last one win) and `.env` (`makeEnvironmentMap`); `done` is what earlier
containers got, `events` what the recorder was told. **Expansion** is `Expand` with its
cursor and checkpoint, as a recursive function on sequences of bytes. **Names** is
`BuildKeyFromNames` and `normalizeImageName`. **BatchScript** is the command line that
`create_container` and `produce_slurm_script` write, and, external, how bash and
singularity read it: `Shell` cuts the line, `Singularity` takes its flags from the words, and
`Assignments` is its `--env`, a map of `key=value` that refuses any other data: a flag
without data takes the next word, so a line without variables is refused.
**NodeConfig** is `loadConfig`, `NewProviderConfig` and `capacity`.
**MCFunctions** runs the environment of every small pod, and from one of its end
states enumerates the inputs of the pure functions: strings byte by byte,
specs of containers, configurations.

**KnocInvariants** has the invariants from which the properties of Knoc follow.
**RemoteLemmas, RemoteProofs, KnocProofs, HonestProofs, SubmitProofs,
ContainerDataProofs, FunctionProofs, PodEnvProofs** hold the theorems; **MCRemote, MCKnoc, MCContainerData, MCPodEnv,
MCFunctions** the instances.

Operators named `<definition>_<what>` are deliberately wrong variants, one for
each property; replacing the definition by its variant must make TLC report that
property. They are used for nothing else.

### Abstractions

* A container is a model value; `InstOf` gives its instance name. The assumption
  `UidInInstance` says the uid is part of that name, and `ContainersDistinct` that the
  API server takes no pod with two containers of one name. Image, command, environment
  and volumes are data that no property tells apart.
* `Ready` is set by the code exactly where the state is set to running, and
  cleared exactly where it is set to something else, so it is part of `st`.
* The reason, message and times of a terminated container are `why`: it exited
  and its file was read, it was never reached (130), or it was deleted.
* A job's exit code comes from `Code`. The code converts an `int32` exit code to
  a string with `string()`; `Reparse` is what comes back from `Atoi`.
* Writing the `.status` file is one step; the poll never sees half of it.
* The reads change nothing; `GetPod` is the guard of the controller's actions.
* Edits change the metadata of a pod (`gen`), not its images.
* For a pod that has left the API server the controller hands `DeletePod` the
  object that `GetPod` returned, which the provider also stores; the model hands
  it a copy. The two differ only in the phase the poll sees while the deletion
  is in progress.
* The controller updates a stored pod when the API server's differs from it, and
  two pods of one name are taken to differ.
* In ContainerData a file is the object it comes from and a version, or cut off
  (version 0); modes and contents are left out. The commands that make
  directories do not fail (their errors are dropped by the code, and the container
  would start without its volume), and every volume a container mounts is in the
  spec of its pod, as the API server demands: `findPodVolumeSpec` finds it.
* Config maps and secrets go through two copies of one code in `env.go`; PodEnv has
  one kind of object. The error of a lister of services is left out.
* A string is a sequence of bytes. `Expand` reads bytes and converts one of them to a
  character (expand.go 100), which is the same in ASCII only.
* In BatchScript the shell cuts a line at its spaces and does nothing else: words are
  made of the bytes it leaves as they are (`Tame`: letters, digits, space, comma and
  such), so quotes, `$` and its other special bytes in values are left out, as are the
  `#SBATCH` flags, `mpiexec` and the redirections of the line. Singularity has two flags,
  and refuses any other; that two variables of one name become one is left out.
* `Crash` may happen at any time, which covers the panics of `remote.go` 103,
  170 and 274, the end of the process on a concurrent use of the map, and a kill.

## 3. Runs

| run | instance | checks |
|---|---|---|
| `remote` | 3 containers, 2 instance names, up to 3 doors, doors and jobs may die | files, doors and jobs agree |
| `containers` | 1 pod, 1 init and 2 main containers, the main ones of one image, all remote faults | types; a verdict is earned; an exit is never taken back; implements PodLife |
| `update` | 1 pod, 1 init and 1 main container, all remote faults, 1 edit, fair | the poll never panics; what is shown was notified; an edit arrives in the end |
| `recreate` | 2 pods of one name, ssh fails, force-deletes | pods of one name do not touch each other; implements PodLife |
| `restart` | 1 pod, ssh fails, 1 restart at any moment | init before main; submissions are bounded; implements PodLife |
| `liveness` | 1 pod, ssh fails, doors die, jobs are killed, deletes with and without grace, fair | a pod ends unless a container is lost; a deletion ends |
| `data` | 3 pods, one in a namespace with a hyphen, 4 containers, 2 objects with 2 keys, 2 changes, uploads and ssh fail, restarts | a door binds what was made; files are of their own object and never fall back |
| `functions` | pods of 1 or 2 containers with up to 2 entries a part, strings of up to 8 bytes, containers with up to 2 of everything, configurations of 2 nodes | environments, expansion, keys, image names, command lines and capacity are what their definitions say |
| `resurrected`, `failed_init`, `leaked_job`, `stale_update` | as needed | expected violations, section 5 |

`CHECK_DEADLOCK FALSE` appears in `remote.cfg`, whose specification ends when all doors
and jobs have, and in `functions.cfg`, where a call returns and an input is at its
longest. In Knoc the timer of an idle provider (`PollNothing`) never stops, so
deadlock is checked; so it is in `data`.

**Bounds.** `MaxLaunch` (doors in `remote`) is 3: two submissions of an instance and
a stop, or of two instances, are what it takes for files to be mixed up. One pod
is enough where the property is about a pod and its own containers, because
handlers go by the key and files by the uid; `recreate` has two pods because that
is where key and uid disagree. One init and two main containers let one main
container fail while the other runs, and as they have one image, as in
test/e2e/basic.go, either may overwrite the `.status` file of the other; two init containers are needed for one to
be looked at again after it ended (`failed_init`). One edit and one crash
(`MaxEdit`, `MaxCrash`) can fall between any two steps. Exit codes are 0 and 1.
In `data` two changes (`MaxChange`) let an object be read, changed and read again, or
deleted between two containers; two pods of one namespace give a volume the same
name and two keys allow half an upload. The keys are symmetric: nothing orders
them. Restarts there are not bounded, and each may come at any moment.
Nothing else is bounded: doors and jobs are as many as the requests produce. In `functions`, 8 bytes over the four symbols of a reference hold two
references, a nested one, and an escape before each kind of token; 7 over those of
a path hold a registry with a port, a path and a version. Variables, mounts and
words of a command are with and without spaces, commas and equals signs; images are
of a registry, of a path with and without a root, and of a root that looks like a flag
or holds a space. The services collide in their names (`kubernetes` in two namespaces) or in
a variable (`foo`, `foo-service`), and one has no address. Two entries a part let an
entry override or refer to another; two containers let the second one fail
after the first was written. Two main containers together with edits, and deletions together
with restarts, exceed the five minutes given to a run and were left out.

**Fairness** (`liveness`, `update`, `stale_update`). The poll's step, because the timer is
reset after each pass and its goroutine waits for nothing but ssh; each handler
in progress; the controller's queue for each pod and the pushing of its notified
status; door processes as a whole; jobs as a whole, which end by themselves unless
they are killed, cancelled or lost. Nothing is assumed of users, and no fault is
assumed to happen or to stop. All of it is weak fairness. `FinishesUnlessLost`
names what can keep a pod from ending: a door that died before it had a job, a job
that was killed, an init container that was never submitted. Lost answers ("reply"
faults) are left out of `liveness`: a `cat` that fails for ever is allowed under them,
and then nothing ends. `FinishesUnlessLost` leaves out edited pods, whose fate is
`stale_update`.

## 4. Proofs

`RemoteLemmas` proves that `RemoteInv` is inductive under every step of the
remote side and every launch. The four safety properties of the remote side are
not inductive by themselves. `JidNamesOwnJob` needs that the id a process carries
is of its own instance (`DoorJidIsOwn`), which needs that the script it hands to
sbatch is of its own instance (`ScriptIsOwn`) and is there when sbatch runs
(`DoorPhases`). `SoleSubmissionStoppable` needs that each job (`JobHasDoor`) and each
`.jid` file (`JidHasDoor`) goes back to a process, and that a process that is
done left its id (`DoneLeavesJid`). `RemoteProofs` concludes for any number of
doors and any client. The assumptions are `RemoteAssumption` (each container has an
instance name, codes are bytes) and `MaxLaunch \in Nat`.

`KnocProofs` proves that `SafeInv` is inductive under every step of every actor of
Knoc: users, controller, handlers, poll, doors, jobs and crashes. From it follow
`TypesHold`, `PollNeverPanicsHolds` and `KnocJidNamesOwnJob`. `PollNeverPanics` alone is
not inductive, because the pod in the poll's hand comes from elsewhere: a handler
built it, the poll or a handler stored it, a notification carried it to the API
server, and `UpdatePod` brought it back. `SafeInv` says what each of them owes:

* `Settled(p)`: a running pod has a status for each main container, none of them
  waiting once the pod is initialized, and a status for all init containers or
  for none. `StoredSettled`, `MailSettled` and `ApiSettled` say it of the three places
  a pod is kept in. The exception is the stored pod whose main containers the
  poll is starting (`Starting`): it is initialized and still has waiting ones.
* `CallHolds`: what a creation has put together so far, one running or unreachable
  status per container submitted, and none with init containers; a pod in the
  hand of a deletion is not running.
* `PollHolds`, `InHand`: the poll's loop visits stored pods only, it holds a pod while
  it works, and that pod, stored or replaced, has the statuses the branch it is in
  indexes; the branch for init containers holds a pod that is not initialized.

The proof has a lemma for each step; `HandKept`, `Replaced`, `WriteFacts` and `LeaveFacts`
say once what the handlers and the poll do to the pod in hand, the map and the
loop. It rests on `RemoteAssumption`, `ProviderAssumption` (the maps from pods to
keys and containers are well typed, a pod has a main container),
`NoneAssumption` (no pod is the value for no pod) and `BoundsAssumption`; it does not
need `UidInInstance`.

`KnocInvariants` adds four invariants, each inductive together with those it builds on.

* `OwnInv` (`KnocProofs`): what is stored, notified or handed to a call under a key is a pod
  of that name that was created (`BelongsTo`); it says "deleted", and a stop exists,
  only for a pod whose deletion a user asked for; every script and job goes back to
  a submission. `OnlyDeletionCancels` follows with `CancelHasStop` (the job was cancelled
  by a stop of its instance) and `UidInInstance` (that instance is of one pod).
* `NotifiedInv` (`KnocProofs`): a stored pod was notified as it is, or is `AtHand`: the poll
  has it in its hand, not replaced, and is bound to store it again, because it
  is starting containers or has noted a change (`dirty`). `NotifiedIsCurrent` alone is
  not inductive: it says nothing about the pod in hand.
* `HonestInv` (`HonestProofs`): every copy of a pod, in the map, in a hand, on its way or in
  the API, shows only exits that happened and a phase that they justify
  (`Honest`), and so do the poll's counts: `CountsInit` and `CountsMain` say that while
  `left` agrees with the place in the loop, all containers before it have ended,
  and that a good count that falls short has a failure behind it. `MainAfterInit`, `ExitsAreReal`,
  `SuccessIsEarned` and `FailureHasCause` follow. The steps of the remote side only
  add exits, and `Honest` is monotone in the set of them.

* `SubmitInv` (`SubmitProofs`), below.

All of this goes by instance name, not by container. Containers of a pod that have one
image share their script, `.jid` and `.status` files (remote.go 120), as the three busybox
containers of test/e2e/basic.go do, and nothing in the cluster can tell their ends apart; so
`HasExited`, `Honest` and PodLife's `EndedWith` ask for a job that ended under the container's
instance name. The theorems therefore need no hypothesis about images, and say for
containers of different images that the exit is the container's own. What they do
not say is that two containers of one image both ran: one of them that ends first
is taken for both, and that is what the code does.

`HonestProofs` then proves `Spec => ImplementsPodLife`: each initial state is one of
PodLife, and under `SafeInv`, `OwnInv` and `HonestInv` each step maps to a step of PodLife
or a stutter. A `Begin` of a main container is justified by `MainAfterInit`, a `Cancel` by
`OnlyDeletionCancels`, a `Show` by `Honest` of the notified pod.

`ContainerDataProofs` proves that `DataInv` is inductive for any pods, names, objects and
faults, and from it `TypeOK`, `BindsPrepared` and `NeverOlder`; `FilesAreOwn` is one of its parts.
`PlacesFit` says of each preparation in progress that the volumes before it have their
directories and that what it is uploading is not newer than its object nor older
than any file of the volume; `FilesBehind` that no file is newer than its object. Where
two pods could meet, `PodNamesDiffer` is used: remote names of pods differ although
namespaces and uids are just joined, because all uids are of the same length and
end the name. It rests on `ContainerDataAssumption`.

`SubmitProofs` proves `Spec => []SubmitsBounded`: a container is submitted at most once for each
life of the provider and each edit of its pod. The bound is not inductive: it does not
say who may still submit. `SubmitInv` does, for the two ways a container is submitted.

* By `CreatePod` (`CreatesCounted`, `CreateBounds`): once a life, as long as the pod is neither
  stored nor in the hand of a creation past that container (`Uncreated`).
* By the poll starting main containers (`StartsCounted`, `StartBounds`): once for each copy of the
  pod that is not initialized. A copy says of itself how many starts are behind it
  (`Started`, by its `gen` and `initialized`), and the bound is kept for every place a copy
  is in: the map, the poll's hand, a creation, and a live pod that is in none of them
  (`Unstarted`).

That those places are all there is takes the other parts: at most one pod of a name
is present in the API (`OnePresent`), no copy is newer than the API's and one without init
containers is initialized from the start (`CopiesSound`, `StartsInitialized`), and a handler that
works on the key of a live pod has no rival in the map or in the poll
(`CallsAlone`, `HandIsStored`). It rests on `ContainersDistinct`, without which one pass over a
pod that lists a container twice submits it twice.

`FunctionProofs` proves the properties of `functions` that are about strings and files, for
strings of any length and bytes: `KeysTellPods`, `ImagesNameFiles`, `CapacityAsConfigured`,
`UnknownIsKept`, `EscapeProtects`, `ExpandsTokens` and `CommandArrives`. The recursive
functions they speak of are what makes this hard. The prover has no induction with a
predicate for its parameter, so induction is stated for a given *set* of naturals
(`SetInduction`, `UpInduction`, `DownInduction`, from the least element `NatMin`), and that
a function defined by recursion exists is proved of each one (`FoldExists`, `LoopExists`,
`TokensExist`): without it nothing follows from its definition. For `Expand` the argument
has three stages. `ExpandTurns` says that the loop with cursor and checkpoint is a function
of the two. `Delayed` says what the checkpoint does: the loop writes what it passed over
before the next token, so its result is that text and what the loop with an up-to-date
checkpoint writes; hence `ExpandBytes`, the loop without a checkpoint. From that one,
`UnknownKept` and `EscapeKept` follow by induction from the end of the text, and
`ExpandsTokens` by comparing it with the definition by tokens at each place a token begins.
Only `UnknownIsKept` needs ASCII. For `CommandArrives`, `WordsCut` says that a line is cut
at a separator wherever it is, `JoinWords` that what was joined is cut into the words of its
parts (`WordsOfWords`: into the parts themselves when they have no separator and are not
empty) and `WordsWithout` that a cut leaves no separator in a word. `SingularityReads`
unfolds the flags: with variables and mounts the line is read as `ReadsBoth` says, and
without either it is refused or starts another image (`ReadsNoVariables`, `ReadsNoMounts`).
`AssignmentsBack` says which data of `--env` comes back as the variables that were joined.
The property is an equivalence, so both directions are needed: `ReadIsGood`, that what
singularity got never holds a space, nor a mount a comma, and is no flag where an image is;
and `LineReads`, that nothing else stands in the way. `ContainerInv`, the invariant of the
container's spec, has lists of any length over any `Assigned`, `Mounted`, `Spoken` and
`Images` that `WordAssumption` allows: tame bytes, a variable with its equals sign, a mount
and an image that are not empty. `AlphabetAssumption` (bytes) and `QuantityAssumption` (the
defaults parse) are all that is assumed besides.

`PodEnvProofs` proves every property of PodEnv for any pod, objects and services. `EnvTypes`
is the inductive type invariant: it says, for each part of the call, where `idx` and `done`
may be. With it, each property is carried by what the call has done with the entries
*before* `idx`: `UnbrokenSoFar` (nothing passed that must be resolved and cannot be),
`EventsSoFar` (an event for each of `SkippedSoFar`, and no other), `DeclaredSoFar` (each
variable has the value its last declaration so far gives it). In that last one the value of
a reference depends on the variables before it; `Trails` are the environments along the
entries, and they are shown to be what the recursion in `Declared` defines. For
`ServicesInAnyOrder`, `MappedAll` says that the services that are mapped are the ones the
container sees, in whatever order the lister gives them, and `FromServicesSeen` that each
variable one of these writes has a value that one of them writes, in whatever order they are
ranged over. `PopulatedAsDeclared` is then about that outcome: `Declared` is given the
variables of the services, and only these are left to the order. `RunsPopulate` says that
the behaviours TLC checks are behaviours of the specification the theorems are about. The
assumptions are what the API server and the listers guarantee: `PodAssumption`,
`ObjectAssumption` and `ServiceAssumption` (a namespace has one service of a name).

Checked by TLC only: liveness under fairness (`FinishesUnlessLost`, `DeletionCompletes`,
`EditsArrive`), which is out of the prover's reach; and `TerminatedStays`, which is stated
for a provider that is not restarted and pods that are not edited (after a restart the pod
is created again and starts over).

## 5. Where the code does something else than it says

* `resurrected`: the poll's final `UpdatePod` (remote.go 448) stores the pod it
  works on even when `DeletePod` removed it meanwhile; the pod stays in the
  provider for good. The end-to-end test (test/e2e/basic.go 180) expects a deleted
  pod not to be in the provider's set of pods.
* `failed_init`: an init container that ended in an earlier pass is judged by
  `strconv.Atoi(string(status))` of an `int32` (remote.go 345), which is 0 for every
  small code, so a failed one counts as successful and the main containers start.
  The code logs that all init containers succeeded.
* `leaked_job`: a stop that runs before the submission wrote its `.jid` file gives
  up (door.go 196), and the job runs on after the deletion was reported.
* `stale_update`: an edit that arrives before the first status has reached the API
  server makes `UpdatePod` store a pending pod, which the poll skips (remote.go
  280) from then on.

Also seen, without a text that promises otherwise: after a restart the `.status`
file of the earlier submission is still there, so main containers may run beside
init containers (`NoMainDuringInit`, in no run); a killed job leaves its pod
Running; an init container that could not be submitted is waited for without end.
After two submissions of one instance, by a restart or of two containers of one image, the
`.jid` file names one of the two jobs and no later stop reaches the other, which is why
`SoleSubmissionStoppable` is about a single submission.
The door's `prepare_mounts` takes the first six words of a name for the directory
of the pod (door.go 96), so `BindsPrepared` is stated for namespaces without a
hyphen, and is false in any other: the job of a container with volumes binds
directories nobody made. A volume marked `optional: false` is refused even when its
object exists, and an optional one that is missing is refused too (remote.go
202-207). The error of `UploadData` is dropped (remote.go 216), so a container starts
with a file missing or cut off. The test for a kubeconfig (remote.go 175) runs a
program of the name `test -f .kube/config`, which never exists, so the kubeconfig is
made anew for each container.

In what needs no cluster: `tryReadVariableName` converts one byte to a string (expand.go
100) where its comment speaks of the first rune, which differs outside ASCII. `--env` and
`--bind` without data become an empty word, which the shell drops, so the flag takes the
next word for its data (door.go 79-105): the line of a container without variables (the
containers of the end-to-end tests have none) is refused, because `--env` gets `--bind`,
which is no `key=value`, and for a container without volumes the image is bound and the
first word of its command is the image. `singularity exec` needs a command, so a container
that leaves it to its image is refused. Nothing is quoted (door.go 83, 135): a space in a
variable or a mount ends it, a comma in a mount too, and a comma in a variable unless it is
the only one and its value has no equals sign; `CommandArrives` says that these are all the
cases. An image given by a path without the annotation for its root is only logged, and the
first word of the command takes its place (door.go 175). Which value a variable has that two
services write changes with the order of a Go map (env.go 161). Keys of pods collide when
namespaces have hyphens (`a-b` and `c`, `a` and `b-c`), and images that differ in their
version, or in everything after the port of a registry, name the same remote files. A node
that the configuration file does not name is refused with `Invalid CPU value`: the defaults
of `NewProviderConfig` come after the check that its empty fields do not pass.

## 6. Not modelled

* *Reads* (`GetPod`, `GetPods`, `GetPodStatus`, `GetContainerLogs`, `RunInContainer`): they change no
  state; `GetPod` is the guard of the controller's actions. `GetContainerLogs` uses an
  entry of the map without checking that it is there, after an ssh connection; the
  panic is recovered by the HTTP server and ends the request.
* *Uploads* of the door program, and the kubeconfig: I/O without state the
  properties speak of; that they end the process is part of `Crash`.
* *Resource manager* beyond its two reads of a lister: thin wrappers.
* *Node conditions, addresses, statistics*: fixed or random figures.
* *Command line and tracing exporter*: handed to the virtual-kubelet library.
* *Slurm and MPI flags* of a pod's annotations: copied into the script.

What a further extension could take up: a proof of `TerminatedStays` under the hypothesis
that there are no restarts and edits; and the reads beside the handlers as steps of their own.
