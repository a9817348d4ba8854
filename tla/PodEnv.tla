------------------------------- MODULE PodEnv -------------------------------
(***************************************************************************)
(* PopulateEnvironmentVariables (internal/podutils/env.go): the variables  *)
(* of each container of a pod, from config maps, secrets, services, fields *)
(* of the pod and literal values. One container after the other, one entry *)
(* of its spec per step; the first entry that cannot be resolved ends the  *)
(* call. Nothing in the repository calls it yet.                           *)
(*                                                                         *)
(* Config maps and secrets are read by two copies of the same code; here   *)
(* both are objects, named by a reference.                                 *)
(***************************************************************************)
EXTENDS Expansion, SequencesExt

CONSTANTS
  Pods,        \* the pods a call may be given
  Stores,      \* what the lister may hold: an object, or why there is none
  Clusters,    \* the sets of services there may be
  Fields,      \* the fields of a pod a variable may take its value from
  Digit        \* a byte no variable name may start with

IsMap(m) == DOMAIN m \subseteq String /\ m \in [DOMAIN m -> String]

(* What the API server lets into a pod: at least one container, and entries *)
(* that refer to objects of its namespace by name.                         *)
ASSUME PodAssumption ==
  \A p \in Pods, objects \in Stores :
    /\ p.containers # <<>> /\ p.links \in BOOLEAN
    /\ p.containers \in
         Seq([envFrom : Seq([ref : DOMAIN objects, optional : BOOLEAN, prefix : String]),
              env : Seq([name : String, from : {"value", "key", "field", "resource"},
                         value : String, ref : DOMAIN objects, key : String,
                         optional : BOOLEAN])])

(* Config maps, secrets and fields hold strings by name.                   *)
ASSUME ObjectAssumption ==
  /\ \A objects \in Stores : \A r \in DOMAIN objects : IsMap(objects[r].data)
  /\ IsMap(Fields)

(* A namespace has one service of a name. Its vars are the variables that   *)
(* Kubernetes' envvars package makes of it: host, port, links. Two services *)
(* may share some: foo and foo-service both write FOO_SERVICE_PORT.        *)
ASSUME ServiceAssumption ==
  \A cluster \in Clusters :
    /\ IsFiniteSet(cluster)
    /\ \A s \in cluster : s.ip \in String /\ IsMap(s.vars)
    /\ \A s, t \in cluster : s.name = t.name /\ s.ns = t.ns => s = t

VARIABLES
  pod,       \* the pod of this call
  store,     \* the lister's objects in the namespace of the pod
  services,  \* the services of the cluster
  pc,        \* the part of the work on a container the call is in
  idx,       \* the entry of that part that is next
  res,       \* the variables of the container so far
  svcEnv,    \* the variables of the services
  done,      \* the variables written to the containers before this one
  events     \* what the recorder was told

vars == <<pod, store, services, pc, idx, res, svcEnv, done, events>>
given == <<pod, store, services>>

NoVars == [n \in {} |-> <<>>]
One(name, value) == [n \in {name} |-> value]

(* A map after the entries of another are set in it.                       *)
With(m, entries) ==
  [n \in DOMAIN m \cup DOMAIN entries |-> IF n \in DOMAIN entries THEN entries[n] ELSE m[n]]

masterServices == {"kubernetes"}

(* The container at work. Init containers come before the main ones. *)
Container == pod.containers[Len(done) + 1]

Init ==
  /\ pod \in Pods /\ store \in Stores /\ services \in Clusters
  /\ pc = "envFrom" /\ idx = 1
  /\ res = NoVars /\ svcEnv = NoVars
  /\ done = <<>> /\ events = <<>>

Event(optional, why) == [kind |-> IF optional THEN "Optional" ELSE "Mandatory", why |-> why]

-----------------------------------------------------------------------------
(* ".envFrom": every key of an object, with a prefix.                      *)

IsEnvVarName(name) == name # <<>> /\ name[1] # Digit

Prefixed(s) == {s.prefix \o k : k \in DOMAIN store[s.ref].data}

ValidNames(s) == {n \in Prefixed(s) : IsEnvVarName(n)}

FromObject(s) ==
  [n \in ValidNames(s) |-> store[s.ref].data[SubSeq(n, Len(s.prefix) + 1, Len(n))]]

(* Mutant: an object that cannot be read is skipped without a word. *)
makeEnvironmentMapBasedOnEnvFrom_silent ==
  LET s == Container.envFrom[idx] IN
  /\ pc = "envFrom" /\ idx <= Len(Container.envFrom)
  /\ idx' = idx + 1
  /\ \/ /\ store[s.ref].st = "Found"
        /\ res' = With(res, FromObject(s))
        /\ events' = IF ValidNames(s) = Prefixed(s) THEN events
                     ELSE Append(events, [kind |-> "Names", why |-> Prefixed(s) \ ValidNames(s)])
        /\ pc' = pc
     \/ /\ store[s.ref].st # "Found"
        /\ pc' = IF s.optional THEN pc ELSE "failed"
        /\ UNCHANGED <<res, events>>
  /\ UNCHANGED <<given, svcEnv, done>>

makeEnvironmentMapBasedOnEnvFrom ==
  LET s == Container.envFrom[idx] IN
  /\ pc = "envFrom" /\ idx <= Len(Container.envFrom)
  /\ idx' = idx + 1
  /\ \/ /\ store[s.ref].st = "Found"
        /\ res' = With(res, FromObject(s))
        /\ events' = IF ValidNames(s) = Prefixed(s) THEN events
                     ELSE Append(events, [kind |-> "Names", why |-> Prefixed(s) \ ValidNames(s)])
        /\ pc' = pc
     \/ /\ store[s.ref].st # "Found"
        /\ events' = Append(events, Event(s.optional, store[s.ref].st))
        /\ pc' = IF s.optional THEN pc ELSE "failed"
        /\ UNCHANGED res
  /\ UNCHANGED <<given, svcEnv, done>>

-----------------------------------------------------------------------------
(* The services a pod sees: those of its namespace, when it wants links,    *)
(* and the master service of the default namespace in any case.             *)

(* Mutant: the master service replaces one the pod's namespace has. *)
MappedServices_master(list) ==
  LET map[i \in 0..Len(list)] ==
        LET s == list[i]
            m == map[i - 1]
        IN IF i = 0 THEN NoVars
           ELSE IF s.ip = <<>> THEN m
           ELSE IF s.ns = "default" /\ s.name \in masterServices
           THEN With(m, One(s.name, s))
           ELSE IF s.ns = pod.ns /\ pod.links THEN With(m, One(s.name, s))
           ELSE m
  IN map[Len(list)]

(* The loop over the services, in the order of the list. *)
MappedServices(list) ==
  LET map[i \in 0..Len(list)] ==
        LET s == list[i]
            m == map[i - 1]
        IN IF i = 0 THEN NoVars
           ELSE IF s.ip = <<>> THEN m
           ELSE IF s.ns = "default" /\ s.name \in masterServices
           THEN With(One(s.name, s), m)
           ELSE IF s.ns = pod.ns /\ pod.links THEN With(m, One(s.name, s))
           ELSE m
  IN map[Len(list)]

(* The variables of services one after the other: the last to write one     *)
(* sets it.                                                                *)
FromServices(order) ==
  LET writers(v) == {i \in DOMAIN order : v \in DOMAIN order[i].vars}
  IN [v \in UNION {DOMAIN order[i].vars : i \in DOMAIN order} |->
        order[Max(writers(v))].vars[v]]

(* The lister gives the services in any order, and Go the entries of a map. *)
getServiceEnvVarMap ==
  /\ pc = "envFrom" /\ idx > Len(Container.envFrom)
  /\ \E list \in SetToSeqs(services) :
       LET mapped == MappedServices(list) IN
       \E order \in SetToSeqs({mapped[n] : n \in DOMAIN mapped}) :
         svcEnv' = FromServices(order)
  /\ pc' = "env" /\ idx' = 1
  /\ UNCHANGED <<given, res, done, events>>

-----------------------------------------------------------------------------
(* ".env": one variable per entry, in order.                               *)

Value(v) == [out |-> "value", val |-> v, told |-> <<>>]
Nothing(told) == [out |-> "nothing", val |-> <<>>, told |-> told]
Error(told) == [out |-> "error", val |-> <<>>, told |-> told]

FromKeyRef(e) ==
  LET o == store[e.ref]
      why == IF o.st = "Found" THEN "KeyNotFound" ELSE o.st
      told == <<Event(e.optional, why)>>
  IN IF o.st = "Found" /\ e.key \in DOMAIN o.data THEN Value(o.data[e.key])
     ELSE IF e.optional THEN Nothing(told) ELSE Error(told)

podFieldSelectorRuntimeValue(path) ==
  IF path \in DOMAIN Fields THEN Value(Fields[path]) ELSE Error(<<>>)

getEnvironmentVariableValueWithValueFrom(e) ==
  CASE e.from = "key" -> FromKeyRef(e)
    [] e.from = "field" -> podFieldSelectorRuntimeValue(e.key)
    [] e.from = "resource" -> Nothing(<<>>)

getEnvironmentVariableValue(e) ==
  IF e.from = "value" THEN Value(Expand(e.value, <<res, svcEnv>>))
                      ELSE getEnvironmentVariableValueWithValueFrom(e)

(* Mutant: a missing optional key ends the call as a mandatory one does. *)
makeEnvironmentMap_strict ==
  LET e == Container.env[idx]
      v == getEnvironmentVariableValue(e)
  IN /\ pc = "env" /\ idx <= Len(Container.env)
     /\ idx' = idx + 1
     /\ res' = IF v.out = "value" THEN With(res, One(e.name, v.val)) ELSE res
     /\ events' = events \o v.told
     /\ pc' = IF v.out = "value" THEN pc ELSE "failed"
     /\ UNCHANGED <<given, svcEnv, done>>

makeEnvironmentMap ==
  LET e == Container.env[idx]
      v == getEnvironmentVariableValue(e)
  IN /\ pc = "env" /\ idx <= Len(Container.env)
     /\ idx' = idx + 1
     /\ res' = IF v.out = "value" THEN With(res, One(e.name, v.val)) ELSE res
     /\ events' = events \o v.told
     /\ pc' = IF v.out = "error" THEN "failed" ELSE pc
     /\ UNCHANGED <<given, svcEnv, done>>

(* Mutants: the variables of a service win over the container's own; those  *)
(* of a container are still there for the next one.                         *)
populateContainerEnvironment_services ==
  /\ pc = "env" /\ idx > Len(Container.env)
  /\ done' = Append(done, With(res, svcEnv))
  /\ pc' = IF Len(done') = Len(pod.containers) THEN "done" ELSE "envFrom"
  /\ idx' = 1
  /\ res' = NoVars /\ svcEnv' = NoVars
  /\ UNCHANGED <<given, events>>
populateContainerEnvironment_past ==
  /\ pc = "env" /\ idx > Len(Container.env)
  /\ done' = Append(done, With(svcEnv, res))
  /\ pc' = "envFrom"
  /\ idx' = 1
  /\ res' = NoVars /\ svcEnv' = NoVars
  /\ UNCHANGED <<given, events>>

(* The service variables the container has not set itself are added, the   *)
(* result replaces its ".env", and the next container is up.               *)
populateContainerEnvironment ==
  /\ pc = "env" /\ idx > Len(Container.env)
  /\ done' = Append(done, With(svcEnv, res))
  /\ pc' = IF Len(done') = Len(pod.containers) THEN "done" ELSE "envFrom"
  /\ idx' = 1
  /\ res' = NoVars /\ svcEnv' = NoVars
  /\ UNCHANGED <<given, events>>

PopulateEnvironmentVariables ==
  \/ makeEnvironmentMapBasedOnEnvFrom
  \/ getServiceEnvVarMap
  \/ makeEnvironmentMap
  \/ populateContainerEnvironment

Spec == Init /\ [][PopulateEnvironmentVariables]_vars

-----------------------------------------------------------------------------
(* Properties, against what the spec of a container declares.               *)

TypeOK ==
  /\ pc \in {"envFrom", "env", "done", "failed"}
  /\ Len(done) <= Len(pod.containers) /\ (pc = "done") = (Len(done) = Len(pod.containers))
  /\ pc \in {"envFrom", "env"} => idx \in 1..1 + Len(Container.envFrom) + Len(Container.env)
  /\ \A n \in DOMAIN res : n \in String /\ res[n] \in String

IsMissing(r) == store[r].st # "Found"
KeyIsMissing(e) == IsMissing(e.ref) \/ e.key \notin DOMAIN store[e.ref].data

(* The service of a name a pod sees: its namespace's own before the master. *)
Seen(name) ==
  LET own == {s \in services : s.name = name /\ s.ip # <<>> /\ s.ns = pod.ns /\ pod.links}
      master == {s \in services : /\ s.name = name /\ s.name \in masterServices
                                  /\ s.ns = "default" /\ s.ip # <<>>}
  IN IF own # {} THEN own ELSE master

SeenServices == UNION {Seen(s.name) : s \in services}
SeenVars == UNION {DOMAIN s.vars : s \in SeenServices}
ValuesOf(v) == {s.vars[v] : s \in {t \in SeenServices : v \in DOMAIN t.vars}}

(* What a container may learn of the services it sees: each variable that   *)
(* one of them writes, with the value of one that writes it.               *)
ServiceEnvs ==
  {env \in [SeenVars -> UNION {ValuesOf(v) : v \in SeenVars}] :
     \A v \in SeenVars : env[v] \in ValuesOf(v)}

(* In whatever order the lister gives the services and Go the entries of a  *)
(* map, a container learns of the same services: a namespace's own hides    *)
(* the master of the same name, and one without an address is not there     *)
(* (env.go 138-167). The order decides only which value a variable has that *)
(* several of them write.                                                   *)
ServicesInAnyOrder == pc = "env" => svcEnv \in ServiceEnvs

(* The variables of a container: for each name the last entry that gives it, *)
(* ".env" after ".envFrom", where a value may refer to what earlier entries  *)
(* gave and to services; then the services nobody overrides (env.go 106:     *)
(* "Values in "env" (sourced from ".env") will override any values with the  *)
(* same key defined in "envFrom" (sourced from ".envFrom")", 310-331).       *)
Declared(c, fromServices) ==
  LET k == Len(c.envFrom)
      gives(i) ==
        IF i <= k THEN IF IsMissing(c.envFrom[i].ref) THEN {} ELSE ValidNames(c.envFrom[i])
        ELSE LET e == c.env[i - k] IN
             IF \/ e.from = "resource"
                \/ e.from = "key" /\ KeyIsMissing(e) THEN {} ELSE {e.name}
      upto[j \in 0..k + Len(c.env)] ==
        [n \in UNION {gives(i) : i \in 1..j} |->
           LET i == Max({i \in 1..j : n \in gives(i)}) IN
           IF i <= k THEN FromObject(c.envFrom[i])[n]
           ELSE LET e == c.env[i - k] IN
                CASE e.from = "value" -> Expand(e.value, <<upto[i - 1], fromServices>>)
                  [] e.from = "key" -> store[e.ref].data[e.key]
                  [] e.from = "field" -> Fields[e.key]]
      own == upto[k + Len(c.env)]
  IN With(fromServices, own)

PopulatedAsDeclared ==
  \A i \in DOMAIN done :
    \E env \in ServiceEnvs : done[i] = Declared(pod.containers[i], env)

(* A container with a reference that must be resolved and cannot be.        *)
Broken(c) ==
  \/ \E i \in DOMAIN c.envFrom : ~c.envFrom[i].optional /\ IsMissing(c.envFrom[i].ref)
  \/ \E i \in DOMAIN c.env :
       \/ c.env[i].from = "key" /\ ~c.env[i].optional /\ KeyIsMissing(c.env[i])
       \/ c.env[i].from = "field" /\ c.env[i].key \notin DOMAIN Fields

(* The call fails for a mandatory reference and for nothing else, with the  *)
(* containers before that one populated and those after it untouched        *)
(* (env.go 78-88, 200-207, 389-396, 412-415).                               *)
StopsAtFirstBroken ==
  /\ pc = "failed" => Broken(Container)
  /\ \A i \in DOMAIN done : ~Broken(pod.containers[i])

Skipped(c) ==
  {<<"envFrom", i>> : i \in {j \in DOMAIN c.envFrom :
                              c.envFrom[j].optional /\ IsMissing(c.envFrom[j].ref)}}
  \cup {<<"env", i>> : i \in {j \in DOMAIN c.env :
                              /\ c.env[j].from = "key" /\ c.env[j].optional
                              /\ KeyIsMissing(c.env[j])}}

(* Every optional reference that is passed over leaves one event, and a     *)
(* call that fails for an object leaves one that says so (env.go 39-66).    *)
EventsTellSkips ==
  LET count(kind) == Cardinality({i \in DOMAIN events : events[i].kind = kind})
      skipped == UNION {{i} \X Skipped(pod.containers[i]) : i \in DOMAIN done}
  IN
  /\ pc = "done" => count("Optional") = Cardinality(skipped)
  /\ pc = "failed" /\ count("Mandatory") = 0 =>
       \E i \in DOMAIN Container.env : Container.env[i].from = "field"
  /\ count("Mandatory") > 0 => pc = "failed" /\ Last(events).kind = "Mandatory"

=============================================================================
