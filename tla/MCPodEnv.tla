------------------------------ MODULE MCPodEnv ------------------------------
(* Small instances of PodEnv: the entries a container may have, the objects *)
(* they refer to and the services of the cluster.                           *)
EXTENDS PodEnv

letterA == <<97>>
letterB == <<98>>
one == <<49>>        \* a key that is no name of a variable by itself
letterX == <<120>>
Ref(name) == <<operator, referenceOpener>> \o name \o <<referenceCloser>>
OneByte == 49

Object(data) == [st |-> "Found", data |-> data]
NotThere(why) == [st |-> why, data |-> NoVars]

(* A config map and a secret, each there or not. *)
SmallStores ==
  {[cm |-> c, sec |-> s] :
     c \in {Object((letterA :> letterX) @@ (one :> Ref(letterA))), NotThere("NotFound")},
     s \in {Object(letterB :> letterB), NotThere("NotFound"), NotThere("FailedToRead")}}

Source(ref, optional, prefix) == [ref |-> ref, optional |-> optional, prefix |-> prefix]
Literal(name, value) ==
  [name |-> name, from |-> "value", value |-> value, ref |-> "cm", key |-> letterA, optional |-> FALSE]
KeyOf(name, ref, key, optional) ==
  [name |-> name, from |-> "key", value |-> <<>>, ref |-> ref, key |-> key, optional |-> optional]
FieldOf(name, field) ==
  [name |-> name, from |-> "field", value |-> <<>>, ref |-> "cm", key |-> field, optional |-> FALSE]
ResourceOf(name) ==
  [name |-> name, from |-> "resource", value |-> <<>>, ref |-> "cm", key |-> letterA, optional |-> FALSE]

Sources == {Source("cm", FALSE, <<>>), Source("cm", TRUE, letterB), Source("sec", TRUE, <<>>)}
Entries == {Literal(letterA, Ref(letterB) \o letterX),
            Literal(letterB, Ref(letterA) \o Ref(letterB)),
            KeyOf(letterB, "cm", letterA, FALSE), KeyOf(letterA, "sec", letterB, TRUE),
            FieldOf(letterA, letterX), FieldOf(letterA, letterB), ResourceOf(letterB)}

(* One container with up to two entries of each kind; two containers with   *)
(* at most one of each.                                                     *)
Spec1 == [envFrom : BoundedSeq(Sources, 2), env : BoundedSeq(Entries, 2)]
Spec2 == [envFrom : BoundedSeq(Sources, 1), env : BoundedSeq(Entries, 1)]

SmallPods == [ns : {"default", "own"}, links : BOOLEAN,
              containers : {<<c>> : c \in Spec1} \cup (Spec2 \X Spec2)]

(* Services with some of their variables: <<107>> stands for                *)
(* KUBERNETES_SERVICE_HOST, <<102>> for FOO_SERVICE_HOST and letterB for     *)
(* FOO_SERVICE_PORT, which the service foo-service writes, too, for its link. *)
Service(name, ns, ip, variables) ==
  [name |-> name, ns |-> ns, ip |-> ip, vars |-> variables]
Master == Service("kubernetes", "default", letterX, <<107>> :> letterX)
Own == Service("kubernetes", "own", letterA, <<107>> :> letterA)
Foo == Service("foo", "own", letterX, (<<102>> :> letterX) @@ (letterB :> letterB))
FooService == Service("foo-service", "own", letterA, letterB :> letterX)
NoAddress == Service("kubernetes", "own", <<>>, <<107>> :> <<>>)
SmallClusters == {{Master, Own}, {Master, Foo, FooService}, {NoAddress, Foo}}

SomeFields == letterX :> letterX

=============================================================================
