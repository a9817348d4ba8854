--------------------------- MODULE MCContainerData ---------------------------
(* Two pods of one namespace that name a volume alike, with other objects    *)
(* behind it, and a pod of a namespace with a hyphen.                        *)
EXTENDS ContainerData, TLC

CONSTANTS podA, podB, podC, first, second, other, hyphened, settings, secret, k1, k2

Pods == {podA, podB, podC}
Namespaces ==
  (podA :> <<"lab">>) @@ (podB :> <<"lab">>) @@ (podC :> <<"lab", "x">>)
Uids == [u \in Pods |->
  <<"0", "0", "0", "0", CASE u = podA -> "a" [] u = podB -> "b" [] u = podC -> "c">>]
Words == {"lab", "x", "image", "0", "a", "b", "c"}
Containers ==
  (podA :> <<first, second>>) @@ (podB :> <<other>>) @@ (podC :> <<hyphened>>)
ContainerSet == {first, second, other, hyphened}
Images == [c \in ContainerSet |-> <<"image">>]

Volumes_ == {"conf", "scratch", "token"}
MountLists ==
  (first :> <<"scratch", "conf">>) @@ (second :> <<"conf">>)
  @@ (other :> <<"token", "conf">>) @@ (hyphened :> <<"conf">>)

From(o, optional) == [kind |-> "object", name |-> o, optional |-> optional]
Plain(kind) == [kind |-> kind, name |-> None, optional |-> None]
Rest == ("scratch" :> Plain("emptyDir")) @@ ("token" :> Plain("other"))
Sources ==
  (podA :> (("conf" :> From(settings, TRUE)) @@ Rest))
  @@ (podB :> (("conf" :> From(secret, None)) @@ Rest))
  @@ (podC :> (("conf" :> From(secret, FALSE)) @@ Rest))

ObjectNames == {settings, secret}
Keys == {k1, k2}
KeySymmetry == Permutations(Keys)
AllFaults == {"sftp", "ssh", "crash"}

=============================================================================
