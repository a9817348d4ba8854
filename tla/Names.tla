-------------------------------- MODULE Names --------------------------------
(***************************************************************************)
(* The names KNoC makes of the names of others: the key of a pod in the    *)
(* provider's map (common/utils.go) and the instance name of a container,  *)
(* which names its remote files (remote.go). A string is the sequence of   *)
(* its bytes.                                                              *)
(***************************************************************************)
EXTENDS Integers, Sequences, FiniteSetsExt

hyphen == 45
slash == 47
colon == 58

(* Mutant: the two names are joined without a separator. *)
BuildKeyFromNames_joined(namespace, name) == namespace \o name

BuildKeyFromNames(namespace, name) == namespace \o <<hyphen>> \o name

(* Mutant: the version is cut off at the last colon. *)
NormalizeImageName_last(image) ==
  LET dashed == [i \in DOMAIN image |-> IF image[i] = slash THEN hyphen ELSE image[i]]
      colons == {i \in DOMAIN image : image[i] = colon}
  IN IF colons = {} THEN dashed ELSE SubSeq(dashed, 1, Max(colons) - 1)

(* Slashes become hyphens, and what follows the first colon is cut off: the *)
(* version of an image, and all but the host of a registry with a port.     *)
NormalizeImageName(image) ==
  LET dashed == [i \in DOMAIN image |-> IF image[i] = slash THEN hyphen ELSE image[i]]
      colons == {i \in DOMAIN image : image[i] = colon}
  IN IF colons = {} THEN dashed ELSE SubSeq(dashed, 1, Min(colons) - 1)

=============================================================================
