------------------------------ MODULE NodeConfig ------------------------------
(***************************************************************************)
(* The configuration of a node (knoc.go, common/common.go): what the       *)
(* provider takes from its file, once, when it starts, and reports as the  *)
(* capacity of its node each time the controller asks. A quantity is a     *)
(* string, which Kubernetes parses or does not. A file's content is a      *)
(* function from the nodes it names to their records. What may fail gives  *)
(* the set of its result, empty when it fails; so is a file, empty when it *)
(* cannot be read or is not JSON.                                          *)
(***************************************************************************)

CONSTANT Quantity   \* the strings that ParseQuantity accepts

Resource == {"cpu", "memory", "pods"}
Default == [cpu |-> "20", memory |-> "100Gi", pods |-> "20"]

ASSUME QuantityAssumption ==
  {Default[r] : r \in Resource} \subseteq Quantity /\ "" \notin Quantity

WithDefaults(config) == [r \in Resource |-> IF config[r] = "" THEN Default[r] ELSE config[r]]

(* A node that the file does not name has no quantities at all: the        *)
(* defaults are for what its record leaves out.                            *)
ConfigOf(content, node) ==
  IF node \in DOMAIN content THEN WithDefaults(content[node]) ELSE [r \in Resource |-> ""]

(* Mutant: the number of pods is not parsed. *)
loadConfig_anyPods(file, node) ==
  {config \in {ConfigOf(content, node) : content \in file} :
     \A r \in Resource \ {"pods"} : config[r] \in Quantity}

loadConfig(file, node) ==
  {config \in {ConfigOf(content, node) : content \in file} :
     \A r \in Resource : config[r] \in Quantity}

NewProviderConfig(config) == WithDefaults(config)
NewProvider(file, node) == {NewProviderConfig(config) : config \in loadConfig(file, node)}

(* MustParse ends the process on what it cannot parse. *)
capacity(config) == {c \in {config} : \A r \in Resource : c[r] \in Quantity}

=============================================================================
