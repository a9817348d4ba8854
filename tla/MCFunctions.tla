----------------------------- MODULE MCFunctions -----------------------------
(* What KNoC computes without the cluster, for every small input. A          *)
(* behaviour populates the environment of a pod; when the pod has no entries *)
(* it goes on to write other inputs: a string over one of the alphabets,     *)
(* byte by byte, the spec of a container for the door, or a configuration.   *)
EXTENDS MCPodEnv, Names, BatchScript, NodeConfig

CONSTANTS
  Alphabets,  \* the bytes a string may be made of, one set per kind of string
  MaxLen,     \* bound: the length of a string over an alphabet
  MaxList,    \* bound: the variables, mounts, command words or arguments
  Assigned,   \* the variables of a container, as name=value
  Mounted,    \* its mounts, as directory:path
  Spoken,     \* the words of its command and its arguments
  Images,     \* its image, with the root the pod gives for it, if it does
  Contents    \* what the file of the provider's configuration may hold

ASSUME AlphabetAssumption ==
  /\ \A s \in Alphabets : s \subseteq 0..255
  /\ MaxLen \in [Alphabets -> Nat] /\ MaxList \in Nat

(* The door writes the equals sign of a variable and the colon of a mount.   *)
ASSUME WordAssumption ==
  /\ Assigned \cup Mounted \cup Spoken \subseteq Seq(Tame)
  /\ \A v \in Assigned : \E i \in DOMAIN v : v[i] = equals
  /\ <<>> \notin Mounted
  /\ \A i \in Images : /\ i = [image |-> i.image, root |-> i.root]
                        /\ i.image # <<>> /\ i.root \cup {i.image} \subseteq Seq(Tame)
                        /\ \A root, other \in i.root : root = other

VARIABLES alphabet, input, container, file
written == <<alphabet, input, container, file>>

Letter == 65
References == {operator, referenceOpener, referenceCloser, Letter}
Paths == {hyphen, slash, colon, Letter}
SmallAlphabets == {References, Paths}
SmallLen == (References :> 8) @@ (Paths :> 7)

(* Variables, mounts and words of a container, some with the spaces and      *)
(* commas that the door joins them with: "sleep 30" is one word of          *)
(* examples/busyecho_k8s.yaml. Images of a registry, and under a path with   *)
(* and without a root.                                                      *)
Values == {<<>>, <<comma>>, <<comma, Letter, equals>>, <<space, Letter>>}
SomeAssigned == {<<Letter, equals>> \o value : value \in Values}
SomeMounted == {<<Letter>>, <<Letter, comma, Letter>>, <<Letter, space, Letter>>}
SomeSpoken == {<<>>, <<Letter, space, 66>>}
SomeImages ==
  {[image |-> <<Letter>>, root |-> {}], [image |-> <<slash, Letter>>, root |-> {}]}
    \cup {[image |-> <<slash, Letter>>, root |-> {root}] : root \in {<<slash>>, <<dash>>, <<slash, space>>}}

(* Files that name this node, another one, both or none.                     *)
ThisNode == "vk-knoc"
SomeQuantities == {"2", "20", "100Gi"}
SmallContents ==
  LET records == [Resource -> {"", "2", "two"}]
  IN UNION {[nodes -> records] : nodes \in SUBSET {ThisNode, "other"}}

Bare == [env |-> <<>>, mounts |-> <<>>, image |-> <<Letter, slash>>, root |-> {},
         command |-> <<>>, args |-> <<>>]

MCInit ==
  /\ Init
  /\ alphabet = {} /\ input = <<>> /\ container = Bare /\ file = {}

(* The call of a pod without entries is over: other inputs may be written.   *)
Idle ==
  /\ pc = "done" /\ done = <<NoVars>> /\ events = <<>>
  /\ pod.ns = "own" /\ ~pod.links /\ pod.containers[1].env = <<>>
  /\ \A r \in DOMAIN store : store[r].st = "NotFound"

Choose ==
  /\ alphabet = {} /\ container = Bare /\ file = {}
  /\ \/ alphabet' \in Alphabets /\ UNCHANGED <<container, file>>
     \/ \E content \in Contents : file' = {content} /\ UNCHANGED <<alphabet, container>>
     \/ \E i \in Images : /\ container' = [Bare EXCEPT !.image = i.image, !.root = i.root]
                          /\ UNCHANGED <<alphabet, file>>
  /\ UNCHANGED input

Type ==
  /\ alphabet # {} /\ Len(input) < MaxLen[alphabet]
  /\ \E byte \in alphabet : input' = Append(input, byte)
  /\ UNCHANGED <<alphabet, container, file>>

Extend(field, words) ==
  /\ alphabet = {} /\ file = {}
  /\ Len(container[field]) < MaxList
  /\ \E w \in words : container' = [container EXCEPT ![field] = Append(@, w)]
  /\ UNCHANGED <<alphabet, input, file>>

Write ==
  \/ Choose
  \/ Type
  \/ Extend("env", Assigned)
  \/ Extend("mounts", Mounted)
  \/ \E field \in {"command", "args"} : Extend(field, Spoken)

MCNext ==
  \/ PopulateEnvironmentVariables /\ UNCHANGED written
  \/ Idle /\ Write /\ UNCHANGED vars

MCSpec == MCInit /\ [][MCNext]_<<vars, written>>

(* Two maps: both know "A", and give it values that look like references;    *)
(* the second one also knows the empty name and the name "(A".               *)
Context ==
  LET first == [name \in {<<Letter>>} |-> <<operator, referenceOpener, Letter, referenceCloser>>]
      second == [name \in {<<Letter>>, <<>>, <<referenceOpener, Letter>>} |->
                   IF name = <<Letter>> THEN <<Letter>>
                   ELSE IF name = <<>> THEN <<operator>> ELSE <<>>]
  IN <<first, second>>

-----------------------------------------------------------------------------
(* The syntax without cursors: a string is a sequence of tokens, and each    *)
(* token is expanded by itself. Tokens[i] are the tokens from byte i on.     *)
Tokens(s) ==
  LET n == Len(s)
      close(i) == {j \in i+2..n : s[j] = referenceCloser}
      from[i \in 1..n+1] ==
        IF i > n THEN <<>>
        ELSE IF s[i] # operator \/ i = n
        THEN <<[kind |-> "text", text |-> <<s[i]>>]>> \o from[i + 1]
        ELSE IF s[i + 1] = referenceOpener /\ close(i) # {}
        THEN <<[kind |-> "name", text |-> SubSeq(s, i + 2, Min(close(i)) - 1)]>>
               \o from[Min(close(i)) + 1]
        ELSE <<[kind |-> IF s[i + 1] = operator THEN "escape" ELSE "text",
                text |-> <<operator>> \o RuneOf(s[i + 1])]>> \o from[i + 2]
  IN from[1]

Meaning(t) ==
  CASE t.kind = "text" -> t.text
    [] t.kind = "escape" -> <<operator>>
    [] t.kind = "name" -> LET knows == {i \in DOMAIN Context : t.text \in DOMAIN Context[i]}
                          IN IF knows = {} THEN syntaxWrap(t.text)
                             ELSE Context[Min(knows)][t.text]

Joined(s) ==
  LET ts == Tokens(s)
      upto[i \in 0..Len(ts)] == IF i = 0 THEN <<>> ELSE upto[i - 1] \o Meaning(ts[i])
  IN upto[Len(ts)]

Escape(s) ==
  LET upto[i \in 0..Len(s)] ==
        IF i = 0 THEN <<>>
        ELSE upto[i - 1] \o (IF s[i] = operator THEN <<operator, operator>> ELSE <<s[i]>>)
  IN upto[Len(s)]

(* The loop with its cursor and checkpoint writes each token of the input    *)
(* once, in order, and never reads what it has written (expand.go 38-73).    *)
ExpandsTokens == Expand(input, Context) = Joined(input)

(* Doubling each operator protects any text, in any encoding, wherever the   *)
(* loop's steps over it fall (expand.go 49-66, 83-85).                       *)
EscapeProtects == Expand(Escape(input), Context) = input

(* A reference to a name no map knows is given back as it was written, as    *)
(* is everything else in ASCII that holds no escape (expand.go 18-33,        *)
(* 86-100).                                                                  *)
UnknownIsKept ==
  /\ \A i \in DOMAIN input : input[i] < 128
  /\ \A i \in 1..Len(input)-1 : input[i] = operator => input[i + 1] # operator
  => Expand(input, <<>>) = input

-----------------------------------------------------------------------------
(* The names of a pod that make a key are found again in it, although they   *)
(* are just joined, when no namespace has a hyphen (common/utils.go 105-120).*)
KeysTellPods ==
  LET namespace(n) == SubSeq(input, 1, n)
      name(m) == SubSeq(input, m, Len(input))
      plain(n) == \A i \in 1..n : input[i] # hyphen
      key(n, m) == plain(n) /\ BuildKeyFromNames(namespace(n), name(m)) = input
  IN \A n \in 1..Len(input)-2, m \in 2..Len(input) : key(n, m) =>
       \A k \in 1..Len(input)-2, l \in 2..Len(input) : key(k, l) => n = k /\ m = l

(* An image gives the files of its container one name in one directory, and  *)
(* images without versions and hyphens give different ones (remote.go 51-65).*)
ImagesNameFiles ==
  LET name == NormalizeImageName(input) IN
  /\ \A i \in DOMAIN name : name[i] \notin {slash, colon}
  /\ (\A i \in DOMAIN input : input[i] \notin {hyphen, colon}) =>
       [i \in DOMAIN name |-> IF name[i] = hyphen THEN slash ELSE name[i]] = input

(* The line runs a container as its spec says, with its variables, mounts,   *)
(* image and the words of its command, exactly when it has some of each of   *)
(* the first two and of the last, nothing holds a space but the command, no  *)
(* mount and no variable holds a comma, unless that is the only variable and *)
(* its value holds no equals sign, and the image is not taken for a flag: in *)
(* every other case singularity refuses the line or runs something else      *)
(* (door.go 78-105, 135, 162-184). A path without a root is no image.        *)
CommandArrives ==
  LET words(list) == FlattenSeq([i \in DOMAIN list |-> Words(list[i], space)])
      command == words(container.command \o container.args)
      has(word, byte) == \E i \in DOMAIN word : word[i] = byte
      none(list, byte) == \A i \in DOMAIN list : ~has(list[i], byte)
      alone(list) ==
        Len(list) = 1 /\ \E i \in DOMAIN list[1] : {j \in DOMAIN list[1] : list[1][j] = equals} = {i}
      own == IF container.image[1] = slash
             THEN {root \o container.image : root \in container.root}
             ELSE {Docker \o container.image}
      ran == Singularity(Shell(produce_slurm_script(container)))
  IN (\E image \in own :
        [env |-> container.env, bind |-> container.mounts, image |-> image, args |-> command] \in ran)
     <=> /\ container.env # <<>> /\ container.mounts # <<>> /\ command # <<>>
         /\ none(container.env, space) /\ none(container.mounts, space)
         /\ none(container.mounts, comma)
         /\ none(container.env, comma) \/ alone(container.env)
         /\ \E image \in own : ~has(image, space) /\ ~IsFlag(image)

-----------------------------------------------------------------------------
(* The provider starts exactly when the file names its node, with nothing    *)
(* that does not parse, and then the capacity of the node, asked for at any  *)
(* later time, never ends the process and is what the file gives or else the *)
(* default (knoc.go 61-129, 459-465).                                        *)
CapacityAsConfigured ==
  LET starts == NewProvider(file, ThisNode)
      named(r) == {content[ThisNode][r] : content \in {c \in file : ThisNode \in DOMAIN c}}
  IN /\ (starts # {}) =
          \A r \in Resource : named(r) # {} /\ named(r) \subseteq Quantity \cup {""}
     /\ \A config \in starts :
          /\ capacity(config) # {}
          /\ \A c \in capacity(config), r \in Resource :
               {c[r]} = IF named(r) = {""} THEN {Default[r]} ELSE named(r)

=============================================================================
