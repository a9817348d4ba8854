----------------------------- MODULE BatchScript -----------------------------
(***************************************************************************)
(* The command line the door writes into the batch script of a container   *)
(* (door.go), and what becomes of it: the door joins words with spaces,    *)
(* the shell cuts the line at the spaces again, and singularity reads its  *)
(* flags from what it gets. A string is the sequence of its bytes. A       *)
(* variable (name=value) and a mount (directory:path) are a string each;   *)
(* an annotation is the set of its value, empty when the pod has none.     *)
(***************************************************************************)
EXTENDS Integers, SequencesExt

space == 32
comma == 44
dash == 45
equals == 61
percent == 37
underscore == 95
EnvFlag == <<45, 45, 101, 110, 118>>        \* --env
BindFlag == <<45, 45, 98, 105, 110, 100>>   \* --bind
NoWord == <<>>
Path == 47                                  \* what a path begins with
Docker == <<100, 111, 99, 107, 101, 114, 58, 47, 47>>   \* docker://

Join(words, separator) ==
  IF words = <<>> THEN NoWord
  ELSE Tail(FlattenSeq([i \in DOMAIN words |-> <<separator>> \o words[i]]))

(* The words between separators, without the empty ones. *)
Words(line, separator) ==
  LET add(words, word) == IF word = NoWord THEN words ELSE Append(words, word)
      upto[i \in 0..Len(line)] ==
        IF i = 0 THEN [words |-> <<>>, word |-> NoWord]
        ELSE LET r == upto[i - 1] IN
             IF line[i] = separator
             THEN [words |-> add(r.words, r.word), word |-> NoWord]
             ELSE [r EXCEPT !.word = Append(@, line[i])]
      last == upto[Len(line)]
  IN add(last.words, last.word)

(* Mutant: variables are set apart by spaces. *)
prepare_env_space(c) == <<NoWord, EnvFlag, Join(c.env, space)>>

(* A flag and its data, which is the empty word when there is none. *)
prepare_env(c) == <<NoWord, EnvFlag, Join(c.env, comma)>>
prepare_mounts(c) == <<NoWord, BindFlag, Join(c.mounts, comma)>>

(* The image: a path under the root that an annotation of the pod gives,   *)
(* or a name in a registry. A path without a root is only logged.          *)
ImageWord(c) ==
  IF c.image # <<>> /\ Head(c.image) = Path
  THEN IF c.root = {} THEN NoWord ELSE (CHOOSE root \in c.root : TRUE) \o c.image
  ELSE Docker \o c.image

(* The words after "singularity exec". *)
create_container(c) ==
  prepare_env(c) \o prepare_mounts(c) \o <<ImageWord(c)>> \o c.command \o c.args

produce_slurm_script(c) == Join(create_container(c), space)

(* bash cuts the line at its spaces. What it does with quotes, dollars and  *)
(* its other special bytes is left out: a word here has only Tame ones.     *)
Tame == {space, percent, equals, underscore} \cup 43..58 \cup 64..90 \cup 97..122
Shell(line) == Words(line, space)

IsFlag(word) == Len(word) > 1 /\ word[1] = dash

(* What singularity makes of the data of --env, which is key=value, or       *)
(* several of them with commas between: nothing when it refuses it. One      *)
(* equals sign makes all of it one variable, commas included; with more, no  *)
(* piece may be empty or without one.                                      *)
Assignments(data) ==
  LET at(word) == {i \in DOMAIN word : word[i] = equals}
      pieces == Words(data, comma)
  IN IF \E i \in DOMAIN data : at(data) = {i} THEN {<<data>>}
     ELSE IF /\ data # NoWord /\ Join(pieces, comma) = data
             /\ \A i \in DOMAIN pieces : at(pieces[i]) # {}
     THEN {pieces} ELSE {}

(* "singularity exec": flags up to the first word that is none, the image,  *)
(* and at least one word after it. A flag takes the next word for its data, *)
(* whatever that is. Nothing when it refuses the line, as it does when it   *)
(* meets any other flag: that it has some of its own is left out.          *)
Singularity(words) ==
  LET word(i) == IF i \in DOMAIN words THEN words[i] ELSE NoWord
      read[i \in 1..Len(words) + 2] ==
        CASE word(i) = EnvFlag ->
               {[r EXCEPT !.env = data \o @] : r \in read[i + 2], data \in Assignments(word(i + 1))}
          [] word(i) = BindFlag ->
               {[r EXCEPT !.bind = Words(word(i + 1), comma) \o @] : r \in read[i + 2]}
          [] OTHER ->
               IF IsFlag(word(i)) \/ i >= Len(words) THEN {}
               ELSE {[env |-> <<>>, bind |-> <<>>, image |-> word(i),
                      args |-> SubSeq(words, i + 1, Len(words))]}
  IN read[1]

=============================================================================
