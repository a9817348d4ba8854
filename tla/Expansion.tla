------------------------------ MODULE Expansion ------------------------------
(***************************************************************************)
(* $(NAME) references in the values of environment variables               *)
(* (internal/expansion/expand.go). A string is the sequence of its bytes.  *)
(***************************************************************************)
EXTENDS Integers, Sequences, FiniteSetsExt

operator == 36          \* '$'
referenceOpener == 40   \* '('
referenceCloser == 41   \* ')'

String == Seq(0..255)

(* What string(b) makes of a byte b: the UTF-8 form of code point b, which  *)
(* is the byte itself only in ASCII.                                        *)
RuneOf(b) == IF b < 128 THEN <<b>> ELSE <<192 + b \div 64, 128 + (b % 64)>>

syntaxWrap(input) == <<operator, referenceOpener>> \o input \o <<referenceCloser>>

(* Mutant: the last map that knows the name gives the value. *)
MappingFuncFor_last(context, input) ==
  LET knows == {i \in DOMAIN context : input \in DOMAIN context[i]} IN
  IF knows = {} THEN syntaxWrap(input) ELSE context[Max(knows)][input]

(* Mutant: a name nobody knows gives the empty string, as in a shell. *)
MappingFuncFor_empty(context, input) ==
  LET knows == {i \in DOMAIN context : input \in DOMAIN context[i]} IN
  IF knows = {} THEN <<>> ELSE context[Min(knows)][input]

(* The value of a name in the first map of context that knows it. *)
MappingFuncFor(context, input) ==
  LET knows == {i \in DOMAIN context : input \in DOMAIN context[i]} IN
  IF knows = {} THEN syntaxWrap(input) ELSE context[Min(knows)][input]

(* Mutant: the escaped operator is given back with its escape. *)
tryReadVariableName_keepsEscape(input) ==
  LET closers == {i \in 2..Len(input) : input[i] = referenceCloser} IN
  CASE input[1] = operator ->
         [read |-> <<operator, operator>>, isVar |-> FALSE, advance |-> 1]
    [] input[1] = referenceOpener /\ closers # {} ->
         [read |-> SubSeq(input, 2, Min(closers) - 1), isVar |-> TRUE,
          advance |-> Min(closers)]
    [] input[1] = referenceOpener /\ closers = {} ->
         [read |-> <<operator, referenceOpener>>, isVar |-> FALSE, advance |-> 1]
    [] OTHER ->
         [read |-> <<operator>> \o RuneOf(input[1]), isVar |-> FALSE, advance |-> 1]

(* What follows an operator: another one, a reference up to the first       *)
(* closer, an opener nobody closes, or any other byte.                      *)
tryReadVariableName(input) ==
  LET closers == {i \in 2..Len(input) : input[i] = referenceCloser} IN
  CASE input[1] = operator ->
         [read |-> <<operator>>, isVar |-> FALSE, advance |-> 1]
    [] input[1] = referenceOpener /\ closers # {} ->
         [read |-> SubSeq(input, 2, Min(closers) - 1), isVar |-> TRUE,
          advance |-> Min(closers)]
    [] input[1] = referenceOpener /\ closers = {} ->
         [read |-> <<operator, referenceOpener>>, isVar |-> FALSE, advance |-> 1]
    [] OTHER ->
         [read |-> <<operator>> \o RuneOf(input[1]), isVar |-> FALSE, advance |-> 1]

(* Mutant: the checkpoint is left on the last byte that was read. *)
Expand_checkpoint(input, context) ==
  LET n == Len(input)
      loop[at \in (1..n+1) \X (1..n+1)] ==
        LET checkpoint == at[1]
            cursor == at[2]
            name == tryReadVariableName(SubSeq(input, cursor + 1, n))
            last == cursor + name.advance
        IN IF cursor > n THEN SubSeq(input, checkpoint, n)
           ELSE IF input[cursor] = operator /\ cursor < n
           THEN SubSeq(input, checkpoint, cursor - 1)
                  \o (IF name.isVar THEN MappingFuncFor(context, name.read) ELSE name.read)
                  \o loop[<<last, last + 1>>]
           ELSE loop[<<checkpoint, cursor + 1>>]
  IN loop[<<1, 1>>]

(* The loop over the input, from cursor on; the bytes from checkpoint to    *)
(* the cursor are not written yet.                                          *)
Expand(input, context) ==
  LET n == Len(input)
      loop[at \in (1..n+1) \X (1..n+1)] ==
        LET checkpoint == at[1]
            cursor == at[2]
            name == tryReadVariableName(SubSeq(input, cursor + 1, n))
            next == cursor + name.advance + 1
        IN IF cursor > n THEN SubSeq(input, checkpoint, n)
           ELSE IF input[cursor] = operator /\ cursor < n
           THEN SubSeq(input, checkpoint, cursor - 1)
                  \o (IF name.isVar THEN MappingFuncFor(context, name.read) ELSE name.read)
                  \o loop[<<next, next>>]
           ELSE loop[<<checkpoint, cursor + 1>>]
  IN loop[<<1, 1>>]

=============================================================================
