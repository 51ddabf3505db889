------------------------------- MODULE Parsing -------------------------------
(***************************************************************************)
(* How the shell of src/shell turns a line into a tree of commands         *)
(* (parsing.c, createcmd.c, and split_line of utils.c).                    *)
(*                                                                         *)
(* A line is a sequence of words, each followed by one blank, so that an   *)
(* additional blank is an empty word.  A word stands for its kind:         *)
(*   "arg" ls      "opt" -k=v     "env" K=v    "var" $X     "unset" $Y     *)
(*   "in" <f       "out" >f       "err" 2>f    "dup" 2>&1   "late" ab>f    *)
(*   "blank"       "&"            "|"                                      *)
(* and never begins a line with &, where parse_cmd looks at the byte before*)
(* the buffer.                                                             *)
(***************************************************************************)
EXTENDS Integers, Sequences, FiniteSets

LOCAL INSTANCE SequencesExt

Redirections == {"in", "out", "err", "dup", "late"}
Kinds == Redirections \cup {"arg", "opt", "env", "var", "unset", "blank", "&", "|"}

NoTree == [type |-> "NULL"]  \* the pointer
EmptyExec == [type |-> "EXEC", argv |-> <<>>, eargv |-> <<>>, files |-> {}]

-----------------------------------------------------------------------------
\* The first '>' or '<' decides; a name that is in front of 2 or more characters
\* is forgotten.
parse_redir_flow(c, tok) ==
    [c EXCEPT !.type = "REDIR",
              !.files = @ \cup CASE tok \in {"in", "out"} -> {tok}
                                 [] tok \in {"err", "dup"} -> {"err"}
                                 [] OTHER -> {}]

parse_environ_var(c, tok) == [c EXCEPT !.eargv = Append(@, tok)]

expand_environ_var(tok) == CASE tok = "var" -> "arg" [] tok = "unset" -> "blank" [] OTHER -> tok

RECURSIVE ParseWords(_, _)
ParseWords(c, words) ==
    IF words = <<>> THEN c
    ELSE LET tok == Head(words) IN
         ParseWords(IF tok \in Redirections THEN parse_redir_flow(c, tok)
                    ELSE IF tok = "env" THEN parse_environ_var(c, tok)
                    ELSE [c EXCEPT !.argv = Append(@, expand_environ_var(tok))],
                    Tail(words))
parse_exec(words) == ParseWords(EmptyExec, words)

\* The index of the first word in S, or one past the end.
First(words, S) ==
    CHOOSE i \in 1..Len(words) + 1 :
        /\ i <= Len(words) => words[i] \in S
        /\ \A j \in 1..i - 1 : words[j] \notin S

back_cmd_create(c) == [type |-> "BACK", c |-> c]
parse_back(words) == back_cmd_create(parse_exec(SubSeq(words, 1, First(words, {"&"}) - 1)))

parse_cmd(words) ==
    LET i == First(words, {"&", "dup"}) IN  \* both contain '&'
    IF words = <<>> THEN NoTree
    ELSE IF i <= Len(words) /\ words[i] = "&" THEN parse_back(words)
    ELSE parse_exec(words)

pipe_cmd_create(left, right) == IF right = NoTree THEN left ELSE [type |-> "PIPE", l |-> left, r |-> right]

RECURSIVE skip_blanks(_)
skip_blanks(words) == IF words # <<>> /\ Head(words) = "blank" THEN skip_blanks(Tail(words)) ELSE words

RECURSIVE parse_line(_)
parse_line(words) ==
    LET bar == First(words, {"|"})
        right == skip_blanks(SubSeq(words, bar + 1, Len(words)))
    IN  pipe_cmd_create(parse_cmd(SubSeq(words, 1, bar - 1)),
                        IF right = <<>> THEN NoTree ELSE parse_line(right))

-----------------------------------------------------------------------------
(***************************************************************************)
(* What a line means, said of the whole line at once.                      *)
(***************************************************************************)
Typed(n) == {w \in UNION {[1..m -> Kinds] : m \in 0..n} : w # <<>> => w[1] # "&"}

RECURSIVE Leaves(_)
Leaves(t) == IF t.type = "PIPE" THEN Leaves(t.l) \o Leaves(t.r) ELSE <<t>>

\* The words between two bars, without the blanks that follow a bar.
Commands(words) ==
    LET bars == {i \in DOMAIN words : words[i] = "|"}
        cuts == SetToSortSeq(bars \cup {0, Len(words) + 1}, <)
        between(k) == SubSeq(words, cuts[k] + 1, cuts[k + 1] - 1)
    IN  [k \in 1..Cardinality(bars) + 1 |-> IF k = 1 THEN between(k) ELSE skip_blanks(between(k))]

\* A command runs in the background when it has an & and no 2>&1 in front of it.
Background(words) == \E i \in DOMAIN words : words[i] = "&" /\ \A j \in 1..i - 1 : words[j] \notin {"&", "dup"}

LeafIs(leaf, words) ==
    LET c == IF leaf.type = "BACK" THEN leaf.c ELSE leaf
        Used == IF Background(words) THEN SelectInSeq(words, LAMBDA w : w = "&") - 1 ELSE Len(words)
        Sort(S) == SelectSeq(SubSeq(words, 1, Used), LAMBDA w : w \in S)
        plain == Sort(Kinds \ (Redirections \cup {"env"}))
    IN  IF words = <<>> THEN leaf = NoTree
        ELSE /\ (leaf.type = "BACK") <=> Background(words)
             /\ (c.type = "REDIR") <=> Sort(Redirections) # <<>>
             /\ c.eargv = Sort({"env"})
             /\ c.argv = [i \in DOMAIN plain |-> expand_environ_var(plain[i])]
             /\ "out" \in c.files <=> Sort({"out"}) # <<>>

\* A line becomes its commands in their order, without the empty ones at its end; an
\* empty one elsewhere is a null pointer in the tree.  Each word of a command goes to
\* one place, and & takes effect within its own command only (parsing.c:136-219).
ASSUME LinesAreParsed ==
    \A words \in Typed(4) :
        LET leaves == Leaves(parse_line(words))  cmds == Commands(words) IN
        /\ Len(leaves) \in 1..Len(cmds)
        /\ \A k \in DOMAIN leaves : LeafIs(leaves[k], cmds[k])
        /\ \A k \in Len(leaves) + 1..Len(cmds) : cmds[k] = <<>>
        /\ Len(leaves) > 1 => leaves[Len(leaves)] # NoTree
=============================================================================
