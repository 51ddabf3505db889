-------------------------------- MODULE Args --------------------------------
(***************************************************************************)
(* The option parser of lib/args.c.  A word is a sequence of characters;   *)
(* argv is what follows the name of the program.                           *)
(***************************************************************************)
EXTENDS Integers, Sequences

NoWord == <<"null">>  \* the null pointer

argstart(argv) == [argv |-> argv, curarg |-> IF argv = <<>> THEN NoWord ELSE <<>>, arg |-> "", argvalue |-> NoWord]

EndOfArgs(s) == [s EXCEPT !.curarg = NoWord, !.arg = "-1"]
TakeLetter(s) == [s EXCEPT !.arg = Head(s.curarg), !.curarg = Tail(s.curarg)]

argnext(old) ==
    LET s == [old EXCEPT !.argvalue = NoWord]
        shifted == [s EXCEPT !.curarg = Tail(Head(s.argv)), !.argv = Tail(s.argv)]
    IN  IF s.curarg = NoWord THEN [s EXCEPT !.arg = "-1"]
        ELSE IF s.curarg # <<>> THEN TakeLetter(s)
        ELSE IF s.argv = <<>> \/ Head(s.argv) = <<>> \/ Head(s.argv) = <<"-">> THEN EndOfArgs(s)
        ELSE IF Head(Head(s.argv)) # "-" THEN EndOfArgs(s)
        ELSE IF shifted.curarg = <<"-">> THEN EndOfArgs(shifted)
        ELSE TakeLetter(shifted)

argnextvalue(s) ==
    IF s.curarg = NoWord THEN [s EXCEPT !.argvalue = NoWord]
    ELSE IF s.curarg # <<>> THEN [s EXCEPT !.argvalue = s.curarg, !.curarg = <<>>]
    ELSE IF s.argv # <<>> THEN [s EXCEPT !.argvalue = Head(s.argv), !.argv = Tail(s.argv)]
    ELSE [s EXCEPT !.argvalue = NoWord, !.curarg = NoWord]

argvalue(s) == IF s.argvalue # NoWord THEN s ELSE argnextvalue(s)

-----------------------------------------------------------------------------
\* A program that takes an option v with a value, as its loop collects them.
RECURSIVE Options(_, _)
Options(s, taken) ==
    LET next == argnext(s)  val == argvalue(next) IN
    CASE next.arg = "-1" -> [taken |-> taken, rest |-> next.argv]
      [] next.arg = "v"  -> Options(val, Append(taken, <<"v", val.argvalue>>))
      [] OTHER           -> Options(next, Append(taken, <<next.arg>>))

\* What the words mean: each word that starts with - gives its letters; v takes what is
\* left of its word, or else the next word; "--" ends the options, "-" is no option.
RECURSIVE Meaning(_, _)
RECURSIVE Letters(_, _, _)
Meaning(argv, taken) ==
    IF argv = <<>> \/ Len(Head(argv)) < 2 \/ Head(argv)[1] # "-" THEN [taken |-> taken, rest |-> argv]
    ELSE IF Head(argv) = <<"-", "-">> THEN [taken |-> taken, rest |-> Tail(argv)]
    ELSE Letters(Tail(Head(argv)), Tail(argv), taken)
Letters(word, argv, taken) ==
    IF word = <<>> THEN Meaning(argv, taken)
    ELSE IF Head(word) # "v" THEN Letters(Tail(word), argv, Append(taken, <<Head(word)>>))
    ELSE IF Tail(word) # <<>> THEN Meaning(argv, Append(taken, <<"v", Tail(word)>>))
    ELSE IF argv # <<>> THEN Meaning(Tail(argv), Append(taken, <<"v", Head(argv)>>))
    ELSE [taken |-> Append(taken, <<"v", NoWord>>), rest |-> <<>>]

WordsTyped == UNION {[1..n -> {"-", "a", "v"}] : n \in 0..3}

\* For every command line, the options, their values and the words left over are those
\* that the words mean (lib/args.c).
ASSUME OptionsAreTaken ==
    \A argv \in UNION {[1..n -> WordsTyped] : n \in 0..2} : Options(argstart(argv), <<>>) = Meaning(argv, <<>>)
=============================================================================
