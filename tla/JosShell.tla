------------------------------ MODULE JosShell -------------------------------
(***************************************************************************)
(* The shell of JOS (user/sh.c): from the characters of a line to the      *)
(* commands that are spawned, with what their descriptors 0 and 1 are, and *)
(* the commands for which the shell waits before it prompts again.         *)
(* A word is the sequence of its letters, and names a file, too.           *)
(***************************************************************************)
EXTENDS Integers, Sequences

MAXARGS == 2
SYMBOLS == {"<", ">", "|", "&"}
Console == <<"console">>
Missing == <<"m">>   \* a file that cannot be opened for reading

-----------------------------------------------------------------------------
RECURSIVE SkipBlanks(_)
SkipBlanks(s) == IF s # <<>> /\ Head(s) = " " THEN SkipBlanks(Tail(s)) ELSE s

\* The length of the word at the front.
WordLength(s) ==
    CHOOSE n \in 0..Len(s) : /\ \A i \in 1..n : s[i] \notin SYMBOLS \cup {" "}
                             /\ n < Len(s) => s[n + 1] \in SYMBOLS \cup {" "}

\* The token at the front of a line, its text, and the rest of the line.
gettoken(line) ==
    LET s == SkipBlanks(line)
        n == WordLength(s)
    IN  IF s = <<>> THEN [t |-> "end", word |-> <<>>, rest |-> <<>>]
        ELSE IF Head(s) \in SYMBOLS THEN [t |-> Head(s), word |-> <<>>, rest |-> Tail(s)]
        ELSE [t |-> "w", word |-> SubSeq(s, 1, n), rest |-> SubSeq(s, n + 1, Len(s))]

\* A process of the shell: its line, the arguments so far, what its descriptors are, and
\* how many more pipes can be made.  Its outcome has the command, or "exit" when it stopped
\* before (a syntax error, no such file, no pipe, no child, a panic), and the same for the
\* process that it forked to run what is behind a bar.
RECURSIVE runcmd(_)
runcmd(p) ==
    LET tok == gettoken(p.line)
        name == gettoken(tok.rest)
        Go(q) == runcmd(q)
        Exit == <<[run |-> "exit"]>>
        Run(q) == [run |-> IF q.argv = <<>> THEN "nothing" ELSE "spawn", argv |-> q.argv, fd0 |-> q.fd0, fd1 |-> q.fd1]
    IN  CASE tok.t = "w" /\ Len(p.argv) < MAXARGS -> Go([p EXCEPT !.line = tok.rest, !.argv = Append(@, tok.word)])
          [] tok.t = "<" /\ name.t = "w" /\ name.word # Missing -> Go([p EXCEPT !.line = name.rest, !.fd0 = name.word])
          [] tok.t = ">" /\ name.t = "w" -> Go([p EXCEPT !.line = name.rest, !.fd1 = name.word])
          [] tok.t = "|" /\ p.pipes > 0 ->
                <<Run([p EXCEPT !.fd1 = <<"pipe", p.pipes>>])>> \o
                    Go([p EXCEPT !.line = tok.rest, !.argv = <<>>, !.fd0 = <<"pipe", p.pipes>>, !.pipes = @ - 1])
          [] tok.t = "end" -> <<Run(p)>>
          [] OTHER -> Exit

\* The processes that are waited for: the first one by umain, the next one by one that
\* has spawned its command, or has failed to; one without a command returns at once.
WaitedFor(ps) == {k \in DOMAIN ps : \A j \in 1..k - 1 : ps[j].run = "spawn"}

\* One turn of umain.
umain(line, pipes) ==
    IF line # <<>> /\ Head(line) = "#" THEN <<>>
    ELSE runcmd([line |-> line, argv |-> <<>>, fd0 |-> Console, fd1 |-> Console, pipes |-> pipes])

-----------------------------------------------------------------------------
RECURSIVE Tokens(_)
Tokens(line) == LET tok == gettoken(line) IN IF tok.t = "end" THEN <<>> ELSE <<tok>> \o Tokens(tok.rest)

Rank(toks, i) == 1 + Len(SelectSeq([j \in 1..i - 1 |-> toks[j].t], LAMBDA t : t = "|"))

\* The words that are not names of files, and what the last < or > of a part says.
Part(toks, k) == SelectSeq([i \in DOMAIN toks |-> [i |-> i, t |-> toks[i].t, word |-> toks[i].word, part |-> Rank(toks, i),
                                                   name |-> i > 1 /\ toks[i - 1].t \in {"<", ">"}]],
                           LAMBDA x : x.part = k /\ x.t # "|")
WordsOf(part) == SelectSeq(part, LAMBDA x : x.t = "w" /\ ~x.name)
Redirect(part, dir, toks, else) ==
    LET all == SelectSeq(part, LAMBDA x : x.t = dir) IN IF all = <<>> THEN else ELSE toks[all[Len(all)].i + 1].word

\* Every command of a line gets its own words, reads from its file or from the command
\* before it, and writes to its file or to the command behind it; nothing else is
\* spawned, and the shell waits for all of them (sh.c:57-112, 157-176).  This is about
\* lines with a command between all bars.  In front of a bar, > is left out: the pipe
\* replaces the file, which the command behind the bar writes instead.
ASSUME CommandsAreTyped ==
    \A line \in UNION {[1..n -> {"a", " ", "m", "<", ">", "|"}] : n \in 0..6} :
        LET toks == Tokens(line)
            last == Rank(toks, Len(toks) + 1)
            Words(k) == WordsOf(Part(toks, k))
            plain == /\ \A i \in DOMAIN toks : toks[i].t \in {"<", ">"} => i < Len(toks) /\ toks[i + 1].t = "w"
                     /\ \A i \in DOMAIN toks : toks[i].t = "<" => toks[i + 1].word # Missing
                     /\ \A i \in DOMAIN toks : toks[i].t = ">" => Rank(toks, i) = last
                     /\ \A k \in 1..last : Len(Words(k)) \in 1..MAXARGS
            ps == umain(line, 6)
        IN  plain => /\ Len(ps) = last /\ WaitedFor(ps) = 1..last
                     /\ \A k \in 1..last :
                          ps[k] = [run |-> "spawn", argv |-> [i \in DOMAIN Words(k) |-> Words(k)[i].word],
                                   fd0 |-> Redirect(Part(toks, k), "<", toks, IF k = 1 THEN Console ELSE <<"pipe", 8 - k>>),
                                   fd1 |-> Redirect(Part(toks, k), ">", toks, IF k = last THEN Console ELSE <<"pipe", 7 - k>>)]

\* Whatever is typed, and however many pipes can be made: what a part of a line runs does
\* not depend on the parts behind it, and nothing runs behind a part that stopped
\* (sh.c:86-112).
ASSUME PartsAreApart ==
    \A line \in UNION {[1..n -> {"a", "m", "<", ">", "|", "&"}] : n \in 0..5}, pipes \in 0..2 :
        LET ps == umain(line, pipes)
        IN  \A i \in DOMAIN line :
               line[i] = "|" =>
                  LET front == umain(SubSeq(line, 1, i - 1), pipes)
                  IN  /\ Len(front) <= Len(ps)
                      /\ \A k \in 1..Len(front) - 1 : ps[k] = front[k]
                      /\ front[Len(front)].run = "exit" => ps = front
=============================================================================
