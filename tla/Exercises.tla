------------------------------ MODULE Exercises ------------------------------
(***************************************************************************)
(* The sequential exercises of src/fork: the argument lists that xargs.c   *)
(* gives to the commands it runs, and the paths that find.c prints.        *)
(***************************************************************************)
EXTENDS Integers, Sequences, FiniteSets

-----------------------------------------------------------------------------
(***************************************************************************)
(* xargs.c.  A line is a word; empty lines, which strtok skips but read    *)
(* counts, are left out.                                                   *)
(***************************************************************************)
NARGS == 3

\* The arguments of each command, in order.
RECURSIVE Batches(_, _, _)
Batches(lines, args, done) ==
    IF Len(args) = NARGS THEN Batches(lines, <<>>, Append(done, args))
    ELSE IF lines # <<>> THEN Batches(Tail(lines), Append(args, Head(lines)), done)
    ELSE IF args # <<>> THEN Append(done, args)
    ELSE done
xargs(lines) == Batches(lines, <<>>, <<>>)

\* Every line becomes one argument, in order, and only the last command has fewer than
\* NARGS (xargs.c:49-65).
ASSUME LinesBecomeArguments ==
    \A lines \in UNION {[1..n -> {"a", "b"}] : n \in 0..7} :
        LET runs == xargs(lines) IN
        /\ \A k \in 1..Len(runs) - 1 : Len(runs[k]) = NARGS
        /\ \A i \in DOMAIN lines : runs[((i - 1) \div NARGS) + 1][((i - 1) % NARGS) + 1] = lines[i]
        /\ Len(runs) = (Len(lines) + NARGS - 1) \div NARGS

-----------------------------------------------------------------------------
(***************************************************************************)
(* find.c.  A directory is the sequence of its entries, a path a sequence  *)
(* of names; "hit" says whether the name contains the text looked for.     *)
(***************************************************************************)
\* new_path is one buffer for all entries of a directory, to which strcat appends.
RECURSIVE find_str(_, _, _, _)
find_str(entries, path, new_path, out) ==
    LET e == Head(entries)
        printed == IF e.hit THEN Append(out, Append(path, e.name)) ELSE out
        next == new_path \o Append(path, e.name)
    IN  IF entries = <<>> THEN out
        ELSE IF e.type # "dir" THEN find_str(Tail(entries), path, new_path, IF e.type = "reg" THEN printed ELSE out)
        ELSE find_str(Tail(entries), path, next, find_str(e.files, next, <<>>, printed))

RECURSIVE AllHits(_, _)
AllHits(entries, path) ==
    UNION {LET e == entries[i]  here == Append(path, e.name) IN
           (IF e.hit /\ e.type # "other" THEN {here} ELSE {}) \cup AllHits(e.files, here) : i \in DOMAIN entries}

Entry(name) == {[name |-> name, type |-> t, hit |-> h, files |-> <<>>] : t \in {"reg", "other"}, h \in BOOLEAN}
Folder(name, sub) == [name |-> name, type |-> "dir", hit |-> TRUE, files |-> sub]
Listing(names) == {s \in [1..Len(names) -> UNION {Entry(names[i]) : i \in DOMAIN names}] : \A i \in DOMAIN names : s[i].name = names[i]}

\* The paths printed are those of the entries whose name contains the text, where each
\* directory has one subdirectory at most (find.c:36-67).
ASSUME HitsArePrinted ==
    \A deep, top \in Listing(<<"x", "y">>) :
        LET tree == <<top[1], Folder("d", <<deep[1], Folder("e", <<deep[2]>>)>>), top[2]>>
            out == find_str(tree, <<>>, <<>>, <<>>)
        IN  {out[i] : i \in DOMAIN out} = AllHits(tree, <<>>)
=============================================================================
