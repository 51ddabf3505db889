-------------------------------- MODULE Paths --------------------------------
(***************************************************************************)
(* Path names in the file system of fs/fs.c (walk_path, dir_lookup).       *)
(* A path is a sequence of "/" and letters, a name a sequence of letters.  *)
(* A directory is the sequence of its files; an entry not in use has the   *)
(* empty name.                                                             *)
(***************************************************************************)
EXTENDS Integers, Sequences, FiniteSets

MaxName == 2  \* MAXNAMELEN, less the byte that ends the name

NotFound == -1
BadPath  == -2

-----------------------------------------------------------------------------
RECURSIVE skip_slash(_)
skip_slash(path) == IF path # <<>> /\ Head(path) = "/" THEN skip_slash(Tail(path)) ELSE path

\* The number of letters in front of the first slash.
NameLength(path) == CHOOSE n \in 0..Len(path) : (n < Len(path) => path[n + 1] = "/") /\ \A i \in 1..n : path[i] # "/"

\* The index of the first entry with the name, or NotFound.
dir_lookup(dir, name) ==
    IF \E i \in DOMAIN dir : dir[i].name = name
    THEN CHOOSE i \in DOMAIN dir : dir[i].name = name /\ \A j \in 1..i - 1 : dir[j].name # name
    ELSE NotFound

Missing == [name |-> <<>>, type |-> "none", files |-> <<>>]

\* r, and what *pdir, *pf and lastelem are set to.
RECURSIVE Walk(_, _, _)
Walk(f, dir, path) ==
    LET n == NameLength(path)
        name == SubSeq(path, 1, n)
        rest == skip_slash(SubSeq(path, n + 1, Len(path)))
        i == dir_lookup(f.files, name)
        Fail(r, d, last) == [r |-> r, dir |-> d, file |-> Missing, last |-> last]
    IN  IF path = <<>> THEN [r |-> 0, dir |-> dir, file |-> f, last |-> <<>>]
        ELSE IF n > MaxName THEN Fail(BadPath, Missing, <<>>)
        ELSE IF f.type # "dir" THEN Fail(NotFound, Missing, <<>>)
        ELSE IF i # NotFound THEN Walk(f.files[i], f, rest)
        ELSE IF rest = <<>> THEN Fail(NotFound, f, name)
        ELSE Fail(NotFound, Missing, <<>>)
walk_path(root, path) == Walk(root, Missing, skip_slash(path))

-----------------------------------------------------------------------------
\* The names in a path: between slashes, as they stand.
Names(path) ==
    LET starts == {i \in DOMAIN path : path[i] # "/" /\ (i > 1 => path[i - 1] = "/")}
        start(k) == CHOOSE i \in starts : Cardinality({j \in starts : j < i}) = k - 1
    IN  [k \in 1..Cardinality(starts) |-> SubSeq(path, start(k), start(k) + NameLength(SubSeq(path, start(k), Len(path))) - 1)]

\* The file that a sequence of names leads to.
RECURSIVE FileAt(_, _)
FileAt(f, names) ==
    IF names = <<>> THEN {f}
    ELSE UNION {FileAt(g, Tail(names)) : g \in {f.files[i] : i \in {j \in DOMAIN f.files : f.files[j].name = Head(names)}}}

Plain(name) == [name |-> name, type |-> "reg", files |-> <<>>]
Dir(name, files) == [name |-> name, type |-> "dir", files |-> files]
Unnamed == [name |-> <<>>, type |-> "reg", files |-> <<>>]
Root == Dir(<<"/">>, << Plain(<<"a">>), Unnamed, Dir(<<"b">>, <<Plain(<<"a">>), Dir(<<"a", "b">>, <<Unnamed, Plain(<<"b">>)>>)>>) >>)

PathsTyped == UNION {[1..n -> {"/", "a", "b"}] : n \in 0..6}

\* A path leads to the file that its names lead to, however many slashes separate
\* them; when only the last name is missing, the directory is given in which to create
\* it (fs.c:264-269).  A name that is too long is an error where it is met.
ASSUME PathsLeadToFiles ==
    \A path \in PathsTyped :
        LET res == walk_path(Root, path)
            names == Names(path)
            parent == SubSeq(names, 1, Len(names) - 1)
            long == \E k \in DOMAIN names : Len(names[k]) > MaxName
        IN  /\ (res.r = 0) <=> FileAt(Root, names) # {}
            /\ res.r = 0 => /\ FileAt(Root, names) = {res.file}
                            /\ names # <<>> => FileAt(Root, parent) = {res.dir}
            /\ res.r = BadPath => long
            /\ res.r # 0 /\ res.dir # Missing => FileAt(Root, parent) = {res.dir} /\ res.last = names[Len(names)]
            /\ res.r # 0 /\ ~long /\ (\E d \in FileAt(Root, parent) : d.type = "dir") => res.dir # Missing
=============================================================================
