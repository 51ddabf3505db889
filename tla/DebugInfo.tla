------------------------------ MODULE DebugInfo ------------------------------
(***************************************************************************)
(* debuginfo_eip of kern/kdebug.c: from an instruction's address to its    *)
(* file, function and line, by three binary searches in the table of stabs.*)
(* The table starts at index 0; a stab is its type, value and description, *)
(* and a name is the index of its stab.  The string table holds every name,*)
(* and the table and the code are in the kernel.                           *)
(***************************************************************************)
EXTENDS Integers, Sequences, FiniteSets

Stab(t, v) == [n_type |-> t, n_value |-> v]

\* The indices from..to of the stabs of a type, and the greatest index of a set.
OfType(stabs, type, from, to) == {i \in from..to : stabs[i].n_type = type}
Last(indices, none) == IF indices = {} THEN none ELSE CHOOSE i \in indices : \A j \in indices : j <= i

-----------------------------------------------------------------------------
\* The loop of the search in [l, r]; the answer so far is [left, right].
RECURSIVE Narrow(_, _, _, _, _, _, _, _)
Narrow(stabs, l, r, left, right, any, type, addr) ==
    LET mid == (l + r) \div 2
        m == Last(OfType(stabs, type, l, mid), l - 1)
    IN  IF l > r THEN [left |-> left, right |-> right, any |-> any]
        ELSE IF m < l THEN Narrow(stabs, mid + 1, r, left, right, any, type, addr)
        ELSE IF stabs[m].n_value < addr THEN Narrow(stabs, mid + 1, r, m, right, TRUE, type, addr)
        ELSE IF stabs[m].n_value > addr THEN Narrow(stabs, l, m - 1, left, m - 1, TRUE, type, addr)
        ELSE Narrow(stabs, m, r, m, right, TRUE, type, addr + 1)

stab_binsearch(stabs, left, right, type, addr) ==
    LET end == Narrow(stabs, left, right, left, right, FALSE, type, addr)
        found == Last(OfType(stabs, type, end.left + 1, end.right), end.left)
    IN  IF ~end.any THEN [left |-> end.left, right |-> end.left - 1]
        ELSE [left |-> IF end.right > end.left THEN found ELSE end.right, right |-> end.right]

\* The name of the file is that of the last N_SOL, or N_SO with a value, before the line.
debuginfo_eip(stabs, n, addr) ==
    LET file == stab_binsearch(stabs, 0, n - 1, "SO", addr)
        fun == stab_binsearch(stabs, file.left, file.right, "FUN", addr)
        inFun == fun.left <= fun.right
        rel == IF inFun THEN addr - stabs[fun.left].n_value ELSE addr
        within == IF inFun THEN fun ELSE file
        line == stab_binsearch(stabs, within.left, within.right, "SLINE", rel)
        names == OfType(stabs, "SOL", file.left, line.left)
                   \cup {i \in OfType(stabs, "SO", file.left, line.left) : stabs[i].n_value # 0}
        psyms == {k \in fun.left + 1..fun.right - 1 : \A j \in fun.left + 1..k : stabs[j].n_type = "PSYM"}
    IN  [ok |-> file.left # 0, fn |-> IF inFun THEN fun.left ELSE -1,
         line |-> IF line.left <= line.right THEN line.left ELSE -1,
         file |-> Last(names, -1), narg |-> Cardinality(psyms)]

-----------------------------------------------------------------------------
\* Tables of n stabs, those of type "T" in increasing order and at least 2 apart.
Tables(n) ==
    {t \in [0..n - 1 -> {Stab("T", v) : v \in {1, 3, 5}} \cup {Stab("other", 0)}] :
        \A i, j \in 0..n - 1 : i < j /\ t[i].n_type = "T" /\ t[j].n_type = "T" => t[i].n_value < t[j].n_value}

\* When a stab of the type is at the address or below it, the search gives the last
\* such stab and the end of its region; it gives an empty region when there is no stab
\* of the type at all (kdebug.c:24-53).  When all of them are above the address the
\* region is not empty either: it is what lies before the first of them.
ASSUME SearchFinds ==
    \A t \in Tables(4), l, r \in 0..3, addr \in 1..6 :
        LET res == stab_binsearch(t, l, r, "T", addr)
            below == Last({i \in OfType(t, "T", l, r) : t[i].n_value <= addr}, l - 1)
            above == {i \in OfType(t, "T", l, r) : t[i].n_value > addr}
            end == IF above = {} THEN r ELSE (CHOOSE i \in above : \A j \in above : i <= j) - 1
        IN  l <= r =>
              IF below >= l THEN res = [left |-> below, right |-> end]
              ELSE IF above = {} THEN res.left > res.right
              ELSE res = [left |-> IF end < l THEN end ELSE l, right |-> end]

\* Two files, of two functions and one; each starts with a line.
Program(f2, f3) ==
    LET stabs == << Stab("HDR", 0), Stab("SO", 2), Stab("FUN", 2), Stab("PSYM", 0), Stab("SLINE", 0), Stab("SLINE", 2),
                    Stab("FUN", f2), Stab("SLINE", 0), Stab("SO", f3), Stab("FUN", f3), Stab("PSYM", 0), Stab("PSYM", 0),
                    Stab("SLINE", 0), Stab("SOL", 0), Stab("SLINE", 3) >>
    IN  [i \in 0..Len(stabs) - 1 |-> stabs[i + 1]]

\* An address is reported with the file, function and line that contain it, and with
\* the number of arguments of the function (kdebug.c:116-122).
ASSUME AddressesAreFound ==
    \A f2 \in 6..8, f3 \in 10..12, addr \in 0..16 :
        LET info == debuginfo_eip(Program(f2, f3), 15, addr) IN
        IF addr < 2 THEN ~info.ok
        ELSE info = CASE addr < 4              -> [ok |-> TRUE, fn |-> 2, line |-> 4, file |-> 1, narg |-> 1]
                      [] addr \in 4..f2 - 1    -> [ok |-> TRUE, fn |-> 2, line |-> 5, file |-> 1, narg |-> 1]
                      [] addr \in f2..f3 - 1   -> [ok |-> TRUE, fn |-> 6, line |-> 7, file |-> 1, narg |-> 0]
                      [] addr \in f3..f3 + 2   -> [ok |-> TRUE, fn |-> 9, line |-> 12, file |-> 8, narg |-> 2]
                      [] OTHER                 -> [ok |-> TRUE, fn |-> 9, line |-> 14, file |-> 13, narg |-> 2]
=============================================================================
