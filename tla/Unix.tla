-------------------------------- MODULE Unix -------------------------------
(***************************************************************************)
(* The system calls on processes and pipes that the shell (src/shell) and  *)
(* the exercises (src/fork) make, as these programs use them.              *)
(*                                                                         *)
(* A descriptor is inherited by fork and closed by exit; a pipe gives end  *)
(* of file when no process has its writing end open, and kills a writer    *)
(* when no process has its reading end.  A child that ended is kept until  *)
(* its parent waits for it; init takes the children of a process that ends.*)
(***************************************************************************)
EXTENDS Naturals, Sequences, FiniteSets

CONSTANTS
    NPROC,    \* processes at once
    NPIPE,    \* pipes at once
    NFD,      \* descriptors of a process
    PIPE_BUF, \* items that a pipe holds
    MayFail,  \* TRUE: fork and pipe may fail
    NULL

Procs == 1..NPROC
Pipes == 1..NPIPE
Fds   == 0..(NFD - 1)
STDIN == 0
STDOUT == 1
INIT == 0      \* takes the children that a process leaves, and waits for them

End(x, e) == [of |-> x, end |-> e]
File   == End(NULL, "file")            \* a terminal or a file: reads and writes never wait

ASSUME UnixAssumption == /\ {NPROC, NPIPE, PIPE_BUF} \subseteq Nat \ {0} /\ NFD \in Nat \ {0, 1}
                         /\ MayFail \in BOOLEAN
ASSUME NullAssumption == NULL \notin Nat /\ \A x \in Pipes, e \in {"R", "W"} : NULL # End(x, e)

VARIABLES
    proc, \* proc[p]: state, parent, and the status that wait returns
    fd,   \* fd[p][i]: what descriptor i of p is, or NULL
    buf   \* buf[x]: what was written to pipe x and not yet read

NoProc == [st |-> "free", parent |-> NULL, code |-> 0]

UnixTypeOK ==
    /\ proc \in [Procs -> [st : {"free", "run", "zombie"}, parent : Procs \cup {INIT, NULL}, code : Nat]]
    /\ fd \in [Procs -> [Fds -> {End(x, e) : x \in Pipes, e \in {"R", "W"}} \cup {File, NULL}]]
    /\ \A x \in Pipes : Len(buf[x]) <= PIPE_BUF

UnixInit(first) ==
    /\ proc = [p \in Procs |-> IF p = first THEN [NoProc EXCEPT !.st = "run"] ELSE NoProc]
    /\ fd = [p \in Procs |-> [i \in Fds |-> IF p = first /\ i \in {STDIN, STDOUT} THEN File ELSE NULL]]
    /\ buf = [x \in Pipes |-> <<>>]

Running(p) == proc[p].st = "run"
Least(S) == CHOOSE i \in S : \A j \in S : i <= j
Children(p) == {c \in Procs : proc[c].st # "free" /\ proc[c].parent = p}
Zombies(p)  == {c \in Children(p) : proc[c].st = "zombie"}
Has(x, e)   == \E p \in Procs, i \in Fds : fd[p][i] = End(x, e)
Unused      == {x \in Pipes : ~Has(x, "R") /\ ~Has(x, "W")}
FreeFds(p)  == {i \in Fds : fd[p][i] = NULL}

\* The descriptors that pipe() returns.
ReadFd(p)  == Least(FreeFds(p))
WriteFd(p) == Least(FreeFds(p) \ {ReadFd(p)})
pipe(p) ==
    LET x == Least(Unused) IN
    /\ Unused # {} /\ Cardinality(FreeFds(p)) >= 2
    /\ fd' = [fd EXCEPT ![p][ReadFd(p)] = End(x, "R"), ![p][WriteFd(p)] = End(x, "W")]
    /\ buf' = [buf EXCEPT ![x] = <<>>]
    /\ UNCHANGED proc

close(p, i)   == fd' = [fd EXCEPT ![p][i] = NULL] /\ UNCHANGED <<proc, buf>>
dup2(p, i, j) == fd' = [fd EXCEPT ![p][j] = fd[p][i]] /\ UNCHANGED <<proc, buf>>

FreeProcs == {c \in Procs : proc[c].st = "free"}
fork(p, c) ==
    /\ FreeProcs # {} /\ c = Least(FreeProcs)
    /\ proc' = [proc EXCEPT ![c] = [st |-> "run", parent |-> p, code |-> 0]]
    /\ fd' = [fd EXCEPT ![c] = fd[p]]
    /\ UNCHANGED buf

exit(p, code) ==
    /\ proc' = [q \in Procs |->
           IF q = p THEN IF proc[p].parent = INIT THEN NoProc ELSE [proc[p] EXCEPT !.st = "zombie", !.code = code]
           ELSE IF q \in Zombies(p) THEN NoProc
           ELSE IF q \in Children(p) THEN [proc[q] EXCEPT !.parent = INIT]
           ELSE proc[q]]
    /\ fd' = [fd EXCEPT ![p] = [i \in Fds |-> NULL]]
    /\ UNCHANGED buf

\* wait, waitpid: takes the status of a child that ended.
reap(c) == proc' = [proc EXCEPT ![c] = NoProc] /\ UNCHANGED <<fd, buf>>

\* read: an item, or NULL at the end of file; waits while there is neither.
read(p, i, v) ==
    LET x == fd[p][i].of IN
    /\ fd[p][i].end = "R"
    /\ \/ buf[x] # <<>> /\ v = Head(buf[x]) /\ buf' = [buf EXCEPT ![x] = Tail(@)]
       \/ buf[x] = <<>> /\ ~Has(x, "W") /\ v = NULL /\ UNCHANGED buf
    /\ UNCHANGED <<proc, fd>>

\* write: waits while the pipe is full.
\* Mutant: a full pipe takes one more.
write_NoWait(p, i, v) ==
    LET x == fd[p][i].of IN
    /\ fd[p][i].end = "W" /\ Has(x, "R")
    /\ buf' = [buf EXCEPT ![x] = Append(@, v)]
    /\ UNCHANGED <<proc, fd>>
write(p, i, v) ==
    LET x == fd[p][i].of IN
    /\ fd[p][i].end = "W" /\ Has(x, "R") /\ Len(buf[x]) < PIPE_BUF
    /\ buf' = [buf EXCEPT ![x] = Append(@, v)]
    /\ UNCHANGED <<proc, fd>>

\* write on a pipe that nobody can read.
SIGPIPE == 13
Broken(p, i) == fd[p][i].end = "W" /\ ~Has(fd[p][i].of, "R")
=============================================================================
