----------------------------- MODULE ShellProofs -----------------------------
(***************************************************************************)
(* Theorems about Shell, for every number of processes, pipes, descriptors *)
(* and items, every set of command lines and every program.                *)
(***************************************************************************)
EXTENDS Shell, FiniteSetTheorems, TLAPS

-----------------------------------------------------------------------------
(***************************************************************************)
(* The inductive invariant: first each process by itself.                  *)
(***************************************************************************)
FdVals   == {End(x, e) : x \in Pipes, e \in {"R", "W"}} \cup {File, NULL}
Files    == [Fds -> FdVals]
ProcType == [st : {"free", "run", "zombie"}, parent : Procs \cup {INIT, NULL}, code : Nat]

ShellLabels == {"prompt", "zombies", "run", "waitpid"}
PipeLabels  == {"forkl", "forkr", "closew", "closeother"}
EndLabels   == {"dup2", "closeown"}
FileLabels  == {"redir", "redup"}
ChildLabels == Labels \ (ShellLabels \cup {"off"})

\* The descriptors that are open, by where the process is.
Allowed(l, j) ==
    {STDIN, STDOUT} \cup IF l \in PipeLabels THEN {j.r, j.w}
                         ELSE IF l = "closer" THEN {j.r}
                         ELSE IF l \in FileLabels THEN j.opened
                         ELSE IF l \in EndLabels THEN {IF j.side = "l" THEN j.w ELSE j.r} ELSE {}

\* A process in the background runs one program, and never sees a pipe.
Plain(l, j) ==
    /\ l \in {"exec", "redir", "redup", "prog", "reading", "writing", "off"}
    /\ l = "exec" => \/ j.cmd.type \in {"EXEC", "REDIR"}
                     \/ j.cmd.type = "BACK" /\ j.cmd.c.type \in {"EXEC", "REDIR"}

JobOK(l, j) ==
    /\ DOMAIN j = {"cmd", "fg", "side", "r", "w", "left", "eof", "redir", "opened"}
    /\ j.fg \in BOOLEAN /\ j.redir \subseteq {STDIN, STDOUT} /\ j.opened \subseteq Fds
    /\ l = "redup" => j.redir # {} /\ j.r \in Fds
    /\ l \in PipeLabels \cup EndLabels \cup {"closer"} => j.r \in Fds /\ j.w \in Fds

Proper(f, l, j) ==
    /\ JobOK(l, j)
    /\ \A i \in Fds : f[i] # NULL => i \in Allowed(l, j)
    /\ ~j.fg => \A i \in Fds : f[i] \in {File, NULL}

\* What holds of a process p, its entry, descriptors, place and job.
Good(p, w, f, l, j) ==
    /\ w.st = "run" <=> l # "off"
    /\ Proper(f, l, j)
    /\ p # SH => l \in ChildLabels \cup {"off"} /\ (~j.fg => Plain(l, j))
    /\ p = SH => /\ l \in ShellLabels \cup {"off"} /\ ~j.fg /\ w.parent = NULL /\ w.st # "free"
                 /\ l \in {"zombies", "run"} => j.cmd \in Lines \cup {Exec}

SystemOK ==
    /\ proc \in [Procs -> ProcType] /\ fd \in [Procs -> Files]
    /\ buf \in [Pipes -> Seq({1})] /\ \A x \in Pipes : Len(buf[x]) <= PIPE_BUF
GlobalsOK == status \in Int /\ lines \in 0..MaxLines /\ torn \in BOOLEAN

ProcessInv ==
    /\ SystemOK /\ GlobalsOK
    /\ pc \in [Procs -> Labels] /\ DOMAIN job = Procs
    /\ \A p \in Procs : Good(p, proc[p], fd[p], pc[p], job[p])

-----------------------------------------------------------------------------
(***************************************************************************)
(* Then the processes together, as long as no fork of a pipe failed.       *)
(***************************************************************************)
\* The children S that a process may have, by where it is.
OneChild    == {"forkr", "wait2"}
TwoChildren == {"closew", "closer", "wait"}
Few(S, l) ==
    /\ l \in OneChild => \E c \in Procs : S \subseteq {c}
    /\ l \in TwoChildren => \E c, d \in Procs : S \subseteq {c, d}
    /\ l \notin OneChild \cup TwoChildren => S = {}

\* A process in the foreground is waited for: by the shell, or by one that is
\* itself in the foreground.
Attached(p) ==
    \/ proc[p].parent = SH /\ pc[SH] = "waitpid" /\ job[SH].r = p
    \/ proc[p].parent \in Procs /\ job[proc[p].parent].fg

\* Nobody is below itself.
Ranked(rank) ==
    \A p, q \in Procs : job[p].fg /\ job[q].fg /\ proc[p].parent = q => rank[q] < rank[p]

TreeInv ==
    /\ \A p \in Procs \ {SH} : Few(Children(p), pc[p])
    /\ \A p \in Procs : job[p].fg => Running(p) /\ Attached(p)
    /\ \E rank \in [Procs -> Nat] : Ranked(rank)

Inv == ProcessInv /\ (~torn => TreeInv)

-----------------------------------------------------------------------------
(***************************************************************************)
(* Numbers, descriptors and processes.                                     *)
(***************************************************************************)
\* A set of descriptors or of processes has a first.
LEMMA LeastExists ==
  ASSUME NEW S, S \subseteq Nat, IsFiniteSet(S), S # {}
  PROVE  \E i \in S : \A j \in S : i <= j
  <1> DEFINE Below(i) == {j \in S : j <= i}
             T == {Below(i) : i \in S}
             R == StrictSubsetOrdering(S)
  <1>1. IsWellFoundedOn(R, FiniteSubsetsOf(S))
    BY FS_StrictSubsetOrderingWellFounded
  <1>2. T \subseteq FiniteSubsetsOf(S) /\ T # {}
    <2>1. FiniteSubsetsOf(S) = SUBSET S
      BY FS_FiniteSubsetsOfFinite
    <2>2. T \subseteq SUBSET S /\ T # {}
      OBVIOUS
    <2> QED
      BY <2>1, <2>2
  <1>3. \E x \in T : \A y \in T : ~(<<y, x>> \in R)
    <2> HIDE DEF T, R
    <2> QED
      BY <1>1, <1>2, WFMin
  <1>4. PICK i \in S : \A j \in S : ~(<<Below(j), Below(i)>> \in R)
    BY <1>3
  <1>5. \A j \in S : i <= j
    <2> SUFFICES ASSUME NEW j \in S, j < i PROVE FALSE
      OBVIOUS
    <2>0. i \in Nat /\ j \in Nat /\ \A k \in S : k \in Nat
      OBVIOUS
    <2>1. Below(j) \subseteq Below(i) /\ i \in Below(i) /\ i \notin Below(j)
      <3>1. ASSUME NEW k \in Below(j) PROVE k \in Below(i)
        <4>1. k \in S /\ k <= j /\ k \in Nat
          BY <2>0
        <4> QED
          BY <2>0, <4>1
      <3>2. i \in Below(i) /\ ~(i <= j)
        BY <2>0
      <3>3. i \notin Below(j)
        BY <3>2
      <3> QED
        BY <3>1, <3>2, <3>3
    <2>2. Below(j) \in SUBSET S /\ Below(i) \in SUBSET S
      OBVIOUS
    <2>3. <<Below(j), Below(i)>> \in R
      <3> HIDE DEF Below
      <3> QED
        BY <2>1, <2>2 DEF StrictSubsetOrdering
    <2> QED
      BY <1>4, <2>3
  <1> QED
    BY <1>5

LEMMA LeastIs ==
  ASSUME NEW S, S \subseteq Nat, IsFiniteSet(S), S # {}
  PROVE  Least(S) \in S
  BY LeastExists DEF Least

LEMMA Constants ==
  /\ NPROC \in Nat \ {0} /\ NPIPE \in Nat \ {0} /\ PIPE_BUF \in Nat \ {0} /\ NFD \in Nat /\ MaxLines \in Nat
  /\ SH \in Procs /\ SH # INIT /\ INIT \notin Procs /\ NULL \notin Procs /\ NULL # INIT /\ NULL \notin Nat
  /\ Procs \subseteq Nat /\ Pipes \subseteq Nat /\ Fds \subseteq Nat
  /\ IsFiniteSet(Procs) /\ IsFiniteSet(Pipes) /\ IsFiniteSet(Fds)
  /\ STDIN \in Fds /\ STDOUT \in Fds
  <1>1. /\ NPROC \in Nat \ {0} /\ NPIPE \in Nat \ {0} /\ PIPE_BUF \in Nat \ {0} /\ NFD \in Nat /\ NFD >= 2
        /\ MaxLines \in Nat
    BY UnixAssumption, ShellAssumption
  <1>2. SH \in Procs /\ SH # INIT /\ INIT \notin Procs /\ Procs \subseteq Nat /\ Pipes \subseteq Nat /\ Fds \subseteq Nat
        /\ STDIN \in Fds /\ STDOUT \in Fds
    BY <1>1 DEF SH, INIT, Procs, Pipes, Fds, STDIN, STDOUT
  <1>3. NULL \notin Procs /\ NULL # INIT /\ NULL \notin Nat
    <2>1. NULL \notin Nat
      BY NullAssumption
    <2>2. 0 \in Nat /\ Procs \subseteq Nat
      BY <1>2
    <2> QED
      BY <2>1, <2>2 DEF INIT
  <1>4. IsFiniteSet(Procs) /\ IsFiniteSet(Pipes) /\ IsFiniteSet(Fds)
    <2>1. IsFiniteSet(1..NPROC) /\ IsFiniteSet(1..NPIPE) /\ IsFiniteSet(0..(NFD - 1))
      BY <1>1, FS_Interval
    <2> QED
      BY <2>1 DEF Procs, Pipes, Fds
  <1> QED
    BY <1>1, <1>2, <1>3, <1>4

LEMMA EndIs ==
  ASSUME NEW x \in Pipes, NEW e \in {"R", "W"}
  PROVE  End(x, e) \in FdVals /\ End(x, e) # NULL /\ End(x, e) # File
  <1>1. x # NULL
    BY Constants
  <1> QED
    BY <1>1, NullAssumption DEF FdVals, End, File

LEMMA FileIs == File \in FdVals /\ NULL \in FdVals
  BY DEF FdVals

\* Sets of free descriptors, processes and pipes have a first.
LEMMA Firsts ==
  /\ Unused # {} => Least(Unused) \in Pipes
  /\ FreeProcs # {} => Least(FreeProcs) \in FreeProcs
  /\ \A p \in Procs : Cardinality(FreeFds(p)) >= 2 =>
        ReadFd(p) \in Fds /\ WriteFd(p) \in Fds /\ ReadFd(p) # WriteFd(p)
  /\ \A p \in Procs : FreeFds(p) # {} => Least(FreeFds(p)) \in Fds
  <1>1. ASSUME NEW S, NEW T, S \subseteq T, T \subseteq Nat, IsFiniteSet(T), S # {}
        PROVE  Least(S) \in S
    BY <1>1, LeastIs, FS_Subset
  <1>2. Unused # {} => Least(Unused) \in Pipes
    <2>1. Unused \subseteq Pipes
      BY DEF Unused
    <2> QED
      BY <1>1, <2>1, Constants
  <1>3. FreeProcs # {} => Least(FreeProcs) \in FreeProcs
    <2>1. FreeProcs \subseteq Procs
      BY DEF FreeProcs
    <2> QED
      BY <1>1, <2>1, Constants
  <1>4. ASSUME NEW p \in Procs, Cardinality(FreeFds(p)) >= 2
        PROVE  ReadFd(p) \in Fds /\ WriteFd(p) \in Fds /\ ReadFd(p) # WriteFd(p)
    <2> DEFINE S == FreeFds(p)
    <2>1. S \subseteq Fds /\ IsFiniteSet(S)
      BY Constants, FS_Subset DEF FreeFds
    <2>2. S # {}
      <3>1. CASE S = {}
        <4>1. Cardinality(S) = 0
          BY <3>1, FS_EmptySet
        <4> QED
          BY <4>1, <1>4
      <3> QED
        BY <3>1
    <2>3. ReadFd(p) \in S
      BY <1>1, <2>1, <2>2, Constants DEF ReadFd
    <2>4. S \ {ReadFd(p)} # {}
      <3>1. CASE S \ {ReadFd(p)} = {}
        <4>1. S = {ReadFd(p)}
          BY <3>1, <2>3
        <4>2. Cardinality(S) = 1
          BY <4>1, FS_Singleton
        <4> QED
          BY <4>2, <1>4
      <3> QED
        BY <3>1
    <2>5. WriteFd(p) \in S \ {ReadFd(p)}
      BY <1>1, <2>1, <2>4, Constants DEF WriteFd
    <2> QED
      BY <2>1, <2>3, <2>5
  <1>5. ASSUME NEW p \in Procs, FreeFds(p) # {} PROVE Least(FreeFds(p)) \in Fds
    <2>1. FreeFds(p) \subseteq Fds
      BY DEF FreeFds
    <2> QED
      BY <1>1, <1>5, <2>1, Constants
  <1> QED
    BY <1>2, <1>3, <1>4, <1>5

-----------------------------------------------------------------------------
(***************************************************************************)
(* The system calls.                                                       *)
(***************************************************************************)
LEMMA Closes ==
  ASSUME SystemOK, NEW p \in Procs, NEW i \in Fds, close(p, i)
  PROVE  /\ SystemOK' /\ proc' = proc
         /\ fd'[p] = [fd[p] EXCEPT ![i] = NULL] /\ \A q \in Procs \ {p} : fd'[q] = fd[q]
  BY FileIs DEF SystemOK, close, Files

LEMMA Dups ==
  ASSUME SystemOK, NEW p \in Procs, NEW i \in Fds, NEW j \in Fds, dup2(p, i, j)
  PROVE  /\ SystemOK' /\ proc' = proc
         /\ fd'[p] = [fd[p] EXCEPT ![j] = fd[p][i]] /\ \A q \in Procs \ {p} : fd'[q] = fd[q]
  <1>1. fd[p] \in Files /\ fd[p][i] \in FdVals
    BY DEF SystemOK, Files
  <1> QED
    BY <1>1 DEF SystemOK, dup2, Files

LEMMA Opens ==
  ASSUME SystemOK, NEW p \in Procs, pipe(p)
  PROVE  /\ SystemOK' /\ proc' = proc
         /\ ReadFd(p) \in Fds /\ WriteFd(p) \in Fds
         /\ \A i \in Fds \ {ReadFd(p), WriteFd(p)} : fd'[p][i] = fd[p][i]
         /\ \A q \in Procs \ {p} : fd'[q] = fd[q]
  <1> DEFINE x == Least(Unused)
             f == [fd[p] EXCEPT ![ReadFd(p)] = End(x, "R"), ![WriteFd(p)] = End(x, "W")]
  <1>1. x \in Pipes /\ ReadFd(p) \in Fds /\ WriteFd(p) \in Fds
    BY Firsts DEF pipe
  <1>2. End(x, "R") \in FdVals /\ End(x, "W") \in FdVals
    BY <1>1, EndIs
  <1>3. fd \in [Procs -> Files] /\ fd[p] \in Files
    BY DEF SystemOK
  <1>4. f \in Files
    BY <1>1, <1>2, <1>3 DEF Files
  <1>5. fd' = [fd EXCEPT ![p] = f] /\ buf' = [buf EXCEPT ![x] = <<>>] /\ proc' = proc
    BY <1>1, <1>3 DEF pipe
  <1>6. /\ fd' \in [Procs -> Files] /\ fd'[p] = f /\ \A q \in Procs \ {p} : fd'[q] = fd[q]
    BY <1>3, <1>4, <1>5
  <1>7. buf' \in [Pipes -> Seq({1})] /\ \A y \in Pipes : Len(buf'[y]) <= PIPE_BUF
    BY <1>1, <1>5, Constants DEF SystemOK
  <1> QED
    BY <1>1, <1>3, <1>5, <1>6, <1>7 DEF SystemOK, Files

LEMMA Forks ==
  ASSUME SystemOK, NEW p \in Procs, NEW c \in Procs, fork(p, c)
  PROVE  /\ SystemOK' /\ proc[c].st = "free"
         /\ proc' = [proc EXCEPT ![c] = [st |-> "run", parent |-> p, code |-> 0]]
         /\ fd' = [fd EXCEPT ![c] = fd[p]]
  <1>1. c \in FreeProcs
    BY Firsts DEF fork
  <1>2. [st |-> "run", parent |-> p, code |-> 0] \in ProcType
    BY DEF ProcType
  <1> QED
    BY <1>1, <1>2 DEF SystemOK, fork, FreeProcs

LEMMA Reaps ==
  ASSUME SystemOK, NEW p, NEW c \in Zombies(p), reap(c)
  PROVE  /\ SystemOK' /\ fd' = fd /\ c \in Procs /\ proc[c].st = "zombie" /\ proc[c].parent = p
         /\ proc' = [proc EXCEPT ![c] = NoProc]
  <1>1. NoProc \in ProcType
    BY DEF NoProc, ProcType
  <1> QED
    BY <1>1 DEF SystemOK, reap, Zombies, Children

LEMMA Exits ==
  ASSUME SystemOK, NEW p \in Procs, NEW code \in Nat, exit(p, code)
  PROVE  /\ SystemOK' /\ fd'[p] = [i \in Fds |-> NULL] /\ \A q \in Procs \ {p} : fd'[q] = fd[q]
         /\ proc'[p].st \in {"free", "zombie"}
         /\ proc[p].parent # INIT => proc'[p].st = "zombie" /\ proc'[p].parent = proc[p].parent
         /\ proc[p].parent = INIT => proc'[p].st = "free"
         /\ \A q \in Procs \ {p} : IF q \in Zombies(p) THEN proc'[q] = NoProc
                                   ELSE IF q \in Children(p) THEN proc'[q] = [proc[q] EXCEPT !.parent = INIT]
                                   ELSE proc'[q] = proc[q]
  <1>1. proc \in [Procs -> ProcType] /\ fd \in [Procs -> Files]
    BY DEF SystemOK
  <1>2. NoProc \in ProcType /\ NoProc.st = "free" /\ NoProc.parent = NULL
    BY DEF NoProc, ProcType
  <1>3. \A q \in Procs : /\ [proc[q] EXCEPT !.parent = INIT] \in ProcType
                         /\ [proc[q] EXCEPT !.st = "zombie", !.code = code] \in ProcType
    BY <1>1 DEF ProcType
  <1>4. [i \in Fds |-> NULL] \in Files
    BY FileIs DEF Files
  <1>5. fd' \in [Procs -> Files] /\ fd'[p] = [i \in Fds |-> NULL] /\ \A q \in Procs \ {p} : fd'[q] = fd[q]
    BY <1>1, <1>4 DEF exit
  <1>6. proc' = [q \in Procs |->
           IF q = p THEN IF proc[p].parent = INIT THEN NoProc ELSE [proc[p] EXCEPT !.st = "zombie", !.code = code]
           ELSE IF q \in Zombies(p) THEN NoProc
           ELSE IF q \in Children(p) THEN [proc[q] EXCEPT !.parent = INIT]
           ELSE proc[q]]
    BY DEF exit
  <1>7. proc' \in [Procs -> ProcType]
    BY <1>1, <1>2, <1>3, <1>6
  <1>8. /\ proc'[p].st \in {"free", "zombie"}
        /\ proc[p].parent # INIT => proc'[p].st = "zombie" /\ proc'[p].parent = proc[p].parent
        /\ proc[p].parent = INIT => proc'[p].st = "free"
    <2>1. [proc[p] EXCEPT !.st = "zombie", !.code = code].st = "zombie"
          /\ [proc[p] EXCEPT !.st = "zombie", !.code = code].parent = proc[p].parent
      BY <1>1 DEF ProcType
    <2>2. proc'[p] = IF proc[p].parent = INIT THEN NoProc ELSE [proc[p] EXCEPT !.st = "zombie", !.code = code]
      BY <1>6
    <2> QED
      BY <1>2, <2>1, <2>2
  <1>9. \A q \in Procs \ {p} : IF q \in Zombies(p) THEN proc'[q] = NoProc
                                   ELSE IF q \in Children(p) THEN proc'[q] = [proc[q] EXCEPT !.parent = INIT]
                                   ELSE proc'[q] = proc[q]
    BY <1>6
  <1>10. buf' \in [Pipes -> Seq({1})] /\ \A x \in Pipes : Len(buf'[x]) <= PIPE_BUF
    BY DEF SystemOK, exit
  <1> QED
    BY <1>5, <1>7, <1>8, <1>9, <1>10 DEF SystemOK

LEMMA Reads ==
  ASSUME SystemOK, NEW p \in Procs, NEW i \in Fds, NEW v \in {1, NULL}, read(p, i, v)
  PROVE  SystemOK' /\ proc' = proc /\ fd' = fd
  <1> DEFINE x == fd[p][i].of
  <1>1. fd[p][i].end = "R" /\ proc' = proc /\ fd' = fd
    BY DEF read
  <1>2. CASE buf' = buf
    BY <1>1, <1>2 DEF SystemOK
  <1>3. CASE buf[x] # <<>> /\ buf' = [buf EXCEPT ![x] = Tail(@)]
    <2>1. CASE x \in Pipes
      <3>1. buf[x] \in Seq({1}) /\ buf[x] # <<>>
        BY <1>3, <2>1 DEF SystemOK
      <3>2. Tail(buf[x]) \in Seq({1}) /\ Len(Tail(buf[x])) = Len(buf[x]) - 1 /\ Len(buf[x]) \in Nat
        BY <3>1
      <3>3. buf' \in [Pipes -> Seq({1})]
        BY <1>3, <3>2 DEF SystemOK
      <3>4. \A y \in Pipes : Len(buf'[y]) <= PIPE_BUF
        BY <1>3, <3>2, Constants DEF SystemOK
      <3> QED
        BY <1>1, <3>3, <3>4 DEF SystemOK
    <2>2. CASE x \notin Pipes
      <3>1. buf' = buf
        BY <1>3, <2>2 DEF SystemOK
      <3> QED
        BY <3>1, <1>1 DEF SystemOK
    <2> QED
      BY <2>1, <2>2
  <1> QED
    BY <1>2, <1>3 DEF read

LEMMA Writes ==
  ASSUME SystemOK, NEW p \in Procs, NEW i \in Fds, write(p, i, 1)
  PROVE  SystemOK' /\ proc' = proc /\ fd' = fd
  <1> DEFINE x == fd[p][i].of
  <1>1. proc' = proc /\ fd' = fd /\ buf' = [buf EXCEPT ![x] = Append(@, 1)] /\ Len(buf[x]) < PIPE_BUF
    BY DEF write
  <1>2. CASE x \in Pipes
    <2>1. buf[x] \in Seq({1})
      BY <1>2 DEF SystemOK
    <2>2. Append(buf[x], 1) \in Seq({1}) /\ Len(Append(buf[x], 1)) = Len(buf[x]) + 1 /\ Len(buf[x]) \in Nat
      BY <2>1
    <2>3. buf' \in [Pipes -> Seq({1})]
      BY <1>1, <2>2 DEF SystemOK
    <2>4. \A y \in Pipes : Len(buf'[y]) <= PIPE_BUF
      BY <1>1, <2>2, Constants DEF SystemOK
    <2> QED
      BY <1>1, <2>3, <2>4 DEF SystemOK
  <1>3. CASE x \notin Pipes
    <2>1. buf' = buf
      BY <1>1, <1>3 DEF SystemOK
    <2> QED
      BY <2>1, <1>1 DEF SystemOK
  <1> QED
    BY <1>2, <1>3

-----------------------------------------------------------------------------
(***************************************************************************)
(* Steps of one process, which leave the tree of processes as it is.       *)
(***************************************************************************)
SameKids(l, m) == (l \in OneChild <=> m \in OneChild) /\ (l \in TwoChildren <=> m \in TwoChildren)

Local(p) ==
    /\ SystemOK' /\ proc' = proc /\ pc' \in [Procs -> Labels] /\ DOMAIN job' = Procs
    /\ \A q \in Procs \ {p} : fd'[q] = fd[q] /\ pc'[q] = pc[q] /\ job'[q] = job[q]
    /\ UNCHANGED torn /\ SameShell

LEMMA LocalStep ==
  ASSUME Inv, NEW p \in Procs \ {SH}, Local(p), Good(p, proc[p], fd'[p], pc'[p], job'[p]),
         job'[p].fg = job[p].fg, SameKids(pc[p], pc'[p])
  PROVE  Inv'
  <1>1. ProcessInv'
    <2>1. \A q \in Procs : Good(q, proc'[q], fd'[q], pc'[q], job'[q])
      BY DEF Inv, ProcessInv, Local
    <2>2. GlobalsOK'
      BY DEF Inv, ProcessInv, GlobalsOK, Local, SameShell
    <2> QED
      BY <2>1, <2>2 DEF ProcessInv, Local
  <1>2. ASSUME TreeInv PROVE TreeInv'
    <2>1. \A q : Children(q)' = Children(q)
      BY DEF Children, Local
    <2>2. \A q \in Procs : job'[q].fg = job[q].fg /\ SameKids(pc[q], pc'[q])
      BY DEF Local, SameKids
    <2>3. ASSUME NEW q \in Procs \ {SH} PROVE Few(Children(q)', pc'[q])
      <3>1. Few(Children(q), pc[q]) /\ SameKids(pc[q], pc'[q])
        BY <1>2, <2>2 DEF TreeInv
      <3> QED
        BY <3>1, <2>1 DEF Few, SameKids
    <2>4. ASSUME NEW q \in Procs, job'[q].fg PROVE (Running(q) /\ Attached(q))'
      <3>1. job[q].fg /\ Running(q) /\ Attached(q)
        BY <1>2, <2>2, <2>4 DEF TreeInv
      <3>2. pc'[SH] = pc[SH] /\ job'[SH] = job[SH] /\ proc' = proc
        BY Constants DEF Local
      <3> QED
        BY <3>1, <3>2, <2>2 DEF Running, Attached
    <2>5. \E rank \in [Procs -> Nat] : Ranked(rank)'
      <3>1. PICK rank \in [Procs -> Nat] : Ranked(rank)
        BY <1>2 DEF TreeInv
      <3>2. Ranked(rank)'
        BY <3>1, <2>2 DEF Ranked, Local
      <3> QED
        BY <3>2
    <2> QED
      BY <2>3, <2>4, <2>5 DEF TreeInv
  <1> QED
    BY <1>1, <1>2 DEF Inv, Local

-----------------------------------------------------------------------------
(***************************************************************************)
(* When the shell does not wait for a process that runs, nothing runs in   *)
(* the foreground: of the processes that do, the one of least rank would   *)
(* have no parent among them.                                              *)
(***************************************************************************)
LEMMA NoForeground ==
  ASSUME ProcessInv, TreeInv, ~(pc[SH] = "waitpid" /\ job[SH].r \in Procs /\ job[job[SH].r].fg)
  PROVE  \A p \in Procs : ~job[p].fg
  <1> SUFFICES ASSUME NEW p0 \in Procs, job[p0].fg PROVE FALSE
    OBVIOUS
  <1>1. PICK rank \in [Procs -> Nat] : Ranked(rank)
    BY DEF TreeInv
  <1> DEFINE Ranks == {rank[p] : p \in {q \in Procs : job[q].fg}}
  <1>2. \E n \in Ranks : \A m \in Ranks : n <= m
    <2>1. Ranks \subseteq Nat /\ Ranks # {}
      BY <1>1
    <2>2. IsFiniteSet({q \in Procs : job[q].fg})
      BY Constants, FS_Subset
    <2>3. IsFiniteSet(Ranks)
      <3> DEFINE S == {q \in Procs : job[q].fg}
                 f == [p \in S |-> rank[p]]
      <3>1. f \in Surjection(S, Ranks)
        BY DEF Surjection
      <3> QED
        BY <2>2, <3>1, FS_Surjection
    <2> QED
      BY <2>1, <2>3, LeastExists
  <1>3. PICK p \in Procs : job[p].fg /\ \A q \in Procs : job[q].fg => rank[p] <= rank[q]
    BY <1>2
  <1>4. Attached(p)
    BY <1>3 DEF TreeInv
  <1>5. ~(proc[p].parent \in Procs /\ job[proc[p].parent].fg)
    <2> SUFFICES ASSUME NEW q \in Procs, proc[p].parent = q, job[q].fg PROVE FALSE
      OBVIOUS
    <2>1. rank[q] < rank[p] /\ rank[p] <= rank[q] /\ rank[p] \in Nat /\ rank[q] \in Nat
      BY <1>1, <1>3 DEF Ranked
    <2> QED
      BY <2>1
  <1>6. pc[SH] = "waitpid" /\ job[SH].r = p
    BY <1>4, <1>5 DEF Attached
  <1> QED
    BY <1>3, <1>6

\* With nothing in the foreground, only the children matter.
LEMMA Quiet ==
  ASSUME \A p \in Procs : ~job'[p].fg, \A p \in Procs \ {SH} : Few(Children(p)', pc'[p])
  PROVE  TreeInv'
  <1>1. [p \in Procs |-> 0] \in [Procs -> Nat] /\ Ranked([p \in Procs |-> 0])'
    BY DEF Ranked
  <1> QED
    BY <1>1 DEF TreeInv

LEMMA FewMore ==
  ASSUME NEW S, NEW T, S \subseteq T, NEW l, Few(T, l)
  PROVE  Few(S, l)
  <1>1. l \in OneChild => \E c \in Procs : S \subseteq {c}
    BY DEF Few
  <1>2. l \in TwoChildren => \E c, d \in Procs : S \subseteq {c, d}
    <2>1. SUFFICES ASSUME l \in TwoChildren PROVE \E c, d \in Procs : S \subseteq {c, d}
      OBVIOUS
    <2>2. PICK c \in Procs, d \in Procs : T \subseteq {c, d}
      BY <2>1 DEF Few
    <2> QED
      BY <2>2
  <1>3. l \notin OneChild \cup TwoChildren => S = {}
    BY DEF Few
  <1> QED
    BY <1>1, <1>2, <1>3 DEF Few

-----------------------------------------------------------------------------
(***************************************************************************)
(* Steps that take a child that ended.                                     *)
(***************************************************************************)
LEMMA ReapKids ==
  ASSUME ProcessInv, NEW p \in Procs, NEW c \in Zombies(p), reap(c)
  PROVE  /\ c \in Children(p) /\ pc[c] = "off" /\ Children(p)' = Children(p) \ {c}
         /\ \A q \in Procs : Children(q)' \subseteq Children(q)
         /\ \A q \in Procs \ {c} : proc'[q] = proc[q]
         /\ c # SH /\ c \in Procs /\ proc'[c] = NoProc
         /\ SystemOK' /\ fd' = fd
  <1>1. /\ SystemOK' /\ fd' = fd /\ c \in Procs /\ proc[c].st = "zombie" /\ proc[c].parent = p
        /\ proc' = [proc EXCEPT ![c] = NoProc]
    BY Reaps DEF ProcessInv
  <1>2. c # SH
    BY <1>1, Constants DEF ProcessInv, Good
  <1>3. pc[c] = "off"
    BY <1>1 DEF ProcessInv, Good
  <1>4. /\ \A q \in Procs \ {c} : proc'[q] = proc[q]
        /\ proc'[c] = NoProc /\ NoProc.st = "free"
    BY <1>1 DEF ProcessInv, SystemOK, NoProc
  <1>5. c \in Children(p)
    BY <1>1 DEF Children
  <1>6. \A q \in Procs : Children(q)' = Children(q) \ {c}
    BY <1>4 DEF Children
  <1> QED
    BY <1>1, <1>2, <1>3, <1>4, <1>5, <1>6

\* exec_cmd waits for a child of a pipe.
LEMMA WaitStep ==
  ASSUME Inv, NEW p \in Procs \ {SH}, wait(p)
  PROVE  Inv'
  <1>1. PICK c \in Zombies(p) : reap(c) /\ \/ At(p, "wait") /\ Step(p, "wait2")
                                           \/ At(p, "wait2") /\ Step(p, "exit")
    BY DEF wait
  <1>2. ProcessInv
    BY DEF Inv
  <1>3. /\ c \in Children(p) /\ pc[c] = "off" /\ Children(p)' = Children(p) \ {c}
        /\ \A q \in Procs : Children(q)' \subseteq Children(q)
        /\ \A q \in Procs \ {c} : proc'[q] = proc[q]
        /\ c # SH /\ c \in Procs /\ proc'[c] = NoProc
        /\ SystemOK' /\ fd' = fd
    BY <1>1, <1>2, ReapKids
  <1>4. PICK l : /\ pc' = [pc EXCEPT ![p] = l]
                 /\ \/ pc[p] = "wait" /\ l = "wait2"
                    \/ pc[p] = "wait2" /\ l = "exit"
    BY <1>1 DEF At, Step, Goto
  <1>5. job' = job /\ torn' = torn /\ status' = status /\ lines' = lines
    BY <1>1 DEF Step, SameShell
  <1>6. pc \in [Procs -> Labels] /\ pc' \in [Procs -> Labels] /\ pc'[p] = l /\ \A q \in Procs \ {p} : pc'[q] = pc[q]
    BY <1>2, <1>4 DEF ProcessInv, Labels
  <1>7. ProcessInv'
    <2>1. Good(p, proc[p], fd[p], pc[p], job[p]) /\ Good(c, proc[c], fd[c], pc[c], job[c])
      BY <1>2, <1>3 DEF ProcessInv
    <2>2. c # p
      BY <1>3, <1>4
    <2>3. Good(p, proc'[p], fd'[p], pc'[p], job'[p])
      <3>1. proc'[p] = proc[p] /\ fd'[p] = fd[p] /\ job'[p] = job[p] /\ pc'[p] \in {"wait2", "exit"}
        BY <1>3, <1>4, <1>5, <1>6, <2>2
      <3>2. proc[p].st = "run" /\ job[p].fg /\ JobOK(pc'[p], job[p])
        BY <2>1, <1>4, <3>1 DEF Good, Proper, JobOK, Plain, PipeLabels, EndLabels
      <3>3. \A i \in Fds : fd[p][i] # NULL => i \in Allowed(pc'[p], job[p])
        BY <2>1, <1>4, <3>1 DEF Good, Proper, Allowed, PipeLabels, EndLabels, FileLabels
      <3>4. pc'[p] \in ChildLabels
        BY <3>1 DEF ChildLabels, Labels, ShellLabels
      <3> QED
        BY <3>1, <3>2, <3>3, <3>4 DEF Good, Proper
    <2>4. Good(c, proc'[c], fd'[c], pc'[c], job'[c])
      BY <1>3, <1>5, <1>6, <2>1, <2>2 DEF Good, NoProc
    <2>5. \A q \in Procs \ {p, c} : Good(q, proc'[q], fd'[q], pc'[q], job'[q])
      BY <1>2, <1>3, <1>5, <1>6 DEF ProcessInv
    <2>6. GlobalsOK'
      BY <1>2, <1>5 DEF ProcessInv, GlobalsOK
    <2> QED
      BY <1>2, <1>3, <1>5, <1>6, <2>3, <2>4, <2>5, <2>6 DEF ProcessInv
  <1>8. ASSUME TreeInv PROVE TreeInv'
    <2>1. ASSUME NEW q \in Procs \ {SH} PROVE Few(Children(q)', pc'[q])
      <3>1. CASE q # p
        BY <3>1, <1>3, <1>6, <1>8, FewMore DEF TreeInv
      <3>2. CASE q = p /\ l = "wait2"
        <4>1. PICK d \in Procs, e \in Procs : Children(p) \subseteq {d, e}
          BY <3>2, <1>4, <1>8 DEF TreeInv, Few, TwoChildren
        <4>2. Children(p) \ {c} \subseteq {d} \/ Children(p) \ {c} \subseteq {e}
          BY <4>1, <1>3
        <4> QED
          BY <3>2, <4>2, <1>3, <1>6 DEF Few, OneChild, TwoChildren
      <3>3. CASE q = p /\ l = "exit"
        <4>1. PICK d \in Procs : Children(p) \subseteq {d}
          BY <3>3, <1>4, <1>8 DEF TreeInv, Few, OneChild
        <4>2. Children(p) \ {c} = {}
          BY <4>1, <1>3
        <4> QED
          BY <3>3, <4>2, <1>3, <1>6 DEF Few, OneChild, TwoChildren
      <3> QED
        BY <3>1, <3>2, <3>3, <1>4
    <2>2. \A q \in Procs : job'[q].fg => q # c
      BY <1>2, <1>3, <1>5, <1>8 DEF TreeInv, ProcessInv, Running, Good
    <2>3. ASSUME NEW q \in Procs, job'[q].fg PROVE (Running(q) /\ Attached(q))'
      <3>1. Running(q) /\ Attached(q) /\ proc'[q] = proc[q]
        BY <1>3, <1>5, <1>8, <2>2, <2>3 DEF TreeInv
      <3>2. pc'[SH] = pc[SH]
        BY <1>6, Constants
      <3> QED
        BY <3>1, <3>2, <1>5 DEF Running, Attached
    <2>4. \E rank \in [Procs -> Nat] : Ranked(rank)'
      <3>1. PICK rank \in [Procs -> Nat] : Ranked(rank)
        BY <1>8 DEF TreeInv
      <3>2. Ranked(rank)'
        BY <3>1, <2>2, <1>3, <1>5 DEF Ranked
      <3> QED
        BY <3>2
    <2> QED
      BY <2>1, <2>3, <2>4 DEF TreeInv
  <1> QED
    BY <1>5, <1>7, <1>8 DEF Inv

-----------------------------------------------------------------------------
(***************************************************************************)
(* A process ends.                                                         *)
(***************************************************************************)
Ended(p) ==
    /\ \E code \in Nat : exit(p, code)
    /\ pc' = [pc EXCEPT ![p] = "off"] /\ job' = [job EXCEPT ![p] = NoJob]
    /\ status' \in Int /\ lines' = lines
    /\ torn' \in BOOLEAN /\ (torn => torn')

LEMMA NoJobOK == NoJob.fg = FALSE /\ JobOK("off", NoJob) /\ JobOK("zombies", NoJob)
  BY DEF NoJob, JobOK, PipeLabels, EndLabels

LEMMA EndProcesses ==
  ASSUME ProcessInv, NEW p \in Procs, Ended(p)
  PROVE  ProcessInv'
  <1>1. PICK code \in Nat : exit(p, code)
    BY DEF Ended
  <1>2. /\ SystemOK' /\ fd'[p] = [i \in Fds |-> NULL] /\ \A q \in Procs \ {p} : fd'[q] = fd[q]
        /\ proc'[p].st \in {"free", "zombie"}
        /\ proc[p].parent # INIT => proc'[p].st = "zombie" /\ proc'[p].parent = proc[p].parent
        /\ proc[p].parent = INIT => proc'[p].st = "free"
        /\ \A q \in Procs \ {p} : IF q \in Zombies(p) THEN proc'[q] = NoProc
                                  ELSE IF q \in Children(p) THEN proc'[q] = [proc[q] EXCEPT !.parent = INIT]
                                  ELSE proc'[q] = proc[q]
    BY <1>1, Exits DEF ProcessInv
  <1>3. /\ pc \in [Procs -> Labels] /\ pc' \in [Procs -> Labels] /\ pc'[p] = "off" /\ \A q \in Procs \ {p} : pc'[q] = pc[q]
        /\ DOMAIN job' = Procs /\ job'[p] = NoJob /\ \A q \in Procs \ {p} : job'[q] = job[q]
    BY DEF Ended, ProcessInv, Labels
  <1>4. Good(p, proc'[p], fd'[p], pc'[p], job'[p])
    <2>1. Proper(fd'[p], "off", NoJob)
      BY <1>2, NoJobOK DEF Proper
    <2>2. p = SH => proc'[p].parent = NULL /\ proc'[p].st = "zombie"
      BY <1>2, Constants DEF ProcessInv, Good
    <2>3. proc'[p].st # "run"
      BY <1>2
    <2> QED
      BY <1>3, <2>1, <2>2, <2>3, NoJobOK DEF Good, Plain
  <1>5. ASSUME NEW q \in Procs \ {p} PROVE Good(q, proc'[q], fd'[q], pc'[q], job'[q])
    <2>1. Good(q, proc[q], fd[q], pc[q], job[q]) /\ proc[q] \in ProcType
      BY DEF ProcessInv, SystemOK
    <2>2. fd'[q] = fd[q] /\ pc'[q] = pc[q] /\ job'[q] = job[q]
      BY <1>2, <1>3
    <2>3. CASE q \in Children(p)
      <3>1. q # SH
        BY <2>1, <2>3, Constants DEF Children, Good
      <3>2. (proc'[q].st = "run") <=> (proc[q].st = "run")
        <4>1. CASE q \in Zombies(p)
          <5>1. proc[q].st = "zombie" /\ proc'[q] = NoProc
            BY <1>2, <4>1 DEF Zombies
          <5> QED
            BY <5>1 DEF NoProc
        <4>2. CASE q \notin Zombies(p)
          <5>1. proc'[q] = [proc[q] EXCEPT !.parent = INIT]
            BY <1>2, <2>3, <4>2
          <5> QED
            BY <5>1, <2>1 DEF ProcType
        <4> QED
          BY <4>1, <4>2
      <3> QED
        BY <2>1, <2>2, <3>1, <3>2 DEF Good
    <2>4. CASE q \notin Children(p)
      BY <1>2, <2>1, <2>2, <2>4 DEF Zombies
    <2> QED
      BY <2>3, <2>4
  <1>6. GlobalsOK'
    BY DEF ProcessInv, GlobalsOK, Ended
  <1> QED
    BY <1>2, <1>3, <1>4, <1>5, <1>6 DEF ProcessInv

\* The children of a process that ends come to init; no process gets a child.
LEMMA EndKids ==
  ASSUME ProcessInv, NEW p \in Procs, Running(p), Ended(p)
  PROVE  \A q \in Procs : Children(q)' \subseteq Children(q)
  <1>1. PICK code \in Nat : exit(p, code)
    BY DEF Ended
  <1>2. /\ proc' \in [Procs -> ProcType] /\ proc \in [Procs -> ProcType]
        /\ proc[p].parent # INIT => proc'[p].st = "zombie" /\ proc'[p].parent = proc[p].parent
        /\ proc[p].parent = INIT => proc'[p].st = "free"
        /\ \A q \in Procs \ {p} : IF q \in Zombies(p) THEN proc'[q] = NoProc
                                  ELSE IF q \in Children(p) THEN proc'[q] = [proc[q] EXCEPT !.parent = INIT]
                                  ELSE proc'[q] = proc[q]
    BY <1>1, Exits DEF ProcessInv, SystemOK
  <1> SUFFICES ASSUME NEW q \in Procs, NEW r \in Procs, proc'[r].st # "free", proc'[r].parent = q
               PROVE  proc[r].st # "free" /\ proc[r].parent = q
    BY DEF Children
  <1>3. CASE r = p
    BY <1>2, <1>3 DEF Running
  <1>4. CASE r # p
    <2>1. r \notin Zombies(p)
      BY <1>2, <1>4 DEF NoProc
    <2>2. CASE r \in Children(p)
      <3>1. proc'[r] = [proc[r] EXCEPT !.parent = INIT] /\ proc[r] \in ProcType
        BY <1>2, <1>4, <2>1, <2>2
      <3>2. proc'[r].parent = INIT
        BY <3>1 DEF ProcType
      <3> QED
        BY <3>2, Constants
    <2>3. CASE r \notin Children(p)
      BY <1>2, <1>4, <2>1, <2>3
    <2> QED
      BY <2>2, <2>3
  <1> QED
    BY <1>3, <1>4


LEMMA EndStep ==
  ASSUME Inv, NEW p \in Procs \ {SH}, Running(p), Ended(p), ~torn' => pc[p] \notin OneChild \cup TwoChildren
  PROVE  Inv'
  <1>1. ProcessInv /\ ProcessInv'
    BY EndProcesses DEF Inv
  <1>2. ASSUME ~torn' PROVE TreeInv'
    <2>1. TreeInv /\ Children(p) = {}
      BY <1>2 DEF Inv, Ended, TreeInv, Few
    <2>2. PICK code \in Nat : exit(p, code)
      BY DEF Ended
    <2>3. \A q \in Procs \ {p} : proc'[q] = proc[q]
      BY <1>1, <2>1, <2>2, Exits DEF ProcessInv, Zombies
    <2>4. /\ pc'[p] = "off" /\ \A q \in Procs \ {p} : pc'[q] = pc[q] /\ job'[q] = job[q]
          /\ job'[p] = NoJob /\ ~job'[p].fg
      BY <1>1, NoJobOK DEF Ended, ProcessInv
    <2>5. ASSUME NEW q \in Procs \ {SH} PROVE Few(Children(q)', pc'[q])
      <3>1. Children(q)' \subseteq Children(q) /\ Few(Children(q), pc[q])
        BY <1>1, <2>1, EndKids DEF TreeInv
      <3>2. CASE q = p
        BY <3>1, <3>2, <2>1, <2>4 DEF Few, OneChild, TwoChildren
      <3>3. CASE q # p
        BY <3>1, <3>3, <2>4, FewMore
      <3> QED
        BY <3>2, <3>3
    <2>6. \A q \in Procs : job'[q].fg => q # p /\ job[q].fg /\ proc'[q] = proc[q]
      BY <2>3, <2>4
    <2>7. ASSUME NEW q \in Procs, job'[q].fg PROVE (Running(q) /\ Attached(q))'
      <3>1. Running(q) /\ Attached(q) /\ proc'[q] = proc[q]
        BY <2>1, <2>6, <2>7 DEF TreeInv
      <3>2. proc[q].parent # p
        BY <3>1, <2>1 DEF Children, Running
      <3>3. pc'[SH] = pc[SH] /\ job'[SH] = job[SH]
        BY <2>4, Constants
      <3> QED
        BY <3>1, <3>2, <3>3, <2>4 DEF Running, Attached
    <2>8. \E rank \in [Procs -> Nat] : Ranked(rank)'
      <3>1. PICK rank \in [Procs -> Nat] : Ranked(rank)
        BY <2>1 DEF TreeInv
      <3>2. Ranked(rank)'
        BY <3>1, <2>6 DEF Ranked
      <3> QED
        BY <3>2
    <2> QED
      BY <2>5, <2>7, <2>8 DEF TreeInv
  <1> QED
    BY <1>1, <1>2 DEF Inv

LEMMA EndsIs ==
  ASSUME NEW p, NEW raw \in Nat, Ends(p, raw), GlobalsOK
  PROVE  Ended(p) /\ torn' = torn
  BY DEF Ends, Ended, SameShell, GlobalsOK

LEMMA ExitShellStep ==
  ASSUME Inv, exit_shell \/ end_of_input
  PROVE  Inv'
  <1>1. /\ Running(SH) /\ pc[SH] \in {"run", "prompt"} /\ Ended(SH) /\ torn' = torn /\ SH \in Procs /\ ProcessInv
    <2>1. CASE exit_shell
      BY <2>1, Constants DEF exit_shell, Ended, At, Inv, ProcessInv, GlobalsOK
    <2>2. CASE end_of_input
      BY <2>2, EndsIs, Constants DEF end_of_input, At, Inv, ProcessInv
    <2> QED
      BY <2>1, <2>2
  <1>2. ProcessInv'
    BY <1>1, EndProcesses
  <1>3. ASSUME TreeInv PROVE TreeInv'
    <2>1. \A p \in Procs : ~job[p].fg
      BY <1>1, <1>3, NoForeground
    <2>2. \A p \in Procs : ~job'[p].fg
      BY <1>1, <2>1, NoJobOK DEF Ended, ProcessInv
    <2>3. \A p \in Procs \ {SH} : Few(Children(p)', pc'[p])
      <3> TAKE p \in Procs \ {SH}
      <3>1. Children(p)' \subseteq Children(p) /\ Few(Children(p), pc[p])
        BY <1>1, <1>3, EndKids DEF TreeInv
      <3>2. pc'[p] = pc[p]
        BY <1>1 DEF Ended, ProcessInv
      <3> QED
        BY <3>1, <3>2, FewMore
    <2> QED
      BY <2>2, <2>3, Quiet
  <1> QED
    BY <1>1, <1>2, <1>3 DEF Inv

-----------------------------------------------------------------------------
(***************************************************************************)
(* A process makes another.                                                *)
(***************************************************************************)
Forked(p, c) ==
    /\ fork(p, c) /\ Running(p) /\ SameShell /\ UNCHANGED torn
    /\ pc' \in [Procs -> Labels] /\ DOMAIN job' = Procs
    /\ \A q \in Procs \ {p, c} : pc'[q] = pc[q] /\ job'[q] = job[q]

LEMMA ForkProcesses ==
  ASSUME ProcessInv, NEW p \in Procs, NEW c \in Procs, Forked(p, c)
  PROVE  /\ p # c /\ proc[c].st = "free" /\ pc[c] = "off" /\ c # SH
         /\ proc'[c].st = "run" /\ proc'[c].parent = p /\ fd'[c] = fd[p]
         /\ \A q \in Procs \ {c} : proc'[q] = proc[q] /\ fd'[q] = fd[q]
         /\ (/\ Good(p, proc[p], fd[p], pc'[p], job'[p])
             /\ Proper(fd[p], pc'[c], job'[c]) /\ pc'[c] \in ChildLabels
             /\ (~job'[c].fg => Plain(pc'[c], job'[c]))) => ProcessInv'
  <1>1. /\ SystemOK' /\ proc[c].st = "free"
        /\ proc' = [proc EXCEPT ![c] = [st |-> "run", parent |-> p, code |-> 0]]
        /\ fd' = [fd EXCEPT ![c] = fd[p]]
    BY Forks DEF ProcessInv, Forked
  <1>2. proc \in [Procs -> ProcType] /\ fd \in [Procs -> Files]
    BY DEF ProcessInv, SystemOK
  <1>3. /\ proc'[c].st = "run" /\ proc'[c].parent = p /\ fd'[c] = fd[p]
        /\ \A q \in Procs \ {c} : proc'[q] = proc[q] /\ fd'[q] = fd[q]
    BY <1>1, <1>2
  <1>4. p # c /\ pc[c] = "off" /\ c # SH
    BY <1>1 DEF Forked, Running, ProcessInv, Good
  <1>5. ASSUME /\ Good(p, proc[p], fd[p], pc'[p], job'[p])
               /\ Proper(fd[p], pc'[c], job'[c]) /\ pc'[c] \in ChildLabels
               /\ (~job'[c].fg => Plain(pc'[c], job'[c]))
        PROVE  ProcessInv'
    <2>1. Good(c, proc'[c], fd'[c], pc'[c], job'[c])
      BY <1>3, <1>4, <1>5 DEF Good, ChildLabels
    <2>2. \A q \in Procs \ {c} : Good(q, proc'[q], fd'[q], pc'[q], job'[q])
      BY <1>3, <1>4, <1>5 DEF ProcessInv, Forked
    <2>3. GlobalsOK'
      BY DEF ProcessInv, GlobalsOK, Forked, SameShell
    <2> QED
      BY <1>1, <2>1, <2>2, <2>3 DEF ProcessInv, Forked
  <1> QED
    BY <1>1, <1>3, <1>4, <1>5

\* A process is new in the tree: it had no children, and it is below its parent.
LEMMA ForkTree ==
  ASSUME ProcessInv, TreeInv, NEW p \in Procs, NEW c \in Procs, Forked(p, c),
         p # SH => Few(Children(p) \cup {c}, pc'[p]), Few({}, pc'[c]),
         job'[p].fg = job[p].fg, c # SH,
         job'[c].fg => \/ job[p].fg /\ pc'[SH] = pc[SH] /\ job'[SH].r = job[SH].r
                       \/ p = SH /\ pc'[SH] = "waitpid" /\ job'[SH].r = c,
         \/ pc'[SH] = pc[SH] /\ job'[SH].r = job[SH].r
         \/ \A q \in Procs : ~job[q].fg
  PROVE  TreeInv'
  <1>1. /\ p # c /\ proc[c].st = "free" /\ pc[c] = "off" /\ c # SH
        /\ proc'[c].st = "run" /\ proc'[c].parent = p
        /\ \A q \in Procs \ {c} : proc'[q] = proc[q]
    BY ForkProcesses
  <1>2. Children(c) = {} /\ ~job[c].fg
    BY <1>1 DEF TreeInv, Few, OneChild, TwoChildren, Running
  <1>3. Children(p)' = Children(p) \cup {c} /\ \A q \in Procs \ {p} : Children(q)' = Children(q)
    BY <1>1 DEF Children
  <1>4. ASSUME NEW q \in Procs \ {SH} PROVE Few(Children(q)', pc'[q])
    <2>1. CASE q = p
      BY <2>1, <1>3
    <2>2. CASE q = c
      BY <2>2, <1>1, <1>2, <1>3
    <2>3. CASE q \notin {p, c}
      BY <2>3, <1>3 DEF TreeInv, Forked
    <2> QED
      BY <2>1, <2>2, <2>3
  <1>5. \A q \in Procs \ {c} : job'[q].fg = job[q].fg
    BY DEF Forked
  <1>6. ASSUME NEW q \in Procs, job'[q].fg PROVE (Running(q) /\ Attached(q))'
    <2>1. CASE q = c
      <3>1. Running(c)'
        BY <1>1 DEF Running
      <3>2. Attached(c)'
        <4>1. CASE job[p].fg
          BY <4>1, <1>1 DEF Attached
        <4>2. CASE p = SH /\ pc'[SH] = "waitpid" /\ job'[SH].r = c
          BY <4>2, <1>1 DEF Attached
        <4> QED
          BY <2>1, <1>6, <4>1, <4>2
      <3> QED
        BY <2>1, <3>1, <3>2
    <2>2. CASE q # c
      <3>1. job[q].fg /\ Running(q) /\ Attached(q) /\ proc'[q] = proc[q]
        BY <2>2, <1>1, <1>5, <1>6 DEF TreeInv
      <3>2. pc'[SH] = pc[SH] /\ job'[SH].r = job[SH].r
        BY <3>1
      <3>3. proc[q].parent \in Procs /\ job[proc[q].parent].fg => job'[proc[q].parent].fg
        BY <1>2, <1>5
      <3> QED
        BY <3>1, <3>2, <3>3 DEF Running, Attached
    <2> QED
      BY <2>1, <2>2
  <1>7. \E rank \in [Procs -> Nat] : Ranked(rank)'
    <2>1. PICK rank \in [Procs -> Nat] : Ranked(rank)
      BY DEF TreeInv
    <2> DEFINE up == [rank EXCEPT ![c] = rank[p] + 1]
    <2>2. up \in [Procs -> Nat] /\ up[c] = rank[p] + 1 /\ \A q \in Procs \ {c} : up[q] = rank[q]
      OBVIOUS
    <2>3. ASSUME NEW q \in Procs, NEW s \in Procs, job'[q].fg, job'[s].fg, proc'[q].parent = s
          PROVE  up[s] < up[q]
      <3>1. CASE q = c
        BY <3>1, <2>2, <2>3, <1>1
      <3>2. CASE q # c
        <4>1. job[q].fg /\ proc[q].parent = s /\ Running(q)
          BY <3>2, <2>3, <1>1, <1>5 DEF TreeInv
        <4>2. s # c
          BY <4>1, <1>2 DEF Children, Running
        <4>3. rank[s] < rank[q]
          BY <4>1, <4>2, <2>1, <2>3, <1>5 DEF Ranked
        <4> QED
          BY <3>2, <4>2, <4>3, <2>2
      <3> QED
        BY <3>1, <3>2
    <2>4. Ranked(up)'
      BY <2>3 DEF Ranked
    <2> QED
      BY <2>2, <2>4
  <1> QED
    BY <1>4, <1>6, <1>7 DEF TreeInv

-----------------------------------------------------------------------------
(***************************************************************************)
(* The steps of the children.                                              *)
(***************************************************************************)
LEMMA ChildIs ==
  ASSUME ProcessInv, NEW p \in Procs, NEW l \in ChildLabels, At(p, l)
  PROVE  /\ p \in Procs \ {SH} /\ Running(p) /\ pc[p] = l
         /\ Good(p, proc[p], fd[p], l, job[p]) /\ (~job[p].fg => Plain(l, job[p]))
         /\ proc[p].st = "run" /\ fd[p] \in Files
  BY DEF ProcessInv, SystemOK, Good, At, Running, ChildLabels, Labels, ShellLabels

\* A step that changes only where p is, and its job.
LEMMA Moves ==
  ASSUME ProcessInv, NEW p \in Procs, NEW l \in Labels, Goto(p, l), SystemOK', proc' = proc,
         \A q \in Procs \ {p} : fd'[q] = fd[q],
         DOMAIN job' = Procs, \A q \in Procs \ {p} : job'[q] = job[q], UNCHANGED torn, SameShell
  PROVE  Local(p) /\ pc'[p] = l
  BY DEF ProcessInv, Local, Goto

LEMMA SystemSame ==
  ASSUME SystemOK, SameSystem
  PROVE  SystemOK' /\ proc' = proc /\ fd' = fd
  BY DEF SystemOK, SameSystem

\* With the same descriptors only the standard ones are allowed, before and after.
LEMMA GoodMove ==
  ASSUME NEW p \in Procs \ {SH}, NEW w, NEW f, NEW l \in ChildLabels, NEW m \in ChildLabels, NEW i, NEW j,
         Good(p, w, f, l, i), JobOK(m, j), j.fg = i.fg,
         \A k \in Fds : f[k] # NULL /\ k \in Allowed(l, i) => k \in Allowed(m, j),
         ~i.fg => Plain(m, j)
  PROVE  Good(p, w, f, m, j)
  <1>1. l # "off" /\ m # "off"
    BY DEF ChildLabels
  <1>2. \A k \in Fds : f[k] # NULL => k \in Allowed(m, j)
    BY DEF Good, Proper, Allowed
  <1> QED
    BY <1>1, <1>2 DEF Good, Proper

LEMMA ExecvpStep ==
  ASSUME Inv, NEW p \in Procs, NEW l \in {"exec", "redir"}, At(p, l), execvp(p)
  PROVE  Inv'
  <1>1. ProcessInv /\ l \in ChildLabels /\ "prog" \in ChildLabels /\ "prog" \in Labels
    BY DEF Inv, ChildLabels, Labels, ShellLabels
  <1>2. /\ p \in Procs \ {SH} /\ Running(p) /\ pc[p] = l
        /\ Good(p, proc[p], fd[p], l, job[p]) /\ (~job[p].fg => Plain(l, job[p]))
        /\ proc[p].st = "run" /\ fd[p] \in Files
    BY <1>1, ChildIs
  <1>3. CASE Ends(p, ExitMinusOne)
    <2>1. Ended(p) /\ torn' = torn
      BY <1>1, <1>3, EndsIs DEF ProcessInv, ExitMinusOne
    <2>2. pc[p] \notin OneChild \cup TwoChildren
      BY <1>2 DEF OneChild, TwoChildren
    <2> QED
      BY <1>2, <2>1, <2>2, EndStep
  <1>4. CASE /\ Goto(p, "prog") /\ job' = [job EXCEPT ![p] = [@ EXCEPT !.left = Output, !.opened = {}]]
             /\ fd' = [fd EXCEPT ![p] = [i \in Fds |-> IF i \in job[p].opened THEN NULL ELSE fd[p][i]]]
             /\ UNCHANGED <<proc, buf, torn>> /\ SameShell
    <2> DEFINE j == [job[p] EXCEPT !.left = Output, !.opened = {}]
               f == [i \in Fds |-> IF i \in job[p].opened THEN NULL ELSE fd[p][i]]
    <2>1. DOMAIN job' = Procs /\ job'[p] = j /\ \A q \in Procs \ {p} : job'[q] = job[q]
      BY <1>1, <1>4 DEF ProcessInv
    <2>2. SystemOK' /\ proc' = proc /\ fd'[p] = f /\ \A q \in Procs \ {p} : fd'[q] = fd[q]
      <3>1. f \in Files
        BY <1>2, FileIs DEF Files
      <3>2. fd' \in [Procs -> Files] /\ fd'[p] = f /\ \A q \in Procs \ {p} : fd'[q] = fd[q]
        BY <1>1, <1>4, <3>1 DEF ProcessInv, SystemOK
      <3> QED
        BY <1>1, <1>4, <3>2 DEF ProcessInv, SystemOK
    <2>3. Local(p) /\ pc'[p] = "prog"
      BY <1>1, <1>4, <2>1, <2>2, Moves
    <2>4. JobOK(l, job[p])
      BY <1>2 DEF Good, Proper
    <2>5. JobOK("prog", j) /\ j.fg = job[p].fg
      BY <2>4 DEF JobOK, PipeLabels, EndLabels
    <2>6. Plain("prog", j)
      BY DEF Plain
    <2>7. \A k \in Fds : /\ f[k] # NULL => k \in Allowed("prog", j)
                         /\ f[k] \in {fd[p][k], NULL}
      BY <1>2 DEF Good, Proper, Allowed, PipeLabels, EndLabels, FileLabels
    <2>8. Good(p, proc[p], f, "prog", j)
      BY <1>1, <1>2, <2>5, <2>6, <2>7 DEF Good, Proper, ChildLabels
    <2>9. SameKids(pc[p], pc'[p])
      BY <1>2, <2>3 DEF SameKids, OneChild, TwoChildren
    <2> QED
      BY <1>2, <2>1, <2>2, <2>3, <2>5, <2>8, <2>9, LocalStep
  <1> QED
    BY <1>3, <1>4 DEF execvp

LEMMA ChildEnds ==
  ASSUME Inv, NEW p \in Procs, NEW l \in ChildLabels \ (OneChild \cup TwoChildren), At(p, l),
         NEW raw \in Nat, Ends(p, raw)
  PROVE  Inv'
  <1>1. ProcessInv /\ l \in ChildLabels
    BY DEF Inv
  <1>2. p \in Procs \ {SH} /\ Running(p) /\ pc[p] = l
    BY <1>1, ChildIs
  <1>3. Ended(p) /\ torn' = torn
    BY <1>1, EndsIs DEF ProcessInv
  <1> QED
    BY <1>2, <1>3, EndStep

LEMMA ExecStep ==
  ASSUME Inv, NEW p \in Procs, exec_cmd(p)
  PROVE  Inv'
  <1>1. /\ ProcessInv /\ At(p, "exec")
        /\ {"exec", "redir", "forkl"} \subseteq ChildLabels /\ {"exec", "redir", "forkl"} \subseteq Labels
        /\ "exec" \in ChildLabels \ (OneChild \cup TwoChildren)
    BY DEF Inv, exec_cmd, ChildLabels, Labels, ShellLabels, OneChild, TwoChildren
  <1>2. /\ p \in Procs \ {SH} /\ Running(p) /\ pc[p] = "exec"
        /\ Good(p, proc[p], fd[p], "exec", job[p]) /\ (~job[p].fg => Plain("exec", job[p]))
        /\ proc[p].st = "run" /\ fd[p] \in Files
    BY <1>1, ChildIs
  <1>3. JobOK("exec", job[p]) /\ DOMAIN job = Procs /\ pc \in [Procs -> Labels]
    BY <1>1, <1>2 DEF Good, Proper, ProcessInv
  <1> DEFINE cmd == job[p].cmd
  <1>4. CASE cmd.type = "BACK" /\ job' = [job EXCEPT ![p].cmd = cmd.c] /\ SameSystem /\ UNCHANGED <<pc, torn>> /\ SameShell
    <2> DEFINE j == [job[p] EXCEPT !.cmd = cmd.c]
    <2>1. DOMAIN job' = Procs /\ job'[p] = j /\ \A q \in Procs \ {p} : job'[q] = job[q]
      BY <1>3, <1>4
    <2>2. SystemOK' /\ proc' = proc /\ fd' = fd
      BY <1>1, <1>4, SystemSame DEF ProcessInv
    <2>3. Local(p) /\ pc'[p] = "exec"
      BY <1>2, <1>3, <1>4, <2>1, <2>2 DEF Local
    <2>4. JobOK("exec", j) /\ j.fg = job[p].fg /\ j.cmd = cmd.c
      BY <1>3 DEF JobOK, PipeLabels, EndLabels
    <2>5. ~job[p].fg => Plain("exec", j)
      BY <1>2, <1>4, <2>4 DEF Plain
    <2>6. \A k \in Fds : k \in Allowed("exec", job[p]) => k \in Allowed("exec", j)
      BY DEF Allowed, PipeLabels, EndLabels, FileLabels
    <2>7. Good(p, proc[p], fd[p], "exec", j)
      BY <1>1, <1>2, <2>4, <2>5, <2>6, GoodMove
    <2>8. SameKids(pc[p], pc'[p])
      BY <1>2, <2>3 DEF SameKids
    <2> QED
      BY <1>2, <2>1, <2>2, <2>3, <2>4, <2>7, <2>8, LocalStep
  <1>5. CASE cmd.type = "EXEC" /\ execvp(p)
    BY <1>1, <1>5, ExecvpStep
  <1>6. CASE /\ cmd.type = "REDIR" /\ SameSystem /\ Goto(p, "redir")
             /\ job' = [job EXCEPT ![p].redir = Redirected(cmd)] /\ UNCHANGED torn /\ SameShell
    <2> DEFINE j == [job[p] EXCEPT !.redir = Redirected(cmd)]
    <2>1. DOMAIN job' = Procs /\ job'[p] = j /\ \A q \in Procs \ {p} : job'[q] = job[q]
      BY <1>3, <1>6
    <2>2. SystemOK' /\ proc' = proc /\ fd' = fd
      BY <1>1, <1>6, SystemSame DEF ProcessInv
    <2>3. Local(p) /\ pc'[p] = "redir"
      BY <1>1, <1>6, <2>1, <2>2, Moves
    <2>4. JobOK("redir", j) /\ j.fg = job[p].fg
      BY <1>3 DEF JobOK, PipeLabels, EndLabels, Redirected
    <2>5. Plain("redir", j)
      BY DEF Plain
    <2>6. \A k \in Fds : k \in Allowed("exec", job[p]) => k \in Allowed("redir", j)
      BY DEF Allowed, PipeLabels, EndLabels, FileLabels
    <2>7. Good(p, proc[p], fd[p], "redir", j)
      BY <1>1, <1>2, <2>4, <2>5, <2>6, GoodMove
    <2>8. SameKids(pc[p], pc'[p])
      BY <1>2, <2>3 DEF SameKids, OneChild, TwoChildren
    <2> QED
      BY <1>2, <2>1, <2>2, <2>3, <2>4, <2>7, <2>8, LocalStep
  <1>7. CASE /\ cmd.type = "PIPE" /\ pipe(p) /\ Goto(p, "forkl")
             /\ job' = [job EXCEPT ![p] = [@ EXCEPT !.r = ReadFd(p), !.w = WriteFd(p)]] /\ UNCHANGED torn /\ SameShell
    <2> DEFINE j == [job[p] EXCEPT !.r = ReadFd(p), !.w = WriteFd(p)]
    <2>1. DOMAIN job' = Procs /\ job'[p] = j /\ \A q \in Procs \ {p} : job'[q] = job[q]
      BY <1>3, <1>7
    <2>2. /\ SystemOK' /\ proc' = proc
          /\ ReadFd(p) \in Fds /\ WriteFd(p) \in Fds
          /\ \A i \in Fds \ {ReadFd(p), WriteFd(p)} : fd'[p][i] = fd[p][i]
          /\ \A q \in Procs \ {p} : fd'[q] = fd[q]
      BY <1>1, <1>7, Opens DEF ProcessInv
    <2>3. Local(p) /\ pc'[p] = "forkl"
      BY <1>1, <1>7, <2>1, <2>2, Moves
    <2>4. j.fg = job[p].fg /\ j.redir = job[p].redir /\ j.opened = job[p].opened /\ j.r = ReadFd(p) /\ j.w = WriteFd(p) /\ DOMAIN j = DOMAIN job[p]
      BY <1>3 DEF JobOK
    <2>5. JobOK("forkl", j)
      BY <1>3, <2>2, <2>4 DEF JobOK
    <2>6. job[p].fg
      BY <1>2, <1>7 DEF Plain
    <2>7. \A i \in Fds : fd'[p][i] # NULL => i \in Allowed("forkl", j)
      <3> TAKE i \in Fds
      <3>1. CASE i \in {ReadFd(p), WriteFd(p)}
        BY <3>1, <2>4 DEF Allowed, PipeLabels
      <3>2. CASE i \notin {ReadFd(p), WriteFd(p)}
        BY <3>2, <2>2, <1>2 DEF Good, Proper, Allowed, PipeLabels, EndLabels, FileLabels
      <3> QED
        BY <3>1, <3>2
    <2>8. Good(p, proc[p], fd'[p], "forkl", j)
      BY <1>1, <1>2, <2>4, <2>5, <2>6, <2>7 DEF Good, Proper
    <2>9. SameKids(pc[p], pc'[p])
      BY <1>2, <2>3 DEF SameKids, OneChild, TwoChildren
    <2> QED
      BY <1>2, <2>1, <2>3, <2>4, <2>8, <2>9, LocalStep
  <1>8. CASE cmd.type = "PIPE" /\ MayFail /\ Ends(p, ExitMinusOne)
    <2>1. ExitMinusOne \in Nat
      BY DEF ExitMinusOne
    <2> QED
      BY <1>1, <1>8, <2>1, ChildEnds
  <1> QED
    BY <1>4, <1>5, <1>6, <1>7, <1>8 DEF exec_cmd

\* A process of a pipe changes its descriptors, and goes on.
LEMMA FdMove ==
  ASSUME Inv, NEW p \in Procs, NEW l \in ChildLabels, NEW m \in ChildLabels, At(p, l), Step(p, m),
         SystemOK', proc' = proc, \A q \in Procs \ {p} : fd'[q] = fd[q],
         job[p].fg, JobOK(m, job[p]), SameKids(l, m),
         \A i \in Fds : fd'[p][i] # NULL => i \in Allowed(m, job[p])
  PROVE  Inv'
  <1>1. ProcessInv /\ m \in Labels /\ m # "off"
    BY DEF Inv, ChildLabels
  <1>2. p \in Procs \ {SH} /\ pc[p] = l /\ Good(p, proc[p], fd[p], l, job[p]) /\ proc[p].st = "run"
    BY <1>1, ChildIs
  <1>3. job' = job /\ UNCHANGED torn /\ SameShell /\ Goto(p, m)
    BY DEF Step
  <1>4. Local(p) /\ pc'[p] = m
    <2>1. DOMAIN job' = Procs /\ \A q \in Procs \ {p} : job'[q] = job[q]
      BY <1>1, <1>3 DEF ProcessInv
    <2> QED
      BY <1>1, <1>3, <2>1, Moves
  <1>5. Good(p, proc[p], fd'[p], m, job[p])
    BY <1>1, <1>2 DEF Good, Proper
  <1> QED
    BY <1>2, <1>3, <1>4, <1>5, LocalStep

\* In a pipe, a process is in the foreground and keeps the numbers of both ends.
LEMMA InPipe ==
  ASSUME ProcessInv, NEW p \in Procs, NEW l \in PipeLabels \cup EndLabels \cup {"closer"}, At(p, l)
  PROVE  /\ l \in ChildLabels /\ p \in Procs \ {SH} /\ Running(p) /\ pc[p] = l /\ job[p].fg
         /\ job[p].r \in Fds /\ job[p].w \in Fds /\ fd[p] \in Files
         /\ \A i \in Fds : fd[p][i] # NULL => i \in Allowed(l, job[p])
         /\ \A m \in Labels \ {"redup"} : JobOK(m, job[p])
         /\ proc[p].st = "run"
  <1>1. l \in ChildLabels
    BY DEF PipeLabels, EndLabels, ChildLabels, Labels, ShellLabels
  <1>2. /\ p \in Procs \ {SH} /\ Running(p) /\ pc[p] = l
        /\ Good(p, proc[p], fd[p], l, job[p]) /\ (~job[p].fg => Plain(l, job[p])) /\ fd[p] \in Files
        /\ proc[p].st = "run"
    BY <1>1, ChildIs
  <1>3. job[p].fg
    BY <1>2 DEF Plain, PipeLabels, EndLabels
  <1>4. JobOK(l, job[p]) /\ \A i \in Fds : fd[p][i] # NULL => i \in Allowed(l, job[p])
    BY <1>2 DEF Good, Proper
  <1>5. job[p].r \in Fds /\ job[p].w \in Fds
    BY <1>4 DEF JobOK
  <1>6. \A m \in Labels \ {"redup"} : JobOK(m, job[p])
    BY <1>4, <1>5 DEF JobOK
  <1> QED
    BY <1>1, <1>2, <1>3, <1>4, <1>5, <1>6

\* Of a pipe a process closes the ends one after the other: closed is the end
\* that the next label no longer allows.
LEMMA CloseMove ==
  ASSUME Inv, NEW p \in Procs, NEW l \in PipeLabels \cup EndLabels \cup {"closer"}, NEW m \in ChildLabels \ {"redup"},
         At(p, l), Step(p, m), NEW i \in {job[p].r, job[p].w}, close(p, i), SameKids(l, m),
         \A k \in Allowed(l, job[p]) \ {i} : k \in Allowed(m, job[p])
  PROVE  Inv'
  <1>1. ProcessInv /\ SystemOK /\ m \in Labels
    BY DEF Inv, ProcessInv, ChildLabels
  <1>2. /\ l \in ChildLabels /\ job[p].fg
        /\ job[p].r \in Fds /\ job[p].w \in Fds /\ fd[p] \in Files
        /\ \A k \in Fds : fd[p][k] # NULL => k \in Allowed(l, job[p])
        /\ JobOK(m, job[p])
    BY <1>1, InPipe
  <1>3. /\ SystemOK' /\ proc' = proc
        /\ fd'[p] = [fd[p] EXCEPT ![i] = NULL] /\ \A q \in Procs \ {p} : fd'[q] = fd[q]
    BY <1>1, <1>2, Closes
  <1>4. \A k \in Fds : fd'[p][k] # NULL => k \in Allowed(m, job[p])
    BY <1>2, <1>3 DEF Files
  <1> QED
    BY <1>1, <1>2, <1>3, <1>4, FdMove

LEMMA CloseSteps ==
  ASSUME Inv, NEW p \in Procs, close_other(p) \/ close_own(p) \/ close_write(p) \/ close_read(p)
  PROVE  Inv'
  <1>1. {"dup2", "exec", "closer", "wait"} \subseteq ChildLabels
    BY DEF ChildLabels, Labels, ShellLabels
  <1>2. CASE close_other(p)
    <2> DEFINE i == IF Left(p) THEN job[p].r ELSE job[p].w
    <2>1. At(p, "closeother") /\ close(p, i) /\ Step(p, "dup2") /\ i \in {job[p].r, job[p].w}
      BY <1>2 DEF close_other
    <2>2. \A k \in Allowed("closeother", job[p]) \ {i} : k \in Allowed("dup2", job[p])
      BY DEF Allowed, PipeLabels, EndLabels, FileLabels, Left
    <2>3. SameKids("closeother", "dup2") /\ "closeother" \in PipeLabels
      BY DEF SameKids, OneChild, TwoChildren, PipeLabels
    <2> QED
      BY <1>1, <2>1, <2>2, <2>3, CloseMove
  <1>3. CASE close_own(p)
    <2> DEFINE i == IF Left(p) THEN job[p].w ELSE job[p].r
    <2>1. At(p, "closeown") /\ close(p, i) /\ Step(p, "exec") /\ i \in {job[p].r, job[p].w}
      BY <1>3 DEF close_own
    <2>2. \A k \in Allowed("closeown", job[p]) \ {i} : k \in Allowed("exec", job[p])
      BY DEF Allowed, PipeLabels, EndLabels, FileLabels, Left
    <2>3. SameKids("closeown", "exec") /\ "closeown" \in EndLabels
      BY DEF SameKids, OneChild, TwoChildren, EndLabels
    <2> QED
      BY <1>1, <2>1, <2>2, <2>3, CloseMove
  <1>4. CASE close_write(p)
    <2>1. At(p, "closew") /\ close(p, job[p].w) /\ Step(p, "closer")
      BY <1>4 DEF close_write
    <2>2. \A k \in Allowed("closew", job[p]) \ {job[p].w} : k \in Allowed("closer", job[p])
      BY DEF Allowed, PipeLabels, EndLabels, FileLabels
    <2>3. SameKids("closew", "closer") /\ "closew" \in PipeLabels
      BY DEF SameKids, OneChild, TwoChildren, PipeLabels
    <2> QED
      BY <1>1, <2>1, <2>2, <2>3, CloseMove
  <1>5. CASE close_read(p)
    <2>1. At(p, "closer") /\ close(p, job[p].r) /\ Step(p, "wait")
      BY <1>5 DEF close_read
    <2>2. \A k \in Allowed("closer", job[p]) \ {job[p].r} : k \in Allowed("wait", job[p])
      BY DEF Allowed, PipeLabels, EndLabels, FileLabels
    <2>3. SameKids("closer", "wait")
      BY DEF SameKids, OneChild, TwoChildren
    <2> QED
      BY <1>1, <2>1, <2>2, <2>3, CloseMove
  <1> QED
    BY <1>2, <1>3, <1>4, <1>5

LEMMA DupStep ==
  ASSUME Inv, NEW p \in Procs, dup2_std(p)
  PROVE  Inv'
  <1> DEFINE i == IF Left(p) THEN job[p].w ELSE job[p].r
             k == IF Left(p) THEN STDOUT ELSE STDIN
  <1>1. At(p, "dup2") /\ Step(p, "closeown") /\ dup2(p, i, k)
    BY DEF dup2_std
  <1>2. ProcessInv /\ SystemOK /\ "closeown" \in ChildLabels /\ "closeown" \in Labels /\ "dup2" \in EndLabels
    BY DEF Inv, ProcessInv, ChildLabels, Labels, ShellLabels, EndLabels
  <1>3. /\ "dup2" \in ChildLabels /\ job[p].fg
        /\ job[p].r \in Fds /\ job[p].w \in Fds /\ fd[p] \in Files
        /\ \A j \in Fds : fd[p][j] # NULL => j \in Allowed("dup2", job[p])
        /\ JobOK("closeown", job[p])
    BY <1>1, <1>2, InPipe
  <1>4. i \in Fds /\ k \in Fds
    BY <1>3, Constants
  <1>5. /\ SystemOK' /\ proc' = proc
        /\ fd'[p] = [fd[p] EXCEPT ![k] = fd[p][i]] /\ \A q \in Procs \ {p} : fd'[q] = fd[q]
    <2> HIDE DEF i, k
    <2> QED
      BY <1>1, <1>2, <1>4, Dups
  <1>6. \A j \in Fds : fd'[p][j] # NULL => j \in Allowed("closeown", job[p])
    BY <1>3, <1>4, <1>5 DEF Allowed, PipeLabels, EndLabels, FileLabels, Files
  <1>7. SameKids("dup2", "closeown")
    BY DEF SameKids, OneChild, TwoChildren
  <1> QED
    BY <1>1, <1>2, <1>3, <1>5, <1>6, <1>7, FdMove

LEMMA ForkSideStep ==
  ASSUME Inv, NEW p \in Procs, NEW side, NEW cmd, NEW l, NEW m,
         \/ l = "forkl" /\ m = "forkr"
         \/ l = "forkr" /\ m = "closew",
         ForkSide(p, l, m, side, cmd)
  PROVE  Inv'
  <1>1. /\ ProcessInv /\ At(p, l) /\ l \in PipeLabels /\ {m, "closeother"} \subseteq ChildLabels
        /\ {m, "closeother"} \subseteq Labels
    BY DEF Inv, ForkSide, PipeLabels, ChildLabels, Labels, ShellLabels
  <1>2. /\ l \in ChildLabels /\ p \in Procs \ {SH} /\ Running(p) /\ pc[p] = l /\ job[p].fg
        /\ job[p].r \in Fds /\ job[p].w \in Fds /\ fd[p] \in Files
        /\ \A i \in Fds : fd[p][i] # NULL => i \in Allowed(l, job[p])
        /\ \A n \in Labels \ {"redup"} : JobOK(n, job[p])
        /\ proc[p].st = "run"
    BY <1>1, InPipe
  <1>3. CASE /\ MayFail /\ exit(p, ExitMinusOne) /\ torn' = TRUE
             /\ pc' = [pc EXCEPT ![p] = "off"] /\ job' = [job EXCEPT ![p] = NoJob] /\ SameShell
    <2>1. ExitMinusOne \in Nat
      BY DEF ExitMinusOne
    <2>2. Ended(p) /\ torn'
      BY <1>1, <1>3, <2>1 DEF Ended, SameShell, ProcessInv, GlobalsOK
    <2> QED
      BY <1>2, <2>2, EndStep
  <1>4. ASSUME NEW c \in Procs, fork(p, c), pc' = [pc EXCEPT ![p] = m, ![c] = "closeother"],
               job' = [job EXCEPT ![c] = [job[p] EXCEPT !.cmd = cmd, !.side = side]],
               UNCHANGED torn, SameShell
        PROVE  Inv'
    <2> DEFINE j == [job[p] EXCEPT !.cmd = cmd, !.side = side]
    <2>1. Forked(p, c) /\ pc'[c] = "closeother" /\ job'[c] = j
      BY <1>1, <1>2, <1>4 DEF Forked, ProcessInv, Labels
    <2>2. p # c /\ c # SH
      BY <1>1, <2>1, ForkProcesses
    <2>3. pc'[p] = m /\ job'[p] = job[p]
      BY <1>1, <1>4, <2>2 DEF ProcessInv
    <2>4. DOMAIN job[p] = {"cmd", "fg", "side", "r", "w", "left", "eof", "redir", "opened"} /\ JobOK("closeother", job[p])
      BY <1>1, <1>2 DEF JobOK
    <2>5. DOMAIN j = DOMAIN job[p] /\ j.fg = job[p].fg /\ j.r = job[p].r /\ j.w = job[p].w /\ j.redir = job[p].redir
          /\ j.opened = job[p].opened
      BY <2>4
    <2>6. JobOK("closeother", j)
      BY <2>4, <2>5 DEF JobOK
    <2>7. Good(p, proc[p], fd[p], m, job[p])
      <3>1. \A i \in Fds : fd[p][i] # NULL => i \in Allowed(m, job[p])
        BY <1>2 DEF Allowed, PipeLabels
      <3>2. m # "off" /\ JobOK(m, job[p])
        BY <1>1, <1>2
      <3> QED
        BY <1>1, <1>2, <3>1, <3>2 DEF Good, Proper
    <2>8. Proper(fd[p], "closeother", j)
      <3>1. \A i \in Fds : fd[p][i] # NULL => i \in Allowed("closeother", j)
        BY <1>2, <2>5 DEF Allowed, PipeLabels
      <3> QED
        BY <1>2, <2>5, <2>6, <3>1 DEF Proper
    <2>9. ProcessInv'
      <3> HIDE DEF j
      <3>1. Good(p, proc[p], fd[p], pc'[p], job'[p])
        BY <2>3, <2>7
      <3>2. Proper(fd[p], pc'[c], job'[c]) /\ pc'[c] \in ChildLabels /\ job'[c].fg
        BY <1>1, <1>2, <2>1, <2>5, <2>8
      <3> QED
        BY <1>1, <2>1, <3>1, <3>2, ForkProcesses
    <2>10. ASSUME TreeInv PROVE TreeInv'
      <3>1. Few(Children(p) \cup {c}, m)
        <4>1. Few(Children(p), l)
          BY <1>2, <2>10 DEF TreeInv
        <4>2. CASE l = "forkl" /\ m = "forkr"
          BY <4>1, <4>2 DEF Few, OneChild, TwoChildren
        <4>3. CASE l = "forkr" /\ m = "closew"
          <5>1. PICK d \in Procs : Children(p) \subseteq {d}
            BY <4>1, <4>3 DEF Few, OneChild
          <5>2. Children(p) \cup {c} \subseteq {d, c}
            BY <5>1
          <5> QED
            BY <4>3, <5>2 DEF Few, OneChild, TwoChildren
        <4> QED
          BY <4>2, <4>3
      <3>2. Few({}, "closeother")
        BY DEF Few, OneChild, TwoChildren
      <3>3. pc'[SH] = pc[SH] /\ job'[SH] = job[SH]
        BY <1>2, <2>1, <2>2, Constants DEF Forked
      <3>4. job'[p].fg = job[p].fg /\ pc'[p] = m /\ pc'[c] = "closeother" /\ job[p].fg
        BY <1>2, <2>1, <2>3
      <3> QED
        BY <1>1, <2>1, <2>2, <2>10, <3>1, <3>2, <3>3, <3>4, ForkTree
    <2> QED
      BY <1>4, <2>9, <2>10 DEF Inv
  <1> QED
    BY <1>3, <1>4 DEF ForkSide

LEMMA RedirStep ==
  ASSUME Inv, NEW p \in Procs, open_redir_fd(p)
  PROVE  Inv'
  <1> DEFINE i == Least(FreeFds(p))
  <1>1. /\ ProcessInv /\ SystemOK /\ At(p, "redir") /\ {"redir", "redup"} \subseteq ChildLabels
        /\ "redup" \in Labels /\ "redir" \in ChildLabels \ (OneChild \cup TwoChildren)
    BY DEF Inv, ProcessInv, open_redir_fd, ChildLabels, Labels, ShellLabels, OneChild, TwoChildren
  <1>2. /\ p \in Procs \ {SH} /\ Running(p) /\ pc[p] = "redir"
        /\ Good(p, proc[p], fd[p], "redir", job[p]) /\ (~job[p].fg => Plain("redir", job[p]))
        /\ proc[p].st = "run" /\ fd[p] \in Files
    BY <1>1, ChildIs
  <1>3. JobOK("redir", job[p]) /\ DOMAIN job = Procs /\ pc \in [Procs -> Labels]
    BY <1>1, <1>2 DEF Good, Proper, ProcessInv
  <1>4. CASE /\ job[p].redir # {} /\ FreeFds(p) # {} /\ fd' = [fd EXCEPT ![p][i] = File]
             /\ job' = [job EXCEPT ![p] = [@ EXCEPT !.r = i, !.opened = job[p].opened \cup {i}]]
             /\ Goto(p, "redup") /\ UNCHANGED <<proc, buf, torn>> /\ SameShell
    <2> DEFINE j == [job[p] EXCEPT !.r = i, !.opened = job[p].opened \cup {i}]
    <2>1. DOMAIN job' = Procs /\ job'[p] = j /\ \A q \in Procs \ {p} : job'[q] = job[q]
      BY <1>3, <1>4
    <2>2. i \in Fds
      BY <1>4, Firsts
    <2>3. SystemOK' /\ fd'[p] = [fd[p] EXCEPT ![i] = File] /\ \A q \in Procs \ {p} : fd'[q] = fd[q]
      <3>1. fd' \in [Procs -> Files]
        BY <1>1, <1>4, <2>2, FileIs DEF SystemOK, Files
      <3>2. fd'[p] = [fd[p] EXCEPT ![i] = File] /\ \A q \in Procs \ {p} : fd'[q] = fd[q]
        BY <1>1, <1>4 DEF SystemOK
      <3> QED
        BY <1>1, <1>4, <3>1, <3>2 DEF SystemOK
    <2>4. Local(p) /\ pc'[p] = "redup"
      BY <1>1, <1>4, <2>1, <2>3, Moves
    <2>5. /\ j.fg = job[p].fg /\ DOMAIN j = DOMAIN job[p] /\ j.redir = job[p].redir /\ j.r = i
          /\ j.opened = job[p].opened \cup {i}
      BY <1>3 DEF JobOK
    <2>6. JobOK("redup", j)
      BY <1>3, <1>4, <2>2, <2>5 DEF JobOK, PipeLabels, EndLabels
    <2>7. Good(p, proc[p], fd'[p], "redup", j)
      <3>1. \A k \in Fds : fd'[p][k] # NULL => k \in Allowed("redup", j)
        BY <1>2, <2>2, <2>3, <2>5 DEF Good, Proper, Allowed, PipeLabels, EndLabels, FileLabels, Files
      <3>2. ~j.fg => \A k \in Fds : fd'[p][k] \in {File, NULL}
        BY <1>2, <2>2, <2>3, <2>5 DEF Good, Proper, Files
      <3>3. Plain("redup", j)
        BY DEF Plain
      <3> HIDE DEF j, i
      <3> QED
        BY <1>1, <1>2, <2>6, <3>1, <3>2, <3>3 DEF Good, Proper
    <2>8. SameKids(pc[p], pc'[p])
      BY <1>2, <2>4 DEF SameKids, OneChild, TwoChildren
    <2> QED
      BY <1>2, <2>1, <2>4, <2>5, <2>7, <2>8, LocalStep
  <1>5. CASE Ends(p, ExitMinusOne)
    <2>1. ExitMinusOne \in Nat
      BY DEF ExitMinusOne
    <2> QED
      BY <1>1, <1>5, <2>1, ChildEnds
  <1>6. CASE execvp(p)
    BY <1>1, <1>6, ExecvpStep
  <1> QED
    BY <1>4, <1>5, <1>6 DEF open_redir_fd

LEMMA RedupStep ==
  ASSUME Inv, NEW p \in Procs, dup2_redir(p)
  PROVE  Inv'
  <1> DEFINE i == Least(job[p].redir)
             j == [job[p] EXCEPT !.redir = @ \ {i}]
  <1>1. /\ ProcessInv /\ SystemOK /\ At(p, "redup") /\ {"redir", "redup"} \subseteq ChildLabels /\ "redir" \in Labels
    BY DEF Inv, ProcessInv, dup2_redir, ChildLabels, Labels, ShellLabels
  <1>2. /\ p \in Procs \ {SH} /\ Running(p) /\ pc[p] = "redup"
        /\ Good(p, proc[p], fd[p], "redup", job[p]) /\ (~job[p].fg => Plain("redup", job[p]))
        /\ proc[p].st = "run" /\ fd[p] \in Files
    BY <1>1, ChildIs
  <1>3. JobOK("redup", job[p]) /\ DOMAIN job = Procs
    BY <1>1, <1>2 DEF Good, Proper, ProcessInv
  <1>4. DOMAIN job' = Procs /\ job'[p] = j /\ \A q \in Procs \ {p} : job'[q] = job[q]
    BY <1>3 DEF dup2_redir
  <1>5. i \in {STDIN, STDOUT} /\ i \in Fds /\ job[p].r \in Fds
    <2>1. job[p].redir \subseteq {STDIN, STDOUT} /\ {STDIN, STDOUT} \subseteq Fds /\ Fds \subseteq Nat
      BY <1>3, Constants DEF JobOK
    <2>2. IsFiniteSet(job[p].redir)
      BY <2>1, Constants, FS_Subset
    <2>3. i \in job[p].redir
      BY <1>3, <2>1, <2>2, LeastIs DEF JobOK
    <2> QED
      BY <1>3, <2>1, <2>3 DEF JobOK
  <1>6. /\ SystemOK' /\ proc' = proc
        /\ fd'[p] = [fd[p] EXCEPT ![i] = fd[p][job[p].r]] /\ \A q \in Procs \ {p} : fd'[q] = fd[q]
    <2>1. dup2(p, job[p].r, i)
      BY DEF dup2_redir
    <2> HIDE DEF i
    <2> QED
      BY <1>1, <1>5, <2>1, Dups
  <1>7. Local(p) /\ pc'[p] = "redir"
    <2>1. Goto(p, "redir") /\ UNCHANGED torn /\ SameShell
      BY DEF dup2_redir
    <2> QED
      BY <1>1, <1>4, <1>6, <2>1, Moves
  <1>8. /\ j.fg = job[p].fg /\ DOMAIN j = DOMAIN job[p] /\ j.redir = job[p].redir \ {i}
        /\ j.opened = job[p].opened
    BY <1>3 DEF JobOK
  <1>9. JobOK("redir", j)
    BY <1>3, <1>8 DEF JobOK, PipeLabels, EndLabels
  <1>10. Good(p, proc[p], fd'[p], "redir", j)
    <2>1. \A k \in Fds : fd'[p][k] # NULL => k \in Allowed("redir", j)
      BY <1>2, <1>5, <1>6, <1>8 DEF Good, Proper, Allowed, PipeLabels, EndLabels, FileLabels, Files
    <2>2. ~j.fg => \A k \in Fds : fd'[p][k] \in {File, NULL}
      BY <1>2, <1>5, <1>6, <1>8 DEF Good, Proper, Files
    <2>3. Plain("redir", j)
      BY DEF Plain
    <2> HIDE DEF j, i
    <2> QED
      BY <1>1, <1>2, <1>9, <2>1, <2>2, <2>3 DEF Good, Proper
  <1>11. SameKids(pc[p], pc'[p])
    BY <1>2, <1>7 DEF SameKids, OneChild, TwoChildren
  <1> QED
    BY <1>2, <1>4, <1>7, <1>8, <1>10, <1>11, LocalStep

\* A program reads, writes, or goes to do so.
LEMMA ProgMove ==
  ASSUME Inv, NEW p \in Procs, NEW l \in {"prog", "reading", "writing"}, NEW m \in {"prog", "reading", "writing"},
         At(p, l), Goto(p, m), SystemOK', proc' = proc, fd' = fd, UNCHANGED torn, SameShell,
         DOMAIN job' = Procs, \A q \in Procs \ {p} : job'[q] = job[q],
         DOMAIN job'[p] = DOMAIN job[p], job'[p].fg = job[p].fg, job'[p].redir = job[p].redir,
         job'[p].opened = job[p].opened
  PROVE  Inv'
  <1>1. ProcessInv /\ l \in ChildLabels /\ m \in ChildLabels /\ m \in Labels
    BY DEF Inv, ChildLabels, Labels, ShellLabels
  <1>2. /\ p \in Procs \ {SH} /\ pc[p] = l /\ Good(p, proc[p], fd[p], l, job[p])
    BY <1>1, ChildIs
  <1>3. Local(p) /\ pc'[p] = m
    BY <1>1, Moves
  <1>4. JobOK(l, job[p])
    BY <1>2 DEF Good, Proper
  <1>5. JobOK(m, job'[p])
    BY <1>4 DEF JobOK, PipeLabels, EndLabels
  <1>6. Plain(m, job'[p])
    BY DEF Plain
  <1>7. \A k \in Fds : k \in Allowed(l, job[p]) => k \in Allowed(m, job'[p])
    BY DEF Allowed, PipeLabels, EndLabels, FileLabels
  <1>8. Good(p, proc[p], fd[p], m, job'[p])
    BY <1>1, <1>2, <1>5, <1>6, <1>7, GoodMove
  <1>9. SameKids(pc[p], pc'[p])
    BY <1>2, <1>3 DEF SameKids, OneChild, TwoChildren
  <1> QED
    BY <1>2, <1>3, <1>8, <1>9, LocalStep

LEMMA ProgramSteps ==
  ASSUME Inv, NEW p \in Procs, prog(p) \/ reading(p) \/ writing(p) \/ exit_child(p)
  PROVE  Inv'
  <1>1. /\ ProcessInv /\ SystemOK /\ DOMAIN job = Procs
        /\ {"prog", "reading", "writing", "exit"} \subseteq ChildLabels \ (OneChild \cup TwoChildren)
    BY DEF Inv, ProcessInv, ChildLabels, Labels, ShellLabels, OneChild, TwoChildren
  <1>2. \A l \in {"prog", "reading", "writing"} : At(p, l) =>
            DOMAIN job[p] = {"cmd", "fg", "side", "r", "w", "left", "eof", "redir", "opened"}
    <2> SUFFICES ASSUME NEW l \in {"prog", "reading", "writing"}, At(p, l)
                 PROVE  DOMAIN job[p] = {"cmd", "fg", "side", "r", "w", "left", "eof", "redir", "opened"}
      OBVIOUS
    <2>1. Good(p, proc[p], fd[p], l, job[p])
      BY <1>1, ChildIs
    <2> QED
      BY <2>1 DEF Good, Proper, JobOK
  <1>3. CASE prog(p)
    <2>1. At(p, "prog")
      BY <1>3 DEF prog
    <2>2. ASSUME NEW m \in {"reading", "writing"}, SameSystem, Step(p, m) PROVE Inv'
      <3>1. SystemOK' /\ proc' = proc /\ fd' = fd
        BY <1>1, <2>2, SystemSame
      <3>2. job' = job /\ UNCHANGED torn /\ SameShell /\ Goto(p, m)
        BY <2>2 DEF Step
      <3> QED
        BY <1>1, <2>1, <3>1, <3>2, ProgMove
    <2>3. ASSUME NEW code \in Codes, Ends(p, code * 256) PROVE Inv'
      <3>1. code * 256 \in Nat
        BY ShellAssumption
      <3> QED
        BY <1>1, <2>1, <2>3, <3>1, ChildEnds
    <2> QED
      BY <1>3, <2>2, <2>3 DEF prog
  <1>4. CASE reading(p)
    <2>1. PICK v \in {1, NULL} : read(p, STDIN, v) /\ job' = [job EXCEPT ![p].eof = (v = NULL)]
      BY <1>4 DEF reading
    <2>2. At(p, "reading") /\ Goto(p, "prog") /\ UNCHANGED torn /\ SameShell
      BY <1>4 DEF reading
    <2>3. SystemOK' /\ proc' = proc /\ fd' = fd
      BY <1>1, <2>1, Reads, Constants
    <2>4. /\ DOMAIN job' = Procs /\ \A q \in Procs \ {p} : job'[q] = job[q]
          /\ DOMAIN job'[p] = DOMAIN job[p] /\ job'[p].fg = job[p].fg
          /\ job'[p].redir = job[p].redir /\ job'[p].opened = job[p].opened
      BY <1>1, <1>2, <2>1, <2>2
    <2> QED
      BY <2>2, <2>3, <2>4, ProgMove
  <1>5. CASE writing(p)
    <2>1. At(p, "writing")
      BY <1>5 DEF writing
    <2>2. CASE /\ write(p, STDOUT, 1) /\ Goto(p, "prog") /\ job' = [job EXCEPT ![p].left = @ - 1]
               /\ UNCHANGED torn /\ SameShell
      <3>1. SystemOK' /\ proc' = proc /\ fd' = fd
        BY <1>1, <2>2, Writes, Constants
      <3>2. /\ DOMAIN job' = Procs /\ \A q \in Procs \ {p} : job'[q] = job[q]
            /\ DOMAIN job'[p] = DOMAIN job[p] /\ job'[p].fg = job[p].fg
          /\ job'[p].redir = job[p].redir /\ job'[p].opened = job[p].opened
        BY <1>1, <1>2, <2>1, <2>2
      <3> QED
        BY <2>1, <2>2, <3>1, <3>2, ProgMove
    <2>3. CASE Ends(p, SIGPIPE)
      BY <1>1, <2>1, <2>3, ChildEnds DEF SIGPIPE
    <2> QED
      BY <1>5, <2>2, <2>3 DEF writing
  <1>6. CASE exit_child(p)
    <2>1. ExitMinusOne \in Nat
      BY DEF ExitMinusOne
    <2> QED
      BY <1>1, <1>6, <2>1, ChildEnds DEF exit_child
  <1> QED
    BY <1>3, <1>4, <1>5, <1>6

LEMMA ChildStep ==
  ASSUME Inv, NEW p \in Procs, Child(p)
  PROVE  Inv'
  <1>1. CASE exec_cmd(p)
    BY <1>1, ExecStep
  <1>2. CASE open_redir_fd(p) \/ dup2_redir(p)
    BY <1>2, RedirStep, RedupStep
  <1>3. CASE fork_left(p) \/ fork_right(p)
    BY <1>3, ForkSideStep DEF fork_left, fork_right
  <1>4. CASE close_other(p) \/ close_own(p) \/ close_write(p) \/ close_read(p)
    BY <1>4, CloseSteps
  <1>5. CASE dup2_std(p)
    BY <1>5, DupStep
  <1>6. CASE wait(p)
    <2>1. p # SH
      <3>1. At(p, "wait") \/ At(p, "wait2")
        BY <1>6 DEF wait
      <3>2. {"wait", "wait2"} \subseteq ChildLabels
        BY DEF ChildLabels, Labels, ShellLabels
      <3> QED
        BY <3>1, <3>2, ChildIs DEF Inv
    <2> QED
      BY <1>6, <2>1, WaitStep
  <1>7. CASE exit_child(p) \/ prog(p) \/ reading(p) \/ writing(p)
    BY <1>7, ProgramSteps
  <1> QED
    BY <1>1, <1>2, <1>3, <1>4, <1>5, <1>6, <1>7 DEF Child

-----------------------------------------------------------------------------
(***************************************************************************)
(* The steps of the shell.  It makes them with nothing in the foreground,  *)
(* but for the wait.                                                       *)
(***************************************************************************)
\* The process of the shell moves; children of it that ended may be taken.
ShellMoves(l, j) ==
    /\ SystemOK' /\ fd' = fd /\ torn' = torn /\ GlobalsOK'
    /\ pc' \in [Procs -> Labels] /\ pc'[SH] = l /\ DOMAIN job' = Procs /\ job'[SH] = j
    /\ \A q \in Procs \ {SH} : pc'[q] = pc[q] /\ job'[q] = job[q]
Takes ==
    /\ \A q \in Procs : proc'[q] = proc[q] \/ (q # SH /\ proc[q].st = "zombie" /\ proc'[q] = NoProc)
    /\ \A q \in Procs : Children(q)' \subseteq Children(q)
LEMMA ShellMove ==
  ASSUME Inv, NEW l, NEW j, ShellMoves(l, j), Takes, Good(SH, proc[SH], fd[SH], l, j),
         TreeInv => ~(pc[SH] = "waitpid" /\ job[SH].r \in Procs /\ job[job[SH].r].fg)
  PROVE  Inv'
  <1>1. ProcessInv'
    <2>1. ASSUME NEW q \in Procs PROVE Good(q, proc'[q], fd'[q], pc'[q], job'[q])
      <3>1. Good(q, proc[q], fd[q], pc[q], job[q])
        BY DEF Inv, ProcessInv
      <3>2. CASE q = SH
        BY <3>2, Constants DEF ShellMoves, Takes
      <3>3. CASE q # SH /\ proc'[q] = proc[q]
        BY <3>1, <3>3 DEF ShellMoves
      <3>4. CASE q # SH /\ proc[q].st = "zombie" /\ proc'[q] = NoProc
        BY <3>1, <3>4 DEF Good, NoProc, ShellMoves
      <3> QED
        BY <3>2, <3>3, <3>4 DEF Takes
    <2> QED
      BY <2>1 DEF ProcessInv, ShellMoves
  <1>2. ASSUME TreeInv PROVE TreeInv'
    <2>1. \A p \in Procs : ~job[p].fg
      BY <1>2, NoForeground DEF Inv
    <2>2. \A p \in Procs : ~job'[p].fg
      BY <2>1 DEF Good, ShellMoves
    <2>3. \A p \in Procs \ {SH} : Few(Children(p)', pc'[p])
      BY <1>2, FewMore DEF TreeInv, ShellMoves, Takes
    <2> QED
      BY <2>2, <2>3, Quiet
  <1> QED
    BY <1>1, <1>2 DEF Inv, ShellMoves

\* What holds of the shell at each place.
LEMMA ShellIs ==
  ASSUME ProcessInv
  PROVE  /\ SH \in Procs /\ Good(SH, proc[SH], fd[SH], pc[SH], job[SH]) /\ ~job[SH].fg
         /\ pc[SH] \in ShellLabels \cup {"off"} /\ JobOK(pc[SH], job[SH]) /\ \A l \in ShellLabels : JobOK(l, job[SH])
         /\ \A i \in Fds : fd[SH][i] # NULL => i \in {STDIN, STDOUT}
         /\ \A i \in Fds : fd[SH][i] \in {File, NULL}
  <1>1. SH \in Procs /\ Good(SH, proc[SH], fd[SH], pc[SH], job[SH])
    BY Constants DEF ProcessInv
  <1>2. pc[SH] \in ShellLabels \cup {"off"} /\ ~job[SH].fg /\ JobOK(pc[SH], job[SH])
    BY <1>1 DEF Good, Proper
  <1>3. \A l \in ShellLabels : JobOK(l, job[SH])
    BY <1>2 DEF JobOK, PipeLabels, EndLabels, ShellLabels
  <1>4. \A i \in Fds : fd[SH][i] # NULL => i \in {STDIN, STDOUT}
    BY <1>1, <1>2 DEF Good, Proper, Allowed, ShellLabels, PipeLabels, EndLabels, FileLabels
  <1>5. \A i \in Fds : fd[SH][i] \in {File, NULL}
    BY <1>1, <1>2 DEF Good, Proper
  <1> QED
    BY <1>1, <1>2, <1>3, <1>4, <1>5

\* The shell at another place, with another job.
LEMMA ShellGood ==
  ASSUME ProcessInv, Running(SH), NEW l \in ShellLabels, NEW j, JobOK(l, j), ~j.fg,
         l \in {"zombies", "run"} => j.cmd \in Lines \cup {Exec}
  PROVE  Good(SH, proc[SH], fd[SH], l, j)
  <1>1. /\ \A i \in Fds : fd[SH][i] # NULL => i \in {STDIN, STDOUT}
        /\ \A i \in Fds : fd[SH][i] \in {File, NULL}
        /\ proc[SH].parent = NULL /\ proc[SH].st = "run"
    BY ShellIs DEF Good, Running
  <1>2. l # "off"
    BY DEF ShellLabels
  <1>3. Proper(fd[SH], l, j)
    BY <1>1 DEF Proper, Allowed
  <1> QED
    BY <1>1, <1>2, <1>3 DEF Good

LEMMA TakesNone ==
  ASSUME proc' = proc
  PROVE  Takes
  BY DEF Takes, Children

LEMMA ReadLineStep ==
  ASSUME Inv, NEW cmd \in Lines, read_line(cmd)
  PROVE  Inv'
  <1>1. /\ ProcessInv /\ SystemOK /\ GlobalsOK /\ SH \in Procs /\ Running(SH) /\ pc[SH] = "prompt"
        /\ pc \in [Procs -> Labels] /\ DOMAIN job = Procs
    BY Constants DEF Inv, ProcessInv, read_line, At
  <1> DEFINE j == [NoJob EXCEPT !.cmd = cmd]
  <1>2. JobOK("zombies", j) /\ ~j.fg /\ j.cmd = cmd
    <2>1. DOMAIN NoJob = {"cmd", "fg", "side", "r", "w", "left", "eof", "redir", "opened"} /\ NoJob.fg = FALSE /\ NoJob.redir = {} /\ NoJob.opened = {}
      BY DEF NoJob
    <2> QED
      BY <2>1 DEF JobOK, PipeLabels, EndLabels
  <1>3. Good(SH, proc[SH], fd[SH], "zombies", j)
    BY <1>1, <1>2, ShellGood DEF ShellLabels
  <1>4. SystemOK' /\ proc' = proc /\ fd' = fd
    BY <1>1, SystemSame DEF read_line
  <1>5. /\ pc' \in [Procs -> Labels] /\ DOMAIN job' = Procs /\ torn' = torn
        /\ pc'[SH] = "zombies" /\ job'[SH] = j
        /\ \A q \in Procs \ {SH} : pc'[q] = pc[q] /\ job'[q] = job[q]
    BY <1>1 DEF read_line, Goto, Labels
  <1>6. GlobalsOK'
    BY <1>1, Constants DEF GlobalsOK, read_line
  <1>7. ShellMoves("zombies", j) /\ Takes
    BY <1>4, <1>5, <1>6, TakesNone DEF ShellMoves
  <1> HIDE DEF j
  <1> QED
    BY <1>1, <1>3, <1>7, ShellMove

LEMMA ZombiesStep ==
  ASSUME Inv, check_zombies
  PROVE  Inv'
  <1>1. /\ ProcessInv /\ SystemOK /\ GlobalsOK /\ SH \in Procs /\ Running(SH) /\ pc[SH] = "zombies"
        /\ pc \in [Procs -> Labels] /\ DOMAIN job = Procs
        /\ job' = job /\ lines' = lines /\ torn' = torn
    BY Constants DEF Inv, ProcessInv, check_zombies, At
  <1>2. Good(SH, proc[SH], fd[SH], "zombies", job[SH]) /\ JobOK("run", job[SH]) /\ ~job[SH].fg
    BY <1>1, ShellIs DEF ShellLabels
  <1>3. job[SH].cmd \in Lines \cup {Exec}
    BY <1>2 DEF Good
  <1>4. ASSUME NEW c \in Zombies(SH), reap(c), status' = proc[c].code, pc' = pc PROVE Inv'
    <2>1. /\ c \in Children(SH) /\ pc[c] = "off"
          /\ \A q \in Procs : Children(q)' \subseteq Children(q)
          /\ \A q \in Procs \ {c} : proc'[q] = proc[q]
          /\ c # SH /\ c \in Procs /\ proc'[c] = NoProc
          /\ SystemOK' /\ fd' = fd
      BY <1>1, <1>4, ReapKids
    <2>2. proc[c].st = "zombie" /\ proc[c].code \in Nat
      BY <1>1, <2>1 DEF Zombies, SystemOK, ProcType
    <2>3. GlobalsOK'
      BY <1>1, <1>4, <2>2 DEF GlobalsOK
    <2>4. ShellMoves("zombies", job[SH])
      BY <1>1, <1>4, <2>1, <2>3 DEF ShellMoves
    <2>5. Takes
      BY <2>1, <2>2 DEF Takes
    <2> QED
      BY <1>1, <1>2, <2>4, <2>5, ShellMove
  <1>5. CASE Zombies(SH) = {} /\ Goto(SH, "run") /\ SameSystem /\ UNCHANGED status
    <2>1. SystemOK' /\ proc' = proc /\ fd' = fd
      BY <1>1, <1>5, SystemSame
    <2>2. /\ pc' \in [Procs -> Labels] /\ pc'[SH] = "run" /\ \A q \in Procs \ {SH} : pc'[q] = pc[q]
      BY <1>1, <1>5 DEF Goto, Labels
    <2>3. GlobalsOK'
      BY <1>1, <1>5 DEF GlobalsOK
    <2>4. ShellMoves("run", job[SH]) /\ Takes
      BY <1>1, <2>1, <2>2, <2>3, TakesNone DEF ShellMoves
    <2>5. Good(SH, proc[SH], fd[SH], "run", job[SH])
      BY <1>1, <1>2, <1>3, ShellGood DEF ShellLabels
    <2> QED
      BY <1>1, <2>4, <2>5, ShellMove
  <1> QED
    BY <1>4, <1>5 DEF check_zombies

LEMMA BuiltinStep ==
  ASSUME Inv, builtin
  PROVE  Inv'
  <1>1. /\ ProcessInv /\ SystemOK /\ GlobalsOK /\ SH \in Procs /\ Running(SH) /\ pc[SH] = "run"
        /\ pc \in [Procs -> Labels] /\ DOMAIN job = Procs
        /\ SameSystem /\ lines' = lines /\ torn' = torn
    BY Constants DEF Inv, ProcessInv, builtin, At
  <1>2. JobOK("prompt", job[SH]) /\ JobOK("run", job[SH]) /\ ~job[SH].fg
    BY <1>1, ShellIs DEF ShellLabels
  <1>3. SystemOK' /\ proc' = proc /\ fd' = fd
    BY <1>1, SystemSame
  <1>4. Takes
    BY <1>3, TakesNone
  <1>5. ASSUME Goto(SH, "prompt"), job' = job, GlobalsOK' PROVE Inv'
    <2>1. /\ pc' \in [Procs -> Labels] /\ pc'[SH] = "prompt" /\ \A q \in Procs \ {SH} : pc'[q] = pc[q]
      BY <1>1, <1>5 DEF Goto, Labels
    <2>2. Good(SH, proc[SH], fd[SH], "prompt", job[SH])
      BY <1>1, <1>2, ShellGood DEF ShellLabels
    <2>3. ShellMoves("prompt", job[SH])
      BY <1>1, <1>3, <1>5, <2>1 DEF ShellMoves
    <2> QED
      BY <1>1, <1>4, <2>2, <2>3, ShellMove
  <1>6. ASSUME pc' = pc, job' = [job EXCEPT ![SH].cmd = Exec], GlobalsOK' PROVE Inv'
    <2> DEFINE j == [job[SH] EXCEPT !.cmd = Exec]
    <2>1. DOMAIN job' = Procs /\ job'[SH] = j /\ \A q \in Procs \ {SH} : job'[q] = job[q]
      BY <1>1, <1>6
    <2>2. JobOK("run", j) /\ ~j.fg /\ j.cmd = Exec
      BY <1>2 DEF JobOK, PipeLabels, EndLabels
    <2>3. Good(SH, proc[SH], fd[SH], "run", j)
      BY <1>1, <2>2, ShellGood DEF ShellLabels
    <2>4. ShellMoves("run", j)
      BY <1>1, <1>3, <1>6, <2>1 DEF ShellMoves
    <2> HIDE DEF j
    <2> QED
      BY <1>1, <1>4, <2>3, <2>4, ShellMove
  <1>7. GlobalsOK'
    BY <1>1 DEF GlobalsOK, builtin
  <1> QED
    BY <1>5, <1>6, <1>7 DEF builtin

LEMMA RunStep ==
  ASSUME Inv, run_cmd
  PROVE  Inv'
  <1> DEFINE cmd == job[SH].cmd
             back == cmd.type = "BACK"
             next == IF back THEN "prompt" ELSE "waitpid"
  <1>1. /\ ProcessInv /\ SystemOK /\ GlobalsOK /\ SH \in Procs /\ Running(SH) /\ pc[SH] = "run"
        /\ pc \in [Procs -> Labels] /\ DOMAIN job = Procs
        /\ SameShell /\ torn' = torn
    BY Constants DEF Inv, ProcessInv, run_cmd, At
  <1>2. /\ next \in ShellLabels /\ next \in Labels /\ JobOK(next, job[SH]) /\ ~job[SH].fg
        /\ job[SH].cmd \in Lines \cup {Exec} /\ next \notin {"zombies", "run"}
        /\ DOMAIN job[SH] = {"cmd", "fg", "side", "r", "w", "left", "eof", "redir", "opened"}
    <2>1. next \in ShellLabels /\ next \in Labels /\ next \notin {"zombies", "run"}
      BY DEF ShellLabels, Labels
    <2>2. JobOK(next, job[SH]) /\ ~job[SH].fg /\ Good(SH, proc[SH], fd[SH], "run", job[SH])
      BY <1>1, <2>1, ShellIs
    <2> QED
      BY <2>1, <2>2 DEF Good, JobOK
  <1>3. GlobalsOK'
    BY <1>1 DEF GlobalsOK, SameShell
  <1>4. ASSUME SameSystem, Goto(SH, next), job' = [job EXCEPT ![SH].r = -1] PROVE Inv'
    <2> DEFINE j == [job[SH] EXCEPT !.r = -1]
    <2>1. SystemOK' /\ proc' = proc /\ fd' = fd
      BY <1>1, <1>4, SystemSame
    <2>2. Takes
      BY <2>1, TakesNone
    <2>3. /\ pc' \in [Procs -> Labels] /\ pc'[SH] = next /\ \A q \in Procs \ {SH} : pc'[q] = pc[q]
      BY <1>1, <1>2, <1>4 DEF Goto
    <2>4. DOMAIN job' = Procs /\ job'[SH] = j /\ \A q \in Procs \ {SH} : job'[q] = job[q]
      BY <1>1, <1>4
    <2>5. JobOK(next, j) /\ ~j.fg
      BY <1>2 DEF JobOK, PipeLabels, EndLabels, ShellLabels
    <2>6. Good(SH, proc[SH], fd[SH], next, j)
      BY <1>1, <1>2, <2>5, ShellGood
    <2>7. ShellMoves(next, j)
      BY <1>1, <1>3, <2>1, <2>3, <2>4 DEF ShellMoves
    <2> HIDE DEF j, next
    <2> QED
      BY <1>1, <2>2, <2>6, <2>7, ShellMove
  <1>5. ASSUME NEW c \in Procs, fork(SH, c), pc' = [pc EXCEPT ![c] = "exec", ![SH] = next],
               job' = [job EXCEPT ![c] = [NoJob EXCEPT !.cmd = cmd, !.fg = ~back], ![SH].r = c]
        PROVE  Inv'
    <2> DEFINE i == [job[SH] EXCEPT !.r = c]
               j == [NoJob EXCEPT !.cmd = cmd, !.fg = ~back]
    <2>1. "exec" \in Labels /\ "exec" \in ChildLabels
      BY DEF Labels, ChildLabels, ShellLabels
    <2>2. pc' \in [Procs -> Labels] /\ DOMAIN job' = Procs
          /\ \A q \in Procs \ {SH, c} : pc'[q] = pc[q] /\ job'[q] = job[q]
      BY <1>1, <1>2, <1>5, <2>1
    <2>3. Forked(SH, c)
      BY <1>1, <1>5, <2>2 DEF Forked
    <2>4. c # SH
      BY <1>1, <2>3, ForkProcesses
    <2>5. pc'[SH] = next /\ pc'[c] = "exec" /\ job'[SH] = i /\ job'[c] = j
      BY <1>1, <1>5, <2>4
    <2>6. JobOK(next, i) /\ ~i.fg /\ i.r = c
      BY <1>2 DEF JobOK, PipeLabels, EndLabels, ShellLabels
    <2>7. Good(SH, proc[SH], fd[SH], next, i)
      BY <1>1, <1>2, <2>6, ShellGood
    <2>8. JobOK("exec", j) /\ j.fg = ~back /\ j.cmd = cmd
      <3>1. DOMAIN NoJob = {"cmd", "fg", "side", "r", "w", "left", "eof", "redir", "opened"} /\ NoJob.redir = {} /\ NoJob.opened = {}
        BY DEF NoJob
      <3> QED
        BY <3>1 DEF JobOK, PipeLabels, EndLabels
    <2>9. ~j.fg => Plain("exec", j)
      <3>1. Exec.type # "BACK"
        BY DEF Exec
      <3> QED
        BY <1>2, <2>8, <3>1, LinesAssumption DEF Plain
    <2>10. Proper(fd[SH], "exec", j)
      BY <1>1, <2>8, ShellIs DEF Proper, Allowed
    <2>11. ProcessInv'
      <3> HIDE DEF i, j, next
      <3>1. Good(SH, proc[SH], fd[SH], pc'[SH], job'[SH])
        BY <2>5, <2>7
      <3>2. Proper(fd[SH], pc'[c], job'[c]) /\ pc'[c] \in ChildLabels /\ (~job'[c].fg => Plain(pc'[c], job'[c]))
        BY <2>1, <2>5, <2>9, <2>10
      <3> QED
        BY <1>1, <2>3, <3>1, <3>2, ForkProcesses
    <2>12. ASSUME TreeInv PROVE TreeInv'
      <3>1. \A q \in Procs : ~job[q].fg
        BY <1>1, <2>12, NoForeground
      <3>2. Few({}, pc'[c])
        BY <2>5 DEF Few, OneChild, TwoChildren
      <3>3. job'[SH].fg = job[SH].fg
        BY <1>1, <2>5, <1>2
      <3>4. job'[c].fg => pc'[SH] = "waitpid" /\ job'[SH].r = c
        BY <2>5, <2>6, <2>8
      <3> HIDE DEF i, j, next
      <3> QED
        BY <1>1, <2>3, <2>4, <2>12, <3>1, <3>2, <3>3, <3>4, ForkTree
    <2> QED
      BY <1>1, <2>11, <2>12 DEF Inv
  <1> QED
    BY <1>4, <1>5 DEF run_cmd

LEMMA WaitpidStep ==
  ASSUME Inv, waitpid
  PROVE  Inv'
  <1>1. /\ ProcessInv /\ SystemOK /\ GlobalsOK /\ SH \in Procs /\ Running(SH) /\ pc[SH] = "waitpid"
        /\ pc \in [Procs -> Labels] /\ DOMAIN job = Procs
        /\ Goto(SH, "prompt") /\ job' = [job EXCEPT ![SH] = NoJob] /\ lines' = lines /\ torn' = torn
    BY Constants DEF Inv, ProcessInv, waitpid, At
  <1>2. /\ pc' \in [Procs -> Labels] /\ pc'[SH] = "prompt" /\ \A q \in Procs \ {SH} : pc'[q] = pc[q]
        /\ DOMAIN job' = Procs /\ job'[SH] = NoJob /\ \A q \in Procs \ {SH} : job'[q] = job[q]
    BY <1>1 DEF Goto, Labels
  <1>3. Good(SH, proc[SH], fd[SH], "prompt", NoJob)
    <2>1. JobOK("prompt", NoJob) /\ ~NoJob.fg
      BY NoJobOK DEF JobOK, PipeLabels, EndLabels
    <2> QED
      BY <1>1, <2>1, ShellGood DEF ShellLabels
  <1>4. ASSUME NEW raw \in Int PROVE Status(job[SH].cmd, raw) \in Int
    BY DEF Status
  <1>5. ASSUME NEW c \in Awaited(job[SH].r), reap(c), status' = Status(job[SH].cmd, proc[c].code) PROVE Inv'
    <2>1. c \in Zombies(SH) /\ (job[SH].r = -1 \/ job[SH].r = c)
      BY <1>5 DEF Awaited
    <2>2. /\ c \in Children(SH) /\ pc[c] = "off"
          /\ \A q \in Procs : Children(q)' \subseteq Children(q)
          /\ \A q \in Procs \ {c} : proc'[q] = proc[q]
          /\ c # SH /\ c \in Procs /\ proc'[c] = NoProc
          /\ SystemOK' /\ fd' = fd
      BY <1>1, <1>5, <2>1, ReapKids
    <2>3. proc[c].st = "zombie" /\ proc[c].code \in Int
      BY <1>1, <2>1, <2>2 DEF Zombies, SystemOK, ProcType
    <2>4. GlobalsOK'
      BY <1>1, <1>4, <1>5, <2>1, <2>3 DEF GlobalsOK
    <2>5. ASSUME TreeInv PROVE ~(job[SH].r \in Procs /\ job[job[SH].r].fg)
      <3>1. -1 \notin Procs
        BY Constants
      <3>2. ~job[c].fg
        BY <2>5, <2>2, <2>3 DEF TreeInv, Running
      <3> QED
        BY <2>1, <3>1, <3>2
    <2>6. ShellMoves("prompt", NoJob)
      BY <1>1, <1>2, <2>2, <2>4 DEF ShellMoves
    <2>7. Takes
      BY <2>2, <2>3 DEF Takes
    <2> QED
      BY <1>3, <2>5, <2>6, <2>7, ShellMove
  <1>6. CASE /\ job[SH].r = -1 /\ Children(SH) = {} /\ SameSystem
             /\ status' = Status(job[SH].cmd, status)
    <2>1. SystemOK' /\ proc' = proc /\ fd' = fd
      BY <1>1, <1>6, SystemSame
    <2>2. Takes
      BY <2>1, TakesNone
    <2>3. GlobalsOK'
      BY <1>1, <1>4, <1>6 DEF GlobalsOK
    <2>4. job[SH].r \notin Procs
      BY <1>6, Constants
    <2>5. ShellMoves("prompt", NoJob)
      BY <1>1, <1>2, <2>1, <2>3 DEF ShellMoves
    <2> QED
      BY <1>3, <2>2, <2>4, <2>5, ShellMove
  <1> QED
    BY <1>5, <1>6 DEF waitpid

-----------------------------------------------------------------------------
(***************************************************************************)
(* The invariant, and what follows from it.                                *)
(***************************************************************************)
LEMMA Start == Init => Inv
  <1> SUFFICES ASSUME Init PROVE Inv
    OBVIOUS
  <1>1. /\ proc = [p \in Procs |-> IF p = SH THEN [NoProc EXCEPT !.st = "run"] ELSE NoProc]
        /\ fd = [p \in Procs |-> [i \in Fds |-> IF p = SH /\ i \in {STDIN, STDOUT} THEN File ELSE NULL]]
        /\ buf = [x \in Pipes |-> <<>>]
        /\ pc = [p \in Procs |-> IF p = SH THEN "prompt" ELSE "off"] /\ job = [p \in Procs |-> NoJob]
        /\ status = 0 /\ lines = 0 /\ torn = FALSE
    BY DEF Init, UnixInit
  <1>2. NoProc \in ProcType /\ NoProc.st = "free" /\ NoProc.parent = NULL
    BY DEF NoProc, ProcType
  <1>3. /\ [NoProc EXCEPT !.st = "run"] \in ProcType /\ [NoProc EXCEPT !.st = "run"].st = "run"
        /\ [NoProc EXCEPT !.st = "run"].parent = NULL
    BY <1>2 DEF ProcType
  <1>4. SystemOK
    <2>1. proc \in [Procs -> ProcType]
      BY <1>1, <1>2, <1>3
    <2>2. fd \in [Procs -> Files]
      BY <1>1, FileIs DEF Files
    <2>3. buf \in [Pipes -> Seq({1})] /\ \A x \in Pipes : Len(buf[x]) <= PIPE_BUF
      BY <1>1, Constants
    <2> QED
      BY <2>1, <2>2, <2>3 DEF SystemOK
  <1>5. GlobalsOK
    <2>1. status \in Int /\ lines \in 0..MaxLines
      BY <1>1, Constants
    <2>2. torn \in BOOLEAN
      BY <1>1
    <2> QED
      BY <2>1, <2>2 DEF GlobalsOK
  <1>6. JobOK("prompt", NoJob) /\ JobOK("off", NoJob) /\ ~NoJob.fg
    BY NoJobOK DEF JobOK, PipeLabels, EndLabels
  <1>7. ASSUME NEW p \in Procs PROVE Good(p, proc[p], fd[p], pc[p], job[p])
    <2>1. \A i \in Fds : fd[p][i] \in {File, NULL} /\ (fd[p][i] # NULL => i \in {STDIN, STDOUT})
      BY <1>1
    <2>2. job[p] = NoJob /\ pc[p] \in {"prompt", "off"}
      BY <1>1
    <2>3. Proper(fd[p], pc[p], job[p])
      BY <1>6, <2>1, <2>2 DEF Proper, Allowed
    <2>4. CASE p = SH
      BY <1>1, <1>3, <1>6, <2>2, <2>3, <2>4 DEF Good, ShellLabels
    <2>5. CASE p # SH
      BY <1>1, <1>2, <1>6, <2>2, <2>3, <2>5 DEF Good, Plain
    <2> QED
      BY <2>4, <2>5
  <1>8. pc \in [Procs -> Labels] /\ DOMAIN job = Procs
    BY <1>1 DEF Labels
  <1>9. TreeInv
    <2>1. \A p \in Procs : Children(p) = {}
      <3>1. \A c \in Procs : proc[c].parent = NULL
        BY <1>1, <1>2, <1>3
      <3> QED
        BY <3>1, Constants DEF Children
    <2>2. \A p \in Procs \ {SH} : Few(Children(p), pc[p])
      BY <1>1, <2>1 DEF Few, OneChild, TwoChildren
    <2>3. \A p \in Procs : ~job[p].fg
      BY <1>1, <1>6
    <2>4. [p \in Procs |-> 0] \in [Procs -> Nat] /\ Ranked([p \in Procs |-> 0])
      BY <2>3 DEF Ranked
    <2> QED
      BY <2>2, <2>3, <2>4 DEF TreeInv
  <1> QED
    BY <1>4, <1>5, <1>7, <1>8, <1>9 DEF Inv, ProcessInv

LEMMA Stutter ==
  ASSUME Inv, UNCHANGED shVars
  PROVE  Inv'
  <1>1. \A p : Children(p)' = Children(p)
    BY DEF shVars, Children
  <1>2. ProcessInv'
    BY DEF shVars, Inv, ProcessInv, SystemOK, GlobalsOK
  <1>3. TreeInv => TreeInv'
    BY <1>1 DEF shVars, TreeInv, Running, Attached, Ranked
  <1> QED
    BY <1>2, <1>3 DEF Inv, shVars

LEMMA NextKeeps ==
  ASSUME Inv, [Next]_shVars
  PROVE  Inv'
  <1>1. ASSUME NEW cmd \in Lines, read_line(cmd) PROVE Inv'
    BY <1>1, ReadLineStep
  <1>2. CASE check_zombies
    BY <1>2, ZombiesStep
  <1>3. CASE builtin
    BY <1>3, BuiltinStep
  <1>4. CASE exit_shell \/ end_of_input
    BY <1>4, ExitShellStep
  <1>5. CASE run_cmd
    BY <1>5, RunStep
  <1>6. CASE waitpid
    BY <1>6, WaitpidStep
  <1>7. ASSUME NEW p \in Procs, Child(p) PROVE Inv'
    BY <1>7, ChildStep
  <1>8. CASE UNCHANGED shVars
    BY <1>8, Stutter
  <1> QED
    BY <1>1, <1>2, <1>3, <1>4, <1>5, <1>6, <1>7, <1>8 DEF Next, Shell

LEMMA Invariant == Spec => []Inv
  <1>1. Init => Inv
    BY Start
  <1>2. Inv /\ [Next]_shVars => Inv'
    BY NextKeeps
  <1> QED
    BY <1>1, <1>2, PTL DEF Spec

\* Every variable has its type, and a program starts with its standard
\* descriptors only: whatever line of pipes, redirections and background
\* commands it is part of, the ends of the pipes that exec_cmd opened and that
\* fork passed on are closed before execvp (exec.c:199-243).
THEOREM DescriptorsClosed == Spec => []ProcessesOK
  <1>1. Inv => ProcessesOK
    <2> SUFFICES ASSUME Inv PROVE ProcessesOK
      OBVIOUS
    <2>1. ProcessInv /\ SystemOK /\ GlobalsOK
      BY DEF Inv, ProcessInv
    <2>2. UnixTypeOK
      BY <2>1 DEF UnixTypeOK, SystemOK, ProcType, Files, FdVals
    <2>3. TypeOK
      <3>1. \A p \in Procs : Running(p) <=> pc[p] # "off"
        BY <2>1 DEF ProcessInv, Good, Running
      <3>2. status \in Int /\ lines \in 0..MaxLines /\ torn \in BOOLEAN
        BY <2>1 DEF GlobalsOK
      <3> QED
        BY <2>1, <2>2, <3>1, <3>2 DEF TypeOK, ProcessInv
    <2>4. NoStrayFds
      BY <2>1 DEF NoStrayFds, ProcessInv, Good, Proper, Allowed, PipeLabels, EndLabels, FileLabels
    <2> QED
      BY <2>3, <2>4 DEF ProcessesOK
  <1> QED
    BY <1>1, Invariant, PTL

\* When the prompt is back, every process of the lines in the foreground has
\* ended and was waited for, and no pipe is left, if no fork in the middle of a
\* pipe failed (runcmd.c:76, exec.c:236-243).
THEOREM PromptAfterAll == Spec => []ForegroundGone
  <1>1. Inv => ForegroundGone
    <2> SUFFICES ASSUME Inv, pc[SH] = "prompt", ~torn
                 PROVE  (\A p \in Procs : ~job[p].fg) /\ Unused = Pipes
      BY DEF ForegroundGone
    <2>1. \A p \in Procs : ~job[p].fg
      BY NoForeground DEF Inv
    <2>2. \A p \in Procs, i \in Fds : fd[p][i] \in {File, NULL}
      BY <2>1 DEF Inv, ProcessInv, Good, Proper
    <2>3. ASSUME NEW x \in Pipes, NEW e \in {"R", "W"} PROVE ~Has(x, e)
      BY <2>2, EndIs DEF Has
    <2> QED
      BY <2>1, <2>3 DEF Unused
  <1> QED
    BY <1>1, Invariant, PTL
=============================================================================
