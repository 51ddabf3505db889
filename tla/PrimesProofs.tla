----------------------------- MODULE PrimesProofs ----------------------------
(***************************************************************************)
(* Theorems about Primes, for every N and every number of processes, pipes *)
(* and descriptors: the types, that main is the last to end, and, on a     *)
(* terminal, that the numbers printed are the primes.                      *)
(***************************************************************************)
EXTENDS Primes, FiniteSetTheorems, TLAPS

-----------------------------------------------------------------------------
(***************************************************************************)
(* The inductive invariant: first each process by itself.                  *)
(***************************************************************************)
Items    == 2..N
FdVals   == {End(x, e) : x \in Pipes, e \in {"R", "W"}} \cup {File, NULL}
Files    == [Fds -> FdVals]
ProcType == [st : {"free", "run", "zombie"}, parent : Procs \cup {INIT, NULL}, code : Nat]
LocType  == [in : Fds, r : Fds, w : Fds, prime : 0..N, n : 0..(N + 1)]

\* Where a process has both ends of a pipe, where it has the writing end of it,
\* and where it reads, or will.
BothLabels  == {"fork", "closer", "cclosein", "cclosew"}
WriteLabels == {"write", "loop", "closein", "closew"}
InLabels    == {"filter", "pipe", "fork", "closer", "write", "loop", "closein"}

\* The descriptors of a process: those it uses are open and different, and one
\* that has ended has no pipe.
EndsOK(p, f, l, v) ==
    /\ l \in BothLabels => /\ v.r # v.w
                           /\ \E x \in Pipes : f[v.r] = End(x, "R") /\ f[v.w] = End(x, "W")
    /\ l \in WriteLabels => \E x \in Pipes : f[v.w] = End(x, "W")
    /\ p # MAIN /\ l \in InLabels => f[v.in] # NULL
    /\ p # MAIN /\ l \in {"fork", "closer", "cclosein"} => v.in \notin {v.r, v.w}
    /\ p # MAIN /\ l \in {"write", "loop", "closein"} => v.in # v.w
    /\ l = "off" => \A i \in Fds : f[i] \in {File, NULL}

\* What holds of a process p, its entry, descriptors, place and locals.
Good(p, w, f, l, v) ==
    /\ w.st = "run" <=> l # "off"
    /\ EndsOK(p, f, l, v)
    /\ p = MAIN => /\ w.parent = NULL /\ w.st # "free"
                   /\ l \in {"pipe", "fork", "closer", "write", "closew", "wait", "exit", "off"}
                   /\ l \in {"pipe", "fork", "closer", "write"} => v.n >= 2
    /\ p # MAIN /\ l = "write" => v.n \in Items

SystemOK ==
    /\ proc \in [Procs -> ProcType] /\ fd \in [Procs -> Files]
    /\ buf \in [Pipes -> Seq(Items)] /\ \A x \in Pipes : Len(buf[x]) <= PIPE_BUF
GlobalsOK == pending \in [Procs -> Seq(Items)] /\ output \in Seq(Items) /\ failed \in BOOLEAN

ProcessInv ==
    /\ SystemOK /\ GlobalsOK
    /\ pc \in [Procs -> Labels] /\ loc \in [Procs -> LocType]
    /\ \A p \in Procs : Good(p, proc[p], fd[p], pc[p], loc[p])

-----------------------------------------------------------------------------
(***************************************************************************)
(* Then the processes together, as long as nothing failed.                 *)
(***************************************************************************)
\* A process has one child, from the fork to the wait.
WithChild == {"closer", "write", "loop", "closein", "closew", "wait"}
Few(S, l) ==
    /\ l \in WithChild => \E c \in Procs : S \subseteq {c}
    /\ l \notin WithChild => S = {}

\* Until it closes its writing end, its child has not seen the end of the
\* numbers, and has the reading end: nobody is killed for writing.
Writing == {"closer", "write", "loop", "closein", "closew"}
Early   == {"cclosein", "cclosew", "filter", "pipe", "fork", "closer", "write", "loop"}
InAt(l, v) == IF l \in {"cclosein", "cclosew"} THEN v.r ELSE v.in
In(c)   == InAt(pc[c], loc[c])
Link(p, c) ==
    /\ c # MAIN /\ proc[c].parent = p /\ pc[c] \in Early
    /\ \E x \in Pipes : fd[p][loc[p].w] = End(x, "W") /\ fd[c][In(c)] = End(x, "R")

\* Nobody is below itself.
Ranked(rank) ==
    \A p, q \in Procs : Running(p) /\ Running(q) /\ proc[p].parent = q => rank[q] < rank[p]

TreeInv ==
    /\ \A p \in Procs : Few(Children(p), pc[p])
    /\ \A p \in Procs : pc[p] \in Writing => \E c \in Procs : Link(p, c)
    /\ \A p \in Procs \ {MAIN} : Running(p) => proc[p].parent \in Procs /\ Running(proc[p].parent)
    /\ \E rank \in [Procs -> Nat] : Ranked(rank)

Inv == ProcessInv /\ (~failed => TreeInv)

-----------------------------------------------------------------------------
(***************************************************************************)
(* Numbers, descriptors and processes.                                     *)
(***************************************************************************)
\* A set of descriptors or of processes has a first.
LEMMA LeastExists ==
  ASSUME NEW S, S \subseteq Nat, IsFiniteSet(S), S # {}
  PROVE  \E i \in S : \A j \in S : i <= j
  <1> DEFINE Below(i) == {j \in S : j <= i}
             T == {Below(i) : i \in S}
             R == StrictSubsetOrdering(S)
  <1>1. IsWellFoundedOn(R, FiniteSubsetsOf(S))
    BY FS_StrictSubsetOrderingWellFounded
  <1>2. T \subseteq FiniteSubsetsOf(S) /\ T # {}
    <2>1. FiniteSubsetsOf(S) = SUBSET S
      BY FS_FiniteSubsetsOfFinite
    <2>2. T \subseteq SUBSET S /\ T # {}
      OBVIOUS
    <2> QED
      BY <2>1, <2>2
  <1>3. \E x \in T : \A y \in T : ~(<<y, x>> \in R)
    <2> HIDE DEF T, R
    <2> QED
      BY <1>1, <1>2, WFMin
  <1>4. PICK i \in S : \A j \in S : ~(<<Below(j), Below(i)>> \in R)
    BY <1>3
  <1>5. \A j \in S : i <= j
    <2> SUFFICES ASSUME NEW j \in S, j < i PROVE FALSE
      OBVIOUS
    <2>0. i \in Nat /\ j \in Nat /\ \A k \in S : k \in Nat
      OBVIOUS
    <2>1. Below(j) \subseteq Below(i) /\ i \in Below(i) /\ i \notin Below(j)
      <3>1. ASSUME NEW k \in Below(j) PROVE k \in Below(i)
        <4>1. k \in S /\ k <= j /\ k \in Nat
          BY <2>0
        <4> QED
          BY <2>0, <4>1
      <3>2. i \in Below(i) /\ ~(i <= j)
        BY <2>0
      <3>3. i \notin Below(j)
        BY <3>2
      <3> QED
        BY <3>1, <3>2, <3>3
    <2>2. Below(j) \in SUBSET S /\ Below(i) \in SUBSET S
      OBVIOUS
    <2>3. <<Below(j), Below(i)>> \in R
      <3> HIDE DEF Below
      <3> QED
        BY <2>1, <2>2 DEF StrictSubsetOrdering
    <2> QED
      BY <1>4, <2>3
  <1> QED
    BY <1>5

LEMMA LeastIs ==
  ASSUME NEW S, S \subseteq Nat, IsFiniteSet(S), S # {}
  PROVE  Least(S) \in S
  BY LeastExists DEF Least

LEMMA Constants ==
  /\ NPROC \in Nat \ {0} /\ NPIPE \in Nat \ {0} /\ PIPE_BUF \in Nat \ {0} /\ NFD \in Nat
  /\ N \in Nat /\ N >= 2 /\ Items \subseteq Nat /\ (\A n \in Items : n # NULL)
  /\ MAIN \in Procs /\ INIT \notin Procs /\ NULL \notin Procs /\ NULL # INIT /\ NULL \notin Nat
  /\ Procs \subseteq Nat /\ Pipes \subseteq Nat /\ Fds \subseteq Nat
  /\ IsFiniteSet(Procs) /\ IsFiniteSet(Pipes) /\ IsFiniteSet(Fds)
  /\ STDIN \in Fds /\ STDOUT \in Fds
  <1>1. /\ NPROC \in Nat \ {0} /\ NPIPE \in Nat \ {0} /\ PIPE_BUF \in Nat \ {0} /\ NFD \in Nat /\ NFD >= 2
    BY UnixAssumption
  <1>2. MAIN \in Procs /\ INIT \notin Procs /\ Procs \subseteq Nat /\ Pipes \subseteq Nat /\ Fds \subseteq Nat
        /\ STDIN \in Fds /\ STDOUT \in Fds
    BY <1>1 DEF MAIN, INIT, Procs, Pipes, Fds, STDIN, STDOUT
  <1>3. NULL \notin Procs /\ NULL # INIT /\ NULL \notin Nat
    <2>1. NULL \notin Nat
      BY NullAssumption
    <2>2. 0 \in Nat /\ Procs \subseteq Nat
      BY <1>2
    <2> QED
      BY <2>1, <2>2 DEF INIT
  <1>4. IsFiniteSet(Procs) /\ IsFiniteSet(Pipes) /\ IsFiniteSet(Fds)
    <2>1. IsFiniteSet(1..NPROC) /\ IsFiniteSet(1..NPIPE) /\ IsFiniteSet(0..(NFD - 1))
      BY <1>1, FS_Interval
    <2> QED
      BY <2>1 DEF Procs, Pipes, Fds
  <1>5. N \in Nat /\ N >= 2 /\ Items \subseteq Nat
    BY PrimesAssumption DEF Items
  <1>6. \A n \in Items : n # NULL
    BY <1>3, <1>5
  <1> QED
    BY <1>1, <1>2, <1>3, <1>4, <1>5, <1>6

LEMMA EndIs ==
  ASSUME NEW x \in Pipes, NEW e \in {"R", "W"}
  PROVE  End(x, e) \in FdVals /\ End(x, e) # NULL /\ End(x, e) # File
  <1>1. x # NULL
    BY Constants
  <1> QED
    BY <1>1, NullAssumption DEF FdVals, End, File

LEMMA FileIs == File \in FdVals /\ NULL \in FdVals
  BY DEF FdVals

\* Sets of free descriptors, processes and pipes have a first.
LEMMA Firsts ==
  /\ Unused # {} => Least(Unused) \in Pipes
  /\ FreeProcs # {} => Least(FreeProcs) \in FreeProcs
  /\ \A p \in Procs : Cardinality(FreeFds(p)) >= 2 =>
        ReadFd(p) \in FreeFds(p) /\ WriteFd(p) \in FreeFds(p) /\ ReadFd(p) # WriteFd(p)
  <1>1. ASSUME NEW S, NEW T, S \subseteq T, T \subseteq Nat, IsFiniteSet(T), S # {}
        PROVE  Least(S) \in S
    BY <1>1, LeastIs, FS_Subset
  <1>2. Unused # {} => Least(Unused) \in Pipes
    <2>1. Unused \subseteq Pipes
      BY DEF Unused
    <2> QED
      BY <1>1, <2>1, Constants
  <1>3. FreeProcs # {} => Least(FreeProcs) \in FreeProcs
    <2>1. FreeProcs \subseteq Procs
      BY DEF FreeProcs
    <2> QED
      BY <1>1, <2>1, Constants
  <1>4. ASSUME NEW p \in Procs, Cardinality(FreeFds(p)) >= 2
        PROVE  ReadFd(p) \in FreeFds(p) /\ WriteFd(p) \in FreeFds(p) /\ ReadFd(p) # WriteFd(p)
    <2> DEFINE S == FreeFds(p)
    <2>1. S \subseteq Fds /\ IsFiniteSet(S)
      BY Constants, FS_Subset DEF FreeFds
    <2>2. S # {}
      <3>1. CASE S = {}
        <4>1. Cardinality(S) = 0
          BY <3>1, FS_EmptySet
        <4> QED
          BY <4>1, <1>4
      <3> QED
        BY <3>1
    <2>3. ReadFd(p) \in S
      BY <1>1, <2>1, <2>2, Constants DEF ReadFd
    <2>4. S \ {ReadFd(p)} # {}
      <3>1. CASE S \ {ReadFd(p)} = {}
        <4>1. S = {ReadFd(p)}
          BY <3>1, <2>3
        <4>2. Cardinality(S) = 1
          BY <4>1, FS_Singleton
        <4> QED
          BY <4>2, <1>4
      <3> QED
        BY <3>1
    <2>5. WriteFd(p) \in S \ {ReadFd(p)}
      BY <1>1, <2>1, <2>4, Constants DEF WriteFd
    <2> QED
      BY <2>1, <2>3, <2>5
  <1> QED
    BY <1>2, <1>3, <1>4

-----------------------------------------------------------------------------
(***************************************************************************)
(* The system calls.                                                       *)
(***************************************************************************)
LEMMA Closes ==
  ASSUME SystemOK, NEW p \in Procs, NEW i \in Fds, close(p, i)
  PROVE  /\ SystemOK' /\ proc' = proc
         /\ fd'[p] = [fd[p] EXCEPT ![i] = NULL] /\ \A q \in Procs \ {p} : fd'[q] = fd[q]
  BY FileIs DEF SystemOK, close, Files

LEMMA Opens ==
  ASSUME SystemOK, NEW p \in Procs, pipe(p)
  PROVE  /\ SystemOK' /\ proc' = proc
         /\ ReadFd(p) \in Fds /\ WriteFd(p) \in Fds /\ ReadFd(p) # WriteFd(p)
         /\ fd[p][ReadFd(p)] = NULL /\ fd[p][WriteFd(p)] = NULL
         /\ \A i \in Fds \ {ReadFd(p), WriteFd(p)} : fd'[p][i] = fd[p][i]
         /\ \E x \in Pipes : fd'[p][ReadFd(p)] = End(x, "R") /\ fd'[p][WriteFd(p)] = End(x, "W")
         /\ \A q \in Procs \ {p} : fd'[q] = fd[q]
  <1> DEFINE x == Least(Unused)
             f == [fd[p] EXCEPT ![ReadFd(p)] = End(x, "R"), ![WriteFd(p)] = End(x, "W")]
  <1>1. /\ x \in Pipes /\ ReadFd(p) \in Fds /\ WriteFd(p) \in Fds /\ ReadFd(p) # WriteFd(p)
        /\ fd[p][ReadFd(p)] = NULL /\ fd[p][WriteFd(p)] = NULL
    BY Firsts DEF pipe, FreeFds
  <1>2. End(x, "R") \in FdVals /\ End(x, "W") \in FdVals
    BY <1>1, EndIs
  <1>3. fd \in [Procs -> Files] /\ fd[p] \in Files
    BY DEF SystemOK
  <1>4. f \in Files
    BY <1>1, <1>2, <1>3 DEF Files
  <1>5. fd' = [fd EXCEPT ![p] = f] /\ buf' = [buf EXCEPT ![x] = <<>>] /\ proc' = proc
    BY <1>1, <1>3 DEF pipe
  <1>6. /\ fd' \in [Procs -> Files] /\ fd'[p] = f /\ \A q \in Procs \ {p} : fd'[q] = fd[q]
    BY <1>3, <1>4, <1>5
  <1>7. buf' \in [Pipes -> Seq(Items)] /\ \A y \in Pipes : Len(buf'[y]) <= PIPE_BUF
    BY <1>1, <1>5, Constants DEF SystemOK
  <1>8. f[ReadFd(p)] = End(x, "R") /\ f[WriteFd(p)] = End(x, "W")
    BY <1>1, <1>3 DEF Files
  <1> QED
    BY <1>1, <1>3, <1>5, <1>6, <1>7, <1>8 DEF SystemOK, Files

LEMMA Forks ==
  ASSUME SystemOK, NEW p \in Procs, NEW c \in Procs, fork(p, c)
  PROVE  /\ SystemOK' /\ proc[c].st = "free"
         /\ proc' = [proc EXCEPT ![c] = [st |-> "run", parent |-> p, code |-> 0]]
         /\ fd' = [fd EXCEPT ![c] = fd[p]]
  <1>1. c \in FreeProcs
    BY Firsts DEF fork
  <1>2. [st |-> "run", parent |-> p, code |-> 0] \in ProcType
    BY DEF ProcType
  <1> QED
    BY <1>1, <1>2 DEF SystemOK, fork, FreeProcs

LEMMA Reaps ==
  ASSUME SystemOK, NEW p, NEW c \in Zombies(p), reap(c)
  PROVE  /\ SystemOK' /\ fd' = fd /\ c \in Procs /\ proc[c].st = "zombie" /\ proc[c].parent = p
         /\ proc' = [proc EXCEPT ![c] = NoProc]
  <1>1. NoProc \in ProcType
    BY DEF NoProc, ProcType
  <1> QED
    BY <1>1 DEF SystemOK, reap, Zombies, Children

LEMMA Exited ==
  ASSUME SystemOK, NEW p \in Procs, NEW code \in Nat, exit(p, code)
  PROVE  /\ SystemOK' /\ fd'[p] = [i \in Fds |-> NULL] /\ \A q \in Procs \ {p} : fd'[q] = fd[q]
         /\ proc'[p].st \in {"free", "zombie"}
         /\ proc[p].parent # INIT => proc'[p].st = "zombie" /\ proc'[p].parent = proc[p].parent
         /\ proc[p].parent = INIT => proc'[p].st = "free"
         /\ \A q \in Procs \ {p} : IF q \in Zombies(p) THEN proc'[q] = NoProc
                                   ELSE IF q \in Children(p) THEN proc'[q] = [proc[q] EXCEPT !.parent = INIT]
                                   ELSE proc'[q] = proc[q]
  <1>1. proc \in [Procs -> ProcType] /\ fd \in [Procs -> Files]
    BY DEF SystemOK
  <1>2. NoProc \in ProcType /\ NoProc.st = "free" /\ NoProc.parent = NULL
    BY DEF NoProc, ProcType
  <1>3. \A q \in Procs : /\ [proc[q] EXCEPT !.parent = INIT] \in ProcType
                         /\ [proc[q] EXCEPT !.st = "zombie", !.code = code] \in ProcType
    BY <1>1 DEF ProcType
  <1>4. [i \in Fds |-> NULL] \in Files
    BY FileIs DEF Files
  <1>5. fd' \in [Procs -> Files] /\ fd'[p] = [i \in Fds |-> NULL] /\ \A q \in Procs \ {p} : fd'[q] = fd[q]
    BY <1>1, <1>4 DEF exit
  <1>6. proc' = [q \in Procs |->
           IF q = p THEN IF proc[p].parent = INIT THEN NoProc ELSE [proc[p] EXCEPT !.st = "zombie", !.code = code]
           ELSE IF q \in Zombies(p) THEN NoProc
           ELSE IF q \in Children(p) THEN [proc[q] EXCEPT !.parent = INIT]
           ELSE proc[q]]
    BY DEF exit
  <1>7. proc' \in [Procs -> ProcType]
    BY <1>1, <1>2, <1>3, <1>6
  <1>8. /\ proc'[p].st \in {"free", "zombie"}
        /\ proc[p].parent # INIT => proc'[p].st = "zombie" /\ proc'[p].parent = proc[p].parent
        /\ proc[p].parent = INIT => proc'[p].st = "free"
    <2>1. [proc[p] EXCEPT !.st = "zombie", !.code = code].st = "zombie"
          /\ [proc[p] EXCEPT !.st = "zombie", !.code = code].parent = proc[p].parent
      BY <1>1 DEF ProcType
    <2>2. proc'[p] = IF proc[p].parent = INIT THEN NoProc ELSE [proc[p] EXCEPT !.st = "zombie", !.code = code]
      BY <1>6
    <2> QED
      BY <1>2, <2>1, <2>2
  <1>9. \A q \in Procs \ {p} : IF q \in Zombies(p) THEN proc'[q] = NoProc
                                   ELSE IF q \in Children(p) THEN proc'[q] = [proc[q] EXCEPT !.parent = INIT]
                                   ELSE proc'[q] = proc[q]
    BY <1>6
  <1>10. buf' \in [Pipes -> Seq(Items)] /\ \A x \in Pipes : Len(buf'[x]) <= PIPE_BUF
    BY DEF SystemOK, exit
  <1> QED
    BY <1>5, <1>7, <1>8, <1>9, <1>10 DEF SystemOK

LEMMA Reads ==
  ASSUME SystemOK, NEW p \in Procs, NEW i \in Fds, fd[p][i] # NULL, NEW v, read(p, i, v)
  PROVE  /\ SystemOK' /\ proc' = proc /\ fd' = fd
         /\ v = NULL => \E x \in Pipes : fd[p][i] = End(x, "R") /\ ~Has(x, "W")
  <1>1. PICK x \in Pipes : fd[p][i] = End(x, "R")
    <2>1. fd[p][i] \in FdVals /\ fd[p][i].end = "R"
      BY DEF SystemOK, Files, read
    <2>2. File.end # "R" /\ \A y : End(y, "W").end # "R"
      BY DEF File, End
    <2>3. fd[p][i] # File /\ fd[p][i] # NULL
      BY <2>1, <2>2
    <2>4. PICK y \in Pipes, e \in {"R", "W"} : fd[p][i] = End(y, e)
      BY <2>1, <2>3 DEF FdVals
    <2> QED
      BY <2>1, <2>2, <2>4
  <1>2. fd[p][i].of = x
    BY <1>1 DEF End
  <1>3. /\ \/ buf[x] # <<>> /\ v = Head(buf[x]) /\ buf' = [buf EXCEPT ![x] = Tail(@)]
           \/ buf[x] = <<>> /\ ~Has(x, "W") /\ v = NULL /\ UNCHANGED buf
        /\ UNCHANGED <<proc, fd>>
    BY <1>2 DEF read
  <1>4. CASE buf[x] # <<>> /\ v = Head(buf[x]) /\ buf' = [buf EXCEPT ![x] = Tail(@)]
    <2>1. buf[x] \in Seq(Items) /\ buf[x] # <<>>
      BY <1>4 DEF SystemOK
    <2>2. Tail(buf[x]) \in Seq(Items) /\ Len(Tail(buf[x])) = Len(buf[x]) - 1 /\ Len(buf[x]) \in Nat /\ v \in Items
      BY <1>4, <2>1
    <2>3. buf' \in [Pipes -> Seq(Items)]
      BY <1>4, <2>2 DEF SystemOK
    <2>4. \A y \in Pipes : Len(buf'[y]) <= PIPE_BUF
      BY <1>4, <2>2, Constants DEF SystemOK
    <2> QED
      BY <1>3, <2>2, <2>3, <2>4, Constants DEF SystemOK
  <1>5. CASE buf[x] = <<>> /\ ~Has(x, "W") /\ v = NULL /\ UNCHANGED buf
    BY <1>1, <1>3, <1>5 DEF SystemOK
  <1> QED
    BY <1>3, <1>4, <1>5

LEMMA Writes ==
  ASSUME SystemOK, NEW p \in Procs, NEW i \in Fds, NEW x \in Pipes, fd[p][i] = End(x, "W"),
         NEW v \in Items, write(p, i, v)
  PROVE  SystemOK' /\ proc' = proc /\ fd' = fd
  <1>1. fd[p][i].of = x
    BY DEF End
  <1>2. proc' = proc /\ fd' = fd /\ buf' = [buf EXCEPT ![x] = Append(@, v)] /\ Len(buf[x]) < PIPE_BUF
    BY <1>1 DEF write
  <1>3. buf[x] \in Seq(Items)
    BY DEF SystemOK
  <1>4. Append(buf[x], v) \in Seq(Items) /\ Len(Append(buf[x], v)) = Len(buf[x]) + 1 /\ Len(buf[x]) \in Nat
    BY <1>3
  <1>5. buf' \in [Pipes -> Seq(Items)]
    BY <1>2, <1>4 DEF SystemOK
  <1>6. \A y \in Pipes : Len(buf'[y]) <= PIPE_BUF
    BY <1>2, <1>4, Constants DEF SystemOK
  <1> QED
    BY <1>2, <1>5, <1>6 DEF SystemOK

-----------------------------------------------------------------------------
(***************************************************************************)
(* Steps of one process, which leave the tree of processes as it is.       *)
(***************************************************************************)
Local(p) ==
    /\ SystemOK' /\ proc' = proc /\ pc' \in [Procs -> Labels] /\ loc' \in [Procs -> LocType]
    /\ \A q \in Procs \ {p} : fd'[q] = fd[q] /\ pc'[q] = pc[q] /\ loc'[q] = loc[q]
    /\ GlobalsOK' /\ failed' = failed

\* What p writes to stays, and what it reads from while somebody may write there.
KeepsEnds(p) ==
    /\ pc[p] \in WithChild <=> pc'[p] \in WithChild
    /\ pc'[p] \in Writing => pc[p] \in Writing /\ fd'[p][loc'[p].w] = fd[p][loc[p].w]
    /\ \A q \in Procs : Link(q, p) => pc'[p] \in Early /\ fd'[p][In(p)'] = fd[p][In(p)]

LEMMA LocalStep ==
  ASSUME Inv, NEW p \in Procs, Running(p), Local(p), KeepsEnds(p),
         Good(p, proc[p], fd'[p], pc'[p], loc'[p])
  PROVE  Inv'
  <1>1. ProcessInv'
    <2>1. \A q \in Procs : Good(q, proc'[q], fd'[q], pc'[q], loc'[q])
      BY DEF Inv, ProcessInv, Local
    <2> QED
      BY <2>1 DEF ProcessInv, Local
  <1>2. ASSUME TreeInv PROVE TreeInv'
    <2>1. \A q : Children(q)' = Children(q)
      BY DEF Children, Local
    <2>2. ASSUME NEW q \in Procs PROVE Few(Children(q)', pc'[q])
      BY <1>2, <2>1 DEF TreeInv, Few, Local, KeepsEnds
    <2>3. ASSUME NEW q \in Procs, pc'[q] \in Writing PROVE \E c \in Procs : Link(q, c)'
      <3>1. pc[q] \in Writing /\ fd'[q][loc'[q].w] = fd[q][loc[q].w]
        BY <2>3 DEF Local, KeepsEnds
      <3>2. PICK c \in Procs : Link(q, c)
        BY <1>2, <3>1 DEF TreeInv
      <3>3. pc'[c] \in Early /\ fd'[c][In(c)'] = fd[c][In(c)]
        <4>1. CASE c = p
          BY <3>2, <4>1 DEF KeepsEnds
        <4>2. CASE c # p
          BY <3>2, <4>2 DEF Local, Link, In, InAt
        <4> QED
          BY <4>1, <4>2
      <3>4. Link(q, c)'
        BY <3>1, <3>2, <3>3 DEF Link, Local
      <3> QED
        BY <3>4
    <2>4. \A q \in Procs : Running(q)' <=> Running(q)
      BY DEF Running, Local
    <2>5. \A q \in Procs \ {MAIN} : Running(q)' => proc'[q].parent \in Procs /\ Running(proc[q].parent)'
      BY <1>2, <2>4 DEF TreeInv, Local
    <2>6. \E rank \in [Procs -> Nat] : Ranked(rank)'
      <3>1. PICK rank \in [Procs -> Nat] : Ranked(rank)
        BY <1>2 DEF TreeInv
      <3>2. Ranked(rank)'
        BY <3>1, <2>4 DEF Ranked, Local
      <3> QED
        BY <3>2
    <2>7. proc' = proc
      BY DEF Local
    <2> QED
      BY <2>2, <2>3, <2>5, <2>6, <2>7 DEF TreeInv
  <1> QED
    BY <1>1, <1>2 DEF Inv, Local

-----------------------------------------------------------------------------
(***************************************************************************)
(* A process ends, with no child left and nobody that writes to it; else   *)
(* something failed.                                                       *)
(***************************************************************************)
Gone(p) ==
    /\ \E code \in Nat : exit(p, code)
    /\ Off(p) /\ GlobalsOK' /\ (failed => failed')

LEMMA EndProcesses ==
  ASSUME ProcessInv, NEW p \in Procs, Gone(p)
  PROVE  /\ ProcessInv'
         /\ pc'[p] = "off" /\ \A q \in Procs \ {p} : pc'[q] = pc[q] /\ loc'[q] = loc[q] /\ fd'[q] = fd[q]
         /\ proc'[p].st # "run"
         /\ proc[p].parent # INIT => proc'[p].st = "zombie" /\ proc'[p].parent = proc[p].parent
         /\ proc[p].parent = INIT => proc'[p].st = "free"
         /\ \A q \in Procs \ {p} : q \notin Children(p) => proc'[q] = proc[q]
  <1>1. PICK code \in Nat : exit(p, code)
    BY DEF Gone
  <1>2. /\ SystemOK' /\ fd'[p] = [i \in Fds |-> NULL] /\ \A q \in Procs \ {p} : fd'[q] = fd[q]
        /\ proc'[p].st \in {"free", "zombie"}
        /\ proc[p].parent # INIT => proc'[p].st = "zombie" /\ proc'[p].parent = proc[p].parent
        /\ proc[p].parent = INIT => proc'[p].st = "free"
        /\ \A q \in Procs \ {p} : IF q \in Zombies(p) THEN proc'[q] = NoProc
                                  ELSE IF q \in Children(p) THEN proc'[q] = [proc[q] EXCEPT !.parent = INIT]
                                  ELSE proc'[q] = proc[q]
    BY <1>1, Exited DEF ProcessInv
  <1>3. /\ pc' = [pc EXCEPT ![p] = "off"] /\ loc' = [loc EXCEPT ![p] = NoLoc]
    BY DEF Gone, Off, Goto
  <1>4. NoLoc \in LocType
    BY Constants DEF NoLoc, LocType, STDIN
  <1>5. /\ pc' \in [Procs -> Labels] /\ loc' \in [Procs -> LocType]
        /\ pc'[p] = "off" /\ \A q \in Procs \ {p} : pc'[q] = pc[q] /\ loc'[q] = loc[q]
    BY <1>3, <1>4 DEF ProcessInv, Labels
  <1>6. Good(p, proc'[p], fd'[p], "off", loc'[p])
    <2>1. EndsOK(p, fd'[p], "off", loc'[p])
      BY <1>2 DEF EndsOK, BothLabels, WriteLabels, InLabels
    <2>2. p = MAIN => proc'[p].parent = NULL /\ proc'[p].st = "zombie"
      BY <1>2, Constants DEF ProcessInv, Good
    <2> QED
      BY <1>2, <2>1, <2>2 DEF Good
  <1>7. ASSUME NEW q \in Procs \ {p} PROVE Good(q, proc'[q], fd'[q], pc'[q], loc'[q])
    <2>1. Good(q, proc[q], fd[q], pc[q], loc[q]) /\ proc[q] \in ProcType
      BY DEF ProcessInv, SystemOK
    <2>2. fd'[q] = fd[q] /\ pc'[q] = pc[q] /\ loc'[q] = loc[q]
      BY <1>2, <1>5
    <2>3. CASE q \in Children(p)
      <3>1. q # MAIN
        BY <2>1, <2>3, Constants DEF Children, Good
      <3>2. (proc'[q].st = "run") <=> (proc[q].st = "run")
        <4>1. CASE q \in Zombies(p)
          <5>1. proc[q].st = "zombie" /\ proc'[q] = NoProc
            BY <1>2, <4>1 DEF Zombies
          <5> QED
            BY <5>1 DEF NoProc
        <4>2. CASE q \notin Zombies(p)
          <5>1. proc'[q] = [proc[q] EXCEPT !.parent = INIT]
            BY <1>2, <2>3, <4>2
          <5> QED
            BY <5>1, <2>1 DEF ProcType
        <4> QED
          BY <4>1, <4>2
      <3> QED
        BY <2>1, <2>2, <3>1, <3>2 DEF Good
    <2>4. CASE q \notin Children(p)
      BY <1>2, <2>1, <2>2, <2>4 DEF Zombies
    <2> QED
      BY <2>3, <2>4
  <1>8. ProcessInv'
    BY <1>2, <1>5, <1>6, <1>7 DEF ProcessInv, Gone
  <1>9. \A q \in Procs \ {p} : q \notin Children(p) => proc'[q] = proc[q]
    BY <1>2 DEF Zombies
  <1> QED
    BY <1>2, <1>5, <1>8, <1>9

LEMMA EndStep ==
  ASSUME Inv, NEW p \in Procs, Running(p), Gone(p),
         ~failed' => pc[p] \notin WithChild /\ \A q \in Procs : pc[q] \in Writing => ~Link(q, p)
  PROVE  Inv'
  <1>1. ProcessInv
    BY DEF Inv
  <1>2. /\ ProcessInv'
        /\ pc'[p] = "off" /\ \A q \in Procs \ {p} : pc'[q] = pc[q] /\ loc'[q] = loc[q] /\ fd'[q] = fd[q]
        /\ proc'[p].st # "run"
        /\ proc[p].parent # INIT => proc'[p].st = "zombie" /\ proc'[p].parent = proc[p].parent
        /\ proc[p].parent = INIT => proc'[p].st = "free"
        /\ \A q \in Procs \ {p} : q \notin Children(p) => proc'[q] = proc[q]
    BY <1>1, EndProcesses
  <1>3. ASSUME ~failed' PROVE TreeInv'
    <2>1. TreeInv
      BY <1>3 DEF Inv, Gone
    <2>2. Children(p) = {} /\ \A q \in Procs \ {p} : proc'[q] = proc[q]
      BY <1>2, <1>3, <2>1 DEF TreeInv, Few
    <2>3. \A q \in Procs : Children(q)' \subseteq Children(q)
      <3> SUFFICES ASSUME NEW q \in Procs, NEW c \in Procs, proc'[c].st # "free", proc'[c].parent = q
                   PROVE  proc[c].st # "free" /\ proc[c].parent = q
        BY DEF Children
      <3>1. CASE c = p
        BY <1>2, <3>1 DEF Running
      <3>2. CASE c # p
        BY <2>2, <3>2
      <3> QED
        BY <3>1, <3>2
    <2>4. ASSUME NEW q \in Procs PROVE Few(Children(q)', pc'[q])
      <3>1. Few(Children(q), pc[q]) /\ Children(q)' \subseteq Children(q)
        BY <2>1, <2>3 DEF TreeInv
      <3>2. CASE q = p
        BY <1>2, <2>2, <3>1, <3>2 DEF Few, WithChild
      <3>3. CASE q # p
        BY <1>2, <3>1, <3>3 DEF Few
      <3> QED
        BY <3>2, <3>3
    <2>5. ASSUME NEW q \in Procs, pc'[q] \in Writing PROVE \E c \in Procs : Link(q, c)'
      <3>1. q # p /\ pc[q] \in Writing
        BY <1>2, <2>5 DEF Writing
      <3>2. PICK c \in Procs : Link(q, c)
        BY <2>1, <3>1 DEF TreeInv
      <3>3. c # p
        BY <1>3, <3>1, <3>2
      <3>4. Link(q, c)'
        BY <1>2, <2>2, <3>1, <3>2, <3>3 DEF Link, In, InAt
      <3> QED
        BY <3>4
    <2>6. \A q \in Procs : Running(q)' => q # p /\ Running(q) /\ proc'[q] = proc[q]
      BY <1>2, <2>2 DEF Running
    <2>7. ASSUME NEW q \in Procs \ {MAIN}, Running(q)' PROVE (proc[q].parent \in Procs /\ Running(proc[q].parent))'
      <3>1. Running(q) /\ proc'[q] = proc[q] /\ proc[q].parent \in Procs /\ Running(proc[q].parent)
        BY <2>1, <2>6, <2>7 DEF TreeInv
      <3>2. proc[q].parent # p
        BY <2>2, <3>1 DEF Children, Running
      <3> QED
        BY <2>2, <3>1, <3>2 DEF Running
    <2>8. \E rank \in [Procs -> Nat] : Ranked(rank)'
      <3>1. PICK rank \in [Procs -> Nat] : Ranked(rank)
        BY <2>1 DEF TreeInv
      <3>2. Ranked(rank)'
        BY <3>1, <2>6 DEF Ranked
      <3> QED
        BY <3>2
    <2> QED
      BY <2>4, <2>5, <2>7, <2>8 DEF TreeInv
  <1> QED
    BY <1>2, <1>3 DEF Inv

-----------------------------------------------------------------------------
(***************************************************************************)
(* A process makes the next filter, and takes it when it ended.            *)
(***************************************************************************)
LEMMA ForkStep ==
  ASSUME Inv, NEW p \in Procs, At(p, "fork"), NEW c \in Procs, fork(p, c),
         pc' = [pc EXCEPT ![p] = "closer", ![c] = IF p = MAIN THEN "cclosew" ELSE "cclosein"],
         loc' = [loc EXCEPT ![c] = loc[p]],
         pending' = [pending EXCEPT ![c] = pending[p]], UNCHANGED <<output, failed>>
  PROVE  Inv'
  <1> DEFINE l == IF p = MAIN THEN "cclosew" ELSE "cclosein"
  <1>1. ProcessInv /\ Running(p) /\ pc[p] = "fork" /\ Good(p, proc[p], fd[p], "fork", loc[p])
    BY DEF Inv, At, ProcessInv
  <1>2. /\ SystemOK' /\ proc[c].st = "free"
        /\ proc' = [proc EXCEPT ![c] = [st |-> "run", parent |-> p, code |-> 0]]
        /\ fd' = [fd EXCEPT ![c] = fd[p]]
    BY <1>1, Forks DEF ProcessInv
  <1>3. /\ proc \in [Procs -> ProcType] /\ fd \in [Procs -> Files] /\ pc \in [Procs -> Labels] /\ loc \in [Procs -> LocType]
    BY <1>1 DEF ProcessInv, SystemOK
  <1>4. p # c /\ pc[c] = "off" /\ c # MAIN
    BY <1>1, <1>2 DEF Running, ProcessInv, Good
  <1>5. /\ proc'[c].st = "run" /\ proc'[c].parent = p /\ fd'[c] = fd[p] /\ loc'[c] = loc[p] /\ pc'[c] = l
        /\ pc'[p] = "closer" /\ \A q \in Procs \ {p, c} : pc'[q] = pc[q]
        /\ \A q \in Procs \ {c} : proc'[q] = proc[q] /\ fd'[q] = fd[q] /\ loc'[q] = loc[q]
    BY <1>2, <1>3, <1>4
  <1>6. {"closer", "cclosew", "cclosein"} \subseteq Labels
    BY DEF Labels
  <1>7. ProcessInv'
    <2>1. pc' \in [Procs -> Labels] /\ loc' \in [Procs -> LocType]
      BY <1>3, <1>6
    <2>2. GlobalsOK'
      BY <1>1 DEF ProcessInv, GlobalsOK
    <2>3. EndsOK(p, fd[p], "fork", loc[p])
      BY <1>1 DEF Good
    <2>4. EndsOK(p, fd[p], "closer", loc[p]) /\ EndsOK(c, fd[p], l, loc[p])
      <3>1. EndsOK(p, fd[p], "closer", loc[p])
        BY <2>3 DEF EndsOK, BothLabels, WriteLabels, InLabels
      <3>2. CASE p = MAIN
        BY <2>3, <3>1, <3>2 DEF EndsOK, BothLabels, WriteLabels, InLabels
      <3>3. CASE p # MAIN
        BY <2>3, <3>1, <3>3 DEF EndsOK, BothLabels, WriteLabels, InLabels
      <3> QED
        BY <3>2, <3>3
    <2>5. Good(p, proc'[p], fd'[p], pc'[p], loc'[p])
      BY <1>1, <1>4, <1>5, <2>4 DEF Good
    <2>6. Good(c, proc'[c], fd'[c], pc'[c], loc'[c])
      BY <1>4, <1>5, <2>4 DEF Good
    <2>7. \A q \in Procs \ {p, c} : Good(q, proc'[q], fd'[q], pc'[q], loc'[q])
      BY <1>1, <1>5 DEF ProcessInv
    <2> QED
      BY <1>2, <2>1, <2>2, <2>5, <2>6, <2>7 DEF ProcessInv
  <1>8. ASSUME TreeInv PROVE TreeInv'
    <2>1. Children(c) = {} /\ Children(p) = {}
      BY <1>1, <1>4, <1>8 DEF TreeInv, Few, WithChild
    <2>2. Children(p)' = {c} /\ \A q \in Procs \ {p} : Children(q)' = Children(q)
      <3>1. ASSUME NEW q \in Procs, NEW d \in Procs
            PROVE  (proc'[d].st # "free" /\ proc'[d].parent = q)
                   <=> (d = c /\ q = p) \/ (proc[d].st # "free" /\ proc[d].parent = q)
        <4>1. CASE d = c
          BY <4>1, <1>2, <1>5
        <4>2. CASE d # c
          BY <4>2, <1>5
        <4> QED
          BY <4>1, <4>2
      <3>2. \A q \in Procs \ {p} : Children(q)' = Children(q)
        BY <3>1 DEF Children
      <3>3. Children(p)' = {c}
        BY <3>1, <2>1 DEF Children
      <3> QED
        BY <3>2, <3>3
    <2>3. ASSUME NEW q \in Procs PROVE Few(Children(q)', pc'[q])
      <3>1. CASE q = p
        <4>1. Children(q)' = {c} /\ pc'[q] = "closer"
          BY <3>1, <1>5, <2>2
        <4> QED
          BY <4>1 DEF Few, WithChild
      <3>2. CASE q = c
        BY <3>2, <1>4, <1>5, <2>1, <2>2 DEF Few, WithChild
      <3>3. CASE q \notin {p, c}
        <4>1. Children(q)' = Children(q) /\ pc'[q] = pc[q] /\ Few(Children(q), pc[q])
          BY <3>3, <1>5, <1>8, <2>2 DEF TreeInv
        <4> QED
          BY <4>1 DEF Few
      <3> QED
        BY <3>1, <3>2, <3>3
    <2>4. Link(p, c)'
      <3>1. PICK x \in Pipes : fd[p][loc[p].r] = End(x, "R") /\ fd[p][loc[p].w] = End(x, "W")
        BY <1>1 DEF Good, EndsOK, BothLabels
      <3>2. In(c)' = loc[p].r
        BY <1>5 DEF In, InAt
      <3>3. fd'[p][loc'[p].w] = End(x, "W") /\ fd'[c][In(c)'] = End(x, "R")
        BY <1>4, <1>5, <3>1, <3>2
      <3>4. pc'[c] \in Early
        BY <1>5 DEF Early
      <3> QED
        BY <1>4, <1>5, <3>3, <3>4 DEF Link
    <2>5. ASSUME NEW q \in Procs, pc'[q] \in Writing PROVE \E d \in Procs : Link(q, d)'
      <3>1. CASE q = p
        BY <2>4, <3>1
      <3>2. CASE q # p
        <4>1. q # c /\ pc[q] \in Writing
          BY <1>5, <2>5, <3>2 DEF Writing
        <4>2. PICK d \in Procs : Link(q, d)
          BY <1>8, <4>1 DEF TreeInv
        <4>3. d # c
          BY <1>4, <4>2 DEF Link, Early
        <4>4. pc'[d] \in Early /\ In(d)' = In(d)
          <5>1. CASE d = p
            <6>1. pc[d] = "fork" /\ pc'[d] = "closer" /\ loc'[d] = loc[d]
              BY <1>1, <1>4, <1>5, <5>1
            <6> QED
              BY <6>1 DEF Early, In, InAt
          <5>2. CASE d # p
            <6>1. pc'[d] = pc[d] /\ loc'[d] = loc[d] /\ pc[d] \in Early
              BY <1>5, <4>2, <4>3, <5>2 DEF Link
            <6> QED
              BY <6>1 DEF In, InAt
          <5> QED
            BY <5>1, <5>2
        <4>5. Link(q, d)'
          BY <1>5, <4>1, <4>2, <4>3, <4>4 DEF Link
        <4> QED
          BY <4>5
      <3> QED
        BY <3>1, <3>2
    <2>6. \A q \in Procs : Running(q)' <=> Running(q) \/ q = c
      BY <1>5 DEF Running
    <2>7. ASSUME NEW q \in Procs \ {MAIN}, Running(q)' PROVE (proc[q].parent \in Procs /\ Running(proc[q].parent))'
      <3>1. CASE q = c
        BY <1>1, <1>5, <2>6, <3>1
      <3>2. CASE q # c
        BY <1>5, <1>8, <2>6, <2>7, <3>2 DEF TreeInv
      <3> QED
        BY <3>1, <3>2
    <2>8. \E rank \in [Procs -> Nat] : Ranked(rank)'
      <3>1. PICK rank \in [Procs -> Nat] : Ranked(rank)
        BY <1>8 DEF TreeInv
      <3> DEFINE up == [rank EXCEPT ![c] = rank[p] + 1]
      <3>2. up \in [Procs -> Nat] /\ up[c] = rank[p] + 1 /\ \A q \in Procs \ {c} : up[q] = rank[q]
        OBVIOUS
      <3>3. ASSUME NEW q \in Procs, NEW s \in Procs, Running(q)', Running(s)', proc'[q].parent = s
            PROVE  up[s] < up[q]
        <4>1. CASE q = c
          BY <4>1, <3>2, <3>3, <1>4, <1>5
        <4>2. CASE q # c
          <5>1. Running(q) /\ proc[q].parent = s
            BY <4>2, <3>3, <1>5, <2>6
          <5>2. s # c
            BY <5>1, <2>1 DEF Children, Running
          <5>3. rank[s] < rank[q]
            BY <5>1, <5>2, <3>1, <3>3, <2>6 DEF Ranked
          <5> QED
            BY <4>2, <5>2, <5>3, <3>2
        <4> QED
          BY <4>1, <4>2
      <3>4. Ranked(up)'
        BY <3>3 DEF Ranked
      <3> QED
        BY <3>2, <3>4
    <2> QED
      BY <2>3, <2>5, <2>7, <2>8 DEF TreeInv
  <1> QED
    BY <1>7, <1>8 DEF Inv

LEMMA WaitStep ==
  ASSUME Inv, NEW p \in Procs, wait(p), UNCHANGED failed
  PROVE  Inv'
  <1>1. PICK c \in Zombies(p) : At(p, "wait") /\ reap(c) /\ Step(p, "exit")
    BY DEF wait
  <1>2. ProcessInv /\ Running(p) /\ pc[p] = "wait" /\ loc' = loc /\ pending' = pending /\ output' = output
    BY <1>1 DEF Inv, At, Step, SameOutput
  <1>3. /\ SystemOK' /\ fd' = fd /\ c \in Procs /\ proc[c].st = "zombie" /\ proc[c].parent = p
        /\ proc' = [proc EXCEPT ![c] = NoProc]
    BY <1>1, <1>2, Reaps DEF ProcessInv
  <1>4. proc \in [Procs -> ProcType] /\ pc \in [Procs -> Labels]
    BY <1>2 DEF ProcessInv, SystemOK
  <1>5. c # MAIN /\ c # p /\ pc[c] = "off"
    BY <1>2, <1>3, Constants DEF ProcessInv, Good, Running
  <1>6. /\ \A q \in Procs \ {c} : proc'[q] = proc[q]
        /\ proc'[c] = NoProc /\ NoProc.st = "free"
    BY <1>3, <1>4 DEF NoProc
  <1>7. pc' \in [Procs -> Labels] /\ pc'[p] = "exit" /\ \A q \in Procs \ {p} : pc'[q] = pc[q]
    BY <1>1, <1>4 DEF Step, Goto, Labels
  <1>8. ProcessInv'
    <2>1. \A q \in Procs : Good(q, proc[q], fd[q], pc[q], loc[q])
      BY <1>2 DEF ProcessInv
    <2>2. Good(p, proc'[p], fd'[p], pc'[p], loc'[p])
      <3>1. EndsOK(p, fd[p], "exit", loc[p])
        BY DEF EndsOK, BothLabels, WriteLabels, InLabels
      <3> QED
        BY <1>2, <1>3, <1>5, <1>6, <1>7, <2>1, <3>1 DEF Good
    <2>3. Good(c, proc'[c], fd'[c], pc'[c], loc'[c])
      BY <1>2, <1>3, <1>5, <1>6, <1>7, <2>1 DEF Good
    <2>4. \A q \in Procs \ {p, c} : Good(q, proc'[q], fd'[q], pc'[q], loc'[q])
      BY <1>2, <1>3, <1>6, <1>7, <2>1
    <2>5. GlobalsOK'
      BY <1>2 DEF ProcessInv, GlobalsOK
    <2> QED
      BY <1>2, <1>3, <1>7, <2>2, <2>3, <2>4, <2>5 DEF ProcessInv
  <1>9. ASSUME TreeInv PROVE TreeInv'
    <2>1. \A q \in Procs : Children(q)' = Children(q) \ {c}
      BY <1>6 DEF Children
    <2>2. ASSUME NEW q \in Procs PROVE Few(Children(q)', pc'[q])
      <3>1. CASE q = p
        <4>1. PICK d \in Procs : Children(p) \subseteq {d}
          BY <1>2, <1>9 DEF TreeInv, Few, WithChild
        <4>2. c \in Children(p)
          BY <1>3 DEF Children
        <4>3. Children(p)' = {}
          BY <2>1, <4>1, <4>2
        <4> QED
          BY <1>7, <3>1, <4>3 DEF Few, WithChild
      <3>2. CASE q # p
        <4>1. Few(Children(q), pc[q]) /\ pc'[q] = pc[q] /\ Children(q)' \subseteq Children(q)
          BY <1>7, <1>9, <2>1, <3>2 DEF TreeInv
        <4> QED
          BY <4>1 DEF Few
      <3> QED
        BY <3>1, <3>2
    <2>3. ASSUME NEW q \in Procs, pc'[q] \in Writing PROVE \E d \in Procs : Link(q, d)'
      <3>1. q # p /\ pc[q] \in Writing
        BY <1>7, <2>3 DEF Writing
      <3>2. PICK d \in Procs : Link(q, d)
        BY <1>9, <3>1 DEF TreeInv
      <3>3. d # c /\ d # p
        BY <1>2, <1>5, <3>2 DEF Link, Early
      <3>4. Link(q, d)'
        BY <1>2, <1>3, <1>6, <1>7, <3>1, <3>2, <3>3 DEF Link, In, InAt
      <3> QED
        BY <3>4
    <2>4. \A q \in Procs : (Running(q)' <=> Running(q)) /\ (Running(q) => proc'[q] = proc[q])
      BY <1>3, <1>6 DEF Running
    <2>5. ASSUME NEW q \in Procs \ {MAIN}, Running(q)' PROVE (proc[q].parent \in Procs /\ Running(proc[q].parent))'
      BY <1>9, <2>4, <2>5 DEF TreeInv
    <2>6. \E rank \in [Procs -> Nat] : Ranked(rank)'
      <3>1. PICK rank \in [Procs -> Nat] : Ranked(rank)
        BY <1>9 DEF TreeInv
      <3>2. Ranked(rank)'
        BY <3>1, <2>4 DEF Ranked
      <3> QED
        BY <3>2
    <2> QED
      BY <2>2, <2>3, <2>5, <2>6 DEF TreeInv
  <1> QED
    BY <1>8, <1>9 DEF Inv

-----------------------------------------------------------------------------
(***************************************************************************)
(* The other steps.                                                        *)
(***************************************************************************)
LEMMA Doing ==
  ASSUME ProcessInv, NEW p \in Procs, NEW l, At(p, l)
  PROVE  /\ Running(p) /\ pc[p] = l /\ SystemOK /\ GlobalsOK /\ loc[p] \in LocType /\ fd[p] \in Files
         /\ loc \in [Procs -> LocType] /\ pc \in [Procs -> Labels]
         /\ Good(p, proc[p], fd[p], l, loc[p]) /\ EndsOK(p, fd[p], l, loc[p])
         /\ loc[p].in \in Fds /\ loc[p].r \in Fds /\ loc[p].w \in Fds
  <1>1. /\ Running(p) /\ pc[p] = l /\ SystemOK /\ GlobalsOK /\ loc[p] \in LocType /\ fd[p] \in Files
        /\ loc \in [Procs -> LocType] /\ pc \in [Procs -> Labels] /\ Good(p, proc[p], fd[p], l, loc[p])
    BY DEF At, ProcessInv, SystemOK
  <1>2. loc[p].in \in Fds /\ loc[p].r \in Fds /\ loc[p].w \in Fds
    BY <1>1 DEF LocType
  <1> QED
    BY <1>1, <1>2 DEF Good

\* p goes to m with the locals v.
Moves(p, m, v) ==
    /\ Goto(p, m) /\ SystemOK' /\ proc' = proc /\ GlobalsOK' /\ failed' = failed
    /\ \A q \in Procs \ {p} : fd'[q] = fd[q] /\ loc'[q] = loc[q]
    /\ loc' \in [Procs -> LocType] /\ loc'[p] = v

\* What allows it to go from l to m.
Allowed(p, l, m, v) ==
    /\ m \in Labels \ {"off"} /\ EndsOK(p, fd'[p], m, v)
    /\ p = MAIN => /\ m \in {"pipe", "fork", "closer", "write", "closew", "wait", "exit"}
                   /\ m \in {"pipe", "fork", "closer", "write"} => v.n >= 2
    /\ p # MAIN /\ m = "write" => v.n \in Items
    /\ l \in WithChild <=> m \in WithChild
    /\ m \in Writing => l \in Writing /\ fd'[p][v.w] = fd[p][loc[p].w]

LEMMA MoveStep ==
  ASSUME Inv, NEW p \in Procs, NEW l, NEW m, NEW v, At(p, l), Moves(p, m, v), Allowed(p, l, m, v),
         \A q \in Procs : Link(q, p) => m \in Early /\ fd'[p][InAt(m, v)] = fd[p][InAt(l, loc[p])]
  PROVE  Inv'
  <1>1. ProcessInv
    BY DEF Inv
  <1>2. Running(p) /\ pc[p] = l /\ pc \in [Procs -> Labels] /\ Good(p, proc[p], fd[p], l, loc[p])
    BY <1>1, Doing
  <1>3. pc' \in [Procs -> Labels] /\ pc'[p] = m /\ \A q \in Procs \ {p} : pc'[q] = pc[q]
    BY <1>2 DEF Moves, Goto, Allowed
  <1>4. Local(p)
    BY <1>3 DEF Local, Moves
  <1>5. loc'[p] = v
    BY DEF Moves
  <1>6. Good(p, proc[p], fd'[p], pc'[p], loc'[p])
    BY <1>2, <1>3, <1>5 DEF Good, Allowed, Running
  <1>7. In(p) = InAt(l, loc[p]) /\ In(p)' = InAt(m, v)
    BY <1>2, <1>3, <1>5 DEF In
  <1>8. KeepsEnds(p)
    BY <1>2, <1>3, <1>5, <1>7 DEF KeepsEnds, Allowed
  <1> QED
    BY <1>2, <1>4, <1>6, <1>8, LocalStep

\* A process whose parent may write to it does not find the end of the numbers.
LEMMA NoEarlyEnd ==
  ASSUME ProcessInv, NEW p \in Procs, NEW q \in Procs, Link(q, p), NEW x \in Pipes, fd[p][In(p)] = End(x, "R")
  PROVE  Has(x, "W")
  <1>1. PICK y \in Pipes : fd[q][loc[q].w] = End(y, "W") /\ fd[p][In(p)] = End(y, "R")
    BY DEF Link
  <1>2. x = y
    <2>1. End(x, "R").of = x /\ End(y, "R").of = y
      BY DEF End
    <2> QED
      BY <1>1, <2>1
  <1>3. loc[q].w \in Fds
    BY DEF ProcessInv, LocType
  <1> QED
    BY <1>1, <1>2, <1>3 DEF Has

\* The same descriptors but one that is not used any more.
LEMMA CloseMove ==
  ASSUME Inv, NEW p \in Procs, NEW l, NEW m, NEW i \in Fds, NEW v, At(p, l), close(p, i), Goto(p, m),
         loc' \in [Procs -> LocType], loc'[p] = v, \A q \in Procs \ {p} : loc'[q] = loc[q], SameOutput, failed' = failed,
         \A f : fd[p] \in Files /\ f = [fd[p] EXCEPT ![i] = NULL] => EndsOK(p, f, m, v),
         /\ m \in Labels \ {"off"}
         /\ p = MAIN => /\ m \in {"pipe", "fork", "closer", "write", "closew", "wait", "exit"}
                        /\ m \in {"pipe", "fork", "closer", "write"} => v.n >= 2
         /\ m = "write" => p = MAIN
         /\ l \in WithChild <=> m \in WithChild
         /\ m \in Writing => l \in Writing /\ v.w = loc[p].w /\ i # v.w,
         \A q \in Procs : Link(q, p) => m \in Early /\ InAt(m, v) = InAt(l, loc[p]) /\ i # InAt(l, loc[p])
  PROVE  Inv'
  <1>1. ProcessInv
    BY DEF Inv
  <1>2. SystemOK /\ GlobalsOK /\ fd[p] \in Files /\ loc[p] \in LocType /\ loc[p].in \in Fds /\ loc[p].r \in Fds /\ loc[p].w \in Fds
    BY <1>1, Doing
  <1>3. /\ SystemOK' /\ proc' = proc
        /\ fd'[p] = [fd[p] EXCEPT ![i] = NULL] /\ \A q \in Procs \ {p} : fd'[q] = fd[q]
    BY <1>2, Closes
  <1>4. GlobalsOK'
    BY <1>2 DEF GlobalsOK, SameOutput
  <1>5. Moves(p, m, v)
    BY <1>3, <1>4 DEF Moves
  <1>6. EndsOK(p, fd'[p], m, v)
    BY <1>2, <1>3
  <1>7. \A k \in Fds : k # i => fd'[p][k] = fd[p][k]
    BY <1>2, <1>3 DEF Files
  <1>8. Allowed(p, l, m, v)
    BY <1>2, <1>6, <1>7 DEF Allowed
  <1>9. ASSUME NEW q \in Procs, Link(q, p) PROVE m \in Early /\ fd'[p][InAt(m, v)] = fd[p][InAt(l, loc[p])]
    <2>1. InAt(l, loc[p]) \in Fds
      BY <1>2 DEF InAt
    <2> QED
      BY <1>7, <1>9, <2>1
  <1> QED
    BY <1>5, <1>8, <1>9, MoveStep

LEMMA Printed ==
  ASSUME GlobalsOK, NEW p \in Procs, NEW n \in Items, printf(p, n), failed' = failed
  PROVE  GlobalsOK'
  <1>1. pending \in [Procs -> Seq(Items)] /\ output \in Seq(Items) /\ failed \in BOOLEAN
    BY DEF GlobalsOK
  <1>2. CASE TTY
    <2>1. output' = Append(output, n) /\ pending' = pending
      BY <1>2 DEF printf
    <2>2. output' \in Seq(Items)
      BY <1>1, <2>1
    <2> QED
      BY <1>1, <2>1, <2>2 DEF GlobalsOK
  <1>3. CASE ~TTY
    <2>1. output' = output /\ pending' = [pending EXCEPT ![p] = Append(@, n)]
      BY <1>3 DEF printf
    <2>2. Append(pending[p], n) \in Seq(Items)
      BY <1>1
    <2>3. pending' \in [Procs -> Seq(Items)]
      BY <1>1, <2>1, <2>2
    <2> QED
      BY <1>1, <2>1, <2>3 DEF GlobalsOK
  <1> QED
    BY <1>2, <1>3

LEMMA FilterStep ==
  ASSUME Inv, NEW p \in Procs, filter(p), UNCHANGED failed
  PROVE  Inv'
  <1> DEFINE i == loc[p].in
  <1>1. ProcessInv /\ At(p, "filter")
    BY DEF Inv, filter
  <1>2. /\ Running(p) /\ pc[p] = "filter" /\ SystemOK /\ GlobalsOK /\ loc[p] \in LocType /\ fd[p] \in Files
        /\ loc \in [Procs -> LocType] /\ i \in Fds
        /\ Good(p, proc[p], fd[p], "filter", loc[p])
    BY <1>1, Doing
  <1>3. p # MAIN /\ fd[p][i] # NULL
    BY <1>2 DEF Good, EndsOK, InLabels
  <1>4. PICK n \in 2..N \cup {NULL} :
          /\ read(p, i, n)
          /\ IF n = NULL THEN Step(p, "exit")
             ELSE printf(p, n) /\ loc' = [loc EXCEPT ![p].prime = n] /\ Goto(p, "pipe")
    BY DEF filter
  <1>5. /\ SystemOK' /\ proc' = proc /\ fd' = fd
        /\ n = NULL => \E x \in Pipes : fd[p][i] = End(x, "R") /\ ~Has(x, "W")
    BY <1>2, <1>3, <1>4, Reads
  <1>6. CASE n = NULL
    <2>1. Goto(p, "exit") /\ loc' = loc /\ GlobalsOK'
      BY <1>2, <1>4, <1>6 DEF Step, SameOutput, GlobalsOK
    <2>2. Moves(p, "exit", loc[p])
      BY <1>2, <1>5, <2>1 DEF Moves
    <2>3. Allowed(p, "filter", "exit", loc[p])
      BY <1>3 DEF Allowed, EndsOK, Labels, BothLabels, WriteLabels, InLabels, WithChild, Writing
    <2>4. \A q \in Procs : ~Link(q, p)
      <3>1. In(p) = i
        BY <1>2 DEF In, InAt
      <3> QED
        BY <1>1, <1>5, <1>6, <3>1, NoEarlyEnd
    <2> QED
      BY <1>1, <2>2, <2>3, <2>4, MoveStep
  <1>7. CASE n # NULL
    <2> DEFINE v == [loc[p] EXCEPT !.prime = n]
    <2>1. printf(p, n) /\ loc' = [loc EXCEPT ![p].prime = n] /\ Goto(p, "pipe") /\ n \in Items
      BY <1>4, <1>7 DEF Items
    <2>2. v \in LocType /\ v.in = i
      <3>1. n \in 0..N
        BY <2>1, Constants DEF Items
      <3> QED
        BY <1>2, <3>1 DEF LocType
    <2>3. GlobalsOK'
      BY <1>2, <2>1, Printed
    <2>4. loc' \in [Procs -> LocType] /\ loc'[p] = v /\ \A q \in Procs \ {p} : loc'[q] = loc[q]
      BY <1>2, <2>1, <2>2
    <2>5. Moves(p, "pipe", v)
      BY <1>5, <2>1, <2>3, <2>4 DEF Moves
    <2>6. Allowed(p, "filter", "pipe", v)
      BY <1>3, <1>5, <2>2 DEF Allowed, EndsOK, Labels, BothLabels, WriteLabels, InLabels, WithChild, Writing
    <2>7. "pipe" \in Early /\ fd'[p][InAt("pipe", v)] = fd[p][InAt("filter", loc[p])]
      BY <1>5, <2>2 DEF Early, InAt
    <2> HIDE DEF v
    <2> QED
      BY <1>1, <2>5, <2>6, <2>7, MoveStep
  <1> QED
    BY <1>6, <1>7

LEMMA Dies ==
  ASSUME ProcessInv, NEW p \in Procs, Exits(p, Error) \/ Exits(p, 0), failed' \in BOOLEAN, failed => failed'
  PROVE  Gone(p)
  <1>1. PICK code \in {0, Error} : Exits(p, code)
    OBVIOUS
  <1>2. code * 256 \in Nat
    BY DEF Error
  <1>3. /\ pending \in [Procs -> Seq(Items)] /\ output \in Seq(Items)
    BY DEF ProcessInv, GlobalsOK
  <1>4. output' = output \o pending[p] /\ pending' = [pending EXCEPT ![p] = <<>>]
    BY <1>1 DEF Exits
  <1>5. output' \in Seq(Items) /\ <<>> \in Seq(Items)
    BY <1>3, <1>4
  <1>6. pending' \in [Procs -> Seq(Items)]
    BY <1>3, <1>4, <1>5
  <1> QED
    BY <1>1, <1>2, <1>5, <1>6 DEF Exits, Gone, GlobalsOK

LEMMA FailStep ==
  ASSUME Inv, NEW p \in Procs, Running(p), Exits(p, Error), failed' = TRUE
  PROVE  Inv'
  <1>1. Gone(p)
    BY Dies DEF Inv
  <1> QED
    BY <1>1, EndStep

LEMMA PipeStep ==
  ASSUME Inv, NEW p \in Procs, make_pipe(p)
  PROVE  Inv'
  <1>1. ProcessInv /\ At(p, "pipe")
    BY DEF Inv, make_pipe
  <1>2. /\ Running(p) /\ pc[p] = "pipe" /\ SystemOK /\ GlobalsOK /\ loc[p] \in LocType /\ fd[p] \in Files
        /\ loc \in [Procs -> LocType] /\ loc[p].in \in Fds
        /\ Good(p, proc[p], fd[p], "pipe", loc[p])
    BY <1>1, Doing
  <1>3. CASE MayFail /\ Exits(p, Error) /\ failed' = TRUE
    BY <1>2, <1>3, FailStep
  <1>4. CASE /\ pipe(p) /\ Goto(p, "fork") /\ SameOutput
             /\ loc' = [loc EXCEPT ![p] = [@ EXCEPT !.r = ReadFd(p), !.w = WriteFd(p)]] /\ UNCHANGED failed
    <2> DEFINE v == [loc[p] EXCEPT !.r = ReadFd(p), !.w = WriteFd(p)]
    <2>1. /\ SystemOK' /\ proc' = proc
          /\ ReadFd(p) \in Fds /\ WriteFd(p) \in Fds /\ ReadFd(p) # WriteFd(p)
          /\ fd[p][ReadFd(p)] = NULL /\ fd[p][WriteFd(p)] = NULL
          /\ \A i \in Fds \ {ReadFd(p), WriteFd(p)} : fd'[p][i] = fd[p][i]
          /\ \E x \in Pipes : fd'[p][ReadFd(p)] = End(x, "R") /\ fd'[p][WriteFd(p)] = End(x, "W")
          /\ \A q \in Procs \ {p} : fd'[q] = fd[q]
      BY <1>2, <1>4, Opens
    <2>2. v \in LocType /\ v.in = loc[p].in /\ v.r = ReadFd(p) /\ v.w = WriteFd(p) /\ v.n = loc[p].n
      BY <1>2, <2>1 DEF LocType
    <2>3. GlobalsOK'
      BY <1>2, <1>4 DEF GlobalsOK, SameOutput
    <2>4. loc' \in [Procs -> LocType] /\ loc'[p] = v /\ \A q \in Procs \ {p} : loc'[q] = loc[q]
      BY <1>2, <1>4, <2>2
    <2> HIDE DEF v
    <2>5. Moves(p, "fork", v)
      BY <1>4, <2>1, <2>3, <2>4 DEF Moves
    <2>6. p # MAIN => loc[p].in \notin {ReadFd(p), WriteFd(p)} /\ fd'[p][loc[p].in] = fd[p][loc[p].in] /\ fd[p][loc[p].in] # NULL
      BY <1>2, <2>1 DEF Good, EndsOK, InLabels
    <2>7. EndsOK(p, fd'[p], "fork", v)
      BY <2>1, <2>2, <2>6 DEF EndsOK, BothLabels, WriteLabels, InLabels
    <2>8. Allowed(p, "pipe", "fork", v)
      BY <1>2, <2>2, <2>7 DEF Allowed, Good, Labels, WithChild, Writing
    <2>9. \A q \in Procs : Link(q, p) => "fork" \in Early /\ fd'[p][InAt("fork", v)] = fd[p][InAt("pipe", loc[p])]
      BY <2>2, <2>6 DEF Link, Early, InAt
    <2> QED
      BY <1>1, <2>5, <2>8, <2>9, MoveStep
  <1> QED
    BY <1>3, <1>4 DEF make_pipe

LEMMA MakeChildStep ==
  ASSUME Inv, NEW p \in Procs, make_child(p)
  PROVE  Inv'
  <1>1. At(p, "fork") /\ Running(p)
    BY DEF make_child, At
  <1>2. CASE MayFail /\ Exits(p, Error) /\ failed' = TRUE
    BY <1>1, <1>2, FailStep
  <1>3. ASSUME NEW c \in Procs, fork(p, c),
               pc' = [pc EXCEPT ![p] = "closer", ![c] = IF p = MAIN THEN "cclosew" ELSE "cclosein"],
               loc' = [loc EXCEPT ![c] = loc[p]],
               pending' = [pending EXCEPT ![c] = pending[p]], UNCHANGED <<output, failed>>
        PROVE  Inv'
    BY <1>1, <1>3, ForkStep
  <1> QED
    BY <1>2, <1>3 DEF make_child

\* The steps that close an end of a pipe.
LEMMA CloseSteps ==
  ASSUME Inv, NEW p \in Procs, UNCHANGED failed,
         \/ child_close_in(p) \/ child_close_write(p) \/ close_read(p) \/ close_in(p) \/ close_write(p)
  PROVE  Inv'
  <1>1. ProcessInv
    BY DEF Inv
  <1>2. CASE child_close_in(p)
    <2>1. At(p, "cclosein") /\ close(p, loc[p].in) /\ Goto(p, "cclosew") /\ loc' = loc /\ SameOutput
      BY <1>2 DEF child_close_in, Step
    <2>2. /\ loc \in [Procs -> LocType] /\ Good(p, proc[p], fd[p], "cclosein", loc[p])
          /\ EndsOK(p, fd[p], "cclosein", loc[p])
          /\ loc[p].in \in Fds /\ loc[p].r \in Fds /\ loc[p].w \in Fds
      BY <1>1, <2>1, Doing
    <2>3. p # MAIN /\ loc[p].in \notin {loc[p].r, loc[p].w}
      BY <2>2 DEF Good, EndsOK
    <2>4. ASSUME NEW f, fd[p] \in Files, f = [fd[p] EXCEPT ![loc[p].in] = NULL] PROVE EndsOK(p, f, "cclosew", loc[p])
      <3>1. f[loc[p].r] = fd[p][loc[p].r] /\ f[loc[p].w] = fd[p][loc[p].w]
        BY <2>2, <2>3, <2>4 DEF Files
      <3> QED
        BY <2>2, <3>1 DEF EndsOK, BothLabels, WriteLabels, InLabels
    <2>5. /\ "cclosew" \in Labels \ {"off"} /\ "cclosew" \in Early
          /\ "cclosein" \notin WithChild /\ "cclosew" \notin WithChild /\ "cclosew" \notin Writing
          /\ InAt("cclosew", loc[p]) = loc[p].r /\ InAt("cclosein", loc[p]) = loc[p].r
      BY DEF Labels, Early, WithChild, Writing, InAt
    <2> QED
      BY <2>1, <2>2, <2>3, <2>4, <2>5, CloseMove
  <1>3. CASE child_close_write(p)
    <2> DEFINE v == [NoLoc EXCEPT !.in = loc[p].r]
    <2>1. At(p, "cclosew") /\ close(p, loc[p].w) /\ Goto(p, "filter") /\ loc' = [loc EXCEPT ![p] = v] /\ SameOutput
      BY <1>3 DEF child_close_write
    <2>2. /\ loc \in [Procs -> LocType] /\ Good(p, proc[p], fd[p], "cclosew", loc[p])
          /\ EndsOK(p, fd[p], "cclosew", loc[p])
          /\ loc[p].in \in Fds /\ loc[p].r \in Fds /\ loc[p].w \in Fds
      BY <1>1, <2>1, Doing
    <2>3. v \in LocType /\ v.in = loc[p].r
      BY <2>2, Constants DEF NoLoc, LocType, STDIN
    <2>4. loc' \in [Procs -> LocType] /\ loc'[p] = v /\ \A q \in Procs \ {p} : loc'[q] = loc[q]
      BY <2>1, <2>2, <2>3
    <2> HIDE DEF v
    <2>5. p # MAIN /\ loc[p].r # loc[p].w /\ fd[p][loc[p].r] # NULL
      BY <2>2, EndIs DEF Good, EndsOK, BothLabels
    <2>6. ASSUME NEW f, fd[p] \in Files, f = [fd[p] EXCEPT ![loc[p].w] = NULL] PROVE EndsOK(p, f, "filter", v)
      <3>1. f[v.in] # NULL
        BY <2>2, <2>3, <2>5, <2>6 DEF Files
      <3> QED
        BY <3>1 DEF EndsOK, BothLabels, WriteLabels
    <2>7. /\ "filter" \in Labels \ {"off"} /\ "filter" \in Early
          /\ "filter" \notin WithChild /\ "cclosew" \notin WithChild /\ "filter" \notin Writing
          /\ InAt("filter", v) = loc[p].r /\ InAt("cclosew", loc[p]) = loc[p].r
      BY <2>3 DEF Labels, Early, WithChild, Writing, InAt
    <2> QED
      BY <2>1, <2>2, <2>4, <2>5, <2>6, <2>7, CloseMove
  <1>4. CASE close_read(p)
    <2> DEFINE m == IF p = MAIN THEN "write" ELSE "loop"
    <2>1. At(p, "closer") /\ close(p, loc[p].r) /\ Goto(p, m) /\ loc' = loc /\ SameOutput
      BY <1>4 DEF close_read, Step
    <2>2. /\ loc \in [Procs -> LocType] /\ Good(p, proc[p], fd[p], "closer", loc[p])
          /\ EndsOK(p, fd[p], "closer", loc[p])
          /\ loc[p].in \in Fds /\ loc[p].r \in Fds /\ loc[p].w \in Fds
      BY <1>1, <2>1, Doing
    <2>3. /\ loc[p].r # loc[p].w /\ (p # MAIN => loc[p].in \notin {loc[p].r, loc[p].w} /\ fd[p][loc[p].in] # NULL)
          /\ (p = MAIN => loc[p].n >= 2)
      BY <2>2 DEF Good, EndsOK, BothLabels, InLabels
    <2>4. ASSUME NEW f, fd[p] \in Files, f = [fd[p] EXCEPT ![loc[p].r] = NULL] PROVE EndsOK(p, f, m, loc[p])
      <3>1. f[loc[p].w] = fd[p][loc[p].w] /\ (p # MAIN => f[loc[p].in] = fd[p][loc[p].in])
        BY <2>2, <2>3, <2>4 DEF Files
      <3> QED
        BY <2>2, <2>3, <3>1 DEF EndsOK, BothLabels, WriteLabels, InLabels
    <2>5. /\ m \in Labels \ {"off"} /\ m \in Early /\ m \in WithChild /\ "closer" \in WithChild /\ m \in Writing /\ "closer" \in Writing
          /\ InAt(m, loc[p]) = loc[p].in /\ InAt("closer", loc[p]) = loc[p].in
      BY DEF Labels, Early, WithChild, Writing, InAt
    <2>6. \A q \in Procs : Link(q, p) => p # MAIN
      BY DEF Link
    <2>7. (m = "write" => p = MAIN) /\ (p = MAIN => m = "write")
      OBVIOUS
    <2> HIDE DEF m
    <2> QED
      BY <2>1, <2>2, <2>3, <2>4, <2>5, <2>6, <2>7, CloseMove
  <1>5. CASE close_in(p)
    <2>1. At(p, "closein") /\ close(p, loc[p].in) /\ Goto(p, "closew") /\ loc' = loc /\ SameOutput
      BY <1>5 DEF close_in, Step
    <2>2. /\ loc \in [Procs -> LocType] /\ Good(p, proc[p], fd[p], "closein", loc[p])
          /\ EndsOK(p, fd[p], "closein", loc[p]) /\ pc[p] = "closein"
          /\ loc[p].in \in Fds /\ loc[p].r \in Fds /\ loc[p].w \in Fds
      BY <1>1, <2>1, Doing
    <2>3. p # MAIN /\ loc[p].in # loc[p].w
      BY <2>2 DEF Good, EndsOK
    <2>4. ASSUME NEW f, fd[p] \in Files, f = [fd[p] EXCEPT ![loc[p].in] = NULL] PROVE EndsOK(p, f, "closew", loc[p])
      <3>1. f[loc[p].w] = fd[p][loc[p].w]
        BY <2>2, <2>3, <2>4 DEF Files
      <3> QED
        BY <2>2, <3>1 DEF EndsOK, BothLabels, WriteLabels, InLabels
    <2>5. /\ "closew" \in Labels \ {"off"} /\ {"closein", "closew"} \subseteq WithChild /\ {"closein", "closew"} \subseteq Writing
      BY DEF Labels, WithChild, Writing
    <2>6. \A q \in Procs : ~Link(q, p)
      BY <2>2 DEF Link, Early
    <2> QED
      BY <2>1, <2>2, <2>3, <2>4, <2>5, <2>6, CloseMove
  <1>6. CASE close_write(p)
    <2>1. At(p, "closew") /\ close(p, loc[p].w) /\ Goto(p, "wait") /\ loc' = loc /\ SameOutput
      BY <1>6 DEF close_write, Step
    <2>2. /\ loc \in [Procs -> LocType] /\ pc[p] = "closew"
          /\ loc[p].in \in Fds /\ loc[p].r \in Fds /\ loc[p].w \in Fds
      BY <1>1, <2>1, Doing
    <2>3. \A f : EndsOK(p, f, "wait", loc[p])
      BY DEF EndsOK, BothLabels, WriteLabels, InLabels
    <2>4. /\ "wait" \in Labels \ {"off"} /\ {"wait", "closew"} \subseteq WithChild /\ "wait" \notin Writing
      BY DEF Labels, WithChild, Writing
    <2>5. \A q \in Procs : ~Link(q, p)
      BY <2>2 DEF Link, Early
    <2> QED
      BY <2>1, <2>2, <2>3, <2>4, <2>5, CloseMove
  <1> QED
    BY <1>2, <1>3, <1>4, <1>5, <1>6

LEMMA LoopStep ==
  ASSUME Inv, NEW p \in Procs, loop(p), UNCHANGED failed
  PROVE  Inv'
  <1> DEFINE i == loc[p].in
  <1>1. ProcessInv /\ At(p, "loop")
    BY DEF Inv, loop
  <1>2. /\ Running(p) /\ pc[p] = "loop" /\ SystemOK /\ GlobalsOK /\ loc[p] \in LocType /\ fd[p] \in Files
        /\ loc \in [Procs -> LocType] /\ i \in Fds /\ pc \in [Procs -> Labels]
        /\ Good(p, proc[p], fd[p], "loop", loc[p]) /\ EndsOK(p, fd[p], "loop", loc[p])
    BY <1>1, Doing
  <1>3. p # MAIN /\ fd[p][i] # NULL
    BY <1>2 DEF Good, EndsOK, InLabels
  <1>4. PICK n \in 2..N \cup {NULL} :
          /\ read(p, i, n) /\ SameOutput
          /\ IF n = NULL THEN Goto(p, "closein") /\ UNCHANGED loc
             ELSE IF Passes(n, loc[p].prime) THEN Goto(p, "write") /\ loc' = [loc EXCEPT ![p].n = n]
             ELSE UNCHANGED <<pc, loc>>
    BY DEF loop
  <1>5. /\ SystemOK' /\ proc' = proc /\ fd' = fd
        /\ n = NULL => \E x \in Pipes : fd[p][i] = End(x, "R") /\ ~Has(x, "W")
    BY <1>2, <1>3, <1>4, Reads
  <1>6. GlobalsOK'
    BY <1>2, <1>4 DEF GlobalsOK, SameOutput
  <1>7. CASE n = NULL
    <2>1. Goto(p, "closein") /\ loc' = loc
      BY <1>4, <1>7
    <2>2. Moves(p, "closein", loc[p])
      BY <1>2, <1>5, <1>6, <2>1 DEF Moves
    <2>3. EndsOK(p, fd'[p], "closein", loc[p])
      BY <1>2, <1>5 DEF EndsOK, BothLabels, WriteLabels, InLabels
    <2>4. Allowed(p, "loop", "closein", loc[p])
      BY <1>3, <1>5, <2>3 DEF Allowed, Labels, WithChild, Writing
    <2>5. \A q \in Procs : ~Link(q, p)
      <3>1. In(p) = i
        BY <1>2 DEF In, InAt
      <3> QED
        BY <1>1, <1>5, <1>7, <3>1, NoEarlyEnd
    <2> QED
      BY <1>1, <2>2, <2>4, <2>5, MoveStep
  <1>8. CASE n # NULL /\ Goto(p, "write") /\ loc' = [loc EXCEPT ![p].n = n]
    <2> DEFINE v == [loc[p] EXCEPT !.n = n]
    <2>1. n \in Items
      BY <1>4, <1>8 DEF Items
    <2>2. v \in LocType /\ v.in = i /\ v.w = loc[p].w /\ v.r = loc[p].r /\ v.n = n
      <3>1. n \in 0..(N + 1)
        BY <2>1, Constants DEF Items
      <3> QED
        BY <1>2, <3>1 DEF LocType
    <2>3. loc' \in [Procs -> LocType] /\ loc'[p] = v /\ \A q \in Procs \ {p} : loc'[q] = loc[q]
      BY <1>2, <1>8, <2>2
    <2> HIDE DEF v
    <2>4. Moves(p, "write", v)
      BY <1>5, <1>6, <1>8, <2>3 DEF Moves
    <2>5. EndsOK(p, fd'[p], "write", v)
      BY <1>2, <1>5, <2>2 DEF EndsOK, BothLabels, WriteLabels, InLabels
    <2>6. Allowed(p, "loop", "write", v)
      BY <1>3, <1>5, <2>1, <2>2, <2>5 DEF Allowed, Labels, WithChild, Writing
    <2>7. "write" \in Early /\ fd'[p][InAt("write", v)] = fd[p][InAt("loop", loc[p])]
      BY <1>5, <2>2 DEF Early, InAt
    <2> QED
      BY <1>1, <2>4, <2>6, <2>7, MoveStep
  <1>9. CASE n # NULL /\ UNCHANGED <<pc, loc>>
    <2>1. Goto(p, "loop")
      BY <1>2, <1>9 DEF Goto
    <2>2. Moves(p, "loop", loc[p])
      BY <1>2, <1>5, <1>6, <1>9, <2>1 DEF Moves
    <2>3. Allowed(p, "loop", "loop", loc[p])
      BY <1>2, <1>3, <1>5 DEF Allowed, Labels
    <2>4. "loop" \in Early /\ fd'[p][InAt("loop", loc[p])] = fd[p][InAt("loop", loc[p])]
      BY <1>5 DEF Early
    <2> QED
      BY <1>1, <2>2, <2>3, <2>4, MoveStep
  <1> QED
    BY <1>4, <1>7, <1>8, <1>9

LEMMA WriteStep ==
  ASSUME Inv, NEW p \in Procs, write_number(p), UNCHANGED failed
  PROVE  Inv'
  <1>1. ProcessInv /\ At(p, "write")
    BY DEF Inv, write_number
  <1>2. /\ Running(p) /\ pc[p] = "write" /\ SystemOK /\ GlobalsOK /\ loc[p] \in LocType /\ fd[p] \in Files
        /\ loc \in [Procs -> LocType] /\ loc[p].in \in Fds /\ loc[p].w \in Fds
        /\ Good(p, proc[p], fd[p], "write", loc[p]) /\ EndsOK(p, fd[p], "write", loc[p])
    BY <1>1, Doing
  <1>3. PICK x \in Pipes : fd[p][loc[p].w] = End(x, "W")
    BY <1>2 DEF EndsOK, WriteLabels
  <1>4. loc[p].n \in 0..(N + 1) /\ (p = MAIN => loc[p].n >= 2) /\ (p # MAIN => loc[p].n \in Items)
    BY <1>2 DEF LocType, Good
  <1>5. CASE p = MAIN /\ ~InRange(loc[p].n) /\ UNCHANGED <<proc, fd, buf>> /\ Step(p, "closew")
    <2>1. SystemOK' /\ proc' = proc /\ fd' = fd
      BY <1>2, <1>5 DEF SystemOK
    <2>2. Goto(p, "closew") /\ loc' = loc /\ GlobalsOK'
      BY <1>2, <1>5 DEF Step, SameOutput, GlobalsOK
    <2>3. Moves(p, "closew", loc[p])
      BY <1>2, <2>1, <2>2 DEF Moves
    <2>4. EndsOK(p, fd'[p], "closew", loc[p])
      BY <1>2, <2>1 DEF EndsOK, BothLabels, WriteLabels, InLabels
    <2>5. Allowed(p, "write", "closew", loc[p])
      BY <1>5, <2>1, <2>4 DEF Allowed, Labels, WithChild, Writing
    <2>6. \A q \in Procs : ~Link(q, p)
      BY <1>5 DEF Link
    <2> QED
      BY <1>1, <2>3, <2>5, <2>6, MoveStep
  <1>6. CASE /\ p = MAIN /\ InRange(loc[p].n) /\ write(p, loc[p].w, loc[p].n)
             /\ loc' = [loc EXCEPT ![p].n = @ + 1] /\ UNCHANGED pc /\ SameOutput
    <2> DEFINE v == [loc[p] EXCEPT !.n = loc[p].n + 1]
    <2>1. loc[p].n \in Items /\ loc[p].n + 1 \in 0..(N + 1) /\ loc[p].n + 1 >= 2
      BY <1>4, <1>6, Constants DEF InRange, Items
    <2>2. v \in LocType /\ v.in = loc[p].in /\ v.w = loc[p].w /\ v.r = loc[p].r /\ v.n = loc[p].n + 1
      BY <1>2, <2>1 DEF LocType
    <2>3. loc' \in [Procs -> LocType] /\ loc'[p] = v /\ \A q \in Procs \ {p} : loc'[q] = loc[q]
      BY <1>2, <1>6, <2>2
    <2> HIDE DEF v
    <2>4. SystemOK' /\ proc' = proc /\ fd' = fd
      BY <1>2, <1>3, <1>6, <2>1, Writes
    <2>5. Goto(p, "write") /\ GlobalsOK'
      BY <1>1, <1>2, <1>6 DEF Goto, SameOutput, GlobalsOK, ProcessInv
    <2>6. Moves(p, "write", v)
      BY <2>3, <2>4, <2>5 DEF Moves
    <2>7. EndsOK(p, fd'[p], "write", v)
      BY <1>2, <1>6, <2>2, <2>4 DEF EndsOK, BothLabels, WriteLabels, InLabels
    <2>8. Allowed(p, "write", "write", v)
      BY <1>6, <2>1, <2>2, <2>4, <2>7 DEF Allowed, Labels, WithChild, Writing
    <2>9. \A q \in Procs : ~Link(q, p)
      BY <1>6 DEF Link
    <2> QED
      BY <1>1, <2>6, <2>8, <2>9, MoveStep
  <1>7. CASE p # MAIN /\ write(p, loc[p].w, loc[p].n) /\ Step(p, "loop")
    <2>1. SystemOK' /\ proc' = proc /\ fd' = fd
      BY <1>2, <1>3, <1>4, <1>7, Writes
    <2>2. Goto(p, "loop") /\ loc' = loc /\ GlobalsOK'
      BY <1>2, <1>7 DEF Step, SameOutput, GlobalsOK
    <2>3. Moves(p, "loop", loc[p])
      BY <1>2, <2>1, <2>2 DEF Moves
    <2>4. EndsOK(p, fd'[p], "loop", loc[p])
      BY <1>2, <2>1 DEF EndsOK, BothLabels, WriteLabels, InLabels
    <2>5. Allowed(p, "write", "loop", loc[p])
      BY <1>7, <2>1, <2>4 DEF Allowed, Labels, WithChild, Writing
    <2>6. "loop" \in Early /\ fd'[p][InAt("loop", loc[p])] = fd[p][InAt("write", loc[p])]
      BY <2>1 DEF Early, InAt
    <2> QED
      BY <1>1, <2>3, <2>5, <2>6, MoveStep
  <1>8. CASE /\ p = MAIN => InRange(loc[p].n)
             /\ Broken(p, loc[p].w) /\ exit(p, SIGPIPE) /\ Off(p)
             /\ pending' = [pending EXCEPT ![p] = <<>>] /\ UNCHANGED output
    <2>1. ~Has(x, "R")
      <3>1. fd[p][loc[p].w].of = x
        BY <1>3 DEF End
      <3> QED
        BY <1>8, <3>1 DEF Broken
    <2>2. failed
      <3> SUFFICES ASSUME ~failed PROVE FALSE
        OBVIOUS
      <3>1. PICK c \in Procs : Link(p, c)
        BY <1>2 DEF Inv, TreeInv, Writing
      <3>2. PICK y \in Pipes : fd[p][loc[p].w] = End(y, "W") /\ fd[c][In(c)] = End(y, "R")
        BY <3>1 DEF Link
      <3>3. y = x
        <4>1. End(x, "W").of = x /\ End(y, "W").of = y
          BY DEF End
        <4> QED
          BY <1>3, <3>2, <4>1
      <3>4. In(c) \in Fds
        <4>1. loc[c] \in LocType
          BY <1>2
        <4> QED
          BY <4>1 DEF In, InAt, LocType
      <3> QED
        BY <2>1, <3>2, <3>3, <3>4 DEF Has
    <2>3. Gone(p)
      <3>1. GlobalsOK'
        <4>1. pending \in [Procs -> Seq(Items)] /\ output \in Seq(Items) /\ failed \in BOOLEAN
          BY <1>2 DEF GlobalsOK
        <4>2. <<>> \in Seq(Items)
          OBVIOUS
        <4>3. pending' \in [Procs -> Seq(Items)]
          BY <1>8, <4>1, <4>2
        <4> QED
          BY <1>8, <4>1, <4>3 DEF GlobalsOK
      <3>2. SIGPIPE \in Nat
        BY DEF SIGPIPE
      <3> QED
        BY <1>8, <3>1, <3>2 DEF Gone
    <2> QED
      BY <1>2, <2>2, <2>3, EndStep
  <1> QED
    BY <1>5, <1>6, <1>7, <1>8 DEF write_number

LEMMA ReturnStep ==
  ASSUME Inv, NEW p \in Procs, return(p), UNCHANGED failed
  PROVE  Inv'
  <1>1. ProcessInv /\ At(p, "exit") /\ Exits(p, 0) /\ failed \in BOOLEAN
    BY DEF Inv, return, ProcessInv, GlobalsOK
  <1>2. Running(p) /\ pc[p] = "exit"
    BY <1>1 DEF At
  <1>3. Gone(p)
    BY <1>1, Dies
  <1>4. pc[p] \notin WithChild /\ \A q \in Procs : ~Link(q, p)
    BY <1>2 DEF WithChild, Link, Early
  <1> QED
    BY <1>2, <1>3, <1>4, EndStep

-----------------------------------------------------------------------------
(***************************************************************************)
(* The invariant.                                                          *)
(***************************************************************************)
LEMMA Start == Init => Inv
  <1> SUFFICES ASSUME Init PROVE Inv
    OBVIOUS
  <1>1. /\ proc = [p \in Procs |-> IF p = MAIN THEN [NoProc EXCEPT !.st = "run"] ELSE NoProc]
        /\ fd = [p \in Procs |-> [i \in Fds |-> IF p = MAIN /\ i \in {STDIN, STDOUT} THEN File ELSE NULL]]
        /\ buf = [x \in Pipes |-> <<>>]
        /\ pc = [p \in Procs |-> IF p = MAIN THEN "pipe" ELSE "off"]
        /\ loc = [p \in Procs |-> [NoLoc EXCEPT !.n = IF p = MAIN THEN 2 ELSE 0]]
        /\ pending = [p \in Procs |-> <<>>] /\ output = <<>> /\ failed = FALSE
    BY DEF Init, UnixInit
  <1>2. NoProc \in ProcType /\ NoProc.st = "free" /\ NoProc.parent = NULL
    BY DEF NoProc, ProcType
  <1>3. /\ [NoProc EXCEPT !.st = "run"] \in ProcType /\ [NoProc EXCEPT !.st = "run"].st = "run"
        /\ [NoProc EXCEPT !.st = "run"].parent = NULL
    BY <1>2 DEF ProcType
  <1>4. SystemOK
    <2>1. proc \in [Procs -> ProcType]
      BY <1>1, <1>2, <1>3
    <2>2. fd \in [Procs -> Files]
      BY <1>1, FileIs DEF Files
    <2>3. buf \in [Pipes -> Seq(Items)] /\ \A x \in Pipes : Len(buf[x]) <= PIPE_BUF
      BY <1>1, Constants
    <2> QED
      BY <2>1, <2>2, <2>3 DEF SystemOK
  <1>5. GlobalsOK
    <2>1. pending \in [Procs -> Seq(Items)] /\ output \in Seq(Items)
      BY <1>1
    <2>2. failed \in BOOLEAN
      BY <1>1
    <2> QED
      BY <2>1, <2>2 DEF GlobalsOK
  <1>6. /\ loc \in [Procs -> LocType] /\ loc[MAIN].n = 2
    <2>1. NoLoc \in LocType
      BY Constants DEF NoLoc, LocType, STDIN
    <2>2. 0 \in 0..(N + 1) /\ 2 \in 0..(N + 1)
      BY Constants
    <2>3. [NoLoc EXCEPT !.n = 0] \in LocType /\ [NoLoc EXCEPT !.n = 2] \in LocType /\ [NoLoc EXCEPT !.n = 2].n = 2
      BY <2>1, <2>2 DEF LocType
    <2> QED
      BY <1>1, <2>3, Constants
  <1>7. ASSUME NEW p \in Procs PROVE Good(p, proc[p], fd[p], pc[p], loc[p])
    <2>1. CASE p = MAIN
      <3>1. pc[p] = "pipe" /\ proc[p].st = "run" /\ proc[p].parent = NULL
        BY <1>1, <1>3, <2>1
      <3>2. EndsOK(p, fd[p], "pipe", loc[p])
        BY <2>1 DEF EndsOK, BothLabels, WriteLabels
      <3> QED
        BY <1>6, <2>1, <3>1, <3>2 DEF Good
    <2>2. CASE p # MAIN
      <3>1. pc[p] = "off" /\ proc[p].st = "free" /\ \A i \in Fds : fd[p][i] = NULL
        BY <1>1, <1>2, <2>2
      <3>2. EndsOK(p, fd[p], "off", loc[p])
        BY <3>1 DEF EndsOK, BothLabels, WriteLabels, InLabels
      <3> QED
        BY <2>2, <3>1, <3>2 DEF Good
    <2> QED
      BY <2>1, <2>2
  <1>8. pc \in [Procs -> Labels]
    BY <1>1 DEF Labels
  <1>9. TreeInv
    <2>1. \A p \in Procs : Children(p) = {}
      <3>1. \A c \in Procs : proc[c].parent = NULL
        BY <1>1, <1>2, <1>3
      <3> QED
        BY <3>1, Constants DEF Children
    <2>2. \A p \in Procs : pc[p] \in {"pipe", "off"}
      BY <1>1
    <2>3. \A p \in Procs : Few(Children(p), pc[p]) /\ pc[p] \notin Writing
      BY <2>1, <2>2 DEF Few, WithChild, Writing
    <2>4. \A p \in Procs \ {MAIN} : ~Running(p)
      BY <1>1, <1>2 DEF Running
    <2>5. [p \in Procs |-> 0] \in [Procs -> Nat] /\ Ranked([p \in Procs |-> 0])
      <3>1. \A p, q \in Procs : Running(p) => proc[p].parent # q
        BY <1>1, <1>2, <1>3, Constants DEF Running
      <3> QED
        BY <3>1 DEF Ranked
    <2> QED
      BY <2>3, <2>4, <2>5 DEF TreeInv
  <1> QED
    BY <1>4, <1>5, <1>6, <1>7, <1>8, <1>9 DEF Inv, ProcessInv

LEMMA Stutter ==
  ASSUME Inv, UNCHANGED pVars
  PROVE  Inv'
  <1>1. \A p : Children(p)' = Children(p)
    BY DEF pVars, Children
  <1>2. ProcessInv'
    BY DEF pVars, Inv, ProcessInv, SystemOK, GlobalsOK
  <1>3. TreeInv => TreeInv'
    BY <1>1 DEF pVars, TreeInv, Running, Link, In, Ranked
  <1> QED
    BY <1>2, <1>3 DEF Inv, pVars

LEMMA NextKeeps ==
  ASSUME Inv, [Next]_pVars
  PROVE  Inv'
  <1>1. ASSUME NEW p \in Procs, Process(p) PROVE Inv'
    <2>1. CASE make_pipe(p)
      BY <2>1, PipeStep
    <2>2. CASE make_child(p)
      BY <2>2, MakeChildStep
    <2>3. CASE filter(p) /\ UNCHANGED failed
      BY <2>3, FilterStep
    <2>4. CASE /\ UNCHANGED failed
               /\ \/ child_close_in(p) \/ child_close_write(p) \/ close_read(p) \/ close_in(p) \/ close_write(p)
      BY <2>4, CloseSteps
    <2>5. CASE loop(p) /\ UNCHANGED failed
      BY <2>5, LoopStep
    <2>6. CASE write_number(p) /\ UNCHANGED failed
      BY <2>6, WriteStep
    <2>7. CASE wait(p) /\ UNCHANGED failed
      BY <2>7, WaitStep
    <2>8. CASE return(p) /\ UNCHANGED failed
      BY <2>8, ReturnStep
    <2> QED
      BY <1>1, <2>1, <2>2, <2>3, <2>4, <2>5, <2>6, <2>7, <2>8 DEF Process
  <1>2. CASE UNCHANGED pVars
    BY <1>2, Stutter
  <1> QED
    BY <1>1, <1>2 DEF Next

LEMMA Invariant == Spec => []Inv
  <1>1. Init => Inv
    BY Start
  <1>2. Inv /\ [Next]_pVars => Inv'
    BY NextKeeps
  <1> QED
    BY <1>1, <1>2, PTL DEF Spec

-----------------------------------------------------------------------------
(***************************************************************************)
(* The theorems.                                                           *)
(***************************************************************************)
\* Every variable has its type: the numbers in the pipes, in the buffers of
\* stdout and in the output are from 2 to N, the argument (primes.c:67-74).
THEOREM WellTyped == Spec => []TypeOK
  <1>1. Inv => TypeOK
    <2> SUFFICES ASSUME Inv PROVE TypeOK
      OBVIOUS
    <2>1. ProcessInv /\ SystemOK /\ GlobalsOK
      BY DEF Inv, ProcessInv
    <2>2. UnixTypeOK
      BY <2>1 DEF UnixTypeOK, SystemOK, ProcType, Files, FdVals
    <2>3. \A p \in Procs : Running(p) <=> pc[p] # "off"
      BY <2>1 DEF ProcessInv, Good, Running
    <2>4. ASSUME NEW s \in Seq(Items) PROVE ToSet(s) \subseteq 2..N
      <3>1. \A i \in DOMAIN s : s[i] \in Items
        OBVIOUS
      <3> QED
        BY <3>1 DEF ToSet, Items
    <2>5. /\ ToSet(output) \subseteq 2..N
          /\ \A x \in Pipes : ToSet(buf[x]) \subseteq 2..N
          /\ \A p \in Procs : ToSet(pending[p]) \subseteq 2..N
      BY <2>1, <2>4 DEF GlobalsOK, SystemOK
    <2> QED
      BY <2>1, <2>2, <2>3, <2>5 DEF TypeOK, ProcessInv, GlobalsOK, LocType
  <1> QED
    BY <1>1, Invariant, PTL

\* Without main, nobody runs: of those that do, the highest would have a parent
\* that runs too.
LEMMA NobodyLeft ==
  ASSUME ProcessInv, TreeInv, pc[MAIN] = "off"
  PROVE  \A p \in Procs : ~Running(p)
  <1> SUFFICES ASSUME NEW p0 \in Procs, Running(p0) PROVE FALSE
    OBVIOUS
  <1>1. PICK rank \in [Procs -> Nat] : Ranked(rank)
    BY DEF TreeInv
  <1> DEFINE S == {q \in Procs : Running(q)}
             Ranks == {rank[p] : p \in S}
  <1>2. \E n \in Ranks : \A m \in Ranks : n <= m
    <2>1. Ranks \subseteq Nat /\ Ranks # {}
      BY <1>1
    <2>2. IsFiniteSet(S)
      BY Constants, FS_Subset
    <2>3. IsFiniteSet(Ranks)
      <3> DEFINE f == [p \in S |-> rank[p]]
      <3>1. f \in Surjection(S, Ranks)
        BY DEF Surjection
      <3> QED
        BY <2>2, <3>1, FS_Surjection
    <2> QED
      BY <2>1, <2>3, LeastExists
  <1>3. PICK p \in S : \A q \in S : rank[p] <= rank[q]
    BY <1>2
  <1>4. p # MAIN
    BY <1>3, Constants DEF ProcessInv, Good, Running
  <1>5. proc[p].parent \in S
    BY <1>3, <1>4 DEF TreeInv
  <1>6. rank[proc[p].parent] < rank[p] /\ rank[p] <= rank[proc[p].parent]
    BY <1>1, <1>3, <1>5 DEF Ranked
  <1>7. rank[p] \in Nat /\ rank[proc[p].parent] \in Nat
    BY <1>1, <1>3, <1>5
  <1> QED
    BY <1>6, <1>7

\* When main returns and nothing failed, every process has ended and no pipe is
\* open: each closes its ends of the pipes, waits for its child, and then ends
\* (primes.c:75-77, 112-113).
THEOREM MainEndsLast == Spec => []MainIsLast
  <1>1. Inv => MainIsLast
    <2> SUFFICES ASSUME Inv, pc[MAIN] = "off", ~failed PROVE Ended /\ Unused = Pipes
      BY DEF MainIsLast
    <2>1. ProcessInv /\ TreeInv
      BY DEF Inv
    <2>2. \A p \in Procs : pc[p] = "off"
      BY <2>1, NobodyLeft DEF ProcessInv, Good, Running
    <2>3. \A p \in Procs, i \in Fds : fd[p][i] \in {File, NULL}
      BY <2>1, <2>2 DEF ProcessInv, Good, EndsOK
    <2>4. ASSUME NEW x \in Pipes, NEW e \in {"R", "W"} PROVE ~Has(x, e)
      BY <2>3, EndIs DEF Has
    <2> QED
      BY <2>2, <2>4 DEF Ended, Unused
  <1> QED
    BY <1>1, Invariant, PTL

-----------------------------------------------------------------------------
(***************************************************************************)
(* The invariant of the numbers, on a terminal and while nothing failed.   *)
(***************************************************************************)
\* The processes that read a pipe, or will; what is on its way to one, with the
\* number that its parent holds; and the prime of its parent (main has 0).
Readers    == {c \in Procs \ {MAIN} : pc[c] \in Early}
Input(c)   == fd[c][In(c)].of
Parent(c)  == proc[c].parent
Carries(p) == p # MAIN /\ pc[p] = "write"
Stream(c)  == IF Carries(Parent(c)) THEN Append(buf[Input(c)], loc[Parent(c)].n) ELSE buf[Input(c)]
Streams    == [c \in Readers |-> Stream(c)]
Levels     == [c \in Readers |-> loc[Parent(c)].prime]
NextNumber == IF pc[MAIN] \in {"pipe", "fork", "closer", "write"} THEN loc[MAIN].n ELSE N + 1

\* The numbers F were printed, those below nx were sent, C read the streams S with
\* the primes to L behind them.  What is on its way is greater than what was
\* printed, in order, and no multiple of the primes behind it; nothing is lost.
Numbers(F, C, S, L, nx) ==
    /\ \A c \in C : /\ S[c] \in Seq(Items) /\ Ascending(S[c])
                    /\ \A n \in ToSet(S[c]) : n < nx /\ \A k \in F : k < n /\ (k <= L[c] => n % k # 0)
    /\ \A c, d \in C : L[c] < L[d] => \A n \in ToSet(S[c]), m \in ToSet(S[d]) : m < n
    /\ \A k \in F : k < nx
    /\ \A m \in 2..(nx - 1) : (\E k \in F : m % k = 0) \/ (\E c \in C : m \in ToSet(S[c]))

\* The primes behind the readers: of different filters, each next to that of the
\* filter before it.
LevelsOK(F, C, L, child) ==
    /\ \A c \in C : L[c] \in F \cup {0}
    /\ \A c, d \in C : L[c] = L[d] => c = d
    /\ \A c, d \in C : child[c] = d => L[d] < L[c] /\ \A k \in F : k < L[c] => k <= L[d]

\* Only the last process of the chain may print or make another.
Tips   == {"pipe", "fork", "cclosein", "cclosew", "filter"}
TipOK(t) ==
    /\ pc[t] \in {"pipe", "fork"} =>
          /\ \A k \in Found : k <= loc[t].prime
          /\ \A d \in Readers : Levels[d] < loc[t].prime
          /\ t # MAIN => /\ loc[t].prime \in Found
                         /\ \A k \in Found : k < loc[t].prime => k <= Levels[t]
    /\ pc[t] \in {"cclosein", "cclosew", "filter"} => \A k \in Found : k <= Levels[t]
OneTip == /\ \A s, t \in Procs : pc[s] \in Tips /\ pc[t] \in Tips => s = t
          /\ failed => \A p \in Procs : pc[p] \notin Tips

\* A pipe has one reader, and a new one none.
PipesOK ==
    /\ \A c \in Readers : \E x \in Pipes : fd[c][In(c)] = End(x, "R")
    /\ \A c, d \in Readers : fd[c][In(c)] = fd[d][In(d)] => c = d
    /\ \A p \in Procs : pc[p] = "fork" =>
          /\ \A d \in Readers : fd[d][In(d)] # fd[p][loc[p].r]
          /\ \A x \in Pipes : fd[p][loc[p].r] = End(x, "R") => buf[x] = <<>>

ChainInv ==
    /\ loc[MAIN].prime = 0 /\ PipesOK /\ \A t \in Procs : TipOK(t)
    /\ LevelsOK(Found, Readers, Levels, [c \in Readers |-> Parent(c)])
    /\ Numbers(Found, Readers, Streams, Levels, NextNumber)

OutputInv ==
    /\ \A p \in Procs : pending[p] = <<>>
    /\ Ascending(output) /\ \A k \in Found : \A m \in 2..k : m \in Found <=> IsPrime(m)

SieveInv == Inv /\ OneTip /\ OutputInv /\ (~failed => ChainInv)

-----------------------------------------------------------------------------
(***************************************************************************)
(* Streams and multiples.                                                  *)
(***************************************************************************)
LEMMA ToSetIs ==
  ASSUME NEW s \in Seq(Items), NEW n
  PROVE  n \in ToSet(s) <=> \E i \in 1..Len(s) : n = s[i]
  BY DEF ToSet

LEMMA AppendIs ==
  ASSUME NEW s \in Seq(Items), NEW n \in Items
  PROVE  /\ Append(s, n) \in Seq(Items) /\ ToSet(Append(s, n)) = ToSet(s) \cup {n}
         /\ Ascending(s) /\ (\A m \in ToSet(s) : m < n) => Ascending(Append(s, n))
  <1> DEFINE t == Append(s, n)
  <1>1. /\ t \in Seq(Items) /\ Len(t) = Len(s) + 1 /\ t[Len(s) + 1] = n /\ \A i \in 1..Len(s) : t[i] = s[i]
        /\ Len(s) \in Nat
    OBVIOUS
  <1> HIDE DEF t
  <1>2. ASSUME NEW m PROVE m \in ToSet(t) <=> m \in ToSet(s) \cup {n}
    <2>1. m \in ToSet(t) <=> \E i \in 1..Len(t) : m = t[i]
      BY <1>1, ToSetIs
    <2>2. m \in ToSet(s) <=> \E i \in 1..Len(s) : m = s[i]
      BY ToSetIs
    <2> QED
      BY <1>1, <2>1, <2>2
  <1>3. ASSUME Ascending(s), \A m \in ToSet(s) : m < n PROVE Ascending(t)
    <2> SUFFICES ASSUME NEW i \in 1..Len(t), NEW j \in 1..Len(t), i < j PROVE t[i] < t[j]
      BY <1>1 DEF Ascending
    <2>1. i \in 1..Len(s) /\ t[i] = s[i] /\ s[i] \in ToSet(s)
      BY <1>1, ToSetIs
    <2>2. CASE j \in 1..Len(s)
      BY <1>1, <1>3, <2>1, <2>2 DEF Ascending
    <2>3. CASE j = Len(s) + 1
      BY <1>1, <1>3, <2>1, <2>3
    <2> QED
      BY <1>1, <2>2, <2>3
  <1> QED
    BY <1>1, <1>2, <1>3 DEF t

LEMMA HeadIs ==
  ASSUME NEW s \in Seq(Items), s # <<>>
  PROVE  /\ Head(s) \in Items /\ Tail(s) \in Seq(Items) /\ ToSet(s) = ToSet(Tail(s)) \cup {Head(s)}
         /\ Ascending(s) => Ascending(Tail(s)) /\ \A m \in ToSet(Tail(s)) : Head(s) < m
  <1> DEFINE t == Tail(s)
  <1>1. /\ t \in Seq(Items) /\ Len(t) = Len(s) - 1 /\ Head(s) = s[1] /\ \A i \in 1..Len(t) : t[i] = s[i + 1]
        /\ Len(s) \in Nat /\ Len(s) >= 1 /\ Head(s) \in Items
    OBVIOUS
  <1> HIDE DEF t
  <1>2. ASSUME NEW m PROVE m \in ToSet(s) <=> m \in ToSet(t) \cup {Head(s)}
    <2>1. m \in ToSet(t) <=> \E i \in 1..Len(t) : m = t[i]
      BY <1>1, ToSetIs
    <2>2. m \in ToSet(s) <=> \E i \in 1..Len(s) : m = s[i]
      BY ToSetIs
    <2>3. ASSUME NEW i \in 1..Len(s), m = s[i] PROVE m \in ToSet(t) \cup {Head(s)}
      <3>1. i = 1 \/ (i - 1 \in 1..Len(t) /\ s[i] = t[i - 1])
        BY <1>1
      <3> QED
        BY <1>1, <2>1, <2>3, <3>1
    <2>4. ASSUME NEW i \in 1..Len(t), m = t[i] PROVE m \in ToSet(s)
      <3>1. i + 1 \in 1..Len(s) /\ m = s[i + 1]
        BY <1>1, <2>4
      <3> QED
        BY <2>2, <3>1
    <2>5. s[1] \in ToSet(s)
      BY <1>1, ToSetIs
    <2> QED
      BY <1>1, <2>1, <2>2, <2>3, <2>4, <2>5
  <1>3. ASSUME Ascending(s) PROVE Ascending(t) /\ \A m \in ToSet(t) : Head(s) < m
    <2>1. ASSUME NEW i \in 1..Len(t), NEW j \in 1..Len(t), i < j PROVE t[i] < t[j]
      <3>1. i + 1 \in 1..Len(s) /\ j + 1 \in 1..Len(s) /\ i + 1 < j + 1
        BY <1>1, <2>1
      <3> QED
        BY <1>1, <1>3, <3>1 DEF Ascending
    <2>2. Ascending(t)
      BY <1>1, <2>1 DEF Ascending
    <2>3. ASSUME NEW i \in 1..Len(t) PROVE Head(s) < t[i]
      <3>1. i + 1 \in 1..Len(s) /\ 1 \in 1..Len(s) /\ 1 < i + 1
        BY <1>1
      <3> QED
        BY <1>1, <1>3, <3>1 DEF Ascending
    <2> QED
      BY <1>1, <2>2, <2>3, ToSetIs
  <1> QED
    BY <1>1, <1>2, <1>3 DEF t

LEMMA InSeq == \A s \in Seq(Items) : ToSet(s) \subseteq Items
  <1> SUFFICES ASSUME NEW s \in Seq(Items), NEW n \in ToSet(s) PROVE n \in Items
    OBVIOUS
  <1>1. PICK i \in 1..Len(s) : n = s[i]
    BY ToSetIs
  <1> QED
    BY <1>1

LEMMA Quotient ==
  ASSUME NEW n \in Nat, NEW m \in Nat, m > 0, n % m = 0
  PROVE  \E q \in Nat : n = m * q
  <1>1. n = m * (n \div m) + (n % m) /\ n \div m \in Nat
    OBVIOUS
  <1> QED
    BY <1>1

LEMMA Divides ==
  ASSUME NEW n \in Nat, NEW m \in Nat, NEW k \in Nat, m > 0, k > 0, n % m = 0, m % k = 0
  PROVE  n % k = 0
  <1>2. PICK q \in Nat : n = m * q
    BY Quotient
  <1>3. PICK r \in Nat : m = k * r
    BY Quotient
  <1>4. n = k * (r * q) /\ r * q \in Nat
    BY <1>2, <1>3
  <1>5. \A j \in Nat : (k * j) % k = 0
    OBVIOUS
  <1> QED
    BY <1>4, <1>5

-----------------------------------------------------------------------------
(***************************************************************************)
(* What the steps do to the numbers: some readers come or go without any   *)
(* on their way, main sends one, a filter drops, passes on or prints one.  *)
(***************************************************************************)
LEMMA EmptyIs == <<>> \in Seq(Items) /\ ToSet(<<>>) = {} /\ Ascending(<<>>)
  BY DEF ToSet, Ascending

LEMMA SameNumbers ==
  ASSUME NEW F, NEW C, NEW S, NEW L, NEW nx, Numbers(F, C, S, L, nx), NEW D, NEW T, NEW M,
         \A c \in D : (c \in C /\ T[c] = S[c] /\ M[c] = L[c]) \/ T[c] = <<>>,
         \A c \in C : (c \in D /\ T[c] = S[c]) \/ S[c] = <<>>
  PROVE  Numbers(F, D, T, M, nx)
  <1>1. ASSUME NEW c \in D
        PROVE  /\ T[c] \in Seq(Items) /\ Ascending(T[c])
               /\ \A n \in ToSet(T[c]) : n < nx /\ \A k \in F : k < n /\ (k <= M[c] => n % k # 0)
    <2>1. CASE T[c] = <<>>
      BY <2>1, EmptyIs
    <2>2. CASE c \in C /\ T[c] = S[c] /\ M[c] = L[c]
      BY <2>2 DEF Numbers
    <2> QED
      BY <2>1, <2>2
  <1>2. ASSUME NEW c \in D, NEW d \in D, M[c] < M[d], NEW n \in ToSet(T[c]), NEW m \in ToSet(T[d]) PROVE m < n
    <2>1. T[c] # <<>> /\ T[d] # <<>>
      BY <1>2, EmptyIs
    <2> QED
      BY <1>2, <2>1 DEF Numbers
  <1>3. ASSUME NEW m \in 2..(nx - 1), NEW c \in C, m \in ToSet(S[c]) PROVE \E d \in D : m \in ToSet(T[d])
    BY <1>3, EmptyIs
  <1> QED
    BY <1>1, <1>2, <1>3 DEF Numbers

LEMMA Sends ==
  ASSUME NEW F, F \subseteq Items, NEW C, NEW S, NEW L \in [C -> Nat], NEW nx \in Items, Numbers(F, C, S, L, nx),
         NEW c \in C, L[c] = 0, \A d \in C : L[d] = L[c] => d = c,
         NEW T, T[c] = Append(S[c], nx), \A d \in C \ {c} : T[d] = S[d]
  PROVE  Numbers(F, C, T, L, nx + 1)
  <1>0. S[c] \in Seq(Items) /\ Items \subseteq Nat /\ nx \in Nat /\ \A k \in F : k \in Nat /\ k >= 1 /\ k < nx
    BY Constants DEF Numbers, Items
  <1>1. /\ T[c] \in Seq(Items) /\ ToSet(T[c]) = ToSet(S[c]) \cup {nx}
        /\ \A m \in ToSet(S[c]) : m < nx
        /\ Ascending(T[c])
    BY <1>0, AppendIs DEF Numbers
  <1>2. \A d \in C : S[d] \in Seq(Items) /\ ToSet(S[d]) \subseteq Nat
    BY <1>0, InSeq DEF Numbers
  <1>3. ASSUME NEW d \in C
        PROVE  /\ T[d] \in Seq(Items) /\ Ascending(T[d])
               /\ \A n \in ToSet(T[d]) : n < nx + 1 /\ \A k \in F : k < n /\ (k <= L[d] => n % k # 0)
    <2>1. CASE d = c
      <3> SUFFICES ASSUME NEW n \in ToSet(T[c])
                   PROVE  n < nx + 1 /\ \A k \in F : k < n /\ (k <= L[c] => n % k # 0)
        BY <1>1, <2>1
      <3>1. CASE n = nx
        <4>1. \A k \in F : k < nx /\ ~(k <= L[c])
          BY <1>0
        <4>2. nx < nx + 1
          BY <1>0
        <4> QED
          BY <3>1, <4>1, <4>2
      <3>2. CASE n \in ToSet(S[c])
        <4>1. n < nx /\ n \in Nat /\ \A k \in F : k < n /\ (k <= L[c] => n % k # 0)
          BY <1>2, <3>2 DEF Numbers
        <4> QED
          BY <1>0, <4>1
      <3> QED
        BY <1>1, <3>1, <3>2
    <2>2. CASE d # c
      <3>1. /\ T[d] = S[d] /\ S[d] \in Seq(Items) /\ Ascending(S[d])
            /\ \A n \in ToSet(S[d]) : n < nx /\ n \in Nat /\ \A k \in F : k < n /\ (k <= L[d] => n % k # 0)
        BY <1>2, <2>2 DEF Numbers
      <3>2. \A n \in Nat : n < nx => n < nx + 1
        BY <1>0
      <3> QED
        BY <3>1, <3>2
    <2> QED
      BY <2>1, <2>2
  <1>4. ASSUME NEW a \in C, NEW b \in C, L[a] < L[b], NEW n \in ToSet(T[a]), NEW m \in ToSet(T[b]) PROVE m < n
    <2>1. b # c /\ m \in ToSet(S[b]) /\ m < nx
      <3>1. b # c
        BY <1>4
      <3> QED
        BY <3>1 DEF Numbers
    <2>2. CASE n \in ToSet(S[a])
      BY <1>4, <2>1, <2>2 DEF Numbers
    <2>3. CASE n \notin ToSet(S[a])
      <3>1. n = nx
        BY <1>1, <2>3
      <3> QED
        BY <2>1, <3>1
    <2> QED
      BY <2>2, <2>3
  <1>5. ASSUME NEW m \in 2..nx PROVE (\E k \in F : m % k = 0) \/ (\E d \in C : m \in ToSet(T[d]))
    <2>1. CASE m = nx
      BY <1>1, <2>1
    <2>2. CASE m # nx
      <3>1. m \in 2..(nx - 1)
        BY <1>0, <2>2
      <3>2. (\E k \in F : m % k = 0) \/ (\E d \in C : m \in ToSet(S[d]))
        BY <3>1 DEF Numbers
      <3>3. ASSUME NEW d \in C, m \in ToSet(S[d]) PROVE m \in ToSet(T[d])
        BY <1>1, <3>3
      <3> QED
        BY <3>2, <3>3
    <2> QED
      BY <2>1, <2>2
  <1>6. 2..nx = 2..((nx + 1) - 1) /\ \A k \in F : k < nx + 1
    BY <1>0
  <1> QED
    BY <1>3, <1>4, <1>5, <1>6 DEF Numbers

LEMMA Drops ==
  ASSUME NEW F, NEW C, NEW S, NEW L, NEW nx, Numbers(F, C, S, L, nx),
         NEW p \in C, S[p] # <<>>, NEW q \in F, Head(S[p]) % q = 0,
         NEW T, T[p] = Tail(S[p]), \A d \in C \ {p} : T[d] = S[d]
  PROVE  Numbers(F, C, T, L, nx)
  <1>1. S[p] \in Seq(Items) /\ Ascending(S[p])
    BY DEF Numbers
  <1>2. T[p] \in Seq(Items) /\ ToSet(S[p]) = ToSet(T[p]) \cup {Head(S[p])} /\ Ascending(T[p])
    BY <1>1, HeadIs
  <1>3. \A d \in C : T[d] \in Seq(Items) /\ Ascending(T[d]) /\ ToSet(T[d]) \subseteq ToSet(S[d])
    BY <1>2 DEF Numbers
  <1>4. ASSUME NEW m \in 2..(nx - 1) PROVE (\E k \in F : m % k = 0) \/ (\E d \in C : m \in ToSet(T[d]))
    <2>1. ASSUME NEW d \in C, m \in ToSet(S[d]) PROVE m \in ToSet(T[d]) \/ m % q = 0
      BY <1>2, <2>1
    <2> QED
      BY <2>1 DEF Numbers
  <1>5. \A d \in C : \A n \in ToSet(T[d]) : n < nx /\ \A k \in F : k < n /\ (k <= L[d] => n % k # 0)
    BY <1>3 DEF Numbers
  <1>6. \A c, d \in C : L[c] < L[d] => \A n \in ToSet(T[c]), m \in ToSet(T[d]) : m < n
    BY <1>3 DEF Numbers
  <1> QED
    BY <1>3, <1>4, <1>5, <1>6 DEF Numbers

LEMMA Passed ==
  ASSUME NEW F, F \subseteq Items, NEW C, NEW S, NEW L \in [C -> Nat], NEW nx \in Nat, Numbers(F, C, S, L, nx),
         \A a, b \in C : L[a] = L[b] => a = b, \A a \in C : L[a] \in F \cup {0},
         NEW p \in C, NEW c \in C, S[p] # <<>>, L[p] < L[c], \A k \in F : k < L[c] => k <= L[p],
         Head(S[p]) % L[c] # 0,
         NEW T, T[p] = Tail(S[p]), T[c] = Append(S[c], Head(S[p])), \A d \in C \ {p, c} : T[d] = S[d]
  PROVE  Numbers(F, C, T, L, nx)
  <1> DEFINE n == Head(S[p])
  <1>0. /\ \A d \in C : S[d] \in Seq(Items) /\ Ascending(S[d]) /\ ToSet(S[d]) \subseteq Items
        /\ \A d \in C : L[d] \in Nat
        /\ Items \subseteq Nat /\ F \subseteq Nat
    BY Constants, InSeq DEF Numbers
  <1>1. /\ p # c /\ n \in Items /\ n \in Nat /\ n \in ToSet(S[p]) /\ n < nx
        /\ T[p] \in Seq(Items) /\ ToSet(S[p]) = ToSet(T[p]) \cup {n} /\ Ascending(T[p])
        /\ \A m \in ToSet(T[p]) : n < m
    <2>1. p # c
      BY <1>0
    <2>2. /\ n \in Items /\ T[p] \in Seq(Items) /\ ToSet(S[p]) = ToSet(T[p]) \cup {n} /\ Ascending(T[p])
          /\ \A m \in ToSet(T[p]) : n < m
      BY <1>0, HeadIs
    <2>3. n < nx
      BY <2>2 DEF Numbers
    <2> QED
      BY <1>0, <2>1, <2>2, <2>3
  <1>2. \A k \in F : k < n /\ (k <= L[c] => n % k # 0)
    <2> SUFFICES ASSUME NEW k \in F PROVE k < n /\ (k <= L[c] => n % k # 0)
      OBVIOUS
    <2>1. k < n /\ (k <= L[p] => n % k # 0)
      BY <1>1 DEF Numbers
    <2>2. CASE k < L[c]
      BY <2>1, <2>2
    <2>3. CASE k = L[c]
      BY <2>1, <2>3
    <2>4. CASE k > L[c]
      BY <1>0, <2>1, <2>4
    <2> QED
      BY <1>0, <2>2, <2>3, <2>4
  <1>3. \A m \in ToSet(S[c]) : m < n
    BY <1>1 DEF Numbers
  <1>4. T[c] \in Seq(Items) /\ ToSet(T[c]) = ToSet(S[c]) \cup {n} /\ Ascending(T[c])
    BY <1>0, <1>1, <1>3, AppendIs
  <1> HIDE DEF n
  <1>5. ASSUME NEW d \in C
        PROVE  /\ T[d] \in Seq(Items) /\ Ascending(T[d])
               /\ \A m \in ToSet(T[d]) : m < nx /\ \A k \in F : k < m /\ (k <= L[d] => m % k # 0)
    <2>1. CASE d = c
      <3> SUFFICES ASSUME NEW m \in ToSet(T[c]) PROVE m < nx /\ \A k \in F : k < m /\ (k <= L[c] => m % k # 0)
        BY <1>4, <2>1
      <3>1. CASE m = n
        BY <1>1, <1>2, <3>1
      <3>2. CASE m \in ToSet(S[c])
        BY <3>2 DEF Numbers
      <3> QED
        BY <1>4, <3>1, <3>2
    <2>2. CASE d # c
      <3>1. T[d] \in Seq(Items) /\ Ascending(T[d]) /\ ToSet(T[d]) \subseteq ToSet(S[d])
        BY <1>0, <1>1, <2>2
      <3> QED
        BY ZenonT(30), <3>1 DEF Numbers
    <2> QED
      BY <2>1, <2>2
  <1>6. ASSUME NEW a \in C, NEW b \in C, L[a] < L[b], NEW i \in ToSet(T[a]), NEW j \in ToSet(T[b]) PROVE j < i
    <2>1. a # b
      BY <1>0, <1>6
    <2>2. CASE a = c
      <3>1. L[p] < L[b] /\ b # p /\ j \in ToSet(S[b])
        BY <1>0, <1>6, <2>1, <2>2
      <3>2. j < n
        BY <1>1, <3>1 DEF Numbers
      <3>3. CASE i = n
        BY <3>2, <3>3
      <3>4. CASE i # n
        BY <1>4, <1>6, <2>2, <3>1, <3>4 DEF Numbers
      <3> QED
        BY <3>3, <3>4
    <2>3. CASE b = c
      <3>1. a # c /\ i \in ToSet(S[a])
        BY <1>1, <2>1, <2>3
      <3>2. CASE j # n
        BY <1>4, <1>6, <2>3, <3>1, <3>2 DEF Numbers
      <3>3. CASE j = n /\ a = p
        BY <1>1, <3>3
      <3>4. CASE j = n /\ a # p
        <4>1. L[a] \in Nat /\ L[p] \in Nat /\ L[a] # L[p] /\ (L[a] = 0 \/ L[a] \in F)
          BY <1>0, <3>4
        <4>2. L[a] < L[p]
          BY <1>6, <2>3, <4>1
        <4> QED
          BY <1>1, <3>1, <3>4, <4>2 DEF Numbers
      <3> QED
        BY <3>2, <3>3, <3>4
    <2>4. CASE a # c /\ b # c
      <3>1. i \in ToSet(S[a]) /\ j \in ToSet(S[b])
        BY <1>1, <2>4
      <3> QED
        BY <1>6, <3>1 DEF Numbers
    <2> QED
      BY <2>2, <2>3, <2>4
  <1>7. ASSUME NEW m \in 2..(nx - 1) PROVE (\E k \in F : m % k = 0) \/ (\E d \in C : m \in ToSet(T[d]))
    <2>1. ASSUME NEW d \in C, m \in ToSet(S[d]) PROVE \E e \in C : m \in ToSet(T[e])
      <3>1. CASE d = p
        BY <1>1, <1>4, <2>1, <3>1
      <3>2. CASE d # p
        BY <1>4, <2>1, <3>2
      <3> QED
        BY <3>1, <3>2
    <2> QED
      BY <2>1 DEF Numbers
  <1> QED
    BY <1>5, <1>6, <1>7 DEF Numbers

\* The reader t, the last, takes n from its stream and prints it.
Printing(F, C, S, L, nx, t, n, T) ==
    /\ F \subseteq Items /\ L \in [C -> Nat] /\ nx \in Nat /\ Numbers(F, C, S, L, nx)
    /\ \A a \in C : L[a] \in F \cup {0}
    /\ t \in C /\ S[t] # <<>> /\ n = Head(S[t]) /\ (\A k \in F : k <= L[t]) /\ \A d \in C \ {t} : L[d] < L[t]
    /\ T[t] = Tail(S[t]) /\ \A d \in C \ {t} : T[d] = S[d]
    /\ \A k \in F : \A m \in 2..k : m \in F <=> IsPrime(m)

LEMMA Prints ==
  ASSUME NEW F, NEW C, NEW S, NEW L, NEW nx, NEW t, NEW n, NEW T, Printing(F, C, S, L, nx, t, n, T)
  PROVE  /\ n \in Items /\ \A k \in F : k < n
         /\ Numbers(F \cup {n}, C, T, L, nx)
         /\ \A k \in F \cup {n} : \A m \in 2..k : m \in F \cup {n} <=> IsPrime(m)
  <1> USE DEF Printing
  <1> DEFINE G == F \cup {n}
  <1>0. /\ \A d \in C : S[d] \in Seq(Items) /\ Ascending(S[d]) /\ ToSet(S[d]) \subseteq Items
        /\ \A d \in C : L[d] \in Nat
        /\ Items \subseteq Nat /\ F \subseteq Nat /\ \A k \in Items : k >= 2
    BY Constants, InSeq DEF Numbers, Items
  <1>1. /\ n \in Items /\ T[t] \in Seq(Items) /\ ToSet(S[t]) = ToSet(T[t]) \cup {n} /\ Ascending(T[t])
        /\ \A m \in ToSet(T[t]) : n < m
    BY <1>0, HeadIs
  <1>2. n < nx /\ \A k \in F : k < n /\ n % k # 0
    BY <1>1 DEF Numbers
  <1>3. ASSUME NEW d \in C
        PROVE  /\ T[d] \in Seq(Items) /\ Ascending(T[d]) /\ ToSet(T[d]) \subseteq ToSet(S[d])
               /\ \A m \in ToSet(T[d]) : n < m
    <2>1. CASE d = t
      BY <1>1, <2>1
    <2>2. CASE d # t
      BY <1>0, <1>1, <2>2 DEF Numbers
    <2> QED
      BY <2>1, <2>2
  <1>4. n \in Nat /\ \A d \in C : L[d] < n
    BY <1>0, <1>1, <1>2, Constants DEF Items
  <1>5. Numbers(G, C, T, L, nx)
    <2>1. \A d \in C : \A m \in ToSet(T[d]) : m < nx /\ \A k \in G : k < m /\ (k <= L[d] => m % k # 0)
      <3> SUFFICES ASSUME NEW d \in C, NEW m \in ToSet(T[d]), NEW k \in G PROVE m < nx /\ k < m /\ (k <= L[d] => m % k # 0)
        BY ZenonT(90), <1>3 DEF Numbers
      <3>1. CASE k = n
        <4>1. n < m /\ ~(n <= L[d])
          BY <1>0, <1>3, <1>4
        <4>2. m < nx
          BY <1>3 DEF Numbers
        <4> QED
          BY <3>1, <4>1, <4>2
      <3>2. CASE k \in F
        BY <1>3, <3>2 DEF Numbers
      <3> QED
        BY <3>1, <3>2
    <2>2. \A c, d \in C : L[c] < L[d] => \A i \in ToSet(T[c]), m \in ToSet(T[d]) : m < i
      BY <1>3 DEF Numbers
    <2>3. \A k \in G : k < nx
      BY <1>2 DEF Numbers
    <2>4. ASSUME NEW m \in 2..(nx - 1) PROVE (\E k \in G : m % k = 0) \/ (\E d \in C : m \in ToSet(T[d]))
      <3>1. CASE m = n
        <4>1. n % n = 0
          BY <1>0, <1>1
        <4> QED
          BY <3>1, <4>1
      <3>2. CASE m # n
        <4>1. \A d \in C : m \in ToSet(S[d]) => m \in ToSet(T[d])
          BY <1>1, <3>2
        <4> QED
          BY <4>1 DEF Numbers
      <3> QED
        BY <3>1, <3>2
    <2> QED
      BY <1>3, <2>1, <2>2, <2>3, <2>4 DEF Numbers
  <1>6. ASSUME NEW m \in 2..(n - 1) PROVE \E k \in F : m % k = 0
    <2>1. m \in 2..(nx - 1)
      BY <1>2, <1>4
    <2>2. \A d \in C : m \notin ToSet(S[d])
      <3> SUFFICES ASSUME NEW d \in C, m \in ToSet(S[d]) PROVE FALSE
        OBVIOUS
      <3>1. m # n /\ ~(n < m)
        BY <1>4
      <3>2. m \in ToSet(T[d])
        BY <1>1, <3>1
      <3> QED
        BY <1>3, <3>1, <3>2
    <2> QED
      BY <2>1, <2>2 DEF Numbers
  <1>7. IsPrime(n)
    <2> SUFFICES ASSUME NEW d \in 2..(n - 1), n % d = 0 PROVE FALSE
      BY DEF IsPrime
    <2>1. PICK k \in F : d % k = 0
      BY <1>6
    <2>2. k \in Nat /\ k > 0 /\ d \in Nat /\ d > 0
      BY <1>0, <1>4
    <2>3. n % k = 0
      BY <1>4, <2>1, <2>2, Divides
    <2> QED
      BY <1>2, <2>3
  <1>8. ASSUME NEW m \in 2..(n - 1) PROVE m \in F <=> IsPrime(m)
    <2>1. m \in F => IsPrime(m)
      <3>1. m \in Nat /\ m \in 2..m
        BY <1>4
      <3> QED
        BY <3>1
    <2>2. ASSUME IsPrime(m) PROVE m \in F
      <3>1. PICK k \in F : m % k = 0
        BY <1>6
      <3>2. k \in Nat /\ k >= 2 /\ m \in Nat /\ m >= 2
        BY <1>0, <1>4
      <3>3. CASE k < m
        <4>1. k \in 2..(m - 1)
          BY <3>2, <3>3
        <4> QED
          BY <2>2, <3>1, <4>1 DEF IsPrime
      <3>4. CASE k > m
        <4>1. m % k = m
          BY <3>2, <3>4
        <4> QED
          BY <3>1, <3>2, <4>1
      <3> QED
        BY <3>2, <3>3, <3>4
    <2> QED
      BY <2>1, <2>2
  <1>9. ASSUME NEW k \in G, NEW m \in 2..k PROVE m \in G <=> IsPrime(m)
    <2>1. k \in Nat /\ k <= n
      <3>1. CASE k = n
        BY <1>4, <3>1
      <3>2. CASE k \in F
        BY <1>0, <1>2, <1>4, <3>2
      <3> QED
        BY <3>1, <3>2
    <2>2. CASE m = n
      BY <1>7, <2>2
    <2>3. CASE m # n
      <3>1. m \in 2..(n - 1)
        BY <1>4, <2>1, <2>3
      <3> QED
        BY <1>8, <2>3, <3>1
    <2> QED
      BY <2>2, <2>3
  <1> QED
    BY <1>1, <1>2, <1>5, <1>9

-----------------------------------------------------------------------------
(***************************************************************************)
(* The chain of processes.                                                 *)
(***************************************************************************)
LEMMA Kin ==
  ASSUME Inv, ~failed
  PROVE  /\ \A c \in Readers : /\ c \in Procs /\ Running(c) /\ pc[c] \in Early /\ Parent(c) \in Procs /\ Parent(c) # c
                               /\ pc[Parent(c)] \in WithChild /\ Running(Parent(c))
         /\ \A c, d \in Readers : Parent(c) = Parent(d) => c = d
         /\ \A p \in Procs : pc[p] \in Writing =>
               \E c \in Readers, x \in Pipes : Parent(c) = p /\ fd[p][loc[p].w] = End(x, "W") /\ fd[c][In(c)] = End(x, "R")
         /\ Levels \in [Readers -> Nat] /\ \A p \in Procs : loc[p].prime \in Nat
  <1>1. ProcessInv /\ TreeInv
    BY DEF Inv
  <1>2. ASSUME NEW c \in Readers
        PROVE  /\ c \in Procs /\ Running(c) /\ pc[c] \in Early /\ Parent(c) \in Procs /\ Parent(c) # c
               /\ pc[Parent(c)] \in WithChild /\ Running(Parent(c)) /\ c \in Children(Parent(c))
    <2>1. c \in Procs /\ pc[c] \in Early /\ c # MAIN
      BY DEF Readers
    <2>2. Running(c)
      BY <1>1, <2>1 DEF ProcessInv, Good, Running, Early
    <2>3. Parent(c) \in Procs /\ Running(Parent(c))
      BY <1>1, <2>1, <2>2 DEF TreeInv, Parent
    <2>4. c \in Children(Parent(c))
      BY <2>1, <2>2 DEF Children, Parent, Running
    <2>5. pc[Parent(c)] \in WithChild
      BY <1>1, <2>3, <2>4 DEF TreeInv, Few
    <2>6. Parent(c) # c
      <3>1. PICK rank \in [Procs -> Nat] : Ranked(rank)
        BY <1>1 DEF TreeInv
      <3>2. rank[c] \in Nat /\ ~(rank[c] < rank[c])
        BY <2>1, <3>1
      <3> QED
        BY <2>1, <2>2, <3>1, <3>2 DEF Ranked, Parent
    <2> QED
      BY <2>1, <2>2, <2>3, <2>4, <2>5, <2>6
  <1>3. ASSUME NEW c \in Readers, NEW d \in Readers, Parent(c) = Parent(d) PROVE c = d
    <2>1. Few(Children(Parent(c)), pc[Parent(c)])
      BY <1>1, <1>2 DEF TreeInv
    <2>2. PICK e \in Procs : Children(Parent(c)) \subseteq {e}
      BY <1>2, <2>1 DEF Few
    <2> QED
      BY <1>2, <1>3, <2>2
  <1>4. ASSUME NEW p \in Procs, pc[p] \in Writing
        PROVE  \E c \in Readers, x \in Pipes : Parent(c) = p /\ fd[p][loc[p].w] = End(x, "W") /\ fd[c][In(c)] = End(x, "R")
    BY <1>1, <1>4 DEF TreeInv, Link, Readers, Parent
  <1>5. \A p \in Procs : loc[p].prime \in Nat
    BY <1>1, Constants DEF ProcessInv, LocType
  <1>6. Levels \in [Readers -> Nat]
    BY <1>2, <1>5 DEF Levels
  <1> QED
    BY <1>2, <1>3, <1>4, <1>5, <1>6

LEMMA EndsDiffer == \A x, y \in Pipes : End(x, "R") = End(y, "R") => x = y
  <1> SUFFICES ASSUME NEW x \in Pipes, NEW y \in Pipes, End(x, "R") = End(y, "R") PROVE x = y
    OBVIOUS
  <1>1. End(x, "R").of = x /\ End(y, "R").of = y
    BY DEF End
  <1> QED
    BY <1>1

\* A step of p that leaves the other readers, and what they read, as they are.
Frame(p) ==
    /\ \A q \in Procs \ {p} : pc'[q] = pc[q] /\ loc'[q] = loc[q] /\ fd'[q] = fd[q]
    /\ p \in Readers' => p \in Readers /\ fd'[p][In(p)'] = fd[p][In(p)]
    /\ \A c \in Readers' : proc'[c].parent = proc[c].parent
    /\ loc'[p].prime = loc[p].prime \/ (p # MAIN /\ \A c \in Readers : Parent(c) # p)

LEMMA Framed ==
  ASSUME Inv, ~failed, NEW p \in Procs, Frame(p)
  PROVE  /\ Readers' \subseteq Readers /\ Readers \ Readers' \subseteq {p} /\ Readers \subseteq Procs
         /\ \A c \in Readers' : fd'[c][In(c)'] = fd[c][In(c)] /\ Parent(c)' = Parent(c)
         /\ \A c \in Readers' : Levels'[c] = Levels[c]
  <1>1. /\ Readers' \subseteq Readers /\ Readers \subseteq Procs
        /\ \A c \in Readers' : fd'[c][In(c)'] = fd[c][In(c)] /\ Parent(c)' = Parent(c)
    <2>1. ASSUME NEW c \in Readers' PROVE c \in Readers /\ fd'[c][In(c)'] = fd[c][In(c)]
      <3>1. CASE c = p
        BY <2>1, <3>1 DEF Frame
      <3>2. CASE c # p
        BY <2>1, <3>2 DEF Frame, Readers, In
      <3> QED
        BY <3>1, <3>2
    <2> QED
      BY <2>1 DEF Frame, Parent, Readers
  <1>2. \A c \in Readers' : Levels'[c] = Levels[c]
    <2> SUFFICES ASSUME NEW c \in Readers' PROVE loc'[Parent(c)].prime = loc[Parent(c)].prime
      BY <1>1 DEF Levels
    <2>1. c \in Readers /\ Parent(c) \in Procs
      BY <1>1, Kin
    <2>2. CASE Parent(c) = p
      BY <2>1, <2>2 DEF Frame
    <2>3. CASE Parent(c) # p
      BY <2>1, <2>3 DEF Frame
    <2> QED
      BY <2>2, <2>3
  <1>3. Readers \ Readers' \subseteq {p}
    BY DEF Frame, Readers
  <1> QED
    BY <1>1, <1>2, <1>3

LEMMA SameLevels ==
  ASSUME Inv, ~failed, NEW p \in Procs, Frame(p), ChainInv
  PROVE  /\ LevelsOK(Found, Readers', Levels', [c \in Readers' |-> Parent(c)'])
         /\ \A c \in Readers' : \E x \in Pipes : fd'[c][In(c)'] = End(x, "R")
         /\ \A c, d \in Readers' : fd'[c][In(c)'] = fd'[d][In(d)'] => c = d
  <1>1. /\ Readers' \subseteq Readers
        /\ \A c \in Readers' : fd'[c][In(c)'] = fd[c][In(c)] /\ Parent(c)' = Parent(c) /\ Levels'[c] = Levels[c]
    BY Framed
  <1>2. LevelsOK(Found, Readers, Levels, [c \in Readers |-> Parent(c)])
    BY DEF ChainInv
  <1>3. /\ \A c \in Readers' : Levels'[c] \in Found \cup {0}
        /\ \A c, d \in Readers' : Levels'[c] = Levels'[d] => c = d
    BY <1>1, <1>2 DEF LevelsOK
  <1>4. ASSUME NEW c \in Readers', NEW d \in Readers', Parent(c)' = d
        PROVE  Levels'[d] < Levels'[c] /\ \A k \in Found : k < Levels'[c] => k <= Levels'[d]
    <2>1. c \in Readers /\ d \in Readers /\ Parent(c) = d
      BY <1>1, <1>4
    <2> QED
      BY <1>1, <1>2, <1>4, <2>1 DEF LevelsOK
  <1>5. \A c \in Readers' : \E x \in Pipes : fd'[c][In(c)'] = End(x, "R")
    BY <1>1 DEF ChainInv, PipesOK
  <1>6. \A c, d \in Readers' : fd'[c][In(c)'] = fd'[d][In(d)'] => c = d
    BY <1>1 DEF ChainInv, PipesOK
  <1> QED
    BY <1>3, <1>4, <1>5, <1>6 DEF LevelsOK

\* A step that leaves the chain as it is, or ends it one process sooner.
LEMMA ChainStep ==
  ASSUME Inv, Inv', ~failed, ~failed', ChainInv, NEW p \in Procs, Frame(p), output' = output,
         pc'[p] \in Tips => pc'[p] \in {"cclosew", "filter"} /\ pc[p] \in {"cclosein", "cclosew"},
         \A x \in Pipes : buf'[x] # <<>> => buf[x] # <<>> \/ (\E c \in Readers : fd[c][In(c)] = End(x, "R")),
         Numbers(Found, Readers', Streams', Levels', NextNumber')
  PROVE  ChainInv'
  <1>1. /\ Readers' \subseteq Readers /\ Readers \subseteq Procs
        /\ \A c \in Readers' : fd'[c][In(c)'] = fd[c][In(c)] /\ Parent(c)' = Parent(c)
    BY Framed
  <1>2. \A c \in Readers' : Levels'[c] = Levels[c]
    BY Framed
  <1>3. Found' = Found
    BY DEF Found
  <1>4. loc'[MAIN].prime = 0
    BY Constants DEF ChainInv, Frame
  <1>5. PipesOK'
    <2>1. \A c \in Readers' : \E x \in Pipes : fd'[c][In(c)'] = End(x, "R")
      BY SameLevels
    <2>2. \A c, d \in Readers' : fd'[c][In(c)'] = fd'[d][In(d)'] => c = d
      BY SameLevels
    <2>3. ASSUME NEW q \in Procs, pc'[q] = "fork"
          PROVE  /\ \A d \in Readers' : fd'[d][In(d)'] # fd'[q][loc'[q].r]
                 /\ \A x \in Pipes : fd'[q][loc'[q].r] = End(x, "R") => buf'[x] = <<>>
      <3>1. q # p /\ pc[q] = "fork" /\ fd'[q][loc'[q].r] = fd[q][loc[q].r]
        BY <2>3 DEF Tips, Frame
      <3>2. \A d \in Readers : fd[d][In(d)] # fd[q][loc[q].r]
        BY <3>1 DEF ChainInv, PipesOK
      <3>3. \A x \in Pipes : fd[q][loc[q].r] = End(x, "R") => buf[x] = <<>>
        BY <3>1 DEF ChainInv, PipesOK
      <3>4. \A x \in Pipes : fd[q][loc[q].r] = End(x, "R") => buf'[x] = <<>>
        BY <3>2, <3>3
      <3> QED
        BY <1>1, <3>1, <3>2, <3>4
    <2> QED
      BY <2>1, <2>2, <2>3 DEF PipesOK
  <1>6. ASSUME NEW t \in Procs PROVE TipOK(t)'
    <2>1. TipOK(t)
      BY DEF ChainInv
    <2>2. CASE t = p
      <3>1. pc'[p] \notin {"pipe", "fork"}
        BY DEF Tips
      <3>2. ASSUME pc'[p] \in {"cclosein", "cclosew", "filter"} PROVE \A k \in Found : k <= Levels'[p]
        <4>1. p \in Readers'
          <5>1. p # MAIN
            <6>1. ProcessInv
              BY DEF Inv
            <6>2. pc[p] \in {"cclosein", "cclosew"}
              BY <3>2 DEF Tips
            <6> QED
              BY <6>1, <6>2 DEF ProcessInv, Good
          <5> QED
            BY <3>2, <5>1 DEF Readers, Early
        <4>2. pc[p] \in {"cclosein", "cclosew", "filter"}
          BY <3>2 DEF Tips
        <4> QED
          BY <1>2, <2>1, <2>2, <4>1, <4>2 DEF TipOK
      <3> QED
        BY <1>3, <2>2, <3>1, <3>2 DEF TipOK
    <2>3. CASE t # p
      <3>1. pc'[t] = pc[t] /\ loc'[t] = loc[t]
        BY <2>3 DEF Frame
      <3>2. t # MAIN /\ pc[t] \in Tips => t \in Readers'
        BY <3>1 DEF Readers, Tips, Early
      <3>3. t = MAIN => pc[t] \notin {"cclosein", "cclosew", "filter"}
        BY DEF Inv, ProcessInv, Good
      <3>4. ASSUME pc[t] \in {"pipe", "fork"} PROVE \A d \in Readers' : Levels'[d] < loc'[t].prime
        BY <1>1, <1>2, <2>1, <3>1, <3>4 DEF TipOK
      <3>5. ASSUME pc[t] \in {"pipe", "fork"}, t # MAIN
            PROVE  loc'[t].prime \in Found /\ \A k \in Found : k < loc'[t].prime => k <= Levels'[t]
        BY <1>2, <2>1, <3>1, <3>2, <3>5 DEF TipOK, Tips
      <3>6. ASSUME pc[t] \in {"cclosein", "cclosew", "filter"} PROVE \A k \in Found : k <= Levels'[t]
        BY <1>2, <2>1, <3>2, <3>3, <3>6 DEF TipOK, Tips
      <3>7. pc[t] \in {"pipe", "fork"} => \A k \in Found : k <= loc'[t].prime
        BY <2>1, <3>1 DEF TipOK
      <3> QED
        BY <1>3, <3>1, <3>4, <3>5, <3>6, <3>7 DEF TipOK
    <2> QED
      BY <2>2, <2>3
  <1>7. LevelsOK(Found, Readers', Levels', [c \in Readers' |-> Parent(c)'])
    BY SameLevels
  <1> QED
    BY <1>3, <1>4, <1>5, <1>6, <1>7 DEF ChainInv

\* A step that moves no number.
LEMMA QuietNumbers ==
  ASSUME Inv, ~failed, ChainInv, NEW p \in Procs, Frame(p), \A c \in Readers : buf'[Input(c)] = buf[Input(c)],
         ~Carries(p), ~Carries(p)', NextNumber' = NextNumber,
         p \in Readers' \/ p \notin Readers \/ Stream(p) = <<>>
  PROVE  Numbers(Found, Readers', Streams', Levels', NextNumber')
  <1>1. /\ Readers' \subseteq Readers /\ Readers \ Readers' \subseteq {p}
        /\ \A c \in Readers' : fd'[c][In(c)'] = fd[c][In(c)] /\ Parent(c)' = Parent(c) /\ Levels'[c] = Levels[c]
    BY Framed
  <1>2. ASSUME NEW c \in Readers' PROVE Streams'[c] = Streams[c]
    <2>1. c \in Readers /\ Input(c)' = Input(c) /\ Parent(c)' = Parent(c) /\ Parent(c) \in Procs
      BY <1>1, Kin DEF Input
    <2>2. Carries(Parent(c))' <=> Carries(Parent(c))
      BY <2>1 DEF Frame, Carries
    <2>3. Carries(Parent(c)) => loc'[Parent(c)] = loc[Parent(c)]
      BY <2>1 DEF Frame
    <2>4. Stream(c)' = Stream(c)
      BY <2>1, <2>2, <2>3 DEF Stream
    <2> QED
      BY <2>1, <2>4 DEF Streams
  <1>3. \A c \in Readers : (c \in Readers' /\ Streams'[c] = Streams[c]) \/ Streams[c] = <<>>
    BY <1>1, <1>2 DEF Streams
  <1>4. Numbers(Found, Readers, Streams, Levels, NextNumber)
    BY DEF ChainInv
  <1> QED
    BY <1>1, <1>2, <1>3, <1>4, SameNumbers

LEMMA QuietStep ==
  ASSUME Inv, Inv', ~failed, ~failed', ChainInv, NEW p \in Procs, Frame(p), buf' = buf, output' = output,
         pc'[p] \in Tips => pc'[p] \in {"cclosew", "filter"} /\ pc[p] \in {"cclosein", "cclosew"},
         ~Carries(p), ~Carries(p)', NextNumber' = NextNumber,
         p \in Readers' \/ p \notin Readers \/ Stream(p) = <<>>
  PROVE  ChainInv'
  BY QuietNumbers, ChainStep

\* The next number of main stays when another process, or main elsewhere, moves.
LEMMA SameNext ==
  ASSUME NEW p \in Procs, \A q \in Procs \ {p} : pc'[q] = pc[q] /\ loc'[q] = loc[q],
         p = MAIN => LET Sending == {"pipe", "fork", "closer", "write"} IN
                     \/ pc[p] \in Sending /\ pc'[p] \in Sending /\ loc'[p].n = loc[p].n
                     \/ pc[p] \notin Sending /\ pc'[p] \notin Sending
  PROVE  NextNumber' = NextNumber
  <1>1. CASE p = MAIN
    BY <1>1 DEF NextNumber
  <1>2. CASE p # MAIN
    <2>1. MAIN \in Procs \ {p}
      BY <1>2, Constants
    <2> QED
      BY <2>1 DEF NextNumber
  <1> QED
    BY <1>1, <1>2

LEMMA ClosesChain ==
  ASSUME Inv, Inv', ~failed, ~failed', ChainInv, NEW p \in Procs,
         \/ child_close_in(p) \/ child_close_write(p) \/ close_read(p) \/ close_in(p) \/ close_write(p)
  PROVE  ChainInv'
  <1>0. /\ SystemOK /\ pc \in [Procs -> Labels] /\ loc \in [Procs -> LocType] /\ fd \in [Procs -> Files]
        /\ Good(p, proc[p], fd[p], pc[p], loc[p])
    BY DEF Inv, ProcessInv, SystemOK
  <1>1. loc[p] \in LocType
    BY <1>0
  <1>2. CASE child_close_in(p)
    <2>1. /\ pc[p] = "cclosein" /\ close(p, loc[p].in) /\ pc' = [pc EXCEPT ![p] = "cclosew"] /\ loc' = loc /\ output' = output
      BY <1>2 DEF child_close_in, At, Step, Goto, SameOutput
    <2>2. /\ proc' = proc /\ buf' = buf /\ fd'[p] = [fd[p] EXCEPT ![loc[p].in] = NULL]
          /\ \A q \in Procs \ {p} : fd'[q] = fd[q]
      BY <1>0, <1>1, <2>1, Closes DEF LocType, close
    <2>3. p # MAIN /\ loc[p].in # loc[p].r /\ loc[p].r \in Fds /\ loc[p].in \in Fds
      BY <1>0, <1>1, <2>1 DEF Good, EndsOK, LocType
    <2>4. pc'[p] = "cclosew" /\ \A q \in Procs \ {p} : pc'[q] = pc[q]
      BY <1>0, <2>1
    <2>5. fd'[p][In(p)'] = fd[p][In(p)]
      <3>1. In(p) = loc[p].r /\ In(p)' = loc[p].r
        BY <2>1, <2>4 DEF In, InAt
      <3>2. fd[p] \in Files
        BY <1>0
      <3> QED
        BY <2>2, <2>3, <3>1, <3>2 DEF Files
    <2>6. Frame(p)
      BY <2>1, <2>2, <2>3, <2>4, <2>5 DEF Frame, Readers, Early
    <2>7. p \in Readers'
      BY <2>3, <2>4 DEF Readers, Early
    <2>8. NextNumber' = NextNumber
      BY <2>1, <2>3, <2>4, SameNext
    <2> QED
      BY <2>1, <2>2, <2>4, <2>6, <2>7, <2>8, QuietStep DEF Carries, Tips
  <1>3. CASE child_close_write(p)
    <2>1. /\ pc[p] = "cclosew" /\ close(p, loc[p].w) /\ pc' = [pc EXCEPT ![p] = "filter"]
          /\ loc' = [loc EXCEPT ![p] = [NoLoc EXCEPT !.in = loc[p].r]] /\ output' = output
      BY <1>3 DEF child_close_write, At, Goto, SameOutput
    <2>2. /\ proc' = proc /\ buf' = buf /\ fd'[p] = [fd[p] EXCEPT ![loc[p].w] = NULL]
          /\ \A q \in Procs \ {p} : fd'[q] = fd[q]
      BY <1>0, <1>1, <2>1, Closes DEF LocType, close
    <2>3. p # MAIN /\ loc[p].w # loc[p].r /\ loc[p].r \in Fds /\ loc[p].w \in Fds
      BY <1>0, <1>1, <2>1 DEF Good, EndsOK, LocType, BothLabels
    <2>4. /\ pc'[p] = "filter" /\ loc'[p].in = loc[p].r
          /\ \A q \in Procs \ {p} : pc'[q] = pc[q] /\ loc'[q] = loc[q]
      BY <1>0, <2>1 DEF NoLoc
    <2>5. fd'[p][In(p)'] = fd[p][In(p)]
      <3>1. In(p) = loc[p].r /\ In(p)' = loc[p].r
        BY <2>1, <2>4 DEF In, InAt
      <3>2. fd[p] \in Files
        BY <1>0
      <3> QED
        BY <2>2, <2>3, <3>1, <3>2 DEF Files
    <2>6. \A c \in Readers : Parent(c) # p
      <3>1. \A c \in Readers : pc[Parent(c)] \in WithChild
        BY Kin
      <3> QED
        BY <2>1, <3>1 DEF WithChild
    <2>7. Frame(p)
      BY <2>1, <2>2, <2>3, <2>4, <2>5, <2>6 DEF Frame, Readers, Early
    <2>8. p \in Readers'
      BY <2>3, <2>4 DEF Readers, Early
    <2>9. NextNumber' = NextNumber
      BY <2>3, <2>4, SameNext
    <2> QED
      BY <2>1, <2>2, <2>4, <2>7, <2>8, <2>9, QuietStep DEF Carries, Tips
  <1>4. CASE close_read(p)
    <2>1. /\ pc[p] = "closer" /\ close(p, loc[p].r) /\ loc' = loc /\ output' = output
          /\ pc' = [pc EXCEPT ![p] = IF p = MAIN THEN "write" ELSE "loop"]
      BY <1>4 DEF close_read, At, Step, Goto, SameOutput
    <2>2. /\ proc' = proc /\ buf' = buf /\ fd'[p] = [fd[p] EXCEPT ![loc[p].r] = NULL]
          /\ \A q \in Procs \ {p} : fd'[q] = fd[q]
      BY <1>0, <1>1, <2>1, Closes DEF LocType, close
    <2>3. /\ p # MAIN => loc[p].in # loc[p].r
          /\ loc[p].r \in Fds /\ loc[p].in \in Fds
      BY <1>0, <1>1, <2>1 DEF Good, EndsOK, LocType
    <2>4. /\ pc'[p] = IF p = MAIN THEN "write" ELSE "loop"
          /\ \A q \in Procs \ {p} : pc'[q] = pc[q]
      BY <1>0, <2>1
    <2>5. p # MAIN => fd'[p][In(p)'] = fd[p][In(p)]
      <3>1. In(p) = loc[p].in /\ In(p)' = loc[p].in
        BY <2>1, <2>4 DEF In, InAt
      <3>2. fd[p] \in Files
        BY <1>0
      <3> QED
        BY <2>2, <2>3, <3>1, <3>2 DEF Files
    <2>6. Frame(p)
      BY <2>1, <2>2, <2>4, <2>5 DEF Frame, Readers, Early
    <2>7. p \in Readers' \/ p \notin Readers
      BY <2>4 DEF Readers, Early
    <2>8. NextNumber' = NextNumber
      BY <2>1, <2>4, SameNext
    <2> QED
      BY <2>1, <2>2, <2>4, <2>6, <2>7, <2>8, QuietStep DEF Carries, Tips
  <1>5. CASE close_in(p) \/ close_write(p)
    <2>1. /\ pc[p] \in {"closein", "closew"} /\ pc'[p] \in {"closew", "wait"} /\ loc' = loc /\ output' = output
          /\ \A q \in Procs \ {p} : pc'[q] = pc[q]
          /\ close(p, loc[p].in) \/ close(p, loc[p].w)
      BY <1>0, <1>5 DEF close_in, close_write, At, Step, Goto, SameOutput
    <2>2. proc' = proc /\ buf' = buf /\ \A q \in Procs \ {p} : fd'[q] = fd[q]
      BY <1>0, <1>1, <2>1, Closes DEF LocType, close
    <2>3. p \notin Readers /\ p \notin Readers'
      BY <2>1 DEF Readers, Early
    <2>4. Frame(p)
      BY <2>1, <2>2, <2>3 DEF Frame
    <2>5. NextNumber' = NextNumber
      BY <2>1, SameNext
    <2> QED
      BY <2>1, <2>2, <2>3, <2>4, <2>5, QuietStep DEF Carries, Tips
  <1> QED
    BY <1>2, <1>3, <1>4, <1>5

LEMMA WaitChain ==
  ASSUME Inv, Inv', ~failed, ~failed', ChainInv, NEW p \in Procs, wait(p)
  PROVE  ChainInv'
  <1>1. PICK c \in Zombies(p) : At(p, "wait") /\ reap(c) /\ Step(p, "exit")
    BY DEF wait
  <1>2. /\ ProcessInv /\ SystemOK /\ pc[p] = "wait" /\ pc'[p] = "exit" /\ \A q \in Procs \ {p} : pc'[q] = pc[q]
        /\ loc' = loc /\ output' = output /\ buf' = buf
    BY <1>1 DEF Inv, ProcessInv, At, Step, Goto, SameOutput, reap
  <1>3. fd' = fd /\ c \in Procs /\ proc[c].st = "zombie" /\ proc' = [proc EXCEPT ![c] = NoProc]
    BY <1>1, <1>2, Reaps
  <1>4. c # p /\ c \notin Readers
    <2>1. \A d \in Readers : Running(d)
      BY Kin
    <2>2. Running(p)
      BY <1>1 DEF At
    <2> QED
      BY <1>3, <2>1, <2>2 DEF Running
  <1>5. p \notin Readers /\ p \notin Readers'
    BY <1>2 DEF Readers, Early
  <1>6. \A d \in Readers' : proc'[d].parent = proc[d].parent
    <2> SUFFICES ASSUME NEW d \in Readers' PROVE d # c
      BY <1>3
    <2>1. d \in Readers
      BY <1>2, <1>5 DEF Readers
    <2> QED
      BY <1>4, <2>1
  <1>7. Frame(p)
    BY <1>2, <1>3, <1>5, <1>6 DEF Frame
  <1>8. NextNumber' = NextNumber
    BY <1>2, SameNext
  <1> QED
    BY <1>2, <1>5, <1>7, <1>8, QuietStep DEF Carries, Tips

LEMMA ReturnChain ==
  ASSUME Inv, Inv', ~failed, ~failed', ChainInv, NEW p \in Procs, return(p), output' = output
  PROVE  ChainInv'
  <1>1. At(p, "exit") /\ exit(p, 0) /\ Off(p)
    BY DEF return, Exits
  <1>2. /\ SystemOK /\ pc \in [Procs -> Labels] /\ loc \in [Procs -> LocType] /\ TreeInv /\ pc[p] = "exit"
    BY <1>1 DEF Inv, ProcessInv, At
  <1>3. /\ pc'[p] = "off" /\ \A q \in Procs \ {p} : pc'[q] = pc[q] /\ loc'[q] = loc[q]
        /\ buf' = buf
    BY <1>1, <1>2 DEF Off, Goto, exit
  <1>4. p \notin Readers /\ p \notin Readers'
    BY <1>2, <1>3 DEF Readers, Early
  <1>5. Children(p) = {}
    BY <1>2 DEF TreeInv, Few, WithChild
  <1>6. \A q \in Procs \ {p} : fd'[q] = fd[q] /\ proc'[q] = proc[q]
    <2>1. \A q \in Procs \ {p} : /\ fd'[q] = fd[q]
                                 /\ IF q \in Zombies(p) THEN proc'[q] = NoProc
                                    ELSE IF q \in Children(p) THEN proc'[q] = [proc[q] EXCEPT !.parent = INIT]
                                    ELSE proc'[q] = proc[q]
      BY <1>1, <1>2, Exited
    <2> QED
      BY <1>5, <2>1 DEF Zombies
  <1>7. \A c \in Readers' : proc'[c].parent = proc[c].parent
    BY <1>4, <1>6 DEF Readers
  <1>8. loc'[p].prime = loc[p].prime \/ (p # MAIN /\ \A c \in Readers : Parent(c) # p)
    <2>1. \A c \in Readers : pc[Parent(c)] \in WithChild
      BY Kin
    <2>2. \A c \in Readers : Parent(c) # p
      BY <1>2, <2>1 DEF WithChild
    <2>3. p = MAIN => loc'[p].prime = loc[p].prime
      BY <1>1, <1>2 DEF ChainInv, Off, NoLoc
    <2> QED
      BY <2>2, <2>3
  <1>9. Frame(p)
    BY <1>3, <1>4, <1>6, <1>7, <1>8 DEF Frame
  <1>10. NextNumber' = NextNumber
    BY <1>2, <1>3, SameNext
  <1> QED
    BY <1>2, <1>3, <1>4, <1>9, <1>10, QuietStep DEF Carries, Tips

\* At the end of the numbers nothing is on its way to the reader.
LEMMA NothingLeft ==
  ASSUME Inv, ~failed, ChainInv, NEW p \in Readers, NEW x \in Pipes, fd[p][In(p)] = End(x, "R"), ~Has(x, "W"), buf[x] = <<>>
  PROVE  Stream(p) = <<>> /\ pc[Parent(p)] \notin Writing
  <1>1. pc[Parent(p)] \notin Writing
    <2> SUFFICES ASSUME pc[Parent(p)] \in Writing PROVE FALSE
      OBVIOUS
    <2> DEFINE q == Parent(p)
    <2>1. q \in Procs
      BY Kin
    <2>2. PICK c \in Readers, y \in Pipes : Parent(c) = q /\ fd[q][loc[q].w] = End(y, "W") /\ fd[c][In(c)] = End(y, "R")
      BY <2>1, Kin
    <2>3. c = p
      BY <2>2, Kin
    <2>4. x = y
      BY <2>2, <2>3, EndsDiffer
    <2>5. loc[q].w \in Fds
      BY <2>1 DEF Inv, ProcessInv, LocType
    <2> QED
      BY <2>1, <2>2, <2>4, <2>5 DEF Has
  <1>2. Input(p) = x
    BY DEF Input, End
  <1>3. ~Carries(Parent(p))
    BY <1>1 DEF Carries, Writing
  <1> QED
    BY <1>1, <1>2, <1>3 DEF Stream

LEMMA FilterEnds ==
  ASSUME Inv, Inv', ~failed, ~failed', ChainInv, NEW p \in Procs,
         \/ At(p, "filter") /\ read(p, loc[p].in, NULL) /\ Step(p, "exit")
         \/ At(p, "loop") /\ read(p, loc[p].in, NULL) /\ SameOutput /\ Goto(p, "closein") /\ UNCHANGED loc
  PROVE  ChainInv'
  <1>1. /\ SystemOK /\ pc \in [Procs -> Labels] /\ Good(p, proc[p], fd[p], pc[p], loc[p]) /\ loc[p] \in LocType
    BY DEF Inv, ProcessInv
  <1>2. /\ pc[p] \in {"filter", "loop"} /\ pc'[p] \in {"exit", "closein"} /\ \A q \in Procs \ {p} : pc'[q] = pc[q]
        /\ loc' = loc /\ output' = output /\ read(p, loc[p].in, NULL)
    BY <1>1 DEF At, Step, Goto, SameOutput
  <1>3. p # MAIN /\ p \in Readers /\ p \notin Readers' /\ In(p) = loc[p].in /\ loc[p].in \in Fds /\ fd[p][loc[p].in] # NULL
    <2>1. p # MAIN
      BY <1>1, <1>2 DEF Good
    <2>2. fd[p][loc[p].in] # NULL /\ loc[p].in \in Fds
      BY <1>1, <1>2, <2>1 DEF Good, EndsOK, InLabels, LocType
    <2> QED
      BY <1>2, <2>1, <2>2 DEF Readers, Early, In, InAt
  <1>4. /\ proc' = proc /\ fd' = fd
        /\ \E x \in Pipes : fd[p][loc[p].in] = End(x, "R") /\ ~Has(x, "W")
    BY <1>1, <1>2, <1>3, Reads
  <1>5. PICK x \in Pipes : fd[p][loc[p].in] = End(x, "R") /\ ~Has(x, "W")
    BY <1>4
  <1>6. buf[x] = <<>> /\ buf' = buf
    <2>1. fd[p][loc[p].in].of = x
      BY <1>5 DEF End
    <2>2. ASSUME buf[x] # <<>>, NULL = Head(buf[x]) PROVE FALSE
      <3>1. buf[x] \in Seq(Items)
        BY <1>1 DEF SystemOK
      <3> QED
        BY <2>2, <3>1, HeadIs, Constants
    <2> QED
      BY <1>2, <2>1, <2>2 DEF read
  <1>7. Stream(p) = <<>>
    BY <1>3, <1>5, <1>6, NothingLeft
  <1>8. Frame(p)
    BY <1>2, <1>3, <1>4 DEF Frame
  <1>9. NextNumber' = NextNumber
    BY <1>2, <1>3, SameNext
  <1> QED
    BY <1>2, <1>6, <1>7, <1>8, <1>9, QuietStep DEF Carries, Tips

\* The head of a stream is that of the pipe, also when one more comes.
LEMMA HeadStays ==
  ASSUME NEW s \in Seq(Items), s # <<>>, NEW n \in Items
  PROVE  LET t == Append(s, n) IN t # <<>> /\ Head(t) = Head(s) /\ Tail(t) = Append(Tail(s), n)
  <1> DEFINE t == Append(s, n)
             a == Tail(t)
             b == Append(Tail(s), n)
  <1>1. /\ t \in Seq(Items) /\ Len(t) = Len(s) + 1 /\ Len(s) \in Nat /\ Len(s) >= 1 /\ t[1] = s[1]
        /\ Head(s) = s[1] /\ Head(t) = t[1] /\ t # <<>>
    OBVIOUS
  <1>2. a \in Seq(Items) /\ b \in Seq(Items) /\ Len(a) = Len(s) /\ Len(b) = Len(s)
    OBVIOUS
  <1>3. \A i \in 1..Len(s) : a[i] = b[i]
    <2> SUFFICES ASSUME NEW i \in 1..Len(s) PROVE a[i] = b[i]
      OBVIOUS
    <2>1. a[i] = t[i + 1]
      BY <1>1, <1>2
    <2>2. CASE i = Len(s)
      BY <2>1, <2>2
    <2>3. CASE i # Len(s)
      <3>1. i + 1 \in 1..Len(s) /\ i \in 1..(Len(s) - 1)
        BY <1>1, <2>3
      <3> QED
        BY <2>1, <3>1
    <2> QED
      BY <2>2, <2>3
  <1> HIDE DEF a, b
  <1>4. a = b
    BY <1>1, <1>2, <1>3
  <1> QED
    BY <1>1, <1>4 DEF a, b

\* The first number of the stream of p is taken, the other streams stay, but for
\* that of a child of p.
LEMMA Takes ==
  ASSUME Inv, ~failed, ChainInv, NEW p \in Procs, Frame(p), p \in Readers', ~Carries(p),
         NEW x \in Pipes, fd[p][In(p)] = End(x, "R"), buf[x] # <<>>, buf' = [buf EXCEPT ![x] = Tail(@)]
  PROVE  /\ Readers' = Readers /\ Levels' = Levels
         /\ Streams[p] # <<>> /\ Head(Streams[p]) = Head(buf[x]) /\ Streams'[p] = Tail(Streams[p])
         /\ \A d \in Readers \ {p} : Parent(d) # p => Streams'[d] = Streams[d]
         /\ \A d \in Readers \ {p} : Input(d)' = Input(d) /\ buf'[Input(d)] = buf[Input(d)]
  <1>1. /\ Readers' = Readers
        /\ \A c \in Readers : fd'[c][In(c)'] = fd[c][In(c)] /\ Parent(c)' = Parent(c) /\ Levels'[c] = Levels[c]
        /\ \A c \in Readers : Parent(c) \in Procs /\ Parent(c) # c
    <2>1. /\ Readers' \subseteq Readers /\ Readers \ Readers' \subseteq {p}
          /\ \A c \in Readers' : fd'[c][In(c)'] = fd[c][In(c)] /\ Parent(c)' = Parent(c) /\ Levels'[c] = Levels[c]
      BY Framed
    <2>2. \A c \in Readers : Parent(c) \in Procs /\ Parent(c) # c
      BY Kin
    <2>3. Readers' = Readers
      BY <2>1
    <2> QED
      BY <2>1, <2>2, <2>3
  <1>2. Levels' = Levels
    BY <1>1 DEF Levels
  <1>3. \A c \in Readers : Input(c)' = Input(c)
    BY <1>1 DEF Input
  <1>4. Input(p) = x
    BY DEF Input, End
  <1>5. \A d \in Readers \ {p} : Input(d) \in Pipes \ {x}
    <2> SUFFICES ASSUME NEW d \in Readers \ {p} PROVE Input(d) \in Pipes \ {x}
      OBVIOUS
    <2>1. PICK y \in Pipes : fd[d][In(d)] = End(y, "R")
      BY DEF ChainInv, PipesOK
    <2>2. Input(d) = y
      BY <2>1 DEF Input, End
    <2>3. y # x
      BY <1>1, <2>1 DEF ChainInv, PipesOK
    <2> QED
      BY <2>2, <2>3
  <1>6. /\ buf[x] \in Seq(Items) /\ buf \in [Pipes -> Seq(Items)]
        /\ buf'[x] = Tail(buf[x]) /\ \A y \in Pipes \ {x} : buf'[y] = buf[y]
    BY DEF Inv, ProcessInv, SystemOK
  <1>7. Streams[p] # <<>> /\ Head(Streams[p]) = Head(buf[x]) /\ Streams'[p] = Tail(Streams[p])
    <2>1. PICK q \in Procs : q # p /\ Parent(p) = q
      BY <1>1
    <2>2. (Carries(q)' <=> Carries(q)) /\ loc'[q] = loc[q] /\ pc'[q] = pc[q]
      BY <2>1 DEF Carries, Frame
    <2>3. p \in Readers /\ Parent(p)' = q /\ Input(p)' = x
      BY <1>1, <1>3, <1>4, <2>1
    <2>6. Streams[p] = Stream(p) /\ Streams'[p] = Stream(p)'
      BY <2>3 DEF Streams
    <2>4. CASE Carries(q)
      <3>1. loc[q].n \in Items
        BY <2>1, <2>4 DEF Carries, Inv, ProcessInv, Good
      <3>2. Stream(p) = Append(buf[x], loc[q].n) /\ Stream(p)' = Append(buf'[x], loc[q].n)
        BY <1>4, <2>1, <2>2, <2>3, <2>4 DEF Stream
      <3> QED
        BY <1>6, <2>6, <3>1, <3>2, HeadStays
    <2>5. CASE ~Carries(q)
      <3>1. Stream(p) = buf[x] /\ Stream(p)' = buf'[x]
        BY <1>4, <2>1, <2>2, <2>3, <2>5 DEF Stream
      <3> QED
        BY <1>6, <2>6, <3>1
    <2> QED
      BY <2>4, <2>5
  <1>8. ASSUME NEW d \in Readers \ {p}, Parent(d) # p PROVE Streams'[d] = Streams[d]
    <2>1. PICK q \in Procs : q # p /\ Parent(d) = q /\ Parent(d)' = q
      BY <1>1, <1>8
    <2>2. (Carries(q)' <=> Carries(q)) /\ loc'[q] = loc[q]
      BY <2>1 DEF Carries, Frame
    <2>3. Stream(d)' = Stream(d)
      BY <1>3, <1>5, <1>6, <2>1, <2>2 DEF Stream
    <2> QED
      BY <1>1, <2>3 DEF Streams
  <1>9. \A d \in Readers \ {p} : buf'[Input(d)] = buf[Input(d)]
    BY <1>5, <1>6
  <1> QED
    BY <1>1, <1>2, <1>3, <1>7, <1>8, <1>9

LEMMA LoopChain ==
  ASSUME Inv, Inv', ~failed, ~failed', ChainInv, NEW p \in Procs, NEW n \in Items, At(p, "loop"),
         read(p, loc[p].in, n), SameOutput,
         IF Passes(n, loc[p].prime) THEN Goto(p, "write") /\ loc' = [loc EXCEPT ![p].n = n] ELSE UNCHANGED <<pc, loc>>
  PROVE  ChainInv'
  <1> DEFINE F == Found
             S == Streams
             L == Levels
  <1>1. /\ SystemOK /\ pc \in [Procs -> Labels] /\ loc \in [Procs -> LocType]
        /\ Good(p, proc[p], fd[p], pc[p], loc[p]) /\ loc[p] \in LocType /\ pc[p] = "loop"
    BY DEF Inv, ProcessInv, At
  <1>2. p # MAIN /\ p \in Readers /\ In(p) = loc[p].in /\ loc[p].in \in Fds /\ fd[p][loc[p].in] # NULL
    <2>1. p # MAIN
      BY <1>1 DEF Good
    <2> QED
      BY <1>1, <2>1 DEF Good, EndsOK, InLabels, LocType, Readers, Early, In, InAt
  <1>3. proc' = proc /\ fd' = fd /\ output' = output
    BY <1>1, <1>2, Reads DEF SameOutput
  <1>4. PICK x \in Pipes : fd[p][loc[p].in] = End(x, "R")
    BY <1>2 DEF ChainInv, PipesOK
  <1>5. buf[x] # <<>> /\ n = Head(buf[x]) /\ buf' = [buf EXCEPT ![x] = Tail(@)]
    <2>1. fd[p][loc[p].in].of = x
      BY <1>4 DEF End
    <2> QED
      BY <2>1, Constants DEF read
  <1>6. /\ \A q \in Procs \ {p} : pc'[q] = pc[q] /\ loc'[q] = loc[q]
        /\ pc'[p] \in {"loop", "write"} /\ loc'[p].in = loc[p].in /\ loc'[p].prime = loc[p].prime
        /\ IF Passes(n, loc[p].prime) THEN pc'[p] = "write" /\ loc'[p].n = n ELSE pc'[p] = "loop"
    <2>1. CASE Passes(n, loc[p].prime)
      <3>1. pc' = [pc EXCEPT ![p] = "write"] /\ loc' = [loc EXCEPT ![p] = [loc[p] EXCEPT !.n = n]]
        BY <2>1 DEF Goto
      <3>2. [loc[p] EXCEPT !.n = n].n = n /\ [loc[p] EXCEPT !.n = n].in = loc[p].in /\ [loc[p] EXCEPT !.n = n].prime = loc[p].prime
        BY <1>1 DEF LocType
      <3>3. loc'[p] = [loc[p] EXCEPT !.n = n] /\ \A q \in Procs \ {p} : loc'[q] = loc[q]
        BY <1>1, <3>1
      <3> QED
        BY <1>1, <2>1, <3>1, <3>2, <3>3
    <2>2. CASE ~Passes(n, loc[p].prime)
      BY <1>1, <2>2
    <2> QED
      BY <2>1, <2>2
  <1>7. p \in Readers' /\ In(p)' = In(p)
    BY <1>2, <1>6 DEF Readers, Early, In, InAt
  <1>8. Frame(p)
    BY <1>2, <1>3, <1>6, <1>7 DEF Frame
  <1>9. NextNumber' = NextNumber
    BY <1>2, <1>6, SameNext
  <1>10. ~Carries(p)
    BY <1>1 DEF Carries
  <1>11. /\ Readers' = Readers /\ Levels' = L
         /\ S[p] # <<>> /\ Head(S[p]) = n /\ Streams'[p] = Tail(S[p])
         /\ \A d \in Readers \ {p} : Parent(d) # p => Streams'[d] = S[d]
         /\ \A d \in Readers \ {p} : Input(d)' = Input(d) /\ buf'[Input(d)] = buf[Input(d)]
    BY <1>2, <1>4, <1>5, <1>7, <1>8, <1>10, Takes
  <1>12. PICK c \in Readers : Parent(c) = p
    <2>1. pc[p] \in Writing
      BY <1>1 DEF Writing
    <2> QED
      BY <2>1, Kin
  <1>13. /\ c # p /\ L[c] = loc[p].prime /\ \A d \in Readers \ {c} : Parent(d) # p
         /\ Parent(c)' = p /\ L \in [Readers -> Nat]
    <2>1. Parent(c)' = Parent(c)
      BY <1>3 DEF Parent
    <2> QED
      BY <1>12, <2>1, Kin DEF Levels
  <1>14. /\ L[p] < L[c] /\ \A k \in F : k < L[c] => k <= L[p]
         /\ \A a, b \in Readers : L[a] = L[b] => a = b
         /\ \A a \in Readers : L[a] \in F \cup {0}
    <2>1. LevelsOK(F, Readers, L, [d \in Readers |-> Parent(d)])
      BY DEF ChainInv
    <2>2. [d \in Readers |-> Parent(d)][c] = p
      BY <1>12
    <2> QED
      BY <1>2, <2>1, <2>2 DEF LevelsOK
  <1>15. L[c] \in F /\ L[p] \in Nat /\ L[c] \in Nat
    <2>1. L[p] \in Nat /\ L[c] \in Nat
      BY <1>2, <1>13
    <2> QED
      BY <1>14, <2>1
  <1>16. Numbers(F, Readers, S, L, NextNumber)
    BY DEF ChainInv
  <1>17. F \subseteq Items /\ NextNumber \in Nat
    <2>1. F \subseteq Items
      <3>1. output \in Seq(Items)
        BY DEF Inv, ProcessInv, GlobalsOK
      <3> QED
        BY <3>1, InSeq DEF Found
    <2>2. loc[MAIN].n \in Nat
      BY <1>1, Constants DEF LocType
    <2> QED
      BY <2>1, <2>2, Constants DEF NextNumber
  <1>18. S[c] = buf[Input(c)] /\ Streams'[c] = IF pc'[p] = "write" THEN Append(S[c], n) ELSE S[c]
    <2>1. S[c] = buf[Input(c)]
      BY <1>10, <1>12 DEF Streams, Stream
    <2>2. Input(c)' = Input(c) /\ buf'[Input(c)] = buf[Input(c)]
      BY <1>11, <1>13
    <2>3. Carries(p)' <=> pc'[p] = "write"
      BY <1>2 DEF Carries
    <2>4. Streams'[c] = IF Carries(p)' THEN Append(buf'[Input(c)'], loc'[p].n) ELSE buf'[Input(c)']
      BY <1>11, <1>13 DEF Streams, Stream
    <2>5. pc'[p] = "write" => loc'[p].n = n
      BY <1>6
    <2> QED
      BY <2>1, <2>2, <2>3, <2>4, <2>5
  <1> HIDE DEF F, S, L
  <1>19. Numbers(F, Readers, Streams', L, NextNumber)
    <2>1. CASE Passes(n, loc[p].prime)
      <3>1. Head(S[p]) % L[c] # 0
        BY <1>11, <1>13, <2>1 DEF Passes
      <3>2. Streams'[c] = Append(S[c], Head(S[p]))
        BY <1>6, <1>11, <1>18, <2>1
      <3>3. \A d \in Readers \ {p, c} : Streams'[d] = S[d]
        BY <1>11, <1>13
      <3> QED
        <4>1. /\ F \subseteq Items /\ L \in [Readers -> Nat] /\ NextNumber \in Nat
              /\ Numbers(F, Readers, S, L, NextNumber)
              /\ \A a, b \in Readers : L[a] = L[b] => a = b
              /\ \A a \in Readers : L[a] \in F \cup {0}
              /\ p \in Readers /\ c \in Readers
          BY <1>2, <1>13, <1>14, <1>16, <1>17
        <4>2. S[p] # <<>> /\ L[p] < L[c] /\ \A k \in F : k < L[c] => k <= L[p]
          BY <1>11, <1>14
        <4>3. Streams'[p] = Tail(S[p])
          BY <1>11
        <4> QED
          BY <3>1, <3>2, <3>3, <4>1, <4>2, <4>3, Passed
    <2>2. CASE ~Passes(n, loc[p].prime)
      <3>1. n % L[c] = 0
        BY <1>13, <2>2 DEF Passes
      <3>2. Streams'[c] = S[c]
        BY <1>6, <1>18, <2>2
      <3>3. \A d \in Readers \ {p} : Streams'[d] = S[d]
        BY <1>11, <1>13, <3>2
      <3> QED
        BY <1>2, <1>11, <1>15, <1>16, <3>1, <3>3, Drops
    <2> QED
      BY <2>1, <2>2
  <1>20. \A y \in Pipes : buf'[y] # <<>> => buf[y] # <<>> \/ (\E d \in Readers : fd[d][In(d)] = End(y, "R"))
    <2>1. \A y \in Pipes \ {x} : buf'[y] = buf[y]
      BY <1>1, <1>5 DEF SystemOK
    <2> QED
      BY <1>5, <2>1
  <1> QED
    BY <1>3, <1>6, <1>8, <1>9, <1>11, <1>19, <1>20, ChainStep DEF F, L, Tips

\* A number goes into the pipe that the child of p reads, and no other.
LEMMA Puts ==
  ASSUME Inv, ~failed, ChainInv, NEW p \in Procs, Frame(p), p \in Readers => p \in Readers', pc[p] = "write",
         NEW x \in Pipes, fd[p][loc[p].w] = End(x, "W"), NEW v, buf' = [buf EXCEPT ![x] = Append(@, v)]
  PROVE  /\ Readers' = Readers /\ Levels' = Levels
         /\ \E c \in Readers : /\ Parent(c) = p /\ Parent(c)' = p /\ fd[c][In(c)] = End(x, "R")
                               /\ Input(c) = x /\ Input(c)' = x
                               /\ \A d \in Readers \ {c} : Streams'[d] = Streams[d]
  <1>1. /\ Readers' = Readers
        /\ \A c \in Readers : /\ fd'[c][In(c)'] = fd[c][In(c)] /\ Parent(c)' = Parent(c) /\ Levels'[c] = Levels[c]
                              /\ Input(c)' = Input(c)
    <2>1. /\ Readers' \subseteq Readers /\ Readers \ Readers' \subseteq {p}
          /\ \A c \in Readers' : fd'[c][In(c)'] = fd[c][In(c)] /\ Parent(c)' = Parent(c) /\ Levels'[c] = Levels[c]
      BY Framed
    <2>2. Readers' = Readers
      <3>1. \A d \in Readers : d \in Readers'
        BY <2>1
      <3> QED
        BY <2>1, <3>1
    <2> QED
      BY <2>1, <2>2 DEF Input
  <1>2. Levels' = Levels
    BY <1>1 DEF Levels
  <1>3. PICK c \in Readers, y \in Pipes : Parent(c) = p /\ fd[p][loc[p].w] = End(y, "W") /\ fd[c][In(c)] = End(y, "R")
    BY Kin DEF Writing
  <1>4. y = x
    <2>1. End(x, "W").of = x /\ End(y, "W").of = y
      BY DEF End
    <2> QED
      BY <1>3, <2>1
  <1>5. fd[c][In(c)] = End(x, "R") /\ Input(c) = x /\ Input(c)' = x /\ Parent(c)' = p
    BY <1>1, <1>3, <1>4 DEF Input, End
  <1>6. ASSUME NEW d \in Readers \ {c} PROVE Streams'[d] = Streams[d]
    <2>1. PICK z \in Pipes : fd[d][In(d)] = End(z, "R")
      BY DEF ChainInv, PipesOK
    <2>2. z # x /\ Input(d) = z
      <3>1. fd[d][In(d)] # fd[c][In(c)]
        BY DEF ChainInv, PipesOK
      <3>2. Input(d) = z
        BY <2>1 DEF Input, End
      <3> QED
        BY <1>5, <2>1, <3>1, <3>2
    <2>3. buf'[z] = buf[z]
      BY <2>2 DEF Inv, ProcessInv, SystemOK
    <2>4. PICK q \in Procs : q # p /\ Parent(d) = q /\ Parent(d)' = q
      <3>1. Parent(d) \in Procs /\ Parent(d) # p
        BY <1>3, Kin
      <3> QED
        BY <1>1, <3>1
    <2>5. (Carries(q)' <=> Carries(q)) /\ loc'[q] = loc[q]
      BY <2>4 DEF Carries, Frame
    <2>6. Stream(d)' = Stream(d)
      <3>1. Input(d)' = z
        BY <1>1, <2>2
      <3> QED
        BY <2>2, <2>3, <2>4, <2>5, <3>1 DEF Stream
    <2> QED
      BY <1>1, <2>6 DEF Streams
  <1> QED
    BY <1>1, <1>2, <1>3, <1>5, <1>6

LEMMA WriteChain ==
  ASSUME Inv, Inv', ~failed, ~failed', ChainInv, NEW p \in Procs, write_number(p)
  PROVE  ChainInv' /\ output' = output /\ SameOutput
  <1>1. /\ SystemOK /\ pc \in [Procs -> Labels] /\ loc \in [Procs -> LocType] /\ TreeInv
        /\ Good(p, proc[p], fd[p], pc[p], loc[p]) /\ loc[p] \in LocType /\ pc[p] = "write"
        /\ loc[p].w \in Fds /\ loc[p].n \in 0..(N + 1) /\ loc[p].n \in Nat
    <2>1. /\ SystemOK /\ pc \in [Procs -> Labels] /\ loc \in [Procs -> LocType] /\ TreeInv
          /\ Good(p, proc[p], fd[p], pc[p], loc[p]) /\ loc[p] \in LocType /\ pc[p] = "write"
      BY DEF Inv, ProcessInv, write_number, At
    <2> QED
      BY <2>1, Constants DEF LocType
  <1>2. PICK x \in Pipes : fd[p][loc[p].w] = End(x, "W")
    BY <1>1 DEF Good, EndsOK, WriteLabels
  <1>3. fd[p][loc[p].w].of = x
    BY <1>2 DEF End
  <1>4. Numbers(Found, Readers, Streams, Levels, NextNumber) /\ LevelsOK(Found, Readers, Levels, [c \in Readers |-> Parent(c)])
    BY DEF ChainInv
  <1>5. Found \subseteq Items
    <2>1. output \in Seq(Items)
      BY DEF Inv, ProcessInv, GlobalsOK
    <2> QED
      BY <2>1, InSeq DEF Found
  <1>6. \A v : buf' = [buf EXCEPT ![x] = Append(@, v)] /\ (\E c \in Readers : fd[c][In(c)] = End(x, "R")) =>
           \A y \in Pipes : buf'[y] # <<>> => buf[y] # <<>> \/ (\E d \in Readers : fd[d][In(d)] = End(y, "R"))
    <2>1. buf \in [Pipes -> Seq(Items)]
      BY <1>1 DEF SystemOK
    <2> QED
      BY <2>1
  <1>7. CASE p = MAIN /\ ~InRange(loc[p].n) /\ UNCHANGED <<proc, fd, buf>> /\ Step(p, "closew")
    <2>1. /\ pc'[p] = "closew" /\ \A q \in Procs \ {p} : pc'[q] = pc[q]
          /\ loc' = loc /\ SameOutput /\ output' = output /\ proc' = proc /\ fd' = fd /\ buf' = buf
      BY <1>1, <1>7 DEF Step, Goto, SameOutput
    <2>2. p \notin Readers /\ p \notin Readers'
      BY <1>7 DEF Readers
    <2>3. Frame(p)
      BY <2>1, <2>2 DEF Frame
    <2>4. NextNumber' = NextNumber
      <3>1. loc[p].n = N + 1
        BY <1>1, <1>7, Constants DEF InRange
      <3> QED
        BY <1>1, <1>7, <2>1, <3>1 DEF NextNumber
    <2> QED
      BY <1>7, <2>1, <2>2, <2>3, <2>4, QuietStep DEF Carries, Tips
  <1>8. CASE /\ p = MAIN /\ InRange(loc[p].n) /\ write(p, loc[p].w, loc[p].n)
             /\ loc' = [loc EXCEPT ![p].n = @ + 1] /\ UNCHANGED pc /\ SameOutput
    <2>1. /\ buf' = [buf EXCEPT ![x] = Append(@, loc[p].n)] /\ proc' = proc /\ fd' = fd
          /\ pc' = pc /\ SameOutput /\ output' = output
      BY <1>3, <1>8 DEF write, SameOutput
    <2>2. loc'[p] = [loc[p] EXCEPT !.n = loc[p].n + 1] /\ \A q \in Procs \ {p} : loc'[q] = loc[q]
      BY <1>1, <1>8
    <2>3. loc'[p].n = loc[p].n + 1 /\ loc'[p].prime = loc[p].prime
      BY <1>1, <2>2 DEF LocType
    <2>4. p \notin Readers /\ p \notin Readers'
      BY <1>8 DEF Readers
    <2>5. Frame(p)
      BY <2>1, <2>2, <2>3, <2>4 DEF Frame
    <2>6. PICK c \in Readers : /\ Readers' = Readers /\ Levels' = Levels
                               /\ Parent(c) = p /\ Parent(c)' = p /\ fd[c][In(c)] = End(x, "R")
                               /\ Input(c) = x /\ Input(c)' = x
                               /\ \A d \in Readers \ {c} : Streams'[d] = Streams[d]
      BY <1>1, <1>2, <2>1, <2>4, <2>5, Puts
    <2>7. Streams[c] = buf[x] /\ Streams'[c] = Append(buf[x], loc[p].n)
      <3>1. ~Carries(p) /\ ~Carries(p)'
        BY <1>8 DEF Carries
      <3>2. Stream(c) = buf[x] /\ Stream(c)' = buf'[x]
        BY <2>6, <3>1 DEF Stream
      <3>3. buf'[x] = Append(buf[x], loc[p].n)
        BY <1>1, <2>1 DEF SystemOK
      <3> QED
        BY <2>6, <3>2, <3>3 DEF Streams
    <2>8. NextNumber = loc[p].n /\ NextNumber' = NextNumber + 1 /\ NextNumber \in Items
      <3>1. loc[p].n \in Items
        BY <1>1, <1>8, Constants DEF Good, InRange, Items
      <3> QED
        BY <1>1, <1>8, <2>1, <2>3, <3>1 DEF NextNumber
    <2>9. Levels[c] = 0 /\ Levels \in [Readers -> Nat] /\ \A d \in Readers : Levels[d] = Levels[c] => d = c
      <3>1. Levels[c] = loc[p].prime
        BY <2>6 DEF Levels
      <3>2. loc[p].prime = 0
        BY <1>8 DEF ChainInv
      <3>3. \A d \in Readers : Levels[d] = Levels[c] => d = c
        BY <1>4 DEF LevelsOK
      <3> QED
        BY <3>1, <3>2, <3>3, Kin
    <2>10. Streams'[c] = Append(Streams[c], NextNumber) /\ \A d \in Readers \ {c} : Streams'[d] = Streams[d]
      BY <2>6, <2>7, <2>8
    <2>11. Numbers(Found, Readers, Streams', Levels, NextNumber + 1)
      BY <1>4, <1>5, <2>8, <2>9, <2>10, Sends
    <2>12. \A y \in Pipes : buf'[y] # <<>> => buf[y] # <<>> \/ (\E d \in Readers : fd[d][In(d)] = End(y, "R"))
      BY <1>6, <2>1, <2>6
    <2> QED
      BY <1>1, <2>1, <2>5, <2>6, <2>8, <2>11, <2>12, ChainStep DEF Tips
  <1>9. CASE p # MAIN /\ write(p, loc[p].w, loc[p].n) /\ Step(p, "loop")
    <2>1. /\ buf' = [buf EXCEPT ![x] = Append(@, loc[p].n)] /\ proc' = proc /\ fd' = fd
          /\ loc' = loc /\ SameOutput /\ output' = output
          /\ pc'[p] = "loop" /\ \A q \in Procs \ {p} : pc'[q] = pc[q]
      BY <1>1, <1>3, <1>9 DEF write, SameOutput, Step, Goto
    <2>2. p \in Readers' /\ p \in Readers /\ In(p)' = In(p)
      BY <1>1, <1>9, <2>1 DEF Readers, Early, In, InAt
    <2>3. Frame(p)
      BY <2>1, <2>2 DEF Frame
    <2>4. PICK c \in Readers : /\ Readers' = Readers /\ Levels' = Levels
                               /\ Parent(c) = p /\ Parent(c)' = p /\ fd[c][In(c)] = End(x, "R")
                               /\ Input(c) = x /\ Input(c)' = x
                               /\ \A d \in Readers \ {c} : Streams'[d] = Streams[d]
      BY <1>1, <1>2, <2>1, <2>2, <2>3, Puts
    <2>5. Streams[c] = Append(buf[x], loc[p].n) /\ Streams'[c] = Append(buf[x], loc[p].n)
      <3>1. Carries(p) /\ ~Carries(p)'
        BY <1>1, <1>9, <2>1 DEF Carries
      <3>2. Stream(c) = Append(buf[x], loc[p].n) /\ Stream(c)' = buf'[x]
        BY <2>4, <3>1 DEF Stream
      <3>3. buf'[x] = Append(buf[x], loc[p].n)
        BY <1>1, <2>1 DEF SystemOK
      <3> QED
        BY <2>4, <3>2, <3>3 DEF Streams
    <2>6. NextNumber' = NextNumber
      BY <1>9, <2>1, SameNext
    <2>7. \A d \in Readers : Streams'[d] = Streams[d]
      BY <2>4, <2>5
    <2>8. Numbers(Found, Readers, Streams', Levels, NextNumber)
      BY <1>4, <2>7, SameNumbers
    <2>9. \A y \in Pipes : buf'[y] # <<>> => buf[y] # <<>> \/ (\E d \in Readers : fd[d][In(d)] = End(y, "R"))
      BY <1>6, <2>1, <2>4
    <2> QED
      BY <2>1, <2>3, <2>4, <2>6, <2>8, <2>9, ChainStep DEF Tips
  <1>10. ~Broken(p, loc[p].w)
    <2>1. PICK c \in Procs : Link(p, c)
      BY <1>1 DEF TreeInv, Writing
    <2>2. PICK y \in Pipes : fd[p][loc[p].w] = End(y, "W") /\ fd[c][In(c)] = End(y, "R")
      BY <2>1 DEF Link
    <2>3. y = x
      BY <1>3, <2>2 DEF End
    <2>4. In(c) \in Fds
      BY <1>1 DEF In, InAt, LocType
    <2> QED
      BY <1>3, <2>2, <2>3, <2>4 DEF Broken, Has
  <1> QED
    BY <1>7, <1>8, <1>9, <1>10 DEF write_number

LEMMA FoundIs == Inv => Found \subseteq Items /\ output \in Seq(Items) /\ \A k \in Found : k \in Nat /\ k >= 2
  <1> SUFFICES ASSUME Inv PROVE Found \subseteq Items /\ output \in Seq(Items) /\ \A k \in Found : k \in Nat /\ k >= 2
    OBVIOUS
  <1>1. output \in Seq(Items)
    BY DEF Inv, ProcessInv, GlobalsOK
  <1>2. Found \subseteq Items
    BY <1>1, InSeq DEF Found
  <1> QED
    BY <1>1, <1>2, Constants DEF Items

LEMMA PipeChain ==
  ASSUME Inv, ~failed, ChainInv, OneTip, NEW p \in Procs, At(p, "pipe"), pipe(p), Goto(p, "fork"), SameOutput,
         loc' = [loc EXCEPT ![p] = [@ EXCEPT !.r = ReadFd(p), !.w = WriteFd(p)]]
  PROVE  ChainInv'
  <1> DEFINE x == Least(Unused)
             a == ReadFd(p)
             b == WriteFd(p)
  <1>1. /\ SystemOK /\ pc \in [Procs -> Labels] /\ loc \in [Procs -> LocType]
        /\ Good(p, proc[p], fd[p], pc[p], loc[p]) /\ loc[p] \in LocType /\ pc[p] = "pipe"
        /\ fd \in [Procs -> Files] /\ fd[p] \in Files /\ buf \in [Pipes -> Seq(Items)]
    BY DEF Inv, ProcessInv, SystemOK, At
  <1>2. x \in Pipes /\ ~Has(x, "R")
    <2>1. Unused \subseteq Pipes /\ Unused # {}
      BY DEF Unused, pipe
    <2>2. x \in Unused
      BY <2>1, LeastIs, FS_Subset, Constants
    <2> QED
      BY <2>2 DEF Unused
  <1>3. /\ proc' = proc /\ a \in Fds /\ b \in Fds /\ a # b /\ fd[p][a] = NULL /\ fd[p][b] = NULL
        /\ \A i \in Fds \ {a, b} : fd'[p][i] = fd[p][i]
        /\ \A q \in Procs \ {p} : fd'[q] = fd[q]
    BY <1>1, Opens
  <1>4. fd'[p][a] = End(x, "R") /\ buf' = [buf EXCEPT ![x] = <<>>]
    <2>1. fd' = [fd EXCEPT ![p][a] = End(x, "R"), ![p][b] = End(x, "W")] /\ buf' = [buf EXCEPT ![x] = <<>>]
      BY DEF pipe
    <2>2. fd'[p] = [fd[p] EXCEPT ![a] = End(x, "R"), ![b] = End(x, "W")]
      BY <1>1, <2>1
    <2> QED
      BY <1>1, <1>3, <2>1, <2>2 DEF Files
  <1> HIDE DEF x, a, b
  <1>5. /\ pc'[p] = "fork" /\ \A q \in Procs \ {p} : pc'[q] = pc[q] /\ loc'[q] = loc[q]
        /\ loc'[p].in = loc[p].in /\ loc'[p].prime = loc[p].prime /\ loc'[p].n = loc[p].n /\ loc'[p].r = a
        /\ output' = output
    <2>1. loc'[p] = [loc[p] EXCEPT !.r = a, !.w = b] /\ \A q \in Procs \ {p} : loc'[q] = loc[q]
      BY <1>1 DEF a, b
    <2>2. pc'[p] = "fork" /\ \A q \in Procs \ {p} : pc'[q] = pc[q]
      BY <1>1 DEF Goto
    <2> QED
      BY <1>1, <2>1, <2>2 DEF LocType, SameOutput
  <1>6. Frame(p)
    <2>1. ASSUME p # MAIN PROVE In(p)' = In(p) /\ fd'[p][In(p)] = fd[p][In(p)]
      <3>1. In(p)' = In(p) /\ In(p) = loc[p].in
        BY <1>1, <1>5 DEF In, InAt
      <3>2. loc[p].in \in Fds /\ fd[p][loc[p].in] # NULL
        BY <1>1, <2>1 DEF Good, EndsOK, InLabels, LocType
      <3> QED
        BY <1>3, <3>1, <3>2
    <2>2. p \in Readers' => p # MAIN /\ p \in Readers
      BY <1>1 DEF Readers, Early
    <2> QED
      BY <1>3, <1>5, <2>1, <2>2 DEF Frame
  <1>7. ASSUME NEW d \in Readers PROVE Input(d) \in Pipes \ {x} /\ fd[d][In(d)] # End(x, "R")
    <2>1. PICK y \in Pipes : fd[d][In(d)] = End(y, "R")
      BY DEF ChainInv, PipesOK
    <2>2. d \in Procs /\ In(d) \in Fds
      BY <1>1 DEF Readers, In, InAt, LocType
    <2>3. Has(y, "R")
      BY <2>1, <2>2 DEF Has
    <2>4. y # x /\ Input(d) = y
      BY <1>2, <2>1, <2>3 DEF Input, End
    <2> QED
      BY <1>2, <2>1, <2>4, EndsDiffer
  <1>8. \A d \in Readers : buf'[Input(d)] = buf[Input(d)]
    BY <1>1, <1>4, <1>7
  <1>9. /\ Readers' = Readers
        /\ \A d \in Readers : fd'[d][In(d)'] = fd[d][In(d)] /\ Parent(d)' = Parent(d) /\ Levels'[d] = Levels[d]
    <2>1. /\ Readers' \subseteq Readers /\ Readers \ Readers' \subseteq {p}
          /\ \A d \in Readers' : fd'[d][In(d)'] = fd[d][In(d)] /\ Parent(d)' = Parent(d) /\ Levels'[d] = Levels[d]
      BY <1>6, Framed
    <2>2. p \in Readers => p \in Readers'
      BY <1>5 DEF Readers, Early
    <2>3. \A d \in Readers : d \in Readers'
      BY <2>1, <2>2
    <2> QED
      BY <2>1, <2>3
  <1>10. Numbers(Found, Readers', Streams', Levels', NextNumber')
    <2>1. NextNumber' = NextNumber
      BY <1>1, <1>5, SameNext
    <2>2. ~Carries(p) /\ ~Carries(p)'
      BY <1>1, <1>5 DEF Carries
    <2>3. p \in Readers' \/ p \notin Readers
      BY <1>9
    <2> QED
      BY <1>6, <1>8, <2>1, <2>2, <2>3, QuietNumbers
  <1>11. \A t \in Procs \ {p} : pc'[t] \notin Tips
    BY <1>1, <1>5 DEF OneTip, Tips
  <1>12. PipesOK'
    <2>1. ASSUME NEW q \in Procs, pc'[q] = "fork"
          PROVE  /\ \A d \in Readers' : fd'[d][In(d)'] # fd'[q][loc'[q].r]
                 /\ \A z \in Pipes : fd'[q][loc'[q].r] = End(z, "R") => buf'[z] = <<>>
      <3>1. q = p
        BY <1>11, <2>1 DEF Tips
      <3>2. \A z \in Pipes : End(x, "R") = End(z, "R") => z = x
        BY <1>2, EndsDiffer
      <3>3. buf'[x] = <<>>
        BY <1>1, <1>2, <1>4
      <3> QED
        BY <1>4, <1>5, <1>7, <1>9, <3>1, <3>2, <3>3
    <2> QED
      BY <1>6, <2>1, SameLevels DEF PipesOK
  <1>13. Found' = Found
    BY <1>5 DEF Found
  <1>14. ASSUME NEW t \in Procs PROVE TipOK(t)'
    <2>1. CASE t = p
      <3>1. TipOK(p)
        BY DEF ChainInv
      <3>2. p # MAIN => p \in Readers
        BY <1>1 DEF Readers, Early
      <3> QED
        BY <1>1, <1>5, <1>9, <1>13, <2>1, <3>1, <3>2 DEF TipOK
    <2>2. CASE t # p
      BY <1>11, <2>2 DEF TipOK, Tips
    <2> QED
      BY <2>1, <2>2
  <1>15. LevelsOK(Found, Readers', Levels', [d \in Readers' |-> Parent(d)'])
    BY <1>6, SameLevels
  <1>16. loc'[MAIN].prime = 0
    BY <1>5, Constants DEF ChainInv
  <1> QED
    BY <1>10, <1>12, <1>13, <1>14, <1>15, <1>16 DEF ChainInv

LEMMA ForkChain ==
  ASSUME Inv, ~failed, ChainInv, OneTip, NEW p \in Procs, At(p, "fork"), NEW c \in Procs, fork(p, c),
         pc' = [pc EXCEPT ![p] = "closer", ![c] = IF p = MAIN THEN "cclosew" ELSE "cclosein"],
         loc' = [loc EXCEPT ![c] = loc[p]], output' = output
  PROVE  ChainInv'
  <1> DEFINE l == IF p = MAIN THEN "cclosew" ELSE "cclosein"
  <1>1. /\ SystemOK /\ pc \in [Procs -> Labels] /\ loc \in [Procs -> LocType]
        /\ Good(p, proc[p], fd[p], pc[p], loc[p]) /\ Good(c, proc[c], fd[c], pc[c], loc[c])
        /\ loc[p] \in LocType /\ pc[p] = "fork" /\ Running(p)
        /\ fd \in [Procs -> Files] /\ proc \in [Procs -> ProcType]
    BY DEF Inv, ProcessInv, SystemOK, At
  <1>2. /\ proc[c].st = "free"
        /\ proc' = [proc EXCEPT ![c] = [st |-> "run", parent |-> p, code |-> 0]]
        /\ fd' = [fd EXCEPT ![c] = fd[p]] /\ buf' = buf
    BY <1>1, Forks DEF fork
  <1>3. p # c /\ pc[c] = "off" /\ c # MAIN /\ c \notin Readers
    BY <1>1, <1>2 DEF Running, Good, Readers, Early
  <1>4. /\ proc'[c].parent = p /\ fd'[c] = fd[p] /\ loc'[c] = loc[p] /\ pc'[c] = l
        /\ pc'[p] = "closer" /\ \A q \in Procs \ {p, c} : pc'[q] = pc[q]
        /\ \A q \in Procs \ {c} : proc'[q] = proc[q] /\ fd'[q] = fd[q] /\ loc'[q] = loc[q]
    BY <1>1, <1>2, <1>3
  <1>5. Readers' = Readers \cup {c}
    <2>1. pc'[c] \in Early /\ (pc[p] \in Early /\ pc'[p] \in Early)
      BY <1>1, <1>4 DEF Early
    <2>2. \A q \in Procs : q \in Readers' <=> q \in Readers \/ q = c
      BY <1>3, <1>4, <2>1 DEF Readers
    <2> QED
      BY <2>2 DEF Readers
  <1>6. PICK x \in Pipes : fd[p][loc[p].r] = End(x, "R") /\ buf[x] = <<>> /\ \A d \in Readers : fd[d][In(d)] # End(x, "R")
    <2>1. PICK x \in Pipes : fd[p][loc[p].r] = End(x, "R")
      BY <1>1 DEF Good, EndsOK, BothLabels
    <2>2. buf[x] = <<>> /\ \A d \in Readers : fd[d][In(d)] # fd[p][loc[p].r]
      BY <1>1, <2>1 DEF ChainInv, PipesOK
    <2> QED
      BY <2>1, <2>2
  <1>7. ASSUME NEW d \in Readers
        PROVE  /\ In(d)' = In(d) /\ fd'[d] = fd[d] /\ Parent(d)' = Parent(d)
               /\ Input(d)' = Input(d)
               /\ \E q \in Procs \ {p, c} : Parent(d) = q /\ pc'[q] = pc[q] /\ loc'[q] = loc[q]
    <2>1. d \in Procs /\ d # c
      BY <1>3 DEF Readers
    <2>2. In(d)' = In(d) /\ fd'[d] = fd[d]
      <3>1. CASE d = p
        BY <1>1, <1>3, <1>4, <3>1 DEF In, InAt
      <3>2. CASE d # p
        BY <1>4, <2>1, <3>2 DEF In
      <3> QED
        BY <3>1, <3>2
    <2>3. Parent(d)' = Parent(d)
      BY <1>4, <2>1 DEF Parent
    <2>4. Parent(d) \in Procs /\ pc[Parent(d)] \in WithChild
      BY Kin
    <2>5. Parent(d) \notin {p, c}
      BY <1>1, <1>3, <2>4 DEF WithChild
    <2> QED
      BY <1>4, <2>2, <2>3, <2>4, <2>5 DEF Input
  <1>8. In(c)' = loc[p].r /\ Parent(c)' = p /\ fd'[c][In(c)'] = End(x, "R") /\ Input(c)' = x
    <2>1. In(c)' = loc[p].r
      BY <1>4 DEF In, InAt
    <2> QED
      BY <1>4, <1>6, <2>1 DEF Parent, Input, End
  <1>9. /\ \A d \in Readers : Levels'[d] = Levels[d] /\ Streams'[d] = Streams[d]
        /\ Levels'[c] = loc[p].prime /\ Streams'[c] = <<>>
    <2>1. ASSUME NEW d \in Readers PROVE Levels'[d] = Levels[d] /\ Streams'[d] = Streams[d]
      <3>1. PICK q \in Procs \ {p, c} : Parent(d) = q /\ pc'[q] = pc[q] /\ loc'[q] = loc[q] /\ Parent(d)' = q
        BY <1>7
      <3>2. d \in Readers'
        BY <1>5
      <3>3. Carries(q)' <=> Carries(q)
        BY <3>1 DEF Carries
      <3>4. Stream(d)' = Stream(d)
        BY <1>2, <1>7, <3>1, <3>3 DEF Stream
      <3>5. Levels'[d] = Levels[d]
        BY <3>1, <3>2 DEF Levels
      <3> QED
        BY <3>2, <3>4, <3>5 DEF Streams
    <2>2. c \in Readers' /\ loc'[p] = loc[p] /\ ~Carries(p)'
      BY <1>3, <1>4, <1>5 DEF Carries
    <2>3. Stream(c)' = <<>>
      BY <1>2, <1>6, <1>8, <2>2 DEF Stream
    <2>4. Streams'[c] = <<>>
      BY <2>2, <2>3 DEF Streams
    <2>5. Levels'[c] = loc[p].prime
      BY <1>8, <2>2 DEF Levels
    <2> QED
      BY <2>1, <2>4, <2>5
  <1>10. Found' = Found
    BY DEF Found
  <1>11. NextNumber' = NextNumber
    <2>1. loc'[MAIN] = loc[MAIN]
      BY <1>3, <1>4, Constants
    <2>2. (pc[MAIN] = "fork" /\ pc'[MAIN] = "closer") \/ pc'[MAIN] = pc[MAIN]
      BY <1>1, <1>3, <1>4, Constants
    <2> QED
      BY <2>1, <2>2 DEF NextNumber
  <1>12. Numbers(Found, Readers', Streams', Levels', NextNumber)
    <2>1. Numbers(Found, Readers, Streams, Levels, NextNumber)
      BY DEF ChainInv
    <2>2. \A d \in Readers' : (d \in Readers /\ Streams'[d] = Streams[d] /\ Levels'[d] = Levels[d]) \/ Streams'[d] = <<>>
      BY <1>5, <1>9
    <2>3. \A d \in Readers : (d \in Readers' /\ Streams'[d] = Streams[d]) \/ Streams[d] = <<>>
      BY <1>5, <1>9
    <2> QED
      BY <2>1, <2>2, <2>3, SameNumbers
  <1>13. /\ \A k \in Found : k <= loc[p].prime
         /\ \A d \in Readers : Levels[d] < loc[p].prime
         /\ p # MAIN => /\ loc[p].prime \in Found
                        /\ \A k \in Found : k < loc[p].prime => k <= Levels[p]
    BY <1>1 DEF ChainInv, TipOK
  <1>14. Levels \in [Readers -> Nat] /\ loc[p].prime \in Nat
    BY Kin
  <1>15. LevelsOK(Found, Readers', Levels', [d \in Readers' |-> Parent(d)'])
    <2>0. LevelsOK(Found, Readers, Levels, [d \in Readers |-> Parent(d)])
      BY DEF ChainInv
    <2>1. \A d \in Readers' : Levels'[d] \in Found \cup {0}
      <3>1. p = MAIN => loc[p].prime = 0
        BY DEF ChainInv
      <3>2. Levels'[c] \in Found \cup {0}
        BY <1>9, <1>13, <3>1
      <3> QED
        BY <1>5, <1>9, <2>0, <3>2 DEF LevelsOK
    <2>2. ASSUME NEW d \in Readers', NEW e \in Readers', Levels'[d] = Levels'[e] PROVE d = e
      <3>1. \A f \in Readers : Levels'[f] # Levels'[c]
        <4>1. \A f \in Readers : Levels[f] \in Nat /\ Levels[f] < loc[p].prime
          BY <1>13, <1>14
        <4> QED
          BY <1>9, <1>14, <4>1
      <3>2. d \in Readers /\ e \in Readers => d = e
        BY <1>9, <2>0, <2>2 DEF LevelsOK
      <3> QED
        BY <1>5, <2>2, <3>1, <3>2
    <2>3. ASSUME NEW d \in Readers', NEW e \in Readers', Parent(d)' = e
          PROVE  Levels'[e] < Levels'[d] /\ \A k \in Found : k < Levels'[d] => k <= Levels'[e]
      <3>1. CASE d = c
        <4>1. e = p /\ e \in Readers /\ p # MAIN
          BY <1>3, <1>5, <1>8, <2>3, <3>1 DEF Readers
        <4> QED
          BY <1>9, <1>13, <3>1, <4>1
      <3>2. CASE d # c
        <4>1. d \in Readers /\ e \in Readers /\ Parent(d) = e
          BY <1>5, <1>7, <2>3, <3>2
        <4> QED
          BY <1>9, <2>0, <4>1 DEF LevelsOK
      <3> QED
        BY <3>1, <3>2
    <2> QED
      BY <2>1, <2>2, <2>3 DEF LevelsOK
  <1>16. \A t \in Procs \ {c} : pc'[t] \notin Tips
    BY <1>1, <1>4 DEF OneTip, Tips
  <1>17. PipesOK'
    <2>1. \A d \in Readers : fd'[d][In(d)'] = fd[d][In(d)]
      BY <1>7
    <2>2. \A d \in Readers' : \E y \in Pipes : fd'[d][In(d)'] = End(y, "R")
      BY <1>5, <1>8, <2>1 DEF ChainInv, PipesOK
    <2>3. ASSUME NEW d \in Readers', NEW e \in Readers', fd'[d][In(d)'] = fd'[e][In(e)'] PROVE d = e
      <3>1. d \in Readers /\ e \in Readers => d = e
        BY <2>1, <2>3 DEF ChainInv, PipesOK
      <3> QED
        BY <1>5, <1>6, <1>8, <2>1, <2>3, <3>1
    <2>4. \A q \in Procs : pc'[q] # "fork"
      <3>1. pc'[c] # "fork"
        BY <1>4
      <3> QED
        BY <1>16, <3>1 DEF Tips
    <2> QED
      BY <2>2, <2>3, <2>4 DEF PipesOK
  <1>18. ASSUME NEW t \in Procs PROVE TipOK(t)'
    <2>1. CASE t = c
      BY <1>4, <1>9, <1>10, <1>13, <2>1 DEF TipOK
    <2>2. CASE t # c
      BY <1>16, <2>2 DEF TipOK, Tips
    <2> QED
      BY <2>1, <2>2
  <1>19. loc'[MAIN].prime = 0
    BY <1>3, <1>4, Constants DEF ChainInv
  <1> QED
    BY <1>10, <1>11, <1>12, <1>15, <1>17, <1>18, <1>19 DEF ChainInv

LEMMA FilterChain ==
  ASSUME Inv, ~failed, ChainInv, OneTip, TTY, NEW p \in Procs, NEW n \in Items, At(p, "filter"), read(p, loc[p].in, n),
         printf(p, n), loc' = [loc EXCEPT ![p].prime = n], Goto(p, "pipe"),
         Ascending(output), \A k \in Found : \A m \in 2..k : m \in Found <=> IsPrime(m)
  PROVE  /\ ChainInv' /\ pending' = pending /\ Ascending(output)'
         /\ (\A k \in Found : \A m \in 2..k : m \in Found <=> IsPrime(m))'
  <1> DEFINE F == Found
             S == Streams
             L == Levels
  <1>1. /\ SystemOK /\ pc \in [Procs -> Labels] /\ loc \in [Procs -> LocType]
        /\ Good(p, proc[p], fd[p], pc[p], loc[p]) /\ loc[p] \in LocType /\ pc[p] = "filter"
    BY DEF Inv, ProcessInv, At
  <1>2. p # MAIN /\ p \in Readers /\ In(p) = loc[p].in /\ loc[p].in \in Fds /\ fd[p][loc[p].in] # NULL
    <2>1. p # MAIN
      BY <1>1 DEF Good
    <2> QED
      BY <1>1, <2>1 DEF Good, EndsOK, InLabels, LocType, Readers, Early, In, InAt
  <1>3. proc' = proc /\ fd' = fd /\ output' = Append(output, n) /\ pending' = pending
    BY <1>1, <1>2, Reads DEF printf
  <1>4. PICK x \in Pipes : fd[p][loc[p].in] = End(x, "R")
    BY <1>2 DEF ChainInv, PipesOK
  <1>5. buf[x] # <<>> /\ n = Head(buf[x]) /\ buf' = [buf EXCEPT ![x] = Tail(@)]
    <2>1. fd[p][loc[p].in].of = x
      BY <1>4 DEF End
    <2> QED
      BY <2>1, Constants DEF read
  <1>6. /\ \A q \in Procs \ {p} : pc'[q] = pc[q] /\ loc'[q] = loc[q]
        /\ pc'[p] = "pipe" /\ loc'[p].in = loc[p].in /\ loc'[p].prime = n
    <2>1. loc'[p] = [loc[p] EXCEPT !.prime = n] /\ \A q \in Procs \ {p} : loc'[q] = loc[q]
      BY <1>1
    <2>2. pc'[p] = "pipe" /\ \A q \in Procs \ {p} : pc'[q] = pc[q]
      BY <1>1 DEF Goto
    <2> QED
      BY <1>1, <2>1, <2>2 DEF LocType
  <1>7. p \in Readers' /\ In(p)' = In(p)
    BY <1>2, <1>6 DEF Readers, Early, In, InAt
  <1>8. \A d \in Readers : Parent(d) # p
    <2>1. \A d \in Readers : pc[Parent(d)] \in WithChild
      BY Kin
    <2> QED
      BY <1>1, <2>1 DEF WithChild
  <1>9. Frame(p)
    BY <1>2, <1>3, <1>6, <1>7, <1>8 DEF Frame
  <1>10. NextNumber' = NextNumber
    BY <1>2, <1>6, SameNext
  <1>11. ~Carries(p)
    BY <1>1 DEF Carries
  <1>12. /\ Readers' = Readers /\ Levels' = L
         /\ S[p] # <<>> /\ Head(S[p]) = n /\ Streams'[p] = Tail(S[p])
         /\ \A d \in Readers \ {p} : Streams'[d] = S[d]
    BY <1>2, <1>4, <1>5, <1>7, <1>8, <1>9, <1>11, Takes
  <1>13. /\ \A a \in Readers : L[a] \in F \cup {0}
         /\ \A a, b \in Readers : L[a] = L[b] => a = b
         /\ L \in [Readers -> Nat]
    BY Kin DEF ChainInv, LevelsOK
  <1>14. F \subseteq Items /\ output \in Seq(Items) /\ \A k \in F : k \in Nat /\ k >= 2
    BY FoundIs
  <1>15. \A k \in F : k <= L[p]
    BY <1>1 DEF ChainInv, TipOK
  <1>16. \A d \in Readers \ {p} : L[d] < L[p]
    <2> SUFFICES ASSUME NEW d \in Readers \ {p} PROVE L[d] < L[p]
      OBVIOUS
    <2>1. L[d] # L[p] /\ L[d] \in Nat /\ L[p] \in Nat /\ (L[d] = 0 \/ L[d] \in F)
      BY <1>2, <1>13
    <2>2. L[d] <= L[p]
      BY <1>15, <2>1
    <2> QED
      BY <2>1, <2>2
  <1>17. Numbers(F, Readers, S, L, NextNumber) /\ NextNumber \in Nat
    <2>1. loc[MAIN].n \in Nat
      BY <1>1, Constants DEF LocType
    <2> QED
      BY <2>1, Constants DEF ChainInv, NextNumber
  <1> HIDE DEF F, S, L
  <1>18. /\ n \in Items /\ \A k \in F : k < n
         /\ Numbers(F \cup {n}, Readers, Streams', L, NextNumber)
         /\ \A k \in F \cup {n} : \A m \in 2..k : m \in F \cup {n} <=> IsPrime(m)
    <2>1. \A k \in F : \A m \in 2..k : m \in F <=> IsPrime(m)
      BY DEF F
    <2>2. F \subseteq Items /\ L \in [Readers -> Nat] /\ NextNumber \in Nat /\ Numbers(F, Readers, S, L, NextNumber)
      BY <1>13, <1>14, <1>17
    <2>3. \A a \in Readers : L[a] \in F \cup {0}
      BY <1>13
    <2>4. S[p] # <<>> /\ Streams'[p] = Tail(S[p]) /\ \A d \in Readers \ {p} : Streams'[d] = S[d]
      BY <1>12
    <2>5. n = Head(S[p]) /\ p \in Readers
      BY <1>2, <1>12
    <2>6. (\A k \in F : k <= L[p]) /\ (\A d \in Readers \ {p} : L[d] < L[p])
      BY <1>15, <1>16
    <2> QED
      <3>1. Printing(F, Readers, S, L, NextNumber, p, n, Streams')
        BY <2>1, <2>2, <2>3, <2>4, <2>5, <2>6 DEF Printing
      <3> QED
        BY <3>1, Prints
  <1>19. Found' = F \cup {n} /\ Ascending(output)'
    <2>1. \A k \in ToSet(output) : k < n
      BY <1>18 DEF F, Found
    <2> QED
      BY <1>3, <1>14, <2>1, AppendIs DEF F, Found
  <1>20. \A k \in F \cup {n} : k \in Nat /\ k <= n
    BY <1>14, <1>18, Constants DEF Items
  <1>21. LevelsOK(F \cup {n}, Readers, L, [d \in Readers |-> Parent(d)'])
    <2>0. LevelsOK(F, Readers, L, [d \in Readers |-> Parent(d)'])
      BY <1>9, <1>12, SameLevels DEF F, L
    <2>1. \A d \in Readers : ~(n < L[d])
      <3>1. \A d \in Readers : L[d] \in Nat /\ (L[d] = 0 \/ L[d] < n)
        BY <1>13, <1>18
      <3> QED
        BY <1>20, <3>1
    <2> QED
      BY <2>0, <2>1 DEF LevelsOK
  <1>22. \A t \in Procs \ {p} : pc'[t] \notin Tips
    BY <1>1, <1>6 DEF OneTip, Tips
  <1>23. PipesOK'
    <2>1. \A q \in Procs : pc'[q] # "fork"
      BY <1>6, <1>22 DEF Tips
    <2> QED
      BY <1>9, <2>1, SameLevels DEF PipesOK
  <1>24. ASSUME NEW t \in Procs PROVE TipOK(t)'
    <2>1. CASE t = p
      <3>1. \A d \in Readers : L[d] < n
        <4>1. \A d \in Readers : L[d] \in Nat /\ (L[d] = 0 \/ L[d] < n)
          BY <1>13, <1>18
        <4>2. n > 0
          BY <1>18, Constants DEF Items
        <4> QED
          BY <4>1, <4>2
      <3>2. \A k \in F \cup {n} : k < n => k <= L[p]
        BY <1>15, <1>20
      <3>3. Levels'[p] = L[p] /\ \A d \in Readers' : Levels'[d] < n
        BY <1>12, <3>1
      <3> QED
        BY <1>6, <1>19, <1>20, <2>1, <3>2, <3>3 DEF TipOK
    <2>2. CASE t # p
      BY <1>22, <2>2 DEF TipOK, Tips
    <2> QED
      BY <2>1, <2>2
  <1>25. loc'[MAIN].prime = 0
    BY <1>2, <1>6, Constants DEF ChainInv
  <1>26. ChainInv'
    BY <1>10, <1>12, <1>18, <1>19, <1>21, <1>23, <1>24, <1>25 DEF ChainInv
  <1>27. (\A k \in Found : \A m \in 2..k : m \in Found <=> IsPrime(m))'
    BY <1>18, <1>19
  <1> QED
    BY <1>3, <1>19, <1>26, <1>27

-----------------------------------------------------------------------------
(***************************************************************************)
(* All steps keep it.                                                      *)
(***************************************************************************)
LEMMA TipStays ==
  ASSUME OneTip, NEW p \in Procs, \A q \in Procs \ {p} : pc'[q] = pc[q], pc'[p] \in Tips => pc[p] \in Tips,
         failed' = failed \/ (pc[p] \in Tips /\ pc'[p] \notin Tips)
  PROVE  OneTip'
  BY DEF OneTip

LEMMA Silent ==
  ASSUME OutputInv, output' = output, pending' = pending \/ \A p \in Procs : pending'[p] = <<>>
  PROVE  OutputInv'
  BY DEF OutputInv, Found, Ascending

LEMMA ExitsSilently ==
  ASSUME Inv, OutputInv, NEW p \in Procs, NEW code, Exits(p, code)
  PROVE  /\ output' = output /\ OutputInv' /\ pc'[p] = "off" /\ \A q \in Procs \ {p} : pc'[q] = pc[q]
  <1>1. pc \in [Procs -> Labels] /\ output \in Seq(Items) /\ pending \in [Procs -> Seq(Items)]
    BY DEF Inv, ProcessInv, GlobalsOK
  <1>2. pending[p] = <<>> /\ output' = output \o pending[p] /\ pending' = [pending EXCEPT ![p] = <<>>]
    BY DEF Exits, OutputInv
  <1>3. output' = output
    BY <1>1, <1>2
  <1>4. \A q \in Procs : pending'[q] = <<>>
    BY <1>1, <1>2 DEF OutputInv
  <1>5. pc'[p] = "off" /\ \A q \in Procs \ {p} : pc'[q] = pc[q]
    BY <1>1 DEF Exits, Off, Goto
  <1> QED
    BY <1>3, <1>4, <1>5, Silent

LEMMA SieveStep ==
  ASSUME SieveInv, Inv', TTY, NEW p \in Procs, Process(p)
  PROVE  SieveInv'
  <1>0. Inv /\ OneTip /\ OutputInv /\ (~failed => ChainInv) /\ pc \in [Procs -> Labels]
    BY DEF SieveInv, Inv, ProcessInv
  <1>1. CASE make_pipe(p)
    <2>1. pc[p] = "pipe" /\ At(p, "pipe") /\ ~failed /\ pc[p] \in Tips
      BY <1>0, <1>1 DEF make_pipe, At, OneTip, Tips
    <2>2. CASE /\ pipe(p) /\ Goto(p, "fork") /\ SameOutput
               /\ loc' = [loc EXCEPT ![p] = [@ EXCEPT !.r = ReadFd(p), !.w = WriteFd(p)]] /\ UNCHANGED failed
      <3>1. ChainInv'
        BY <1>0, <2>1, <2>2, PipeChain
      <3>2. OutputInv'
        BY <1>0, <2>2, Silent DEF SameOutput
      <3>3. OneTip'
        BY <1>0, <2>1, <2>2, TipStays DEF Goto
      <3> QED
        BY <3>1, <3>2, <3>3 DEF SieveInv
    <2>3. CASE Exits(p, Error) /\ failed' = TRUE
      <3>1. OutputInv' /\ pc'[p] = "off" /\ \A q \in Procs \ {p} : pc'[q] = pc[q]
        BY <1>0, <2>3, ExitsSilently
      <3>2. OneTip'
        BY <1>0, <2>1, <3>1, TipStays DEF Tips
      <3> QED
        BY <2>3, <3>1, <3>2 DEF SieveInv
    <2> QED
      BY <1>1, <2>2, <2>3 DEF make_pipe
  <1>2. CASE make_child(p)
    <2>1. pc[p] = "fork" /\ At(p, "fork") /\ ~failed /\ pc[p] \in Tips
      BY <1>0, <1>2 DEF make_child, At, OneTip, Tips
    <2>2. ASSUME NEW c \in Procs, fork(p, c),
                 pc' = [pc EXCEPT ![p] = "closer", ![c] = IF p = MAIN THEN "cclosew" ELSE "cclosein"],
                 loc' = [loc EXCEPT ![c] = loc[p]],
                 pending' = [pending EXCEPT ![c] = pending[p]], UNCHANGED <<output, failed>>
          PROVE  SieveInv'
      <3>1. ChainInv'
        BY <1>0, <2>1, <2>2, ForkChain
      <3>2. OutputInv'
        <4>1. \A q \in Procs : pending'[q] = <<>>
          BY <1>0, <2>2 DEF OutputInv, Inv, ProcessInv, GlobalsOK
        <4> QED
          BY <1>0, <2>2, <4>1, Silent
      <3>3. OneTip'
        <4>1. pc'[p] \notin Tips \/ p = c
          BY <1>0, <2>2 DEF Tips
        <4>2. \A q \in Procs \ {c} : pc'[q] \notin Tips
          BY <1>0, <2>1, <2>2, <4>1 DEF OneTip
        <4> QED
          BY <2>1, <2>2, <4>2 DEF OneTip
      <3> QED
        BY <2>1, <3>1, <3>2, <3>3 DEF SieveInv
    <2>3. CASE Exits(p, Error) /\ failed' = TRUE
      <3>1. OutputInv' /\ pc'[p] = "off" /\ \A q \in Procs \ {p} : pc'[q] = pc[q]
        BY <1>0, <2>3, ExitsSilently
      <3>2. OneTip'
        BY <1>0, <2>1, <3>1, TipStays DEF Tips
      <3> QED
        BY <2>3, <3>1, <3>2 DEF SieveInv
    <2> QED
      BY <1>2, <2>2, <2>3 DEF make_child
  <1>3. CASE filter(p) /\ UNCHANGED failed
    <2>1. pc[p] = "filter" /\ At(p, "filter") /\ ~failed /\ pc[p] \in Tips
      BY <1>0, <1>3 DEF filter, At, OneTip, Tips
    <2>2. PICK v \in Items \cup {NULL} :
             /\ read(p, loc[p].in, v)
             /\ IF v = NULL THEN Step(p, "exit")
                ELSE printf(p, v) /\ loc' = [loc EXCEPT ![p].prime = v] /\ Goto(p, "pipe")
      BY <1>3 DEF filter, Items
    <2>3. CASE v = NULL
      <3>1. ChainInv'
        BY <1>0, <1>3, <2>1, <2>2, <2>3, FilterEnds
      <3>2. OutputInv'
        BY <1>0, <2>2, <2>3, Silent DEF Step, SameOutput
      <3>3. OneTip'
        BY <1>0, <1>3, <2>1, <2>2, <2>3, TipStays DEF Step, Goto
      <3> QED
        BY <3>1, <3>2, <3>3 DEF SieveInv
    <2>4. CASE v # NULL
      <3>1. /\ ChainInv' /\ pending' = pending /\ Ascending(output)'
            /\ (\A k \in Found : \A m \in 2..k : m \in Found <=> IsPrime(m))'
        <4>1. Ascending(output) /\ \A k \in Found : \A m \in 2..k : m \in Found <=> IsPrime(m)
          BY <1>0 DEF OutputInv
        <4> QED
          BY <1>0, <2>1, <2>2, <2>4, <4>1, FilterChain
      <3>2. OutputInv'
        BY <1>0, <3>1 DEF OutputInv
      <3>3. OneTip'
        BY <1>0, <1>3, <2>1, <2>2, <2>4, TipStays DEF Goto
      <3> QED
        BY <3>1, <3>2, <3>3 DEF SieveInv
    <2> QED
      BY <2>3, <2>4
  <1>4. CASE /\ UNCHANGED failed
             /\ \/ child_close_in(p) \/ child_close_write(p) \/ close_read(p) \/ close_in(p) \/ close_write(p)
    <2>1. ~failed => ChainInv'
      BY <1>0, <1>4, ClosesChain
    <2>2. SameOutput /\ \E l \in Labels : /\ Goto(p, l) /\ (l \in Tips => pc[p] \in Tips)
      BY <1>4 DEF child_close_in, child_close_write, close_read, close_in, close_write, Step, At, Tips, Labels
    <2>3. OutputInv'
      BY <1>0, <2>2, Silent DEF SameOutput
    <2>4. OneTip'
      BY <1>0, <1>4, <2>2, TipStays DEF Goto
    <2> QED
      BY <1>4, <2>1, <2>3, <2>4 DEF SieveInv
  <1>5. CASE loop(p) /\ UNCHANGED failed
    <2>1. PICK v \in Items \cup {NULL} :
             /\ At(p, "loop") /\ read(p, loc[p].in, v) /\ SameOutput
             /\ IF v = NULL THEN Goto(p, "closein") /\ UNCHANGED loc
                ELSE IF Passes(v, loc[p].prime) THEN Goto(p, "write") /\ loc' = [loc EXCEPT ![p].n = v]
                ELSE UNCHANGED <<pc, loc>>
      BY <1>5 DEF loop, Items
    <2>2. ASSUME ~failed PROVE ChainInv'
      <3>1. CASE v = NULL
        BY <1>0, <1>5, <2>1, <2>2, <3>1, FilterEnds
      <3>2. CASE v # NULL
        BY <1>0, <1>5, <2>1, <2>2, <3>2, LoopChain
      <3> QED
        BY <3>1, <3>2
    <2>3. OutputInv'
      BY <1>0, <2>1, Silent DEF SameOutput
    <2>4. OneTip'
      <3>1. pc'[p] \notin Tips /\ \A q \in Procs \ {p} : pc'[q] = pc[q]
        BY <1>0, <2>1 DEF At, Goto, Tips
      <3> QED
        BY <1>0, <1>5, <3>1, TipStays
    <2> QED
      BY <1>5, <2>2, <2>3, <2>4 DEF SieveInv
  <1>6. CASE write_number(p) /\ UNCHANGED failed
    <2>1. pc[p] = "write" /\ pc'[p] \notin Tips /\ \A q \in Procs \ {p} : pc'[q] = pc[q]
      BY <1>0, <1>6 DEF write_number, At, Step, Goto, Off, Tips
    <2>2. OneTip'
      BY <1>0, <1>6, <2>1, TipStays
    <2>3. OutputInv'
      <3>1. output' = output /\ (pending' = pending \/ pending' = [pending EXCEPT ![p] = <<>>])
        BY <1>6 DEF write_number, Step, SameOutput
      <3>2. pending' = pending \/ \A q \in Procs : pending'[q] = <<>>
        BY <1>0, <3>1 DEF OutputInv, Inv, ProcessInv, GlobalsOK
      <3> QED
        BY <1>0, <3>1, <3>2, Silent
    <2>4. ~failed => ChainInv'
      BY <1>0, <1>6, WriteChain
    <2> QED
      BY <1>6, <2>2, <2>3, <2>4 DEF SieveInv
  <1>7. CASE wait(p) /\ UNCHANGED failed
    <2>1. SameOutput /\ Goto(p, "exit")
      BY <1>7 DEF wait, Step
    <2>2. OutputInv'
      BY <1>0, <2>1, Silent DEF SameOutput
    <2>3. OneTip'
      BY <1>0, <1>7, <2>1, TipStays DEF Goto, Tips
    <2>4. ~failed => ChainInv'
      BY <1>0, <1>7, WaitChain
    <2> QED
      BY <1>7, <2>2, <2>3, <2>4 DEF SieveInv
  <1>8. CASE return(p) /\ UNCHANGED failed
    <2>1. output' = output /\ OutputInv' /\ pc'[p] = "off" /\ \A q \in Procs \ {p} : pc'[q] = pc[q]
      BY <1>0, <1>8, ExitsSilently DEF return
    <2>2. OneTip'
      BY <1>0, <1>8, <2>1, TipStays DEF Tips
    <2>3. ~failed => ChainInv'
      BY <1>0, <1>8, <2>1, ReturnChain
    <2> QED
      BY <1>8, <2>1, <2>2, <2>3 DEF SieveInv
  <1> QED
    BY <1>1, <1>2, <1>3, <1>4, <1>5, <1>6, <1>7, <1>8 DEF Process

LEMMA SieveStutter ==
  ASSUME SieveInv, UNCHANGED pVars
  PROVE  SieveInv'
  <1>1. /\ Inv /\ OneTip /\ OutputInv /\ (~failed => ChainInv)
        /\ proc' = proc /\ fd' = fd /\ buf' = buf /\ pc' = pc /\ loc' = loc
        /\ pending' = pending /\ output' = output /\ failed' = failed
    BY DEF SieveInv, pVars
  <1>2. Inv' /\ OutputInv'
    BY <1>1, Stutter, Silent
  <1>3. OneTip'
    BY <1>1 DEF OneTip
  <1>4. /\ Readers' = Readers /\ Found' = Found /\ NextNumber' = NextNumber
        /\ \A c : In(c)' = In(c) /\ Parent(c)' = Parent(c) /\ Input(c)' = Input(c)
        /\ \A c : Carries(c)' <=> Carries(c)
    BY <1>1 DEF Readers, Found, NextNumber, In, Parent, Input, Carries
  <1>5. Streams' = Streams /\ Levels' = Levels
    BY <1>1, <1>4 DEF Streams, Stream, Levels
  <1>6. ASSUME ChainInv PROVE ChainInv'
    <2>1. PipesOK'
      BY <1>1, <1>4, <1>6 DEF ChainInv, PipesOK
    <2>2. \A t \in Procs : TipOK(t)'
      BY <1>1, <1>4, <1>5, <1>6 DEF ChainInv, TipOK
    <2>3. LevelsOK(Found, Readers', Levels', [c \in Readers' |-> Parent(c)'])
      BY <1>4, <1>5, <1>6 DEF ChainInv
    <2>4. loc'[MAIN].prime = 0 /\ Numbers(Found, Readers', Streams', Levels', NextNumber')
      BY <1>1, <1>4, <1>5, <1>6 DEF ChainInv
    <2> QED
      BY <1>4, <2>1, <2>2, <2>3, <2>4 DEF ChainInv
  <1> QED
    BY <1>1, <1>2, <1>3, <1>6 DEF SieveInv

LEMMA SieveStart == Init => SieveInv
  <1> SUFFICES ASSUME Init PROVE SieveInv
    OBVIOUS
  <1>1. /\ fd = [p \in Procs |-> [i \in Fds |-> IF p = MAIN /\ i \in {STDIN, STDOUT} THEN File ELSE NULL]]
        /\ pc = [p \in Procs |-> IF p = MAIN THEN "pipe" ELSE "off"]
        /\ loc = [p \in Procs |-> [NoLoc EXCEPT !.n = IF p = MAIN THEN 2 ELSE 0]]
        /\ pending = [p \in Procs |-> <<>>] /\ output = <<>> /\ failed = FALSE
    BY DEF Init, UnixInit
  <1>2. Inv
    BY Start
  <1>3. OneTip
    BY <1>1 DEF OneTip, Tips
  <1>4. Readers = {} /\ Found = {}
    BY <1>1, EmptyIs DEF Readers, Early, Found
  <1>5. OutputInv
    BY <1>1, <1>4, EmptyIs DEF OutputInv
  <1>6. loc[MAIN].prime = 0 /\ loc[MAIN].n = 2 /\ pc[MAIN] = "pipe"
    BY <1>1, Constants DEF NoLoc
  <1>7. NextNumber = 2
    BY <1>6 DEF NextNumber
  <1>8. ChainInv
    <2>1. PipesOK
      BY <1>1, <1>4 DEF PipesOK
    <2>2. \A t \in Procs : TipOK(t)
      BY <1>1, <1>4 DEF TipOK
    <2>3. LevelsOK(Found, Readers, Levels, [c \in Readers |-> Parent(c)])
      BY <1>4 DEF LevelsOK
    <2>4. Numbers(Found, Readers, Streams, Levels, NextNumber)
      BY <1>4, <1>7 DEF Numbers
    <2> QED
      BY <1>6, <2>1, <2>2, <2>3, <2>4 DEF ChainInv
  <1> QED
    BY <1>2, <1>3, <1>5, <1>8 DEF SieveInv

\* When every process ended, the numbers printed are the primes: each number to N
\* has a divisor among them, and they are primes.
LEMMA Complete ==
  ASSUME SieveInv, Ended, ~failed
  PROVE  Found = {n \in 2..N : IsPrime(n)}
  <1>1. Inv /\ OutputInv /\ ChainInv
    BY DEF SieveInv
  <1>2. Readers = {} /\ NextNumber = N + 1
    <2>1. pc[MAIN] = "off" /\ \A p \in Procs : pc[p] \notin Early
      BY Constants DEF Ended, Early
    <2> QED
      BY <2>1 DEF Readers, NextNumber
  <1>3. Found \subseteq Items /\ \A k \in Found : k \in Nat /\ k >= 2
    BY <1>1, FoundIs
  <1>4. ASSUME NEW m \in Items PROVE \E k \in Found : m % k = 0
    <2>1. m \in 2..(NextNumber - 1)
      BY <1>2, Constants DEF Items
    <2> QED
      BY <1>1, <1>2, <2>1 DEF ChainInv, Numbers
  <1>5. ASSUME NEW n \in Items, IsPrime(n) PROVE n \in Found
    <2>1. PICK k \in Found : n % k = 0
      BY <1>4
    <2>2. k \in Nat /\ k >= 2 /\ n \in Nat /\ n >= 2
      BY <1>3, Constants DEF Items
    <2>3. CASE k < n
      <3>1. k \in 2..(n - 1)
        BY <2>2, <2>3
      <3> QED
        BY <1>5, <2>1, <3>1 DEF IsPrime
    <2>4. CASE k > n
      <3>1. n % k = n
        BY <2>2, <2>4
      <3> QED
        BY <2>1, <2>2, <3>1
    <2> QED
      BY <2>1, <2>2, <2>3, <2>4
  <1>6. ASSUME NEW n \in Found PROVE n \in Items /\ IsPrime(n)
    <2>1. n \in 2..n
      BY <1>3
    <2> QED
      BY <1>1, <1>3, <2>1 DEF OutputInv
  <1> QED
    BY <1>5, <1>6 DEF Items

\* On a terminal the numbers come out in order and are the first primes, whatever
\* process fails; when all processes ended and none failed, they are all the
\* primes to N, each once (primes.c:40-43, 67-74).  With the output redirected
\* a child prints again what it inherits, and this does not hold.
THEOREM PrintsThePrimes ==
  ASSUME TTY
  PROVE  Spec => []OutputOK
  <1>1. Init => SieveInv
    BY SieveStart
  <1>2. SieveInv /\ [Next]_pVars => SieveInv'
    <2> SUFFICES ASSUME SieveInv, [Next]_pVars PROVE SieveInv'
      OBVIOUS
    <2>1. Inv'
      BY NextKeeps DEF SieveInv
    <2>2. CASE UNCHANGED pVars
      BY <2>2, SieveStutter
    <2>3. ASSUME NEW p \in Procs, Process(p) PROVE SieveInv'
      BY <2>1, <2>3, SieveStep
    <2> QED
      BY <2>2, <2>3 DEF Next
  <1>3. SieveInv /\ TypeOK => OutputOK
    <2> SUFFICES ASSUME SieveInv, TypeOK PROVE FirstPrimes /\ AllPrimes
      BY DEF OutputOK
    <2>1. FirstPrimes
      BY DEF SieveInv, OutputInv, FirstPrimes
    <2>2. AllPrimes
      BY Complete DEF SieveInv, OutputInv, AllPrimes
    <2> QED
      BY <2>1, <2>2
  <1> QED
    BY <1>1, <1>2, <1>3, WellTyped, PTL DEF Spec
=============================================================================
