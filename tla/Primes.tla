------------------------------- MODULE Primes ------------------------------
(***************************************************************************)
(* The sieve of src/fork/primes.c: a process writes 2..N to a pipe, and    *)
(* each filter prints the first number it reads, and passes on what is not *)
(* a multiple of it to the next filter, a child that it forks.             *)
(*                                                                         *)
(* printf writes to a buffer of the process, that goes out at every line   *)
(* on a terminal (TTY), else at exit; a child inherits what is in it.      *)
(***************************************************************************)
EXTENDS Unix, SequencesExt

CONSTANTS
    N,    \* the argument
    TTY   \* the output is a terminal

ASSUME PrimesAssumption == N \in Nat \ {0, 1} /\ TTY \in BOOLEAN

MAIN == 1

VARIABLES
    pc,       \* pc[p]: where the process is
    loc,      \* loc[p]: its locals
    pending,  \* pending[p]: the buffer of its stdout
    output,   \* the numbers that went out
    failed    \* pipe or fork failed in some process (history)

pVars == <<proc, fd, buf, pc, loc, pending, output, failed>>

\* in: descriptor it reads; r, w: of the pipe it makes; n: number in hand.
NoLoc == [in |-> 0, r |-> 0, w |-> 0, prime |-> 0, n |-> 0]

Labels == {"pipe", "fork", "closer", "closew", "loop", "write", "closein", "wait", "exit", "off",
           "filter", "cclosein", "cclosew"}

TypeOK ==
    /\ UnixTypeOK
    /\ pc \in [Procs -> Labels] /\ \A p \in Procs : Running(p) <=> pc[p] # "off"
    /\ loc \in [Procs -> [in : Fds, r : Fds, w : Fds, prime : 0..N, n : 0..(N + 1)]]
    /\ ToSet(output) \subseteq 2..N /\ \A x \in Pipes : ToSet(buf[x]) \subseteq 2..N
    /\ \A p \in Procs : ToSet(pending[p]) \subseteq 2..N
    /\ failed \in BOOLEAN

Init ==
    /\ UnixInit(MAIN)
    /\ pc = [p \in Procs |-> IF p = MAIN THEN "pipe" ELSE "off"]
    /\ loc = [p \in Procs |-> [NoLoc EXCEPT !.n = IF p = MAIN THEN 2 ELSE 0]]
    /\ pending = [p \in Procs |-> <<>>] /\ output = <<>> /\ failed = FALSE

-----------------------------------------------------------------------------
At(p, label)   == Running(p) /\ pc[p] = label
Goto(p, label) == pc' = [pc EXCEPT ![p] = label]
SameOutput     == UNCHANGED <<pending, output>>
Step(p, label) == Goto(p, label) /\ UNCHANGED loc /\ SameOutput
Off(p)         == Goto(p, "off") /\ loc' = [loc EXCEPT ![p] = NoLoc]

\* exit, or the return of main: what is in the buffer goes out.
Exits(p, code) ==
    /\ exit(p, code * 256) /\ Off(p)
    /\ output' = output \o pending[p] /\ pending' = [pending EXCEPT ![p] = <<>>]
Error == 255

printf(p, prime) ==
    IF TTY THEN output' = Append(output, prime) /\ UNCHANGED pending
    ELSE pending' = [pending EXCEPT ![p] = Append(@, prime)] /\ UNCHANGED output

-----------------------------------------------------------------------------
\* filter: the first number, or nothing to do.
filter(p) ==
    /\ At(p, "filter")
    /\ \E prime \in 2..N \cup {NULL} :
          /\ read(p, loc[p].in, prime)
          /\ IF prime = NULL THEN Step(p, "exit")
             ELSE printf(p, prime) /\ loc' = [loc EXCEPT ![p].prime = prime] /\ Goto(p, "pipe")

\* The pipe to the next filter; from main, to the first.
make_pipe(p) ==
    /\ At(p, "pipe")
    /\ \/ /\ pipe(p) /\ Goto(p, "fork") /\ SameOutput
          /\ loc' = [loc EXCEPT ![p] = [@ EXCEPT !.r = ReadFd(p), !.w = WriteFd(p)]] /\ UNCHANGED failed
       \/ MayFail /\ Exits(p, Error) /\ failed' = TRUE

\* The child of a filter closes what that reads; the child of main has no such.
make_child(p) ==
    /\ At(p, "fork")
    /\ \/ \E c \in Procs :
             /\ fork(p, c)
             /\ pc' = [pc EXCEPT ![p] = "closer", ![c] = IF p = MAIN THEN "cclosew" ELSE "cclosein"]
             /\ loc' = [loc EXCEPT ![c] = loc[p]]
             /\ pending' = [pending EXCEPT ![c] = pending[p]] /\ UNCHANGED <<output, failed>>
       \/ MayFail /\ Exits(p, Error) /\ failed' = TRUE

child_close_in(p) == At(p, "cclosein") /\ close(p, loc[p].in) /\ Step(p, "cclosew")
\* Mutant: the child keeps the end of the pipe that its parent writes to.
child_close_write_Skipped(p) ==
    /\ At(p, "cclosew") /\ UNCHANGED <<proc, fd, buf>>
    /\ loc' = [loc EXCEPT ![p] = [NoLoc EXCEPT !.in = loc[p].r]] /\ Goto(p, "filter") /\ SameOutput
child_close_write(p) ==
    /\ At(p, "cclosew") /\ close(p, loc[p].w)
    /\ loc' = [loc EXCEPT ![p] = [NoLoc EXCEPT !.in = loc[p].r]] /\ Goto(p, "filter") /\ SameOutput

close_read(p) == At(p, "closer") /\ close(p, loc[p].r) /\ Step(p, IF p = MAIN THEN "write" ELSE "loop")

\* Mutant: passes on the multiples too.
Passes_All(n, prime) == TRUE
Passes(n, prime) == n % prime # 0
\* A filter reads the next number, and passes it on unless it is a multiple.
loop(p) ==
    /\ At(p, "loop")
    /\ \E n \in 2..N \cup {NULL} :
          /\ read(p, loc[p].in, n) /\ SameOutput
          /\ IF n = NULL THEN Goto(p, "closein") /\ UNCHANGED loc
             ELSE IF Passes(n, loc[p].prime) THEN Goto(p, "write") /\ loc' = [loc EXCEPT ![p].n = n]
             ELSE UNCHANGED <<pc, loc>>
close_in(p) == At(p, "closein") /\ close(p, loc[p].in) /\ Step(p, "closew")

\* Mutant: stops one short.
InRange_Strict(n) == n < N
InRange(n) == n <= N
\* main writes the next number from 2 to N, a filter the one in hand.  Without
\* a reader the signal ends the process, its buffer lost.
write_number(p) ==
    /\ At(p, "write")
    /\ \/ /\ p = MAIN /\ ~InRange(loc[p].n) /\ UNCHANGED <<proc, fd, buf>> /\ Step(p, "closew")
       \/ /\ p = MAIN /\ InRange(loc[p].n) /\ write(p, loc[p].w, loc[p].n)
          /\ loc' = [loc EXCEPT ![p].n = @ + 1] /\ UNCHANGED pc /\ SameOutput
       \/ p # MAIN /\ write(p, loc[p].w, loc[p].n) /\ Step(p, "loop")
       \/ /\ p = MAIN => InRange(loc[p].n)
          /\ Broken(p, loc[p].w) /\ exit(p, SIGPIPE) /\ Off(p)
          /\ pending' = [pending EXCEPT ![p] = <<>>] /\ UNCHANGED output

close_write(p) == At(p, "closew") /\ close(p, loc[p].w) /\ Step(p, "wait")
\* Mutant: ends without its child.
wait_Skipped(p) == At(p, "wait") /\ UNCHANGED <<proc, fd, buf>> /\ Step(p, "exit")
wait(p) == \E c \in Zombies(p) : At(p, "wait") /\ reap(c) /\ Step(p, "exit")
return(p) == At(p, "exit") /\ Exits(p, 0)

Process(p) ==
    \/ make_pipe(p) \/ make_child(p)
    \/ /\ UNCHANGED failed
       /\ \/ filter(p) \/ child_close_in(p) \/ child_close_write(p) \/ close_read(p) \/ loop(p)
          \/ close_in(p) \/ write_number(p) \/ close_write(p) \/ wait(p) \/ return(p)
Next == \E p \in Procs : Process(p)

\* The system runs a process whenever one can go on.
Fairness == WF_pVars(Next)
Spec == Init /\ [][Next]_pVars
LiveSpec == Spec /\ Fairness

-----------------------------------------------------------------------------
(***************************************************************************)
(* Properties.                                                             *)
(***************************************************************************)
IsPrime(n)   == \A d \in 2..(n - 1) : n % d # 0
Ascending(s) == \A i, j \in DOMAIN s : i < j => s[i] < s[j]
Found == ToSet(output)
Ended == \A p \in Procs : pc[p] = "off"

\* On a terminal the numbers come out in order and are the first primes, whatever
\* process fails (primes.c:40-43, 67-74).
FirstPrimes == TTY => Ascending(output) /\ \A k \in Found : \A m \in 2..k : m \in Found <=> IsPrime(m)

\* When every process ended and nothing failed, the output is the primes to N,
\* each once (primes.c:43, with the buffer that fork copies).
AllPrimes == Ended /\ ~failed => Ascending(output) /\ Found = {n \in 2..N : IsPrime(n)}

\* Both, and every variable has its type.
OutputOK == TypeOK /\ FirstPrimes /\ AllPrimes

\* Nobody is still running, and no pipe is open, when main returns and nothing
\* failed: each process closes its ends and then waits (primes.c:75-77, 112-113).
MainIsLast == pc[MAIN] = "off" /\ ~failed => Ended /\ Unused = Pipes

\* The processes all end: the end of the numbers reaches the last filter through
\* pipes that nobody else has open, and the waits come back from there.
Ends == <>[]Ended
=============================================================================
