---------------------------- MODULE FileService ----------------------------
(***************************************************************************)
(* What the file server promises: each call of each process on an open     *)
(* file happens at one moment between the call and its return, on the file *)
(* that was opened, at the offset that all holders of the descriptor share.*)
(***************************************************************************)
EXTENDS Integers

CONSTANTS
    Procs, Root, Fds, Files, Handles, Initial, NULL

ABSENT == -1
E_NO   == -1  \* the call could not be done: no such file, no room, ...

VARIABLES
    live,    \* the processes that exist
    size,    \* size[f]
    handle,  \* the open files in use: [file, off]
    fds,     \* fds[p][i]: the open file of a descriptor, or NULL
    call     \* call[p]: the request of p, whether it was done, its result

sVars == <<live, size, handle, fds, call>>

NoReq == [op |-> "none", fd |-> NULL, h |-> NULL, f |-> NULL, flags |-> {}, n |-> 0]
Idle  == [req |-> NoReq, done |-> FALSE, r |-> 0]
Held(fs, cs) == {fs[p][i] : p \in Procs, i \in Fds} \cup {cs[p].r : p \in {q \in Procs : cs[q].req.op = "open"}}

\* Open files that nobody refers to are forgotten.
Keep(h) == handle' = [x \in {y \in DOMAIN h : y \in Held(fds', call')} |-> h[x]]

Init ==
    /\ live = {Root} /\ size = Initial /\ handle = [x \in {} |-> 0]
    /\ fds = [p \in Procs |-> [i \in Fds |-> NULL]] /\ call = [p \in Procs |-> Idle]

\* A request names the open file that its descriptor has then.
Invoke(p) ==
    LET q == call'[p].req IN
    /\ p \in live /\ call[p] = Idle /\ q.op # "none"
    /\ q.h = fds[p][q.fd] /\ (q.op = "open" <=> q.h = NULL)
    /\ call' = [call EXCEPT ![p].req = q]
    /\ UNCHANGED <<live, size, handle, fds>>

Done(p, r) == call' = [call EXCEPT ![p] = IF p \in live THEN [@ EXCEPT !.done = TRUE, !.r = r] ELSE Idle]

Open(p, q) ==
    LET there == size[q.f] # ABSENT
        cut(s) == IF "trunc" \in q.flags THEN 0 ELSE s
    IN
    /\ IF there THEN ~({"creat", "excl"} \subseteq q.flags) ELSE "creat" \in q.flags
    /\ size' = [size EXCEPT ![q.f] = IF there THEN cut(@) ELSE 0]
    /\ \E h \in Handles \ Held(fds, call) :
          /\ Done(p, h)
          /\ Keep([x \in DOMAIN handle \cup {h} |-> IF x = h THEN [file |-> q.f, off |-> 0] ELSE handle[x]])

\* Reads, writes and the rest, on the open file h of a descriptor.
Access(p, q, h) ==
    LET f == handle[h].file  off == handle[h].off
        got == IF off >= size[f] THEN 0 ELSE IF q.n < size[f] - off THEN q.n ELSE size[f] - off
        grown == IF off + q.n > size[f] THEN off + q.n ELSE size[f]
        Result(s, o, r) == /\ size' = [size EXCEPT ![f] = s] /\ Done(p, r)
                           /\ Keep([handle EXCEPT ![h].off = o])
    IN
    \/ q.op = "read" /\ Result(size[f], off + got, got)
    \/ q.op = "write" /\ Result(grown, off + q.n, q.n)
    \/ q.op = "write" /\ Result(grown, off, E_NO)           \* a full disk: extended all the same
    \/ q.op = "ftruncate" /\ Result(q.n, off, 0)
    \/ q.op = "fstat" /\ Result(size[f], off, size[f])
    \/ q.op = "close" /\ Result(size[f], off, 0)

\* Of a process that ended, what it asked is done, or not at all.
Perform(p) ==
    LET q == call[p].req IN
    /\ q.op # "none" /\ ~call[p].done
    /\ \/ q.op = "open" /\ Open(p, q)
       \/ q.op \in {"open", "read"} /\ Done(p, E_NO) /\ Keep(handle) /\ UNCHANGED size
       \/ q.h \in DOMAIN handle /\ Access(p, q, q.h)
       \/ p \notin live /\ Done(p, E_NO) /\ Keep(handle) /\ UNCHANGED size
    /\ UNCHANGED <<live, fds>>

Return(p) ==
    LET q == call[p].req  r == call[p].r IN
    /\ p \in live /\ call[p].done /\ call' = [call EXCEPT ![p] = Idle]
    /\ fds' = CASE q.op = "open" /\ r # E_NO -> [fds EXCEPT ![p][q.fd] = r]
                [] q.op = "close" -> [fds EXCEPT ![p][q.fd] = NULL]
                [] OTHER -> fds
    /\ Keep(handle) /\ UNCHANGED <<live, size>>

Dup(p, i, j) ==
    /\ p \in live /\ call[p] = Idle /\ fds[p][i] # NULL /\ fds[p][j] = NULL
    /\ fds' = [fds EXCEPT ![p][j] = fds[p][i]] /\ UNCHANGED <<live, size, handle, call>>

Seek(p, i) ==
    LET h == fds[p][i] IN
    /\ p \in live /\ call[p] = Idle /\ h # NULL /\ handle'[h].off \in Nat
    /\ handle' = [handle EXCEPT ![h].off = handle'[h].off] /\ UNCHANGED <<live, size, fds, call>>

Fork(p, c) ==
    /\ p \in live /\ call[p] = Idle /\ c \notin live /\ live' = live \cup {c}
    /\ fds' = [fds EXCEPT ![c] = fds[p]] /\ UNCHANGED <<size, handle, call>>

\* A process ends, perhaps within a call; what it asked may still be done.
End(p) ==
    /\ p \in live /\ live' = live \ {p}
    /\ call' \in {[call EXCEPT ![p] = Idle], call} /\ fds' = [fds EXCEPT ![p] = [i \in Fds |-> NULL]]
    /\ Keep(handle) /\ UNCHANGED size

Next ==
    \E p \in Procs :
        \/ Invoke(p) \/ Perform(p) \/ Return(p) \/ End(p)
        \/ \E c \in Procs : Fork(p, c)
        \/ \E i, j \in Fds : Dup(p, i, j)
        \/ \E i \in Fds : Seek(p, i)

Spec == Init /\ [][Next]_sVars
=============================================================================
