---------------------------- MODULE FileServer -----------------------------
(***************************************************************************)
(* The file server of JOS and its clients: the open-file table and the     *)
(* loop of tp-parte4/fs/serv.c, the remote calls of lib/file.c, and the    *)
(* two halves of an exchange of lib/ipc.c, one system call at a time.      *)
(*                                                                         *)
(* The server keeps no list of who has a file open.  An open file is a     *)
(* page that the server shares with the processes; the server takes a page *)
(* that only itself still maps for a new file, under a new file number.    *)
(* Processes share descriptors by fork and dup, and may be destroyed at    *)
(* any moment by their parent.                                             *)
(*                                                                         *)
(* Files have a size here and no contents (see module BlockFs).            *)
(***************************************************************************)
EXTENDS Integers, FiniteSets

CONSTANTS
    Procs, Root, \* environments that use files, and the first of them
    MAXOPEN,     \* entries of the open-file table
    NFds,        \* MAXFD
    Files,
    Initial,     \* the sizes on the disk at boot, or ABSENT
    Counts,      \* byte counts and offsets that programs ask for
    MaxCalls,    \* bound: calls in all, exits apart
    MayFail,     \* TRUE: memory and disk may be full
    NULL

ABSENT == -1
E_NO   == -1     \* -E_NOT_FOUND, -E_FILE_EXISTS, -E_MAX_OPEN, -E_NO_DISK, -E_NO_MEM
E_INVAL == -2
Entries == 0..(MAXOPEN - 1)
Fds     == 0..(NFds - 1)
FileIds == 0..(MAXOPEN * (MaxCalls + 1) + MAXOPEN)

ASSUME ProcAssumption == IsFiniteSet(Procs) /\ Root \in Procs /\ Initial \in [Files -> Nat \cup {ABSENT}]
ASSUME NumAssumption  == {MAXOPEN, NFds} \subseteq Nat \ {0} /\ MaxCalls \in Nat /\ Counts \subseteq Nat
\* Bound: so few calls that o_fileid, a uint32_t that openfile_alloc returns as an
\* int, is never negative (serv.c:80, 122); beyond it, the opens of an entry fail.
ASSUME WidthAssumption == MAXOPEN * (MaxCalls + 2) <= 2147483647
ASSUME FailAssumption == MayFail \in BOOLEAN
ASSUME NullAssumption == NULL \notin Procs /\ NULL \notin Files /\ NULL \notin Int

VARIABLES
    status,  \* "UNUSED", "LIVE", "DEAD"
    parent,  \* the process that forked it
    fdpage,  \* fdpage[p][i]: the entry whose o_fd page p maps at descriptor i, or NULL
    loc,     \* where each process is in fsipc, and its request
    srv,     \* where the server is, the request it has, the result
    opentab, \* opentab[e]: o_fileid, o_file
    page,    \* page[e]: the page at o_fd: is it allocated, fd_file.id, fd_offset
    size,    \* the files
    calls,   \* calls so far
    killed   \* processes destroyed while the server had their request (history)

vars == <<status, parent, fdpage, loc, srv, opentab, page, size, calls, killed>>

Modes == {{}, {"creat"}, {"creat", "excl"}, {"trunc"}}   \* the flags that programs open with
Ops == {"open", "read", "write", "ftruncate", "fstat", "close"}
NoReq == [op |-> "none", fd |-> NULL, h |-> NULL, f |-> NULL, flags |-> {}, n |-> 0]
AtRest == [at |-> "idle", req |-> NoReq, exiting |-> FALSE]

TypeOK ==
    /\ status \in [Procs -> {"UNUSED", "LIVE", "DEAD"}] /\ parent \in [Procs -> Procs \cup {NULL}]
    /\ fdpage \in [Procs -> [Fds -> Entries \cup {NULL}]]
    /\ \A p \in Procs : status[p] # "LIVE" => loc[p] = AtRest /\ \A i \in Fds : fdpage[p][i] = NULL
    /\ \A p \in Procs :
          /\ loc[p].at \in {"idle", "send", "recv", "blocked", "unmap", "exit"} /\ loc[p].exiting \in BOOLEAN
          /\ loc[p].req.op \in Ops \cup {"none"}
          /\ loc[p].req.op \in Ops \ {"open"} => loc[p].req.h \in FileIds /\ fdpage[p][loc[p].req.fd] # NULL
    /\ srv.at \in {"listen", "blocked", "alloc", "handle", "reply", "panic"}
    /\ srv.whom \in Procs \cup {NULL} /\ srv.req.op \in Ops \cup {"none"} /\ srv.i \in 0..MAXOPEN /\ srv.r \in Int /\ srv.pg \in Entries \cup {NULL}
    /\ opentab \in [Entries -> [fileid : FileIds, file : Files \cup {NULL}]]
    /\ page \in [Entries -> [there : BOOLEAN, id : FileIds, off : Nat]]
    /\ size \in [Files -> Nat \cup {ABSENT}]
    /\ calls \in 0..MaxCalls /\ killed \subseteq Procs

Init ==
    /\ status = [p \in Procs |-> IF p = Root THEN "LIVE" ELSE "UNUSED"]
    /\ parent = [p \in Procs |-> NULL]
    /\ fdpage = [p \in Procs |-> [i \in Fds |-> NULL]]
    /\ loc = [p \in Procs |-> AtRest]
    /\ srv = [at |-> "listen", whom |-> NULL, req |-> NoReq, i |-> 0, r |-> 0, pg |-> NULL]
    /\ opentab = [e \in Entries |-> [fileid |-> e, file |-> NULL]]     \* serve_init
    /\ page = [e \in Entries |-> [there |-> FALSE, id |-> 0, off |-> 0]]
    /\ size = Initial /\ calls = 0 /\ killed = {}

-----------------------------------------------------------------------------
(***************************************************************************)
(* Clients: lib/fd.c, lib/file.c.                                          *)
(***************************************************************************)
UnchangedServer == UNCHANGED <<srv, opentab, size>>

Free(p)    == {i \in Fds : fdpage[p][i] = NULL}
fd_alloc(p) == CHOOSE i \in Free(p) : \A j \in Free(p) : i <= j

Request(p, q) ==
    /\ status[p] = "LIVE" /\ loc[p].at = "idle"
    /\ loc' = [loc EXCEPT ![p] = [@ EXCEPT !.at = "send", !.req = q]]
    /\ UNCHANGED <<status, parent, fdpage, page, killed>> /\ UnchangedServer

open(p, f, flags) ==
    /\ Free(p) # {}
    /\ Request(p, [NoReq EXCEPT !.op = "open", !.fd = fd_alloc(p), !.f = f, !.flags = flags])

\* Mutant: the number of the entry is sent, not that of the file.
Remote_Entry(p, i, op, n) == [NoReq EXCEPT !.op = op, !.fd = i, !.h = fdpage[p][i], !.n = n]
\* The file number is taken from the page when the request is written.
Remote(p, i, op, n) ==
    [NoReq EXCEPT !.op = op, !.fd = i, !.h = page[fdpage[p][i]].id, !.n = n]

devfile(p, i, op, n) == fdpage[p][i] # NULL /\ Request(p, Remote(p, i, op, n))

dup(p, i, j) ==
    /\ status[p] = "LIVE" /\ loc[p].at = "idle" /\ fdpage[p][i] # NULL /\ fdpage[p][j] = NULL
    /\ fdpage' = [fdpage EXCEPT ![p][j] = fdpage[p][i]]
    /\ UNCHANGED <<status, parent, loc, page, killed>> /\ UnchangedServer

seek(p, i, n) ==
    /\ status[p] = "LIVE" /\ loc[p].at = "idle" /\ fdpage[p][i] # NULL
    /\ page' = [page EXCEPT ![fdpage[p][i]].off = n]
    /\ UNCHANGED <<status, parent, fdpage, loc, killed>> /\ UnchangedServer

\* fork shares the descriptor pages; the parent holds them all the while.
fork(p, c) ==
    /\ status[p] = "LIVE" /\ loc[p].at = "idle" /\ status[c] = "UNUSED"
    /\ status' = [status EXCEPT ![c] = "LIVE"] /\ parent' = [parent EXCEPT ![c] = p]
    /\ fdpage' = [fdpage EXCEPT ![c] = fdpage[p]]
    /\ UNCHANGED <<loc, page, killed>> /\ UnchangedServer

\* exit: close_all, then sys_env_destroy(0).
exit(p) ==
    /\ status[p] = "LIVE" /\ loc[p].at = "idle"
    /\ loc' = [loc EXCEPT ![p] = [@ EXCEPT !.at = "exit", !.exiting = TRUE]]
    /\ UNCHANGED <<status, parent, fdpage, page, killed>> /\ UnchangedServer

\* env_free unmaps everything that the process had.
\* Mutant: its descriptor pages stay.
Dies_KeepsPages(p) ==
    /\ status' = [status EXCEPT ![p] = "DEAD"] /\ loc' = [loc EXCEPT ![p] = AtRest]
    /\ UNCHANGED <<parent, page, fdpage>> /\ UnchangedServer
Dies(p) ==
    /\ status' = [status EXCEPT ![p] = "DEAD"] /\ fdpage' = [fdpage EXCEPT ![p] = [i \in Fds |-> NULL]]
    /\ loc' = [loc EXCEPT ![p] = AtRest]
    /\ UNCHANGED <<parent, page>> /\ UnchangedServer

close_all(p) ==
    LET opened == {i \in Fds : fdpage[p][i] # NULL}  i == CHOOSE x \in opened : \A y \in opened : x <= y IN
    /\ status[p] = "LIVE" /\ loc[p].at = "exit" /\ UNCHANGED killed
    /\ \/ opened = {} /\ Dies(p)
       \/ /\ opened # {} /\ loc' = [loc EXCEPT ![p] = [@ EXCEPT !.at = "send", !.req = Remote(p, i, "close", 0)]]
          /\ UNCHANGED <<status, parent, fdpage, page>> /\ UnchangedServer

\* The server has the request of p, and has not answered it.
Pending(p) == srv.whom = p /\ srv.at \in {"alloc", "handle", "reply"}

\* sys_env_destroy by the parent (envid2env allows no other).
env_destroy(p) ==
    /\ status[p] = "LIVE" /\ parent[p] # NULL /\ status[parent[p]] = "LIVE" /\ loc[parent[p]].at = "idle"
    /\ Dies(p) /\ killed' = IF Pending(p) THEN killed \cup {p} ELSE killed

-----------------------------------------------------------------------------
(***************************************************************************)
(* The exchange: ipc_send (which tries until the other side waits) and     *)
(* ipc_recv (which blocks), on the client's side.                          *)
(***************************************************************************)
\* Mutant: a program that exits does not wait for the answer to its flush.
ipc_send_NoWait(p) ==
    /\ status[p] = "LIVE" /\ loc[p].at = "send"
    /\ \/ /\ srv.at = "blocked"
          /\ srv' = [srv EXCEPT !.at = IF loc[p].req.op = "open" THEN "alloc" ELSE "handle", !.whom = p,
                                !.req = loc[p].req, !.i = 0, !.pg = NULL]
          /\ loc' = [loc EXCEPT ![p].at = IF loc[p].exiting THEN "unmap" ELSE "recv"]
          /\ UNCHANGED <<status, parent, fdpage, page, killed, opentab, size>>
       \/ srv.at = "panic" /\ Dies(p) /\ UNCHANGED killed
ipc_send(p) ==
    /\ status[p] = "LIVE" /\ loc[p].at = "send"
    /\ \/ /\ srv.at = "blocked"
          /\ srv' = [srv EXCEPT !.at = IF loc[p].req.op = "open" THEN "alloc" ELSE "handle", !.whom = p,
                                !.req = loc[p].req, !.i = 0, !.pg = NULL]
          /\ loc' = [loc EXCEPT ![p].at = "recv"]
          /\ UNCHANGED <<status, parent, fdpage, page, killed, opentab, size>>
       \/ srv.at = "panic" /\ Dies(p) /\ UNCHANGED killed   \* -E_BAD_ENV: ipc_send panics

\* Mutant: the result is polled for, without sys_ipc_recv.
ipc_recv_NotBlocked(p) ==
    /\ status[p] = "LIVE" /\ loc[p].at = "recv" /\ loc' = [loc EXCEPT ![p].req.n = 0]
    /\ UNCHANGED <<status, parent, fdpage, page, killed>> /\ UnchangedServer
ipc_recv(p) ==
    /\ status[p] = "LIVE" /\ loc[p].at = "recv" /\ loc' = [loc EXCEPT ![p].at = "blocked"]
    /\ UNCHANGED <<status, parent, fdpage, page, killed>> /\ UnchangedServer

\* fd_close: the page goes after the flush, however the flush went.
fd_close(p) ==
    /\ status[p] = "LIVE" /\ loc[p].at = "unmap"
    /\ fdpage' = [fdpage EXCEPT ![p][loc[p].req.fd] = NULL]
    /\ loc' = [loc EXCEPT ![p] = [@ EXCEPT !.at = IF loc[p].exiting THEN "exit" ELSE "idle", !.req = NoReq]]
    /\ UNCHANGED <<status, parent, page, killed>> /\ UnchangedServer

-----------------------------------------------------------------------------
(***************************************************************************)
(* The server: fs/serv.c.                                                  *)
(***************************************************************************)
UnchangedClients == UNCHANGED <<status, parent, killed>>

pageref(e) == Cardinality({h \in Procs \X Fds : fdpage[h[1]][h[2]] = e}) + IF page[e].there THEN 1 ELSE 0

\* sys_page_unmap(fsreq), and ipc_recv again.
listen ==
    /\ srv.at = "listen" /\ srv' = [srv EXCEPT !.at = "blocked", !.whom = NULL, !.req = NoReq, !.i = 0, !.r = 0, !.pg = NULL]
    /\ UNCHANGED <<fdpage, loc, opentab, page, size>> /\ UnchangedClients

Answer(r) == srv' = [srv EXCEPT !.at = "reply", !.r = r]

\* openfile_alloc looks at one entry after the other.
\* Mutant: an entry that one process still uses is taken.
Available_Used(e) == pageref(e) <= 2
Available(e) == pageref(e) <= 1
openfile_alloc ==
    LET e == srv.i IN
    /\ srv.at = "alloc"
    /\ \/ e = MAXOPEN /\ Answer(E_NO) /\ UNCHANGED <<opentab, page>>
       \/ e < MAXOPEN /\ ~Available(e) /\ srv' = [srv EXCEPT !.i = @ + 1] /\ UNCHANGED <<opentab, page>>
       \/ e < MAXOPEN /\ pageref(e) = 0 /\ MayFail /\ Answer(E_NO) /\ UNCHANGED <<opentab, page>>
       \/ /\ e < MAXOPEN /\ Available(e) /\ srv' = [srv EXCEPT !.at = "handle"]
          /\ opentab' = [opentab EXCEPT ![e].fileid = @ + MAXOPEN]
          /\ page' = [page EXCEPT ![e] = [there |-> TRUE, id |-> 0, off |-> 0]]
    /\ UNCHANGED <<fdpage, loc, size>> /\ UnchangedClients

\* serve_open, from the file on; a failure leaves the entry with the server alone.
serve_open ==
    LET q == srv.req  f == q.f  e == srv.i  there == size[f] # ABSENT  creat == "creat" \in q.flags IN
    /\ srv.at = "handle" /\ q.op = "open"
    /\ \/ /\ \/ creat /\ there /\ "excl" \in q.flags
             \/ ~there /\ (creat => MayFail)
          /\ Answer(E_NO) /\ UNCHANGED <<size, opentab, page>>
       \/ /\ IF there THEN ~creat \/ "excl" \notin q.flags ELSE creat
          /\ size' = [size EXCEPT ![f] = IF there /\ "trunc" \notin q.flags THEN @ ELSE 0]
          /\ opentab' = [opentab EXCEPT ![e].file = f]
          /\ page' = [page EXCEPT ![e].id = opentab[e].fileid]
          /\ srv' = [srv EXCEPT !.at = "reply", !.r = 0, !.pg = e]
    /\ UNCHANGED <<fdpage, loc>> /\ UnchangedClients

Found(e, id) == pageref(e) > 1 /\ opentab[e].fileid = id

\* Mutant: the offset is not compared with the size.
Room_NoTest(off, f) == size[f] - off
Room(off, f) == IF off >= size[f] THEN 0 ELSE size[f] - off

\* The handlers of requests about an open file, and openfile_lookup.
handle ==
    LET q == srv.req  e == q.h % MAXOPEN  f == opentab[e].file  off == page[e].off
        got == IF q.n < Room(off, f) THEN q.n ELSE Room(off, f)
        Result(s, o, r) == size' = [size EXCEPT ![f] = s] /\ page' = [page EXCEPT ![e].off = o] /\ Answer(r)
        grown == IF off + q.n > size[f] THEN off + q.n ELSE size[f]
    IN
    /\ srv.at = "handle" /\ q.op # "open"
    /\ \/ ~Found(e, q.h) /\ Answer(E_INVAL) /\ UNCHANGED <<size, page>>
       \/ /\ Found(e, q.h)
          /\ \/ q.op = "read" /\ Result(size[f], off + got, got)
             \/ q.op = "read" /\ got > 0 /\ MayFail /\ Result(size[f], off, E_NO)
             \/ q.op = "write" /\ Result(grown, off + q.n, q.n)
             \/ q.op = "write" /\ q.n > 0 /\ MayFail /\ Result(grown, off, E_NO)
             \/ q.op = "ftruncate" /\ Result(q.n, off, 0)
             \/ q.op = "fstat" /\ Result(size[f], off, size[f])
             \/ q.op = "close" /\ Result(size[f], off, 0)
    /\ UNCHANGED <<fdpage, loc, opentab>> /\ UnchangedClients

\* ipc_send of the answer: tries until the client waits, and panics when the
\* client is gone, or when its page tables are out of memory.
reply ==
    LET c == srv.whom IN
    /\ srv.at = "reply"
    /\ \/ /\ status[c] # "LIVE" /\ srv' = [srv EXCEPT !.at = "panic", !.r = E_INVAL] /\ UNCHANGED <<fdpage, loc>>
       \/ /\ status[c] = "LIVE" /\ loc[c].at = "blocked" /\ srv.pg # NULL /\ MayFail
          /\ srv' = [srv EXCEPT !.at = "panic", !.r = E_NO] /\ UNCHANGED <<fdpage, loc>>
       \/ /\ status[c] = "LIVE" /\ loc[c].at = "blocked" /\ srv' = [srv EXCEPT !.at = "listen"]
          /\ fdpage' = IF srv.pg = NULL THEN fdpage ELSE [fdpage EXCEPT ![c][loc[c].req.fd] = srv.pg]
          /\ loc' = [loc EXCEPT ![c] = IF @.req.op = "close" THEN [@ EXCEPT !.at = "unmap"] ELSE AtRest]
    /\ UNCHANGED <<opentab, page, size>> /\ UnchangedClients

-----------------------------------------------------------------------------
Call(p) ==
    /\ calls < MaxCalls /\ calls' = calls + 1
    /\ \/ \E f \in Files, flags \in Modes : open(p, f, flags)
       \/ \E i \in Fds : devfile(p, i, "fstat", 0) \/ devfile(p, i, "close", 0)
       \/ \E i \in Fds, n \in Counts : \/ \E op \in {"read", "write", "ftruncate"} : devfile(p, i, op, n)
                                       \/ seek(p, i, n)
       \/ \E i, j \in Fds : dup(p, i, j)
       \/ \E c \in Procs : fork(p, c)

Leave(p)    == (exit(p) \/ env_destroy(p)) /\ UNCHANGED calls
Continue(p) == (close_all(p) \/ ipc_send(p) \/ ipc_recv(p) \/ fd_close(p)) /\ UNCHANGED calls
serve       == (listen \/ openfile_alloc \/ serve_open \/ handle \/ reply) /\ UNCHANGED calls

Next == serve \/ \E p \in Procs : Call(p) \/ Leave(p) \/ Continue(p)

\* The round robin gives the server and each client their turns (KernEnv:
\* NoStarvation).  It does not let a client win against others that send.
Fairness == WF_vars(serve) /\ \A p \in Procs : WF_vars(Continue(p))

Spec == Init /\ [][Next]_vars
LiveSpec == Spec /\ Fairness

-----------------------------------------------------------------------------
(***************************************************************************)
(* Properties.                                                             *)
(***************************************************************************)

\* The server dies of a client only when the client was destroyed between its
\* request and the answer: a client that leaves by exit, or whose entry was
\* taken over, never brings ipc_send to an error (ipc.c:63-68, serv.c:357).
PanicNeedsKill == srv.at = "panic" /\ srv.r = E_INVAL => killed # {}

\* The same, and every variable has its type.
ServerOK == TypeOK /\ PanicNeedsKill

\* A request that the server took is answered: the client waits in ipc_recv
\* when, or after, the server tries to send (file.c:30-31, serv.c:331-359).
Answered ==
    \A p \in Procs : loc[p].at \in {"recv", "blocked"} ~> loc[p].at \notin {"recv", "blocked"} \/ srv.at = "panic"

\* Every process finds under its descriptors the file that it opened, at the
\* offset it shares with those that have the same descriptor, until its last
\* holder closes; each call takes place once, with the result that it returns
\* (serv.c:14-30, 61-97: entries are reused, numbers tell the uses apart).
Id(e) == IF e = NULL THEN NULL ELSE page[e].id
Request_(p) == IF Pending(p) THEN srv.req ELSE IF status[p] = "LIVE" THEN loc[p].req ELSE NoReq
AbsCall(p) ==
    LET done == \/ srv.whom = p /\ srv.at \in {"reply", "panic"} /\ status[p] = "LIVE"
                \/ loc[p].at = "unmap"
    IN  IF status[p] # "LIVE" /\ srv.at \notin {"alloc", "handle"} THEN [req |-> NoReq, done |-> FALSE, r |-> 0]
        ELSE [req |-> Request_(p), done |-> done,
              r |-> IF loc[p].at = "unmap" \/ ~done THEN 0 ELSE IF srv.pg # NULL THEN Id(srv.pg) ELSE srv.r]
Opened == {e \in Entries : \/ \E p \in Procs, i \in Fds : fdpage[p][i] = e
                           \/ srv.at \in {"reply", "panic"} /\ srv.pg = e /\ status[srv.whom] = "LIVE"}
Service == INSTANCE FileService WITH
    live <- {p \in Procs : status[p] = "LIVE"},
    handle <- [x \in {page[e].id : e \in Opened} |-> [file |-> opentab[x % MAXOPEN].file, off |-> page[x % MAXOPEN].off]],
    fds <- [p \in Procs |-> [i \in Fds |-> Id(fdpage[p][i])]],
    call <- [p \in Procs |-> AbsCall(p)],
    Handles <- FileIds
ImplementsFileService == Service!Spec
=============================================================================
