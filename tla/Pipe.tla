-------------------------------- MODULE Pipe --------------------------------
(***************************************************************************)
(* File descriptors and pipes of the JOS user library (tp-parte4/lib/fd.c, *)
(* pipe.c, pageref.c and the sharing half of fork.c), for one pipe.        *)
(*                                                                         *)
(* A descriptor is a page mapped in a slot, a pipe is one more page mapped *)
(* beside each descriptor of either end, and "the other end is closed" is  *)
(* an equation between two reference counts of pages.  Processes change    *)
(* those counts one system call at a time, and are preempted between any   *)
(* two of them: each system call, each look at a count and each access to  *)
(* the buffer is a step of its own.  A process may die between any two.    *)
(*                                                                         *)
(* Programs use an end of the pipe from one process at a time, as the      *)
(* shell and the exercises do: the library has no lock for more.           *)
(***************************************************************************)
EXTENDS Naturals, FiniteSets, Sequences

CONSTANTS
    Envs,       \* environments
    Root,       \* the one that calls pipe()
    NSlots,     \* MAXFD, the descriptor slots of an environment
    BufSize,    \* PIPEBUFSIZ
    NCPU,       \* processors
    MaxBytes,   \* bound: bytes written in all
    MaxCalls,   \* bound: calls of the library in all, exits apart
    MayFail,    \* TRUE: page allocation and mapping may fail
    NULL

Slots == 0..(NSlots - 1)
Ends  == {"R", "W"}                 \* the pages fd0 and fd1 of the pipe
Other(x) == IF x = "R" THEN "W" ELSE "R"

ASSUME EnvAssumption  == IsFiniteSet(Envs) /\ Root \in Envs
ASSUME NumAssumption  == {NSlots, BufSize, NCPU} \subseteq Nat \ {0} /\ {MaxBytes, MaxCalls} \subseteq Nat
ASSUME FailAssumption == MayFail \in BOOLEAN
ASSUME NullAssumption == NULL \notin Ends /\ NULL \notin Envs /\ NULL \notin Slots

VARIABLES
    status,     \* "UNUSED", "CHILD" (made by fork, not runnable), "LIVE", "DEAD"
    fdpage,     \* fdpage[e][i]: the Fd page at INDEX2FD(i), or NULL
    data,       \* data[e][i]: the Pipe page is mapped at INDEX2DATA(i)
    ring,       \* the Pipe page: p_rpos, p_wpos, p_buf; made: pipe() succeeded
    loc,        \* where each environment is in the library, and its locals
    calls,      \* library calls so far
    moved,      \* moved[e]: thisenv->env_runs has changed since e last read it
    sent,       \* the bytes written so far (history)
    received    \* the bytes read so far (history)

vars == <<status, fdpage, data, ring, loc, calls, moved, sent, received>>

Labels == {"idle", "pipe1", "pipe2", "pipe3", "pipe4", "test", "ref1", "ref2", "take", "advance",
           "closefd", "closedata", "dupdata", "dupfd", "exit", "map"}
Idle == [op |-> "none", at |-> "idle", fd |-> 0, to |-> NULL, n |-> 0, got |-> FALSE]

TypeOK ==
    /\ status \in [Envs -> {"UNUSED", "CHILD", "LIVE", "DEAD"}]
    /\ fdpage \in [Envs -> [Slots -> Ends \cup {NULL}]]
    /\ data \in [Envs -> [Slots -> BOOLEAN]]
    /\ ring.rpos \in 0..MaxBytes /\ ring.wpos \in 0..MaxBytes /\ ring.made \in BOOLEAN
    /\ ring.buf \in [0..(BufSize - 1) -> 0..MaxBytes]
    /\ loc \in [Envs -> [op  : {"none", "pipe", "read", "write", "query", "close", "dup", "fork", "exit"},
                         at  : Labels,
                         fd  : Slots,
                         to  : Slots \cup Envs \cup {NULL},
                         n   : Nat,          \* a count read, the byte in transit, or the next page to share
                         got : BOOLEAN]]     \* some byte was transferred already
    /\ calls \in 0..MaxCalls /\ moved \in [Envs -> BOOLEAN]
    /\ sent \in Seq(1..MaxBytes) /\ received \in Seq(0..MaxBytes)

Init ==
    /\ status = [e \in Envs |-> IF e = Root THEN "LIVE" ELSE "UNUSED"]
    /\ fdpage = [e \in Envs |-> [i \in Slots |-> NULL]]
    /\ data = [e \in Envs |-> [i \in Slots |-> FALSE]]
    /\ ring = [rpos |-> 0, wpos |-> 0, buf |-> [k \in 0..(BufSize - 1) |-> 0], made |-> FALSE]
    /\ loc = [e \in Envs |-> Idle]
    /\ calls = 0 /\ moved = [e \in Envs |-> TRUE]
    /\ sent = <<>> /\ received = <<>>

-----------------------------------------------------------------------------
(***************************************************************************)
(* Reference counts, as pages[].pp_ref holds them (module Pmap).           *)
(***************************************************************************)
Holders(x) == {h \in Envs \X Slots : fdpage[h[1]][h[2]] = x}
DataRefs   == {h \in Envs \X Slots : data[h[1]][h[2]]}

\* pageref(fd) for the descriptor that e uses in its current call.
FdRef(e) == Cardinality(Holders(fdpage[e][loc[e].fd]))
PipeRef  == Cardinality(DataRefs)

-----------------------------------------------------------------------------
(***************************************************************************)
(* A step of e.  Environments that do not keep a processor meanwhile (on:  *)
(* those that do) find env_runs changed when they run again.  The flag is  *)
(* of use only between the two reads of _pipeisclosed.                     *)
(***************************************************************************)
Runs(e, m) ==
    \E on \in SUBSET (Envs \ {e}) :
        /\ Cardinality(on) < NCPU
        /\ moved' = [f \in Envs |-> IF f = e THEN m ELSE moved[f] \/ f \notin on]

At(e, label) == status[e] = "LIVE" /\ loc[e].at = label
Jump(e, r)   == loc' = [loc EXCEPT ![e] = r] /\ Runs(e, TRUE)
Goto(e, label) == Jump(e, [loc[e] EXCEPT !.at = label])
Return(e)    == Jump(e, Idle)
Fails        == IF MayFail THEN BOOLEAN ELSE {FALSE}

MapFd(e, i, x)   == fdpage' = [fdpage EXCEPT ![e][i] = x]
MapData(e, i, b) == data' = [data EXCEPT ![e][i] = b]
UnchangedPages   == UNCHANGED <<fdpage, data>>
UnchangedBytes   == UNCHANGED <<ring, sent, received>>

\* fd_alloc: the smallest slot whose Fd page is not mapped.
Min(S) == CHOOSE i \in S : \A j \in S : i <= j
Free(e) == {i \in Slots : fdpage[e][i] = NULL}
fd_alloc(e) == Min(Free(e))

-----------------------------------------------------------------------------
(***************************************************************************)
(* pipe(): two descriptor pages and the pipe page at both, with the        *)
(* unwinding of each failure.  Nobody else sees these pages before a fork. *)
(***************************************************************************)
pipe(e) ==
    /\ At(e, "idle") /\ e = Root /\ ~ring.made
    /\ Jump(e, [Idle EXCEPT !.op = "pipe", !.at = "pipe1"])
    /\ UnchangedPages /\ UnchangedBytes /\ UNCHANGED status

\* fd_alloc and sys_page_alloc of the descriptor of end x; on failure, err1
\* (or err) unmaps what the call mapped before.
AllocFd(e, x, label, next) ==
    /\ At(e, label)
    /\ \E failed \in Fails :
         IF failed \/ Free(e) = {}
         THEN /\ fdpage' = [fdpage EXCEPT ![e] = [i \in Slots |->
                                 IF x = "W" /\ i = loc[e].fd THEN NULL ELSE @[i]]]
              /\ Return(e)
         ELSE /\ MapFd(e, fd_alloc(e), x)
              /\ Jump(e, IF x = "R" THEN [loc[e] EXCEPT !.at = next, !.fd = fd_alloc(e)]
                                    ELSE [loc[e] EXCEPT !.at = next, !.to = fd_alloc(e)])
    /\ UNCHANGED <<status, data>> /\ UnchangedBytes

\* Mutant: err2 forgets the second descriptor.
Unwind_KeepsFd1(e) ==
    /\ fdpage' = [fdpage EXCEPT ![e][loc[e].fd] = NULL]
    /\ MapData(e, loc[e].fd, FALSE)
    /\ Return(e)
\* err3, err2 and err1.
Unwind(e) ==
    /\ fdpage' = [fdpage EXCEPT ![e][loc[e].fd] = NULL, ![e][loc[e].to] = NULL]
    /\ MapData(e, loc[e].fd, FALSE)
    /\ Return(e)

AllocPipe(e) ==
    /\ At(e, "pipe3")
    /\ \/ MayFail /\ Unwind(e)
       \/ MapData(e, loc[e].fd, TRUE) /\ Goto(e, "pipe4") /\ UNCHANGED fdpage
    /\ UNCHANGED status /\ UnchangedBytes

MapPipe(e) ==
    /\ At(e, "pipe4")
    /\ \/ MayFail /\ Unwind(e) /\ UNCHANGED ring
       \/ /\ MapData(e, loc[e].to, TRUE) /\ ring' = [ring EXCEPT !.made = TRUE]
          /\ Return(e) /\ UNCHANGED fdpage
    /\ UNCHANGED <<status, sent, received>>

pipe_step(e) == AllocFd(e, "R", "pipe1", "pipe2") \/ AllocFd(e, "W", "pipe2", "pipe3")
                \/ AllocPipe(e) \/ MapPipe(e)

-----------------------------------------------------------------------------
(***************************************************************************)
(* read(), write() and pipeisclosed().  fd_lookup and the mode of the      *)
(* descriptor select the call: a write end cannot be read.                 *)
(***************************************************************************)
Using(e, x) == loc[e].op = (IF x = "R" THEN "read" ELSE "write")

read_write(e, i) ==
    /\ At(e, "idle") /\ fdpage[e][i] # NULL
    /\ \A f \in Envs : ~Using(f, fdpage[e][i])
    /\ fdpage[e][i] = "W" => ring.wpos < MaxBytes
    /\ Jump(e, [Idle EXCEPT !.op = IF fdpage[e][i] = "R" THEN "read" ELSE "write",
                            !.at = "test", !.fd = i])
    /\ UnchangedPages /\ UnchangedBytes /\ UNCHANGED status

pipeisclosed(e, i) ==
    /\ At(e, "idle") /\ fdpage[e][i] # NULL
    /\ Jump(e, [Idle EXCEPT !.op = "query", !.at = "ref1", !.fd = i])
    /\ UnchangedPages /\ UnchangedBytes /\ UNCHANGED status

\* The condition of the inner while: nothing to read, or no room to write.
\* Mutant: the reader goes one byte too far.
Blocked_PastEnd(op) == IF op = "read" THEN ring.rpos > ring.wpos
                                      ELSE ring.wpos >= ring.rpos + BufSize
Blocked(op) == IF op = "read" THEN ring.rpos = ring.wpos
                              ELSE ring.wpos >= ring.rpos + BufSize
\* A read that has some byte returns it rather than wait.
devpipe_test(e) ==
    /\ At(e, "test")
    /\ \/ ~Blocked(loc[e].op) /\ Goto(e, "take")
       \/ Blocked(loc[e].op) /\ loc[e].op = "read" /\ loc[e].got /\ Return(e)
       \/ Blocked(loc[e].op) /\ ~(loc[e].op = "read" /\ loc[e].got) /\ Goto(e, "ref1")
    /\ UnchangedPages /\ UnchangedBytes /\ UNCHANGED status

\* _pipeisclosed: n = env_runs, then pageref(fd) ...
FirstRef(e) ==
    /\ At(e, "ref1")
    /\ loc' = [loc EXCEPT ![e].at = "ref2", ![e].n = FdRef(e)] /\ Runs(e, FALSE)
    /\ UnchangedPages /\ UnchangedBytes /\ UNCHANGED status

\* ... then pageref(p) and nn = env_runs: start again if they differ.  The call
\* returns when the counts agree; read and write yield and try again if not.
\* Mutant: the answer counts whatever happened between the two reads.
Answers_Always(e) == At(e, "ref2")
Answers(e) == At(e, "ref2") /\ ~moved[e]
SecondRef(e) ==
    /\ \/ Answers(e) /\ (loc[e].n = PipeRef \/ loc[e].op = "query") /\ Return(e)
       \/ Answers(e) /\ loc[e].n # PipeRef /\ loc[e].op # "query" /\ Goto(e, "test")
       \/ At(e, "ref2") /\ ~Answers(e) /\ Goto(e, "ref1")
    /\ UnchangedPages /\ UnchangedBytes /\ UNCHANGED status

\* Mutant: every byte goes through the first place.
Index_First(pos) == 0
Index(pos) == pos % BufSize

\* The byte is copied first; the position moves in a step of its own, after
\* which the call either has its n bytes or goes on.
Transfer(e) ==
    /\ At(e, "take")
    /\ LET b == IF loc[e].op = "read" THEN ring.buf[Index(ring.rpos)] ELSE Len(sent) + 1 IN
       /\ ring' = IF loc[e].op = "read" THEN ring ELSE [ring EXCEPT !.buf[Index(ring.wpos)] = b]
       /\ Jump(e, [loc[e] EXCEPT !.at = "advance", !.n = b])
    /\ UnchangedPages /\ UNCHANGED <<status, sent, received>>

Advance(e) ==
    /\ At(e, "advance")
    /\ \/ /\ loc[e].op = "read" /\ ring' = [ring EXCEPT !.rpos = @ + 1]
          /\ received' = Append(received, loc[e].n) /\ UNCHANGED sent
       \/ /\ loc[e].op = "write" /\ ring' = [ring EXCEPT !.wpos = @ + 1]
          /\ sent' = Append(sent, loc[e].n) /\ UNCHANGED received
    /\ \/ Return(e)
       \/ /\ loc[e].op = "write" => ring.wpos + 1 < MaxBytes
          /\ Jump(e, [Idle EXCEPT !.op = loc[e].op, !.at = "test", !.fd = loc[e].fd, !.got = TRUE])
    /\ UnchangedPages /\ UNCHANGED status

-----------------------------------------------------------------------------
(***************************************************************************)
(* close(), dup(), exit().  devpipe_close unmaps the descriptor first and  *)
(* the pipe page second; dup maps in the opposite order.                   *)
(***************************************************************************)
close(e, i) ==
    /\ At(e, "idle") /\ fdpage[e][i] # NULL
    /\ Jump(e, [Idle EXCEPT !.op = "close", !.at = "closefd", !.fd = i, !.to = i])
    /\ UnchangedPages /\ UnchangedBytes /\ UNCHANGED status

\* newfdnum is closed first if it is open.
dup(e, i, j) ==
    /\ At(e, "idle") /\ fdpage[e][i] # NULL
    /\ Jump(e, [Idle EXCEPT !.op = "dup", !.fd = i, !.to = j,
                            !.at = IF fdpage[e][j] # NULL THEN "closefd" ELSE "dupdata"])
    /\ UnchangedPages /\ UnchangedBytes /\ UNCHANGED status

exit(e) ==
    /\ At(e, "idle") /\ ring.made
    /\ Jump(e, [Idle EXCEPT !.op = "exit", !.at = "exit"])
    /\ UnchangedPages /\ UnchangedBytes /\ UNCHANGED status

AfterClose(e) ==
    CASE loc[e].op = "close" -> Idle
      [] loc[e].op = "dup"   -> [loc[e] EXCEPT !.at = "dupdata"]
      [] loc[e].op = "exit"  -> [Idle EXCEPT !.op = "exit", !.at = "exit"]

\* Mutant: the pipe page goes first.
devpipe_close_DataFirst(e) ==
    /\ \/ At(e, "closefd") /\ MapData(e, loc[e].to, FALSE) /\ UNCHANGED fdpage /\ Goto(e, "closedata")
       \/ At(e, "closedata") /\ MapFd(e, loc[e].to, NULL) /\ UNCHANGED data /\ Jump(e, AfterClose(e))
    /\ UnchangedBytes /\ UNCHANGED status
\* Mutant: the pipe page stays mapped.
devpipe_close_KeepsData(e) ==
    /\ At(e, "closefd") /\ MapFd(e, loc[e].to, NULL) /\ UNCHANGED data /\ Jump(e, AfterClose(e))
    /\ UnchangedBytes /\ UNCHANGED status
devpipe_close(e) ==
    /\ \/ At(e, "closefd") /\ MapFd(e, loc[e].to, NULL) /\ UNCHANGED data /\ Goto(e, "closedata")
       \/ At(e, "closedata") /\ MapData(e, loc[e].to, FALSE) /\ UNCHANGED fdpage /\ Jump(e, AfterClose(e))
    /\ UnchangedBytes /\ UNCHANGED status

\* The last step of a dup that fails: err unmaps both pages of the new slot.
\* Mutant: only the descriptor is unmapped.
dup_err_KeepsData(e) == MapFd(e, loc[e].to, NULL) /\ UNCHANGED data /\ Return(e)
dup_err(e) == MapFd(e, loc[e].to, NULL) /\ MapData(e, loc[e].to, FALSE) /\ Return(e)

\* A slot that was closed meanwhile (dup of a descriptor onto itself) has no
\* page to map, which is an error.
dup_map(e) ==
    LET i == loc[e].fd  j == loc[e].to IN
    /\ \/ At(e, "dupdata") /\ MapData(e, j, data[e][i]) /\ UNCHANGED fdpage /\ Goto(e, "dupfd")
       \/ At(e, "dupfd") /\ fdpage[e][i] # NULL /\ MapFd(e, j, fdpage[e][i]) /\ UNCHANGED data /\ Return(e)
       \/ At(e, "dupfd") /\ fdpage[e][i] = NULL /\ dup_err(e)
       \/ (At(e, "dupdata") \/ At(e, "dupfd")) /\ MayFail /\ dup_err(e)
    /\ UnchangedBytes /\ UNCHANGED status

Released(e) ==
    /\ fdpage' = [fdpage EXCEPT ![e] = [i \in Slots |-> NULL]]
    /\ data' = [data EXCEPT ![e] = [i \in Slots |-> FALSE]]
    /\ status' = [status EXCEPT ![e] = "DEAD"]
    /\ Return(e)

\* close_all, slot by slot, then sys_env_destroy(0).
close_all(e) ==
    LET open == {i \in Slots : fdpage[e][i] # NULL} IN
    /\ At(e, "exit")
    /\ \/ /\ open # {} /\ UnchangedPages /\ UNCHANGED status
          /\ Jump(e, [loc[e] EXCEPT !.at = "closefd", !.to = Min(open)])
       \/ open = {} /\ Released(e)
    /\ UnchangedBytes

\* The kernel destroys e: a fault, or sys_env_destroy by its parent.
env_destroy(e) ==
    /\ status[e] = "LIVE" /\ ring.made /\ Released(e)
    /\ UnchangedBytes

-----------------------------------------------------------------------------
(***************************************************************************)
(* fork(): descriptors and pipe pages are PTE_SHARE, so duppage maps them  *)
(* in the child one by one, by ascending address: all descriptors of       *)
(* FDTABLE before all data pages above them.                               *)
(***************************************************************************)
fork(e, c) ==
    /\ At(e, "idle") /\ ring.made /\ status[c] = "UNUSED"
    /\ status' = [status EXCEPT ![c] = "CHILD"]
    /\ Jump(e, [Idle EXCEPT !.op = "fork", !.at = "map", !.to = c])
    /\ UnchangedPages /\ UnchangedBytes

\* Positions of the pages to share, in the order of their addresses.
Mapped(e) == {i \in Slots : fdpage[e][i] # NULL} \cup {NSlots + i : i \in {j \in Slots : data[e][j]}}

duppage(e) ==
    LET c == loc[e].to  left == {k \in Mapped(e) : k >= loc[e].n}  k == Min(left) IN
    /\ At(e, "map")
    /\ \/ /\ left # {} /\ k < NSlots /\ MapFd(c, k, fdpage[e][k]) /\ UNCHANGED <<data, status>>
          /\ Jump(e, [loc[e] EXCEPT !.n = k + 1])
       \/ /\ left # {} /\ k >= NSlots /\ MapData(c, k - NSlots, TRUE) /\ UNCHANGED <<fdpage, status>>
          /\ Jump(e, [loc[e] EXCEPT !.n = k + 1])
       \/ left = {} /\ status' = [status EXCEPT ![c] = "LIVE"] /\ UnchangedPages /\ Return(e)
    /\ UnchangedBytes

-----------------------------------------------------------------------------
Call(e) ==
    /\ calls < MaxCalls /\ calls' = calls + 1
    /\ \/ pipe(e)
       \/ \E i \in Slots : read_write(e, i) \/ pipeisclosed(e, i) \/ close(e, i)
       \/ \E i, j \in Slots : dup(e, i, j)
       \/ \E c \in Envs : fork(e, c)

Leave(e) == (exit(e) \/ env_destroy(e)) /\ UNCHANGED calls

Continue(e) ==
    /\ \/ pipe_step(e) \/ devpipe_test(e) \/ FirstRef(e) \/ SecondRef(e) \/ Transfer(e) \/ Advance(e)
       \/ devpipe_close(e) \/ dup_map(e) \/ close_all(e) \/ duppage(e)
    /\ UNCHANGED calls

Next == \E e \in Envs : Call(e) \/ Leave(e) \/ Continue(e)

\* The round robin gives every runnable environment its turns (module KernEnv:
\* NoStarvation), and the two reads of _pipeisclosed fit in some turn.
Fairness == \A e \in Envs : WF_vars(Continue(e)) /\ SF_vars(Answers(e) /\ SecondRef(e) /\ UNCHANGED calls)

Spec == Init /\ [][Next]_vars
LiveSpec == Spec /\ Fairness

-----------------------------------------------------------------------------
(***************************************************************************)
(* Properties.                                                             *)
(***************************************************************************)

\* A running process never holds a descriptor of the pipe without the pipe
\* page beside it, whichever call it is in; between calls it holds both or
\* neither.  This is what the orders of close and dup are for: the count of a
\* descriptor never catches up with the count of the pipe while the other end
\* is open (pipe.c:185-190, fd.c:189-193, and the unwinding of both).
DataBesideFd ==
    \A e \in Envs, i \in Slots :
        /\ status[e] = "LIVE" /\ loc[e].op # "pipe" /\ fdpage[e][i] # NULL => data[e][i]
        /\ status[e] = "LIVE" /\ loc[e].at = "idle" /\ data[e][i] => fdpage[e][i] # NULL

\* The same, and every variable has its type.
DescriptorsOK == TypeOK /\ DataBesideFd

\* Some fork is between its first and its last page, or was cut there.
HalfShared == \E c \in Envs : status[c] = "CHILD"
ReportsClosed(e) == Answers(e) /\ loc[e].n = PipeRef /\ loc'[e].at = "idle" /\ status'[e] = "LIVE"

\* _pipeisclosed tells a process that the other end is closed only when no
\* process holds a descriptor of it, whatever others close, dup or exit
\* between its two reads of the counts (testpiperace.c, testpiperace2.c).
\* A fork in progress is excepted: it shares the descriptors before the pipe
\* pages, so that their count catches up for a moment (fork.c:173-180).
ClosedIsTrue ==
    [][\A e \in Envs : ReportsClosed(e) /\ ~HalfShared =>
          Holders(Other(fdpage[e][loc[e].fd])) = {}]_vars

\* read returns 0 only when the pipe is empty: its loop says "pipe is empty"
\* (pipe.c:119) before it asks whether the writers are gone.
EofWhenEmpty ==
    [][\A e \in Envs : ReportsClosed(e) /\ loc[e].op = "read" => ring.rpos = ring.wpos]_vars

\* Bytes come out in the order in which they went in, none twice, none lost
\* between two reads, at most BufSize on the way, although the copy of a byte
\* and the move of the position are two steps and processes die in between.
Stream == INSTANCE ByteStream WITH
              Capacity <- BufSize, Bytes <- 1..MaxBytes,
              open <- IF ring.made THEN {x \in Ends : Holders(x) # {}} ELSE Ends
ImplementsByteStream == Stream!Spec

\* A process in read (write) whose other end has no descriptor left, or that
\* has bytes to take (room to store), does not stay so for ever, unless a
\* half-made child keeps counts that never agree (pipe.c:117-130, 152-164).
Due(e, x) == Using(e, x) /\ (Holders(Other(x)) = {} \/ ~Blocked(loc[e].op))
CallsEnd == \A e \in Envs, x \in Ends : Due(e, x) ~> ~Due(e, x) \/ HalfShared
=============================================================================
