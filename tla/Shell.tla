-------------------------------- MODULE Shell ------------------------------
(***************************************************************************)
(* The shell of src/shell: reading lines (sh.c), running them (runcmd.c),  *)
(* and the child that turns itself into the command (exec.c), which for a  *)
(* pipe makes two children of its own, the right one for the rest of the   *)
(* line.  Each system call is a step.                                      *)
(*                                                                         *)
(* A command line is a tree, as Parsing builds it.  A program reads its    *)
(* input and writes a few items, if these are pipes, and ends when it      *)
(* likes, with any status.  Descriptor 2 is left out.                      *)
(***************************************************************************)
EXTENDS Unix, Integers

CONSTANTS
    Lines,    \* command lines that are typed
    Output,   \* items that a program writes at most
    Codes,    \* statuses that programs exit with
    MaxLines  \* bound: lines in all

SH == 1  \* the process of the shell

ASSUME ShellAssumption == {Output, MaxLines} \subseteq Nat /\ Codes \subseteq 0..255
\* parse_back makes its command of what parse_exec returns, which is no pipe.
ASSUME LinesAssumption == \A cmd \in Lines : cmd.type = "BACK" => cmd.c.type \in {"EXEC", "REDIR"}

VARIABLES
    pc,      \* pc[p]: where the process is
    job,     \* job[p]: the command it runs, with the locals of exec_cmd
    status,  \* the global status, what $? stands for
    lines,   \* lines typed so far
    torn     \* a fork of a pipe failed (history)

shVars == <<proc, fd, buf, pc, job, status, lines, torn>>

NoCmd == [type |-> "none"]
NoJob == [cmd |-> NoCmd, fg |-> FALSE, side |-> "none", r |-> 0, w |-> 0, left |-> 0, eof |-> FALSE, redir |-> {},
          opened |-> {}]

Labels == {"prompt", "zombies", "run", "waitpid", "exec", "redir", "redup", "forkl", "forkr", "closew", "closer",
           "wait", "wait2", "exit", "closeother", "dup2", "closeown", "prog", "reading", "writing", "off"}

TypeOK ==
    /\ UnixTypeOK
    /\ pc \in [Procs -> Labels] /\ \A p \in Procs : Running(p) <=> pc[p] # "off"
    /\ DOMAIN job = Procs
    /\ status \in Int /\ lines \in 0..MaxLines /\ torn \in BOOLEAN

Init ==
    /\ UnixInit(SH)
    /\ pc = [p \in Procs |-> IF p = SH THEN "prompt" ELSE "off"]
    /\ job = [p \in Procs |-> NoJob]
    /\ status = 0 /\ lines = 0 /\ torn = FALSE

-----------------------------------------------------------------------------
At(p, label)   == Running(p) /\ pc[p] = label
Goto(p, label) == pc' = [pc EXCEPT ![p] = label]
SameShell      == UNCHANGED <<status, lines>>
SameSystem     == UNCHANGED <<proc, fd, buf>>

\* Only what concerns p, which goes to a label.
Step(p, label) == Goto(p, label) /\ UNCHANGED <<job, torn>> /\ SameShell

\* p ends, with the status that wait reports.
Ends(p, raw) ==
    /\ exit(p, raw) /\ pc' = [pc EXCEPT ![p] = "off"] /\ job' = [job EXCEPT ![p] = NoJob]
    /\ UNCHANGED torn /\ SameShell
ExitMinusOne == 255 * 256

-----------------------------------------------------------------------------
(***************************************************************************)
(* The shell: sh.c, runcmd.c, printstatus.c.                               *)
(***************************************************************************)
read_line(cmd) ==
    /\ At(SH, "prompt") /\ lines < MaxLines /\ lines' = lines + 1
    /\ job' = [job EXCEPT ![SH] = [NoJob EXCEPT !.cmd = cmd]]
    /\ Goto(SH, "zombies") /\ SameSystem /\ UNCHANGED <<status, torn>>

\* waitpid(-1, &status, WNOHANG) until it returns 0 or -1.
check_zombies ==
    /\ At(SH, "zombies")
    /\ \/ \E c \in Zombies(SH) : reap(c) /\ status' = proc[c].code /\ UNCHANGED pc
       \/ Zombies(SH) = {} /\ Goto(SH, "run") /\ SameSystem /\ UNCHANGED status
    /\ UNCHANGED <<job, lines, torn>>

\* An empty line, cd, and pwd, which runs the program pwd when it fails.
Exec == [type |-> "EXEC"]
builtin ==
    LET type == job[SH].cmd.type IN
    /\ At(SH, "run") /\ SameSystem /\ UNCHANGED <<lines, torn>>
    /\ \/ type = "EMPTY" /\ Goto(SH, "prompt") /\ UNCHANGED <<job, status>>
       \/ type = "CD" /\ status' \in {0, 1} /\ Goto(SH, "prompt") /\ UNCHANGED job
       \/ type = "PWD" /\ status' = 0 /\ Goto(SH, "prompt") /\ UNCHANGED job
       \/ /\ type = "PWD" /\ MayFail /\ status' = 1
          /\ job' = [job EXCEPT ![SH].cmd = Exec] /\ UNCHANGED pc

\* exit: main returns.
exit_shell ==
    /\ At(SH, "run") /\ job[SH].cmd.type = "EXIT" /\ exit(SH, 0) /\ status' = 0
    /\ pc' = [pc EXCEPT ![SH] = "off"] /\ job' = [job EXCEPT ![SH] = NoJob] /\ UNCHANGED <<lines, torn>>

\* No more lines: the same.
end_of_input == At(SH, "prompt") /\ Ends(SH, 0)

\* fork; the child goes to exec_cmd.  A fork that fails gives the pid -1, for
\* which waitpid takes any child.
run_cmd ==
    LET cmd == job[SH].cmd  back == cmd.type = "BACK" IN
    /\ At(SH, "run") /\ cmd.type \notin {"EMPTY", "CD", "PWD", "EXIT"}
    /\ \/ \E c \in Procs :
             /\ fork(SH, c)
             /\ pc' = [pc EXCEPT ![c] = "exec", ![SH] = IF back THEN "prompt" ELSE "waitpid"]
             /\ job' = [job EXCEPT ![c] = [NoJob EXCEPT !.cmd = cmd, !.fg = ~back], ![SH].r = c]
       \/ /\ MayFail /\ SameSystem /\ Goto(SH, IF back THEN "prompt" ELSE "waitpid")
          /\ job' = [job EXCEPT ![SH].r = -1]
    /\ UNCHANGED torn /\ SameShell

\* print_status_info, with WIFEXITED and WIFSIGNALED; what is neither counts as
\* stopped.  The status of a pipe stays as waitpid gave it.
Status(cmd, raw) ==
    LET signal == raw % 128  code == (raw \div 256) % 256 IN
    IF cmd.type = "PIPE" THEN raw
    ELSE IF signal = 0 THEN code ELSE IF signal < 127 THEN -signal ELSE -code

Awaited(pid) == IF pid = -1 THEN Zombies(SH) ELSE Zombies(SH) \cap {pid}
waitpid ==
    /\ At(SH, "waitpid")
    /\ \/ \E c \in Awaited(job[SH].r) : reap(c) /\ status' = Status(job[SH].cmd, proc[c].code)
       \/ /\ job[SH].r = -1 /\ Children(SH) = {} /\ SameSystem
          /\ status' = Status(job[SH].cmd, status)
    /\ Goto(SH, "prompt") /\ job' = [job EXCEPT ![SH] = NoJob] /\ UNCHANGED <<lines, torn>>

-----------------------------------------------------------------------------
(***************************************************************************)
(* The child: exec_cmd.                                                    *)
(***************************************************************************)
\* The program starts without the descriptors that are O_CLOEXEC.
\* Mutant: open without O_CLOEXEC.
execvp_KeepsFiles(p) ==
    \/ /\ Goto(p, "prog") /\ job' = [job EXCEPT ![p] = [@ EXCEPT !.left = Output, !.opened = {}]]
       /\ SameSystem /\ UNCHANGED torn /\ SameShell
    \/ Ends(p, ExitMinusOne)
execvp(p) ==
    \/ /\ Goto(p, "prog") /\ job' = [job EXCEPT ![p] = [@ EXCEPT !.left = Output, !.opened = {}]]
       /\ fd' = [fd EXCEPT ![p] = [i \in Fds |-> IF i \in job[p].opened THEN NULL ELSE fd[p][i]]]
       /\ UNCHANGED <<proc, buf, torn>> /\ SameShell
    \/ Ends(p, ExitMinusOne)

\* The descriptors for which the line names a file.
Redirected(cmd) == {i \in {STDIN, STDOUT} : (IF i = STDIN THEN "in" ELSE "out") \in cmd.files}

exec_cmd(p) ==
    LET cmd == job[p].cmd IN
    /\ At(p, "exec")
    /\ \/ cmd.type = "BACK" /\ job' = [job EXCEPT ![p].cmd = cmd.c] /\ SameSystem /\ UNCHANGED <<pc, torn>> /\ SameShell
       \/ cmd.type = "EXEC" /\ execvp(p)
       \/ /\ cmd.type = "REDIR" /\ SameSystem /\ Goto(p, "redir")
          /\ job' = [job EXCEPT ![p].redir = Redirected(cmd)] /\ UNCHANGED torn /\ SameShell
       \/ /\ cmd.type = "PIPE" /\ pipe(p) /\ Goto(p, "forkl")
          /\ job' = [job EXCEPT ![p] = [@ EXCEPT !.r = ReadFd(p), !.w = WriteFd(p)]] /\ UNCHANGED torn /\ SameShell
       \/ cmd.type = "PIPE" /\ MayFail /\ Ends(p, ExitMinusOne)

\* A file for stdin, then for stdout.  The file may be missing; what was opened
\* before is then closed.
open_redir_fd(p) ==
    LET i == Least(FreeFds(p)) IN
    /\ At(p, "redir")
    /\ \/ /\ job[p].redir # {} /\ FreeFds(p) # {} /\ fd' = [fd EXCEPT ![p][i] = File]
          /\ job' = [job EXCEPT ![p] = [@ EXCEPT !.r = i, !.opened = job[p].opened \cup {i}]]
          /\ Goto(p, "redup") /\ UNCHANGED <<proc, buf, torn>> /\ SameShell
       \/ job[p].redir # {} /\ Ends(p, ExitMinusOne)
       \/ job[p].redir = {} /\ execvp(p)

dup2_redir(p) ==
    LET i == Least(job[p].redir) IN
    /\ At(p, "redup") /\ dup2(p, job[p].r, i)
    /\ job' = [job EXCEPT ![p].redir = @ \ {i}] /\ Goto(p, "redir") /\ UNCHANGED torn /\ SameShell

\* The two forks of a pipe; when one fails, exec_cmd returns as it stands.
ForkSide(p, here, next, side, cmd) ==
    /\ At(p, here)
    /\ \/ \E c \in Procs :
             /\ fork(p, c) /\ pc' = [pc EXCEPT ![p] = next, ![c] = "closeother"]
             /\ job' = [job EXCEPT ![c] = [job[p] EXCEPT !.cmd = cmd, !.side = side]]
             /\ UNCHANGED torn /\ SameShell
       \/ /\ MayFail /\ exit(p, ExitMinusOne) /\ torn' = TRUE
          /\ pc' = [pc EXCEPT ![p] = "off"] /\ job' = [job EXCEPT ![p] = NoJob] /\ SameShell
fork_left(p)  == ForkSide(p, "forkl", "forkr", "l", job[p].cmd.l)
fork_right(p) == ForkSide(p, "forkr", "closew", "r", job[p].cmd.r)

\* The children keep one end of the pipe, as their stdin or stdout.
Left(p) == job[p].side = "l"
\* Mutant: the child leaves the end that it does not use open.
close_other_Skipped(p) == At(p, "closeother") /\ SameSystem /\ Step(p, "dup2")
close_other(p) ==
    At(p, "closeother") /\ close(p, IF Left(p) THEN job[p].r ELSE job[p].w) /\ Step(p, "dup2")
\* Mutant: only the left child moves its end of the pipe to a standard descriptor.
dup2_std_LeftOnly(p) ==
    /\ At(p, "dup2") /\ Step(p, "closeown")
    /\ IF Left(p) THEN dup2(p, job[p].w, STDOUT) ELSE SameSystem
dup2_std(p) ==
    /\ At(p, "dup2") /\ Step(p, "closeown")
    /\ IF Left(p) THEN dup2(p, job[p].w, STDOUT) ELSE dup2(p, job[p].r, STDIN)
close_own(p) ==
    At(p, "closeown") /\ close(p, IF Left(p) THEN job[p].w ELSE job[p].r) /\ Step(p, "exec")

\* The parent closes both ends, and waits twice.
\* Mutant: the parent keeps the writing end while it waits.
close_write_Skipped(p) == At(p, "closew") /\ SameSystem /\ Step(p, "closer")
close_write(p) == At(p, "closew") /\ close(p, job[p].w) /\ Step(p, "closer")
close_read(p)  == At(p, "closer") /\ close(p, job[p].r) /\ Step(p, "wait")
\* Mutant: one wait for the two children.
wait_Once(p) == \E c \in Zombies(p) : reap(c) /\ At(p, "wait") /\ Step(p, "exit")
wait(p) ==
    \E c \in Zombies(p) : /\ reap(c)
                          /\ \/ At(p, "wait") /\ Step(p, "wait2")
                             \/ At(p, "wait2") /\ Step(p, "exit")
exit_child(p) == At(p, "exit") /\ Ends(p, ExitMinusOne)

-----------------------------------------------------------------------------
(***************************************************************************)
(* The programs.                                                           *)
(***************************************************************************)
prog(p) ==
    /\ At(p, "prog")
    /\ \/ fd[p][STDIN].end = "R" /\ ~job[p].eof /\ SameSystem /\ Step(p, "reading")
       \/ fd[p][STDOUT].end = "W" /\ job[p].left > 0 /\ SameSystem /\ Step(p, "writing")
       \/ \E code \in Codes : Ends(p, code * 256)

reading(p) ==
    /\ At(p, "reading") /\ Goto(p, "prog")
    /\ \E v \in {1, NULL} : read(p, STDIN, v) /\ job' = [job EXCEPT ![p].eof = (v = NULL)]
    /\ UNCHANGED torn /\ SameShell

writing(p) ==
    /\ At(p, "writing")
    /\ \/ /\ write(p, STDOUT, 1) /\ Goto(p, "prog") /\ job' = [job EXCEPT ![p].left = @ - 1] /\ UNCHANGED torn /\ SameShell
       \/ Broken(p, STDOUT) /\ Ends(p, SIGPIPE)

-----------------------------------------------------------------------------
Child(p) ==
    \/ exec_cmd(p) \/ open_redir_fd(p) \/ dup2_redir(p) \/ fork_left(p) \/ fork_right(p)
    \/ close_other(p) \/ dup2_std(p) \/ close_own(p) \/ close_write(p) \/ close_read(p)
    \/ wait(p) \/ exit_child(p) \/ prog(p) \/ reading(p) \/ writing(p)
Shell == check_zombies \/ builtin \/ exit_shell \/ run_cmd \/ waitpid

Next == (\E cmd \in Lines : read_line(cmd)) \/ end_of_input \/ Shell \/ \E p \in Procs : Child(p)

\* The system runs a process whenever one can go on; which one is not said.
Fairness == WF_shVars(Shell \/ \E p \in Procs : Child(p))

Spec == Init /\ [][Next]_shVars
LiveSpec == Spec /\ Fairness

-----------------------------------------------------------------------------
(***************************************************************************)
(* Properties.                                                             *)
(***************************************************************************)
\* A program starts with its standard descriptors only: each process of a line
\* of pipes closed every other end that it inherited (exec.c:214-232).
NoStrayFds ==
    \A p \in Procs : pc[p] \in {"prog", "reading", "writing"} => \A i \in Fds \ {STDIN, STDOUT} : fd[p][i] = NULL

\* The same, and every variable has its type.
ProcessesOK == TypeOK /\ NoStrayFds

\* When the prompt is back, every process of the lines in the foreground has
\* ended and was waited for, and no pipe is left; a fork that failed in the
\* middle of a pipe leaves its left side running (runcmd.c:76, exec.c:236-237).
ForegroundGone ==
    pc[SH] = "prompt" /\ ~torn =>
        /\ \A p \in Procs : ~job[p].fg
        /\ Unused = Pipes

\* Between two neighbours of a pipeline there is a pipe of which the left one holds
\* the writing end and the right one the reading end, from the fork of the right
\* one until either ends; and from the fork of the left one until then, the process
\* that forks holds the reading end.  So no program gets an end of file or SIGPIPE
\* while its neighbour is there, in whatever order the children close, move and
\* reuse their descriptors (exec.c:213-243).  A file that the line names replaces
\* the pipe.
Holds(p, x, e)      == \E i \in Fds : fd[p][i] = End(x, e)
Replaced(p, file)   == job[p].cmd.type = "REDIR" /\ file \in job[p].cmd.files
OnLeft(p)           == Running(p) /\ job[p].side = "l" /\ ~Replaced(p, "out")
OnRight(p)          == Running(p) /\ job[p].side = "r" /\ ~Replaced(p, "in")
ReadsOf(q, l)       == \/ pc[q] = "forkr" /\ proc[l].parent = q
                       \/ OnRight(q) /\ proc[q].parent = proc[l].parent
NeighboursJoined ==
    \A l, q \in Procs : (OnLeft(l) /\ proc[l].parent # INIT /\ ReadsOf(q, l)) =>
        \E x \in Pipes : Holds(l, x, "W") /\ Holds(q, x, "R")

\* A line in the foreground comes to its end, whichever of its programs stop
\* reading or fail to start: nobody waits on a pipe whose other ends are all in
\* processes that wait, too (exec.c:199-243).
ShellReturns == pc[SH] = "waitpid" ~> pc[SH] = "prompt"
=============================================================================
