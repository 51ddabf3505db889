------------------------------ MODULE KernEnv ------------------------------
(***************************************************************************)
(* The processor and environment (process) management of the JOS kernel,   *)
(* tp-parte4/kern: env.c, sched.c, trap.c, init.c, spinlock.c and the      *)
(* system calls of syscall.c that change an environment's status.          *)
(*                                                                         *)
(* Several CPUs share the table envs[] under one big kernel lock.  A CPU   *)
(* enters the kernel by a trap, spins for the lock, handles the trap,      *)
(* possibly reschedules, and leaves either through env_run (to user mode)  *)
(* or through sched_halt (to the hlt loop); both release the lock.  What   *)
(* happens between two releases of the lock is split in the steps of       *)
(* trap(), so that the other CPUs' lock-free steps (booting, trapping,     *)
(* env_pop_tf, the timer waking a halted CPU) interleave with them.        *)
(*                                                                         *)
(* Registers, memory and message contents are left out; what the handlers  *)
(* decide from them (a fault has an upcall or not, memory is exhausted or  *)
(* not) is a nondeterministic choice.                                      *)
(***************************************************************************)
EXTENDS Naturals, Sequences, FiniteSets

CONSTANTS
    CPUs,        \* the processors (cpus[0..ncpu-1])
    BSP,         \* the boot processor, the one that runs i386_init
    NENV,        \* number of slots of envs[]
    NBoot,       \* how many environments i386_init creates
    GenMax,      \* largest generation an env_id can hold (2^19 - 1 in the code)
    GenBound,    \* bound of the exploration: no generation above it is created
    Calls,       \* the kernel entries user programs make, a subset of AllCalls
    Careful,     \* the calls that programs use only the way lib/ and user/ do
    NULL         \* the null pointer, and "no CPU" for the lock

AllCalls == {"yield", "exofork", "destroy", "set_status", "set_trapframe",
             "ipc_recv", "ipc_try_send", "page_map", "pgfault"}

ASSUME BSPAssumption  == BSP \in CPUs /\ NULL \notin CPUs
ASSUME NENVAssumption == NENV \in Nat /\ NBoot \in 1..NENV /\ NULL \notin Nat
ASSUME IdAssumption   == NULL \notin Nat \X Nat
ASSUME GenAssumption  == GenMax \in Nat \ {0} /\ GenBound \in Nat \ {0}
ASSUME CallAssumption == Calls \subseteq AllCalls /\ Careful \subseteq AllCalls

Slots == 0..(NENV - 1)

VARIABLES
    lock,            \* the CPU that holds kernel_lock, or NULL
    mode,            \* mode[c]: where CPU c is in the code (see Modes)
    cpu_status,      \* cpus[c].cpu_status
    cur,             \* cpus[c].cpu_env, that is curenv: a slot or NULL
    cr3,             \* the page directory loaded: an env_id, or NULL for kern_pgdir
    trapno,          \* trapno[c]: why CPU c trapped from user mode
    env_status,      \* envs[s].env_status
    env_pgdir,       \* envs[s].env_pgdir # NULL: slot s has a page directory
    gen,             \* the generation part of envs[s].env_id (0: never used)
    env_parent_id,   \* envs[s].env_parent_id, NULL for 0
    env_runs,        \* envs[s].env_runs > 0: the environment has run
    env_ipc_recving, \* envs[s].env_ipc_recving
    env_free_list,   \* the linked list of free slots, its head first
    kin              \* history: the slot of the creator of s, while it lives

cpuVars == <<lock, mode, cpu_status, cur, cr3, trapno>>
envVars == <<env_status, env_pgdir, gen, env_parent_id, env_runs, env_ipc_recving, env_free_list, kin>>
vars    == <<cpuVars, envVars>>

(***************************************************************************)
(* Control states of a CPU.  The code between lock_kernel and              *)
(* unlock_kernel is the set InKernel.                                      *)
(***************************************************************************)
InKernel == {"boot",      \* i386_init, after lock_kernel
             "boot_wait", \* boot_aps, waiting for an AP's CPU_STARTED
             "kernel",    \* trap(), lock just acquired, environment current
             "tail",      \* trap(), after trap_dispatch
             "sched",     \* at the entry of sched_yield
             "monitor"}   \* the kernel monitor: never returns the lock
Modes == InKernel \cup
            {"off",       \* an AP that was not started
             "mp_main",   \* an AP, before it reports CPU_STARTED
             "spin",      \* spin_lock's xchg loop
             "pop",       \* env_pop_tf: lock released, not yet in user mode
             "user",
             "halted"}    \* sched_halt's hlt loop, interrupts enabled

Statuses == {"FREE", "DYING", "RUNNABLE", "RUNNING", "NOT_RUNNABLE"}
EnvId    == Slots \X (1..GenMax)
IdOf(s)  == <<s, gen[s]>>

CpuTypeOK ==
    /\ lock \in CPUs \cup {NULL}
    /\ mode \in [CPUs -> Modes]
    /\ cpu_status \in [CPUs -> {"UNUSED", "STARTED", "HALTED"}]
    /\ cur \in [CPUs -> Slots \cup {NULL}]
    /\ cr3 \in [CPUs -> EnvId \cup {NULL}]
    /\ trapno \in [CPUs -> {"timer", "syscall", "fault", NULL}]
EnvTypeOK ==
    /\ env_status \in [Slots -> Statuses]
    /\ env_pgdir \in [Slots -> BOOLEAN]
    /\ gen \in [Slots -> 0..GenMax]
    /\ env_parent_id \in [Slots -> EnvId \cup {NULL}]
    /\ env_runs \in [Slots -> BOOLEAN]
    /\ env_ipc_recving \in [Slots -> BOOLEAN]
    /\ env_free_list \in Seq(Slots)
    /\ kin \in [Slots -> Slots \cup {NULL}]
TypeOK == CpuTypeOK /\ EnvTypeOK

\* Mutant: env_init links slots 1..NENV.
Init_OffByOne ==
    /\ lock = BSP
    /\ mode = [c \in CPUs |-> IF c = BSP THEN "boot" ELSE "off"]
    /\ cpu_status = [c \in CPUs |-> IF c = BSP THEN "STARTED" ELSE "UNUSED"]
    /\ cur = [c \in CPUs |-> NULL]
    /\ cr3 = [c \in CPUs |-> NULL]
    /\ trapno = [c \in CPUs |-> NULL]
    /\ env_status = [s \in Slots |-> "FREE"]
    /\ env_pgdir = [s \in Slots |-> FALSE]
    /\ gen = [s \in Slots |-> 0]
    /\ env_parent_id = [s \in Slots |-> NULL]
    /\ env_runs = [s \in Slots |-> FALSE]
    /\ env_ipc_recving = [s \in Slots |-> FALSE]
    /\ env_free_list = [i \in 1..NENV |-> i]
    /\ kin = [s \in Slots |-> NULL]

\* i386_init up to lock_kernel: env_init has linked the slots in order.
Init ==
    /\ lock = BSP
    /\ mode = [c \in CPUs |-> IF c = BSP THEN "boot" ELSE "off"]
    /\ cpu_status = [c \in CPUs |-> IF c = BSP THEN "STARTED" ELSE "UNUSED"]
    /\ cur = [c \in CPUs |-> NULL]
    /\ cr3 = [c \in CPUs |-> NULL]
    /\ trapno = [c \in CPUs |-> NULL]
    /\ env_status = [s \in Slots |-> "FREE"]
    /\ env_pgdir = [s \in Slots |-> FALSE]
    /\ gen = [s \in Slots |-> 0]
    /\ env_parent_id = [s \in Slots |-> NULL]
    /\ env_runs = [s \in Slots |-> FALSE]
    /\ env_ipc_recving = [s \in Slots |-> FALSE]
    /\ env_free_list = [i \in 1..NENV |-> i - 1]
    /\ kin = [s \in Slots |-> NULL]

Goto(c, m) == mode' = [mode EXCEPT ![c] = m]

-----------------------------------------------------------------------------
(***************************************************************************)
(* env.c: allocating, freeing, destroying and running environments.  These *)
(* run with the kernel lock, as parts of the actions further below.        *)
(***************************************************************************)

\* Mutants: the sign is not tested; the generation of a used slot stays.
NextGen_NoWrap(s) == gen[s] + 1
NextGen_Stuck(s)  == IF gen[s] = 0 THEN 1 ELSE gen[s]

\* The generation wraps to 1 when the identifier would become negative.
NextGen(s) == IF gen[s] = GenMax THEN 1 ELSE gen[s] + 1

\* Mutants: the allocation is not committed; env_ipc_recving is not reset.
env_alloc_NoCommit(s, parent, status) ==
    /\ env_free_list # <<>>
    /\ s = Head(env_free_list)
    /\ NextGen(s) <= GenBound
    /\ env_pgdir' = [env_pgdir EXCEPT ![s] = TRUE]
    /\ gen' = [gen EXCEPT ![s] = NextGen(s)]
    /\ env_parent_id' = [env_parent_id EXCEPT ![s] =
                            IF parent = NULL THEN NULL ELSE IdOf(parent)]
    /\ kin' = [kin EXCEPT ![s] = parent]
    /\ env_status' = [env_status EXCEPT ![s] = status]
    /\ env_runs' = [env_runs EXCEPT ![s] = FALSE]
    /\ env_ipc_recving' = [env_ipc_recving EXCEPT ![s] = FALSE]
    /\ UNCHANGED env_free_list
env_alloc_KeepsRecving(s, parent, status) ==
    /\ env_free_list # <<>>
    /\ s = Head(env_free_list)
    /\ NextGen(s) <= GenBound
    /\ env_pgdir' = [env_pgdir EXCEPT ![s] = TRUE]
    /\ gen' = [gen EXCEPT ![s] = NextGen(s)]
    /\ env_parent_id' = [env_parent_id EXCEPT ![s] =
                            IF parent = NULL THEN NULL ELSE IdOf(parent)]
    /\ kin' = [kin EXCEPT ![s] = parent]
    /\ env_status' = [env_status EXCEPT ![s] = status]
    /\ env_runs' = [env_runs EXCEPT ![s] = FALSE]
    /\ env_free_list' = Tail(env_free_list)
    /\ UNCHANGED env_ipc_recving

\* env_alloc: take the head of the free list, give it a new identifier.
env_alloc(s, parent, status) ==
    /\ env_free_list # <<>>
    /\ s = Head(env_free_list)
    /\ NextGen(s) <= GenBound
    /\ env_pgdir' = [env_pgdir EXCEPT ![s] = TRUE]
    /\ gen' = [gen EXCEPT ![s] = NextGen(s)]
    /\ env_parent_id' = [env_parent_id EXCEPT ![s] =
                            IF parent = NULL THEN NULL ELSE IdOf(parent)]
    /\ kin' = [kin EXCEPT ![s] = parent]
    /\ env_status' = [env_status EXCEPT ![s] = status]
    /\ env_runs' = [env_runs EXCEPT ![s] = FALSE]
    /\ env_ipc_recving' = [env_ipc_recving EXCEPT ![s] = FALSE]
    /\ env_free_list' = Tail(env_free_list)

\* Mutant: the CPU stays on the page directory it frees.
env_free_KeepsCr3(c, e) ==
    /\ env_pgdir' = [env_pgdir EXCEPT ![e] = FALSE]
    /\ env_status' = [env_status EXCEPT ![e] = "FREE"]
    /\ env_free_list' = <<e>> \o env_free_list
    /\ kin' = [s \in Slots |-> IF kin[s] = e THEN NULL ELSE kin[s]]
    /\ UNCHANGED cr3

\* env_free: release the address space and put the slot back in front.
env_free(c, e) ==
    /\ env_pgdir' = [env_pgdir EXCEPT ![e] = FALSE]
    /\ env_status' = [env_status EXCEPT ![e] = "FREE"]
    /\ env_free_list' = <<e>> \o env_free_list
    /\ cr3' = IF cur[c] = e THEN [cr3 EXCEPT ![c] = NULL] ELSE cr3
    /\ kin' = [s \in Slots |-> IF kin[s] = e THEN NULL ELSE kin[s]]

\* env_destroy on CPU c.  An environment running elsewhere becomes a zombie.
\* Freeing one whose page directory is already gone faults inside the kernel,
\* and the panic never leaves the monitor.  When it returns, c is at rest.
env_destroy(c, e, rest) ==
    /\ \/ /\ env_status[e] = "RUNNING" /\ cur[c] # e
          /\ env_status' = [env_status EXCEPT ![e] = "DYING"]
          /\ Goto(c, rest)
          /\ UNCHANGED <<cur, cr3, env_pgdir, env_free_list, kin>>
       \/ /\ env_status[e] # "RUNNING" /\ cur[c] # e /\ env_pgdir[e]
          /\ env_free(c, e)
          /\ Goto(c, rest)
          /\ UNCHANGED cur
       \/ /\ cur[c] = e /\ env_pgdir[e]
          /\ env_free(c, e)
          /\ cur' = [cur EXCEPT ![c] = NULL]
          /\ Goto(c, "sched")
       \/ /\ env_status[e] # "RUNNING" \/ cur[c] = e
          /\ ~env_pgdir[e]
          /\ Goto(c, "monitor")
          /\ UNCHANGED <<cur, cr3, env_status, env_pgdir, env_free_list, kin>>
    /\ UNCHANGED <<lock, gen, env_parent_id, env_runs, env_ipc_recving>>

\* Mutant: the previous environment keeps the status RUNNING.
env_run_KeepsRunning(c, e) ==
    /\ env_status' = [env_status EXCEPT ![e] = "RUNNING"]
    /\ env_runs' = [env_runs EXCEPT ![e] = TRUE]
    /\ cur' = [cur EXCEPT ![c] = e]
    /\ cr3' = [cr3 EXCEPT ![c] = IdOf(e)]
    /\ lock' = NULL
    /\ Goto(c, "pop")
    /\ UNCHANGED <<env_pgdir, gen, env_parent_id, env_ipc_recving, env_free_list, kin>>

\* env_run, up to the release of the lock; env_pop_tf is a step of its own.
\* PADDR of a page directory that is gone panics.
env_run(c, e) ==
    /\ env_status' = [s \in Slots |->
                        IF s = e THEN "RUNNING"
                        ELSE IF s = cur[c] /\ env_status[s] = "RUNNING" THEN "RUNNABLE"
                        ELSE env_status[s]]
    /\ env_runs' = [env_runs EXCEPT ![e] = TRUE]
    /\ cur' = [cur EXCEPT ![c] = e]
    /\ \/ env_pgdir[e] /\ cr3' = [cr3 EXCEPT ![c] = IdOf(e)] /\ lock' = NULL /\ Goto(c, "pop")
       \/ ~env_pgdir[e] /\ Goto(c, "monitor") /\ UNCHANGED <<cr3, lock>>
    /\ UNCHANGED <<env_pgdir, gen, env_parent_id, env_ipc_recving, env_free_list, kin>>

\* envid2env with checkperm: CPU c's environment may manipulate slot e.
MayManipulate(c, e) ==
    \/ e = cur[c]
    \/ env_status[e] # "FREE" /\ env_parent_id[e] = IdOf(cur[c])

-----------------------------------------------------------------------------
(* init.c: booting *)

\* boot_aps starts the processors one at a time ...
boot_aps(c) ==
    /\ mode[BSP] = "boot" /\ mode[c] = "off"
    /\ mode' = [mode EXCEPT ![BSP] = "boot_wait", ![c] = "mp_main"]
    /\ UNCHANGED <<lock, cpu_status, cur, cr3, trapno, envVars>>

\* ... and waits until the one it started says so in cpu_status.
boot_wait ==
    /\ mode[BSP] = "boot_wait"
    /\ \A c \in CPUs : mode[c] # "off" => cpu_status[c] = "STARTED"
    /\ Goto(BSP, "boot")
    /\ UNCHANGED <<lock, cpu_status, cur, cr3, trapno, envVars>>

\* Mutant: mp_main calls sched_yield without the lock.
mp_main_NoLock(c) ==
    /\ mode[c] = "mp_main"
    /\ cpu_status' = [cpu_status EXCEPT ![c] = "STARTED"]
    /\ Goto(c, "sched")
    /\ UNCHANGED <<lock, cur, cr3, trapno, envVars>>

\* An AP reports before it asks for the lock, which BSP holds meanwhile.
mp_main(c) ==
    /\ mode[c] = "mp_main"
    /\ cpu_status' = [cpu_status EXCEPT ![c] = "STARTED"]
    /\ Goto(c, "spin")
    /\ UNCHANGED <<lock, cur, cr3, trapno, envVars>>

Booted == \A c \in CPUs : mode[c] # "off"
Created == NENV - Len(env_free_list)

\* env_create for each initial program; its parent is 0.
env_create ==
    /\ mode[BSP] = "boot" /\ Booted /\ Created < NBoot
    /\ \E s \in Slots : env_alloc(s, NULL, "RUNNABLE")
    /\ UNCHANGED cpuVars

\* The end of i386_init.
boot_done ==
    /\ mode[BSP] = "boot" /\ Booted /\ Created >= NBoot
    /\ Goto(BSP, "sched")
    /\ UNCHANGED <<lock, cpu_status, cur, cr3, trapno, envVars>>

-----------------------------------------------------------------------------
(* trap.c and spinlock.c: entering the kernel *)

\* A trap from user mode.  The lock is asked for in any case.
trap_user(c, t) ==
    /\ mode[c] = "user"
    /\ trapno' = [trapno EXCEPT ![c] = t]
    /\ cpu_status' = [cpu_status EXCEPT ![c] = "STARTED"]
    /\ Goto(c, "spin")
    /\ UNCHANGED <<lock, cur, cr3, envVars>>

\* Mutant: cpu_status is compared but not exchanged.
trap_halted_NoXchg(c) ==
    /\ mode[c] = "halted"
    /\ Goto(c, IF cpu_status[c] = "HALTED" THEN "spin" ELSE "sched")
    /\ UNCHANGED <<lock, cpu_status, cur, cr3, trapno, envVars>>

\* An interrupt in the hlt loop: only cpu_status says that the lock is not held.
trap_halted(c) ==
    /\ mode[c] = "halted"
    /\ cpu_status' = [cpu_status EXCEPT ![c] = "STARTED"]
    /\ Goto(c, IF cpu_status[c] = "HALTED" THEN "spin" ELSE "sched")
    /\ UNCHANGED <<lock, cur, cr3, trapno, envVars>>

timer(c)   == trap_user(c, "timer") \/ trap_halted(c)
program(c) == \/ trap_user(c, "syscall")
              \/ trap_user(c, "fault") /\ "pgfault" \in Calls

\* spin_lock's successful xchg.  An AP that boots and a CPU that was halted
\* have no current environment and go to the scheduler.
lock_kernel(c) ==
    /\ mode[c] = "spin" /\ lock = NULL
    /\ lock' = c
    /\ Goto(c, IF cur[c] = NULL THEN "sched" ELSE "kernel")
    /\ UNCHANGED <<cpu_status, cur, cr3, trapno, envVars>>

\* Garbage collection of the current environment when it is a zombie.
collect_zombie(c) ==
    /\ mode[c] = "kernel" /\ env_status[cur[c]] = "DYING"
    /\ env_free(c, cur[c])
    /\ cur' = [cur EXCEPT ![c] = NULL]
    /\ trapno' = [trapno EXCEPT ![c] = NULL]
    /\ Goto(c, "sched")
    /\ UNCHANGED <<lock, cpu_status, gen, env_parent_id, env_runs, env_ipc_recving>>

\* Mutant: the zombie test at the entry of trap() is missing.
Dispatch_NoZombieTest(c, t) ==
    /\ mode[c] = "kernel" /\ trapno[c] = t
    /\ trapno' = [trapno EXCEPT ![c] = NULL]
    /\ UNCHANGED cpu_status

\* trap_dispatch of a trap of kind t for an environment that is no zombie.
Dispatch(c, t) ==
    /\ mode[c] = "kernel" /\ env_status[cur[c]] # "DYING" /\ trapno[c] = t
    /\ trapno' = [trapno EXCEPT ![c] = NULL]
    /\ UNCHANGED cpu_status

Syscall(c, call) == Dispatch(c, "syscall") /\ call \in Calls

dispatch_timer(c) ==
    /\ Dispatch(c, "timer")
    /\ Goto(c, "sched")
    /\ UNCHANGED <<lock, cur, cr3, envVars>>

\* A fault runs the upcall of the program or destroys it; unexpected traps and
\* a failed user_mem_assert(curenv, ...) of any call destroy it too.
page_fault_handler(c) ==
    /\ Dispatch(c, "fault")
    /\ env_run(c, cur[c]) \/ env_destroy(c, cur[c], "tail")

\* The end of trap(): back to the environment, or reschedule.
trap_return(c) ==
    /\ mode[c] = "tail"
    /\ \/ /\ cur[c] # NULL /\ env_status[cur[c]] = "RUNNING"
          /\ env_run(c, cur[c])
          /\ UNCHANGED <<cpu_status, trapno>>
       \/ /\ cur[c] = NULL \/ env_status[cur[c]] # "RUNNING"
          /\ Goto(c, "sched")
          /\ UNCHANGED <<lock, cpu_status, cur, cr3, trapno, envVars>>

-----------------------------------------------------------------------------
(* syscall.c *)

sys_yield(c) ==
    /\ Syscall(c, "yield")
    /\ Goto(c, "sched")
    /\ UNCHANGED <<lock, cur, cr3, envVars>>

\* The failures (no free slot, no memory) leave everything as it was: sys_other.
sys_exofork(c) ==
    /\ Syscall(c, "exofork")
    /\ \E s \in Slots : env_alloc(s, cur[c], "NOT_RUNNABLE")
    /\ Goto(c, "tail")
    /\ UNCHANGED <<lock, cur, cr3>>

\* The library destroys a given child once; the kernel accepts it twice.
sys_env_destroy(c) ==
    /\ Syscall(c, "destroy")
    /\ \E e \in Slots :
          /\ MayManipulate(c, e)
          /\ "destroy" \in Careful => env_status[e] # "DYING"
          /\ env_destroy(c, e, "tail")

\* The library only starts a child that sys_exofork left NOT_RUNNABLE.
sys_env_set_status(c) ==
    /\ Syscall(c, "set_status")
    /\ \E e \in Slots, st \in {"RUNNABLE", "NOT_RUNNABLE"} :
          /\ MayManipulate(c, e)
          /\ "set_status" \in Careful => /\ e # cur[c] /\ st = "RUNNABLE"
                                       /\ env_status[e] = "NOT_RUNNABLE" /\ ~env_runs[e]
          /\ env_status' = [env_status EXCEPT ![e] = st]
    /\ Goto(c, "tail")
    /\ UNCHANGED <<lock, cur, cr3, env_pgdir, gen, env_parent_id, env_runs, env_ipc_recving, env_free_list, kin>>

\* A panic in a call, or a page fault in the kernel: the monitor for ever.
panic(c) == Goto(c, "monitor") /\ UNCHANGED <<lock, cur, cr3, envVars>>

\* The frame's address is checked in the target and used in the caller.  A bad
\* one destroys the target, and the call goes on; a page that the caller has not
\* mapped faults in the kernel; otherwise registers change.  The library passes
\* a frame on the caller's own stack.
sys_env_set_trapframe(c) ==
    /\ Syscall(c, "set_trapframe")
    /\ \/ \E e \in Slots, rest \in {"tail", "monitor"} :
             /\ MayManipulate(c, e)
             /\ "set_trapframe" \in Careful => env_status[e] = "NOT_RUNNABLE" /\ e # cur[c] /\ rest = "tail"
             /\ env_destroy(c, e, rest)
       \/ "set_trapframe" \notin Careful /\ panic(c)

sys_ipc_recv(c) ==
    /\ Syscall(c, "ipc_recv")
    /\ env_status' = [env_status EXCEPT ![cur[c]] = "NOT_RUNNABLE"]
    /\ env_ipc_recving' = [env_ipc_recving EXCEPT ![cur[c]] = TRUE]
    /\ Goto(c, "tail")
    /\ UNCHANGED <<lock, cur, cr3, env_pgdir, gen, env_parent_id, env_runs, env_free_list, kin>>

\* Any environment may send to any other that waits; failures are sys_other.
sys_ipc_try_send(c) ==
    /\ Syscall(c, "ipc_try_send")
    /\ \E e \in Slots :
          /\ env_status[e] # "FREE" /\ env_ipc_recving[e]
          /\ env_status' = [env_status EXCEPT ![e] = "RUNNABLE"]
          /\ env_ipc_recving' = [env_ipc_recving EXCEPT ![e] = FALSE]
    /\ Goto(c, "tail")
    /\ UNCHANGED <<lock, cur, cr3, env_pgdir, gen, env_parent_id, env_runs, env_free_list, kin>>

\* sys_page_map frees the page that it could not map, and page_free panics.
sys_page_map_panics(c) == Syscall(c, "page_map") /\ panic(c)

\* Every call that changes no field modelled here, and every failing call.
sys_other(c) ==
    \/ Dispatch(c, "syscall") /\ Goto(c, "tail") /\ UNCHANGED <<lock, cur, cr3, envVars>>
    \/ sys_page_map_panics(c)

-----------------------------------------------------------------------------
(* sched.c *)

\* Mutants: the scan always starts at slot 0; it also accepts RUNNING.
ScanStart_Zero(c) == 0
FirstRunnable_AlsoRunning(c, e) == env_status[e] \in {"RUNNABLE", "RUNNING"}

\* The two loops of sched_yield: e is the first RUNNABLE slot from start on,
\* circularly, where start follows the slot of the current environment.
ScanStart(c) == IF cur[c] = NULL THEN 0 ELSE cur[c] + 1
Scanned(c, e) ==
    IF e >= ScanStart(c) THEN {s \in Slots : s >= ScanStart(c) /\ s < e}
                         ELSE {s \in Slots : s >= ScanStart(c) \/ s < e}
FirstRunnable(c, e) ==
    /\ env_status[e] = "RUNNABLE"
    /\ \A s \in Scanned(c, e) : env_status[s] # "RUNNABLE"
NoneRunnable == \A s \in Slots : env_status[s] # "RUNNABLE"
MayContinue(c) == cur[c] # NULL /\ env_status[cur[c]] = "RUNNING"

\* Mutants: the CPU halts with the lock; cpu_status is not set.
sched_halt_KeepsLock(c) ==
    /\ cur' = [cur EXCEPT ![c] = NULL]
    /\ cr3' = [cr3 EXCEPT ![c] = NULL]
    /\ cpu_status' = [cpu_status EXCEPT ![c] = "HALTED"]
    /\ Goto(c, "halted")
    /\ UNCHANGED lock
sched_halt_NoFlag(c) ==
    /\ cur' = [cur EXCEPT ![c] = NULL]
    /\ cr3' = [cr3 EXCEPT ![c] = NULL]
    /\ lock' = NULL
    /\ Goto(c, "halted")
    /\ UNCHANGED cpu_status

\* sched_halt: the monitor when nothing can ever run, else the hlt loop.
sched_halt(c) ==
    \/ /\ \A s \in Slots : env_status[s] \notin {"RUNNABLE", "RUNNING", "DYING"}
       /\ Goto(c, "monitor")
       /\ UNCHANGED <<lock, cpu_status, cur, cr3>>
    \/ /\ \E s \in Slots : env_status[s] \in {"RUNNABLE", "RUNNING", "DYING"}
       /\ cur' = [cur EXCEPT ![c] = NULL]
       /\ cr3' = [cr3 EXCEPT ![c] = NULL]
       /\ cpu_status' = [cpu_status EXCEPT ![c] = "HALTED"]
       /\ lock' = NULL
       /\ Goto(c, "halted")

sched_yield(c) ==
    /\ mode[c] = "sched"
    /\ \/ \E e \in Slots : FirstRunnable(c, e) /\ env_run(c, e) /\ UNCHANGED cpu_status
       \/ NoneRunnable /\ MayContinue(c) /\ env_run(c, cur[c]) /\ UNCHANGED cpu_status
       \/ NoneRunnable /\ ~MayContinue(c) /\ sched_halt(c) /\ UNCHANGED envVars
    /\ UNCHANGED trapno

\* iret, after the lock was released.
env_pop_tf(c) ==
    /\ mode[c] = "pop"
    /\ Goto(c, "user")
    /\ UNCHANGED <<lock, cpu_status, cur, cr3, trapno, envVars>>

\* The monitor's command loop; it keeps the lock.
monitor(c) == mode[c] = "monitor" /\ UNCHANGED vars

-----------------------------------------------------------------------------
syscall(c) ==
    \/ sys_yield(c) \/ sys_exofork(c) \/ sys_env_destroy(c)
    \/ sys_env_set_status(c) \/ sys_env_set_trapframe(c)
    \/ sys_ipc_recv(c) \/ sys_ipc_try_send(c) \/ sys_other(c)

trap(c) == collect_zombie(c) \/ dispatch_timer(c) \/ page_fault_handler(c)
           \/ syscall(c) \/ trap_return(c)

Boot == (\E c \in CPUs : boot_aps(c) \/ mp_main(c))
        \/ boot_wait \/ env_create \/ boot_done

Next ==
    \/ Boot
    \/ \E c \in CPUs : timer(c) \/ program(c) \/ lock_kernel(c) \/ trap(c)
                       \/ sched_yield(c) \/ env_pop_tf(c) \/ monitor(c)

Spec == Init /\ [][Next]_vars

(***************************************************************************)
(* Fairness.  Code that runs with interrupts disabled goes on to its end   *)
(* (weak).  The LAPIC timer is periodic and an interrupt that arrives with *)
(* IF clear stays pending, so a CPU that is in user mode or halted again   *)
(* and again is interrupted there (strong).  spin_lock is not fair: only   *)
(* some waiting CPU gets the free lock, not each of them.                  *)
(***************************************************************************)
Fairness ==
    /\ WF_vars(Boot)
    /\ WF_vars(\E c \in CPUs : lock_kernel(c))
    /\ \A c \in CPUs : /\ WF_vars(trap(c) \/ sched_yield(c) \/ env_pop_tf(c))
                       /\ SF_vars(timer(c))

FairSpec == Spec /\ Fairness

-----------------------------------------------------------------------------
(***************************************************************************)
(* Safety.                                                                 *)
(***************************************************************************)

\* The big kernel lock: exactly the CPU that holds it executes kernel code
\* (spin_lock and spin_unlock of the boot, trap, env_run and sched_halt paths).
LockHolder == \A c \in CPUs : mode[c] \in InKernel <=> lock = c

\* trap() relies on cpu_status to know whether an interrupt in kernel mode came
\* in the hlt loop, without the lock: CPU_HALTED is set there and nowhere else.
HaltedFlag == \A c \in CPUs : cpu_status[c] = "HALTED" <=> mode[c] = "halted"

\* No two CPUs have the same current environment (sched_yield, sched.c:26).
CurrentExclusive ==
    \A c, d \in CPUs : c # d /\ cur[c] # NULL => cur[c] # cur[d]

\* An environment marked RUNNING or DYING is current on a CPU: nobody loses
\* the reference through which it is preempted or collected as a zombie.
RunningIsCurrent ==
    \A s \in Slots : env_status[s] \in {"RUNNING", "DYING"} => \E c \in CPUs : cur[c] = s

\* A CPU outside the kernel runs in the address space of its current
\* environment, and never on a page directory that env_free gave back.
Cr3Live ==
    \A c \in CPUs : /\ cr3[c] # NULL => \E s \in Slots : env_status[s] # "FREE" /\ cr3[c] = IdOf(s)
                    /\ mode[c] \in {"pop", "user", "spin"} /\ cur[c] # NULL => cr3[c] = IdOf(cur[c])

\* env_free_list links exactly the FREE slots, each of them once, and these are
\* the slots without an address space.
FreeListExact ==
    /\ \A s \in Slots : env_pgdir[s] <=> env_status[s] # "FREE"
    /\ {env_free_list[i] : i \in DOMAIN env_free_list} = {s \in Slots : env_status[s] = "FREE"}
    /\ \A i, j \in DOMAIN env_free_list : env_free_list[i] = env_free_list[j] => i = j

\* envid2env's permission check by identifier recognises real parents only,
\* although slots and their identifiers are reused.
ParentIdSound ==
    \A s, p \in Slots : env_status[s] # "FREE" /\ env_status[p] # "FREE" /\ env_parent_id[s] = IdOf(p)
                          => kin[s] = p

\* An environment blocked in sys_ipc_recv does not run before a message or its
\* end: a reused slot or an early wake-up would return garbage from the call.
RecvingBlocked ==
    \A s \in Slots : env_status[s] # "FREE" /\ env_ipc_recving[s] => env_status[s] = "NOT_RUNNABLE"

\* A zombie ends in one way: the CPU it is current on frees it in trap(),
\* with the lock, and stops using it.
ZombieStep ==
    \A s \in Slots : env_status[s] = "DYING" /\ env_status'[s] # "DYING" =>
        /\ env_status'[s] = "FREE"
        /\ \E c \in CPUs : lock = c /\ cur[c] = s /\ cur'[c] = NULL /\ cr3'[c] = NULL
ZombieFreedByItsCpu == [][ZombieStep]_vars

(***************************************************************************)
(* Liveness.                                                               *)
(***************************************************************************)

\* Round robin: while no environment is destroyed, a RUNNABLE one runs.
NoStarvation == \A s \in Slots : env_status[s] = "RUNNABLE" ~> env_status[s] # "RUNNABLE"

\* Booting ends: the handshake through cpu_status and the lock does not hang.
BootCompletes == <>(\A c \in CPUs : mode[c] \notin {"off", "mp_main", "boot", "boot_wait"})
=============================================================================
