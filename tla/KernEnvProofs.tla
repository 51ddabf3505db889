--------------------------- MODULE KernEnvProofs ---------------------------
(* Theorems about KernEnv, for every number of CPUs and of slots. *)
EXTENDS KernEnv, TLAPS

\* A CPU that came from user mode has a current environment.
CurDefined == \A c \in CPUs : mode[c] \in {"kernel", "pop", "user"} => cur[c] # NULL

\* An environment in use was allocated, so its identifier is not 0.
GenUsed ==
    /\ \A s \in Slots : env_status[s] # "FREE" => gen[s] # 0
    /\ \A c \in CPUs : cur[c] # NULL => gen[cur[c]] # 0

CpuInv  == LockHolder /\ HaltedFlag /\ CurDefined
BaseInv == TypeOK /\ CpuInv /\ GenUsed

USE BSPAssumption, NENVAssumption, GenAssumption
USE DEF BaseInv, TypeOK, CpuInv, Goto

LEMMA BaseInit == Init => BaseInv
  BY DEF Init, CpuTypeOK, EnvTypeOK, LockHolder, HaltedFlag, CurDefined, GenUsed, InKernel,
         Modes, Slots, Statuses, EnvId

\* What env_alloc establishes.
LEMMA AllocBase ==
  ASSUME BaseInv, NEW s \in Slots, NEW p \in Slots \cup {NULL}, NEW st \in Statuses,
         p # NULL => gen[p] # 0, env_alloc(s, p, st), cur' = cur
  PROVE  EnvTypeOK' /\ GenUsed'
  <1> USE DEF env_alloc, EnvTypeOK
  <1>1. NextGen(s) \in 1..GenMax
    BY DEF NextGen
  <1>2. gen' \in [Slots -> 0..GenMax] /\ \A x \in Slots : gen[x] # 0 => gen'[x] # 0
    BY <1>1
  <1>3. env_parent_id' \in [Slots -> EnvId \cup {NULL}]
    BY DEF EnvId, IdOf
  <1>4. env_free_list' \in Seq(Slots)
    OBVIOUS
  <1>5. kin' \in [Slots -> Slots \cup {NULL}] /\ env_status' \in [Slots -> Statuses]
        /\ env_pgdir' \in [Slots -> BOOLEAN] /\ env_ipc_recving' \in [Slots -> BOOLEAN]
    OBVIOUS
  <1>6. GenUsed'
    BY <1>1, <1>2 DEF GenUsed, CpuTypeOK
  <1> QED
    BY <1>2, <1>3, <1>4, <1>5, <1>6

LEMMA BaseBoot == BaseInv /\ Boot => BaseInv'
  <1> SUFFICES ASSUME BaseInv, Boot PROVE BaseInv'
    OBVIOUS
  <1> USE DEF CpuTypeOK, EnvTypeOK, LockHolder, HaltedFlag, CurDefined, GenUsed, InKernel, Modes,
         envVars, cpuVars
  <1>1. ASSUME NEW c \in CPUs, boot_aps(c) PROVE BaseInv'
    BY <1>1 DEF boot_aps
  <1>2. ASSUME NEW c \in CPUs, mp_main(c) PROVE BaseInv'
    BY <1>2 DEF mp_main
  <1>3. CASE boot_wait
    BY <1>3 DEF boot_wait
  <1>4. CASE env_create
    <2>1. PICK s \in Slots : env_alloc(s, NULL, "RUNNABLE")
      BY <1>4 DEF env_create
    <2>2. EnvTypeOK' /\ GenUsed'
      BY <1>4, <2>1, AllocBase DEF env_create, Statuses
    <2>3. CpuTypeOK' /\ CpuInv'
      BY <1>4 DEF env_create
    <2> QED
      BY <2>2, <2>3
  <1>5. CASE boot_done
    BY <1>5 DEF boot_done
  <1> QED
    BY <1>1, <1>2, <1>3, <1>4, <1>5 DEF Boot

\* The parts that a step of CPU c's trap handling can disturb.
LEMMA FreeBase ==
  ASSUME BaseInv, NEW c \in CPUs, NEW e \in Slots, env_free(c, e)
  PROVE  /\ env_status' \in [Slots -> Statuses] /\ env_pgdir' \in [Slots -> BOOLEAN]
         /\ env_free_list' \in Seq(Slots) /\ kin' \in [Slots -> Slots \cup {NULL}]
         /\ cr3' \in [CPUs -> EnvId \cup {NULL}]
         /\ \A s \in Slots : env_status'[s] # "FREE" => env_status[s] # "FREE"
  BY DEF env_free, CpuTypeOK, EnvTypeOK, Statuses

LEMMA DestroyBase ==
  ASSUME BaseInv, NEW c \in CPUs, NEW e \in Slots, NEW rest, env_destroy(c, e, rest), cpu_status' = cpu_status,
         mode[c] = "kernel", rest \in {"tail", "monitor"}, trapno' \in [CPUs -> {"timer", "syscall", "fault", NULL}]
  PROVE  BaseInv'
  <1>1. EnvTypeOK'
    BY FreeBase DEF env_destroy, EnvTypeOK, Statuses
  <1>3. CpuTypeOK'
    BY FreeBase DEF env_destroy, CpuTypeOK, Modes, InKernel
  <1>4. \A s \in Slots : env_status'[s] # "FREE" => env_status[s] # "FREE"
    BY FreeBase DEF env_destroy, EnvTypeOK
  <1>5. GenUsed'
    BY <1>4 DEF env_destroy, GenUsed, CpuTypeOK
  <1>2. CpuInv'
    BY ZenonT(30) DEF env_destroy, env_free, CpuTypeOK, LockHolder, HaltedFlag, CurDefined, InKernel
  <1> QED
    BY <1>1, <1>2, <1>3, <1>5

LEMMA RunBase ==
  ASSUME BaseInv, NEW c \in CPUs, NEW e \in Slots, env_run(c, e), cpu_status' = cpu_status,
         gen[e] # 0, mode[c] \in {"kernel", "tail", "sched"},
         trapno' \in [CPUs -> {"timer", "syscall", "fault", NULL}]
  PROVE  BaseInv'
  <1>1. env_status' \in [Slots -> Statuses]
    BY DEF env_run, EnvTypeOK, Statuses
  <1>2. cur' \in [CPUs -> Slots \cup {NULL}] /\ cr3' \in [CPUs -> EnvId \cup {NULL}]
    <2>1. IdOf(e) \in EnvId
      BY DEF EnvTypeOK, EnvId, IdOf
    <2> QED
      BY <2>1 DEF env_run, CpuTypeOK
  <1>3. EnvTypeOK' /\ CpuTypeOK'
    BY <1>1, <1>2 DEF env_run, CpuTypeOK, EnvTypeOK, Modes, InKernel
  <1>6. \A s \in Slots : env_status'[s] # "FREE" => env_status[s] # "FREE" \/ s = e
    BY DEF env_run, EnvTypeOK
  <1>7. \A d \in CPUs : cur'[d] # NULL => cur'[d] = e \/ cur'[d] = cur[d]
    BY DEF env_run, CpuTypeOK
  <1>4. GenUsed'
    <2>1. gen' = gen
      BY DEF env_run
    <2>2. \A s \in Slots : env_status'[s] # "FREE" => gen'[s] # 0
      BY <1>6, <2>1 DEF GenUsed
    <2>3. \A d \in CPUs : cur'[d] # NULL => gen'[cur'[d]] # 0
      BY <1>7, <2>1 DEF GenUsed
    <2> QED
      BY <2>2, <2>3 DEF GenUsed
  <1>5. CpuInv'
    BY DEF env_run, Slots, CpuTypeOK, LockHolder, HaltedFlag, CurDefined, InKernel
  <1> QED
    BY <1>3, <1>4, <1>5

LEMMA BaseTrap == ASSUME BaseInv, NEW c \in CPUs, trap(c) PROVE BaseInv'
  <1> USE DEF Dispatch, Syscall, CpuTypeOK
  <1>0. ASSUME mode[c] = "kernel" PROVE cur[c] \in Slots /\ gen[cur[c]] # 0
    BY <1>0 DEF CurDefined, GenUsed
  <1>00. "tail" \in InKernel /\ "sched" \in InKernel /\ "monitor" \in InKernel /\ InKernel \subseteq Modes
    BY DEF InKernel, Modes
  <1>1. ASSUME NEW m \in {"tail", "sched", "monitor"}, mode[c] = "kernel", Goto(c, m), EnvTypeOK', GenUsed',
               trapno' = [trapno EXCEPT ![c] = NULL], UNCHANGED <<lock, cpu_status, cur, cr3>>
        PROVE  BaseInv'
    <2>1. CpuTypeOK'
      BY <1>1, <1>00
    <2>2. CpuInv'
      BY <1>1 DEF LockHolder, HaltedFlag, CurDefined, InKernel
    <2> QED
      BY <1>1, <2>1, <2>2
  <1>2. ASSUME collect_zombie(c) PROVE BaseInv'
    <2>1. EnvTypeOK' /\ CpuTypeOK'
      BY <1>2, <1>0, <1>00, FreeBase DEF collect_zombie, EnvTypeOK
    <2>2. GenUsed'
      BY <1>2, <1>0, FreeBase DEF collect_zombie, GenUsed
    <2>3. CpuInv'
      BY <1>2 DEF collect_zombie, LockHolder, HaltedFlag, CurDefined, InKernel
    <2> QED
      BY <2>1, <2>2, <2>3
  <1>3. ASSUME dispatch_timer(c) PROVE BaseInv'
    BY <1>3, <1>1 DEF dispatch_timer, envVars, EnvTypeOK, GenUsed
  <1>4. ASSUME page_fault_handler(c) PROVE BaseInv'
    BY <1>4, <1>0, DestroyBase, RunBase DEF page_fault_handler
  <1>5. ASSUME trap_return(c) PROVE BaseInv'
    <2>1. CASE cur[c] # NULL /\ env_status[cur[c]] = "RUNNING"
      <3>1. cur[c] \in Slots /\ gen[cur[c]] # 0
        BY <2>1 DEF GenUsed
      <3> QED
        BY <1>5, <2>1, <3>1, RunBase DEF trap_return
    <2>2. CASE ~(cur[c] # NULL /\ env_status[cur[c]] = "RUNNING")
      <3>1. CpuTypeOK' /\ EnvTypeOK' /\ GenUsed'
        BY <1>5, <2>2, <1>00 DEF trap_return, envVars, EnvTypeOK, GenUsed
      <3>2. CpuInv'
        BY <1>5, <2>2 DEF trap_return, LockHolder, HaltedFlag, CurDefined, InKernel
      <3> QED
        BY <3>1, <3>2
    <2> QED
      BY <2>1, <2>2
  <1>6. ASSUME sys_yield(c) \/ sys_other(c) PROVE BaseInv'
    <2>1. EnvTypeOK' /\ GenUsed'
      BY <1>6, <1>0 DEF sys_yield, sys_other, sys_page_map_panics, panic, envVars, EnvTypeOK, GenUsed
    <2> QED
      BY <1>6, <2>1, <1>1 DEF sys_yield, sys_other, sys_page_map_panics, panic
  <1>7. ASSUME sys_exofork(c) PROVE BaseInv'
    <2>1. PICK s \in Slots : env_alloc(s, cur[c], "NOT_RUNNABLE")
      BY <1>7 DEF sys_exofork
    <2>2. EnvTypeOK' /\ GenUsed'
      BY <1>7, <1>0, <2>1, AllocBase DEF sys_exofork, Statuses
    <2> QED
      BY <1>7, <2>2, <1>1 DEF sys_exofork
  <1>8. ASSUME sys_env_destroy(c) \/ sys_env_set_trapframe(c) PROVE BaseInv'
    <2>1. CASE Dispatch(c, "syscall") /\ panic(c)
      <3>1. EnvTypeOK' /\ GenUsed'
        BY <2>1, <1>0 DEF panic, envVars, EnvTypeOK, GenUsed
      <3> QED
        BY <2>1, <3>1, <1>1 DEF panic
    <2>2. CASE ~(Dispatch(c, "syscall") /\ panic(c))
      <3>1. PICK e \in Slots, rest \in {"tail", "monitor"} :
               Dispatch(c, "syscall") /\ env_destroy(c, e, rest)
        BY <1>8, <2>2 DEF sys_env_destroy, sys_env_set_trapframe
      <3> QED
        BY <3>1, DestroyBase
    <2> QED
      BY <2>1, <2>2
  <1>9. ASSUME sys_env_set_status(c) PROVE BaseInv'
    <2>1. PICK e \in Slots, st \in {"RUNNABLE", "NOT_RUNNABLE"} :
             MayManipulate(c, e) /\ env_status' = [env_status EXCEPT ![e] = st]
      BY <1>9 DEF sys_env_set_status
    <2>2. EnvTypeOK' /\ GenUsed'
      BY <1>9, <1>0, <2>1 DEF sys_env_set_status, MayManipulate, EnvTypeOK, GenUsed, Statuses
    <2> QED
      BY <1>9, <2>2, <1>1 DEF sys_env_set_status
  <1>10. ASSUME sys_ipc_recv(c) PROVE BaseInv'
    <2>1. EnvTypeOK' /\ GenUsed'
      BY <1>10, <1>0 DEF sys_ipc_recv, EnvTypeOK, GenUsed, Statuses
    <2> QED
      BY <1>10, <2>1, <1>1 DEF sys_ipc_recv
  <1>11. ASSUME sys_ipc_try_send(c) PROVE BaseInv'
    <2>1. EnvTypeOK' /\ GenUsed'
      BY <1>11 DEF sys_ipc_try_send, EnvTypeOK, GenUsed, Statuses
    <2> QED
      BY <1>11, <2>1, <1>1 DEF sys_ipc_try_send
  <1> QED
    BY <1>2, <1>3, <1>4, <1>5, <1>6, <1>7, <1>8, <1>9, <1>10, <1>11 DEF trap, syscall

LEMMA BaseSched == ASSUME BaseInv, NEW c \in CPUs, sched_yield(c) PROVE BaseInv'
  <1> USE DEF CpuTypeOK
  <1>1. ASSUME NEW e \in Slots, env_status[e] # "FREE", env_run(c, e), cpu_status' = cpu_status
        PROVE  BaseInv'
    BY <1>1, RunBase DEF sched_yield, GenUsed
  <1>2. CASE sched_halt(c) /\ UNCHANGED envVars
    <2>1. CpuTypeOK' /\ EnvTypeOK' /\ GenUsed'
      BY <1>2 DEF sched_yield, sched_halt, envVars, EnvTypeOK, GenUsed, Modes, InKernel
    <2>2. CpuInv'
      BY <1>2 DEF sched_yield, sched_halt, LockHolder, HaltedFlag, CurDefined, InKernel
    <2> QED
      BY <2>1, <2>2
  <1> QED
    BY <1>1, <1>2 DEF sched_yield, FirstRunnable, MayContinue

LEMMA BaseEntry ==
  ASSUME BaseInv, NEW c \in CPUs,
         timer(c) \/ program(c) \/ lock_kernel(c) \/ env_pop_tf(c) \/ monitor(c)
  PROVE  BaseInv'
  <1> USE DEF CpuTypeOK, EnvTypeOK, LockHolder, HaltedFlag, CurDefined, GenUsed, envVars
  <1> DEFINE A == timer(c) \/ program(c) \/ lock_kernel(c) \/ env_pop_tf(c) \/ monitor(c)
  <1>1. ASSUME NEW t \in {"timer", "syscall", "fault"}, trap_user(c, t) PROVE BaseInv'
    BY <1>1 DEF trap_user, InKernel, Modes
  <1>2. ASSUME trap_halted(c) PROVE BaseInv'
    BY <1>2 DEF trap_halted, InKernel, Modes
  <1>3. ASSUME lock_kernel(c) PROVE BaseInv'
    BY <1>3 DEF lock_kernel, InKernel, Modes
  <1>4. ASSUME env_pop_tf(c) PROVE BaseInv'
    BY <1>4 DEF env_pop_tf, InKernel, Modes
  <1>5. ASSUME monitor(c) PROVE BaseInv'
    BY <1>5 DEF monitor, vars, cpuVars
  <1> QED
    BY <1>1, <1>2, <1>3, <1>4, <1>5 DEF timer, program

LEMMA BaseStep == BaseInv /\ [Next]_vars => BaseInv'
  <1> SUFFICES ASSUME BaseInv, [Next]_vars PROVE BaseInv'
    OBVIOUS
  <1>1. CASE UNCHANGED vars
    BY <1>1 DEF vars, cpuVars, envVars, CpuTypeOK, EnvTypeOK, LockHolder, HaltedFlag, CurDefined,
                GenUsed
  <1>2. CASE Next
    BY <1>2, BaseBoot, BaseTrap, BaseSched, BaseEntry DEF Next
  <1> QED
    BY <1>1, <1>2

\* Whatever programs do: the state stays well typed, the CPU that executes kernel
\* code is the one that holds the lock, and CPU_HALTED marks the hlt loop only.
THEOREM KernelLock == Spec => [](TypeOK /\ LockHolder /\ HaltedFlag)
  <1>1. BaseInv => TypeOK /\ LockHolder /\ HaltedFlag
    OBVIOUS
  <1> QED
    BY <1>1, BaseInit, BaseStep, PTL DEF Spec

\* The fields of envs[] and cpus[] keep their types, the generation its width.
THEOREM WellTyped == Spec => []TypeOK
  <1>1. TypeOK /\ LockHolder /\ HaltedFlag => TypeOK
    OBVIOUS
  <1> QED
    BY <1>1, KernelLock, PTL

\* What trap() concludes from cpu_status, without the lock, is true: the CPU
\* was in sched_halt's loop and gave the lock back (trap.c:331-332).
THEOREM HaltedMeansUnlocked == Spec => []HaltedFlag
  <1>1. TypeOK /\ LockHolder /\ HaltedFlag => HaltedFlag
    OBVIOUS
  <1> QED
    BY <1>1, KernelLock, PTL

-----------------------------------------------------------------------------
(***************************************************************************)
(* The second invariant needs programs that follow the discipline of lib/. *)
(***************************************************************************)
Disciplined == {"destroy", "set_status", "set_trapframe"} \subseteq Careful

\* What is current on a CPU, according to where the CPU is.
CurState ==
    \A c \in CPUs :
        /\ mode[c] \in {"boot", "boot_wait", "off", "mp_main", "halted"} => cur[c] = NULL
        /\ cur[c] # NULL =>
              /\ env_status[cur[c]] \in {"RUNNING", "DYING", "NOT_RUNNABLE"}
              /\ mode[c] \in {"pop", "user", "spin", "kernel"}
                    => env_status[cur[c]] \in {"RUNNING", "DYING"}
              /\ mode[c] \in {"tail", "sched"} => env_status[cur[c]] # "DYING"

Cr3Exact == \A c \in CPUs : cr3[c] = IF cur[c] = NULL THEN NULL ELSE IdOf(cur[c])

\* An environment that never ran is not marked as executing or receiving.
RanInv ==
    \A s \in Slots : /\ env_status[s] \in {"RUNNING", "DYING"} => env_runs[s]
                     /\ env_status[s] # "FREE" /\ env_ipc_recving[s] => env_runs[s]

\* The parts that do not mention mode, and all of it.
ShareInv == /\ FreeListExact /\ CurrentExclusive /\ RunningIsCurrent /\ Cr3Exact
            /\ RecvingBlocked /\ RanInv
ExclInv  == BaseInv /\ CurState /\ ShareInv

Elems(q) == {q[i] : i \in DOMAIN q}
NoDup(q) == \A i, j \in DOMAIN q : q[i] = q[j] => i = j

LEMMA TailElems ==
  ASSUME NEW S, NEW q \in Seq(S), q # <<>>, NoDup(q)
  PROVE  Elems(Tail(q)) = Elems(q) \ {Head(q)} /\ NoDup(Tail(q))
  <1>1. /\ Len(q) \in Nat /\ Len(q) >= 1 /\ DOMAIN q = 1..Len(q) /\ Head(q) = q[1]
        /\ DOMAIN Tail(q) = 1..(Len(q) - 1)
        /\ \A i \in 1..(Len(q) - 1) : Tail(q)[i] = q[i + 1]
    OBVIOUS
  <1>2. NoDup(Tail(q))
    BY <1>1 DEF NoDup
  <1>3. ASSUME NEW x \in Elems(Tail(q)) PROVE x \in Elems(q) /\ x # Head(q)
    BY <1>1, <1>3 DEF Elems, NoDup
  <1>4. ASSUME NEW x \in Elems(q), x # Head(q) PROVE x \in Elems(Tail(q))
    <2>1. PICK i \in 1..Len(q) : x = q[i]
      BY <1>1, <1>4 DEF Elems
    <2>2. i # 1 /\ i - 1 \in 1..(Len(q) - 1) /\ x = Tail(q)[i - 1]
      BY <1>1, <1>4, <2>1
    <2> QED
      BY <1>1, <2>2 DEF Elems
  <1> QED
    BY <1>2, <1>3, <1>4

LEMMA PushElems ==
  ASSUME NEW S, NEW q \in Seq(S), NEW e \in S, e \notin Elems(q), NoDup(q)
  PROVE  Elems(<<e>> \o q) = Elems(q) \cup {e} /\ NoDup(<<e>> \o q)
  <1> DEFINE r == <<e>> \o q
  <1>1. /\ Len(q) \in Nat /\ DOMAIN q = 1..Len(q) /\ DOMAIN r = 1..(Len(q) + 1)
        /\ r[1] = e /\ \A i \in 1..Len(q) : r[i + 1] = q[i]
    OBVIOUS
  <1>2. \A i \in 2..(Len(q) + 1) : i - 1 \in 1..Len(q) /\ r[i] = q[i - 1]
    <2> TAKE i \in 2..(Len(q) + 1)
    <2>1. i - 1 \in 1..Len(q) /\ (i - 1) + 1 = i
      BY <1>1
    <2> QED
      BY <1>1, <2>1
  <1> HIDE DEF r
  <1>3. NoDup(r)
    <2>1. ASSUME NEW i \in DOMAIN r, NEW j \in DOMAIN r, r[i] = r[j] PROVE i = j
      <3>1. CASE i = 1 /\ j = 1
        BY <3>1
      <3>2. CASE i = 1 /\ j # 1
        BY <1>1, <1>2, <2>1, <3>2 DEF Elems
      <3>3. CASE i # 1 /\ j = 1
        BY <1>1, <1>2, <2>1, <3>3 DEF Elems
      <3>4. CASE i # 1 /\ j # 1
        <4>1. i - 1 \in DOMAIN q /\ j - 1 \in DOMAIN q /\ q[i - 1] = q[j - 1]
          BY <1>1, <1>2, <2>1, <3>4
        <4>2. i - 1 = j - 1
          BY <4>1 DEF NoDup
        <4> QED
          BY <1>1, <4>2
      <3> QED
        BY <3>1, <3>2, <3>3, <3>4
    <2> QED
      BY <2>1 DEF NoDup
  <1>4. ASSUME NEW x \in Elems(r) PROVE x \in Elems(q) \cup {e}
    BY <1>1, <1>2 DEF Elems
  <1>5. ASSUME NEW x \in Elems(q) PROVE x \in Elems(r)
    <2>1. PICK i \in 1..Len(q) : x = q[i]
      BY <1>1 DEF Elems
    <2>2. i + 1 \in DOMAIN r /\ r[i + 1] = x
      BY <1>1, <2>1
    <2> QED
      BY <2>2 DEF Elems
  <1>6. e \in Elems(r)
    BY <1>1 DEF Elems
  <1> QED
    BY <1>3, <1>4, <1>5, <1>6 DEF r

LEMMA FreeListDef ==
  FreeListExact <=> /\ \A s \in Slots : env_pgdir[s] <=> env_status[s] # "FREE"
                    /\ Elems(env_free_list) = {s \in Slots : env_status[s] = "FREE"}
                    /\ NoDup(env_free_list)
  BY DEF FreeListExact, Elems, NoDup

LEMMA ExclInit == Init => CurState /\ ShareInv
  <1> SUFFICES ASSUME Init PROVE CurState /\ ShareInv
    OBVIOUS
  <1>1. CurState /\ CurrentExclusive /\ RunningIsCurrent /\ Cr3Exact /\ RecvingBlocked
        /\ RanInv
    BY DEF Init, CurState, CurrentExclusive, RunningIsCurrent, Cr3Exact, RecvingBlocked, RanInv
  <1>2. DOMAIN env_free_list = 1..NENV /\ \A i \in 1..NENV : env_free_list[i] = i - 1
    BY DEF Init
  <1>3. \A i, j \in DOMAIN env_free_list : env_free_list[i] = env_free_list[j] => i = j
    BY <1>2
  <1>4. ASSUME NEW s \in Slots PROVE \E i \in DOMAIN env_free_list : env_free_list[i] = s
    <2>1. s + 1 \in 1..NENV /\ (s + 1) - 1 = s
      BY DEF Slots
    <2> QED
      BY <1>2, <2>1
  <1>5. \A i \in DOMAIN env_free_list : env_free_list[i] \in Slots
    BY <1>2 DEF Slots
  <1>6. FreeListExact
    BY <1>3, <1>4, <1>5 DEF FreeListExact, Init
  <1> QED
    BY <1>1, <1>6 DEF ShareInv

-----------------------------------------------------------------------------
LEMMA ListAlloc ==
  ASSUME BaseInv, FreeListExact, NEW s \in Slots, NEW p, NEW st \in Statuses, st # "FREE",
         env_alloc(s, p, st)
  PROVE  FreeListExact' /\ env_status[s] = "FREE"
  <1> USE DEF EnvTypeOK
  <1>1. env_free_list \in Seq(Slots) /\ env_free_list # <<>> /\ s = Head(env_free_list)
        /\ env_free_list' = Tail(env_free_list) /\ env_status' = [env_status EXCEPT ![s] = st]
        /\ env_pgdir' = [env_pgdir EXCEPT ![s] = TRUE]
    BY DEF env_alloc
  <1>2. /\ Elems(Tail(env_free_list)) = Elems(env_free_list) \ {s} /\ NoDup(Tail(env_free_list))
        /\ s \in Elems(env_free_list)
    <2>1. NoDup(env_free_list)
      BY FreeListDef
    <2>2. 1 \in DOMAIN env_free_list /\ s = env_free_list[1]
      BY <1>1
    <2> QED
      BY <1>1, <2>1, <2>2, TailElems DEF Elems
  <1>3. Elems(env_free_list)' = Elems(Tail(env_free_list))
        /\ (NoDup(env_free_list)' <=> NoDup(Tail(env_free_list)))
    BY <1>1 DEF Elems, NoDup
  <1>4. Elems(env_free_list)' = {x \in Slots : env_status'[x] = "FREE"}
    BY <1>1, <1>2, <1>3, FreeListDef
  <1>5. \A x \in Slots : env_pgdir'[x] <=> env_status'[x] # "FREE"
    BY <1>1, FreeListDef
  <1>6. FreeListExact'
    BY <1>2, <1>3, <1>4, <1>5 DEF FreeListExact, Elems, NoDup
  <1> QED
    BY <1>2, <1>6, FreeListDef

LEMMA ListFree ==
  ASSUME BaseInv, FreeListExact, NEW c \in CPUs, NEW e \in Slots, env_status[e] # "FREE",
         env_free(c, e)
  PROVE  FreeListExact'
  <1> USE DEF EnvTypeOK
  <1>1. env_free_list \in Seq(Slots) /\ env_free_list' = <<e>> \o env_free_list
        /\ env_status' = [env_status EXCEPT ![e] = "FREE"]
        /\ env_pgdir' = [env_pgdir EXCEPT ![e] = FALSE]
    BY DEF env_free
  <1>2. /\ Elems(<<e>> \o env_free_list) = Elems(env_free_list) \cup {e}
        /\ NoDup(<<e>> \o env_free_list)
    BY <1>1, PushElems, FreeListDef
  <1>3. Elems(env_free_list)' = Elems(<<e>> \o env_free_list)
        /\ (NoDup(env_free_list)' <=> NoDup(<<e>> \o env_free_list))
    BY <1>1 DEF Elems, NoDup
  <1>4. Elems(env_free_list)' = {x \in Slots : env_status'[x] = "FREE"}
    BY ZenonT(30), <1>1, <1>2, <1>3, FreeListDef
  <1>5. \A x \in Slots : env_pgdir'[x] <=> env_status'[x] # "FREE"
    BY <1>1, FreeListDef
  <1> QED
    BY <1>2, <1>3, <1>4, <1>5 DEF FreeListExact, Elems, NoDup

LEMMA ListKeep ==
  ASSUME FreeListExact, UNCHANGED <<env_pgdir, env_free_list>>,
         \A s \in Slots : env_status'[s] = "FREE" <=> env_status[s] = "FREE"
  PROVE  FreeListExact'
  BY DEF FreeListExact

\* A slot that is not marked as executing is current on no CPU but, possibly,
\* the one in the kernel.
LEMMA NotCurrent ==
  ASSUME ExclInv, NEW c \in CPUs, mode[c] \in InKernel, NEW e \in Slots,
         env_status[e] \notin {"RUNNING", "DYING"}, NEW d \in CPUs, d # c
  PROVE  cur[d] # e
  <1>1. mode[d] \notin InKernel
    BY DEF ExclInv, LockHolder
  <1>2. CASE mode[d] \in {"pop", "user", "spin"}
    BY <1>2 DEF ExclInv, CurState, Slots
  <1>3. CASE mode[d] \notin {"pop", "user", "spin"}
    <2>1. mode[d] \in {"off", "mp_main", "halted"}
      BY <1>1, <1>3 DEF ExclInv, CpuTypeOK, Modes
    <2> QED
      BY <2>1 DEF ExclInv, CurState, Slots
  <1> QED
    BY <1>2, <1>3

\* A new environment in a free slot.
LEMMA ExclAlloc ==
  ASSUME ExclInv, NEW s \in Slots, NEW p \in Slots \cup {NULL}, p # NULL => gen[p] # 0,
         NEW st \in {"RUNNABLE", "NOT_RUNNABLE"}, env_alloc(s, p, st), UNCHANGED <<cur, cr3>>
  PROVE  ShareInv' /\ \A c \in CPUs : cur[c] # NULL => cur[c] # s
  <1> USE DEF ExclInv, ShareInv
  <1>1. FreeListExact' /\ env_status[s] = "FREE"
    BY ListAlloc DEF Statuses
  <1>2. /\ env_status' = [env_status EXCEPT ![s] = st]
        /\ gen' = [gen EXCEPT ![s] = NextGen(s)]
        /\ env_ipc_recving' = [env_ipc_recving EXCEPT ![s] = FALSE]
        /\ env_runs' = [env_runs EXCEPT ![s] = FALSE]
    BY DEF env_alloc
  <1>3. ASSUME NEW c \in CPUs, cur[c] # NULL PROVE cur[c] # s
    BY <1>1, <1>3 DEF CurState
  <1>4. CurrentExclusive' /\ RunningIsCurrent'
    BY <1>1, <1>2 DEF CurrentExclusive, RunningIsCurrent, EnvTypeOK
  <1>5. Cr3Exact'
    BY <1>2, <1>3 DEF Cr3Exact, IdOf, CpuTypeOK, EnvTypeOK
  <1>6. RecvingBlocked' /\ RanInv'
    BY <1>2 DEF RecvingBlocked, RanInv, EnvTypeOK
  <1> QED
    BY <1>1, <1>3, <1>4, <1>5, <1>6

LEMMA ExclBoot == ExclInv /\ Boot => CurState' /\ ShareInv'
  <1> SUFFICES ASSUME ExclInv, Boot PROVE CurState' /\ ShareInv'
    OBVIOUS
  <1>1. CASE env_create
    <2>1. PICK s \in Slots : env_alloc(s, NULL, "RUNNABLE")
      BY <1>1 DEF env_create
    <2>2. UNCHANGED <<cur, cr3, mode>>
      BY <1>1 DEF env_create, cpuVars
    <2>3. ShareInv' /\ \A c \in CPUs : cur[c] # NULL => cur[c] # s
      BY <2>1, <2>2, ExclAlloc
    <2>4. env_status' = [env_status EXCEPT ![s] = "RUNNABLE"]
      BY <2>1 DEF env_alloc
    <2>5. CurState'
      BY <2>2, <2>3, <2>4 DEF CurState, ExclInv, CpuTypeOK, EnvTypeOK
    <2> QED
      BY <2>3, <2>5
  <1>2. CASE ~env_create
    <2>1. UNCHANGED <<cur, cr3, envVars>>
      BY <1>2 DEF Boot, boot_aps, mp_main, boot_wait, boot_done
    <2>2. ShareInv'
      BY <2>1 DEF ExclInv, ShareInv, envVars, FreeListExact, CurrentExclusive, RunningIsCurrent,
                  Cr3Exact, IdOf, RecvingBlocked, RanInv
    <2>3. CurState'
      BY <1>2, <2>1 DEF Boot, boot_aps, mp_main, boot_wait, boot_done, Goto, ExclInv, CurState,
                        envVars, CpuTypeOK
    <2> QED
      BY <2>2, <2>3
  <1> QED
    BY <1>1, <1>2

\* Freeing an environment that is current on no other CPU.
LEMMA ExclFree ==
  ASSUME ExclInv, NEW c \in CPUs, NEW e \in Slots, env_free(c, e), env_status[e] # "FREE",
         UNCHANGED <<gen, env_runs, env_ipc_recving>>,
         \A d \in CPUs : d # c => cur[d] # e,
         cur' = IF cur[c] = e THEN [cur EXCEPT ![c] = NULL] ELSE cur
  PROVE  ShareInv'
  <1> USE DEF ExclInv, ShareInv, CpuTypeOK, EnvTypeOK
  <1>1. /\ env_status' = [env_status EXCEPT ![e] = "FREE"]
        /\ cr3' = IF cur[c] = e THEN [cr3 EXCEPT ![c] = NULL] ELSE cr3
    BY DEF env_free
  <1>2. FreeListExact'
    BY ListFree
  <1>3. \A d \in CPUs : cur'[d] = IF cur[d] = e THEN NULL ELSE cur[d]
    OBVIOUS
  <1>4. CurrentExclusive'
    BY <1>3 DEF CurrentExclusive
  <1>5. RunningIsCurrent'
    BY <1>1, <1>3 DEF RunningIsCurrent
  <1>6. \A d \in CPUs : cr3'[d] = IF cur[d] = e THEN NULL ELSE cr3[d]
    BY <1>1
  <1>7. Cr3Exact'
    BY <1>3, <1>6 DEF Cr3Exact, IdOf, Slots
  <1>8. RecvingBlocked' /\ RanInv'
    BY <1>1 DEF RecvingBlocked, RanInv
  <1> QED
    BY <1>2, <1>4, <1>5, <1>7, <1>8

\* env_destroy of an environment that is no zombie.
LEMMA ExclDestroy ==
  ASSUME ExclInv, NEW c \in CPUs, NEW e \in Slots, env_destroy(c, e, "tail"), mode[c] = "kernel",
         env_status[cur[c]] # "DYING", env_status[e] \notin {"DYING", "FREE"}
  PROVE  CurState' /\ ShareInv'
  <1> USE DEF ExclInv
  <1>1. c \in CPUs /\ mode[c] \in InKernel /\ cur[c] \in Slots /\ env_status[cur[c]] = "RUNNING"
    BY DEF InKernel, CurDefined, CurState, CpuTypeOK
  <1>2. \A d \in CPUs : d # c => mode[d] \notin InKernel
    BY <1>1 DEF LockHolder
  <1>3. CASE env_status[e] = "RUNNING" /\ cur[c] # e
    <2>1. /\ env_status' = [env_status EXCEPT ![e] = "DYING"] /\ mode' = [mode EXCEPT ![c] = "tail"]
          /\ UNCHANGED <<cur, cr3, gen, env_pgdir, env_free_list, env_runs, env_ipc_recving>>
      BY <1>3 DEF env_destroy, env_free, Goto, FreeListExact, ShareInv
    <2>2. FreeListExact'
      BY <1>3, <2>1, ListKeep DEF ShareInv, EnvTypeOK
    <2>3. CurrentExclusive' /\ RunningIsCurrent' /\ Cr3Exact' /\ RecvingBlocked' /\ RanInv'
      BY <1>3, <2>1 DEF ShareInv, CurrentExclusive, RunningIsCurrent, Cr3Exact, IdOf, RecvingBlocked, RanInv, EnvTypeOK
    <2>4. CurState'
      BY <1>1, <1>2, <1>3, <2>1 DEF CurState, CpuTypeOK, EnvTypeOK, InKernel, Slots
    <2> QED
      BY <2>2, <2>3, <2>4 DEF ShareInv
  <1>4. CASE env_status[e] # "RUNNING" \/ cur[c] = e
    <2>1. env_free(c, e) /\ UNCHANGED <<gen, env_runs, env_ipc_recving>>
      BY <1>4 DEF env_destroy, ShareInv, FreeListExact
    <2>2. \A d \in CPUs : d # c => cur[d] # e
      <3>1. CASE cur[c] = e
        BY <3>1 DEF ShareInv, CurrentExclusive, Slots
      <3>2. CASE cur[c] # e
        BY <1>1, <1>4, <3>2, NotCurrent DEF EnvTypeOK, Statuses
      <3> QED
        BY <3>1, <3>2
    <2>3. cur' = IF cur[c] = e THEN [cur EXCEPT ![c] = NULL] ELSE cur
      BY <1>4 DEF env_destroy, ShareInv, FreeListExact
    <2>4. ShareInv'
      BY <2>1, <2>2, <2>3, ExclFree
    <2>5. env_status' = [env_status EXCEPT ![e] = "FREE"]
      BY <2>1 DEF env_free
    <2>6. mode' = [mode EXCEPT ![c] = IF cur[c] = e THEN "sched" ELSE "tail"]
      BY <1>4 DEF env_destroy, Goto, ShareInv, FreeListExact
    <2>7. CurState'
      BY <1>1, <2>2, <2>3, <2>5, <2>6 DEF CurState, CpuTypeOK, EnvTypeOK
    <2> QED
      BY <2>4, <2>7
  <1> QED
    BY <1>3, <1>4

\* env_run of a RUNNABLE environment, or of the current one that is RUNNING.
LEMMA ExclRun ==
  ASSUME ExclInv, NEW c \in CPUs, NEW e \in Slots, env_run(c, e), mode[c] \in InKernel,
         \/ env_status[e] = "RUNNABLE"
         \/ env_status[e] = "RUNNING" /\ cur[c] = e,
         cur[c] # NULL => env_status[cur[c]] # "DYING"
  PROVE  CurState' /\ ShareInv'
  <1> USE DEF ExclInv, ShareInv, CpuTypeOK, EnvTypeOK
  <1>1. \A d \in CPUs : d # c => cur[d] # e
    <2>1. CASE env_status[e] = "RUNNABLE"
      BY <2>1, NotCurrent
    <2>2. CASE cur[c] = e
      BY <2>2 DEF CurrentExclusive, Slots
    <2> QED
      BY <2>1, <2>2
  <1>2. env_pgdir[e]
    BY DEF FreeListExact
  <1>3. /\ cur' = [cur EXCEPT ![c] = e] /\ cr3' = [cr3 EXCEPT ![c] = IdOf(e)]
        /\ mode' = [mode EXCEPT ![c] = "pop"]
        /\ env_runs' = [env_runs EXCEPT ![e] = TRUE]
        /\ UNCHANGED <<gen, env_pgdir, env_free_list, env_ipc_recving>>
    BY <1>2 DEF env_run, Goto
  <1>4. \A s \in Slots :
           env_status'[s] = IF s = e THEN "RUNNING"
                            ELSE IF s = cur[c] /\ env_status[s] = "RUNNING" THEN "RUNNABLE"
                            ELSE env_status[s]
    BY DEF env_run
  <1>5. FreeListExact'
    <2>1. \A s \in Slots : env_status'[s] = "FREE" <=> env_status[s] = "FREE"
      BY <1>4
    <2> QED
      BY <1>3, <2>1, ListKeep
  <1>6. CurrentExclusive'
    BY <1>1, <1>3 DEF CurrentExclusive
  <1>7. RunningIsCurrent'
    <2> SUFFICES ASSUME NEW s \in Slots, env_status'[s] \in {"RUNNING", "DYING"}
                 PROVE  \E d \in CPUs : cur'[d] = s
      BY DEF RunningIsCurrent
    <2>1. CASE s = e
      BY <1>3, <2>1
    <2>2. CASE s # e
      <3>1. env_status[s] \in {"RUNNING", "DYING"} /\ s # cur[c]
        BY <1>4, <2>2 DEF Slots
      <3>2. PICK d \in CPUs : cur[d] = s
        BY <3>1 DEF RunningIsCurrent
      <3> QED
        BY <1>3, <3>1, <3>2
    <2> QED
      BY <2>1, <2>2
  <1>8. Cr3Exact'
    <2>1. \A d \in CPUs : cr3'[d] = IF d = c THEN IdOf(e) ELSE cr3[d]
      BY <1>3
    <2>2. \A d \in CPUs : cur'[d] = IF d = c THEN e ELSE cur[d]
      BY <1>3
    <2>3. e # NULL /\ gen' = gen
      BY <1>3 DEF Slots
    <2> QED
      BY <2>1, <2>2, <2>3 DEF Cr3Exact, IdOf
  <1>9. RecvingBlocked' /\ RanInv'
    BY <1>3, <1>4 DEF RecvingBlocked, RanInv
  <1>10. CurState'
    <2> SUFFICES ASSUME NEW d \in CPUs
                 PROVE  /\ mode'[d] \in {"boot", "boot_wait", "off", "mp_main", "halted"} => cur'[d] = NULL
                        /\ cur'[d] # NULL =>
                             /\ env_status'[cur'[d]] \in {"RUNNING", "DYING", "NOT_RUNNABLE"}
                             /\ mode'[d] \in {"pop", "user", "spin", "kernel"}
                                   => env_status'[cur'[d]] \in {"RUNNING", "DYING"}
                             /\ mode'[d] \in {"tail", "sched"} => env_status'[cur'[d]] # "DYING"
      BY DEF CurState
    <2>1. CASE d = c
      BY <1>3, <1>4, <2>1
    <2>2. CASE d # c
      <3>1. mode'[d] = mode[d] /\ cur'[d] = cur[d]
        BY <1>3, <2>2
      <3>2. cur[d] # NULL => cur[d] # e /\ cur[d] # cur[c] /\ env_status'[cur[d]] = env_status[cur[d]]
        BY <1>1, <1>4, <2>2 DEF CurrentExclusive
      <3> QED
        BY <3>1, <3>2 DEF CurState
    <2> QED
      BY <2>1, <2>2
  <1> QED
    BY <1>5, <1>6, <1>7, <1>8, <1>9, <1>10

\* Steps that only move a CPU inside the kernel.
LEMMA ExclMove ==
  ASSUME ExclInv, NEW c \in CPUs, NEW m \in {"tail", "sched", "monitor"}, mode[c] \in {"kernel", "tail"},
         Goto(c, m), UNCHANGED <<cur, cr3, envVars>>, cur[c] # NULL => env_status[cur[c]] # "DYING"
  PROVE  CurState' /\ ShareInv'
  <1>1. ShareInv'
    BY DEF ExclInv, ShareInv, envVars, FreeListExact, CurrentExclusive, RunningIsCurrent,
           Cr3Exact, IdOf, RecvingBlocked, RanInv
  <1>2. CurState'
    BY DEF ExclInv, CurState, CpuTypeOK, envVars
  <1> QED
    BY <1>1, <1>2

\* Steps that change the status of an environment which is current on no other CPU,
\* between statuses that do not mean executing, or of the caller.
LEMMA ExclStatus ==
  ASSUME ExclInv, NEW c \in CPUs, mode[c] = "kernel", Goto(c, "tail"), NEW e \in Slots,
         NEW st \in {"RUNNABLE", "NOT_RUNNABLE"}, env_status' = [env_status EXCEPT ![e] = st],
         UNCHANGED <<cur, cr3, gen, env_pgdir, env_free_list>>, env_status[cur[c]] = "RUNNING",
         \/ e = cur[c] /\ st = "NOT_RUNNABLE"
         \/ env_status[e] = "NOT_RUNNABLE",
         RecvingBlocked' /\ RanInv'
  PROVE  CurState' /\ ShareInv'
  <1> USE DEF ExclInv, ShareInv, CpuTypeOK, EnvTypeOK
  <1>1. \A d \in CPUs : d # c => cur[d] # e
    <2>1. CASE e = cur[c]
      BY <2>1 DEF CurrentExclusive, Slots
    <2>2. CASE env_status[e] = "NOT_RUNNABLE"
      BY <2>2, NotCurrent DEF InKernel
    <2> QED
      BY <2>1, <2>2
  <1>2. cur[c] \in Slots
    BY DEF CurDefined
  <1>3. FreeListExact'
    BY <1>2, ListKeep
  <1>4. CurrentExclusive' /\ Cr3Exact'
    BY DEF CurrentExclusive, Cr3Exact, IdOf
  <1>5. RunningIsCurrent'
    BY DEF RunningIsCurrent
  <1>6. CurState'
    BY <1>1, <1>2 DEF CurState
  <1> QED
    BY <1>3, <1>4, <1>5, <1>6

LEMMA ExclTrap == ASSUME Disciplined, ExclInv, NEW c \in CPUs, trap(c) PROVE CurState' /\ ShareInv'
  <1> USE DEF Dispatch, Syscall
  <1>0. ASSUME mode[c] = "kernel"
        PROVE  /\ cur[c] \in Slots /\ env_status[cur[c]] \in {"RUNNING", "DYING"} /\ gen[cur[c]] # 0
               /\ mode[c] \in InKernel
    BY <1>0 DEF ExclInv, CurDefined, CurState, CpuTypeOK, InKernel, GenUsed
  <1>1. ASSUME collect_zombie(c) PROVE CurState' /\ ShareInv'
    <2> DEFINE e == cur[c]
    <2>1. /\ e \in Slots /\ env_status[e] = "DYING" /\ env_free(c, e)
          /\ cur' = [cur EXCEPT ![c] = NULL] /\ mode' = [mode EXCEPT ![c] = "sched"]
          /\ UNCHANGED <<gen, env_runs, env_ipc_recving>>
      BY <1>1, <1>0 DEF collect_zombie, Goto
    <2>2. \A d \in CPUs : d # c => cur[d] # e
      BY <2>1 DEF ExclInv, ShareInv, CurrentExclusive, Slots
    <2>3. ShareInv'
      BY <2>1, <2>2, ExclFree
    <2>4. env_status' = [env_status EXCEPT ![e] = "FREE"]
      BY <2>1 DEF env_free
    <2> HIDE DEF e
    <2>5. CurState'
      BY <2>1, <2>2, <2>4 DEF ExclInv, CurState, CpuTypeOK, EnvTypeOK
    <2> QED
      BY <2>3, <2>5
  <1>2. ASSUME dispatch_timer(c) \/ sys_yield(c) \/ sys_other(c) PROVE CurState' /\ ShareInv'
    BY <1>2, <1>0, ExclMove DEF dispatch_timer, sys_yield, sys_other, sys_page_map_panics, panic
  <1>3. ASSUME page_fault_handler(c) PROVE CurState' /\ ShareInv'
    <2>1. mode[c] = "kernel" /\ env_status[cur[c]] = "RUNNING" /\ cur[c] \in Slots
      BY <1>3, <1>0 DEF page_fault_handler
    <2>2. CASE env_run(c, cur[c])
      BY <2>1, <2>2, <1>0, ExclRun
    <2>3. CASE env_destroy(c, cur[c], "tail")
      BY <2>1, <2>3, ExclDestroy
    <2> QED
      BY <1>3, <2>2, <2>3 DEF page_fault_handler
  <1>4. ASSUME trap_return(c) PROVE CurState' /\ ShareInv'
    <2>1. mode[c] = "tail" /\ (cur[c] # NULL => cur[c] \in Slots /\ env_status[cur[c]] # "DYING")
      BY <1>4 DEF trap_return, ExclInv, CurState, CpuTypeOK
    <2>2. CASE cur[c] # NULL /\ env_status[cur[c]] = "RUNNING"
      BY <1>4, <2>1, <2>2, ExclRun DEF trap_return, InKernel
    <2>3. CASE ~(cur[c] # NULL /\ env_status[cur[c]] = "RUNNING")
      BY <1>4, <2>1, <2>3, ExclMove DEF trap_return
    <2> QED
      BY <2>2, <2>3
  <1>5. ASSUME sys_exofork(c) PROVE CurState' /\ ShareInv'
    <2>1. PICK s \in Slots : env_alloc(s, cur[c], "NOT_RUNNABLE")
      BY <1>5 DEF sys_exofork
    <2>2. /\ mode[c] = "kernel" /\ mode' = [mode EXCEPT ![c] = "tail"] /\ UNCHANGED <<cur, cr3>>
          /\ cur[c] \in Slots /\ gen[cur[c]] # 0 /\ env_status[cur[c]] = "RUNNING"
      BY <1>5, <1>0 DEF sys_exofork, Goto
    <2>3. ShareInv' /\ \A d \in CPUs : cur[d] # NULL => cur[d] # s
      BY <2>1, <2>2, ExclAlloc
    <2>4. env_status' = [env_status EXCEPT ![s] = "NOT_RUNNABLE"]
      BY <2>1 DEF env_alloc
    <2>5. CurState'
      BY <2>2, <2>3, <2>4 DEF CurState, ExclInv, CpuTypeOK, EnvTypeOK
    <2> QED
      BY <2>3, <2>5
  <1>6. ASSUME sys_env_destroy(c) \/ sys_env_set_trapframe(c) PROVE CurState' /\ ShareInv'
    <2>1. PICK e \in Slots : MayManipulate(c, e) /\ env_status[e] # "DYING" /\ env_destroy(c, e, "tail")
      BY <1>6 DEF sys_env_destroy, sys_env_set_trapframe, Disciplined
    <2>2. mode[c] = "kernel" /\ env_status[cur[c]] = "RUNNING"
      BY <1>6, <1>0 DEF sys_env_destroy, sys_env_set_trapframe
    <2>3. env_status[e] # "FREE"
      BY <2>1, <2>2 DEF MayManipulate
    <2> QED
      BY <2>1, <2>2, <2>3, ExclDestroy
  <1>7. ASSUME sys_env_set_status(c) PROVE CurState' /\ ShareInv'
    <2>1. PICK e \in Slots : /\ env_status[e] = "NOT_RUNNABLE" /\ ~env_runs[e]
                             /\ env_status' = [env_status EXCEPT ![e] = "RUNNABLE"]
      BY <1>7 DEF sys_env_set_status, Disciplined
    <2>2. /\ mode[c] = "kernel" /\ env_status[cur[c]] = "RUNNING" /\ Goto(c, "tail")
          /\ UNCHANGED <<cur, cr3, gen, env_pgdir, env_free_list, env_runs, env_ipc_recving>>
      BY <1>7, <1>0 DEF sys_env_set_status
    <2>3. RecvingBlocked' /\ RanInv'
      BY <2>1, <2>2 DEF RecvingBlocked, RanInv, ExclInv, ShareInv, EnvTypeOK
    <2> QED
      BY <2>1, <2>2, <2>3, ExclStatus
  <1>8. ASSUME sys_ipc_recv(c) PROVE CurState' /\ ShareInv'
    <2>1. /\ mode[c] = "kernel" /\ cur[c] \in Slots /\ env_status[cur[c]] = "RUNNING" /\ Goto(c, "tail")
          /\ UNCHANGED <<cur, cr3, gen, env_pgdir, env_free_list, env_runs>>
          /\ env_status' = [env_status EXCEPT ![cur[c]] = "NOT_RUNNABLE"]
          /\ env_ipc_recving' = [env_ipc_recving EXCEPT ![cur[c]] = TRUE]
      BY <1>8, <1>0 DEF sys_ipc_recv
    <2>2. RecvingBlocked'
      BY <2>1 DEF RecvingBlocked, ExclInv, ShareInv, EnvTypeOK
    <2>3. env_runs[cur[c]]
      BY <2>1 DEF RanInv, ExclInv, ShareInv
    <2>4. RanInv'
      BY <2>1, <2>3 DEF RanInv, ExclInv, ShareInv, EnvTypeOK
    <2> QED
      BY <2>1, <2>2, <2>4, ExclStatus
  <1>9. ASSUME sys_ipc_try_send(c) PROVE CurState' /\ ShareInv'
    <2>1. PICK e \in Slots : /\ env_status[e] # "FREE" /\ env_ipc_recving[e]
                             /\ env_status' = [env_status EXCEPT ![e] = "RUNNABLE"]
                             /\ env_ipc_recving' = [env_ipc_recving EXCEPT ![e] = FALSE]
      BY <1>9 DEF sys_ipc_try_send
    <2>2. /\ mode[c] = "kernel" /\ env_status[cur[c]] = "RUNNING" /\ Goto(c, "tail")
          /\ UNCHANGED <<cur, cr3, gen, env_pgdir, env_free_list, env_runs>>
      BY <1>9, <1>0 DEF sys_ipc_try_send
    <2>3. env_status[e] = "NOT_RUNNABLE" /\ RecvingBlocked' /\ RanInv'
      BY <2>1, <2>2 DEF RecvingBlocked, RanInv, ExclInv, ShareInv, EnvTypeOK
    <2> QED
      BY <2>1, <2>2, <2>3, ExclStatus
  <1> QED
    BY <1>1, <1>2, <1>3, <1>4, <1>5, <1>6, <1>7, <1>8, <1>9 DEF trap, syscall

LEMMA ExclSched == ASSUME ExclInv, NEW c \in CPUs, sched_yield(c) PROVE CurState' /\ ShareInv'
  <1>1. mode[c] = "sched" /\ mode[c] \in InKernel
        /\ (cur[c] # NULL => cur[c] \in Slots /\ env_status[cur[c]] \in {"RUNNING", "NOT_RUNNABLE"})
    BY DEF sched_yield, ExclInv, CurState, InKernel, CpuTypeOK
  <1>2. CASE \E e \in Slots : FirstRunnable(c, e) /\ env_run(c, e)
    BY <1>1, <1>2, ExclRun DEF FirstRunnable
  <1>3. CASE MayContinue(c) /\ env_run(c, cur[c])
    BY <1>1, <1>3, ExclRun DEF MayContinue
  <1>4. CASE ~MayContinue(c) /\ sched_halt(c) /\ UNCHANGED envVars
    <2> USE DEF ExclInv, ShareInv, CpuTypeOK, envVars
    <2>1. cur[c] # NULL => env_status[cur[c]] = "NOT_RUNNABLE"
      BY <1>1, <1>4 DEF MayContinue
    <2>2. FreeListExact' /\ RecvingBlocked' /\ RanInv'
      BY <1>4 DEF FreeListExact, RecvingBlocked, RanInv
    <2>3. CASE UNCHANGED <<cur, cr3>>
      <3>1. CurrentExclusive' /\ RunningIsCurrent' /\ Cr3Exact'
        BY <1>4, <2>3 DEF CurrentExclusive, RunningIsCurrent, Cr3Exact, IdOf
      <3>2. CurState'
        BY <1>1, <1>4, <2>1, <2>3 DEF CurState, sched_halt, Goto, Slots
      <3> QED
        BY <2>2, <3>1, <3>2
    <2>4. CASE /\ cur' = [cur EXCEPT ![c] = NULL] /\ cr3' = [cr3 EXCEPT ![c] = NULL]
               /\ mode' = [mode EXCEPT ![c] = "halted"]
      <3>1. CurrentExclusive' /\ Cr3Exact'
        BY <1>4, <2>4 DEF CurrentExclusive, Cr3Exact, IdOf
      <3>2. RunningIsCurrent'
        BY <1>4, <2>1, <2>4 DEF RunningIsCurrent, Slots
      <3>3. CurState'
        BY <1>4, <2>4 DEF CurState
      <3> QED
        BY <2>2, <3>1, <3>2, <3>3
    <2> QED
      BY <1>4, <2>3, <2>4 DEF sched_halt, Goto
  <1> QED
    BY <1>2, <1>3, <1>4 DEF sched_yield

LEMMA ExclEntry ==
  ASSUME ExclInv, NEW c \in CPUs,
         timer(c) \/ program(c) \/ lock_kernel(c) \/ env_pop_tf(c) \/ monitor(c)
  PROVE  CurState' /\ ShareInv'
  <1>1. UNCHANGED <<cur, cr3, envVars>>
    BY DEF timer, program, trap_user, trap_halted, lock_kernel, env_pop_tf, monitor, vars, cpuVars
  <1>2. ShareInv'
    BY <1>1 DEF ExclInv, ShareInv, envVars, FreeListExact, CurrentExclusive, RunningIsCurrent,
                Cr3Exact, IdOf, RecvingBlocked, RanInv
  <1>3. CurState'
    <2>1. \E m \in Modes : mode' = [mode EXCEPT ![c] = m] /\
            \/ mode[c] = "user" /\ m = "spin"
            \/ mode[c] = "halted" /\ m \in {"spin", "sched"}
            \/ mode[c] = "spin" /\ m \in {"sched", "kernel"} /\ (m = "sched" => cur[c] = NULL)
            \/ mode[c] = "pop" /\ m = "user"
            \/ mode[c] = "monitor" /\ m = "monitor"
      BY DEF timer, program, trap_user, trap_halted, lock_kernel, env_pop_tf, monitor, vars, cpuVars,
             Goto, ExclInv, CpuTypeOK, Modes, InKernel
    <2> QED
      BY <1>1, <2>1 DEF ExclInv, CurState, CpuTypeOK, envVars
  <1> QED
    BY <1>2, <1>3

LEMMA ExclStep == ASSUME Disciplined PROVE ExclInv /\ [Next]_vars => ExclInv'
  <1> SUFFICES ASSUME ExclInv, [Next]_vars PROVE ExclInv'
    OBVIOUS
  <1>1. BaseInv'
    BY BaseStep DEF ExclInv
  <1>2. CASE UNCHANGED vars
    BY <1>1, <1>2 DEF vars, cpuVars, envVars, ExclInv, CurState, ShareInv, FreeListExact,
                      CurrentExclusive, RunningIsCurrent, Cr3Exact, IdOf, RecvingBlocked, RanInv
  <1>3. CASE Next
    <2>1. CurState' /\ ShareInv'
      BY <1>3, ExclBoot, ExclTrap, ExclSched, ExclEntry DEF Next
    <2> QED
      BY <1>1, <2>1 DEF ExclInv
  <1> QED
    BY <1>2, <1>3

LEMMA Exclusive == ASSUME Disciplined PROVE Spec => []ExclInv
  <1>1. Init => ExclInv
    BY BaseInit, ExclInit DEF ExclInv
  <1> QED
    BY <1>1, ExclStep, PTL DEF Spec

\* One environment is never current on two CPUs, and one that is marked RUNNING
\* or DYING is current on one: trap() will preempt it or collect it.
THEOREM OneCpuPerEnv == ASSUME Disciplined PROVE Spec => [](CurrentExclusive /\ RunningIsCurrent)
  <1>1. ExclInv => CurrentExclusive /\ RunningIsCurrent
    BY DEF ExclInv, ShareInv
  <1> QED
    BY <1>1, Exclusive, PTL

\* The second half by itself: no RUNNING or DYING environment is forgotten by
\* the CPU that would preempt it or collect it (trap.c, env_destroy).
THEOREM NoRunnerForgotten == ASSUME Disciplined PROVE Spec => []RunningIsCurrent
  <1>1. CurrentExclusive /\ RunningIsCurrent => RunningIsCurrent
    OBVIOUS
  <1> QED
    BY <1>1, OneCpuPerEnv, PTL

\* No CPU uses the page directory of an environment that env_free released.
THEOREM LiveAddressSpaces == ASSUME Disciplined PROVE Spec => []Cr3Live
  <1>1. ExclInv => Cr3Live
    <2> SUFFICES ASSUME ExclInv, NEW c \in CPUs
                 PROVE  /\ cr3[c] # NULL => \E s \in Slots : env_status[s] # "FREE" /\ cr3[c] = IdOf(s)
                        /\ cur[c] # NULL => cr3[c] = IdOf(cur[c])
      BY DEF Cr3Live
    <2>1. CASE cur[c] = NULL
      BY <2>1 DEF ExclInv, ShareInv, Cr3Exact
    <2>2. CASE cur[c] # NULL
      BY <2>2 DEF ExclInv, ShareInv, Cr3Exact, CurState, CpuTypeOK
    <2> QED
      BY <2>1, <2>2
  <1> QED
    BY <1>1, Exclusive, PTL

\* The free list holds the free slots, once each: no slot is lost or handed out twice.
THEOREM FreeListCorrect == ASSUME Disciplined PROVE Spec => []FreeListExact
  <1>1. ExclInv => FreeListExact
    BY DEF ExclInv, ShareInv
  <1> QED
    BY <1>1, Exclusive, PTL

\* sys_ipc_recv returns with a message or not at all.
THEOREM RecvWaitsForMessage == ASSUME Disciplined PROVE Spec => []RecvingBlocked
  <1>1. ExclInv => RecvingBlocked
    BY DEF ExclInv, ShareInv
  <1> QED
    BY <1>1, Exclusive, PTL

-----------------------------------------------------------------------------
\* No step but collect_zombie changes the status of a zombie.
DyingKept == \A s \in Slots : env_status[s] = "DYING" => env_status'[s] = "DYING"

LEMMA RunKeepsDying ==
  ASSUME ExclInv, NEW c \in CPUs, NEW e \in Slots, env_run(c, e), env_status[e] # "DYING"
  PROVE  DyingKept
  BY DEF env_run, DyingKept

LEMMA DestroyKeepsDying ==
  ASSUME ExclInv, NEW c \in CPUs, NEW e \in Slots, env_destroy(c, e, "tail"), env_status[e] # "DYING"
  PROVE  DyingKept
  BY DEF env_destroy, env_free, DyingKept, ExclInv, EnvTypeOK

LEMMA AllocKeepsDying ==
  ASSUME ExclInv, NEW s \in Slots, NEW p, NEW st \in {"RUNNABLE", "NOT_RUNNABLE"}, env_alloc(s, p, st)
  PROVE  DyingKept
  <1>1. env_status[s] = "FREE"
    BY ListAlloc DEF ExclInv, ShareInv, Statuses
  <1> QED
    BY <1>1 DEF env_alloc, DyingKept, ExclInv, EnvTypeOK

LEMMA SyscallKeepsDying ==
  ASSUME Disciplined, ExclInv, NEW c \in CPUs, syscall(c) PROVE DyingKept
  <1> USE DEF Syscall, Dispatch, DyingKept, ExclInv, EnvTypeOK
  <1>0. cur[c] \in Slots /\ env_status[cur[c]] # "DYING"
    BY DEF syscall, sys_yield, sys_exofork, sys_env_destroy, sys_env_set_status,
           sys_env_set_trapframe, sys_ipc_recv, sys_ipc_try_send, sys_other, sys_page_map_panics, CurDefined, CpuTypeOK
  <1>1. ASSUME sys_yield(c) \/ sys_other(c) PROVE DyingKept
    BY <1>1 DEF sys_yield, sys_other, sys_page_map_panics, panic, envVars
  <1>2. ASSUME sys_exofork(c) PROVE DyingKept
    BY <1>2, AllocKeepsDying DEF sys_exofork
  <1>3. ASSUME sys_env_destroy(c) \/ sys_env_set_trapframe(c) PROVE DyingKept
    <2>1. PICK e \in Slots : env_status[e] # "DYING" /\ env_destroy(c, e, "tail")
      BY <1>3 DEF sys_env_destroy, sys_env_set_trapframe, Disciplined
    <2> QED
      BY <2>1, DestroyKeepsDying
  <1>4. ASSUME sys_env_set_status(c) PROVE DyingKept
    BY <1>4 DEF sys_env_set_status, Disciplined
  <1>5. ASSUME sys_ipc_recv(c) PROVE DyingKept
    BY <1>5, <1>0 DEF sys_ipc_recv
  <1>6. ASSUME sys_ipc_try_send(c) PROVE DyingKept
    BY <1>6 DEF sys_ipc_try_send, ShareInv, RecvingBlocked
  <1> QED
    BY <1>1, <1>2, <1>3, <1>4, <1>5, <1>6 DEF syscall

LEMMA ZombieLemma == ASSUME Disciplined PROVE ExclInv /\ [Next]_vars => ZombieStep
  <1> SUFFICES ASSUME ExclInv, [Next]_vars PROVE ZombieStep
    OBVIOUS
  <1>1. CASE DyingKept
    BY <1>1 DEF DyingKept, ZombieStep
  <1>2. ASSUME NEW c \in CPUs, collect_zombie(c) PROVE ZombieStep
    <2>1. cur[c] \in Slots /\ lock = c
      BY <1>2 DEF collect_zombie, ExclInv, CurDefined, CpuTypeOK, LockHolder, InKernel
    <2>2. /\ env_status' = [env_status EXCEPT ![cur[c]] = "FREE"]
          /\ cur' = [cur EXCEPT ![c] = NULL] /\ cr3' = [cr3 EXCEPT ![c] = NULL]
      BY <1>2 DEF collect_zombie, env_free
    <2> QED
      BY <2>1, <2>2 DEF ZombieStep, ExclInv, CpuTypeOK, EnvTypeOK
  <1>3. ASSUME NEW c \in CPUs, trap(c), ~collect_zombie(c) PROVE DyingKept
    <2>1. CASE dispatch_timer(c)
      BY <2>1 DEF dispatch_timer, envVars, DyingKept
    <2>2. CASE page_fault_handler(c)
      <3>1. cur[c] \in Slots /\ env_status[cur[c]] # "DYING"
        BY <2>2 DEF page_fault_handler, Dispatch, ExclInv, CurDefined, CpuTypeOK
      <3> QED
        BY <2>2, <3>1, RunKeepsDying, DestroyKeepsDying DEF page_fault_handler
    <2>3. CASE trap_return(c)
      <3>1. CASE cur[c] # NULL /\ env_status[cur[c]] = "RUNNING"
        BY <2>3, <3>1, RunKeepsDying DEF trap_return, ExclInv, CpuTypeOK
      <3>2. CASE ~(cur[c] # NULL /\ env_status[cur[c]] = "RUNNING")
        BY <2>3, <3>2 DEF trap_return, envVars, DyingKept
      <3> QED
        BY <3>1, <3>2
    <2> QED
      BY <1>3, <2>1, <2>2, <2>3, SyscallKeepsDying DEF trap
  <1>4. ASSUME NEW c \in CPUs, sched_yield(c) PROVE DyingKept
    <2>1. CASE \E e \in Slots : FirstRunnable(c, e) /\ env_run(c, e)
      BY <2>1, RunKeepsDying DEF FirstRunnable
    <2>2. CASE MayContinue(c) /\ env_run(c, cur[c])
      BY <2>2, RunKeepsDying DEF MayContinue, ExclInv, CpuTypeOK
    <2>3. CASE UNCHANGED envVars
      BY <2>3 DEF envVars, DyingKept
    <2> QED
      BY <1>4, <2>1, <2>2, <2>3 DEF sched_yield
  <1>5. ASSUME NEW c \in CPUs, timer(c) \/ program(c) \/ lock_kernel(c) \/ env_pop_tf(c) \/ monitor(c)
        PROVE  DyingKept
    BY <1>5 DEF timer, program, trap_user, trap_halted, lock_kernel, env_pop_tf, monitor, vars, envVars,
                DyingKept
  <1>6. CASE Boot
    <2>1. CASE env_create
      <3>1. PICK s \in Slots : env_alloc(s, NULL, "RUNNABLE")
        BY <2>1 DEF env_create
      <3>2. DyingKept
        BY <3>1, AllocKeepsDying
      <3> QED
        BY <3>2, <1>1
    <2>2. CASE ~env_create
      <3>1. UNCHANGED envVars
        BY <1>6, <2>2 DEF Boot, boot_aps, mp_main, boot_wait, boot_done
      <3>2. DyingKept
        BY <3>1 DEF envVars, DyingKept
      <3> QED
        BY <3>2, <1>1
    <2> QED
      BY <2>1, <2>2
  <1>7. CASE UNCHANGED vars
    BY <1>7 DEF vars, envVars, ZombieStep
  <1>8. ASSUME NEW c \in CPUs, timer(c) \/ program(c) \/ lock_kernel(c) \/ trap(c) \/ sched_yield(c)
                                \/ env_pop_tf(c) \/ monitor(c)
        PROVE  ZombieStep
    BY <1>8, <1>1, <1>2, <1>3, <1>4, <1>5
  <1> QED
    BY <1>6, <1>7, <1>8 DEF Next

\* A zombie ends only on its own CPU, which frees it and stops using it.
THEOREM ZombieFreed == ASSUME Disciplined PROVE Spec => ZombieFreedByItsCpu
  BY Exclusive, ZombieLemma, PTL DEF Spec, ZombieFreedByItsCpu

-----------------------------------------------------------------------------
(***************************************************************************)
(* Parents are recognised by identifier.  An identifier is never given out *)
(* twice before the generations of a slot wrap, which takes GenMax         *)
(* allocations of the slot: GenBound < GenMax says that they do not.       *)
(***************************************************************************)

\* A parent's identifier in a child is one of the past of its slot; while that
\* environment lives, the child is really its own.
ParentInv ==
    /\ \A s \in Slots : gen[s] <= GenBound
    /\ \A s, p \in Slots, g \in 1..GenMax :
          env_parent_id[s] = <<p, g>> =>
              /\ g <= gen[p]
              /\ env_status[s] # "FREE" /\ env_status[p] # "FREE" /\ g = gen[p] => kin[s] = p

\* Every step but an allocation: a slot that is free stays free, and only an
\* environment that ends is forgotten as a creator.
ParentKept ==
    /\ UNCHANGED <<gen, env_parent_id>>
    /\ \A s \in Slots : env_status[s] = "FREE" => env_status'[s] = "FREE"
    /\ \A s \in Slots : kin'[s] = kin[s] \/ (kin[s] \in Slots /\ env_status'[kin[s]] = "FREE")

LEMMA KeptParents == ASSUME ParentInv, ParentKept PROVE ParentInv'
  BY DEF ParentInv, ParentKept

LEMMA AllocParents ==
  ASSUME ExclInv, ParentInv, GenBound < GenMax, NEW s \in Slots, NEW p \in Slots \cup {NULL},
         NEW st \in {"RUNNABLE", "NOT_RUNNABLE"}, env_alloc(s, p, st)
  PROVE  ParentInv'
  <1> USE DEF ExclInv, EnvTypeOK
  <1>1. env_status[s] = "FREE"
    BY ListAlloc DEF ShareInv, Statuses
  <1>2. NextGen(s) = gen[s] + 1 /\ gen[s] + 1 <= GenBound
    BY DEF NextGen, env_alloc, ParentInv
  <1>3. gen' = [gen EXCEPT ![s] = gen[s] + 1] /\ kin' = [kin EXCEPT ![s] = p]
        /\ env_status' = [env_status EXCEPT ![s] = st]
    BY <1>2 DEF env_alloc
  <1>4. \A x \in Slots : gen'[x] <= GenBound
    BY <1>2, <1>3 DEF ParentInv
  <1>5. ASSUME NEW x \in Slots, NEW q \in Slots, NEW g \in 1..GenMax, env_parent_id'[x] = <<q, g>>
        PROVE  /\ g <= gen'[q]
               /\ env_status'[x] # "FREE" /\ env_status'[q] # "FREE" /\ g = gen'[q] => kin'[x] = q
    <2>1. CASE x = s
      <3>1. p # NULL /\ env_parent_id'[x] = IdOf(p)
        <4>1. env_parent_id'[x] = IF p = NULL THEN NULL ELSE IdOf(p)
          BY <2>1 DEF env_alloc
        <4>2. <<q, g>> \in Nat \X Nat
          BY DEF Slots
        <4> QED
          BY <1>5, <4>1, <4>2, IdAssumption
      <3>2. q = p /\ g = gen[p]
        BY <1>5, <3>1 DEF IdOf
      <3> QED
        BY <1>3, <2>1, <3>1, <3>2
    <2>2. CASE x # s
      <3>1. env_parent_id[x] = <<q, g>>
        BY <1>5, <2>2 DEF env_alloc
      <3>2. g <= gen[q] /\ (env_status[x] # "FREE" /\ env_status[q] # "FREE" /\ g = gen[q] => kin[x] = q)
        BY <3>1 DEF ParentInv
      <3> QED
        BY <1>3, <2>2, <3>2
    <2> QED
      BY <2>1, <2>2
  <1> QED
    BY <1>4, <1>5 DEF ParentInv

LEMMA RunParents ==
  ASSUME ExclInv, NEW c \in CPUs, NEW e \in Slots, env_run(c, e), env_status[e] # "FREE"
  PROVE  ParentKept
  BY DEF env_run, ParentKept, ExclInv, EnvTypeOK

LEMMA DestroyParents ==
  ASSUME ExclInv, NEW c \in CPUs, NEW e \in Slots, NEW rest, env_destroy(c, e, rest)
  PROVE  ParentKept
  <1> USE DEF ExclInv, EnvTypeOK, ParentKept
  <1>1. UNCHANGED <<gen, env_parent_id>>
    BY DEF env_destroy
  <1>2. CASE env_free(c, e)
    BY <1>1, <1>2 DEF env_free
  <1>3. CASE env_status[e] = "RUNNING" /\ env_status' = [env_status EXCEPT ![e] = "DYING"] /\ UNCHANGED kin
    BY <1>1, <1>3
  <1>4. CASE UNCHANGED <<env_status, kin>>
    BY <1>1, <1>4
  <1> QED
    BY <1>2, <1>3, <1>4 DEF env_destroy

\* The steps of trap(), sys_exofork apart.
LEMMA TrapParents ==
  ASSUME Disciplined, ExclInv, NEW c \in CPUs, trap(c), ~sys_exofork(c) PROVE ParentKept
  <1> USE DEF ExclInv, EnvTypeOK
  <1>0. mode[c] = "kernel" => cur[c] \in Slots /\ env_status[cur[c]] # "FREE"
    BY DEF CurDefined, CpuTypeOK, CurState
  <1>1. CASE collect_zombie(c)
    BY <1>0, <1>1 DEF collect_zombie, env_free, ParentKept
  <1>2. CASE dispatch_timer(c) \/ sys_yield(c) \/ sys_other(c)
    BY <1>2 DEF dispatch_timer, sys_yield, sys_other, sys_page_map_panics, panic, envVars, ParentKept
  <1>3. CASE page_fault_handler(c)
    BY <1>0, <1>3, RunParents, DestroyParents DEF page_fault_handler, Dispatch
  <1>4. CASE trap_return(c)
    <2>1. CASE cur[c] # NULL /\ env_status[cur[c]] = "RUNNING"
      BY <1>4, <2>1, RunParents DEF trap_return, CpuTypeOK
    <2>2. CASE ~(cur[c] # NULL /\ env_status[cur[c]] = "RUNNING")
      BY <1>4, <2>2 DEF trap_return, envVars, ParentKept
    <2> QED
      BY <2>1, <2>2
  <1>5. CASE sys_env_destroy(c) \/ sys_env_set_trapframe(c)
    <2>1. PICK e \in Slots, rest \in {"tail", "monitor"} : env_destroy(c, e, rest)
      BY <1>5 DEF sys_env_destroy, sys_env_set_trapframe, Disciplined
    <2> QED
      BY <2>1, DestroyParents
  <1>6. CASE sys_env_set_status(c)
    BY <1>6 DEF sys_env_set_status, Disciplined, ParentKept
  <1>7. CASE sys_ipc_recv(c)
    BY <1>0, <1>7 DEF sys_ipc_recv, Syscall, Dispatch, ParentKept
  <1>8. CASE sys_ipc_try_send(c)
    BY <1>8 DEF sys_ipc_try_send, ParentKept
  <1> QED
    BY <1>1, <1>2, <1>3, <1>4, <1>5, <1>6, <1>7, <1>8 DEF trap, syscall

LEMMA ParentStep ==
  ASSUME Disciplined, GenBound < GenMax PROVE ExclInv /\ ParentInv /\ [Next]_vars => ParentInv'
  <1> SUFFICES ASSUME ExclInv, ParentInv, [Next]_vars PROVE ParentInv'
    OBVIOUS
  <1>1. CASE UNCHANGED envVars
    BY <1>1 DEF envVars, ParentInv
  <1>2. ASSUME NEW c \in CPUs, trap(c) PROVE ParentInv'
    <2>1. CASE sys_exofork(c)
      <3>1. PICK s \in Slots : env_alloc(s, cur[c], "NOT_RUNNABLE")
        BY <2>1 DEF sys_exofork
      <3>2. cur[c] \in Slots
        BY <2>1 DEF sys_exofork, Syscall, Dispatch, ExclInv, CurDefined, CpuTypeOK
      <3> QED
        BY <3>1, <3>2, AllocParents
    <2>2. CASE ~sys_exofork(c)
      BY <1>2, <2>2, TrapParents, KeptParents
    <2> QED
      BY <2>1, <2>2
  <1>3. ASSUME NEW c \in CPUs, sched_yield(c) PROVE ParentInv'
    <2>1. CASE \E e \in Slots : FirstRunnable(c, e) /\ env_run(c, e)
      BY <2>1, RunParents, KeptParents DEF FirstRunnable
    <2>2. CASE MayContinue(c) /\ env_run(c, cur[c])
      BY <2>2, RunParents, KeptParents DEF MayContinue, ExclInv, CpuTypeOK
    <2> QED
      BY <1>1, <1>3, <2>1, <2>2 DEF sched_yield
  <1>4. ASSUME NEW c \in CPUs, timer(c) \/ program(c) \/ lock_kernel(c) \/ env_pop_tf(c) \/ monitor(c)
        PROVE  ParentInv'
    <2>1. UNCHANGED envVars
      BY <1>4 DEF timer, program, trap_user, trap_halted, lock_kernel, env_pop_tf, monitor, vars
    <2> QED
      BY <1>1, <2>1
  <1>5. CASE Boot
    <2>1. CASE env_create
      BY <2>1, AllocParents DEF env_create
    <2>2. CASE ~env_create
      <3>1. UNCHANGED envVars
        BY <1>5, <2>2 DEF Boot, boot_aps, mp_main, boot_wait, boot_done
      <3> QED
        BY <1>1, <3>1
    <2> QED
      BY <2>1, <2>2
  <1>6. UNCHANGED vars => UNCHANGED envVars
    BY DEF vars
  <1> QED
    BY <1>1, <1>2, <1>3, <1>4, <1>5, <1>6 DEF Next

\* envid2env lets real parents act on a child and nobody else, although slots
\* are reused, as long as no slot was allocated so often that its generation
\* wrapped (env.c:221-224).
THEOREM ParentsRecognised ==
  ASSUME Disciplined, GenBound < GenMax PROVE Spec => []ParentIdSound
  <1>1. Init => ParentInv
    BY IdAssumption DEF Init, ParentInv, Slots
  <1>2. ExclInv /\ ParentInv => ParentIdSound
    BY DEF ExclInv, EnvTypeOK, ParentInv, ParentIdSound, IdOf, GenUsed
  <1> QED
    BY <1>1, <1>2, Exclusive, ParentStep, PTL DEF Spec
=============================================================================
