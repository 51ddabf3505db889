------------------------------- MODULE Pmap --------------------------------
(***************************************************************************)
(* Physical pages and address spaces of the JOS kernel: the page allocator *)
(* and the page tables of tp-parte4/kern/pmap.c, their users in env.c      *)
(* (env_setup_vm, load_icode, env_free) and the system calls of syscall.c  *)
(* that map memory, the page transfer of IPC among them.                   *)
(*                                                                         *)
(* The kernel lock makes a trap one step (module KernEnv shows that it     *)
(* does); between traps the environments that are on a CPU fill its TLB.   *)
(* A page table entry is a physical page with permission bits, and the     *)
(* empty entry is the number 0: physical page 0 with no bits.              *)
(* Addresses from UTOP up are the kernel's, but sys_ipc_recv takes each of *)
(* them: the page at UTOP itself, which all environments share; the window *)
(* at UVPT, where the page tables of the environment appear as pages; and  *)
(* KMEM, which stands for every other one of them.                         *)
(* Contents of user pages are left out; those of page tables are entries.  *)
(***************************************************************************)
EXTENDS Naturals, FiniteSets

CONSTANTS
    Envs,        \* slots of envs[]
    Pages,       \* the pages that page_init links in page_free_list
    ZeroPage,    \* physical page 0, kept out of the list
    EnvsPage,    \* the boot page that the kernel maps at UTOP (part of envs[])
    PDs,         \* indexes of the page directory below UTOP
    VAs,         \* page addresses below UTOP: pairs <<PDX, PTX>>
    UTOP,        \* the first address above user memory
    KMEM,        \* any other address of the kernel's own memory
    RefMod,      \* pp_ref counts modulo RefMod (2^16 in the code)
    NCPU,        \* the number of processors
    Perms,       \* the perm arguments programs pass
    Touched,     \* the addresses programs use between calls (a bound for TLC)
    RemoteCalls, \* TRUE: parents also remap children that are on a CPU
    NULL

AllPages == Pages \cup {ZeroPage, EnvsPage}
Bits == {"P", "U", "W"} \* PTE_P, PTE_U, PTE_W

\* The places that hold a counted pointer to a page: a page directory, a page
\* table, an entry of a page table, and the shared entry for UTOP.
Dir(e)      == <<"dir", e>>
Table(e, d) == <<"table", e, d>>
PDX(va)     == va[1]

\* UVPT + d*PGSIZE: the page directory is its own page table there, so that
\* the entry of this address is entry d of the page directory.
Uvpt(d) == <<"uvpt", d, 0>>
Windows == {Uvpt(d) : d \in PDs}
Beyond  == Windows \cup {KMEM}

\* The place of the entry that maps va for e.
Pte(e, va) == IF va = UTOP THEN <<"utop">>
              ELSE IF va \in Windows THEN Table(e, va[2]) ELSE <<"pte", e, va>>
Sites == {Dir(e) : e \in Envs} \cup {Table(e, d) : e \in Envs, d \in PDs}
         \cup {Pte(e, va) : e \in Envs, va \in VAs \cup {UTOP}}
SitesOf(e) == {Dir(e)} \cup {Table(e, d) : d \in PDs} \cup {Pte(e, va) : va \in VAs}

ASSUME SetAssumption  == /\ IsFiniteSet(Envs) /\ Envs # {} /\ IsFiniteSet(PDs) /\ IsFiniteSet(VAs)
                         /\ VAs \subseteq PDs \X Nat /\ UTOP \notin VAs
                         /\ (VAs \cup {UTOP}) \cap Beyond = {} /\ KMEM \notin Windows
ASSUME PageAssumption == ZeroPage \notin Pages /\ EnvsPage \notin Pages /\ ZeroPage # EnvsPage
ASSUME NullAssumption == NULL \notin AllPages \cup Envs \cup VAs \cup {UTOP} \cup Beyond
ASSUME NumAssumption  == RefMod \in Nat \ {0, 1} /\ NCPU \in Nat /\ RemoteCalls \in BOOLEAN
ASSUME PermAssumption == Touched \subseteq VAs /\ Perms \subseteq SUBSET Bits

VARIABLES
    mem,       \* physical memory: see Memory
    status,    \* envs[e].env_status ("LOADING" inside env_create)
    parent,    \* the parent of e while both exist, else NULL
    recv,      \* envs[e].env_ipc_dstva while env_ipc_recving, else NULL
    tlb,       \* tlb[e][va]: what the CPU that runs e has cached for va
    lost,      \* a message has put a page over a page table or the kernel's memory
    booting    \* i386_init has not yet called sched_yield

vars == <<mem, status, parent, recv, tlb, lost, booting>>

Entry   == [pa : AllPages, perm : SUBSET Bits]
ZeroPte == [pa |-> ZeroPage, perm |-> {}]
Present(x) == "P" \in x.perm
ASSUME EntryAssumption == NULL \notin Entry
Memory == [ref   : [AllPages -> 0..(RefMod - 1)], \* pages[].pp_ref
           free  : SUBSET AllPages,               \* page_free_list
           at    : [Sites -> Entry],              \* what each place holds
           panic : BOOLEAN]                       \* the kernel has panicked

NoTlb == [va \in VAs |-> ZeroPte]
OnCpu == {"RUNNING", "DYING"}

TypeOK ==
    /\ mem \in Memory
    /\ status \in [Envs -> {"FREE", "LOADING", "DYING", "RUNNABLE", "RUNNING", "NOT_RUNNABLE"}]
    /\ parent \in [Envs -> Envs \cup {NULL}]
    /\ recv \in [Envs -> VAs \cup {UTOP, NULL} \cup Beyond]
    /\ tlb \in [Envs -> [VAs -> Entry]]
    /\ lost \in BOOLEAN /\ booting \in BOOLEAN

\* After mem_init: page_init has left pages 0 and those of the kernel out.
Init ==
    /\ mem = [ref   |-> [p \in AllPages |-> 0],
              free  |-> Pages,
              at    |-> [s \in Sites |-> IF s = <<"utop">> THEN [pa |-> EnvsPage, perm |-> {"P", "U"}]
                                                           ELSE ZeroPte],
              panic |-> FALSE]
    /\ status = [e \in Envs |-> "FREE"]
    /\ parent = [e \in Envs |-> NULL]
    /\ recv = [e \in Envs |-> NULL]
    /\ tlb = [e \in Envs |-> NoTlb]
    /\ lost = FALSE /\ booting = TRUE

-----------------------------------------------------------------------------
(***************************************************************************)
(* pmap.c, on a memory m.  page_alloc returns any free page: the caller    *)
(* picks it, NULL when there is none.                                      *)
(***************************************************************************)
Available(m) == IF m.free = {} THEN {NULL} ELSE m.free

\* Mutant: the page stays linked.
page_alloc_KeepsLink(m, p) == m
page_alloc(m, p) == [m EXCEPT !.free = @ \ {p}]

\* A page with references, or one that is linked already, panics.
page_free(m, p) ==
    IF m.ref[p] # 0 \/ p \in m.free THEN [m EXCEPT !.panic = TRUE]
                                    ELSE [m EXCEPT !.free = @ \cup {p}]

\* Mutant: the count does not wrap around.
Decremented_NoWrap(n) == n - 1
Incremented(n) == (n + 1) % RefMod
Decremented(n) == (n + RefMod - 1) % RefMod

page_decref(m, p) ==
    LET n == [m EXCEPT !.ref[p] = Decremented(@)] IN
    IF n.ref[p] = 0 THEN page_free(n, p) ELSE n

Store(m, s, x) == [m EXCEPT !.at[s] = x]

\* pgdir_walk: the page table exists, or q is the page that becomes one.
HasTable(m, e, va) == va = UTOP \/ va \in Windows \/ m.at[Table(e, PDX(va))] # ZeroPte
pgdir_walk(m, e, va, q) ==
    IF HasTable(m, e, va) THEN m
    ELSE LET n == [page_alloc(m, q) EXCEPT !.ref[q] = Incremented(@)] IN
         Store(n, Table(e, PDX(va)), [pa |-> q, perm |-> {"P", "U", "W"}])

\* page_lookup finds an entry wherever there is a page table, also an empty
\* one, which names page 0; page_remove drops the reference it finds.  Its
\* tlb_invalidate of the caller's own entry comes before the lcr3 of Reload.
page_remove(m, e, va) ==
    IF HasTable(m, e, va)
    THEN Store(page_decref(m, m.at[Pte(e, va)].pa), Pte(e, va), ZeroPte)
    ELSE m

\* Mutants: the old entry goes before the new reference; no new reference.
page_insert_RemoveFirst(m, e, p, va, perm, q) ==
    LET n == page_remove(pgdir_walk(m, e, va, q), e, va) IN
    Store([n EXCEPT !.ref[p] = Incremented(@)], Pte(e, va), [pa |-> p, perm |-> perm \cup {"P"}])
page_insert_NoRef(m, e, p, va, perm, q) ==
    Store(page_remove(pgdir_walk(m, e, va, q), e, va), Pte(e, va), [pa |-> p, perm |-> perm \cup {"P"}])

\* page_insert, when there is a page table or a page q for one.
InsertFails(m, e, va, q) == ~HasTable(m, e, va) /\ q = NULL
page_insert(m, e, p, va, perm, q) ==
    LET n == [pgdir_walk(m, e, va, q) EXCEPT !.ref[p] = Incremented(@)] IN
    Store(page_remove(n, e, va), Pte(e, va), [pa |-> p, perm |-> perm \cup {"P"}])

-----------------------------------------------------------------------------
(* env.c: making and freeing address spaces *)

env_setup_vm(m, e, p) ==
    Store([page_alloc(m, p) EXCEPT !.ref[p] = Incremented(@)], Dir(e), [pa |-> p, perm |-> {"P"}])

\* Mutant: page tables are left in place.
Freed_NoTables(m, e) == {s \in {Dir(e)} \cup {Pte(e, va) : va \in VAs} : Present(m.at[s])}

\* The references that env_free drops one after the other: those of present
\* entries, of the page tables and of the page directory.
Freed(m, e) == {s \in SitesOf(e) : Present(m.at[s])}
Drops(m, e, p) == Cardinality({s \in Freed(m, e) : m.at[s].pa = p})
env_free(m, e) ==
    LET reach == {p \in AllPages : \E k \in 1..Drops(m, e, p) : (m.ref[p] + RefMod - k) % RefMod = 0} IN
    [ref   |-> [p \in AllPages |-> (m.ref[p] + RefMod - Drops(m, e, p)) % RefMod],
     free  |-> m.free \cup reach,
     at    |-> [s \in Sites |-> IF s \in Freed(m, e) THEN ZeroPte ELSE m.at[s]],
     panic |-> m.panic]

\* A trap of c frees e: the slot becomes FREE, and c leaves through lcr3.
Release(c, e) ==
    /\ mem' = env_free(mem, e)
    /\ status' = [status EXCEPT ![e] = "FREE"]
    /\ parent' = [x \in Envs |-> IF x = e \/ parent[x] = e THEN NULL ELSE parent[x]]
    /\ recv' = [recv EXCEPT ![e] = NULL]
    /\ tlb' = [tlb EXCEPT ![c] = NoTlb, ![e] = NoTlb]

env_alloc(e, p, st) ==
    /\ status[e] = "FREE"
    /\ \E q \in mem.free : mem' = env_setup_vm(mem, e, q)
    /\ status' = [status EXCEPT ![e] = st]
    /\ parent' = [parent EXCEPT ![e] = p]
    /\ recv' = [recv EXCEPT ![e] = NULL]

\* Mutant: identifiers are not checked against the caller.
MayManipulate_Anyone(c, e) == status[e] # "FREE"
\* envid2env with checkperm.
MayManipulate(c, e) == status[e] # "FREE" /\ (e = c \/ parent[e] = c)

\* Mutant: the page directory is not loaded again.
Reload_Nothing(e) == UNCHANGED tlb
\* Every way back to user mode is env_run, whose lcr3 empties the TLB.
Reload(e) == tlb' = [tlb EXCEPT ![e] = NoTlb]

-----------------------------------------------------------------------------
(* Booting: env_create, one page of load_icode at a time.  There is memory for *)
(* the page directories at boot; for the images there may be too little.       *)

env_create(e) ==
    /\ booting /\ \A x \in Envs : status[x] # "LOADING"
    /\ env_alloc(e, NULL, "LOADING")
    /\ UNCHANGED <<tlb, lost, booting>>

\* region_alloc panics when there is no page.
region_alloc(e, va) ==
    /\ status[e] = "LOADING"
    /\ \E p \in Available(mem) :
          IF p = NULL THEN mem' = [mem EXCEPT !.panic = TRUE]
          ELSE LET m == page_alloc(mem, p) IN
               \E q \in Available(m) :
                  mem' = IF InsertFails(m, e, va, q) THEN [m EXCEPT !.panic = TRUE]
                         ELSE page_insert(m, e, p, va, {"U", "W"}, q)
    /\ UNCHANGED <<status, parent, recv, tlb, lost, booting>>

load_done(e) ==
    /\ status[e] = "LOADING"
    /\ status' = [status EXCEPT ![e] = "RUNNABLE"]
    /\ UNCHANGED <<mem, parent, recv, tlb, lost, booting>>

boot_done ==
    /\ booting /\ \A e \in Envs : status[e] # "LOADING"
    /\ \E e \in Envs : status[e] # "FREE"
    /\ booting' = FALSE
    /\ UNCHANGED <<mem, status, parent, recv, tlb, lost>>

-----------------------------------------------------------------------------
(* The processors *)

env_run(e) ==
    /\ ~booting /\ status[e] = "RUNNABLE"
    /\ Cardinality({x \in Envs : status[x] \in OnCpu}) < NCPU
    /\ status' = [status EXCEPT ![e] = "RUNNING"]
    /\ Reload(e)
    /\ UNCHANGED <<mem, parent, recv, lost, booting>>

\* A trap that ends in another environment or in sched_halt: both load cr3.
preempt(e) ==
    /\ status[e] = "RUNNING"
    /\ status' = [status EXCEPT ![e] = "RUNNABLE"]
    /\ tlb' = [tlb EXCEPT ![e] = NoTlb]
    /\ UNCHANGED <<mem, parent, recv, lost, booting>>

\* The first trap of a zombie frees it.
collect_zombie(e) == status[e] = "DYING" /\ Release(e, e) /\ UNCHANGED <<lost, booting>>

\* The hardware caches the translation of an address the program touches.
access(e, va) ==
    /\ status[e] \in OnCpu
    /\ Present(mem.at[Pte(e, va)])
    /\ tlb' = [tlb EXCEPT ![e][va] = mem.at[Pte(e, va)]]
    /\ UNCHANGED <<mem, status, parent, recv, lost, booting>>

-----------------------------------------------------------------------------
(***************************************************************************)
(* syscall.c: calls by the running environment c.  A call that fails early *)
(* changes nothing but the TLB, like a timer interrupt.                    *)
(***************************************************************************)
PermOK(perm) == {"U", "P"} \subseteq perm

\* The library remaps children only before it starts them.
Targets(c) == {e \in Envs : MayManipulate(c, e) /\ (RemoteCalls \/ e = c \/ status[e] \notin OnCpu)}

sys_exofork(c) ==
    /\ \E e \in Envs : env_alloc(e, c, "NOT_RUNNABLE")
    /\ Reload(c)

\* Only the start of a child: KernEnv has the other uses of the call.
sys_env_set_status(c) ==
    /\ \E e \in Targets(c) :
          /\ status[e] = "NOT_RUNNABLE" /\ recv[e] = NULL
          /\ status' = [status EXCEPT ![e] = "RUNNABLE"]
    /\ Reload(c)
    /\ UNCHANGED <<mem, parent, recv>>

\* A child on another CPU becomes a zombie; everything else is freed at once.
sys_env_destroy(c) ==
    \E e \in Envs :
        /\ MayManipulate(c, e)
        /\ \/ /\ status[e] = "RUNNING" /\ e # c
              /\ status' = [status EXCEPT ![e] = "DYING"]
              /\ Reload(c)
              /\ UNCHANGED <<mem, parent, recv>>
           \/ /\ status[e] \notin OnCpu \/ e = c
              /\ Release(c, e)

\* Mutant: the page is not given back when page_insert fails.
sys_page_alloc_Leaks(c) ==
    /\ \E e \in Targets(c), va \in VAs, perm \in Perms, p \in mem.free :
          LET m == page_alloc(mem, p) IN
          /\ PermOK(perm)
          /\ \E q \in Available(m) :
                mem' = IF InsertFails(m, e, va, q) THEN m
                       ELSE page_insert(m, e, p, va, perm, q)
    /\ Reload(c)
    /\ UNCHANGED <<status, parent, recv>>

sys_page_alloc(c) ==
    /\ \E e \in Targets(c), va \in VAs, perm \in Perms, p \in mem.free :
          LET m == page_alloc(mem, p) IN
          /\ PermOK(perm)
          /\ \E q \in Available(m) :
                mem' = IF InsertFails(m, e, va, q) THEN page_free(m, p)
                       ELSE page_insert(m, e, p, va, perm, q)
    /\ Reload(c)
    /\ UNCHANGED <<status, parent, recv>>

\* Mutant: PTE_W is not compared with the source entry.
MayMap_AnyPerm(x, perm) == PermOK(perm)
MayMap(x, perm) == PermOK(perm) /\ ("W" \in perm => "W" \in x.perm)

\* page_insert's failure frees the page that the source still maps.
sys_page_map(c) ==
    /\ \E src, dst \in Targets(c), sva, dva \in VAs, perm \in Perms :
          LET x == mem.at[Pte(src, sva)] IN
          /\ HasTable(mem, src, sva) /\ MayMap(x, perm)
          /\ \E q \in Available(mem) :
                mem' = IF InsertFails(mem, dst, dva, q) THEN page_free(mem, x.pa)
                       ELSE page_insert(mem, dst, x.pa, dva, perm, q)
    /\ Reload(c)
    /\ UNCHANGED <<status, parent, recv>>

sys_page_unmap(c) ==
    /\ \E e \in Targets(c), va \in VAs : mem' = page_remove(mem, e, va)
    /\ Reload(c)
    /\ UNCHANGED <<status, parent, recv>>

\* Any address from UTOP up passes the test, the low bits of it are ignored.
sys_ipc_recv(c) ==
    /\ \E va \in VAs \cup {UTOP} \cup Beyond : recv' = [recv EXCEPT ![c] = va]
    /\ status' = [status EXCEPT ![c] = "NOT_RUNNABLE"]
    /\ tlb' = [tlb EXCEPT ![c] = NoTlb]
    /\ UNCHANGED <<mem, parent>>

\* page_insert above UTOP: in the window at UVPT the page becomes a page table
\* of the receiver.  The entries it then has are what a program stored in it, and
\* are left out (the model keeps the old ones), like all that an entry for the
\* kernel's own memory changes but the count of the page: the model stops here.
insert_above(m, e, p, va, perm, q) ==
    IF va = KMEM THEN [m EXCEPT !.ref[p] = Incremented(@)] ELSE page_insert(m, e, p, va, perm, q)

\* A message without a page, or with one that goes wherever dstva says.
sys_ipc_try_send(c) ==
    /\ \E e \in Envs :
          /\ status[e] # "FREE" /\ recv[e] # NULL
          /\ \/ UNCHANGED <<mem, lost>>
             \/ \E sva \in VAs, perm \in Perms, q \in Available(mem) :
                   LET x == mem.at[Pte(c, sva)] IN
                   /\ HasTable(mem, c, sva) /\ MayMap(x, perm)
                   /\ \/ /\ recv[e] \notin Beyond /\ ~InsertFails(mem, e, recv[e], q)
                         /\ mem' = page_insert(mem, e, x.pa, recv[e], perm, q)
                         /\ UNCHANGED lost
                      \/ /\ recv[e] \in Beyond
                         /\ mem' = insert_above(mem, e, x.pa, recv[e], perm, q)
                         /\ lost' = TRUE
          /\ status' = [status EXCEPT ![e] = "RUNNABLE"]
          /\ recv' = [recv EXCEPT ![e] = NULL]
    /\ Reload(c)
    /\ UNCHANGED parent

syscall(c) ==
    /\ status[c] = "RUNNING"
    /\ \/ /\ \/ sys_exofork(c) \/ sys_env_set_status(c) \/ sys_env_destroy(c)
             \/ sys_page_alloc(c) \/ sys_page_map(c) \/ sys_page_unmap(c)
             \/ sys_ipc_recv(c)
          /\ UNCHANGED lost
       \/ sys_ipc_try_send(c)
    /\ UNCHANGED booting

-----------------------------------------------------------------------------
\* A panic is the end.  So are, as bounds of the model, the moment page 0 is
\* linked in page_free_list (from there on it may be handed out twice) and that
\* of a page in the place of a page table or of the kernel's memory (from there
\* on a program's stores are page table entries).
Stopped == mem.panic \/ lost \/ ZeroPage \in mem.free

Next ==
    /\ ~Stopped
    /\ \/ boot_done
       \/ \E e \in Envs : \/ env_create(e) \/ load_done(e) \/ env_run(e) \/ preempt(e)
                          \/ collect_zombie(e) \/ syscall(e)
                          \/ \E va \in VAs : region_alloc(e, va)
                          \/ \E va \in Touched : access(e, va)

Spec == Init /\ [][Next]_vars

-----------------------------------------------------------------------------
(***************************************************************************)
(* Safety.                                                                 *)
(***************************************************************************)
Refs(p) == {s \in Sites : Present(mem.at[s]) /\ mem.at[s].pa = p}

\* pp_ref is the number of pointers to the page (memlayout.h): the count that
\* decides about freeing agrees with the page tables after every call, but for a
\* message received above UTOP (syscall.c:379), which loses a page table.
RefExact == lost \/ \A p \in Pages : mem.ref[p] = Cardinality(Refs(p))

\* page_free_list holds exactly the pages nobody points to: none is handed out
\* while mapped, none is lost, on the error paths too (but for a panic, and for
\* a message received above UTOP).
NoLeak == mem.panic \/ lost \/ mem.free \cap Pages = {p \in Pages : Refs(p) = {}}

\* A page directory or page table is never also mapped as a program's page, and
\* belongs to one environment.  Entries exist below an existing page table of an
\* existing environment only: env_free leaves nothing for the next environment
\* in the slot (env.c:449-476).  Only a message received above UTOP breaks this.
TablesPrivate ==
    \A e \in Envs, s \in Sites : \A t \in {Dir(e)} \cup {Table(e, d) : d \in PDs} :
        Present(mem.at[s]) /\ Present(mem.at[t]) /\ s # t => mem.at[s].pa # mem.at[t].pa
TreeShape ==
    /\ TablesPrivate
    /\ \A e \in Envs :
          /\ Present(mem.at[Dir(e)]) <=> status[e] # "FREE"
          /\ \A d \in PDs : Present(mem.at[Table(e, d)]) => Present(mem.at[Dir(e)])
          /\ \A va \in VAs : Present(mem.at[Pte(e, va)]) => Present(mem.at[Table(e, PDX(va))])
TreeOK == lost \/ TreeShape

\* What a CPU has cached for the program it runs is what the page table says,
\* although tlb_invalidate is local and page_remove calls it only for a page
\* that it frees (pmap.c:553): the lcr3 of env_run does the rest.
TlbFresh ==
    lost \/ \A e \in Envs, va \in VAs : Present(tlb[e][va]) => tlb[e][va] = mem.at[Pte(e, va)]

\* No call makes a page writable that is mapped and writable nowhere
\* (sys_page_map must not grant write access to a read-only page), but for a
\* message received above UTOP, whose page may say what is writable.
Writable(m, p) == \E s \in Sites : m.at[s].pa = p /\ {"P", "W"} \subseteq m.at[s].perm
WriteStep ==
    lost' \/ \A p \in Pages :
        (Refs(p) # {} /\ Refs(p)' # {} /\ ~Writable(mem, p)) => ~Writable(mem', p)
WriteNeverGranted == [][WriteStep]_vars

\* The kernel keeps VirtualMemory's promise: page tables and reference counts
\* show nothing else.  Entries that name page 0 and the page at UTOP are part of
\* what a program sees.
Shown(x) == IF Present(x) THEN x ELSE NULL
VM == INSTANCE VirtualMemory WITH
    Frames <- Pages,
    Zero   <- ZeroPage,
    Above  <- Beyond,
    Perms  <- Perms \cup {{"P", "U", "W"}},
    live   <- {e \in Envs : status[e] # "FREE"},
    wants  <- recv,
    space  <- [e \in Envs |-> [va \in VAs |-> Shown(mem.at[Pte(e, va)])]],
    top    <- Shown(mem.at[<<"utop">>])
ImplementsVirtualMemory == VM!Spec

(***************************************************************************)
(* What comments of the source say and the code does not do.               *)
(***************************************************************************)

\* "Mark physical page 0 as in use" (pmap.c:311): it is never handed out.
ZeroPageReserved == ZeroPage \notin mem.free

\* sys_page_map returns -E_NO_MEM without memory (syscall.c:241): once booted,
\* no call ends in a panic.
NoPanic == mem.panic => booting

\* A page nobody asked for is not transferred (syscall.c:328).
KernelMapping == mem.at[<<"utop">>].pa = EnvsPage
=============================================================================
