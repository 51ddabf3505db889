------------------------------ MODULE ForkCow ------------------------------
(***************************************************************************)
(* User-level process creation of JOS: fork with copy-on-write and its     *)
(* page-fault handler (tp-parte4/lib/fork.c, pgfault.c) and spawn          *)
(* (lib/spawn.c), both built from system calls on pages.                   *)
(*                                                                         *)
(* Each system call, each copy of a page and each store of a program is a  *)
(* step; environments run on any number of processors.  A store to a       *)
(* copy-on-write page runs the handler and then the store again.  A        *)
(* program touches its stack whatever it is doing, inside fork and spawn   *)
(* too, so stores to the stack are possible between any two of their       *)
(* steps, though not inside the handler, which has a stack of its own.     *)
(* A page holds one value.  Addresses are numbers in the order in which    *)
(* fork visits them; UTEMP and PFTEMP come first, as in memlayout.h.       *)
(***************************************************************************)
EXTENDS Naturals, FiniteSets

CONSTANTS
    Envs, Root,  \* environments, and the one that runs first
    Pages,       \* physical pages of the programs
    UTEMP,       \* where spawn prepares a page
    PFTEMP,      \* where the handler prepares a copy
    Text,        \* addresses of read-only segments
    Data,        \* addresses of writable segments
    Stack,       \* the stack page
    Shared,      \* addresses that hold PTE_SHARE pages
    Values,      \* contents of a page; 0 is a page fresh from the kernel or the image
    NULL

Private == Data \cup {Stack}
User    == Private \cup Text \cup Shared
VAs     == User \cup {UTEMP, PFTEMP}

ASSUME EnvAssumption   == Root \in Envs /\ IsFiniteSet(Envs)
ASSUME PageAssumption  == IsFiniteSet(Pages) /\ Cardinality(User) <= Cardinality(Pages)
ASSUME VaAssumption    == /\ VAs \subseteq Nat /\ IsFiniteSet(VAs) /\ UTEMP # PFTEMP
                          /\ UTEMP \notin User /\ PFTEMP \notin User
                          /\ Private \cap Shared = {} /\ Text \cap (Private \cup Shared) = {}
ASSUME ValueAssumption == 0 \in Values
ASSUME NullAssumption  == NULL \notin Envs /\ NULL \notin VAs /\ NULL \notin [pa : Pages, perm : SUBSET {"W", "COW", "SHARE"}]

VARIABLES
    status,   \* "FREE", "CHILD" (exofork'ed, not runnable yet), "LIVE", "PANIC" (in panic's loop)
    pte,      \* pte[e][va]: a page with permission bits, or NULL
    content,  \* content[p]
    handler,  \* handler[e]: env_pgfault_upcall is set and the exception stack is mapped
    call,     \* call[e]: where e is in fork or spawn
    fault,    \* fault[e]: the store that e's handler is serving, and how far it is
    during    \* during[e][va]: what va has held since e's fork began (history)

vars == <<status, pte, content, handler, call, fault, during>>

Perms   == SUBSET {"W", "COW", "SHARE"}
Pte     == [pa : Pages, perm : Perms]
NoCall  == [op |-> "none", at |-> "run", child |-> NULL, va |-> NULL]
NoFault == [at |-> "none", va |-> NULL, v |-> 0]
NoHistory == [va \in Private |-> {}]
Empty   == [va \in VAs |-> NULL]

TypeOK ==
    /\ status \in [Envs -> {"FREE", "CHILD", "LIVE", "PANIC"}]
    /\ pte \in [Envs -> [VAs -> Pte \cup {NULL}]]
    /\ content \in [Pages -> Values]
    /\ handler \in [Envs -> BOOLEAN]
    /\ call \in [Envs -> [op    : {"none", "fork", "spawn"},
                          at    : {"run", "exstack", "child", "self", "alloc", "read", "map", "unmap", "shared"},
                          child : Envs \cup {NULL},
                          va    : Nat \cup {NULL}]]
    /\ fault \in [Envs -> [at : {"none", "alloc", "copy", "map", "unmap"}, va : VAs \cup {NULL}, v : Values]]
    /\ during \in [Envs -> [Private -> SUBSET Values]]

Init ==
    /\ status = [e \in Envs |-> IF e = Root THEN "LIVE" ELSE "FREE"]
    /\ \E at \in [User -> Pages] :
         /\ \A a, b \in User : at[a] = at[b] => a = b
         /\ pte = [e \in Envs |-> [va \in VAs |->
                     IF e = Root /\ va \in User
                     THEN [pa |-> at[va], perm |-> IF va \in Text THEN {} ELSE
                                                   IF va \in Shared THEN {"W", "SHARE"} ELSE {"W"}]
                     ELSE NULL]]
    /\ content = [p \in Pages |-> 0]
    /\ handler = [e \in Envs |-> FALSE]
    /\ call = [e \in Envs |-> NoCall]
    /\ fault = [e \in Envs |-> NoFault]
    /\ during = [e \in Envs |-> NoHistory]

-----------------------------------------------------------------------------
(***************************************************************************)
(* System calls, on the page tables and contents; they are the kernel's    *)
(* (module Pmap).  A page is free when no entry holds it.  Memory is also  *)
(* the kernel's and of other programs, so sys_exofork and sys_page_alloc   *)
(* can fail at any time.  sys_page_map cannot, in the calls made here: for *)
(* want of a page table it panics the kernel (kern/syscall.c:276-279),     *)
(* where every behaviour ends, before fork and spawn could panic.          *)
(***************************************************************************)
FreePages == {p \in Pages : \A e \in Envs, va \in VAs : pte[e][va] = NULL \/ pte[e][va].pa # p}

sys_page_alloc(e, va, p, perm) ==
    /\ pte' = [pte EXCEPT ![e][va] = [pa |-> p, perm |-> perm]]
    /\ content' = [content EXCEPT ![p] = 0]
sys_page_map(e, va, f, vb, perm) == pte' = [pte EXCEPT ![f][vb] = [pa |-> pte[e][va].pa, perm |-> perm]]
sys_page_unmap(e, va) == pte' = [pte EXCEPT ![e][va] = NULL]

Page(e, va) == pte[e][va].pa
Has(e, va, bit) == pte[e][va] # NULL /\ bit \in pte[e][va].perm

\* e executes instructions of its program, of fork or of spawn.
Executes(e) == status[e] = "LIVE" /\ fault[e].at = "none"
At(e, op, at) == Executes(e) /\ call[e].op = op /\ call[e].at = at
Goto(e, at, va) == call' = [call EXCEPT ![e].at = at, ![e].va = va]
Panics(e) ==
    /\ status' = [status EXCEPT ![e] = "PANIC"]
    /\ call' = [call EXCEPT ![e] = NoCall] /\ fault' = [fault EXCEPT ![e] = NoFault]
    /\ during' = [during EXCEPT ![e] = NoHistory]

-----------------------------------------------------------------------------
(***************************************************************************)
(* Stores, and the handler.                                                *)
(***************************************************************************)
Stored(e, va, v) ==
    /\ content' = [content EXCEPT ![Page(e, va)] = v]
    /\ during' = IF va \in Private /\ call[e].op = "fork"
                 THEN [during EXCEPT ![e][va] = @ \cup {v}] ELSE during

store(e, va, v) ==
    /\ Executes(e)
    /\ va \in Private \cup Shared /\ (va # Stack => call[e].op = "none")
    /\ \/ Has(e, va, "W") /\ Stored(e, va, v) /\ UNCHANGED fault
       \/ /\ Has(e, va, "COW") /\ handler[e]
          /\ fault' = [fault EXCEPT ![e] = [at |-> "alloc", va |-> va, v |-> v]]
          /\ UNCHANGED <<content, during>>
    /\ UNCHANGED <<status, pte, handler, call>>

\* pgfault: a page at PFTEMP, the copy, the page at the faulting address,
\* PFTEMP free again; then the store is executed again.
\* Mutant: the page at the faulting address is not moved but opened.
pgfault_map_InPlace(e) ==
    LET va == fault[e].va IN
    /\ fault[e].at = "map"
    /\ sys_page_map(e, va, e, va, {"W"}) /\ fault' = [fault EXCEPT ![e].at = "unmap"]
    /\ UNCHANGED content
\* Mutant: PFTEMP is left as it is.
pgfault_map_KeepsTemp(e) ==
    LET va == fault[e].va IN
    /\ fault[e].at = "map"
    /\ sys_page_map(e, PFTEMP, e, va, {"W"}) /\ fault' = [fault EXCEPT ![e] = NoFault]
    /\ UNCHANGED content
pgfault_map(e) ==
    LET va == fault[e].va IN
    /\ fault[e].at = "map"
    /\ sys_page_map(e, PFTEMP, e, va, {"W"}) /\ fault' = [fault EXCEPT ![e].at = "unmap"]
    /\ UNCHANGED content

pgfault(e) ==
    /\ status[e] = "LIVE"
    /\ \/ /\ fault[e].at = "alloc" /\ fault' = [fault EXCEPT ![e].at = "copy"]
          /\ \E p \in FreePages : sys_page_alloc(e, PFTEMP, p, {"W"})
       \/ /\ fault[e].at = "copy" /\ fault' = [fault EXCEPT ![e].at = "map"]
          /\ content' = [content EXCEPT ![Page(e, PFTEMP)] = content[Page(e, fault[e].va)]]
          /\ UNCHANGED pte
       \/ pgfault_map(e)
       \/ /\ fault[e].at = "unmap" /\ fault' = [fault EXCEPT ![e] = NoFault]
          /\ sys_page_unmap(e, PFTEMP)
          /\ UNCHANGED content
    /\ UNCHANGED <<status, handler, call, during>>

pgfault_panics(e) ==
    /\ status[e] = "LIVE" /\ fault[e].at = "alloc"
    /\ Panics(e) /\ UNCHANGED <<pte, content, handler>>

-----------------------------------------------------------------------------
(***************************************************************************)
(* fork.                                                                   *)
(***************************************************************************)
\* set_pgfault_handler, then sys_exofork.
\* Mutant: the handler is left for the child to set.
fork_NoHandler(e, c) ==
    /\ At(e, "none", "run") /\ status[c] = "FREE"
    /\ status' = [status EXCEPT ![c] = "CHILD"]
    /\ call' = [call EXCEPT ![e] = [op |-> "fork", at |-> "exstack", child |-> c, va |-> NULL]]
    /\ during' = [during EXCEPT ![e] = [va \in Private |-> {content[Page(e, va)]}]]
    /\ UNCHANGED <<pte, content, fault, handler>>
fork(e, c) ==
    /\ At(e, "none", "run") /\ status[c] = "FREE"
    /\ handler' = [handler EXCEPT ![e] = TRUE]
    /\ status' = [status EXCEPT ![c] = "CHILD"]
    /\ call' = [call EXCEPT ![e] = [op |-> "fork", at |-> "exstack", child |-> c, va |-> NULL]]
    /\ during' = [during EXCEPT ![e] = [va \in Private |-> {content[Page(e, va)]}]]
    /\ UNCHANGED <<pte, content, fault>>

\* sys_page_alloc of the child's exception stack and its upcall.
child_exstack(e) ==
    /\ At(e, "fork", "exstack")
    /\ handler' = [handler EXCEPT ![call[e].child] = TRUE]
    /\ Goto(e, "child", 0)
    /\ UNCHANGED <<status, pte, content, fault, during>>

\* Its panics: no exception stack for e, no child, none for the child, which is
\* then left as it is.
fork_panics(e) ==
    /\ \/ At(e, "none", "run") /\ ~handler[e] /\ UNCHANGED handler
       \/ At(e, "none", "run") /\ handler' = [handler EXCEPT ![e] = TRUE]
       \/ At(e, "fork", "exstack") /\ UNCHANGED handler
    /\ Panics(e) /\ UNCHANGED <<pte, content>>

\* The next mapped page at or above a, if any.
Mapped(e, a) == {va \in VAs : va >= a /\ pte[e][va] # NULL}
Least(S) == CHOOSE n \in S : \A m \in S : n <= m

\* perm of both entries for a page that the two will have.
\* Mutant: the child may write the page at once.
DupPerm_KeepsW(perm) == perm
\* Mutant: the entry is not masked with PTE_SYSCALL, PTE_A goes along.
DupPerm_Unmasked(perm) == perm \cup {"A"}
DupPerm(perm) == IF perm \cap {"W", "COW"} # {} /\ "SHARE" \notin perm
                 THEN (perm \ {"W"}) \cup {"COW"} ELSE perm

\* First the child's entry ...
duppage(e) ==
    LET left == Mapped(e, call[e].va)  va == Least(left)  perm == DupPerm(pte[e][va].perm) IN
    /\ At(e, "fork", "child") /\ left # {}
    /\ sys_page_map(e, va, call[e].child, va, perm)
    /\ IF "COW" \in perm THEN Goto(e, "self", va) ELSE Goto(e, "child", va + 1)
    /\ UNCHANGED <<status, content, handler, fault, during>>

\* ... then e's own, if the page is copy-on-write.
\* Mutant: the parent keeps its right to write.
duppage_self_Skipped(e) ==
    /\ At(e, "fork", "self") /\ Goto(e, "child", call[e].va + 1)
    /\ UNCHANGED <<status, pte, content, handler, fault, during>>
duppage_self(e) ==
    LET va == call[e].va IN
    /\ At(e, "fork", "self")
    /\ sys_page_map(e, va, e, va, DupPerm(pte[e][va].perm)) /\ Goto(e, "child", va + 1)
    /\ UNCHANGED <<status, content, handler, fault, during>>

\* sys_env_set_status: the child runs.
Starts(e) ==
    /\ status' = [status EXCEPT ![call[e].child] = "LIVE"]
    /\ call' = [call EXCEPT ![e] = NoCall] /\ during' = [during EXCEPT ![e] = NoHistory]

fork_done(e) ==
    /\ At(e, "fork", "child") /\ Mapped(e, call[e].va) = {} /\ Starts(e)
    /\ UNCHANGED <<pte, content, handler, fault>>

-----------------------------------------------------------------------------
(***************************************************************************)
(* spawn: the stack page, the pages of the segments, then the shared ones. *)
(***************************************************************************)
spawn(e, c) ==
    /\ At(e, "none", "run") /\ status[c] = "FREE"
    /\ status' = [status EXCEPT ![c] = "CHILD"]
    /\ call' = [call EXCEPT ![e] = [op |-> "spawn", at |-> "alloc", child |-> c, va |-> Stack]]
    /\ UNCHANGED <<pte, content, handler, fault, during>>

Image == Text \cup Data
\* After the stack, the segments by address.
NextPage(va) == LET left == {a \in Image : va = Stack \/ a > va} IN IF left = {} THEN NULL ELSE Least(left)

Rights(va) == IF va \in Text THEN {} ELSE {"W"}
GoNext(e, va) == IF NextPage(va) = NULL THEN Goto(e, "shared", 0) ELSE Goto(e, "alloc", NextPage(va))

\* A page of a segment that the file does not fill is allocated in the child.
spawn_blank(e) ==
    /\ At(e, "spawn", "alloc") /\ call[e].va # Stack
    /\ \E p \in FreePages : sys_page_alloc(call[e].child, call[e].va, p, Rights(call[e].va))
    /\ GoNext(e, call[e].va)
    /\ UNCHANGED <<status, handler, fault, during>>

\* The others: a page at UTEMP, filled, mapped in the child, and gone from UTEMP.
\* Mutant: the page stays at UTEMP.
spawn_page_KeepsTemp(e) ==
    LET c == call[e].child  va == call[e].va IN
    /\ \/ /\ At(e, "spawn", "alloc") /\ Goto(e, "read", va)
          /\ \E p \in FreePages : sys_page_alloc(e, UTEMP, p, {"W"})
       \/ /\ At(e, "spawn", "read") /\ Goto(e, "map", va)
          /\ content' = [content EXCEPT ![Page(e, UTEMP)] = 0] /\ UNCHANGED pte
       \/ /\ At(e, "spawn", "map") /\ UNCHANGED content
          /\ sys_page_map(e, UTEMP, c, va, Rights(va))
          /\ GoNext(e, va)
    /\ UNCHANGED <<status, handler, fault, during>>
spawn_page(e) ==
    LET c == call[e].child  va == call[e].va IN
    /\ \/ /\ At(e, "spawn", "alloc") /\ Goto(e, "read", va)
          /\ \E p \in FreePages : sys_page_alloc(e, UTEMP, p, {"W"})
       \/ /\ At(e, "spawn", "read") /\ Goto(e, "map", va)
          /\ content' = [content EXCEPT ![Page(e, UTEMP)] = 0] /\ UNCHANGED pte
       \/ /\ At(e, "spawn", "map") /\ Goto(e, "unmap", va) /\ UNCHANGED content
          /\ sys_page_map(e, UTEMP, c, va, Rights(va))
       \/ /\ At(e, "spawn", "unmap") /\ UNCHANGED content
          /\ sys_page_unmap(e, UTEMP)
          /\ GoNext(e, va)
    /\ UNCHANGED <<status, handler, fault, during>>

\* copy_shared_pages, then sys_env_set_status.
SharedLeft(e) == {va \in Mapped(e, call[e].va) : Has(e, va, "SHARE")}
copy_shared_pages(e) ==
    LET va == Least(SharedLeft(e)) IN
    /\ At(e, "spawn", "shared") /\ SharedLeft(e) # {}
    /\ sys_page_map(e, va, call[e].child, va, pte[e][va].perm) /\ Goto(e, "shared", va + 1)
    /\ UNCHANGED <<status, content, handler, fault, during>>
spawn_done(e) ==
    /\ At(e, "spawn", "shared") /\ SharedLeft(e) = {} /\ Starts(e)
    /\ UNCHANGED <<pte, content, handler, fault>>

\* The failures: no page for the stack leaves the child as it is; no page for a
\* segment, or no data from the file (UTEMP stays mapped), destroys it.
Gone(c) ==
    /\ status' = [status EXCEPT ![c] = "FREE"] /\ pte' = [pte EXCEPT ![c] = Empty]
    /\ handler' = [handler EXCEPT ![c] = FALSE]
spawn_fails(e) ==
    /\ \/ At(e, "spawn", "alloc") /\ call[e].va = Stack /\ UNCHANGED <<status, pte, handler>>
       \/ At(e, "spawn", "alloc") /\ call[e].va # Stack /\ Gone(call[e].child)
       \/ At(e, "spawn", "read") /\ call[e].va # Stack /\ Gone(call[e].child)
    /\ call' = [call EXCEPT ![e] = NoCall]
    /\ UNCHANGED <<content, fault, during>>

-----------------------------------------------------------------------------
\* e ends, at any point: exit, a fault, or its parent destroys it.
env_destroy(e) ==
    /\ status[e] \in {"LIVE", "PANIC"} /\ Gone(e)
    /\ call' = [call EXCEPT ![e] = NoCall] /\ fault' = [fault EXCEPT ![e] = NoFault]
    /\ during' = [during EXCEPT ![e] = NoHistory]
    /\ UNCHANGED content

Next ==
    \E e \in Envs :
        \/ \E va \in VAs, v \in Values : store(e, va, v)
        \/ pgfault(e) \/ pgfault_panics(e)
        \/ \E c \in Envs : fork(e, c) \/ spawn(e, c)
        \/ child_exstack(e) \/ fork_panics(e) \/ duppage(e) \/ duppage_self(e) \/ fork_done(e)
        \/ spawn_blank(e) \/ spawn_page(e) \/ copy_shared_pages(e) \/ spawn_done(e) \/ spawn_fails(e)
        \/ env_destroy(e)

Spec == Init /\ [][Next]_vars

-----------------------------------------------------------------------------
(***************************************************************************)
(* Properties.                                                             *)
(***************************************************************************)
Running == {e \in Envs : status[e] \in {"LIVE", "PANIC"}}

\* A page that one program may write and that is not PTE_SHARE is mapped by no
\* other program.  This holds through concurrent faults on both sides of a fork,
\* stores to the stack between the two sys_page_map of duppage, forks of
\* children, failures and deaths at any point (fork.c:39-49, 63-88, spawn.c:261-268).
NoWritableAlias ==
    \A e, f \in Running, va, vb \in VAs :
        e # f /\ Has(e, va, "W") /\ ~Has(e, va, "SHARE") /\ pte[f][vb] # NULL => Page(f, vb) # Page(e, va)

\* A running program can serve its next fault: one that can meet a copy-on-write
\* page has a handler and an exception stack to run it on, without which its
\* store would destroy it (fork.c:156, 164-171); its addresses stay mapped, and
\* outside the handler no page is left at PFTEMP, which that fault would hand to
\* the program (fork.c:39-49).
CowHasHandler ==
    \A e \in Running, va \in VAs : Has(e, va, "COW") => handler[e]
TempIsFree ==
    \A e \in Envs : status[e] = "LIVE" =>
        /\ \A va \in Private \cup Shared : pte[e][va] # NULL
        /\ pte[e][PFTEMP] # NULL => fault[e].at # "none"
CanFault == CowHasHandler /\ TempIsFree

\* Every running program has a private memory of its own and shares the
\* PTE_SHARE pages; a fork gives the child values that the parent's addresses
\* had during the fork, a spawn the image; stores are never lost.
Memories == INSTANCE ForkMemory WITH
    alive  <- Running,
    memory <- [e \in Envs |-> [va \in Private |-> IF e \in Running THEN content[Page(e, va)] ELSE 0]],
    shared <- [va \in Shared |-> IF Running = {} THEN 0
                                 ELSE content[Page(CHOOSE e \in Running : TRUE, va)]]
ImplementsForkMemory == Memories!Spec
=============================================================================
