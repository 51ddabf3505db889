--------------------------- MODULE VirtualMemory ---------------------------
(***************************************************************************)
(* What the kernel lets a user program see of memory, without page tables, *)
(* reference counts or a free list: every live environment has a private   *)
(* map from virtual addresses to frames, and all of them share the page at *)
(* UTOP.  A map changes only by a call of the environment itself or of its *)
(* parent, or by the message the environment waits for, at the address it  *)
(* named.  A new frame is one that nobody has; a frame is shared only by   *)
(* copying an entry, and a copy is writable only if the original is.       *)
(*                                                                         *)
(* In three places this is less than the comments of the source promise: a *)
(* copy of what is not mapped gives the frame Zero (syscall.c:237 says     *)
(* -E_INVAL), a page sent to an environment that named UTOP replaces the   *)
(* shared page (syscall.c:328: "no page mapping is transferred"), and a    *)
(* page received above UTOP ends every promise.                            *)
(***************************************************************************)
CONSTANTS
    Envs,      \* environments (slots of envs[])
    VAs,       \* virtual page addresses below UTOP
    UTOP,      \* the address that should mean "no page" in a receive
    Above,     \* the addresses above it
    Frames,    \* the frames that can be allocated
    Zero,      \* physical page 0
    EnvsPage,  \* the page of the kernel that is shown at UTOP
    Perms,     \* the permissions an entry can get
    NULL

VARIABLES
    live,      \* the environments that exist
    parent,    \* parent[e], NULL when it is the kernel or gone
    wants,     \* where a waiting environment wants a page
    space,     \* space[e][va]: an entry [pa, perm], or NULL
    top,       \* the entry of UTOP, in every environment
    lost       \* a page was received above UTOP

vars == <<live, parent, wants, space, top, lost>>

Empty == [va \in VAs |-> NULL]

Init ==
    /\ live = {}
    /\ parent = [e \in Envs |-> NULL]
    /\ wants = [e \in Envs |-> NULL]
    /\ space = [e \in Envs |-> Empty]
    /\ top = [pa |-> EnvsPage, perm |-> {"P", "U"}]
    /\ lost = FALSE

MayManipulate(c, e) == c \in live /\ e \in live /\ (e = c \/ parent[e] = c)

Has(entry, f) == entry # NULL /\ entry.pa = f
Unused == {f \in Frames : ~Has(top, f) /\ \A e \in Envs, va \in VAs : ~Has(space[e][va], f)}

\* The entry a copy makes, also of an address where nothing is mapped.
Copy(entry, perm) == [pa |-> IF entry = NULL THEN Zero ELSE entry.pa, perm |-> perm]
MayCopy(entry, perm) == "W" \in perm => entry # NULL /\ "W" \in entry.perm

Create(e, p) ==
    /\ e \notin live /\ p \in live \cup {NULL}
    /\ live' = live \cup {e}
    /\ parent' = [parent EXCEPT ![e] = p]
    /\ UNCHANGED <<wants, space, top, lost>>

Allocate(c, e, va, perm) ==
    /\ MayManipulate(c, e)
    /\ \E f \in Unused : space' = [space EXCEPT ![e][va] = [pa |-> f, perm |-> perm]]
    /\ UNCHANGED <<live, parent, wants, top, lost>>

Share(c, src, sva, dst, dva, perm) ==
    /\ MayManipulate(c, src) /\ MayManipulate(c, dst)
    /\ MayCopy(space[src][sva], perm)
    /\ space' = [space EXCEPT ![dst][dva] = Copy(space[src][sva], perm)]
    /\ UNCHANGED <<live, parent, wants, top, lost>>

Unmap(c, e, va) ==
    /\ MayManipulate(c, e)
    /\ space' = [space EXCEPT ![e][va] = NULL]
    /\ UNCHANGED <<live, parent, wants, top, lost>>

Receive(e, va) ==
    /\ e \in live /\ wants[e] = NULL
    /\ wants' = [wants EXCEPT ![e] = va]
    /\ UNCHANGED <<live, parent, space, top, lost>>

\* A message without a page.
Send(c, e) ==
    /\ c \in live /\ e \in live /\ wants[e] # NULL
    /\ wants' = [wants EXCEPT ![e] = NULL]
    /\ UNCHANGED <<live, parent, space, top, lost>>

\* A page at the address that e named, or at UTOP, for all environments.
SendPage(c, e, sva, perm) ==
    /\ c \in live /\ e \in live /\ wants[e] \in VAs \cup {UTOP}
    /\ MayCopy(space[c][sva], perm)
    /\ LET copy == Copy(space[c][sva], perm) IN
       IF wants[e] = UTOP THEN top' = copy /\ UNCHANGED space
       ELSE space' = [space EXCEPT ![e][wants[e]] = copy] /\ UNCHANGED top
    /\ wants' = [wants EXCEPT ![e] = NULL]
    /\ UNCHANGED <<live, parent, lost>>

\* A page above UTOP: nothing is said of the maps from there on.
Lose(c, e) ==
    /\ c \in live /\ e \in live /\ wants[e] \in Above
    /\ lost' = TRUE

Destroy(c, e) ==
    /\ MayManipulate(c, e)
    /\ live' = live \ {e}
    /\ parent' = [x \in Envs |-> IF x = e \/ parent[x] = e THEN NULL ELSE parent[x]]
    /\ wants' = [wants EXCEPT ![e] = NULL]
    /\ space' = [space EXCEPT ![e] = Empty]
    /\ UNCHANGED <<top, lost>>

Next ==
    \/ \E e \in Envs, p \in Envs \cup {NULL} : Create(e, p)
    \/ \E c, e \in Envs, va \in VAs : Unmap(c, e, va)
    \/ \E c, e \in Envs, va \in VAs, perm \in Perms : Allocate(c, e, va, perm) \/ SendPage(c, e, va, perm)
    \/ \E c, src, dst \in Envs, sva, dva \in VAs, perm \in Perms : Share(c, src, sva, dst, dva, perm)
    \/ \E e \in Envs, va \in VAs \cup {UTOP} \cup Above : Receive(e, va)
    \/ \E c, e \in Envs : Send(c, e) \/ Lose(c, e) \/ Destroy(c, e)

Spec == Init /\ [][Next]_vars
=============================================================================
