------------------------------- MODULE KernMap -------------------------------
(***************************************************************************)
(* What mem_init of kern/pmap.c sets up at boot: the free list and the     *)
(* kernel's part of every address space, from UTOP upwards.  Addresses are *)
(* counted in words of PG to the page; the machines differ in the memory   *)
(* they have and in the length of the kernel.                              *)
(***************************************************************************)
EXTENDS Integers, Sequences

\* A small layout, in pages; the order of the regions is the one of memlayout.h.
PG         == 4              \* PGSIZE / sizeof(struct PageInfo)
PTPages    == 8              \* PTSIZE
ENVPages   == 2              \* NENV * sizeof(struct Env)
KSTKSIZE   == 1
KSTKGAP    == 1
NSTACKS    == 3              \* NCPU
UENVS      == PTPages        \* UTOP
UPAGES     == UENVS + PTPages
UVPT       == UPAGES + PTPages
MMIOBASE   == UVPT + PTPages
MMIOLIM    == MMIOBASE + PTPages
KSTACKTOP  == MMIOLIM + PTPages
KERNBASE   == KSTACKTOP
MaxPhys    == 40             \* bound: [KERNBASE, 2^32)
MPENTRY    == 1
IOPHYSMEM  == 4
EXTPHYSMEM == 6              \* where the kernel is

\* The stacks are part of the kernel: percpu_kstacks[i], and bootstack.
percpu_kstacks(i) == EXTPHYSMEM + i
bootstack         == EXTPHYSMEM + NSTACKS

\* Every value that mem_init sets; an entry is <<page, permissions>>, or <<>>.
NoMap == [va \in 0..KERNBASE + MaxPhys - 1 |-> <<>>]
Boot(m) == [m |-> m, ok |-> TRUE, nextfree |-> 0, got |-> 0, free |-> <<>>, tables |-> {}, map |-> NoMap]
Panic(s) == [s EXCEPT !.ok = FALSE]

PagesFor(n) == (n + PG - 1) \div PG

-----------------------------------------------------------------------------
boot_alloc(s, n) ==
    LET first == IF s.nextfree = 0 THEN PagesFor(s.m.end) ELSE s.nextfree
        next == first + PagesFor(n)
    IN  IF ~s.ok THEN s
        ELSE IF n = 0 THEN [s EXCEPT !.nextfree = first, !.got = first]
        ELSE IF next > s.m.npages THEN Panic(s)
        ELSE [s EXCEPT !.nextfree = next, !.got = first]

\* The list after the pages up to the last have been put in front of it.
page_init(s0) ==
    LET s == boot_alloc(s0, 0)
        Free(i) == i # MPENTRY /\ (i < IOPHYSMEM \/ s.got < i)
    IN  [s EXCEPT !.free = SelectSeq([k \in 1..s.m.npages - 1 |-> s.m.npages - k], Free)]

\* One page of a region; the walk takes a page for the table when there is none.
MapPage(s, va, pa, perm) ==
    LET new == va \div PTPages \notin s.tables
    IN  IF ~s.ok \/ (new /\ s.free = <<>>) THEN Panic(s)
        ELSE [s EXCEPT !.map[va] = <<pa, perm \cup {"P"}>>,
                       !.free = IF new THEN Tail(@) ELSE @,
                       !.tables = @ \cup {va \div PTPages}]

\* Without memory the code returns early, and check_kern_pgdir panics.
RECURSIVE MapPages(_, _, _, _, _)
MapPages(s, va, n, pa, perm) == IF n = 0 THEN s ELSE MapPages(MapPage(s, va, pa, perm), va + 1, n - 1, pa + 1, perm)
boot_map_region(s, va, size, pa, perm) == IF size % PG # 0 THEN Panic(s) ELSE MapPages(s, va, size \div PG, pa, perm)

RECURSIVE MapStacks(_, _)
MapStacks(s, i) ==
    IF i = NSTACKS THEN s
    ELSE LET top == KSTACKTOP - i * (KSTKSIZE + KSTKGAP)
         IN  MapStacks(boot_map_region(s, top - KSTKSIZE, KSTKSIZE * PG, percpu_kstacks(i), {"W"}), i + 1)
mem_init_mp(s) == MapStacks(s, 0)

mem_init(m) ==
    LET pgdir == boot_alloc(Boot(m), PG)
        pages == boot_alloc([pgdir EXCEPT !.tables = {UVPT \div PTPages}], m.npages)
        envs == boot_alloc(pages, ENVPages * PG)
        upages == boot_map_region(page_init(envs), UPAGES, m.npages, pages.got, {"U"})
        uenvs == boot_map_region(upages, UENVS, PTPages * PG, envs.got, {"U"})
        stack == boot_map_region(uenvs, KSTACKTOP - KSTKSIZE, KSTKSIZE * PG, bootstack, {"W"})
        all == boot_map_region(stack, KERNBASE, MaxPhys * PG, 0, {"W"})
    IN  mem_init_mp(all)

\* The device regions that are mapped one after the other: the first page of each.
RECURSIVE mmio_map_region(_, _)
mmio_map_region(base, sizes) ==
    IF sizes = <<>> THEN <<>>
    ELSE LET n == PagesFor(Head(sizes))
         IN  IF base + n > MMIOLIM THEN <<-1>> ELSE <<base>> \o mmio_map_region(base + n, Tail(sizes))

-----------------------------------------------------------------------------
Machines == [npages : 0..MaxPhys, end : (EXTPHYSMEM + NSTACKS + 1) * PG..(EXTPHYSMEM + NSTACKS + 4) * PG]

ElementsOf(list) == {list[k] : k \in DOMAIN list}

\* Every machine that gets through mem_init has a kernel part as memlayout.h draws it
\* (pmap.c:262-276, 309-321): the stacks are mapped, each to its own memory, with an
\* unmapped page below each; nothing that the kernel uses is free, nor page 0, the code
\* for the other processors or the hole below EXTPHYSMEM; nothing that a program may read there
\* is writable.
ASSUME KernelIsMapped ==
    \A m \in Machines :
        LET s == mem_init(m)
            Stack(i) == KSTACKTOP - i * (KSTKSIZE + KSTKGAP) - 1
            used == PagesFor(m.end) + 1 + PagesFor(m.npages) + ENVPages
        IN  s.ok =>
              /\ \A i \in 0..NSTACKS - 1 : /\ s.map[Stack(i)] = <<percpu_kstacks(i), {"P", "W"}>>
                                           /\ s.map[Stack(i) - 1] = <<>>
              /\ \A pa \in 0..m.npages - 1 : s.map[KERNBASE + pa] = <<pa, {"P", "W"}>>
              /\ \A k \in 0..PagesFor(m.npages) - 1 : s.map[UPAGES + k] = <<PagesFor(m.end) + 1 + k, {"P", "U"}>>
              /\ \A k \in 0..ENVPages - 1 : s.map[UENVS + k] = <<used - ENVPages + k, {"P", "U"}>>
              /\ \A va \in DOMAIN s.map : s.map[va] # <<>> => (va >= UENVS /\ ~{"U", "W"} \subseteq s.map[va][2])
              /\ \A p \in ElementsOf(s.free) : p < m.npages /\ p \notin {0, MPENTRY} /\ (p < IOPHYSMEM \/ p >= used)
              /\ \A j, k \in DOMAIN s.free : s.free[j] = s.free[k] => j = k

\* mem_init gets through exactly when the kernel's data fits, a page is left for each
\* table, and the memory is a whole number of pages of struct PageInfo: "pages" is mapped
\* with its size as it is (pmap.c:162, 194, 460).  The page behind the kernel's data is
\* never used (pmap.c:332).
ASSUME MemoryIsEnough ==
    \A m \in Machines :
        LET used == PagesFor(m.end) + 1 + PagesFor(m.npages) + ENVPages
            base == IOPHYSMEM - 2  \* all but 0 and MPENTRY
            tables == 3 + MaxPhys \div PTPages
        IN  mem_init(m).ok <=> /\ m.npages % PG = 0 /\ used <= m.npages
                               /\ tables <= base \/ tables <= base + m.npages - used - 1

\* Device regions lie one behind the other below MMIOLIM, which a region that does not
\* fit reaches never (pmap.c:612-614).
ASSUME RegionsAreApart ==
    \A sizes \in UNION {[1..n -> 1..5 * PG] : n \in 0..2} :
        LET at == mmio_map_region(MMIOBASE, sizes)
            End(k) == at[k] * PG + sizes[k]
        IN  \A k \in DOMAIN at : at[k] # -1 => /\ MMIOBASE <= at[k] /\ End(k) <= MMIOLIM * PG
                                               /\ \A j \in 1..k - 1 : End(j) <= at[k] * PG
=============================================================================
