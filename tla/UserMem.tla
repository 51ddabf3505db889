------------------------------- MODULE UserMem -------------------------------
(***************************************************************************)
(* user_mem_check of kern/pmap.c: may a program use [va, va + len)?        *)
(* Addresses are numbers modulo 2^w, as size_t is; a page has PGSIZE of    *)
(* them, and "mapped" is the set of pages whose entry has the permissions  *)
(* that are asked for.                                                     *)
(***************************************************************************)
EXTENDS Integers, FiniteSets

\* A small machine.
w      == 4
PGSIZE == 2
ULIM   == 10

Wrap(n)      == n % (2^w)
RoundDown(n) == n - (n % PGSIZE)
RoundUp(n)   == RoundDown(Wrap(n + PGSIZE - 1))

NoError == -1

\* The first erroneous address; the loop goes from page to page.
user_mem_check(mapped, va, len) ==
    LET tested == {i \in 0..2^w - 1 : i % PGSIZE = 0 /\ RoundDown(va) <= i /\ i < RoundUp(Wrap(va + len))}
        bad == {i \in tested : i >= ULIM \/ i \div PGSIZE \notin mapped}
        first == CHOOSE i \in bad : \A j \in bad : i <= j
    IN  IF bad = {} THEN NoError ELSE IF va > first THEN va ELSE first

-----------------------------------------------------------------------------
\* A range that ends before the last page of the address space passes exactly when
\* each of its addresses is below ULIM and in a mapped page; otherwise the first one
\* that is not is reported (pmap.c:630-646).  An empty range in the middle of a page
\* counts as an address of that page.  For a range that reaches into the last page the
\* rounding wraps to 0 and no page is tested, so nothing is said of it.
ASSUME RangesAreChecked ==
    \A mapped \in SUBSET (0..(2^w \div PGSIZE) - 1), va, len \in 0..2^w - 1 :
        va + len <= 2^w - PGSIZE =>
            LET range == (va..va + len - 1) \cup (IF va % PGSIZE = 0 THEN {} ELSE {va})
                bad == {a \in range : a >= ULIM \/ a \div PGSIZE \notin mapped}
            IN  user_mem_check(mapped, va, len) =
                    IF bad = {} THEN NoError ELSE CHOOSE a \in bad : \A b \in bad : a <= b
=============================================================================
