----------------------------- MODULE SpawnImage -----------------------------
(***************************************************************************)
(* What spawn (lib/spawn.c) puts in the memory of the child: its stack     *)
(* page with the arguments (init_stack), and the segments of its program   *)
(* (map_segment).  A word has Word bytes; an argument is its length, as    *)
(* only the places of the strings are computed.                            *)
(***************************************************************************)
EXTENDS Integers, Sequences, FiniteSets

\* A small machine.
PGSIZE == 24
Word   == 4
Base   == 48  \* USTACKTOP - PGSIZE

RoundDownTo(n, d) == n - (n % d)

-----------------------------------------------------------------------------
(***************************************************************************)
(* init_stack.                                                             *)
(***************************************************************************)
\* The bytes of the first k strings, each with the byte that ends it.
StringSize(lens, k) ==
    LET Size[i \in 0..Len(lens)] == IF i = 0 THEN 0 ELSE Size[i - 1] + lens[i] + 1 IN Size[k]

\* Addresses as the child sees them (UTEMP2USTACK).
init_stack(lens) ==
    LET argc == Len(lens)
        string_store == Base + PGSIZE - StringSize(lens, argc)
        argv_store == RoundDownTo(string_store, Word) - Word * (argc + 1)
        sp == argv_store - 2 * Word
    IN  IF sp < Base THEN [ok |-> FALSE]
        ELSE [ok |-> TRUE, init_esp |-> sp, argc |-> argc, argv |-> argv_store,
              strings |-> [i \in 1..argc |-> string_store + StringSize(lens, i - 1)]]

\* The arguments fill the top of the page: the words of argc, argv and the array with
\* its null pointer, then the strings, nothing on top of anything else; it fails when
\* they take more than a page (spawn.c:189-275).
Bytes(from, n) == from..from + n - 1
ASSUME StackHoldsArguments ==
    \A lens \in UNION {[1..n -> 0..5] : n \in 0..3} :
        LET s == init_stack(lens)
            string(i) == Bytes(s.strings[i], lens[i] + 1)
            used == Bytes(s.init_esp, Word * (Len(lens) + 3))
            all == StringSize(lens, Len(lens))
        IN  IF s.ok
            THEN /\ s.init_esp % Word = 0 /\ s.argv = s.init_esp + 2 * Word
                 /\ used \cup UNION {string(i) : i \in DOMAIN lens} \subseteq Bytes(Base, PGSIZE)
                 /\ \A i \in DOMAIN lens : string(i) \cap used = {} /\ \A j \in 1..i - 1 : string(i) \cap string(j) = {}
            ELSE Word * (Len(lens) + 3) + RoundDownTo(all + Word - 1, Word) > PGSIZE

-----------------------------------------------------------------------------
(***************************************************************************)
(* map_segment.                                                            *)
(***************************************************************************)
SegPage == 4  \* the bytes of a page of a segment

\* The bytes that the child finds at the addresses of a segment.  A fresh page is
\* clear; readn stops at the end of the file.
map_segment(file, va, memsz, filesz, fileoffset) ==
    LET i == va % SegPage
        base == va - i
        inFile == filesz + i
        PageOf(n) == RoundDownTo(n, SegPage)
        Filled(p) == IF p >= inFile THEN 0 ELSE IF SegPage < inFile - p THEN SegPage ELSE inFile - p
        Byte(n) ==
            LET at == fileoffset - i + n IN
            IF n - PageOf(n) < Filled(PageOf(n)) /\ at < Len(file) THEN file[at + 1] ELSE 0
    IN  [a \in base..base + PageOf(memsz + i + SegPage - 1) - 1 |-> Byte(a - base)]

\* The child finds in a segment the bytes of the file, then zeroes, up to the size that
\* it has in memory (spawn.c:278-319); the linker places va and offset alike in a page.
ASSUME SegmentIsLoaded ==
    \A size \in 0..9, va \in 0..7, offset \in 0..7, memsz \in 1..9, filesz \in 0..9 :
        offset % SegPage = va % SegPage /\ filesz <= memsz =>
            LET file == [i \in 1..size |-> i]
                mem == map_segment(file, va, memsz, filesz, offset)
            IN  \A k \in 0..memsz - 1 :
                    mem[va + k] = IF k < filesz /\ offset + k < size THEN offset + k + 1 ELSE 0
=============================================================================
