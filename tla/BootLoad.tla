------------------------------- MODULE BootLoad -------------------------------
(***************************************************************************)
(* The boot loader (boot/main.c): the segments of the kernel, read from    *)
(* the disk by whole sectors.  The image begins in sector 1; byte n of it  *)
(* is n, and whatever lies behind it on the disk has numbers as well.      *)
(***************************************************************************)
EXTENDS Integers, Sequences

SECTSIZE == 4

\* Sector s of the disk, of which sector 0 is the loader.
Sector(s) == [i \in 0..SECTSIZE - 1 |-> (s - 1) * SECTSIZE + i]

readseg(mem, pa, count, offset) ==
    LET from == pa - (pa % SECTSIZE)
        sectors == {k \in 0..count + 1 : from + k * SECTSIZE < pa + count}
        sect == (offset \div SECTSIZE) + 1
        Place(a) == (a - from) \div SECTSIZE
    IN  [a \in DOMAIN mem |-> IF a >= from /\ Place(a) \in sectors THEN Sector(sect + Place(a))[(a - from) % SECTSIZE] ELSE mem[a]]

\* The loop over the program headers; p_memsz bytes are read, also those of the bss.
bootmain(mem, segs) ==
    LET Loaded[i \in 0..Len(segs)] ==
          IF i = 0 THEN mem ELSE readseg(Loaded[i - 1], segs[i].pa, segs[i].memsz, segs[i].offset)
    IN  Loaded[Len(segs)]

-----------------------------------------------------------------------------
\* Segments that come in increasing order, and either begin with a sector or go on in
\* memory as in the image, are all in place when the kernel starts, although each of
\* them is read with the sectors at its ends (main.c:69-96).
ASSUME KernelIsLoaded ==
    LET Segment == [pa : 0..11, memsz : 1..5, offset : 0..9]
        mem == [a \in 0..23 |-> -1]
    IN  \A s, t \in Segment :
            LET m == bootmain(mem, <<s, t>>)
                Loaded(x) == \A i \in 0..x.memsz - 1 : m[x.pa + i] = x.offset + i
                Matches(x) == x.pa % SECTSIZE = x.offset % SECTSIZE
            IN  /\ Matches(s) /\ Matches(t)
                /\ s.pa + s.memsz <= t.pa
                /\ t.pa % SECTSIZE = 0 \/ t.pa - t.offset = s.pa - s.offset
                => Loaded(s) /\ Loaded(t)
=============================================================================
