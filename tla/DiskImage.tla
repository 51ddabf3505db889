------------------------------ MODULE DiskImage ------------------------------
(***************************************************************************)
(* fsformat (fs/fsformat.c): the image on which the file system starts.    *)
(* Sizes are in words; files are known by their place in the argument list *)
(* and hold <<"data", file, k>> in their block k.                          *)
(***************************************************************************)
EXTENDS Integers, Sequences, FiniteSets

\* A small disk.
BLKSIZE      == 4               \* words, and block numbers, to a block
FileSize     == 2               \* sizeof(struct File)
NDIRECT      == 2
MAXFILESIZE  == (NDIRECT + BLKSIZE) * BLKSIZE
MAX_DIR_ENTS == 3

\* ROUNDUP of fsformat.c, where -1 % v is -1 for an int and v - 1 for a uint32_t.
RoundUpInt(n)  == n - 1 + BLKSIZE - (IF n = 0 THEN -1 ELSE (n - 1) % BLKSIZE)
RoundUpUint(n) == n - 1 + BLKSIZE - ((n - 1) % BLKSIZE)

\* The struct File that malloc, or the new image, gives: this program frees nothing, so
\* that its memory is clear.
NewFile == [size |-> 0, direct |-> [k \in 0..NDIRECT - 1 |-> 0], ind |-> 0]

\* The image while it is written: diskpos as a block, what the blocks hold, the root
\* directory and its entries.
Start(n) == [ok |-> TRUE, nblocks |-> n, pos |-> 0, holds |-> <<>>, root |-> NewFile, ents |-> <<>>, free |-> {}]
Panics(d) == [d EXCEPT !.ok = FALSE]

alloc(d, words) ==
    LET pos == d.pos + RoundUpUint(words) \div BLKSIZE
    IN  IF ~d.ok \/ pos >= d.nblocks THEN Panics(d) ELSE [d EXCEPT !.pos = pos]

\* What is put in the blocks from first on.
Put(d, first, what) ==
    [d EXCEPT !.holds = [b \in (DOMAIN @) \cup (first..first + Len(what) - 1) |-> IF b \in DOMAIN @ THEN @[b] ELSE what[b - first + 1]]]

opendisk(n) ==
    LET d == alloc(alloc(alloc(Start(n), BLKSIZE), BLKSIZE), BLKSIZE)
    IN  Put(d, 0, << <<"boot">>, <<"super">>, <<"bitmap">> >>)

\* The disk and the file; an indirect block is taken as soon as all direct ones are used.
finishfile(d, f, start, len) ==
    LET n == RoundUpUint(len) \div BLKSIZE
        direct == [f EXCEPT !.size = len, !.direct = [k \in 0..NDIRECT - 1 |-> IF k < n THEN start + k ELSE @[k]]]
        more == alloc(d, BLKSIZE)
        words == [k \in 0..BLKSIZE - 1 |-> IF NDIRECT + k < n THEN start + NDIRECT + k ELSE 0]
    IN  IF n < NDIRECT THEN [d |-> d, f |-> direct]
        ELSE [d |-> Put(more, d.pos, << <<"ind", words>> >>), f |-> [direct EXCEPT !.ind = d.pos]]

writefile(d, size) ==
    LET file == Len(d.ents) + 1
        n == RoundUpUint(size) \div BLKSIZE
        data == Put(alloc(d, size), d.pos, [k \in 1..n |-> <<"data", file, k - 1>>])
        done == finishfile(data, NewFile, d.pos, size)
    IN  IF size >= MAXFILESIZE \/ file > MAX_DIR_ENTS \/ ~d.ok THEN Panics(d)
        ELSE [done.d EXCEPT !.ents = Append(@, done.f)]

finishdir(d) ==
    LET size == Len(d.ents) * FileSize
        n == RoundUpUint(size) \div BLKSIZE
        dir == Put(alloc(d, size), d.pos, [k \in 1..n |-> <<"dir", k - 1>>])
        done == finishfile(dir, NewFile, d.pos, RoundUpInt(size))
    IN  [done.d EXCEPT !.root = done.f]

finishdisk(d) == [d EXCEPT !.free = {b \in 0..d.nblocks - 1 : b >= d.pos}]

fsformat(n, sizes) ==
    LET Written[i \in 0..Len(sizes)] == IF i = 0 THEN opendisk(n) ELSE writefile(Written[i - 1], sizes[i])
    IN  finishdisk(finishdir(Written[Len(sizes)]))

-----------------------------------------------------------------------------
Blocks(len) == (len + BLKSIZE - 1) \div BLKSIZE

\* Block k of a file, and all its blocks, as fs.c finds them (file_block_walk).
BlockOf(d, f, k) == IF k < NDIRECT THEN f.direct[k] ELSE d.holds[f.ind][2][k - NDIRECT]
Owned(d, f) == {BlockOf(d, f, k) : k \in 0..Blocks(f.size) - 1} \cup (IF f.ind = 0 THEN {} ELSE {f.ind})

\* The image is one that the file system may start from: every block of a file, of the
\* directory and of the metadata is in use and has one owner, the files hold what was
\* read into them, and every block that is not free belongs to somebody (finishdisk).
\* With no file at all, the directory is given a block that is free (fsformat.c:175).
ASSUME ImageIsConsistent ==
    \A n \in 2..22, sizes \in UNION {[1..m -> {0, 1, 4, 5, 8, 9, 13, 24}] : m \in 1..4} :
        LET d == fsformat(n, sizes)
            files == <<d.root>> \o d.ents
        IN  d.ok =>
              /\ \A i \in DOMAIN sizes : /\ d.ents[i].size = sizes[i]
                                         /\ \A k \in 0..Blocks(sizes[i]) - 1 : d.holds[BlockOf(d, d.ents[i], k)] = <<"data", i, k>>
              /\ \A k \in 0..Blocks(d.root.size) - 1 : d.holds[BlockOf(d, d.root, k)] = <<"dir", k>>
              /\ Blocks(d.root.size) * BLKSIZE >= FileSize * Len(sizes)
              /\ \A i \in DOMAIN files : /\ Cardinality(Owned(d, files[i])) = Blocks(files[i].size) + (IF files[i].ind = 0 THEN 0 ELSE 1)
                                         /\ \A j \in 1..i - 1 : Owned(d, files[i]) \cap Owned(d, files[j]) = {}
              /\ UNION {Owned(d, files[i]) : i \in DOMAIN files} = (3..n - 1) \ d.free

\* It is made exactly when the files fit and leave a block over (fsformat.c:86).
ASSUME ImageFits ==
    \A n \in 2..22, sizes \in UNION {[1..m -> {0, 1, 4, 5, 8, 9, 13, 24}] : m \in 1..4} :
        LET Room(len) == Blocks(len) + (IF Blocks(len) >= NDIRECT THEN 1 ELSE 0)
            Sum[i \in 0..Len(sizes)] == IF i = 0 THEN 0 ELSE Sum[i - 1] + Room(sizes[i])
        IN  fsformat(n, sizes).ok <=> /\ \A i \in DOMAIN sizes : sizes[i] < MAXFILESIZE
                                      /\ Len(sizes) <= MAX_DIR_ENTS
                                      /\ 3 + Sum[Len(sizes)] + Room(FileSize * Len(sizes)) < n
=============================================================================
