------------------------------ MODULE BlockFs ------------------------------
(***************************************************************************)
(* The file system of JOS on one disk: the block cache (tp-parte4/fs/bc.c) *)
(* and the files, the bitmap of free blocks and the directory of fs.c.     *)
(* The file server runs one request at a time; the machine may stop        *)
(* between any two writes to the disk and start again from what is there.  *)
(*                                                                         *)
(* A block holds one word: of a data block the contents, of an indirect    *)
(* block one block number, and nothing tells the two apart.  The bitmap is *)
(* one block (2), the files of the root directory are in another; the boot *)
(* block and the super block never change.  Sizes are counted in blocks;   *)
(* a size may pass the last block that a file can have (bound: by one).    *)
(***************************************************************************)
EXTENDS Naturals, FiniteSets

CONSTANTS
    Files,       \* entries of the root directory
    Blocks,      \* block numbers of the data region
    BITMAP, DIR, \* the blocks of the bitmap and of the directory
    NDirect,     \* NDIRECT; one more block is reached through the indirect block
    Values,      \* the words that programs write
    MaxCrashes,  \* bound: crashes
    NONE

Offsets == 0..NDirect            \* the blocks that a file can have
Asked == 0..(NDirect + 1)        \* the blocks that are asked for: the last is out of range
Sizes == 0..(NDirect + 2)
All == Blocks \cup {BITMAP, DIR}
Words == Values \cup Blocks \cup {0}

ASSUME BlockAssumption == /\ IsFiniteSet(Blocks) /\ All \subseteq Nat \ {0}
                          /\ BITMAP # DIR /\ BITMAP \notin Blocks /\ DIR \notin Blocks
ASSUME NumAssumption   == NDirect \in Nat /\ MaxCrashes \in Nat /\ Values \subseteq Nat
ASSUME OtherAssumption == IsFiniteSet(Files) /\ NONE \notin Words

VARIABLES
    fs,       \* the disk and the block cache: see Storage
    op,       \* the request in progress, and how far it is
    written,  \* written[f][k]: what the programs wrote there last, or NONE (history)
    saved,    \* the same, as far as it was written to disk since (history)
    broken,   \* the metadata in use is wrong, and why: nothing is claimed afterwards
    crashes   \* crashes so far

vars == <<fs, op, written, saved, broken, crashes>>

Inodes   == [used : BOOLEAN, size : Sizes, direct : [0..(NDirect - 1) -> Words], ind : Words]
Contents(b) == IF b = BITMAP THEN SUBSET Blocks ELSE IF b = DIR THEN [Files -> Inodes] ELSE Words
NoFile   == [used |-> FALSE, size |-> 0, direct |-> [k \in 0..(NDirect - 1) |-> 0], ind |-> 0]
NoOp     == [kind |-> "none", f |-> NONE, k |-> 0, v |-> 0, at |-> "idle"]
Nothing  == [f \in Files |-> [k \in Offsets |-> NONE]]

TypeOK ==
    /\ DOMAIN fs = {"disk", "mem", "cached", "dirty"} /\ fs.dirty \subseteq fs.cached /\ fs.cached \subseteq All
    /\ \A b \in All : fs.disk[b] \in Contents(b)        \* the sectors
    /\ \A b \in fs.cached : fs.mem[b] \in Contents(b)   \* the pages at DISKMAP that are mapped
    /\ op \in [kind : {"none", "read", "write", "size", "flush", "sync"}, f : Files \cup {NONE}, k : Nat,
               v : Values \cup {0}, at : {"idle", "walk", "block", "cut", "data", "indirect"}]
    /\ written \in [Files -> [Offsets -> Values \cup {NONE}]]
    /\ saved \in [Files -> [Offsets -> Values \cup {NONE}]]
    /\ broken \in {"no", "stale", "crash"} /\ crashes \in 0..MaxCrashes

-----------------------------------------------------------------------------
(***************************************************************************)
(* bc.c.  A block is read when it is touched, and never leaves the cache.  *)
(***************************************************************************)
Seen(s, b) == IF b \in s.cached THEN s.mem[b] ELSE s.disk[b]
bc_pgfault(s, b) ==
    IF b \in s.cached THEN s ELSE [s EXCEPT !.cached = @ \cup {b}, !.mem[b] = s.disk[b]]
\* Mutant: the block is written without having been read.
Store_NotRead(s, b, x) == [s EXCEPT !.mem[b] = x, !.dirty = @ \cup {b}]
Store(s, b, x) == [bc_pgfault(s, b) EXCEPT !.mem[b] = x, !.dirty = @ \cup {b}]

\* Mutant: the page is marked clean, the block is not written.
flush_block_NoWrite(s, b) == [s EXCEPT !.dirty = @ \ {b}]
flush_block(s, b) ==
    IF b \in s.dirty THEN [s EXCEPT !.disk[b] = s.mem[b], !.dirty = @ \ {b}] ELSE s

-----------------------------------------------------------------------------
(***************************************************************************)
(* fs.c, on a storage s.                                                   *)
(***************************************************************************)
FreeBlocks(s) == Seen(s, BITMAP)
First(s) == CHOOSE b \in FreeBlocks(s) : \A c \in FreeBlocks(s) : b <= c
free_block(s, b) == Store(s, BITMAP, FreeBlocks(s) \cup {b})

\* Takes the first free block, and flushes that block (not the bitmap).
\* Mutant: the bit stays set.
alloc_block_KeepsBit(s) == flush_block(s, First(s))
alloc_block(s) == flush_block(Store(s, BITMAP, FreeBlocks(s) \ {First(s)}), First(s))

Inode(s, f) == Seen(s, DIR)[f]
SetInode(s, f, i) == Store(s, DIR, [Seen(s, DIR) EXCEPT ![f] = i])

\* The block number slot of block k of f: 0 when there is none yet.
Slot(s, f, k) == IF k < NDirect THEN Inode(s, f).direct[k]
                 ELSE IF Inode(s, f).ind = 0 THEN 0 ELSE Seen(s, Inode(s, f).ind)
SetSlot(s, f, k, b) == IF k < NDirect THEN SetInode(s, f, [Inode(s, f) EXCEPT !.direct[k] = b])
                       ELSE Store(s, Inode(s, f).ind, b)

\* file_block_walk flushes the indirect block whenever it goes through it; it
\* fails beyond the last block (-E_INVAL).
Walked(s, f, k) == IF k = NDirect /\ Inode(s, f).ind # 0
                   THEN flush_block(bc_pgfault(s, Inode(s, f).ind), Inode(s, f).ind) ELSE s

file_free_block(s, f, k) ==
    LET w == Walked(s, f, k)  b == Slot(w, f, k) IN
    IF k \notin Offsets \/ b = 0 THEN w ELSE SetSlot(free_block(w, b), f, k, 0)

\* The storage before each block k when the blocks from newsize up are freed.
Freeing(s, f, newsize) ==
    LET freed[k \in Sizes] ==
            IF k <= newsize THEN s ELSE file_free_block(freed[k - 1], f, k - 1)
    IN  freed

\* The blocks from newsize up, and the indirect block with the last of them.
\* Mutant: the number of the indirect block stays in the file.
file_truncate_blocks_KeepsInd(s, f, newsize) ==
    LET t == Freeing(s, f, newsize)[Inode(s, f).size]
    IN  IF newsize <= NDirect /\ Inode(t, f).ind # 0 THEN free_block(t, Inode(t, f).ind) ELSE t
file_truncate_blocks(s, f, newsize) ==
    LET t == Freeing(s, f, newsize)[Inode(s, f).size]
    IN  IF newsize <= NDirect /\ Inode(t, f).ind # 0
        THEN SetInode(free_block(t, Inode(t, f).ind), f, [Inode(t, f) EXCEPT !.ind = 0])
        ELSE t

file_set_size(s, f, n) ==
    LET t == IF n < Inode(s, f).size THEN file_truncate_blocks(s, f, n) ELSE s
    IN  flush_block(SetInode(t, f, [Inode(t, f) EXCEPT !.size = n]), DIR)

\* file_write extends the file first.
Extended(s, f, k) == IF k >= Inode(s, f).size THEN file_set_size(s, f, k + 1) ELSE s

-----------------------------------------------------------------------------
(***************************************************************************)
(* The blocks that files refer to.                                         *)
(***************************************************************************)
Places == Files \X (0..(NDirect + 1))    \* the last is the place of the indirect block
BlockAt(s, p) == IF p[2] > NDirect THEN Inode(s, p[1]).ind ELSE Slot(s, p[1], p[2])
Sound(s) ==
    /\ \A p \in Places : BlockAt(s, p) \in (Blocks \ FreeBlocks(s)) \cup {0}
    /\ \A p, q \in Places : BlockAt(s, p) # 0 /\ BlockAt(s, p) = BlockAt(s, q) => p = q

-----------------------------------------------------------------------------
(***************************************************************************)
(* Requests.                                                               *)
(***************************************************************************)
Init ==
    /\ LET disk == [b \in All |-> IF b = BITMAP THEN Blocks ELSE IF b = DIR THEN [f \in Files |-> NoFile] ELSE 0]
       IN  fs = [disk |-> disk, mem |-> [b \in All |-> 0], cached |-> {}, dirty |-> {}]
    /\ op = NoOp /\ written = Nothing /\ saved = Nothing /\ broken = "no" /\ crashes = 0

Ready == broken = "no" /\ op = NoOp
Working(kind, at) == broken = "no" /\ op.kind = kind /\ op.at = at
Goto(at) == op' = [op EXCEPT !.at = at]
Forget(g, f, K) == [g EXCEPT ![f] = [k \in Offsets |-> IF k \in K THEN NONE ELSE @[k]]]

\* file_create; the flush of the directory writes its block.
file_create(f) ==
    /\ Ready /\ ~Inode(fs, f).used
    /\ fs' = flush_block(SetInode(fs, f, [Inode(fs, f) EXCEPT !.used = TRUE]), DIR)
    /\ UNCHANGED <<op, written, saved, broken, crashes>>

\* A truncation that walks to a dirty indirect block writes it before the
\* directory, and the machine may stop in between; memory, which is then lost,
\* changes with the second step.
serve_set_size(f, n) ==
    LET early == n <= NDirect /\ NDirect < Inode(fs, f).size /\ Inode(fs, f).ind \in fs.dirty IN
    /\ Ready /\ Inode(fs, f).used
    /\ \/ /\ early /\ fs' = Walked(fs, f, NDirect)
          /\ op' = [NoOp EXCEPT !.kind = "size", !.f = f, !.k = n, !.at = "cut"]
       \/ ~early /\ fs' = file_set_size(fs, f, n) /\ op' = NoOp
    /\ written' = Forget(written, f, n..NDirect) /\ saved' = Forget(saved, f, n..NDirect)
    /\ UNCHANGED <<broken, crashes>>

set_size ==
    /\ Working("size", "cut")
    /\ fs' = file_set_size(fs, op.f, op.k) /\ op' = NoOp
    /\ UNCHANGED <<written, saved, broken, crashes>>

\* A write extends the file first, even when it is out of range; a read stops at
\* its end.
serve_write(f, k, v) ==
    /\ Ready /\ Inode(fs, f).used
    /\ fs' = Extended(fs, f, k)
    /\ op' = [kind |-> "write", f |-> f, k |-> k, v |-> v, at |-> "walk"]
    /\ saved' = Forget(saved, f, {k})
    /\ UNCHANGED <<written, broken, crashes>>

serve_read(f, k) ==
    /\ Ready /\ k < Inode(fs, f).size
    /\ op' = [kind |-> "read", f |-> f, k |-> k, v |-> 0, at |-> "walk"]
    /\ UNCHANGED <<fs, written, saved, broken, crashes>>

\* The indirect block is allocated if need be, and taken as it is: what it held
\* before as a data block is then a block number of this file.
file_block_walk ==
    /\ broken = "no" /\ op.at = "walk"
    /\ \/ op.k \notin Offsets /\ op' = NoOp /\ UNCHANGED <<fs, broken>>
       \/ /\ op.k < NDirect \/ (op.k = NDirect /\ Inode(fs, op.f).ind # 0)
          /\ fs' = Walked(fs, op.f, op.k) /\ Goto("block") /\ UNCHANGED broken
       \/ /\ op.k = NDirect /\ Inode(fs, op.f).ind = 0 /\ FreeBlocks(fs) = {}
          /\ op' = NoOp /\ UNCHANGED <<fs, broken>>
       \/ /\ op.k = NDirect /\ Inode(fs, op.f).ind = 0 /\ FreeBlocks(fs) # {}
          /\ LET s == SetInode(alloc_block(fs), op.f, [Inode(fs, op.f) EXCEPT !.ind = First(fs)])
             IN  /\ fs' = Walked(s, op.f, op.k)
                 /\ broken' = IF Slot(s, op.f, op.k) = 0 THEN "no" ELSE "stale"
          /\ Goto("block")
    /\ UNCHANGED <<written, saved, crashes>>

\* file_get_block allocates a block in any hole, for a read too.
file_get_block ==
    LET f == op.f  k == op.k  hole == Slot(fs, f, k) = 0
        s == IF hole THEN flush_block(SetSlot(alloc_block(fs), f, k, First(fs)), First(fs)) ELSE fs
        b == Slot(s, f, k)
    IN
    /\ broken = "no" /\ op.at = "block"
    /\ \/ hole /\ FreeBlocks(fs) = {} /\ UNCHANGED <<fs, written>>
       \/ (~hole \/ FreeBlocks(fs) # {}) /\ op.kind = "read" /\ fs' = bc_pgfault(s, b) /\ UNCHANGED written
       \/ /\ (~hole \/ FreeBlocks(fs) # {}) /\ op.kind = "write"
          /\ fs' = Store(s, b, op.v) /\ written' = [written EXCEPT ![f][k] = op.v]
    /\ op' = NoOp
    /\ UNCHANGED <<saved, broken, crashes>>

\* file_flush: the data blocks, then the file, then its indirect block.
serve_flush(f) ==
    /\ Ready /\ Inode(fs, f).used
    /\ op' = [NoOp EXCEPT !.kind = "flush", !.f = f, !.at = "data"]
    /\ UNCHANGED <<fs, written, saved, broken, crashes>>

\* Mutant: the file itself is not written.
file_flush_NoInode ==
    LET f == op.f  k == op.k IN
    /\ broken = "no" /\ op.kind = "flush"
    /\ \/ /\ op.at = "data" /\ k < Inode(fs, f).size
          /\ LET s == Walked(fs, f, k)
             IN  fs' = IF k \notin Offsets \/ Slot(s, f, k) = 0 THEN s ELSE flush_block(s, Slot(s, f, k))
          /\ op' = [op EXCEPT !.k = k + 1] /\ UNCHANGED saved
       \/ /\ op.at = "data" /\ k = Inode(fs, f).size /\ UNCHANGED fs
          /\ op' = NoOp /\ saved' = [saved EXCEPT ![f] = written[f]]
    /\ UNCHANGED <<written, broken, crashes>>
file_flush ==
    LET f == op.f  k == op.k IN
    /\ broken = "no" /\ op.kind = "flush"
    /\ \/ /\ op.at = "data" /\ k < Inode(fs, f).size
          /\ LET s == Walked(fs, f, k)
             IN  fs' = IF k \notin Offsets \/ Slot(s, f, k) = 0 THEN s ELSE flush_block(s, Slot(s, f, k))
          /\ op' = [op EXCEPT !.k = k + 1] /\ UNCHANGED saved
       \/ op.at = "data" /\ k = Inode(fs, f).size /\ fs' = flush_block(fs, DIR) /\ Goto("indirect") /\ UNCHANGED saved
       \/ /\ op.at = "indirect"
          /\ fs' = IF Inode(fs, f).ind = 0 THEN fs ELSE flush_block(fs, Inode(fs, f).ind)
          /\ op' = NoOp /\ saved' = [saved EXCEPT ![f] = written[f]]
    /\ UNCHANGED <<written, broken, crashes>>

serve_sync ==
    /\ Ready
    /\ op' = [NoOp EXCEPT !.kind = "sync", !.at = "data"]
    /\ UNCHANGED <<fs, written, saved, broken, crashes>>

\* fs_sync: every block from 1 up; a block that is not dirty is not written.
fs_sync ==
    /\ Working("sync", "data")
    /\ \/ /\ fs.dirty # {} /\ UNCHANGED <<op, saved>>
          /\ fs' = flush_block(fs, CHOOSE b \in fs.dirty : \A c \in fs.dirty : b <= c)
       \/ fs.dirty = {} /\ op' = NoOp /\ saved' = written /\ UNCHANGED fs
    /\ UNCHANGED <<written, broken, crashes>>

\* The machine stops and boots again: the cache is lost.  What was saved is
\* expected to be there, unless the disk is inconsistent.
crash ==
    /\ crashes < MaxCrashes /\ broken = "no" /\ crashes' = crashes + 1
    /\ fs' = [fs EXCEPT !.mem = [b \in All |-> 0], !.cached = {}, !.dirty = {}]
    /\ op' = NoOp /\ written' = saved /\ broken' = IF Sound(fs') THEN "no" ELSE "crash"
    /\ UNCHANGED saved

Next ==
    \/ \E f \in Files : file_create(f) \/ serve_flush(f)
    \/ \E f \in Files, n \in Sizes : serve_set_size(f, n)
    \/ \E f \in Files, k \in Asked : serve_read(f, k) \/ \E v \in Values : serve_write(f, k, v)
    \/ set_size \/ file_block_walk \/ file_get_block \/ file_flush \/ serve_sync \/ fs_sync \/ crash

Spec == Init /\ [][Next]_vars

-----------------------------------------------------------------------------
(***************************************************************************)
(* Properties.                                                             *)
(***************************************************************************)
\* A page of the cache that is not marked dirty is equal to its block: flushes
\* and reads leave PTE_D so that no change is ever forgotten (bc.c:63-66, 95-103).
CleanIsOnDisk == \A b \in fs.cached \ fs.dirty : fs.mem[b] = fs.disk[b]

\* The same, and every variable has its type.
CacheOK == TypeOK /\ CleanIsOnDisk

\* Every block number in a file is of a block in use, and in no other place: no
\* two files share a block and bc_pgfault never meets a free one (bc.c:69-73),
\* through writes, truncations, full disks and restarts from a consistent disk.
Ownership == broken = "no" => Sound(fs)

\* What was written last is what a read finds, until the file is cut; after a
\* crash, what fs_sync had written and nobody changed since is still there.
\* Other files may have come, gone or failed halfway in the meantime.
ContentsKept ==
    broken = "no" => \A f \in Files, k \in Offsets :
        written[f][k] # NONE => Slot(fs, f, k) # 0 /\ Seen(fs, Slot(fs, f, k)) = written[f][k]

\* An indirect block starts without block numbers: "Don't forget to clear any
\* block you allocate" (fs.c:141).
FreshIsClear == broken # "stale"

\* A crash leaves no file with a block that the bitmap has free: alloc_block is
\* to "immediately flush the changed bitmap block to disk" (fs.c:52-54).
BitmapBeforeFile == broken # "crash"
=============================================================================
