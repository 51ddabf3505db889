---------------------------- MODULE BlockFsProofs ----------------------------
(***************************************************************************)
(* Theorems about BlockFs, for every number of files, blocks, block        *)
(* numbers in a file, words and crashes.                                   *)
(***************************************************************************)
EXTENDS BlockFs, FiniteSetTheorems, TLAPS

-----------------------------------------------------------------------------
(***************************************************************************)
(* The inductive invariant.                                                *)
(***************************************************************************)
AnyContents == Words \cup (SUBSET Blocks) \cup [Files -> Inodes]
Storage == [disk : [All -> AnyContents], mem : [All -> AnyContents], cached : SUBSET All, dirty : SUBSET All]

\* A storage of the right type whose clean pages are equal to their blocks.
Well(s) ==
    /\ s \in Storage /\ s.dirty \subseteq s.cached
    /\ \A b \in All : s.disk[b] \in Contents(b)
    /\ \A b \in s.cached : s.mem[b] \in Contents(b)
    /\ \A b \in s.cached \ s.dirty : s.mem[b] = s.disk[b]

\* Block k of f holds v.
Reads(s, f, k, v) == k < Inode(s, f).size /\ Slot(s, f, k) # 0 /\ Seen(s, Slot(s, f, k)) = v

\* All that leads to block k of f, and the block, is on the disk as it is seen.
OnDisk(s, f, k) ==
    /\ k < s.disk[DIR][f].size /\ s.disk[Slot(s, f, k)] = Seen(s, Slot(s, f, k))
    /\ k < NDirect => s.disk[DIR][f].direct[k] = Inode(s, f).direct[k]
    /\ k = NDirect => s.disk[DIR][f].ind = Inode(s, f).ind /\ s.disk[Inode(s, f).ind] = Seen(s, Inode(s, f).ind)

KeptOK(f, k) ==
    /\ written[f][k] # NONE => Reads(fs, f, k, written[f][k])
    /\ saved[f][k] # NONE => written[f][k] = saved[f][k] /\ OnDisk(fs, f, k)

\* How far a request is.
OpOK ==
    /\ op.kind = "none" => op = NoOp
    /\ op.kind \in {"read", "write"} =>
         /\ op.f \in Files /\ op.k \in Asked /\ op.at \in {"walk", "block"}
         /\ op.kind = "write" => op.v \in Values /\ (op.k \in Offsets => saved[op.f][op.k] = NONE)
         /\ op.k < Inode(fs, op.f).size
         /\ op.at = "block" => op.k \in Offsets /\ (op.k = NDirect => Inode(fs, op.f).ind # 0)
    /\ op.kind = "size" =>
         /\ op.f \in Files /\ op.k \in Sizes /\ op.at = "cut"
         /\ \A j \in Offsets : j >= op.k => written[op.f][j] = NONE
    /\ op.kind = "flush" =>
         /\ op.f \in Files /\ op.at \in {"data", "indirect"} /\ op.k <= Inode(fs, op.f).size
         /\ op.at # "data" => op.k = Inode(fs, op.f).size
         /\ op.at = "indirect" => DIR \notin fs.dirty
         /\ \A j \in Offsets : j < op.k => Slot(fs, op.f, j) \notin fs.dirty
    /\ op.kind = "sync" => op.at = "data"

OpType == [kind : {"none", "read", "write", "size", "flush", "sync"}, f : Files \cup {NONE}, k : Nat,
           v : Values \cup {0}, at : {"idle", "walk", "block", "cut", "data", "indirect"}]
KeepType == [Files -> [Offsets -> Values \cup {NONE}]]

Inv ==
    /\ Well(fs) /\ op \in OpType /\ written \in KeepType /\ saved \in KeepType
    /\ broken \in {"no", "stale", "crash"} /\ crashes \in 0..MaxCrashes
    /\ broken = "no" => Sound(fs) /\ OpOK /\ \A f \in Files, k \in Offsets : KeptOK(f, k)

-----------------------------------------------------------------------------
(***************************************************************************)
(* The block cache.                                                        *)
(***************************************************************************)
LEMMA Constants ==
  /\ NDirect \in Nat /\ MaxCrashes \in Nat /\ Values \subseteq Nat /\ Blocks \subseteq Nat
  /\ BITMAP \in All /\ DIR \in All /\ Blocks \subseteq All /\ BITMAP # DIR /\ BITMAP \notin Blocks /\ DIR \notin Blocks
  /\ 0 \notin All /\ 0 \notin Blocks /\ All \subseteq Nat
  /\ IsFiniteSet(Blocks) /\ IsFiniteSet(All) /\ NONE \notin Values /\ NONE \notin Blocks /\ NONE # 0
  <1>1. /\ NDirect \in Nat /\ MaxCrashes \in Nat /\ Values \subseteq Nat /\ NONE \notin Values /\ NONE \notin Blocks
        /\ NONE # 0
    BY NumAssumption, OtherAssumption DEF Words
  <1>2. /\ Blocks \subseteq Nat /\ All \subseteq Nat /\ 0 \notin All /\ 0 \notin Blocks /\ BITMAP \in All /\ DIR \in All
        /\ Blocks \subseteq All /\ BITMAP # DIR /\ BITMAP \notin Blocks /\ DIR \notin Blocks
    BY BlockAssumption DEF All
  <1>3. IsFiniteSet(Blocks) /\ IsFiniteSet(All)
    <2>1. All = (Blocks \cup {BITMAP}) \cup {DIR}
      BY DEF All
    <2> QED
      BY <2>1, BlockAssumption, FS_AddElement
  <1> QED
    BY <1>1, <1>2, <1>3

LEMMA ContentsAre ==
  /\ \A b : Contents(b) \subseteq AnyContents
  /\ Contents(BITMAP) = SUBSET Blocks /\ Contents(DIR) = [Files -> Inodes]
  /\ \A b \in Blocks : Contents(b) = Words
  <1>1. ASSUME NEW b PROVE Contents(b) \subseteq AnyContents
    <2>1. \A x \in Words : x \in AnyContents
      BY DEF AnyContents
    <2>2. \A x \in SUBSET Blocks : x \in AnyContents
      BY DEF AnyContents
    <2>3. \A x \in [Files -> Inodes] : x \in AnyContents
      BY Zenon DEF AnyContents
    <2>4. Contents(b) = SUBSET Blocks \/ Contents(b) = [Files -> Inodes] \/ Contents(b) = Words
      BY Zenon DEF Contents
    <2> QED
      BY <2>1, <2>2, <2>3, <2>4, Zenon
  <1>2. Contents(BITMAP) = SUBSET Blocks
    BY DEF Contents
  <1>3. Contents(DIR) = [Files -> Inodes]
    BY Constants DEF Contents
  <1>4. ASSUME NEW b \in Blocks PROVE Contents(b) = Words
    BY Constants DEF Contents
  <1> QED
    BY <1>1, <1>2, <1>3, <1>4

LEMMA SeenIs ==
  ASSUME NEW s, Well(s), NEW b \in All
  PROVE  /\ Seen(s, b) \in Contents(b)
         /\ b \notin s.dirty => s.disk[b] = Seen(s, b)
  BY DEF Well, Seen, Storage

\* What a block is read for.
LEMMA FaultIs ==
  ASSUME NEW s, Well(s), NEW b \in All, NEW t, t = bc_pgfault(s, b)
  PROVE  /\ Well(t) /\ t.disk = s.disk /\ t.dirty = s.dirty /\ b \in t.cached
         /\ \A c \in All : Seen(t, c) = Seen(s, c)
  <1>1. CASE b \in s.cached
    BY <1>1 DEF bc_pgfault
  <1>2. CASE b \notin s.cached
    <2>1. t = [s EXCEPT !.cached = s.cached \cup {b}, !.mem[b] = s.disk[b]]
      BY <1>2 DEF bc_pgfault
    <2>2. s \in Storage /\ s.disk[b] \in Contents(b) /\ s.disk[b] \in AnyContents
      BY ContentsAre DEF Well
    <2>x. PICK x : x = s.disk[b]
      OBVIOUS
    <2>r. PICK r : r = [s EXCEPT !.cached = s.cached \cup {b}]
      OBVIOUS
    <2>m. t = [r EXCEPT !.mem[b] = x] /\ x \in AnyContents
      BY <2>1, <2>2, <2>r, <2>x
    <2>n. /\ r \in Storage /\ r.disk = s.disk /\ r.dirty = s.dirty /\ r.cached = s.cached \cup {b} /\ r.mem = s.mem
      BY <2>2, <2>r DEF Storage
    <2>3. /\ t \in Storage /\ t.disk = s.disk /\ t.dirty = s.dirty /\ t.cached = s.cached \cup {b}
          /\ t.mem[b] = x /\ \A c \in All : c # b => t.mem[c] = s.mem[c]
      BY <2>n, <2>m DEF Storage
    <2>4. s.cached \subseteq All /\ b \notin s.dirty
      BY <1>2, <2>2 DEF Storage, Well
    <2>5. Well(t)
      BY <2>2, <2>3, <2>4, <2>x DEF Well
    <2>6. \A c \in All : Seen(t, c) = Seen(s, c)
      BY <1>2, <2>3, <2>x DEF Seen
    <2> QED
      BY <2>3, <2>5, <2>6
  <1> QED
    BY <1>1, <1>2

LEMMA StoreIs ==
  ASSUME NEW s, Well(s), NEW b \in All, NEW x \in Contents(b), NEW t, t = Store(s, b, x)
  PROVE  /\ Well(t) /\ t.disk = s.disk /\ t.dirty = s.dirty \cup {b} /\ Seen(t, b) = x
         /\ \A c \in All : c # b => Seen(t, c) = Seen(s, c)
  <1>u. PICK u : u = bc_pgfault(s, b)
    OBVIOUS
  <1>1. /\ Well(u) /\ u.disk = s.disk /\ u.dirty = s.dirty /\ b \in u.cached
        /\ \A c \in All : Seen(u, c) = Seen(s, c)
    BY <1>u, FaultIs
  <1>2. t = [u EXCEPT !.mem[b] = x, !.dirty = u.dirty \cup {b}]
    BY <1>u DEF Store
  <1>3. x \in AnyContents /\ u \in Storage
    BY <1>1, ContentsAre DEF Well
  <1>4. /\ t \in Storage /\ t.disk = u.disk /\ t.dirty = u.dirty \cup {b} /\ t.cached = u.cached
        /\ t.mem[b] = x /\ \A c \in All : c # b => t.mem[c] = u.mem[c]
    BY ZenonT(30), <1>2, <1>3 DEF Storage
  <1>5. u.cached \subseteq All
    BY <1>3 DEF Storage
  <1>6. Well(t)
    BY <1>1, <1>4, <1>5 DEF Well
  <1>7. Seen(t, b) = x /\ \A c \in All : c # b => Seen(t, c) = Seen(u, c)
    BY <1>1, <1>4 DEF Seen
  <1> QED
    BY <1>1, <1>4, <1>6, <1>7

LEMMA FlushIs ==
  ASSUME NEW s, Well(s), NEW b \in All, NEW t, t = flush_block(s, b)
  PROVE  /\ Well(t) /\ t.dirty = s.dirty \ {b} /\ t.disk[b] = Seen(s, b)
         /\ \A c \in All : Seen(t, c) = Seen(s, c) /\ (c # b => t.disk[c] = s.disk[c])
  <1>1. CASE b \notin s.dirty
    <2>1. t = s
      BY <1>1 DEF flush_block
    <2> QED
      BY <1>1, <2>1, SeenIs
  <1>2. CASE b \in s.dirty
    <2>1. t = [s EXCEPT !.disk[b] = s.mem[b], !.dirty = s.dirty \ {b}]
      BY <1>2 DEF flush_block
    <2>2. s \in Storage /\ s.mem[b] \in Contents(b) /\ s.mem[b] \in AnyContents
      BY <1>2, ContentsAre DEF Well
    <2>3. /\ t \in Storage /\ t.mem = s.mem /\ t.dirty = s.dirty \ {b} /\ t.cached = s.cached
          /\ t.disk[b] = s.mem[b] /\ \A c \in All : c # b => t.disk[c] = s.disk[c]
      BY ZenonT(30), <2>1, <2>2 DEF Storage
    <2>4. s.cached \subseteq All /\ b \in s.cached
      BY <1>2, <2>2 DEF Storage, Well
    <2>5. Well(t)
      BY <2>2, <2>3, <2>4 DEF Well
    <2>6. \A c \in All : Seen(t, c) = Seen(s, c)
      BY <2>3, <2>4 DEF Seen
    <2>7. t.disk[b] = Seen(s, b)
      BY <2>3, <2>4 DEF Seen
    <2> QED
      BY <2>3, <2>5, <2>6, <2>7
  <1> QED
    BY <1>1, <1>2

-----------------------------------------------------------------------------
(***************************************************************************)
(* The blocks that lead to a block of a file.                              *)
(***************************************************************************)
\* Every block number is of the data region, and in one place.
Apart(s) ==
    /\ \A p \in Places : BlockAt(s, p) \in Blocks \cup {0}
    /\ \A p, q \in Places : BlockAt(s, p) = BlockAt(s, q) /\ BlockAt(s, p) # 0 => p = q

\* Block k of f exists, and the blocks on the way to it.
Rooted(s, f, k) == Slot(s, f, k) \in Blocks /\ (k = NDirect => Inode(s, f).ind \in Blocks)

\* What happens to the storage leaves block k of f where and what it is.
Keeps(s, t, f, k) ==
    /\ Slot(t, f, k) = Slot(s, f, k) /\ Seen(t, Slot(s, f, k)) = Seen(s, Slot(s, f, k))
    /\ k = NDirect => Inode(t, f).ind = Inode(s, f).ind
    /\ k < Inode(s, f).size => k < Inode(t, f).size /\ (OnDisk(s, f, k) => OnDisk(t, f, k))

LEMMA KeepsChain ==
  ASSUME NEW s, NEW t, NEW u, NEW f, NEW k, Keeps(s, t, f, k), Keeps(t, u, f, k)
  PROVE  Keeps(s, u, f, k)
  BY DEF Keeps

LEMMA KeepsRoot ==
  ASSUME NEW s, NEW t, NEW f, NEW k, Keeps(s, t, f, k), Rooted(s, f, k)
  PROVE  Rooted(t, f, k)
  BY DEF Keeps, Rooted

LEMMA ViewTypes ==
  ASSUME NEW s, Well(s)
  PROVE  /\ FreeBlocks(s) \subseteq Blocks
         /\ Seen(s, DIR) \in [Files -> Inodes] /\ \A f \in Files : Inode(s, f) \in Inodes /\ s.disk[DIR][f] \in Inodes
         /\ \A b \in Blocks : Seen(s, b) \in Words
         /\ \A f \in Files, k \in Offsets : Slot(s, f, k) \in Words \/ Inode(s, f).ind \notin Blocks
  <1>1. FreeBlocks(s) \in SUBSET Blocks
    BY SeenIs, ContentsAre, Constants DEF FreeBlocks
  <1>2. Seen(s, DIR) \in [Files -> Inodes] /\ s.disk[DIR] \in [Files -> Inodes]
    BY SeenIs, ContentsAre, Constants DEF Well
  <1>3. \A f \in Files : Inode(s, f) \in Inodes /\ s.disk[DIR][f] \in Inodes
    BY <1>2 DEF Inode
  <1>4. \A b \in Blocks : Seen(s, b) \in Words
    BY SeenIs, ContentsAre, Constants
  <1>5. ASSUME NEW f \in Files, NEW k \in Offsets PROVE Slot(s, f, k) \in Words \/ Inode(s, f).ind \notin Blocks
    <2>1. CASE k < NDirect
      <3>1. k \in 0..(NDirect - 1) /\ Inode(s, f).direct \in [0..(NDirect - 1) -> Words]
        BY <1>3, <2>1, Constants DEF Inodes, Offsets
      <3> QED
        BY <2>1, <3>1 DEF Slot
    <2>2. CASE ~(k < NDirect)
      BY <1>4, <2>2 DEF Slot, Words
    <2> QED
      BY <2>1, <2>2
  <1> QED
    BY <1>1, <1>2, <1>3, <1>4, <1>5

\* The places of a file, one by one.
LEMMA PlaceIs ==
  ASSUME NEW s, NEW f \in Files
  PROVE  /\ \A k \in Offsets : <<f, k>> \in Places /\ BlockAt(s, <<f, k>>) = Slot(s, f, k)
         /\ <<f, NDirect + 1>> \in Places /\ BlockAt(s, <<f, NDirect + 1>>) = Inode(s, f).ind
  BY Constants DEF Places, BlockAt, Offsets

LEMMA PlacesAre ==
  ASSUME NEW p \in Places
  PROVE  \E f \in Files : p = <<f, NDirect + 1>> \/ \E k \in Offsets : p = <<f, k>>
  <1>1. PICK f \in Files, k \in 0..(NDirect + 1) : p = <<f, k>>
    BY DEF Places
  <1>2. k = NDirect + 1 \/ k \in Offsets
    BY Constants DEF Offsets
  <1> QED
    BY <1>1, <1>2

LEMMA SoundApart ==
  ASSUME NEW s, Sound(s) PROVE Apart(s)
  BY DEF Sound, Apart

LEMMA ApartIs ==
  ASSUME NEW s, Apart(s), NEW f \in Files, NEW g \in Files, NEW j \in Offsets, NEW k \in Offsets
  PROVE  /\ Slot(s, f, k) \in Blocks \cup {0} /\ Inode(s, f).ind \in Blocks \cup {0}
         /\ Slot(s, f, k) # 0 => (Slot(s, g, j) = Slot(s, f, k) => g = f /\ j = k) /\ Slot(s, f, k) # Inode(s, g).ind
         /\ Inode(s, f).ind # 0 => (Inode(s, g).ind = Inode(s, f).ind => g = f)
  <1>1. /\ <<f, k>> \in Places /\ BlockAt(s, <<f, k>>) = Slot(s, f, k)
        /\ <<f, NDirect + 1>> \in Places /\ BlockAt(s, <<f, NDirect + 1>>) = Inode(s, f).ind
        /\ <<g, j>> \in Places /\ BlockAt(s, <<g, j>>) = Slot(s, g, j)
        /\ <<g, NDirect + 1>> \in Places /\ BlockAt(s, <<g, NDirect + 1>>) = Inode(s, g).ind
    BY PlaceIs
  <1>2. k # NDirect + 1 /\ <<f, k>> # <<g, NDirect + 1>>
    BY Constants DEF Offsets
  <1>3. \A p, q \in Places : BlockAt(s, p) = BlockAt(s, q) /\ BlockAt(s, p) # 0 => p = q
    BY DEF Apart
  <1>4. Slot(s, f, k) \in Blocks \cup {0} /\ Inode(s, f).ind \in Blocks \cup {0}
    BY <1>1 DEF Apart
  <1>5. Slot(s, f, k) # 0 /\ Slot(s, g, j) = Slot(s, f, k) => <<f, k>> = <<g, j>>
    BY <1>1, <1>3
  <1>6. Slot(s, f, k) # 0 => Slot(s, f, k) # Inode(s, g).ind
    BY <1>1, <1>2, <1>3
  <1>7. Inode(s, f).ind # 0 /\ Inode(s, g).ind = Inode(s, f).ind => <<f, NDirect + 1>> = <<g, NDirect + 1>>
    BY <1>1, <1>3
  <1> QED
    BY <1>4, <1>5, <1>6, <1>7

LEMMA ApartRooted ==
  ASSUME NEW s, Apart(s), NEW f \in Files, NEW k \in Offsets, Slot(s, f, k) # 0
  PROVE  Rooted(s, f, k)
  <1>1. Slot(s, f, k) \in Blocks /\ Inode(s, f).ind \in Blocks \cup {0}
    BY ApartIs
  <1>2. k = NDirect => Inode(s, f).ind # 0
    BY Constants DEF Slot
  <1> QED
    BY <1>1, <1>2 DEF Rooted

\* Block numbers go, and the block b of one of them becomes free.
LEMMA SoundLess ==
  ASSUME NEW s, NEW t, Sound(s), NEW b, FreeBlocks(t) \subseteq FreeBlocks(s) \cup {b},
         \A p \in Places : BlockAt(t, p) \in {BlockAt(s, p), 0} /\ (BlockAt(t, p) # 0 => BlockAt(t, p) # b)
  PROVE  Sound(t)
  <1>1. \A p \in Places : BlockAt(t, p) \in (Blocks \ FreeBlocks(t)) \cup {0}
    BY DEF Sound
  <1>2. \A p, q \in Places : BlockAt(t, p) = BlockAt(t, q) /\ BlockAt(t, p) # 0 => p = q
    <2> SUFFICES ASSUME NEW p \in Places, NEW q \in Places, BlockAt(t, p) = BlockAt(t, q), BlockAt(t, p) # 0 PROVE p = q
      OBVIOUS
    <2>1. BlockAt(s, p) = BlockAt(t, p) /\ BlockAt(s, q) = BlockAt(t, q)
      OBVIOUS
    <2> QED
      BY <2>1 DEF Sound
  <1> QED
    BY <1>1, <1>2 DEF Sound

\* A free block gets its place.
LEMMA SoundMore ==
  ASSUME NEW s, NEW t, Sound(s), NEW b \in FreeBlocks(s), b \in Blocks, FreeBlocks(t) \subseteq FreeBlocks(s) \ {b},
         NEW r \in Places, BlockAt(t, r) = b, \A p \in Places : p # r => BlockAt(t, p) \in {BlockAt(s, p), 0}
  PROVE  Sound(t)
  <1>1. \A p \in Places : BlockAt(t, p) \in (Blocks \ FreeBlocks(t)) \cup {0}
    BY DEF Sound
  <1>2. \A p \in Places : p # r => BlockAt(t, p) # b
    BY Constants DEF Sound
  <1>3. \A p, q \in Places : BlockAt(t, p) = BlockAt(t, q) /\ BlockAt(t, p) # 0 => p = q
    <2> SUFFICES ASSUME NEW p \in Places, NEW q \in Places, BlockAt(t, p) = BlockAt(t, q), BlockAt(t, p) # 0, p # q
                 PROVE  FALSE
      OBVIOUS
    <2>1. p # r /\ q # r
      BY <1>2
    <2>2. BlockAt(s, p) = BlockAt(t, p) /\ BlockAt(s, q) = BlockAt(t, q)
      BY <2>1
    <2> QED
      BY <2>2 DEF Sound
  <1> QED
    BY <1>1, <1>3 DEF Sound

-----------------------------------------------------------------------------
(***************************************************************************)
(* What each operation on a storage keeps.                                 *)
(***************************************************************************)
\* A set of block numbers has a first.
LEMMA LeastExists ==
  ASSUME NEW S, S \subseteq Nat, IsFiniteSet(S), S # {}
  PROVE  \E i \in S : \A j \in S : i <= j
  <1> DEFINE Below(i) == {j \in S : j <= i}
             T == {Below(i) : i \in S}
             R == StrictSubsetOrdering(S)
  <1>1. IsWellFoundedOn(R, FiniteSubsetsOf(S))
    BY FS_StrictSubsetOrderingWellFounded
  <1>2. T \subseteq FiniteSubsetsOf(S) /\ T # {}
    <2>1. FiniteSubsetsOf(S) = SUBSET S
      BY FS_FiniteSubsetsOfFinite
    <2>2. T \subseteq SUBSET S /\ T # {}
      OBVIOUS
    <2> QED
      BY <2>1, <2>2
  <1>3. \E x \in T : \A y \in T : ~(<<y, x>> \in R)
    <2> HIDE DEF T, R
    <2> QED
      BY <1>1, <1>2, WFMin
  <1>4. PICK i \in S : \A j \in S : ~(<<Below(j), Below(i)>> \in R)
    BY <1>3
  <1>5. \A j \in S : i <= j
    <2> SUFFICES ASSUME NEW j \in S, j < i PROVE FALSE
      OBVIOUS
    <2>0. i \in Nat /\ j \in Nat /\ \A k \in S : k \in Nat
      OBVIOUS
    <2>1. Below(j) \subseteq Below(i) /\ i \in Below(i) /\ i \notin Below(j)
      <3>1. ASSUME NEW k \in Below(j) PROVE k \in Below(i)
        <4>1. k \in S /\ k <= j /\ k \in Nat
          BY <2>0
        <4> QED
          BY <2>0, <4>1
      <3>2. i \in Below(i) /\ ~(i <= j)
        BY <2>0
      <3>3. i \notin Below(j)
        BY <3>2
      <3> QED
        BY <3>1, <3>2, <3>3
    <2>2. Below(j) \in SUBSET S /\ Below(i) \in SUBSET S
      OBVIOUS
    <2>3. <<Below(j), Below(i)>> \in R
      <3> HIDE DEF Below
      <3> QED
        BY <2>1, <2>2 DEF StrictSubsetOrdering
    <2> QED
      BY <1>4, <2>3
  <1> QED
    BY <1>5

LEMMA KeepsFault ==
  ASSUME NEW s, Well(s), NEW b \in All, NEW t, t = bc_pgfault(s, b), NEW f, NEW k \in Offsets, Rooted(s, f, k)
  PROVE  Keeps(s, t, f, k)
  <1>1. t.disk = s.disk /\ \A c \in All : Seen(t, c) = Seen(s, c)
    BY FaultIs
  <1>2. Slot(s, f, k) \in All /\ (k = NDirect => Inode(s, f).ind \in All) /\ DIR \in All
    BY Constants DEF Rooted
  <1>3. Inode(t, f) = Inode(s, f)
    BY <1>1, <1>2 DEF Inode
  <1>4. Slot(t, f, k) = Slot(s, f, k)
    <2>1. k = NDirect => Seen(t, Inode(s, f).ind) = Seen(s, Inode(s, f).ind)
      BY <1>1, <1>2
    <2> QED
      BY <1>3, <2>1, Constants DEF Slot, Rooted, Offsets
  <1>5. OnDisk(s, f, k) => OnDisk(t, f, k)
    BY <1>1, <1>2, <1>3, <1>4 DEF OnDisk
  <1> QED
    BY <1>1, <1>2, <1>3, <1>4, <1>5 DEF Keeps

LEMMA KeepsFlush ==
  ASSUME NEW s, Well(s), NEW b \in All, NEW t, t = flush_block(s, b), NEW f, NEW k \in Offsets, Rooted(s, f, k)
  PROVE  Keeps(s, t, f, k)
  <1>1. t.disk[b] = Seen(s, b) /\ \A c \in All : Seen(t, c) = Seen(s, c) /\ (c # b => t.disk[c] = s.disk[c])
    BY FlushIs
  <1>2. Slot(s, f, k) \in All /\ (k = NDirect => Inode(s, f).ind \in All) /\ DIR \in All
    BY Constants DEF Rooted
  <1>3. Inode(t, f) = Inode(s, f)
    BY <1>1, <1>2 DEF Inode
  <1>4. Slot(t, f, k) = Slot(s, f, k)
    <2>1. k = NDirect => Seen(t, Inode(s, f).ind) = Seen(s, Inode(s, f).ind)
      BY <1>1, <1>2
    <2> QED
      BY <1>3, <2>1, Constants DEF Slot, Rooted, Offsets
  <1>5. k < Inode(s, f).size /\ OnDisk(s, f, k) => OnDisk(t, f, k)
    <2> SUFFICES ASSUME k < Inode(s, f).size, OnDisk(s, f, k) PROVE OnDisk(t, f, k)
      OBVIOUS
    <2>1. t.disk[DIR][f] \in {s.disk[DIR][f], Inode(s, f)}
      BY <1>1, <1>2 DEF Inode
    <2>2. t.disk[Slot(s, f, k)] = Seen(s, Slot(s, f, k))
      BY <1>1, <1>2 DEF OnDisk
    <2>3. k = NDirect => t.disk[Inode(s, f).ind] = Seen(s, Inode(s, f).ind)
      BY <1>1, <1>2 DEF OnDisk
    <2>4. k = NDirect => Seen(t, Inode(s, f).ind) = Seen(s, Inode(s, f).ind)
      BY <1>1, <1>2
    <2>5. Seen(t, Slot(s, f, k)) = Seen(s, Slot(s, f, k))
      BY <1>1, <1>2
    <2>6. /\ k < s.disk[DIR][f].size
          /\ k < NDirect => s.disk[DIR][f].direct[k] = Inode(s, f).direct[k]
          /\ k = NDirect => s.disk[DIR][f].ind = Inode(s, f).ind
      BY DEF OnDisk
    <2> QED
      BY <1>3, <1>4, <2>1, <2>2, <2>3, <2>4, <2>5, <2>6 DEF OnDisk
  <1> QED
    BY <1>1, <1>2, <1>3, <1>4, <1>5 DEF Keeps

LEMMA KeepsStore ==
  ASSUME NEW s, Well(s), NEW b \in All, b # DIR, NEW x \in Contents(b), NEW t, t = Store(s, b, x),
         NEW f, NEW k \in Offsets, Rooted(s, f, k), b # Slot(s, f, k), k = NDirect => b # Inode(s, f).ind
  PROVE  Keeps(s, t, f, k)
  <1>1. t.disk = s.disk /\ \A c \in All : c # b => Seen(t, c) = Seen(s, c)
    BY StoreIs
  <1>2. Slot(s, f, k) \in All /\ (k = NDirect => Inode(s, f).ind \in All) /\ DIR \in All
    BY Constants DEF Rooted
  <1>3. Inode(t, f) = Inode(s, f)
    BY <1>1, <1>2 DEF Inode
  <1>4. Slot(t, f, k) = Slot(s, f, k)
    <2>1. k = NDirect => Seen(t, Inode(s, f).ind) = Seen(s, Inode(s, f).ind)
      BY <1>1, <1>2
    <2> QED
      BY <1>3, <2>1, Constants DEF Slot, Rooted, Offsets
  <1>5. OnDisk(s, f, k) => OnDisk(t, f, k)
    BY <1>1, <1>2, <1>3, <1>4 DEF OnDisk
  <1> QED
    BY <1>1, <1>2, <1>3, <1>4, <1>5 DEF Keeps

\* The files are seen as they were.
SameFiles(s, t) == Seen(t, DIR) = Seen(s, DIR) /\ \A p \in Places : BlockAt(t, p) = BlockAt(s, p)

LEMMA Unseen ==
  ASSUME NEW s, NEW t, Apart(s), NEW b \in All, b # DIR, \A f \in Files : b # Inode(s, f).ind,
         \A c \in All : c # b => Seen(t, c) = Seen(s, c)
  PROVE  SameFiles(s, t) /\ \A f \in Files : Inode(t, f) = Inode(s, f)
  <1>1. Seen(t, DIR) = Seen(s, DIR)
    BY Constants
  <1>2. \A f \in Files : Inode(t, f) = Inode(s, f)
    BY <1>1 DEF Inode
  <1>3. ASSUME NEW f \in Files, NEW k \in Offsets PROVE Slot(t, f, k) = Slot(s, f, k)
    <2>1. Inode(s, f).ind \in Blocks \cup {0}
      BY ApartIs, <1>3
    <2>2. Inode(s, f).ind # 0 => Seen(t, Inode(s, f).ind) = Seen(s, Inode(s, f).ind)
      BY <2>1, Constants
    <2> QED
      BY <1>2, <2>2 DEF Slot
  <1>4. ASSUME NEW p \in Places PROVE BlockAt(t, p) = BlockAt(s, p)
    <2>1. PICK f \in Files : p = <<f, NDirect + 1>> \/ \E k \in Offsets : p = <<f, k>>
      BY <1>4, PlacesAre
    <2>2. CASE p = <<f, NDirect + 1>>
      <3>1. BlockAt(t, p) = Inode(t, f).ind /\ BlockAt(s, p) = Inode(s, f).ind
        BY <2>2, PlaceIs
      <3> QED
        BY <1>2, <3>1
    <2>3. CASE \E k \in Offsets : p = <<f, k>>
      <3>1. PICK k \in Offsets : p = <<f, k>>
        BY <2>3
      <3>2. BlockAt(t, p) = Slot(t, f, k) /\ BlockAt(s, p) = Slot(s, f, k)
        BY <3>1, PlaceIs
      <3> QED
        BY <1>3, <3>2
    <2> QED
      BY <2>1, <2>2, <2>3
  <1> QED
    BY <1>1, <1>2, <1>4 DEF SameFiles

LEMMA SoundSame ==
  ASSUME NEW s, NEW t, Sound(s), SameFiles(s, t), FreeBlocks(t) \subseteq FreeBlocks(s)
  PROVE  Sound(t)
  BY DEF Sound, SameFiles

\* Every block that a file had in place k of f and in the places of the set P
\* is kept, except that of r.
KeepsAll(s, t, P) == \A f \in Files, k \in Offsets : <<f, k>> \in P /\ Slot(s, f, k) # 0 => Keeps(s, t, f, k)

LEMMA KeepsAllChain ==
  ASSUME NEW s, NEW t, NEW u, NEW P, NEW Q, Apart(s), KeepsAll(s, t, P), KeepsAll(t, u, Q)
  PROVE  KeepsAll(s, u, P \cap Q)
  <1> SUFFICES ASSUME NEW f \in Files, NEW k \in Offsets, <<f, k>> \in P, <<f, k>> \in Q, Slot(s, f, k) # 0
               PROVE  Keeps(s, u, f, k)
    BY DEF KeepsAll
  <1>1. Keeps(s, t, f, k)
    BY DEF KeepsAll
  <1>2. Slot(t, f, k) # 0
    BY <1>1 DEF Keeps
  <1>3. Keeps(t, u, f, k)
    BY <1>2 DEF KeepsAll
  <1> QED
    BY <1>1, <1>3, KeepsChain

\* A flush, a read of a block.
LEMMA FlushKeeps ==
  ASSUME NEW s, Well(s), Apart(s), NEW b \in All, NEW t, t = flush_block(s, b)
  PROVE  /\ Well(t) /\ SameFiles(s, t) /\ (\A f \in Files : Inode(t, f) = Inode(s, f))
         /\ FreeBlocks(t) = FreeBlocks(s) /\ KeepsAll(s, t, Places) /\ t.dirty = s.dirty \ {b}
         /\ \A c \in All : Seen(t, c) = Seen(s, c)
  <1>1. Well(t) /\ t.dirty = s.dirty \ {b} /\ \A c \in All : Seen(t, c) = Seen(s, c)
    BY FlushIs
  <1>2. KeepsAll(s, t, Places)
    BY ApartRooted, KeepsFlush DEF KeepsAll
  <1>3. FreeBlocks(t) = FreeBlocks(s)
    BY <1>1, Constants DEF FreeBlocks
  <1>4. BITMAP # DIR /\ BITMAP \in All /\ \A f \in Files : BITMAP # Inode(s, f).ind
    <2>1. \A f \in Files : Inode(s, f).ind \in Blocks \cup {0}
      BY PlaceIs DEF Apart
    <2> QED
      BY <2>1, Constants
  <1>5. SameFiles(s, t) /\ \A f \in Files : Inode(t, f) = Inode(s, f)
    BY <1>1, <1>4, Unseen
  <1> QED
    BY <1>1, <1>2, <1>3, <1>5

LEMMA FaultKeeps ==
  ASSUME NEW s, Well(s), Apart(s), NEW b \in All, NEW t, t = bc_pgfault(s, b)
  PROVE  /\ Well(t) /\ SameFiles(s, t) /\ (\A f \in Files : Inode(t, f) = Inode(s, f))
         /\ FreeBlocks(t) = FreeBlocks(s) /\ KeepsAll(s, t, Places) /\ t.dirty = s.dirty
         /\ \A c \in All : Seen(t, c) = Seen(s, c)
  <1>1. Well(t) /\ t.dirty = s.dirty /\ \A c \in All : Seen(t, c) = Seen(s, c)
    BY FaultIs
  <1>2. KeepsAll(s, t, Places)
    BY ApartRooted, KeepsFault DEF KeepsAll
  <1>3. FreeBlocks(t) = FreeBlocks(s)
    BY <1>1, Constants DEF FreeBlocks
  <1>4. BITMAP # DIR /\ BITMAP \in All /\ \A f \in Files : BITMAP # Inode(s, f).ind
    <2>1. \A f \in Files : Inode(s, f).ind \in Blocks \cup {0}
      BY PlaceIs DEF Apart
    <2> QED
      BY <2>1, Constants
  <1>5. SameFiles(s, t) /\ \A f \in Files : Inode(t, f) = Inode(s, f)
    BY <1>1, <1>4, Unseen
  <1> QED
    BY <1>1, <1>2, <1>3, <1>5

\* The bitmap becomes F.
LEMMA BitmapKeeps ==
  ASSUME NEW s, Well(s), Apart(s), NEW F \in SUBSET Blocks, NEW t, t = Store(s, BITMAP, F)
  PROVE  /\ Well(t) /\ SameFiles(s, t) /\ (\A f \in Files : Inode(t, f) = Inode(s, f))
         /\ FreeBlocks(t) = F /\ KeepsAll(s, t, Places)
         /\ \A c \in All : c # BITMAP => Seen(t, c) = Seen(s, c)
  <1>0. F \in Contents(BITMAP) /\ BITMAP \in All /\ BITMAP # DIR
    BY ContentsAre, Constants
  <1>1. Well(t) /\ Seen(t, BITMAP) = F /\ \A c \in All : c # BITMAP => Seen(t, c) = Seen(s, c)
    BY <1>0, StoreIs
  <1>2. \A f \in Files, k \in Offsets : Rooted(s, f, k) => BITMAP # Slot(s, f, k) /\ (k = NDirect => BITMAP # Inode(s, f).ind)
    BY Constants DEF Rooted
  <1>3. KeepsAll(s, t, Places)
    BY <1>0, <1>2, ApartRooted, KeepsStore DEF KeepsAll
  <1>4. \A f \in Files : BITMAP # Inode(s, f).ind
    <2>1. \A f \in Files : Inode(s, f).ind \in Blocks \cup {0}
      BY PlaceIs DEF Apart
    <2> QED
      BY <2>1, Constants
  <1>5. SameFiles(s, t) /\ \A f \in Files : Inode(t, f) = Inode(s, f)
    BY <1>0, <1>1, <1>4, Unseen
  <1> QED
    BY <1>1, <1>3, <1>5 DEF FreeBlocks

LEMMA FirstIs ==
  ASSUME NEW s, Well(s), FreeBlocks(s) # {}
  PROVE  First(s) \in FreeBlocks(s) /\ First(s) \in Blocks
  <1>1. FreeBlocks(s) \subseteq Blocks
    BY ViewTypes
  <1>2. FreeBlocks(s) \subseteq Nat /\ IsFiniteSet(FreeBlocks(s))
    BY <1>1, Constants, FS_Subset
  <1>3. \E b \in FreeBlocks(s) : \A c \in FreeBlocks(s) : b <= c
    BY <1>2, LeastExists
  <1> QED
    BY <1>1, <1>3 DEF First

LEMMA AllocKeeps ==
  ASSUME NEW s, Well(s), Apart(s), FreeBlocks(s) # {}, NEW t, t = alloc_block(s)
  PROVE  /\ Well(t) /\ SameFiles(s, t) /\ (\A f \in Files : Inode(t, f) = Inode(s, f))
         /\ FreeBlocks(t) = FreeBlocks(s) \ {First(s)} /\ KeepsAll(s, t, Places)
         /\ \A c \in All : c # BITMAP => Seen(t, c) = Seen(s, c)
  <1>1. First(s) \in Blocks /\ First(s) \in All /\ FreeBlocks(s) \subseteq Blocks
    BY FirstIs, ViewTypes, Constants
  <1>u. PICK u : u = Store(s, BITMAP, FreeBlocks(s) \ {First(s)})
    OBVIOUS
  <1>2. /\ Well(u) /\ SameFiles(s, u) /\ (\A f \in Files : Inode(u, f) = Inode(s, f))
        /\ FreeBlocks(u) = FreeBlocks(s) \ {First(s)} /\ KeepsAll(s, u, Places)
        /\ \A c \in All : c # BITMAP => Seen(u, c) = Seen(s, c)
    <2>1. FreeBlocks(s) \ {First(s)} \in SUBSET Blocks
      BY <1>1
    <2> QED
      BY <2>1, <1>u, BitmapKeeps
  <1>3. t = flush_block(u, First(s)) /\ Apart(u)
    BY <1>u, <1>2 DEF alloc_block, Apart, SameFiles
  <1>4. /\ Well(t) /\ SameFiles(u, t) /\ (\A f \in Files : Inode(t, f) = Inode(u, f))
        /\ FreeBlocks(t) = FreeBlocks(u) /\ KeepsAll(u, t, Places)
        /\ \A c \in All : Seen(t, c) = Seen(u, c)
    BY <1>1, <1>2, <1>3, FlushKeeps
  <1>5. KeepsAll(s, t, Places)
    <2>1. KeepsAll(s, t, Places \cap Places)
      BY <1>2, <1>4, KeepsAllChain
    <2> QED
      BY <2>1
  <1>6. SameFiles(s, t)
    BY <1>2, <1>4 DEF SameFiles
  <1> QED
    BY <1>2, <1>4, <1>5, <1>6

\* The file f becomes i.
LEMMA InodeKeeps ==
  ASSUME NEW s, Well(s), Apart(s), NEW f \in Files, NEW i \in Inodes, i.ind \in Blocks \cup {0}, NEW t, t = SetInode(s, f, i)
  PROVE  /\ Well(t) /\ FreeBlocks(t) = FreeBlocks(s) /\ t.dirty = s.dirty \cup {DIR}
         /\ Inode(t, f) = i /\ (\A g \in Files : g # f => Inode(t, g) = Inode(s, g))
         /\ (\A c \in All : c # DIR => Seen(t, c) = Seen(s, c))
         /\ (\A g \in Files, k \in Offsets : g # f => Slot(t, g, k) = Slot(s, g, k))
         /\ \A k \in Offsets : Slot(t, f, k) = IF k < NDirect THEN i.direct[k] ELSE IF i.ind = 0 THEN 0 ELSE Seen(s, i.ind)
  <1>1. Seen(s, DIR) \in [Files -> Inodes] /\ DIR \in All /\ BITMAP \in All /\ BITMAP # DIR
    BY ViewTypes, Constants
  <1>d. PICK d : d = [Seen(s, DIR) EXCEPT ![f] = i]
    OBVIOUS
  <1>2. d \in [Files -> Inodes] /\ d[f] = i /\ \A g \in Files : g # f => d[g] = Seen(s, DIR)[g]
    BY <1>1, <1>d
  <1>3. t = Store(s, DIR, d) /\ d \in Contents(DIR)
    BY <1>2, <1>d, ContentsAre DEF SetInode
  <1>4. /\ Well(t) /\ t.dirty = s.dirty \cup {DIR} /\ Seen(t, DIR) = d
        /\ \A c \in All : c # DIR => Seen(t, c) = Seen(s, c)
    BY <1>1, <1>3, StoreIs
  <1>5. Inode(t, f) = i /\ \A g \in Files : g # f => Inode(t, g) = Inode(s, g)
    BY <1>2, <1>4 DEF Inode
  <1>6. ASSUME NEW g \in Files, NEW k \in Offsets, g # f PROVE Slot(t, g, k) = Slot(s, g, k)
    <2>1. Inode(s, g).ind \in Blocks \cup {0} /\ Inode(t, g) = Inode(s, g)
      BY ApartIs, <1>5, <1>6
    <2>2. Inode(s, g).ind # 0 => Seen(t, Inode(s, g).ind) = Seen(s, Inode(s, g).ind)
      BY <2>1, <1>4, Constants
    <2> QED
      BY <2>1, <2>2 DEF Slot
  <1>7. i.ind # 0 => Seen(t, i.ind) = Seen(s, i.ind)
    BY <1>4, Constants
  <1>8. \A k \in Offsets : Slot(t, f, k) = IF k < NDirect THEN i.direct[k] ELSE IF i.ind = 0 THEN 0 ELSE Seen(s, i.ind)
    BY <1>5, <1>7 DEF Slot
  <1> QED
    BY <1>1, <1>4, <1>5, <1>6, <1>8 DEF FreeBlocks

LEMMA KeepsInode ==
  ASSUME NEW s, Well(s), Apart(s), NEW f \in Files, NEW i \in Inodes, i.ind \in Blocks \cup {0}, NEW t, t = SetInode(s, f, i),
         NEW g \in Files, NEW k \in Offsets, Slot(s, g, k) # 0,
         g = f => /\ k < NDirect => i.direct[k] = Inode(s, f).direct[k]
                  /\ k = NDirect => i.ind = Inode(s, f).ind
                  /\ k < Inode(s, f).size => k < i.size
  PROVE  Keeps(s, t, g, k)
  <1>0. t.disk = s.disk
    <2>d. PICK d : d = [Seen(s, DIR) EXCEPT ![f] = i]
      OBVIOUS
    <2>1. Seen(s, DIR) \in [Files -> Inodes] /\ DIR \in All
      BY ViewTypes, Constants
    <2>2. t = Store(s, DIR, d) /\ d \in Contents(DIR)
      BY <2>d, <2>1, ContentsAre DEF SetInode
    <2> QED
      BY <2>1, <2>2, StoreIs
  <1>1. /\ Inode(t, f) = i /\ (\A h \in Files : h # f => Inode(t, h) = Inode(s, h))
        /\ (\A c \in All : c # DIR => Seen(t, c) = Seen(s, c))
        /\ (\A h \in Files, j \in Offsets : h # f => Slot(t, h, j) = Slot(s, h, j))
        /\ \A j \in Offsets : Slot(t, f, j) = IF j < NDirect THEN i.direct[j] ELSE IF i.ind = 0 THEN 0 ELSE Seen(s, i.ind)
    BY InodeKeeps
  <1>2. Rooted(s, g, k)
    BY ApartRooted
  <1>3. Seen(t, Slot(s, g, k)) = Seen(s, Slot(s, g, k)) /\ (k = NDirect => Seen(t, Inode(s, g).ind) = Seen(s, Inode(s, g).ind))
    BY <1>1, <1>2, Constants DEF Rooted
  <1>4. k < NDirect \/ k = NDirect
    BY Constants DEF Offsets
  <1>5. Slot(t, g, k) = Slot(s, g, k)
    <2>1. CASE g # f
      BY <1>1, <2>1
    <2>2. CASE g = f /\ k < NDirect
      BY <1>1, <2>2 DEF Slot
    <2>3. CASE g = f /\ k = NDirect
      <3>1. Slot(s, g, k) = Seen(s, i.ind) /\ i.ind # 0
        BY <2>3, Constants DEF Slot
      <3> QED
        BY <1>1, <2>3, <3>1, Constants
    <2> QED
      BY <1>4, <2>1, <2>2, <2>3
  <1>6. /\ k = NDirect => Inode(t, g).ind = Inode(s, g).ind
        /\ k < NDirect => Inode(t, g).direct[k] = Inode(s, g).direct[k]
        /\ k < Inode(s, g).size => k < Inode(t, g).size
    BY <1>1
  <1>7. OnDisk(s, g, k) => OnDisk(t, g, k)
    BY <1>0, <1>3, <1>5, <1>6 DEF OnDisk
  <1> QED
    BY <1>3, <1>5, <1>6, <1>7 DEF Keeps

\* The number of block k of f becomes w.
LEMMA SlotKeeps ==
  ASSUME NEW s, Well(s), Apart(s), NEW f \in Files, NEW k \in Offsets, NEW w \in Words,
         k = NDirect => Inode(s, f).ind # 0, NEW t, t = SetSlot(s, f, k, w)
  PROVE  /\ Well(t) /\ FreeBlocks(t) = FreeBlocks(s) /\ BlockAt(t, <<f, k>>) = w
         /\ (\A g \in Files : Inode(t, g).size = Inode(s, g).size /\ Inode(t, g).ind = Inode(s, g).ind)
         /\ (\A p \in Places : p # <<f, k>> => BlockAt(t, p) = BlockAt(s, p))
         /\ (\A c \in All : c # DIR /\ c # Inode(s, f).ind => Seen(t, c) = Seen(s, c))
         /\ KeepsAll(s, t, Places \ {<<f, k>>})
  <1>0. /\ Inode(s, f) \in Inodes /\ Inode(s, f).ind \in Blocks \cup {0} /\ (k < NDirect \/ k = NDirect)
        /\ BlockAt(t, <<f, k>>) = Slot(t, f, k)
    <2>1. Inode(s, f) \in Inodes
      BY ViewTypes
    <2>2. Inode(s, f).ind \in Blocks \cup {0}
      BY ApartIs
    <2>3. k < NDirect \/ k = NDirect
      BY Constants DEF Offsets
    <2>4. BlockAt(t, <<f, k>>) = Slot(t, f, k)
      BY PlaceIs
    <2> QED
      BY <2>1, <2>2, <2>3, <2>4
  <1>1. CASE k < NDirect
    <2>i. PICK i : i = [Inode(s, f) EXCEPT !.direct[k] = w]
      OBVIOUS
    <2>0. k \in 0..(NDirect - 1)
      BY <1>1, Constants DEF Offsets
    <2>1. /\ i \in Inodes /\ i.size = Inode(s, f).size /\ i.ind = Inode(s, f).ind /\ i.direct[k] = w
          /\ \A j \in 0..(NDirect - 1) : j # k => i.direct[j] = Inode(s, f).direct[j]
      <3>d. PICK d : d = [Inode(s, f).direct EXCEPT ![k] = w]
        OBVIOUS
      <3>1. Inode(s, f).direct \in [0..(NDirect - 1) -> Words]
        BY <1>0 DEF Inodes
      <3>2. d \in [0..(NDirect - 1) -> Words] /\ d[k] = w /\ \A j \in 0..(NDirect - 1) : j # k => d[j] = Inode(s, f).direct[j]
        BY <3>d, <3>1, <2>0
      <3>3. i = [Inode(s, f) EXCEPT !.direct = d]
        BY <2>i, <3>d
      <3> QED
        BY <1>0, <3>2, <3>3 DEF Inodes
    <2>2. t = SetInode(s, f, i)
      BY <1>1, <2>i DEF SetSlot
    <2>3. /\ Well(t) /\ FreeBlocks(t) = FreeBlocks(s)
          /\ Inode(t, f) = i /\ (\A g \in Files : g # f => Inode(t, g) = Inode(s, g))
          /\ (\A c \in All : c # DIR => Seen(t, c) = Seen(s, c))
          /\ (\A g \in Files, j \in Offsets : g # f => Slot(t, g, j) = Slot(s, g, j))
          /\ \A j \in Offsets : Slot(t, f, j) = IF j < NDirect THEN i.direct[j] ELSE IF i.ind = 0 THEN 0 ELSE Seen(s, i.ind)
      BY <1>0, <2>1, <2>2, InodeKeeps
    <2>4. \A g \in Files : Inode(t, g).size = Inode(s, g).size /\ Inode(t, g).ind = Inode(s, g).ind
      BY <2>1, <2>3
    <2>5. ASSUME NEW g \in Files, NEW j \in Offsets, <<g, j>> # <<f, k>> PROVE Slot(t, g, j) = Slot(s, g, j)
      <3>1. CASE g # f
        BY <2>3, <3>1
      <3>2. CASE g = f /\ j < NDirect
        <4>1. j \in 0..(NDirect - 1) /\ j # k
          BY <2>5, <3>2, Constants DEF Offsets
        <4> QED
          BY <2>1, <2>3, <3>2, <4>1 DEF Slot
      <3>3. CASE g = f /\ ~(j < NDirect)
        BY <2>1, <2>3, <3>3 DEF Slot
      <3> QED
        BY <3>1, <3>2, <3>3
    <2>6. ASSUME NEW p \in Places, p # <<f, k>> PROVE BlockAt(t, p) = BlockAt(s, p)
      <3>1. PICK g \in Files : p = <<g, NDirect + 1>> \/ \E j \in Offsets : p = <<g, j>>
        BY PlacesAre
      <3>2. CASE p = <<g, NDirect + 1>>
        BY <2>4, <3>2, PlaceIs
      <3>3. CASE \E j \in Offsets : p = <<g, j>>
        BY ZenonT(30), <2>5, <2>6, <3>3, PlaceIs
      <3> QED
        BY <3>1, <3>2, <3>3
    <2>7. KeepsAll(s, t, Places \ {<<f, k>>})
      <3> SUFFICES ASSUME NEW g \in Files, NEW j \in Offsets, <<g, j>> # <<f, k>>, Slot(s, g, j) # 0 PROVE Keeps(s, t, g, j)
        BY DEF KeepsAll
      <3>1. g = f => /\ j < NDirect => i.direct[j] = Inode(s, f).direct[j]
                     /\ j = NDirect => i.ind = Inode(s, f).ind
                     /\ j < Inode(s, f).size => j < i.size
        <4>1. g = f /\ j < NDirect => j # k /\ j \in 0..(NDirect - 1)
          BY Constants DEF Offsets
        <4> QED
          BY <2>1, <4>1
      <3> QED
        BY <1>0, <2>1, <2>2, <3>1, KeepsInode
    <2> QED
      BY <1>0, <1>1, <2>1, <2>3, <2>4, <2>6, <2>7
  <1>2. CASE k = NDirect
    <2>b. PICK b : b = Inode(s, f).ind
      OBVIOUS
    <2>1. b \in Blocks /\ b \in All /\ b # DIR /\ b # BITMAP /\ w \in Contents(b) /\ b # 0
      BY <1>0, <1>2, <2>b, ContentsAre, Constants
    <2>2. t = Store(s, b, w)
      BY <1>2, <2>b, Constants DEF SetSlot
    <2>3. Well(t) /\ Seen(t, b) = w /\ \A c \in All : c # b => Seen(t, c) = Seen(s, c)
      BY <2>1, <2>2, StoreIs
    <2>4. FreeBlocks(t) = FreeBlocks(s) /\ \A g \in Files : Inode(t, g) = Inode(s, g)
      BY <2>1, <2>3, Constants DEF FreeBlocks, Inode
    <2>5. ASSUME NEW g \in Files, NEW j \in Offsets, <<g, j>> # <<f, k>> PROVE Slot(t, g, j) = Slot(s, g, j)
      <3>1. CASE j < NDirect
        BY <2>4, <3>1 DEF Slot
      <3>2. CASE ~(j < NDirect)
        <4>1. g # f
          BY <1>2, <2>5, <3>2, Constants DEF Offsets
        <4>2. Inode(s, g).ind \in Blocks \cup {0} /\ Inode(s, g).ind # b
          BY <4>1, <2>b, <2>1, ApartIs
        <4>3. Inode(s, g).ind # 0 => Seen(t, Inode(s, g).ind) = Seen(s, Inode(s, g).ind)
          BY <2>3, <4>2, Constants
        <4> QED
          BY <2>4, <4>3 DEF Slot
      <3> QED
        BY <3>1, <3>2
    <2>6. ASSUME NEW p \in Places, p # <<f, k>> PROVE BlockAt(t, p) = BlockAt(s, p)
      <3>1. PICK g \in Files : p = <<g, NDirect + 1>> \/ \E j \in Offsets : p = <<g, j>>
        BY PlacesAre
      <3>2. CASE p = <<g, NDirect + 1>>
        BY <2>4, <3>2, PlaceIs
      <3>3. CASE \E j \in Offsets : p = <<g, j>>
        BY ZenonT(30), <2>5, <2>6, <3>3, PlaceIs
      <3> QED
        BY <3>1, <3>2, <3>3
    <2>7. KeepsAll(s, t, Places \ {<<f, k>>})
      <3> SUFFICES ASSUME NEW g \in Files, NEW j \in Offsets, <<g, j>> # <<f, k>>, Slot(s, g, j) # 0 PROVE Keeps(s, t, g, j)
        BY DEF KeepsAll
      <3>1. b # Slot(s, g, j)
        BY <2>b, ApartIs
      <3>2. j = NDirect => g # f
        BY <1>2
      <3>3. j = NDirect => b # Inode(s, g).ind
        BY <2>b, <2>1, <3>2, ApartIs
      <3>4. Rooted(s, g, j)
        BY ApartRooted
      <3> QED
        BY <2>1, <2>2, <3>1, <3>3, <3>4, KeepsStore
    <2>8. Slot(t, f, k) = w
      BY <1>2, <2>1, <2>3, <2>4, <2>b, Constants DEF Slot
    <2> QED
      BY <1>0, <2>3, <2>4, <2>6, <2>7, <2>8, <2>b
  <1> QED
    BY <1>0, <1>1, <1>2

LEMMA WalkKeeps ==
  ASSUME NEW s, Well(s), Apart(s), NEW f \in Files, NEW k, NEW t, t = Walked(s, f, k)
  PROVE  /\ Well(t) /\ SameFiles(s, t) /\ (\A g \in Files : Inode(t, g) = Inode(s, g))
         /\ FreeBlocks(t) = FreeBlocks(s) /\ KeepsAll(s, t, Places) /\ t.dirty \subseteq s.dirty
         /\ \A c \in All : Seen(t, c) = Seen(s, c)
  <1>1. CASE ~(k = NDirect /\ Inode(s, f).ind # 0)
    <2>1. t = s
      BY <1>1 DEF Walked
    <2> QED
      BY <2>1 DEF SameFiles, KeepsAll, Keeps
  <1>2. CASE k = NDirect /\ Inode(s, f).ind # 0
    <2>b. PICK b : b = Inode(s, f).ind
      OBVIOUS
    <2>1. b \in All
      BY <1>2, <2>b, PlaceIs, Constants DEF Apart
    <2>u. PICK u : u = bc_pgfault(s, b)
      OBVIOUS
    <2>2. /\ Well(u) /\ SameFiles(s, u) /\ (\A g \in Files : Inode(u, g) = Inode(s, g))
          /\ FreeBlocks(u) = FreeBlocks(s) /\ KeepsAll(s, u, Places) /\ u.dirty = s.dirty
          /\ \A c \in All : Seen(u, c) = Seen(s, c)
      BY <2>1, <2>u, FaultKeeps
    <2>3. Apart(u) /\ t = flush_block(u, b)
      BY <1>2, <2>2, <2>u, <2>b DEF Apart, SameFiles, Walked
    <2>4. /\ Well(t) /\ SameFiles(u, t) /\ (\A g \in Files : Inode(t, g) = Inode(u, g))
          /\ FreeBlocks(t) = FreeBlocks(u) /\ KeepsAll(u, t, Places) /\ t.dirty = u.dirty \ {b}
          /\ \A c \in All : Seen(t, c) = Seen(u, c)
      BY <2>1, <2>2, <2>3, FlushKeeps
    <2>5. KeepsAll(s, t, Places)
      <3>1. KeepsAll(s, t, Places \cap Places)
        BY <2>2, <2>4, KeepsAllChain
      <3> QED
        BY <3>1
    <2>6. SameFiles(s, t)
      BY <2>2, <2>4 DEF SameFiles
    <2> QED
      BY <2>2, <2>4, <2>5, <2>6
  <1> QED
    BY <1>1, <1>2

-----------------------------------------------------------------------------
(***************************************************************************)
(* Cutting a file.                                                         *)
(***************************************************************************)
LEMMA FreeBlockKeeps ==
  ASSUME NEW s, Well(s), Apart(s), NEW b \in Blocks, NEW t, t = free_block(s, b)
  PROVE  /\ Well(t) /\ SameFiles(s, t) /\ (\A f \in Files : Inode(t, f) = Inode(s, f))
         /\ FreeBlocks(t) = FreeBlocks(s) \cup {b} /\ KeepsAll(s, t, Places)
  <1>1. FreeBlocks(s) \cup {b} \in SUBSET Blocks
    BY ViewTypes
  <1>2. t = Store(s, BITMAP, FreeBlocks(s) \cup {b})
    BY DEF free_block
  <1> QED
    BY <1>1, <1>2, BitmapKeeps

LEMMA FileFreeKeeps ==
  ASSUME NEW s, Well(s), Sound(s), NEW f \in Files, NEW k \in Offsets, NEW t, t = file_free_block(s, f, k)
  PROVE  /\ Well(t) /\ Sound(t) /\ (\A g \in Files : Inode(t, g).size = Inode(s, g).size)
         /\ KeepsAll(s, t, Places \ {<<f, k>>})
  <1>w. PICK w : w = Walked(s, f, k)
    OBVIOUS
  <1>1. /\ Well(w) /\ SameFiles(s, w) /\ (\A g \in Files : Inode(w, g) = Inode(s, g))
        /\ FreeBlocks(w) = FreeBlocks(s) /\ KeepsAll(s, w, Places)
    BY <1>w, SoundApart, WalkKeeps
  <1>2. Sound(w) /\ Apart(w) /\ Apart(s)
    BY <1>1, SoundSame, SoundApart
  <1>b. PICK b : b = Slot(w, f, k)
    OBVIOUS
  <1>3. CASE b = 0
    <2>1. t = w
      BY <1>3, <1>w, <1>b DEF file_free_block
    <2> QED
      BY <1>1, <1>2, <2>1 DEF KeepsAll
  <1>4. CASE b # 0
    <2>1. b \in Blocks /\ (k = NDirect => Inode(w, f).ind # 0)
      BY <1>2, <1>4, <1>b, ApartRooted, Constants DEF Rooted
    <2>u. PICK u : u = free_block(w, b)
      OBVIOUS
    <2>2. /\ Well(u) /\ SameFiles(w, u) /\ (\A g \in Files : Inode(u, g) = Inode(w, g))
          /\ FreeBlocks(u) = FreeBlocks(w) \cup {b} /\ KeepsAll(w, u, Places)
      BY <1>1, <1>2, <2>1, <2>u, FreeBlockKeeps
    <2>z. PICK z : z = 0
      OBVIOUS
    <2>3. t = SetSlot(u, f, k, z)
      BY <1>4, <1>w, <1>b, <2>u, <2>z DEF file_free_block
    <2>4. Apart(u) /\ z \in Words /\ (k = NDirect => Inode(u, f).ind # 0)
      BY <1>2, <2>1, <2>2, <2>z DEF Apart, SameFiles, Words
    <2>s. /\ Well(t) /\ FreeBlocks(t) = FreeBlocks(u) /\ BlockAt(t, <<f, k>>) = z
          /\ (\A g \in Files : Inode(t, g).size = Inode(u, g).size /\ Inode(t, g).ind = Inode(u, g).ind)
          /\ (\A p \in Places : p # <<f, k>> => BlockAt(t, p) = BlockAt(u, p))
          /\ (\A c \in All : c # DIR /\ c # Inode(u, f).ind => Seen(t, c) = Seen(u, c))
          /\ KeepsAll(u, t, Places \ {<<f, k>>})
      <3>1. Well(u)
        BY <2>2
      <3> HIDE <2>2
      <3> QED
        BY <3>1, <2>3, <2>4, SlotKeeps
    <2>5. /\ Well(t) /\ FreeBlocks(t) = FreeBlocks(u) /\ BlockAt(t, <<f, k>>) = 0
          /\ (\A g \in Files : Inode(t, g).size = Inode(u, g).size)
          /\ (\A p \in Places : p # <<f, k>> => BlockAt(t, p) = BlockAt(u, p))
          /\ KeepsAll(u, t, Places \ {<<f, k>>})
      BY <2>s, <2>z
    <2>6. Sound(t)
      <3>1. FreeBlocks(t) \subseteq FreeBlocks(w) \cup {b}
        BY <2>2, <2>5
      <3>2. <<f, k>> \in Places /\ BlockAt(w, <<f, k>>) = b
        BY <1>b, PlaceIs
      <3>3. ASSUME NEW p \in Places PROVE BlockAt(t, p) \in {BlockAt(w, p), 0} /\ (BlockAt(t, p) # 0 => BlockAt(t, p) # b)
        <4>1. CASE p = <<f, k>>
          BY <2>5, <4>1
        <4>2. CASE p # <<f, k>>
          <5>1. BlockAt(t, p) = BlockAt(w, p)
            BY <2>2, <2>5, <4>2 DEF SameFiles
          <5>2. BlockAt(w, p) = b => p = <<f, k>>
            BY <1>2, <1>4, <3>2 DEF Apart
          <5> QED
            BY <4>2, <5>1, <5>2
        <4> QED
          BY <4>1, <4>2
      <3> QED
        BY <1>2, <3>1, <3>3, SoundLess
    <2>7. KeepsAll(s, t, Places \ {<<f, k>>})
      <3>1. KeepsAll(s, u, Places \cap Places)
        BY <1>1, <1>2, <2>2, KeepsAllChain
      <3>2. KeepsAll(s, t, (Places \cap Places) \cap (Places \ {<<f, k>>}))
        BY <1>2, <2>5, <3>1, KeepsAllChain
      <3>3. (Places \cap Places) \cap (Places \ {<<f, k>>}) = Places \ {<<f, k>>}
        OBVIOUS
      <3> QED
        BY <3>2, <3>3
    <2> QED
      BY <1>1, <2>2, <2>5, <2>6, <2>7
  <1> QED
    BY <1>3, <1>4

\* The storages before each block exist: one defines the next.
LEMMA FreeingIs ==
  ASSUME NEW s, NEW f, NEW n \in Nat
  PROVE  Freeing(s, f, n) = [k \in Sizes |-> IF k <= n THEN s ELSE file_free_block(Freeing(s, f, n)[k - 1], f, k - 1)]
  <1> DEFINE Rec(g, m) == g = [k \in 0..m |-> IF k <= n THEN s ELSE file_free_block(g[k - 1], f, k - 1)]
             S == {m \in Sizes : ~ \E g : Rec(g, m)}
  <1>1. S = {}
    <2> SUFFICES ASSUME S # {} PROVE FALSE
      OBVIOUS
    <2>1. S \subseteq Sizes /\ S \subseteq Nat
      BY Constants DEF Sizes
    <2>2. IsFiniteSet(S)
      <3>1. IsFiniteSet(0..(NDirect + 2))
        BY Constants, FS_Interval
      <3> QED
        BY <2>1, <3>1, FS_Subset DEF Sizes
    <2>3. PICK m \in S : \A j \in S : m <= j
      BY <2>1, <2>2, LeastExists
    <2>4. m # 0
      <3>1. Rec([k \in 0..0 |-> s], 0)
        OBVIOUS
      <3> QED
        BY <3>1
    <2>5. m \in Nat /\ m - 1 \in Sizes /\ m - 1 \notin S
      <3>1. m \in Nat /\ m \in Sizes
        BY <2>1, <2>3
      <3>2. m - 1 \in Sizes /\ m - 1 < m
        BY <2>4, <3>1, Constants DEF Sizes
      <3>3. m - 1 \notin S
        BY <2>1, <2>3, <3>1, <3>2
      <3> QED
        BY <3>1, <3>2, <3>3
    <2>6. PICK g : Rec(g, m - 1)
      BY <2>5
    <2>h. PICK h : h = [k \in 0..m |-> IF k = m THEN IF k <= n THEN s ELSE file_free_block(g[k - 1], f, k - 1) ELSE g[k]]
      OBVIOUS
    <2>7. Rec(h, m)
      <3>1. ASSUME NEW k \in 0..m PROVE h[k] = IF k <= n THEN s ELSE file_free_block(h[k - 1], f, k - 1)
        <4>1. k > n => k - 1 \in 0..m /\ k - 1 # m /\ k - 1 \in 0..(m - 1)
          BY <2>5
        <4>2. k > n => h[k - 1] = g[k - 1]
          BY <2>h, <4>1
        <4>3. CASE k = m
          BY <2>h, <4>2, <4>3, <2>5
        <4>4. CASE k # m
          <5>1. k \in 0..(m - 1)
            BY <2>5, <4>4
          <5>2. g[k] = IF k <= n THEN s ELSE file_free_block(g[k - 1], f, k - 1)
            BY <2>6, <5>1
          <5> QED
            BY <2>h, <4>2, <4>4, <5>2
        <4> QED
          BY <4>3, <4>4
      <3> QED
        BY <2>h, <3>1
    <2> QED
      BY <2>3, <2>7
  <1>2. \E g : Rec(g, NDirect + 2)
    BY <1>1, Constants DEF Sizes
  <1>3. Freeing(s, f, n) = CHOOSE g : Rec(g, NDirect + 2)
    BY DEF Freeing, Sizes
  <1> HIDE DEF Rec
  <1>4. Rec(Freeing(s, f, n), NDirect + 2)
    BY <1>2, <1>3
  <1> QED
    BY <1>4 DEF Rec, Sizes

\* The blocks that stay when f is cut to n blocks.
Staying(f, n) == {p \in Places : p[1] # f \/ p[2] < n}

\* What cutting f to n blocks has done so far.
Cut(s, t, f, n) ==
    /\ Well(t) /\ Sound(t) /\ (\A g \in Files : Inode(t, g).size = Inode(s, g).size)
    /\ KeepsAll(s, t, Staying(f, n))

LEMMA FreeingKeeps ==
  ASSUME NEW s, Well(s), Sound(s), NEW f \in Files, NEW n \in Nat, NEW m \in Sizes
  PROVE  Cut(s, Freeing(s, f, n)[m], f, n)
  <1> DEFINE At(k) == Freeing(s, f, n)[k]
             S == {k \in Sizes : ~Cut(s, At(k), f, n)}
  <1>1. \A k \in Sizes : At(k) = IF k <= n THEN s ELSE file_free_block(At(k - 1), f, k - 1)
    <2>F. PICK F : F = Freeing(s, f, n)
      OBVIOUS
    <2>1. F = [k \in Sizes |-> IF k <= n THEN s ELSE file_free_block(F[k - 1], f, k - 1)]
      BY <2>F, FreeingIs
    <2>2. \A k \in Sizes : F[k] = IF k <= n THEN s ELSE file_free_block(F[k - 1], f, k - 1)
      BY <2>1
    <2> QED
      BY <2>F, <2>2
  <1> HIDE DEF At
  <1>2. Cut(s, s, f, n)
    BY DEF Cut, KeepsAll, Keeps
  <1>3. S = {}
    <2> SUFFICES ASSUME S # {} PROVE FALSE
      OBVIOUS
    <2>1. S \subseteq Sizes /\ S \subseteq Nat
      BY Constants DEF Sizes
    <2>2. IsFiniteSet(S)
      <3>1. IsFiniteSet(0..(NDirect + 2))
        BY Constants, FS_Interval
      <3> QED
        BY <2>1, <3>1, FS_Subset DEF Sizes
    <2>3. PICK k \in S : \A j \in S : k <= j
      BY <2>1, <2>2, LeastExists
    <2>4. k \in Sizes /\ k \in Nat /\ k > n
      BY <1>1, <1>2, <2>1, <2>3
    <2>j. PICK j : j = k - 1
      OBVIOUS
    <2>5. j \in Asked /\ j \in Nat /\ j >= n /\ j \in Sizes /\ j < k
      BY <2>4, <2>j, Constants DEF Asked, Sizes
    <2>u. PICK u : u = At(j)
      OBVIOUS
    <2>t. PICK t : t = At(k)
      OBVIOUS
    <2>6. Cut(s, u, f, n)
      <3>1. j \notin S
        BY <2>3, <2>5, <2>4
      <3> QED
        BY <2>5, <2>u, <3>1
    <2>7. t = file_free_block(u, f, j)
      BY <1>1, <2>4, <2>u, <2>j, <2>t
    <2>8. /\ Well(t) /\ Sound(t) /\ (\A g \in Files : Inode(t, g).size = Inode(u, g).size)
          /\ KeepsAll(u, t, Places \ {<<f, j>>})
      <3>1. CASE j \in Offsets
        BY <2>6, <2>7, <3>1, FileFreeKeeps DEF Cut
      <3>2. CASE j \notin Offsets
        <4>1. j # NDirect
          BY <3>2, Constants DEF Offsets
        <4>2. t = u
          BY <2>7, <3>2, <4>1 DEF file_free_block, Walked
        <4> QED
          BY <2>6, <4>2 DEF Cut, KeepsAll, Keeps
      <3> QED
        BY <3>1, <3>2
    <2>9. KeepsAll(s, t, Staying(f, n))
      <3>1. KeepsAll(s, t, Staying(f, n) \cap (Places \ {<<f, j>>}))
        BY <2>6, <2>8, SoundApart, KeepsAllChain DEF Cut
      <3>2. Staying(f, n) \cap (Places \ {<<f, j>>}) = Staying(f, n)
        <4>1. <<f, j>>[1] = f /\ ~(<<f, j>>[2] < n)
          BY <2>5
        <4>2. <<f, j>> \notin Staying(f, n)
          BY <4>1 DEF Staying
        <4>3. Staying(f, n) \subseteq Places
          BY DEF Staying
        <4> QED
          BY <4>2, <4>3
      <3> QED
        BY <3>1, <3>2
    <2>10. Cut(s, t, f, n)
      BY <2>6, <2>8, <2>9 DEF Cut
    <2> QED
      BY <2>3, <2>10, <2>t
  <1> QED
    BY <1>3 DEF At

LEMMA TruncateKeeps ==
  ASSUME NEW s, Well(s), Sound(s), NEW f \in Files, NEW n \in Nat, NEW t, t = file_truncate_blocks(s, f, n)
  PROVE  Cut(s, t, f, n)
  <1>u. PICK u : u = Freeing(s, f, n)[Inode(s, f).size]
    OBVIOUS
  <1>1. Inode(s, f).size \in Sizes
    <2>1. Inode(s, f) \in Inodes
      BY ViewTypes
    <2> QED
      BY <2>1 DEF Inodes
  <1>2. Cut(s, u, f, n)
    BY <1>u, <1>1, FreeingKeeps
  <1>b. PICK b : b = Inode(u, f).ind
    OBVIOUS
  <1>3. CASE ~(n <= NDirect /\ b # 0)
    BY <1>2, <1>3, <1>u, <1>b DEF file_truncate_blocks
  <1>4. CASE n <= NDirect /\ b # 0
    <2>1. b \in Blocks /\ Apart(u) /\ Well(u) /\ Inode(u, f) \in Inodes
      BY ZenonT(30), <1>2, <1>4, <1>b, SoundApart, PlaceIs, ViewTypes DEF Cut, Apart
    <2>v. PICK v : v = free_block(u, b)
      OBVIOUS
    <2>2. /\ Well(v) /\ SameFiles(u, v) /\ (\A g \in Files : Inode(v, g) = Inode(u, g))
          /\ FreeBlocks(v) = FreeBlocks(u) \cup {b} /\ KeepsAll(u, v, Places)
      BY <2>1, <2>v, FreeBlockKeeps
    <2>i. PICK i : i = [Inode(u, f) EXCEPT !.ind = 0]
      OBVIOUS
    <2>3. i \in Inodes /\ i.ind = 0 /\ i.size = Inode(u, f).size /\ i.direct = Inode(u, f).direct /\ i.ind \in Blocks \cup {0}
      BY <2>1, <2>i DEF Inodes, Words
    <2>4. t = SetInode(v, f, i) /\ Apart(v)
      <3>1. t = SetInode(v, f, i)
        BY <1>4, <1>u, <1>b, <2>v, <2>i DEF file_truncate_blocks
      <3> QED
        BY <2>1, <2>2, <3>1 DEF Apart, SameFiles
    <2>5. /\ Well(t) /\ FreeBlocks(t) = FreeBlocks(v)
          /\ Inode(t, f) = i /\ (\A g \in Files : g # f => Inode(t, g) = Inode(v, g))
          /\ (\A g \in Files, k \in Offsets : g # f => Slot(t, g, k) = Slot(v, g, k))
          /\ \A k \in Offsets : Slot(t, f, k) = IF k < NDirect THEN i.direct[k] ELSE IF i.ind = 0 THEN 0 ELSE Seen(v, i.ind)
      BY <2>2, <2>3, <2>4, InodeKeeps
    <2>6. ASSUME NEW p \in Places PROVE BlockAt(t, p) \in {BlockAt(u, p), 0} /\ (BlockAt(t, p) # 0 => BlockAt(t, p) # b)
      <3>1. BlockAt(t, p) \in {BlockAt(v, p), 0} /\ (p = <<f, NDirect + 1>> => BlockAt(t, p) = 0)
        <4>1. PICK g \in Files : p = <<g, NDirect + 1>> \/ \E j \in Offsets : p = <<g, j>>
          BY PlacesAre
        <4>2. CASE p = <<g, NDirect + 1>>
          BY <2>3, <2>5, <4>2, PlaceIs
        <4>3. CASE \E j \in Offsets : p = <<g, j>>
          <5>1. PICK j \in Offsets : p = <<g, j>>
            BY <4>3
          <5>2. BlockAt(t, p) = Slot(t, g, j) /\ BlockAt(v, p) = Slot(v, g, j) /\ p # <<f, NDirect + 1>>
            <6>1. BlockAt(t, p) = Slot(t, g, j) /\ BlockAt(v, p) = Slot(v, g, j)
              BY <5>1, PlaceIs
            <6>2. j # NDirect + 1
              BY Constants DEF Offsets
            <6> QED
              BY <5>1, <6>1, <6>2
          <5>3. Slot(t, g, j) \in {Slot(v, g, j), 0}
            BY <2>2, <2>3, <2>5 DEF Slot
          <5> QED
            BY <5>2, <5>3
        <4> QED
          BY <4>1, <4>2, <4>3
      <3>2. BlockAt(v, p) = BlockAt(u, p) /\ <<f, NDirect + 1>> \in Places /\ BlockAt(u, <<f, NDirect + 1>>) = b
        BY <2>2, <1>b, PlaceIs DEF SameFiles
      <3>3. BlockAt(u, p) = b => p = <<f, NDirect + 1>>
        BY <1>4, <2>1, <3>2 DEF Apart
      <3> QED
        BY <3>1, <3>2, <3>3
    <2>7. Sound(t)
      <3>1. FreeBlocks(t) \subseteq FreeBlocks(u) \cup {b}
        BY <2>2, <2>5
      <3> QED
        BY <1>2, <2>6, <3>1, SoundLess DEF Cut
    <2>8. KeepsAll(v, t, Staying(f, n))
      <3> SUFFICES ASSUME NEW g \in Files, NEW k \in Offsets, <<g, k>> \in Staying(f, n), Slot(v, g, k) # 0
                   PROVE  Keeps(v, t, g, k)
        BY DEF KeepsAll
      <3>1. g = f => k < n
        BY DEF Staying
      <3>2. g = f => /\ k < NDirect => i.direct[k] = Inode(v, f).direct[k]
                     /\ k = NDirect => i.ind = Inode(v, f).ind
                     /\ k < Inode(v, f).size => k < i.size
        BY <1>4, <2>2, <2>3, <3>1, Constants DEF Offsets
      <3> QED
        BY <2>2, <2>3, <2>4, <3>2, KeepsInode
    <2>9. KeepsAll(s, t, Staying(f, n))
      <3>1. KeepsAll(s, v, Staying(f, n) \cap Places)
        BY <1>2, <2>2, SoundApart, KeepsAllChain DEF Cut
      <3>2. KeepsAll(s, t, (Staying(f, n) \cap Places) \cap Staying(f, n))
        BY <2>8, <3>1, SoundApart, KeepsAllChain
      <3>3. (Staying(f, n) \cap Places) \cap Staying(f, n) = Staying(f, n)
        BY DEF Staying
      <3> QED
        BY <3>2, <3>3
    <2>10. \A g \in Files : Inode(t, g).size = Inode(s, g).size
      BY <1>2, <2>2, <2>3, <2>5 DEF Cut
    <2> QED
      BY <2>5, <2>7, <2>9, <2>10 DEF Cut
  <1> QED
    BY <1>3, <1>4

\* The file f becomes i, with the same blocks, and its directory block is written.
LEMMA InodeStep ==
  ASSUME NEW s, Well(s), Sound(s), NEW f \in Files, NEW i \in Inodes,
         i.direct = Inode(s, f).direct, i.ind = Inode(s, f).ind, NEW t, t = flush_block(SetInode(s, f, i), DIR),
         NEW P, \A k \in Offsets : <<f, k>> \in P /\ k < Inode(s, f).size => k < i.size
  PROVE  Well(t) /\ Sound(t) /\ Inode(t, f) = i /\ KeepsAll(s, t, P)
  <1>0. Apart(s) /\ i.ind \in Blocks \cup {0} /\ DIR \in All
    BY SoundApart, PlaceIs, Constants DEF Apart
  <1>u. PICK u : u = SetInode(s, f, i)
    OBVIOUS
  <1>1. /\ Well(u) /\ FreeBlocks(u) = FreeBlocks(s)
        /\ Inode(u, f) = i /\ (\A g \in Files : g # f => Inode(u, g) = Inode(s, g))
        /\ (\A g \in Files, k \in Offsets : g # f => Slot(u, g, k) = Slot(s, g, k))
        /\ \A k \in Offsets : Slot(u, f, k) = IF k < NDirect THEN i.direct[k] ELSE IF i.ind = 0 THEN 0 ELSE Seen(s, i.ind)
    BY <1>0, <1>u, InodeKeeps
  <1>2. ASSUME NEW p \in Places PROVE BlockAt(u, p) = BlockAt(s, p)
    <2>1. PICK g \in Files : p = <<g, NDirect + 1>> \/ \E j \in Offsets : p = <<g, j>>
      BY PlacesAre
    <2>2. CASE p = <<g, NDirect + 1>>
      <3>1. BlockAt(u, p) = Inode(u, g).ind /\ BlockAt(s, p) = Inode(s, g).ind
        BY <2>2, PlaceIs
      <3> QED
        BY <1>1, <3>1
    <2>3. CASE \E j \in Offsets : p = <<g, j>>
      <3>1. PICK j \in Offsets : p = <<g, j>>
        BY <2>3
      <3>2. BlockAt(u, p) = Slot(u, g, j) /\ BlockAt(s, p) = Slot(s, g, j)
        BY <3>1, PlaceIs
      <3>3. Slot(u, g, j) = Slot(s, g, j)
        BY <1>1 DEF Slot
      <3> QED
        BY <3>2, <3>3
    <2> QED
      BY <2>1, <2>2, <2>3
  <1>3. Sound(u)
    <2>1. FreeBlocks(u) \subseteq FreeBlocks(s) \cup {0}
      BY <1>1
    <2>2. \A p \in Places : BlockAt(u, p) \in {BlockAt(s, p), 0} /\ (BlockAt(u, p) # 0 => BlockAt(u, p) # 0)
      BY <1>2
    <2> QED
      BY <2>1, <2>2, SoundLess
  <1>4. KeepsAll(s, u, P)
    <2> SUFFICES ASSUME NEW g \in Files, NEW k \in Offsets, <<g, k>> \in P, Slot(s, g, k) # 0 PROVE Keeps(s, u, g, k)
      BY DEF KeepsAll
    <2>1. g = f => /\ k < NDirect => i.direct[k] = Inode(s, f).direct[k]
                   /\ k = NDirect => i.ind = Inode(s, f).ind
                   /\ k < Inode(s, f).size => k < i.size
      OBVIOUS
    <2> QED
      BY <1>0, <1>u, <2>1, KeepsInode
  <1>5. /\ Well(t) /\ SameFiles(u, t) /\ (\A g \in Files : Inode(t, g) = Inode(u, g))
        /\ FreeBlocks(t) = FreeBlocks(u) /\ KeepsAll(u, t, Places)
    BY <1>0, <1>u, <1>1, <1>3, SoundApart, FlushKeeps
  <1>6. KeepsAll(s, t, P)
    <2>1. KeepsAll(s, t, P \cap Places)
      BY <1>0, <1>4, <1>5, KeepsAllChain
    <2>2. \A g \in Files, k \in Offsets : <<g, k>> \in Places
      BY PlaceIs
    <2> QED
      BY <2>1, <2>2 DEF KeepsAll
  <1> QED
    BY <1>1, <1>3, <1>5, <1>6, SoundSame

LEMMA SetSizeKeeps ==
  ASSUME NEW s, Well(s), Sound(s), NEW f \in Files, NEW n \in Sizes, NEW t, t = file_set_size(s, f, n)
  PROVE  Well(t) /\ Sound(t) /\ Inode(t, f).size = n /\ KeepsAll(s, t, Staying(f, n))
  <1>0. n \in Nat
    BY Constants DEF Sizes
  <1>u. PICK u : u = IF n < Inode(s, f).size THEN file_truncate_blocks(s, f, n) ELSE s
    OBVIOUS
  <1>1. Cut(s, u, f, n)
    <2>1. CASE n < Inode(s, f).size
      BY <1>0, <1>u, <2>1, TruncateKeeps
    <2>2. CASE ~(n < Inode(s, f).size)
      BY <1>u, <2>2 DEF Cut, KeepsAll, Keeps
    <2> QED
      BY <2>1, <2>2
  <1>i. PICK i : i = [Inode(u, f) EXCEPT !.size = n]
    OBVIOUS
  <1>2. i \in Inodes /\ i.size = n /\ i.direct = Inode(u, f).direct /\ i.ind = Inode(u, f).ind
    <2>1. Inode(u, f) \in Inodes
      BY <1>1, ViewTypes DEF Cut
    <2> QED
      BY <1>i, <2>1 DEF Inodes
  <1>3. t = flush_block(SetInode(u, f, i), DIR)
    BY <1>u, <1>i DEF file_set_size
  <1>4. \A k \in Offsets : <<f, k>> \in Staying(f, n) /\ k < Inode(u, f).size => k < i.size
    BY <1>2 DEF Staying
  <1>5. Well(u) /\ Sound(u)
    BY <1>1 DEF Cut
  <1>6. Well(t) /\ Sound(t) /\ Inode(t, f) = i /\ KeepsAll(u, t, Staying(f, n))
    BY <1>2, <1>3, <1>4, <1>5, InodeStep
  <1>7. KeepsAll(s, t, Staying(f, n))
    <2>1. KeepsAll(s, t, Staying(f, n) \cap Staying(f, n))
      BY <1>1, <1>6, SoundApart, KeepsAllChain DEF Cut
    <2> QED
      BY <2>1
  <1> QED
    BY <1>2, <1>6, <1>7

-----------------------------------------------------------------------------
(***************************************************************************)
(* Each action keeps the invariant.                                        *)
(***************************************************************************)
LEMMA KeptStep ==
  ASSUME NEW f, NEW k, KeptOK(f, k), Slot(fs, f, k) # 0 => Keeps(fs, fs', f, k),
         written'[f][k] = written[f][k], saved'[f][k] = saved[f][k] \/ saved'[f][k] = NONE
  PROVE  KeptOK(f, k)'
  <1>1. CASE written[f][k] = NONE
    <2>1. saved[f][k] = NONE
      BY <1>1 DEF KeptOK
    <2> QED
      BY <1>1, <2>1 DEF KeptOK
  <1>2. CASE written[f][k] # NONE
    <2>1. Reads(fs, f, k, written[f][k])
      BY <1>2 DEF KeptOK
    <2>2. Keeps(fs, fs', f, k) /\ k < Inode(fs, f).size
      BY <2>1 DEF Reads
    <2>3. Reads(fs', f, k, written[f][k])
      BY <2>1, <2>2 DEF Reads, Keeps
    <2>4. saved'[f][k] # NONE => written[f][k] = saved'[f][k] /\ OnDisk(fs', f, k)
      BY <2>2 DEF KeptOK, Keeps
    <2> QED
      BY <2>3, <2>4 DEF KeptOK
  <1> QED
    BY <1>1, <1>2

LEMMA KeptGone ==
  ASSUME NEW f, NEW k, written'[f][k] = NONE, saved'[f][k] = NONE
  PROVE  KeptOK(f, k)'
  BY DEF KeptOK

LEMMA Idle == NoOp \in OpType /\ (op' = NoOp => OpOK')
  <1>1. NoOp \in OpType
    BY DEF NoOp, OpType
  <1>2. op' = NoOp => OpOK'
    BY DEF NoOp, OpOK
  <1> QED
    BY <1>1, <1>2

LEMMA AllKept ==
  ASSUME \A f \in Files, k \in Offsets : KeptOK(f, k), KeepsAll(fs, fs', Places),
         UNCHANGED written, \A f \in Files, k \in Offsets : saved'[f][k] = saved[f][k] \/ saved'[f][k] = NONE
  PROVE  \A f \in Files, k \in Offsets : KeptOK(f, k)'
  <1> SUFFICES ASSUME NEW f \in Files, NEW k \in Offsets PROVE KeptOK(f, k)'
    OBVIOUS
  <1>1. Slot(fs, f, k) # 0 => Keeps(fs, fs', f, k)
    BY PlaceIs DEF KeepsAll
  <1> QED
    BY <1>1, KeptStep

LEMMA CreateStep ==
  ASSUME Inv, NEW f \in Files, file_create(f) PROVE Inv'
  <1>0. /\ Well(fs) /\ Sound(fs) /\ (\A g \in Files, k \in Offsets : KeptOK(g, k)) /\ op = NoOp
    BY DEF Inv, file_create, Ready
  <1>i. PICK i : i = [Inode(fs, f) EXCEPT !.used = TRUE]
    OBVIOUS
  <1>1. i \in Inodes /\ i.size = Inode(fs, f).size /\ i.direct = Inode(fs, f).direct /\ i.ind = Inode(fs, f).ind
    <2>1. Inode(fs, f) \in Inodes
      BY <1>0, ViewTypes
    <2> QED
      BY <1>i, <2>1 DEF Inodes
  <1>2. fs' = flush_block(SetInode(fs, f, i), DIR) /\ UNCHANGED <<op, written, saved, broken, crashes>>
    BY <1>i DEF file_create
  <1>3. \A k \in Offsets : <<f, k>> \in Places /\ k < Inode(fs, f).size => k < i.size
    BY <1>1
  <1>4. Well(fs') /\ Sound(fs') /\ KeepsAll(fs, fs', Places)
    BY <1>0, <1>1, <1>2, <1>3, InodeStep
  <1>5. \A g \in Files, k \in Offsets : KeptOK(g, k)'
    BY <1>0, <1>2, <1>4, AllKept
  <1> QED
    BY <1>0, <1>2, <1>4, <1>5, Idle DEF Inv

LEMMA ForgetIs ==
  ASSUME NEW g \in KeepType, NEW f \in Files, NEW K
  PROVE  /\ Forget(g, f, K) \in KeepType
         /\ \A h \in Files, k \in Offsets : Forget(g, f, K)[h][k] = IF h = f /\ k \in K THEN NONE ELSE g[h][k]
  <1>r. PICK r : r = [k \in Offsets |-> IF k \in K THEN NONE ELSE g[f][k]]
    OBVIOUS
  <1>1. r \in [Offsets -> Values \cup {NONE}]
    BY <1>r DEF KeepType
  <1>2. Forget(g, f, K) = [g EXCEPT ![f] = r]
    BY <1>r DEF Forget
  <1>3. Forget(g, f, K) \in KeepType
    BY <1>1, <1>2 DEF KeepType
  <1>4. ASSUME NEW h \in Files, NEW k \in Offsets PROVE Forget(g, f, K)[h][k] = IF h = f /\ k \in K THEN NONE ELSE g[h][k]
    <2>1. CASE h = f
      <3>1. Forget(g, f, K)[h] = r
        BY <1>2, <2>1 DEF KeepType
      <3> QED
        BY <1>r, <2>1, <3>1
    <2>2. CASE h # f
      <3>1. Forget(g, f, K)[h] = g[h]
        BY <1>2, <2>2 DEF KeepType
      <3> QED
        BY <2>2, <3>1
    <2> QED
      BY <2>1, <2>2
  <1> QED
    BY <1>3, <1>4

\* What the programs know of a file is forgotten from block n up.
LEMMA ForgetKept ==
  ASSUME Inv, broken = "no", NEW f \in Files, NEW n \in Nat, KeepsAll(fs, fs', Staying(f, n)),
         written' = Forget(written, f, n..NDirect), saved' = Forget(saved, f, n..NDirect)
  PROVE  /\ written' \in KeepType /\ saved' \in KeepType /\ \A g \in Files, k \in Offsets : KeptOK(g, k)'
         /\ \A k \in Offsets : k >= n => written'[f][k] = NONE
  <1>0. \A g \in Files, k \in Offsets : KeptOK(g, k)
    BY DEF Inv
  <1>2. /\ written' \in KeepType /\ saved' \in KeepType
        /\ \A h \in Files, k \in Offsets : /\ written'[h][k] = IF h = f /\ k \in n..NDirect THEN NONE ELSE written[h][k]
                                           /\ saved'[h][k] = IF h = f /\ k \in n..NDirect THEN NONE ELSE saved[h][k]
    <2>K. PICK K : K = n..NDirect
      OBVIOUS
    <2>0. written \in KeepType /\ saved \in KeepType
      BY DEF Inv
    <2>1. Forget(written, f, K) \in KeepType /\ Forget(saved, f, K) \in KeepType
      BY <2>0, ForgetIs
    <2>2. \A h \in Files, k \in Offsets : Forget(written, f, K)[h][k] = IF h = f /\ k \in K THEN NONE ELSE written[h][k]
      BY <2>0, ForgetIs
    <2>3. \A h \in Files, k \in Offsets : Forget(saved, f, K)[h][k] = IF h = f /\ k \in K THEN NONE ELSE saved[h][k]
      BY <2>0, ForgetIs
    <2> QED
      BY <2>K, <2>1, <2>2, <2>3
  <1>3. ASSUME NEW g \in Files, NEW k \in Offsets PROVE KeptOK(g, k)'
    <2>1. CASE g = f /\ k \in n..NDirect
      BY <1>2, <2>1, KeptGone
    <2>2. CASE ~(g = f /\ k \in n..NDirect)
      <3>1. <<g, k>> \in Staying(f, n)
        <4>1. <<g, k>> \in Places
          BY PlaceIs
        <4>2. g # f \/ k < n
          BY <2>2, Constants DEF Offsets
        <4> QED
          BY <4>1, <4>2 DEF Staying
      <3>2. Slot(fs, g, k) # 0 => Keeps(fs, fs', g, k)
        BY <3>1 DEF KeepsAll
      <3> QED
        BY <1>0, <1>2, <2>2, <3>2, KeptStep
    <2> QED
      BY <2>1, <2>2
  <1>4. \A k \in Offsets : k >= n => k \in n..NDirect
    BY Constants DEF Offsets
  <1> QED
    BY <1>2, <1>3, <1>4

LEMMA SetSizeStep ==
  ASSUME Inv, NEW f \in Files, NEW n \in Sizes, serve_set_size(f, n) PROVE Inv'
  <1>0. /\ Well(fs) /\ Sound(fs) /\ op = NoOp /\ broken = "no" /\ UNCHANGED <<broken, crashes>> /\ n \in Nat
        /\ written' = Forget(written, f, n..NDirect) /\ saved' = Forget(saved, f, n..NDirect)
    BY Constants DEF Inv, serve_set_size, Ready, Sizes
  <1>1. CASE fs' = Walked(fs, f, NDirect) /\ op' = [NoOp EXCEPT !.kind = "size", !.f = f, !.k = n, !.at = "cut"]
    <2>1. /\ Well(fs') /\ SameFiles(fs, fs') /\ FreeBlocks(fs') = FreeBlocks(fs) /\ KeepsAll(fs, fs', Places)
      BY <1>0, <1>1, SoundApart, WalkKeeps
    <2>2. Sound(fs') /\ KeepsAll(fs, fs', Staying(f, n))
      <3>1. Sound(fs')
        BY <1>0, <2>1, SoundSame
      <3>2. KeepsAll(fs, fs', Staying(f, n))
        BY <2>1, PlaceIs DEF KeepsAll
      <3> QED
        BY <3>1, <3>2
    <2>3. /\ written' \in KeepType /\ saved' \in KeepType /\ \A g \in Files, k \in Offsets : KeptOK(g, k)'
          /\ \A k \in Offsets : k >= n => written'[f][k] = NONE
      BY <1>0, <2>2, ForgetKept
    <2>4. op' = [kind |-> "size", f |-> f, k |-> n, v |-> 0, at |-> "cut"]
      BY <1>1 DEF NoOp
    <2>5. op' \in OpType /\ OpOK'
      BY <1>0, <2>3, <2>4 DEF OpType, OpOK
    <2> QED
      BY <1>0, <2>1, <2>2, <2>3, <2>5 DEF Inv
  <1>2. CASE fs' = file_set_size(fs, f, n) /\ op' = NoOp
    <2>1. Well(fs') /\ Sound(fs') /\ KeepsAll(fs, fs', Staying(f, n))
      BY <1>0, <1>2, SetSizeKeeps
    <2>2. written' \in KeepType /\ saved' \in KeepType /\ \A g \in Files, k \in Offsets : KeptOK(g, k)'
      BY <1>0, <2>1, ForgetKept
    <2> QED
      BY <1>0, <1>2, <2>1, <2>2, Idle DEF Inv
  <1> QED
    BY <1>1, <1>2 DEF serve_set_size

LEMMA CutStep ==
  ASSUME Inv, set_size PROVE Inv'
  <1>0. /\ broken = "no" /\ op.kind = "size" /\ op.at = "cut" /\ op' = NoOp
        /\ fs' = file_set_size(fs, op.f, op.k) /\ UNCHANGED <<written, saved, broken, crashes>>
    BY DEF set_size, Working
  <1>1. /\ Well(fs) /\ Sound(fs) /\ (\A g \in Files, k \in Offsets : KeptOK(g, k)) /\ op.f \in Files /\ op.k \in Sizes
        /\ \A j \in Offsets : j >= op.k => written[op.f][j] = NONE
    BY <1>0 DEF Inv, OpOK
  <1>2. Well(fs') /\ Sound(fs') /\ KeepsAll(fs, fs', Staying(op.f, op.k))
    BY <1>0, <1>1, SetSizeKeeps
  <1>3. ASSUME NEW g \in Files, NEW k \in Offsets PROVE KeptOK(g, k)'
    <2>1. CASE written[g][k] = NONE
      <3>1. saved[g][k] = NONE
        BY <1>1, <2>1 DEF KeptOK
      <3> QED
        BY <1>0, <2>1, <3>1, KeptGone
    <2>2. CASE written[g][k] # NONE
      <3>1. g # op.f \/ k < op.k
        BY <1>1, <2>2, Constants DEF Offsets, Sizes
      <3>2. <<g, k>> \in Staying(op.f, op.k)
        BY <3>1, PlaceIs DEF Staying
      <3>3. Slot(fs, g, k) # 0 => Keeps(fs, fs', g, k)
        BY <1>2, <3>2 DEF KeepsAll
      <3> QED
        BY <1>0, <1>1, <3>3, KeptStep
    <2> QED
      BY <2>1, <2>2
  <1> QED
    BY <1>0, <1>2, <1>3, Idle DEF Inv

LEMMA KeepsSame == \A s, P : KeepsAll(s, s, P)
  BY DEF KeepsAll, Keeps

LEMMA WriteStep ==
  ASSUME Inv, NEW f \in Files, NEW k \in Asked, NEW v \in Values, serve_write(f, k, v) PROVE Inv'
  <1>0. /\ Well(fs) /\ Sound(fs) /\ (\A g \in Files, j \in Offsets : KeptOK(g, j)) /\ op = NoOp
        /\ UNCHANGED <<written, broken, crashes>> /\ saved' = Forget(saved, f, {k})
        /\ op' = [kind |-> "write", f |-> f, k |-> k, v |-> v, at |-> "walk"]
        /\ fs' = IF k >= Inode(fs, f).size THEN file_set_size(fs, f, k + 1) ELSE fs
    BY DEF Inv, serve_write, Ready, Extended
  <1>1. /\ saved' \in KeepType
        /\ \A h \in Files, j \in Offsets : saved'[h][j] = IF h = f /\ j \in {k} THEN NONE ELSE saved[h][j]
    BY <1>0, ForgetIs DEF Inv
  <1>2. /\ Well(fs') /\ Sound(fs') /\ k < Inode(fs', f).size
        /\ \A g \in Files, j \in Offsets : written[g][j] # NONE => Keeps(fs, fs', g, j)
    <2>0. Inode(fs, f).size \in Nat /\ k \in Nat
      <3>1. Inode(fs, f) \in Inodes
        BY <1>0, ViewTypes
      <3> QED
        BY <3>1, Constants DEF Inodes, Sizes, Asked
    <2>1. CASE ~(k >= Inode(fs, f).size)
      BY <1>0, <2>0, <2>1 DEF Keeps
    <2>2. CASE k >= Inode(fs, f).size
      <3>n. PICK n : n = k + 1
        OBVIOUS
      <3>1. n \in Sizes /\ k < n
        BY <2>0, <3>n, Constants DEF Asked, Sizes
      <3>2. fs' = file_set_size(fs, f, n)
        BY <1>0, <2>2, <3>n
      <3>3. Well(fs') /\ Sound(fs') /\ Inode(fs', f).size = n /\ KeepsAll(fs, fs', Staying(f, n))
        BY <1>0, <3>1, <3>2, SetSizeKeeps
      <3>4. ASSUME NEW g \in Files, NEW j \in Offsets, written[g][j] # NONE PROVE Keeps(fs, fs', g, j)
        <4>1. Slot(fs, g, j) # 0 /\ j < Inode(fs, g).size
          BY <1>0, <3>4 DEF KeptOK, Reads
        <4>2. g = f => j < n
          BY <2>0, <2>2, <3>n, <4>1 DEF Offsets
        <4>3. <<g, j>> \in Staying(f, n)
          BY <4>2, PlaceIs DEF Staying
        <4> QED
          BY <3>3, <4>1, <4>3 DEF KeepsAll
      <3> QED
        BY <3>1, <3>3, <3>4
    <2> QED
      BY <2>1, <2>2
  <1>3. ASSUME NEW g \in Files, NEW j \in Offsets PROVE KeptOK(g, j)'
    <2>1. CASE written[g][j] = NONE
      <3>1. saved[g][j] = NONE
        BY <1>0, <2>1 DEF KeptOK
      <3> QED
        BY <1>0, <1>1, <2>1, <3>1, KeptGone
    <2>2. CASE written[g][j] # NONE
      BY <1>0, <1>1, <1>2, <2>2, KeptStep
    <2> QED
      BY <2>1, <2>2
  <1>4. op' \in OpType /\ OpOK'
    <2>1. k \in Nat
      BY Constants DEF Asked
    <2>2. op' \in OpType
      BY <1>0, <2>1 DEF OpType
    <2>3. OpOK'
      BY <1>0, <1>1, <1>2 DEF OpOK
    <2> QED
      BY <2>2, <2>3
  <1> QED
    BY <1>0, <1>1, <1>2, <1>3, <1>4 DEF Inv

LEMMA ReadStep ==
  ASSUME Inv, NEW f \in Files, NEW k \in Asked, serve_read(f, k) PROVE Inv'
  <1>0. /\ Well(fs) /\ Sound(fs) /\ (\A g \in Files, j \in Offsets : KeptOK(g, j)) /\ op = NoOp
        /\ UNCHANGED <<fs, written, saved, broken, crashes>> /\ k < Inode(fs, f).size
        /\ op' = [kind |-> "read", f |-> f, k |-> k, v |-> 0, at |-> "walk"]
    BY DEF Inv, serve_read, Ready
  <1>2. KeepsAll(fs, fs', Places)
    BY <1>0, KeepsSame
  <1>3. \A g \in Files, j \in Offsets : KeptOK(g, j)'
    BY <1>0, <1>2, AllKept
  <1>4. op' \in OpType /\ OpOK'
    <2>1. k \in Nat
      BY Constants DEF Asked
    <2>2. op' \in OpType
      BY <1>0, <2>1 DEF OpType
    <2>3. OpOK'
      BY <1>0 DEF OpOK
    <2> QED
      BY <2>2, <2>3
  <1> QED
    BY <1>0, <1>3, <1>4 DEF Inv

\* The request that is being served.
LEMMA Serving ==
  ASSUME Inv, broken = "no", op.at \in {"walk", "block"}
  PROVE  /\ Well(fs) /\ Sound(fs) /\ Apart(fs) /\ (\A g \in Files, j \in Offsets : KeptOK(g, j))
         /\ op.kind \in {"read", "write"} /\ op.f \in Files /\ op.k \in Asked /\ op \in OpType
         /\ op.kind = "write" => op.v \in Values /\ (op.k \in Offsets => saved[op.f][op.k] = NONE)
         /\ op.k < Inode(fs, op.f).size
         /\ op.at = "block" => op.k \in Offsets /\ (op.k = NDirect => Inode(fs, op.f).ind # 0)
  <1>1. Well(fs) /\ Sound(fs) /\ Apart(fs) /\ (\A g \in Files, j \in Offsets : KeptOK(g, j)) /\ OpOK /\ op \in OpType
    BY SoundApart DEF Inv
  <1>2. op.kind \in {"none", "read", "write", "size", "flush", "sync"}
    BY <1>1 DEF OpType
  <1>3. op.kind \in {"read", "write"}
    BY <1>1, <1>2 DEF OpOK, NoOp
  <1> QED
    BY <1>1, <1>3 DEF OpOK

LEMMA WalkWell ==
  ASSUME NEW s, Well(s), NEW f, Inode(s, f).ind \in Blocks \cup {0}, NEW k, NEW t, t = Walked(s, f, k)
  PROVE  Well(t)
  <1>1. CASE ~(k = NDirect /\ Inode(s, f).ind # 0)
    BY <1>1 DEF Walked
  <1>2. CASE k = NDirect /\ Inode(s, f).ind # 0
    <2>1. Inode(s, f).ind \in All
      BY <1>2, Constants
    <2>u. PICK u : u = bc_pgfault(s, Inode(s, f).ind)
      OBVIOUS
    <2>2. Well(u)
      BY <2>1, <2>u, FaultIs
    <2>3. t = flush_block(u, Inode(s, f).ind)
      BY <1>2, <2>u DEF Walked
    <2> QED
      BY <2>1, <2>2, <2>3, FlushIs
  <1> QED
    BY <1>1, <1>2

\* A free block becomes the indirect block of f, and holds no number.
LEMMA NewIndirect ==
  ASSUME NEW s, Well(s), Sound(s), FreeBlocks(s) # {}, NEW f \in Files, Inode(s, f).ind = 0,
         NEW i \in Inodes, i.ind = First(s), i.size = Inode(s, f).size, i.direct = Inode(s, f).direct,
         NEW a, a = alloc_block(s), NEW u, u = SetInode(a, f, i)
  PROVE  /\ Well(u) /\ Inode(u, f) = i /\ i.ind \in Blocks /\ i.size = Inode(s, f).size
         /\ Slot(u, f, NDirect) = 0 => Sound(u) /\ KeepsAll(s, u, Places)
  <1>b. PICK b : b = First(s)
    OBVIOUS
  <1>1. b \in Blocks /\ b \in FreeBlocks(s) /\ b # 0 /\ Apart(s)
    BY <1>b, FirstIs, Constants, SoundApart
  <1>2. /\ Well(a) /\ SameFiles(s, a) /\ (\A g \in Files : Inode(a, g) = Inode(s, g))
        /\ FreeBlocks(a) = FreeBlocks(s) \ {b} /\ KeepsAll(s, a, Places)
    BY <1>1, <1>b, AllocKeeps
  <1>3. i.ind = b /\ i.ind \in Blocks \cup {0} /\ Apart(a)
    BY <1>1, <1>2, <1>b DEF Apart, SameFiles
  <1>4. /\ Well(u) /\ FreeBlocks(u) = FreeBlocks(a) /\ u.dirty = a.dirty \cup {DIR}
        /\ Inode(u, f) = i /\ (\A g \in Files : g # f => Inode(u, g) = Inode(a, g))
        /\ (\A c \in All : c # DIR => Seen(u, c) = Seen(a, c))
        /\ (\A g \in Files, k \in Offsets : g # f => Slot(u, g, k) = Slot(a, g, k))
        /\ \A k \in Offsets : Slot(u, f, k) = IF k < NDirect THEN i.direct[k] ELSE IF i.ind = 0 THEN 0 ELSE Seen(a, i.ind)
    <2>1. i.ind \in Blocks \cup {0} /\ Apart(a) /\ Well(a)
      BY <1>2, <1>3
    <2> QED
      BY <2>1, InodeKeeps
  <1>5. ASSUME Slot(u, f, NDirect) = 0 PROVE Sound(u)
    <2>r. PICK r : r = <<f, NDirect + 1>>
      OBVIOUS
    <2>1. r \in Places /\ BlockAt(u, r) = b
      <3>1. r \in Places /\ BlockAt(u, r) = Inode(u, f).ind
        BY <2>r, PlaceIs
      <3> QED
        BY <1>3, <1>4, <3>1
    <2>2. ASSUME NEW p \in Places, p # r PROVE BlockAt(u, p) \in {BlockAt(s, p), 0}
      <3>1. PICK g \in Files : p = <<g, NDirect + 1>> \/ \E j \in Offsets : p = <<g, j>>
        BY PlacesAre
      <3>2. CASE p = <<g, NDirect + 1>>
        <4>1. BlockAt(u, p) = Inode(u, g).ind /\ BlockAt(s, p) = Inode(s, g).ind /\ g # f
          BY <2>2, <2>r, <3>2, PlaceIs
        <4> QED
          BY <1>2, <1>4, <4>1
      <3>3. CASE \E j \in Offsets : p = <<g, j>>
        <4>1. PICK j \in Offsets : p = <<g, j>>
          BY <3>3
        <4>2. BlockAt(u, p) = Slot(u, g, j) /\ BlockAt(s, p) = Slot(s, g, j) /\ BlockAt(a, p) = Slot(a, g, j)
          BY <4>1, PlaceIs
        <4>3. BlockAt(a, p) = BlockAt(s, p)
          BY <1>2 DEF SameFiles
        <4>4. g = f => Slot(u, g, j) \in {Slot(s, g, j), 0}
          <5>1. CASE j < NDirect
            BY <1>3, <1>4, <5>1 DEF Slot
          <5>2. CASE j = NDirect
            BY <1>5, <5>2
          <5> QED
            BY <5>1, <5>2, Constants DEF Offsets
        <4> QED
          BY <1>4, <4>2, <4>3, <4>4
      <3> QED
        BY <3>1, <3>2, <3>3
    <2>3. FreeBlocks(u) \subseteq FreeBlocks(s) \ {b}
      BY <1>2, <1>4
    <2> QED
      BY <1>1, <2>1, <2>2, <2>3, SoundMore
  <1>6. KeepsAll(s, u, Places)
    <2> SUFFICES ASSUME NEW g \in Files, NEW k \in Offsets, Slot(s, g, k) # 0 PROVE Keeps(s, u, g, k)
      BY DEF KeepsAll
    <2>0. <<g, k>> \in Places /\ BlockAt(s, <<g, k>>) = Slot(s, g, k) /\ BlockAt(a, <<g, k>>) = Slot(a, g, k)
      BY PlaceIs
    <2>1. Keeps(s, a, g, k) /\ Slot(a, g, k) # 0
      BY <1>2, <2>0 DEF KeepsAll, SameFiles
    <2>2. g = f => k # NDirect
      BY Constants DEF Slot
    <2>3. g = f => /\ k < NDirect => i.direct[k] = Inode(a, f).direct[k]
                   /\ k = NDirect => i.ind = Inode(a, f).ind
                   /\ k < Inode(a, f).size => k < i.size
      BY <1>2, <1>3, <2>2
    <2>4. Keeps(a, u, g, k)
      BY <1>2, <1>3, <2>1, <2>3, KeepsInode
    <2> QED
      BY <2>1, <2>4, KeepsChain
  <1> QED
    BY <1>1, <1>3, <1>4, <1>5, <1>6

LEMMA WalkStep ==
  ASSUME Inv, file_block_walk PROVE Inv'
  <1>0. broken = "no" /\ op.at = "walk" /\ UNCHANGED <<written, saved, crashes>>
    BY DEF file_block_walk
  <1>1. /\ Well(fs) /\ Sound(fs) /\ Apart(fs) /\ (\A g \in Files, j \in Offsets : KeptOK(g, j))
        /\ op.kind \in {"read", "write"} /\ op.f \in Files /\ op.k \in Asked /\ op \in OpType
        /\ op.kind = "write" => op.v \in Values /\ (op.k \in Offsets => saved[op.f][op.k] = NONE)
        /\ op.k < Inode(fs, op.f).size
    BY <1>0, Serving
  <1>2. ASSUME op' = [op EXCEPT !.at = "block"] PROVE
        /\ op' \in OpType /\ op'.kind = op.kind /\ op'.f = op.f /\ op'.k = op.k /\ op'.v = op.v /\ op'.at = "block"
    BY <1>1, <1>2 DEF OpType
  <1>3. CASE (op.k < NDirect \/ (op.k = NDirect /\ Inode(fs, op.f).ind # 0)) /\ fs' = Walked(fs, op.f, op.k) /\ Goto("block") /\ UNCHANGED broken
    <2>1. /\ Well(fs') /\ SameFiles(fs, fs') /\ (\A g \in Files : Inode(fs', g) = Inode(fs, g))
          /\ FreeBlocks(fs') = FreeBlocks(fs) /\ KeepsAll(fs, fs', Places)
      BY <1>1, <1>3, WalkKeeps
    <2>2. Sound(fs')
      BY <1>1, <2>1, SoundSame
    <2>3. \A g \in Files, j \in Offsets : KeptOK(g, j)'
      BY <1>0, <1>1, <2>1, AllKept
    <2>4. op' \in OpType /\ op'.kind = op.kind /\ op'.f = op.f /\ op'.k = op.k /\ op'.v = op.v /\ op'.at = "block"
      BY <1>2, <1>3 DEF Goto
    <2>6. Inode(fs', op.f) = Inode(fs, op.f) /\ (op.k = NDirect => Inode(fs, op.f).ind # 0) /\ op.k \in Offsets
      BY <1>1, <1>3, <2>1, Constants DEF Asked, Offsets
    <2>5. OpOK'
      BY <1>0, <1>1, <2>4, <2>6 DEF OpOK
    <2> QED
      BY <1>0, <1>3, <2>1, <2>2, <2>3, <2>4, <2>5 DEF Inv
  <1>4. CASE op' = NoOp /\ UNCHANGED <<fs, broken>>
    <2>1. KeepsAll(fs, fs', Places)
      BY <1>4, KeepsSame
    <2>2. \A g \in Files, j \in Offsets : KeptOK(g, j)'
      BY <1>0, <1>1, <2>1, AllKept
    <2> QED
      BY <1>0, <1>1, <1>4, <2>2, Idle DEF Inv
  <1>5. CASE /\ op.k = NDirect /\ Inode(fs, op.f).ind = 0 /\ FreeBlocks(fs) # {}
             /\ LET s == SetInode(alloc_block(fs), op.f, [Inode(fs, op.f) EXCEPT !.ind = First(fs)])
                IN  /\ fs' = Walked(s, op.f, op.k)
                    /\ broken' = IF Slot(s, op.f, op.k) = 0 THEN "no" ELSE "stale"
             /\ Goto("block")
    <2>f. PICK f : f = op.f
      OBVIOUS
    <2>i. PICK i : i = [Inode(fs, f) EXCEPT !.ind = First(fs)]
      OBVIOUS
    <2>a. PICK a : a = alloc_block(fs)
      OBVIOUS
    <2>u. PICK u : u = SetInode(a, f, i)
      OBVIOUS
    <2>0. f \in Files /\ op.k = NDirect /\ op.k \in Offsets
      BY <1>1, <1>5, <2>f, Constants DEF Offsets
    <2>1. /\ Well(u) /\ Inode(u, f) = i /\ i.ind \in Blocks /\ i.size = Inode(fs, f).size
          /\ Slot(u, f, NDirect) = 0 => Sound(u) /\ KeepsAll(fs, u, Places)
      <3>1. FreeBlocks(fs) # {} /\ Inode(fs, f).ind = 0 /\ Well(fs) /\ Sound(fs) /\ f \in Files
        BY <1>1, <1>5, <2>f
      <3>2. i \in Inodes /\ i.ind = First(fs) /\ i.size = Inode(fs, f).size /\ i.direct = Inode(fs, f).direct
        <4>1. Inode(fs, f) \in Inodes /\ First(fs) \in Words
          BY <3>1, FirstIs, ViewTypes DEF Words
        <4> QED
          BY <2>i, <4>1 DEF Inodes
      <3>3. i.ind \in Blocks
        BY <3>1, <3>2, FirstIs
      <3> HIDE <2>i
      <3> QED
        BY <3>1, <3>2, <3>3, <2>a, <2>u, NewIndirect
    <2>2. /\ fs' = Walked(u, f, op.k) /\ broken' = IF Slot(u, f, op.k) = 0 THEN "no" ELSE "stale"
      BY <1>5, <2>f, <2>i, <2>a, <2>u
    <2>3. op' \in OpType /\ op'.kind = op.kind /\ op'.f = op.f /\ op'.k = op.k /\ op'.v = op.v /\ op'.at = "block"
      BY <1>2, <1>5 DEF Goto
    <2>4. Well(fs')
      BY <2>1, <2>2, WalkWell
    <2>5. ASSUME broken' = "no" PROVE Sound(fs') /\ OpOK' /\ \A g \in Files, j \in Offsets : KeptOK(g, j)'
      <3>1. Sound(u) /\ KeepsAll(fs, u, Places) /\ Apart(u)
        BY <2>0, <2>1, <2>2, <2>5, SoundApart
      <3>2. /\ SameFiles(u, fs') /\ (\A g \in Files : Inode(fs', g) = Inode(u, g))
            /\ FreeBlocks(fs') = FreeBlocks(u) /\ KeepsAll(u, fs', Places)
        BY <2>0, <2>1, <2>2, <3>1, WalkKeeps
      <3>3. Sound(fs')
        BY <3>1, <3>2, SoundSame
      <3>4. KeepsAll(fs, fs', Places)
        <4>1. KeepsAll(fs, fs', Places \cap Places)
          BY <1>1, <3>1, <3>2, KeepsAllChain
        <4> QED
          BY <4>1
      <3>5. \A g \in Files, j \in Offsets : KeptOK(g, j)'
        BY <1>0, <1>1, <3>4, AllKept
      <3>6. Inode(fs', op.f).size = Inode(fs, op.f).size /\ Inode(fs', op.f).ind # 0
        BY <2>0, <2>1, <2>f, <3>2, Constants
      <3>7. OpOK'
        BY <1>0, <1>1, <2>0, <2>3, <3>6 DEF OpOK
      <3> QED
        BY <3>3, <3>5, <3>7
    <2> QED
      BY <1>0, <2>2, <2>3, <2>4, <2>5 DEF Inv
  <1> QED
    BY <1>3, <1>4, <1>5 DEF file_block_walk

\* A free block becomes block k of f.
LEMMA NewBlock ==
  ASSUME NEW s, Well(s), Sound(s), FreeBlocks(s) # {}, NEW f \in Files, NEW k \in Offsets, Slot(s, f, k) = 0,
         k = NDirect => Inode(s, f).ind # 0,
         NEW a, a = alloc_block(s), NEW u, u = SetSlot(a, f, k, First(s)), NEW t, t = flush_block(u, First(s))
  PROVE  /\ Well(t) /\ Sound(t) /\ Slot(t, f, k) \in Blocks /\ KeepsAll(s, t, Places)
         /\ Inode(t, f).size = Inode(s, f).size
  <1>b. PICK b : b = First(s)
    OBVIOUS
  <1>1. b \in Blocks /\ b \in FreeBlocks(s) /\ b \in All /\ b \in Words /\ Apart(s)
    BY <1>b, FirstIs, Constants, SoundApart DEF Words
  <1>2. /\ Well(a) /\ SameFiles(s, a) /\ (\A g \in Files : Inode(a, g) = Inode(s, g))
        /\ FreeBlocks(a) = FreeBlocks(s) \ {b} /\ KeepsAll(s, a, Places)
    BY <1>1, <1>b, AllocKeeps
  <1>3. Apart(a) /\ (k = NDirect => Inode(a, f).ind # 0) /\ u = SetSlot(a, f, k, b)
    BY <1>1, <1>2, <1>b DEF Apart, SameFiles
  <1>4. /\ Well(u) /\ FreeBlocks(u) = FreeBlocks(a) /\ BlockAt(u, <<f, k>>) = b
        /\ (\A g \in Files : Inode(u, g).size = Inode(a, g).size /\ Inode(u, g).ind = Inode(a, g).ind)
        /\ (\A p \in Places : p # <<f, k>> => BlockAt(u, p) = BlockAt(a, p))
        /\ (\A c \in All : c # DIR /\ c # Inode(a, f).ind => Seen(u, c) = Seen(a, c))
        /\ KeepsAll(a, u, Places \ {<<f, k>>})
    <2>1. Well(a) /\ b \in Words
      BY <1>1, <1>2
    <2> QED
      BY SMTT(30), <1>3, <2>1, SlotKeeps
  <1>5. Sound(u)
    <2>r. PICK r : r = <<f, k>>
      OBVIOUS
    <2>1. r \in Places /\ BlockAt(u, r) = b
      BY <1>4, <2>r, PlaceIs
    <2>2. \A p \in Places : p # r => BlockAt(u, p) \in {BlockAt(s, p), 0}
      BY <1>2, <1>4, <2>r DEF SameFiles
    <2>3. FreeBlocks(u) \subseteq FreeBlocks(s) \ {b}
      BY <1>2, <1>4
    <2> QED
      BY <1>1, <2>1, <2>2, <2>3, SoundMore
  <1>6. t = flush_block(u, b) /\ Apart(u)
    BY <1>b, <1>5, SoundApart
  <1>7. /\ Well(t) /\ SameFiles(u, t) /\ (\A g \in Files : Inode(t, g) = Inode(u, g))
        /\ FreeBlocks(t) = FreeBlocks(u) /\ KeepsAll(u, t, Places)
    BY <1>1, <1>4, <1>6, FlushKeeps
  <1>8. Sound(t) /\ Slot(t, f, k) = b /\ Inode(t, f).size = Inode(s, f).size
    <2>1. Sound(t)
      BY <1>5, <1>7, SoundSame
    <2>2. <<f, k>> \in Places /\ BlockAt(t, <<f, k>>) = Slot(t, f, k)
      BY PlaceIs
    <2> QED
      BY <1>2, <1>4, <1>7, <2>1, <2>2 DEF SameFiles
  <1>9. KeepsAll(s, t, Places)
    <2> SUFFICES ASSUME NEW g \in Files, NEW j \in Offsets, Slot(s, g, j) # 0 PROVE Keeps(s, t, g, j)
      BY DEF KeepsAll
    <2>1. <<g, j>> \in Places \ {<<f, k>>}
      BY PlaceIs
    <2>2. KeepsAll(s, u, Places \cap (Places \ {<<f, k>>}))
      BY <1>1, <1>2, <1>4, KeepsAllChain
    <2>3. KeepsAll(s, t, (Places \cap (Places \ {<<f, k>>})) \cap Places)
      BY <1>1, <1>7, <2>2, KeepsAllChain
    <2> QED
      BY <2>1, <2>3 DEF KeepsAll
  <1> QED
    BY <1>1, <1>7, <1>8, <1>9

LEMMA GetBlockStep ==
  ASSUME Inv, file_get_block PROVE Inv'
  <1>f. PICK f, k : f = op.f /\ k = op.k
    OBVIOUS
  <1>h. PICK hole \in BOOLEAN : hole = (Slot(fs, f, k) = 0)
    OBVIOUS
  <1>s. PICK s : s = IF hole THEN flush_block(SetSlot(alloc_block(fs), f, k, First(fs)), First(fs)) ELSE fs
    OBVIOUS
  <1>b. PICK b : b = Slot(s, f, k)
    OBVIOUS
  <1>0. /\ broken = "no" /\ op.at = "block" /\ op' = NoOp /\ UNCHANGED <<saved, broken, crashes>>
        /\ \/ hole /\ FreeBlocks(fs) = {} /\ UNCHANGED <<fs, written>>
           \/ (~hole \/ FreeBlocks(fs) # {}) /\ op.kind = "read" /\ fs' = bc_pgfault(s, b) /\ UNCHANGED written
           \/ /\ (~hole \/ FreeBlocks(fs) # {}) /\ op.kind = "write"
              /\ fs' = Store(s, b, op.v) /\ written' = [written EXCEPT ![f][k] = op.v]
    BY <1>f, <1>h, <1>s, <1>b DEF file_get_block
  <1>1. /\ Well(fs) /\ Sound(fs) /\ Apart(fs) /\ (\A g \in Files, j \in Offsets : KeptOK(g, j))
        /\ f \in Files /\ k \in Offsets /\ (op.kind = "write" => op.v \in Values /\ saved[f][k] = NONE)
        /\ k < Inode(fs, f).size /\ (k = NDirect => Inode(fs, f).ind # 0)
    BY <1>0, <1>f, Serving
  <1>2. CASE UNCHANGED <<fs, written>>
    <2>1. KeepsAll(fs, fs', Places)
      BY <1>2, KeepsSame
    <2>2. \A g \in Files, j \in Offsets : KeptOK(g, j)'
      BY <1>0, <1>1, <1>2, <2>1, AllKept
    <2> QED
      BY <1>0, <1>1, <1>2, <2>2, Idle DEF Inv
  <1>3. ASSUME ~hole \/ FreeBlocks(fs) # {}
        PROVE  Well(s) /\ Sound(s) /\ b \in Blocks /\ KeepsAll(fs, s, Places) /\ Inode(s, f).size = Inode(fs, f).size
    <2>1. CASE ~hole
      <3>1. s = fs /\ Slot(fs, f, k) # 0
        BY <1>h, <1>s, <2>1
      <3>2. Slot(fs, f, k) \in Blocks
        BY <1>1, <3>1, ApartRooted DEF Rooted
      <3> QED
        BY <1>1, <1>b, <3>1, <3>2, KeepsSame
    <2>2. CASE hole
      <3>a. PICK a : a = alloc_block(fs)
        OBVIOUS
      <3>u. PICK u : u = SetSlot(a, f, k, First(fs))
        OBVIOUS
      <3>1. s = flush_block(u, First(fs)) /\ Slot(fs, f, k) = 0 /\ FreeBlocks(fs) # {}
        BY <1>h, <1>s, <1>3, <2>2, <3>a, <3>u
      <3>2. /\ Well(s) /\ Sound(s) /\ Slot(s, f, k) \in Blocks /\ KeepsAll(fs, s, Places)
            /\ Inode(s, f).size = Inode(fs, f).size
        BY <1>1, <3>1, <3>a, <3>u, NewBlock
      <3> QED
        BY <1>b, <3>2
    <2> QED
      BY <2>1, <2>2
  <1>4. CASE (~hole \/ FreeBlocks(fs) # {}) /\ op.kind = "read" /\ fs' = bc_pgfault(s, b) /\ UNCHANGED written
    <2>1. Well(s) /\ Sound(s) /\ b \in All /\ KeepsAll(fs, s, Places) /\ Apart(s)
      BY <1>3, <1>4, SoundApart, Constants
    <2>2. /\ Well(fs') /\ SameFiles(s, fs') /\ (\A g \in Files : Inode(fs', g) = Inode(s, g))
          /\ FreeBlocks(fs') = FreeBlocks(s) /\ KeepsAll(s, fs', Places)
      BY <1>4, <2>1, FaultKeeps
    <2>3. Sound(fs')
      BY <2>1, <2>2, SoundSame
    <2>4. KeepsAll(fs, fs', Places)
      <3>1. KeepsAll(fs, fs', Places \cap Places)
        BY <1>1, <2>1, <2>2, KeepsAllChain
      <3> QED
        BY <3>1
    <2>5. \A g \in Files, j \in Offsets : KeptOK(g, j)'
      BY <1>0, <1>1, <1>4, <2>4, AllKept
    <2> QED
      BY <1>0, <1>4, <2>2, <2>3, <2>5, Idle DEF Inv
  <1>5. CASE /\ (~hole \/ FreeBlocks(fs) # {}) /\ op.kind = "write"
             /\ fs' = Store(s, b, op.v) /\ written' = [written EXCEPT ![f][k] = op.v]
    <2>t. PICK t, v : t = fs' /\ v = op.v
      OBVIOUS
    <2>0. v \in Values /\ saved[f][k] = NONE
      BY <1>1, <1>5, <2>t
    <2>1. /\ Well(s) /\ Sound(s) /\ b \in Blocks /\ b \in All /\ b # 0 /\ b # DIR /\ b # BITMAP /\ KeepsAll(fs, s, Places) /\ Apart(s)
          /\ Inode(s, f).size = Inode(fs, f).size
      BY <1>3, <1>5, SoundApart, Constants
    <2>2. v \in Contents(b) /\ t = Store(s, b, v)
      BY <1>5, <2>t, <2>0, <2>1, ContentsAre DEF Words
    <2>3. Well(t) /\ Seen(t, b) = v /\ \A c \in All : c # b => Seen(t, c) = Seen(s, c)
      BY <2>1, <2>2, StoreIs
    <2>4. \A g \in Files : b # Inode(s, g).ind
      BY <1>b, <1>1, <2>1, ApartIs
    <2>5. SameFiles(s, t) /\ \A g \in Files : Inode(t, g) = Inode(s, g)
      BY <2>1, <2>3, <2>4, Unseen
    <2>6. Sound(t)
      <3>1. FreeBlocks(t) = FreeBlocks(s)
        BY <2>1, <2>3, Constants DEF FreeBlocks
      <3> QED
        BY <2>1, <2>5, <3>1, SoundSame
    <2>7. /\ written' \in KeepType /\ written'[f][k] = v
          /\ \A g \in Files, j \in Offsets : <<g, j>> # <<f, k>> => written'[g][j] = written[g][j]
      <3>r. PICK r : r = [written[f] EXCEPT ![k] = v]
        OBVIOUS
      <3>1. written \in KeepType
        BY DEF Inv
      <3>2. r \in [Offsets -> Values \cup {NONE}] /\ r[k] = v /\ \A j \in Offsets : j # k => r[j] = written[f][j]
        BY <1>1, <2>0, <3>r, <3>1 DEF KeepType
      <3>3. written' = [written EXCEPT ![f] = r]
        BY <1>5, <2>t, <3>r
      <3>4. written' \in KeepType /\ written'[f] = r /\ \A g \in Files : g # f => written'[g] = written[g]
        BY <1>1, <3>1, <3>2, <3>3 DEF KeepType
      <3> QED
        BY <3>2, <3>4
    <2>8. ASSUME NEW g \in Files, NEW j \in Offsets PROVE KeptOK(g, j)'
      <3>1. CASE <<g, j>> = <<f, k>>
        <4>1. <<f, k>> \in Places /\ BlockAt(t, <<f, k>>) = Slot(t, f, k) /\ BlockAt(s, <<f, k>>) = Slot(s, f, k)
          BY <1>1, PlaceIs
        <4>2. Slot(t, f, k) = b
          BY <1>b, <2>5, <4>1 DEF SameFiles
        <4>3. Reads(t, f, k, v)
          BY <1>1, <2>1, <2>3, <2>5, <4>2 DEF Reads
        <4>4. g = f /\ j = k
          BY <3>1
        <4> QED
          BY <1>0, <2>0, <2>7, <2>t, <4>3, <4>4 DEF KeptOK
      <3>2. CASE <<g, j>> # <<f, k>>
        <4>1. ASSUME Slot(fs, g, j) # 0 PROVE Keeps(fs, fs', g, j)
          <5>1. Keeps(fs, s, g, j)
            BY <2>1, <4>1, PlaceIs DEF KeepsAll
          <5>2. Slot(s, g, j) # 0
            BY <4>1, <5>1 DEF Keeps
          <5>3. Rooted(s, g, j)
            BY <2>1, <5>2, ApartRooted
          <5>4. b # Slot(s, g, j)
            BY <1>1, <1>b, <2>1, <3>2, <5>2, ApartIs
          <5>5. Keeps(s, t, g, j)
            BY <2>1, <2>2, <2>4, <5>3, <5>4, KeepsStore
          <5> QED
            BY <2>t, <5>1, <5>5, KeepsChain
        <4> QED
          BY <1>0, <1>1, <2>7, <3>2, <4>1, KeptStep
      <3> QED
        BY <3>1, <3>2
    <2> QED
      BY <1>0, <2>3, <2>6, <2>7, <2>8, <2>t, Idle DEF Inv
  <1> QED
    BY <1>0, <1>2, <1>4, <1>5

LEMMA FlushBegin ==
  ASSUME Inv, NEW f \in Files, serve_flush(f) PROVE Inv'
  <1>0. /\ Well(fs) /\ Sound(fs) /\ (\A g \in Files, j \in Offsets : KeptOK(g, j)) /\ op = NoOp
        /\ UNCHANGED <<fs, written, saved, broken, crashes>>
        /\ op' = [kind |-> "flush", f |-> f, k |-> 0, v |-> 0, at |-> "data"]
    BY DEF Inv, serve_flush, Ready, NoOp
  <1>2. KeepsAll(fs, fs', Places)
    BY <1>0, KeepsSame
  <1>3. \A g \in Files, j \in Offsets : KeptOK(g, j)'
    BY <1>0, <1>2, AllKept
  <1>4. op' \in OpType /\ OpOK'
    <2>1. Inode(fs, f).size \in Nat
      <3>1. Inode(fs, f) \in Inodes
        BY <1>0, ViewTypes
      <3> QED
        BY <3>1, Constants DEF Inodes, Sizes
    <2>2. op' \in OpType
      BY <1>0 DEF OpType
    <2>3. OpOK'
      BY <1>0, <2>1 DEF OpOK, Offsets
    <2> QED
      BY <2>2, <2>3
  <1> QED
    BY <1>0, <1>3, <1>4 DEF Inv

LEMMA CleanOnDisk ==
  ASSUME NEW s, Well(s), Apart(s), NEW f \in Files, NEW j \in Offsets, Slot(s, f, j) # 0, j < Inode(s, f).size,
         DIR \notin s.dirty, Slot(s, f, j) \notin s.dirty, j = NDirect => Inode(s, f).ind \notin s.dirty
  PROVE  OnDisk(s, f, j)
  <1>1. Rooted(s, f, j)
    BY ApartRooted
  <1>2. Slot(s, f, j) \in All /\ DIR \in All /\ (j = NDirect => Inode(s, f).ind \in All)
    BY <1>1, Constants DEF Rooted
  <1>3. s.disk[DIR] = Seen(s, DIR) /\ s.disk[Slot(s, f, j)] = Seen(s, Slot(s, f, j))
    BY <1>2, SeenIs
  <1>4. j = NDirect => s.disk[Inode(s, f).ind] = Seen(s, Inode(s, f).ind)
    BY <1>2, SeenIs
  <1> QED
    BY <1>3, <1>4 DEF OnDisk, Inode

LEMMA FlushStep ==
  ASSUME Inv, file_flush PROVE Inv'
  <1>f. PICK f, k : f = op.f /\ k = op.k
    OBVIOUS
  <1>0. broken = "no" /\ op.kind = "flush" /\ UNCHANGED <<written, broken, crashes>>
    BY DEF file_flush
  <1>1. /\ Well(fs) /\ Sound(fs) /\ Apart(fs) /\ (\A g \in Files, j \in Offsets : KeptOK(g, j))
        /\ written \in KeepType /\ saved \in KeepType /\ crashes \in 0..MaxCrashes
    BY <1>0, SoundApart DEF Inv
  <1>2. /\ op \in OpType /\ f \in Files /\ op.at \in {"data", "indirect"} /\ k \in Nat /\ k <= Inode(fs, f).size
        /\ op.at # "data" => k = Inode(fs, f).size
        /\ op.at = "indirect" => DIR \notin fs.dirty
        /\ \A j \in Offsets : j < k => Slot(fs, f, j) \notin fs.dirty
    BY <1>0, <1>f DEF Inv, OpOK, OpType
  <1>3. Inode(fs, f).size \in Sizes
    <2>1. Inode(fs, f) \in Inodes
      BY <1>1, <1>2, ViewTypes
    <2> QED
      BY <2>1 DEF Inodes
  <1>4. ASSUME NEW t, Well(t) PROVE 0 \notin t.dirty
    BY <1>4, Constants DEF Well, Storage
  <1>5. ASSUME NEW at \in {"data", "indirect"}, op' = [op EXCEPT !.at = at]
        PROVE  op' \in OpType /\ op'.kind = "flush" /\ op'.f = f /\ op'.k = k /\ op'.at = at
    BY <1>0, <1>2, <1>5, <1>f DEF OpType
  <1>6. CASE /\ op.at = "data" /\ k < Inode(fs, f).size
             /\ LET s == Walked(fs, f, k) IN fs' = IF k \notin Offsets \/ Slot(s, f, k) = 0 THEN s ELSE flush_block(s, Slot(s, f, k))
             /\ op' = [op EXCEPT !.k = k + 1] /\ UNCHANGED saved
    <2>w. PICK w, b : w = Walked(fs, f, k) /\ b = Slot(w, f, k)
      OBVIOUS
    <2>1. /\ Well(w) /\ SameFiles(fs, w) /\ (\A g \in Files : Inode(w, g) = Inode(fs, g))
          /\ FreeBlocks(w) = FreeBlocks(fs) /\ KeepsAll(fs, w, Places) /\ w.dirty \subseteq fs.dirty
      BY <1>1, <1>2, <2>w, WalkKeeps
    <2>2. Apart(w)
      BY <1>1, <2>1 DEF Apart, SameFiles
    <2>3. fs' = IF k \notin Offsets \/ b = 0 THEN w ELSE flush_block(w, b)
      BY <1>6, <2>w
    <2>4. /\ Well(fs') /\ SameFiles(w, fs') /\ (\A g \in Files : Inode(fs', g) = Inode(w, g))
          /\ FreeBlocks(fs') = FreeBlocks(w) /\ KeepsAll(w, fs', Places) /\ fs'.dirty \subseteq w.dirty /\ (k \in Offsets => b \notin fs'.dirty)
      <3>1. CASE k \notin Offsets \/ b = 0
        BY <1>4, <2>1, <2>3, <3>1, KeepsSame DEF SameFiles
      <3>2. CASE k \in Offsets /\ b # 0
        <4>1. b \in All
          BY <1>2, <2>2, <2>w, <3>2, ApartRooted, Constants DEF Rooted
        <4>2. fs' = flush_block(w, b)
          BY <2>3, <3>2
        <4>3. /\ Well(fs') /\ SameFiles(w, fs') /\ (\A g \in Files : Inode(fs', g) = Inode(w, g))
              /\ FreeBlocks(fs') = FreeBlocks(w) /\ KeepsAll(w, fs', Places) /\ fs'.dirty = w.dirty \ {b}
          BY <2>1, <2>2, <4>1, <4>2, FlushKeeps
        <4> QED
          BY <4>3
      <3> QED
        BY <3>1, <3>2
    <2>5. SameFiles(fs, fs') /\ FreeBlocks(fs') = FreeBlocks(fs) /\ Inode(fs', f) = Inode(fs, f)
      BY <1>2, <2>1, <2>4 DEF SameFiles
    <2>6. Sound(fs')
      BY <1>1, <2>5, SoundSame
    <2>7. KeepsAll(fs, fs', Places)
      <3>1. KeepsAll(fs, fs', Places \cap Places)
        BY <1>1, <2>1, <2>4, KeepsAllChain
      <3> QED
        BY <3>1
    <2>8. \A g \in Files, j \in Offsets : KeptOK(g, j)'
      BY <1>0, <1>1, <1>6, <2>7, AllKept
    <2>9. op' \in OpType /\ op'.kind = "flush" /\ op'.f = f /\ op'.k = k + 1 /\ op'.at = "data"
      BY <1>0, <1>2, <1>6, <1>f DEF OpType
    <2>10. ASSUME NEW j \in Offsets, j < k + 1 PROVE Slot(fs', f, j) \notin fs'.dirty
      <3>1. Slot(fs', f, j) = Slot(fs, f, j) /\ Slot(w, f, j) = Slot(fs, f, j)
        <4>1. <<f, j>> \in Places /\ BlockAt(fs', <<f, j>>) = Slot(fs', f, j) /\ BlockAt(fs, <<f, j>>) = Slot(fs, f, j)
              /\ BlockAt(w, <<f, j>>) = Slot(w, f, j)
          BY <1>2, PlaceIs
        <4> QED
          BY <2>1, <2>5, <4>1 DEF SameFiles
      <3>2. CASE j < k
        BY <1>2, <2>1, <2>4, <3>1, <3>2
      <3>3. CASE j = k
        BY <2>4, <2>w, <3>1, <3>3
      <3> QED
        BY <1>2, <2>10, <3>2, <3>3, Constants DEF Offsets
    <2>11. k + 1 <= Inode(fs', f).size
      BY <1>2, <1>3, <1>6, <2>5, Constants DEF Sizes
    <2>12. OpOK'
      BY <1>2, <2>9, <2>10, <2>11 DEF OpOK
    <2> QED
      BY <1>0, <1>1, <1>6, <2>4, <2>6, <2>8, <2>9, <2>12 DEF Inv
  <1>8. CASE op.at = "data" /\ k = Inode(fs, f).size /\ fs' = flush_block(fs, DIR) /\ Goto("indirect") /\ UNCHANGED saved
    <2>1. op' \in OpType /\ op'.kind = "flush" /\ op'.f = f /\ op'.k = k /\ op'.at = "indirect"
      BY <1>5, <1>8 DEF Goto
    <2>2. /\ Well(fs') /\ SameFiles(fs, fs') /\ (\A g \in Files : Inode(fs', g) = Inode(fs, g))
          /\ FreeBlocks(fs') = FreeBlocks(fs) /\ KeepsAll(fs, fs', Places) /\ fs'.dirty = fs.dirty \ {DIR}
      BY <1>1, <1>8, FlushKeeps, Constants
    <2>3. \A g \in Files, j \in Offsets : KeptOK(g, j)'
      BY <1>0, <1>1, <1>8, <2>2, AllKept
    <2>4. Sound(fs')
      BY <1>1, <2>2, SoundSame
    <2>5. ASSUME NEW j \in Offsets, j < k PROVE Slot(fs', f, j) \notin fs'.dirty
      <3>1. <<f, j>> \in Places /\ BlockAt(fs', <<f, j>>) = Slot(fs', f, j) /\ BlockAt(fs, <<f, j>>) = Slot(fs, f, j)
        BY <1>2, PlaceIs
      <3> QED
        BY <1>2, <2>2, <2>5, <3>1 DEF SameFiles
    <2>6. OpOK'
      BY <1>2, <1>8, <2>1, <2>2, <2>5 DEF OpOK
    <2> QED
      BY <1>0, <1>1, <1>8, <2>1, <2>2, <2>3, <2>4, <2>6 DEF Inv
  <1>9. CASE /\ op.at = "indirect"
             /\ fs' = IF Inode(fs, f).ind = 0 THEN fs ELSE flush_block(fs, Inode(fs, f).ind)
             /\ op' = NoOp /\ saved' = [saved EXCEPT ![f] = written[f]]
    <2>b. PICK b : b = Inode(fs, f).ind
      OBVIOUS
    <2>1. /\ Well(fs') /\ SameFiles(fs, fs') /\ Inode(fs', f) = Inode(fs, f) /\ FreeBlocks(fs') = FreeBlocks(fs)
          /\ KeepsAll(fs, fs', Places) /\ fs'.dirty \subseteq fs.dirty /\ b \notin fs'.dirty
      <3>1. CASE b = 0
        BY <1>1, <1>4, <1>9, <2>b, <3>1, KeepsSame DEF SameFiles
      <3>2. CASE b # 0
        <4>1. b \in All /\ fs' = flush_block(fs, b)
          BY <1>1, <1>2, <1>9, <2>b, <3>2, PlaceIs, Constants DEF Apart
        <4>2. /\ Well(fs') /\ SameFiles(fs, fs') /\ (\A g \in Files : Inode(fs', g) = Inode(fs, g))
              /\ FreeBlocks(fs') = FreeBlocks(fs) /\ KeepsAll(fs, fs', Places) /\ fs'.dirty = fs.dirty \ {b}
          BY <1>1, <4>1, FlushKeeps
        <4> QED
          BY <1>2, <4>2
      <3> QED
        BY <3>1, <3>2
    <2>2. Sound(fs') /\ Apart(fs')
      BY <1>1, <2>1, SoundSame, SoundApart
    <2>3. saved' \in KeepType /\ saved'[f] = written[f] /\ \A g \in Files : g # f => saved'[g] = saved[g]
      BY <1>1, <1>2, <1>9 DEF KeepType
    <2>4. ASSUME NEW g \in Files, NEW j \in Offsets PROVE KeptOK(g, j)'
      <3>0. Slot(fs, g, j) # 0 => Keeps(fs, fs', g, j)
        BY <2>1, PlaceIs DEF KeepsAll
      <3>1. CASE g # f
        BY <1>0, <1>1, <2>3, <3>0, <3>1, KeptStep
      <3>2. CASE g = f
        <4>1. CASE written[f][j] = NONE
          BY <1>0, <2>3, <3>2, <4>1, KeptGone
        <4>2. CASE written[f][j] # NONE
          <5>1. Reads(fs, f, j, written[f][j])
            BY <1>1, <3>2, <4>2 DEF KeptOK
          <5>2. Keeps(fs, fs', f, j)
            BY <3>0, <3>2, <5>1 DEF Reads
          <5>3. Reads(fs', f, j, written[f][j])
            BY <5>1, <5>2 DEF Reads, Keeps
          <5>4. Slot(fs', f, j) # 0 /\ j < Inode(fs', f).size /\ Slot(fs', f, j) = Slot(fs, f, j)
            BY <5>2, <5>3 DEF Reads, Keeps
          <5>5. DIR \notin fs'.dirty /\ Slot(fs', f, j) \notin fs'.dirty /\ Inode(fs', f).ind \notin fs'.dirty
            BY <1>2, <1>9, <2>1, <2>b, <5>4
          <5>6. OnDisk(fs', f, j)
            BY <1>2, <2>1, <2>2, <5>4, <5>5, CleanOnDisk
          <5> QED
            BY <1>0, <2>3, <3>2, <5>3, <5>6 DEF KeptOK
        <4> QED
          BY <4>1, <4>2
      <3> QED
        BY <3>1, <3>2
    <2> QED
      BY <1>0, <1>1, <1>9, <2>1, <2>2, <2>3, <2>4, Idle DEF Inv
  <1> QED
    BY <1>f, <1>6, <1>8, <1>9 DEF file_flush

LEMMA SyncBegin ==
  ASSUME Inv, serve_sync PROVE Inv'
  <1>0. /\ Well(fs) /\ Sound(fs) /\ (\A g \in Files, j \in Offsets : KeptOK(g, j)) /\ op = NoOp
        /\ UNCHANGED <<fs, written, saved, broken, crashes>>
        /\ op' = [kind |-> "sync", f |-> NONE, k |-> 0, v |-> 0, at |-> "data"]
    BY DEF Inv, serve_sync, Ready, NoOp
  <1>2. KeepsAll(fs, fs', Places)
    BY <1>0, KeepsSame
  <1>3. \A g \in Files, j \in Offsets : KeptOK(g, j)'
    BY <1>0, <1>2, AllKept
  <1>4. op' \in OpType /\ OpOK'
    BY <1>0 DEF OpType, OpOK
  <1> QED
    BY <1>0, <1>3, <1>4 DEF Inv

LEMMA SyncStep ==
  ASSUME Inv, fs_sync PROVE Inv'
  <1>0. broken = "no" /\ op.kind = "sync" /\ op.at = "data" /\ UNCHANGED <<written, broken, crashes>>
    BY DEF fs_sync, Working
  <1>1. /\ Well(fs) /\ Sound(fs) /\ Apart(fs) /\ (\A g \in Files, j \in Offsets : KeptOK(g, j)) /\ op \in OpType
        /\ written \in KeepType /\ saved \in KeepType /\ crashes \in 0..MaxCrashes
    BY <1>0, SoundApart DEF Inv
  <1>2. CASE /\ fs.dirty # {} /\ UNCHANGED <<op, saved>>
             /\ fs' = flush_block(fs, CHOOSE b \in fs.dirty : \A c \in fs.dirty : b <= c)
    <2>b. PICK b : b = CHOOSE x \in fs.dirty : \A c \in fs.dirty : x <= c
      OBVIOUS
    <2>1. b \in All
      <3>1. fs.dirty \subseteq All
        BY <1>1 DEF Well, Storage
      <3>2. fs.dirty \subseteq Nat /\ IsFiniteSet(fs.dirty)
        BY <3>1, Constants, FS_Subset
      <3>3. \E x \in fs.dirty : \A c \in fs.dirty : x <= c
        BY <1>2, <3>2, LeastExists
      <3>4. b \in fs.dirty
        BY <2>b, <3>3
      <3> QED
        BY <3>1, <3>4
    <2>2. fs' = flush_block(fs, b)
      BY <1>2, <2>b
    <2>3. /\ Well(fs') /\ SameFiles(fs, fs') /\ FreeBlocks(fs') = FreeBlocks(fs) /\ KeepsAll(fs, fs', Places)
      BY <1>1, <2>1, <2>2, FlushKeeps
    <2>4. Sound(fs')
      BY <1>1, <2>3, SoundSame
    <2>5. \A g \in Files, j \in Offsets : KeptOK(g, j)'
      BY <1>0, <1>1, <1>2, <2>3, AllKept
    <2>6. OpOK'
      BY <1>0, <1>2 DEF OpOK
    <2> QED
      BY <1>0, <1>1, <1>2, <2>3, <2>4, <2>5, <2>6 DEF Inv
  <1>3. CASE fs.dirty = {} /\ op' = NoOp /\ saved' = written /\ UNCHANGED fs
    <2>1. ASSUME NEW g \in Files, NEW j \in Offsets PROVE KeptOK(g, j)'
      <3>1. CASE written[g][j] = NONE
        BY <1>0, <1>3, <3>1, KeptGone
      <3>2. CASE written[g][j] # NONE
        <4>1. Reads(fs, g, j, written[g][j])
          BY <1>1, <3>2 DEF KeptOK
        <4>2. OnDisk(fs, g, j)
          BY <1>1, <1>3, <4>1, CleanOnDisk DEF Reads
        <4> QED
          BY <1>0, <1>3, <4>1, <4>2 DEF KeptOK
      <3> QED
        BY <3>1, <3>2
    <2> QED
      BY <1>0, <1>1, <1>3, <2>1, Idle DEF Inv
  <1> QED
    BY <1>2, <1>3 DEF fs_sync

LEMMA CrashStep ==
  ASSUME Inv, crash PROVE Inv'
  <1>t. PICK t : t = fs'
    OBVIOUS
  <1>0. /\ broken = "no" /\ crashes < MaxCrashes /\ crashes' = crashes + 1 /\ op' = NoOp /\ written' = saved /\ UNCHANGED saved
        /\ t = [fs EXCEPT !.mem = [b \in All |-> 0], !.cached = {}, !.dirty = {}]
        /\ broken' = IF Sound(t) THEN "no" ELSE "crash"
    BY <1>t DEF crash
  <1>1. /\ Well(fs) /\ Sound(fs) /\ Apart(fs) /\ (\A g \in Files, j \in Offsets : KeptOK(g, j))
        /\ written \in KeepType /\ saved \in KeepType /\ crashes \in 0..MaxCrashes
    BY <1>0, SoundApart DEF Inv
  <1>2. t.disk = fs.disk /\ t.cached = {} /\ t.dirty = {} /\ t \in Storage
    <2>m. PICK m : m = [b \in All |-> 0]
      OBVIOUS
    <2>1. m \in [All -> AnyContents]
      <3>1. 0 \in AnyContents
        BY DEF AnyContents, Words
      <3> QED
        BY <2>m, <3>1
    <2>2. t = [fs EXCEPT !.mem = m, !.cached = {}, !.dirty = {}]
      BY <1>0, <2>m
    <2> QED
      BY <1>1, <2>1, <2>2 DEF Well, Storage
  <1>3. Well(t)
    BY <1>1, <1>2 DEF Well
  <1>4. \A b : Seen(t, b) = fs.disk[b]
    BY <1>2 DEF Seen
  <1>5. ASSUME NEW g \in Files, NEW j \in Offsets PROVE KeptOK(g, j)'
    <2>1. CASE saved[g][j] = NONE
      BY <1>0, <2>1, KeptGone
    <2>2. CASE saved[g][j] # NONE
      <3>1. written[g][j] = saved[g][j] /\ Reads(fs, g, j, saved[g][j]) /\ OnDisk(fs, g, j)
        BY <1>1, <2>2 DEF KeptOK
      <3>2. Inode(t, g) = fs.disk[DIR][g]
        BY <1>4 DEF Inode
      <3>3. Slot(t, g, j) = Slot(fs, g, j)
        <4>1. CASE j < NDirect
          BY <3>1, <3>2, <4>1 DEF OnDisk, Slot
        <4>2. CASE j = NDirect
          <5>1. Inode(t, g).ind = Inode(fs, g).ind /\ Seen(t, Inode(fs, g).ind) = Seen(fs, Inode(fs, g).ind)
            BY <1>4, <3>1, <3>2, <4>2 DEF OnDisk
          <5> QED
            BY <4>2, <5>1, Constants DEF Slot
        <4> QED
          BY <4>1, <4>2, Constants DEF Offsets
      <3>4. Reads(t, g, j, saved[g][j])
        BY <1>4, <3>1, <3>2, <3>3 DEF Reads, OnDisk
      <3>5. OnDisk(t, g, j)
        BY <1>2, <1>4, <3>1, <3>2, <3>3 DEF Reads, OnDisk
      <3> QED
        BY <1>0, <1>t, <3>4, <3>5 DEF KeptOK
    <2> QED
      BY <2>1, <2>2
  <1>6. crashes' \in 0..MaxCrashes
    BY <1>0, <1>1, Constants
  <1> QED
    BY <1>0, <1>1, <1>3, <1>5, <1>6, <1>t, Idle DEF Inv

-----------------------------------------------------------------------------
(***************************************************************************)
(* The invariant holds.                                                    *)
(***************************************************************************)
LEMMA InitInv == Init => Inv
  <1> SUFFICES ASSUME Init PROVE Inv
    OBVIOUS
  <1>d. PICK d, m : /\ d = [b \in All |-> IF b = BITMAP THEN Blocks ELSE IF b = DIR THEN [f \in Files |-> NoFile] ELSE 0]
                    /\ m = [b \in All |-> 0]
    OBVIOUS
  <1>0. /\ fs = [disk |-> d, mem |-> m, cached |-> {}, dirty |-> {}]
        /\ op = NoOp /\ written = Nothing /\ saved = Nothing /\ broken = "no" /\ crashes = 0
    BY <1>d DEF Init
  <1>1. NoFile \in Inodes
    BY Constants DEF NoFile, Inodes, Words, Sizes
  <1>2. \A b \in All : d[b] \in Contents(b)
    <2> SUFFICES ASSUME NEW b \in All PROVE d[b] \in Contents(b)
      OBVIOUS
    <2>1. CASE b = BITMAP
      BY <1>d, <2>1, ContentsAre
    <2>2. CASE b = DIR
      <3>1. d[b] = [f \in Files |-> NoFile]
        BY <1>d, <2>2, Constants
      <3> QED
        BY <1>1, <2>2, <3>1, ContentsAre
    <2>3. CASE b # BITMAP /\ b # DIR
      <3>1. d[b] = 0 /\ b \in Blocks
        BY <1>d, <2>3 DEF All
      <3> QED
        BY <3>1, ContentsAre DEF Words
    <2> QED
      BY <2>1, <2>2, <2>3
  <1>3. d \in [All -> AnyContents] /\ m \in [All -> AnyContents]
    <2>1. DOMAIN d = All /\ d = [b \in All |-> d[b]]
      BY <1>d
    <2>2. \A b \in All : d[b] \in AnyContents
      BY <1>2, ContentsAre
    <2>3. 0 \in AnyContents
      BY DEF AnyContents, Words
    <2>4. m \in [All -> AnyContents]
      BY <1>d, <2>3
    <2> HIDE <1>d
    <2>5. d \in [All -> AnyContents]
      BY <2>1, <2>2
    <2> QED
      BY <2>4, <2>5
  <1>4. Well(fs)
    <2>1. fs.disk = d /\ fs.mem = m /\ fs.cached = {} /\ fs.dirty = {}
      BY <1>0
    <2>2. fs \in Storage
      BY <1>0, <1>3 DEF Storage
    <2> QED
      BY <1>2, <2>1, <2>2 DEF Well
  <1>5. \A f \in Files : Inode(fs, f) = NoFile
    <2>1. Seen(fs, DIR) = d[DIR]
      BY <1>0 DEF Seen
    <2>2. d[DIR] = [f \in Files |-> NoFile]
      BY <1>d, Constants
    <2> QED
      BY <2>1, <2>2 DEF Inode
  <1>6. \A p \in Places : BlockAt(fs, p) = 0
    <2> SUFFICES ASSUME NEW p \in Places PROVE BlockAt(fs, p) = 0
      OBVIOUS
    <2>1. PICK g \in Files : p = <<g, NDirect + 1>> \/ \E j \in Offsets : p = <<g, j>>
      BY PlacesAre
    <2>2. CASE p = <<g, NDirect + 1>>
      <3>1. BlockAt(fs, p) = Inode(fs, g).ind
        BY <2>2, PlaceIs
      <3> QED
        BY <1>5, <3>1 DEF NoFile
    <2>3. CASE \E j \in Offsets : p = <<g, j>>
      <3>1. PICK j \in Offsets : p = <<g, j>>
        BY <2>3
      <3>2. BlockAt(fs, p) = Slot(fs, g, j)
        BY <3>1, PlaceIs
      <3>3. j < NDirect => j \in 0..(NDirect - 1)
        BY Constants DEF Offsets
      <3>4. Slot(fs, g, j) = 0
        <4>1. Inode(fs, g) = NoFile /\ NoFile.ind = 0 /\ NoFile.direct = [k \in 0..(NDirect - 1) |-> 0]
          BY <1>5 DEF NoFile
        <4>2. j < NDirect => NoFile.direct[j] = 0
          BY <3>3, <4>1
        <4> QED
          BY <4>1, <4>2 DEF Slot
      <3> QED
        BY <3>2, <3>4
    <2> QED
      BY <2>1, <2>2, <2>3
  <1>7. Sound(fs)
    BY <1>6 DEF Sound
  <1>8. written \in KeepType /\ saved \in KeepType /\ \A f \in Files, k \in Offsets : KeptOK(f, k)
    BY <1>0 DEF KeepType, Nothing, KeptOK
  <1>9. op \in OpType /\ OpOK
    BY <1>0, Idle DEF NoOp, OpOK
  <1> QED
    BY <1>0, <1>4, <1>7, <1>8, <1>9, Constants DEF Inv

LEMMA NextInv == Inv /\ [Next]_vars => Inv'
  <1> SUFFICES ASSUME Inv, [Next]_vars PROVE Inv'
    OBVIOUS
  <1>1. CASE UNCHANGED vars
    <2>1. Well(fs)' /\ Sound(fs)' = Sound(fs) /\ OpOK' = OpOK /\ \A f \in Files, k \in Offsets : KeptOK(f, k)' = KeptOK(f, k)
      BY <1>1 DEF vars, Inv, OpOK, KeptOK
    <2> QED
      BY <1>1, <2>1 DEF vars, Inv
  <1>2. CASE \E f \in Files : file_create(f) \/ serve_flush(f)
    BY <1>2, CreateStep, FlushBegin
  <1>3. CASE \E f \in Files, n \in Sizes : serve_set_size(f, n)
    BY <1>3, SetSizeStep
  <1>4. CASE \E f \in Files, k \in Asked : serve_read(f, k) \/ \E v \in Values : serve_write(f, k, v)
    BY <1>4, ReadStep, WriteStep
  <1>5. CASE set_size \/ file_block_walk \/ file_get_block \/ file_flush \/ serve_sync \/ fs_sync \/ crash
    BY <1>5, CutStep, WalkStep, GetBlockStep, FlushStep, SyncBegin, SyncStep, CrashStep
  <1> QED
    BY <1>1, <1>2, <1>3, <1>4, <1>5 DEF Next

LEMMA InvHolds == Spec => []Inv
  BY InitInv, NextInv, PTL DEF Spec

-----------------------------------------------------------------------------
(***************************************************************************)
(* What follows.                                                           *)
(***************************************************************************)
\* A page that was not changed since it was read or flushed is equal to its
\* block: no sequence of reads, stores and flushes (bc_pgfault and flush_block
\* of bc.c), with the machine stopping between any two of them, loses a change.
THEOREM BlocksCached == Spec => []CacheOK
  <1>1. Inv => CacheOK
    <2> SUFFICES ASSUME Inv PROVE CacheOK
      OBVIOUS
    <2>1. Well(fs)
      BY DEF Inv
    <2>2. DOMAIN fs = {"disk", "mem", "cached", "dirty"} /\ fs.cached \subseteq All
      BY <2>1 DEF Well, Storage
    <2>3. TypeOK
      BY <2>1, <2>2 DEF Inv, Well, TypeOK, OpType, KeepType
    <2>4. CleanIsOnDisk
      <3>1. fs.cached \subseteq All
        BY <2>2
      <3> QED
        BY <2>1, <3>1 DEF Well, CleanIsOnDisk
    <2> QED
      BY <2>3, <2>4 DEF CacheOK
  <1> QED
    BY <1>1, InvHolds, PTL

\* As long as no indirect block was taken uncleared and no crash left the disk
\* inconsistent, every block number in a file (f_direct, f_indirect and the
\* words of the indirect block) is of a block that the bitmap has in use and
\* that nothing else refers to: through file_get_block, file_truncate_blocks,
\* full disks and restarts (alloc_block, free_block, file_block_walk of fs.c).
THEOREM BlocksOwned == Spec => []Ownership
  <1>1. Inv => Ownership
    BY DEF Inv, Ownership
  <1> QED
    BY <1>1, InvHolds, PTL

\* Under the same condition, a block reads as what the last write put there
\* until the file is cut, and after a crash as what a finished file_flush or
\* fs_sync had on disk, whatever the other requests did in the meantime.
THEOREM ContentsStay == Spec => []ContentsKept
  <1>1. Inv => ContentsKept
    <2> SUFFICES ASSUME Inv, broken = "no", NEW f \in Files, NEW k \in Offsets, written[f][k] # NONE
                 PROVE  Slot(fs, f, k) # 0 /\ Seen(fs, Slot(fs, f, k)) = written[f][k]
      BY DEF ContentsKept
    <2>1. KeptOK(f, k)
      BY DEF Inv
    <2> QED
      BY <2>1 DEF KeptOK, Reads
  <1> QED
    BY <1>1, InvHolds, PTL
=============================================================================
