----------------------------- MODULE PmapProofs -----------------------------
(* Theorems about Pmap, for every number of environments, pages, addresses and *)
(* processors: reference counts, the free list, page tables and TLBs.          *)
EXTENDS Pmap, FiniteSetTheorems, TLAPS

USE PageAssumption, NumAssumption

-----------------------------------------------------------------------------
(* Places *)

Utop == <<"utop">>

\* The addresses a receive may name are of four kinds.
LEMMA AddressKinds ==
  /\ \A va \in VAs : va # UTOP /\ va \notin Windows /\ va \notin Beyond
  /\ UTOP \notin Windows /\ UTOP \notin Beyond /\ UTOP \notin VAs
  /\ \A va \in Windows : va[2] \in PDs
  /\ Beyond = Windows \cup {KMEM}
  BY SetAssumption DEF Beyond, Windows, Uvpt

LEMMA SiteKinds ==
  ASSUME NEW e \in Envs
  PROVE  /\ Dir(e) \in Sites /\ Dir(e) # Utop
         /\ \A d \in PDs : Table(e, d) \in Sites /\ Table(e, d) # Utop
         /\ \A va \in VAs \cup {UTOP} \cup Windows : Pte(e, va) \in Sites
         /\ \A va \in VAs : Pte(e, va) # Utop
         /\ Pte(e, UTOP) = Utop
  <1>1. Dir(e) \in Sites /\ \A d \in PDs : Table(e, d) \in Sites
    BY DEF Sites
  <1>2. \A va \in VAs \cup {UTOP} \cup Windows : Pte(e, va) \in Sites
    <2>1. \A va \in VAs \cup {UTOP} : Pte(e, va) \in Sites
      BY DEF Sites
    <2>2. \A va \in Windows : Pte(e, va) = Table(e, va[2])
      BY AddressKinds DEF Pte
    <2> QED
      BY <1>1, <2>1, <2>2, AddressKinds
  <1>3. Dir(e) # Utop /\ \A d \in PDs : Table(e, d) # Utop
    BY DEF Dir, Table, Utop
  <1>4. Pte(e, UTOP) = Utop /\ \A va \in VAs : Pte(e, va) # Utop
    BY AddressKinds DEF Pte, Utop
  <1> QED
    BY <1>1, <1>2, <1>3, <1>4

LEMMA SiteEqual ==
  ASSUME NEW e \in Envs, NEW f \in Envs
  PROVE  /\ Dir(e) = Dir(f) => e = f
         /\ \A c, d \in PDs : Table(e, c) = Table(f, d) => e = f /\ c = d
         /\ \A d \in PDs : Dir(e) # Table(f, d)
         /\ \A va, vb \in VAs : Pte(e, va) = Pte(f, vb) => e = f /\ va = vb
  BY AddressKinds DEF Dir, Table, Pte

LEMMA AddressHasTable == \A va \in VAs : PDX(va) \in PDs
  BY SetAssumption DEF PDX

\* The places of an environment, as env_free visits them.
LEMMA SitesOfKinds ==
  ASSUME NEW e \in Envs, NEW f \in Envs
  PROVE  /\ SitesOf(e) \subseteq Sites /\ Utop \notin SitesOf(e)
         /\ Dir(f) \in SitesOf(e) <=> e = f
         /\ \A d \in PDs : Table(f, d) \in SitesOf(e) <=> e = f
         /\ \A va \in VAs : Pte(f, va) \in SitesOf(e) <=> e = f
  <1>1. SitesOf(e) \subseteq Sites /\ Utop \notin SitesOf(e)
    BY SiteKinds DEF SitesOf
  <1>2. Dir(f) \in SitesOf(e) <=> e = f
    <2>1. \A va \in VAs : Dir(f) # Pte(e, va)
      BY AddressKinds DEF Dir, Pte
    <2> QED
      BY <2>1, SiteEqual DEF SitesOf
  <1>3. ASSUME NEW d \in PDs PROVE Table(f, d) \in SitesOf(e) <=> e = f
    <2>1. \A va \in VAs : Table(f, d) # Pte(e, va)
      BY AddressKinds DEF Table, Pte
    <2> QED
      BY <2>1, SiteEqual DEF SitesOf
  <1>4. ASSUME NEW va \in VAs PROVE Pte(f, va) \in SitesOf(e) <=> e = f
    <2>1. Pte(f, va) # Dir(e) /\ \A d \in PDs : Pte(f, va) # Table(e, d)
      BY AddressKinds DEF Table, Dir, Pte
    <2> QED
      BY <2>1, SiteEqual DEF SitesOf
  <1> QED
    BY <1>1, <1>2, <1>3, <1>4

LEMMA FiniteUnion ==
  ASSUME NEW A, NEW B, NEW C, IsFiniteSet(A), IsFiniteSet(B), IsFiniteSet(C)
  PROVE  IsFiniteSet(A \cup B \cup C)
  <1>1. IsFiniteSet(A \cup B)
    BY FS_Union
  <1> QED
    BY <1>1, FS_Union

\* There are finitely many places, so that they can be counted.
LEMMA SitesFinite == IsFiniteSet(Sites)
  <1> DEFINE A == {Dir(e) : e \in Envs}
             B == {Table(e, d) : e \in Envs, d \in PDs}
             C == {Pte(e, va) : e \in Envs, va \in VAs \cup {UTOP}}
             X == VAs \cup {UTOP}
  <1>1. IsFiniteSet(Envs \X PDs) /\ IsFiniteSet(X) /\ IsFiniteSet(Envs \X X)
    BY SetAssumption, FS_AddElement, FS_Product
  <1>2. IsFiniteSet(A)
    <2> DEFINE f == [e \in Envs |-> Dir(e)]
    <2>1. f \in Surjection(Envs, A)
      BY DEF Surjection
    <2> QED
      BY <2>1, FS_Surjection, SetAssumption
  <1>3. IsFiniteSet(B)
    <2> DEFINE f == [h \in Envs \X PDs |-> Table(h[1], h[2])]
    <2>1. f \in [Envs \X PDs -> B]
      OBVIOUS
    <2>2. ASSUME NEW t \in B PROVE \E h \in Envs \X PDs : f[h] = t
      <3>1. PICK e \in Envs, d \in PDs : t = Table(e, d)
        OBVIOUS
      <3>2. <<e, d>> \in Envs \X PDs /\ f[<<e, d>>] = t
        BY <3>1
      <3> QED
        BY <3>2
    <2>3. f \in Surjection(Envs \X PDs, B)
      BY <2>1, <2>2 DEF Surjection
    <2> QED
      BY <2>3, <1>1, FS_Surjection
  <1>4. IsFiniteSet(C)
    <2> DEFINE f == [h \in Envs \X X |-> Pte(h[1], h[2])]
    <2>1. f \in [Envs \X X -> C]
      OBVIOUS
    <2>2. ASSUME NEW t \in C PROVE \E h \in Envs \X X : f[h] = t
      <3>1. PICK e \in Envs, va \in X : t = Pte(e, va)
        OBVIOUS
      <3>2. <<e, va>> \in Envs \X X /\ f[<<e, va>>] = t
        BY <3>1
      <3> QED
        BY <3>2
    <2>3. f \in Surjection(Envs \X X, C)
      <3> HIDE DEF f, C, X
      <3> QED
        BY <2>1, <2>2 DEF Surjection
    <2> HIDE DEF f, C, X
    <2> QED
      BY <2>3, <1>1, FS_Surjection
  <1>5. Sites = A \cup B \cup C
    BY DEF Sites
  <1> HIDE DEF A, B, C
  <1> QED
    BY <1>2, <1>3, <1>4, <1>5, FiniteUnion

-----------------------------------------------------------------------------
(* Counts *)

Counts == 0..(RefMod - 1)

LEMMA CountSteps ==
  ASSUME NEW n \in Counts
  PROVE  /\ Incremented(n) \in Counts /\ Decremented(n) \in Counts
         /\ n + 1 < RefMod => Incremented(n) = n + 1
         /\ n > 0 => Decremented(n) = n - 1
         /\ n = 0 => Decremented(n) # 0
         /\ Decremented(Incremented(n)) = n
  BY DEF Counts, Incremented, Decremented

\* The places that hold a counted pointer to page p.
RefsIn(m, p) == {s \in Sites : Present(m.at[s]) /\ m.at[s].pa = p}

LEMMA RefsFinite ==
  ASSUME NEW m, NEW p
  PROVE  /\ IsFiniteSet(RefsIn(m, p)) /\ Cardinality(RefsIn(m, p)) \in Nat
         /\ Cardinality(RefsIn(m, p)) = 0 <=> RefsIn(m, p) = {}
  <1>1. RefsIn(m, p) \in SUBSET Sites
    BY DEF RefsIn
  <1> QED
    BY <1>1, SitesFinite, FS_Subset, FS_CardinalityType, FS_EmptySet

Stored(m, r, s, x) == r.at = [m.at EXCEPT ![s] = x]

\* What storing an entry does to the pointers and their number.
LEMMA StoreRefs ==
  ASSUME NEW m \in Memory, NEW r \in Memory, NEW s \in Sites, NEW x \in Entry, NEW p \in AllPages,
         Stored(m, r, s, x)
  PROVE  RefsIn(r, p) = IF Present(x) /\ x.pa = p THEN RefsIn(m, p) \cup {s} ELSE RefsIn(m, p) \ {s}
  BY DEF RefsIn, Memory, Stored

LEMMA CountOneMore ==
  ASSUME NEW m, NEW p, NEW s
  PROVE  /\ Cardinality(RefsIn(m, p) \cup {s}) =
               IF s \in RefsIn(m, p) THEN Cardinality(RefsIn(m, p)) ELSE Cardinality(RefsIn(m, p)) + 1
         /\ Cardinality(RefsIn(m, p) \ {s}) =
               IF s \in RefsIn(m, p) THEN Cardinality(RefsIn(m, p)) - 1 ELSE Cardinality(RefsIn(m, p))
  BY RefsFinite, FS_AddElement, FS_RemoveElement

-----------------------------------------------------------------------------
(* The invariant of a memory *)

\* Entries are empty or present; page directories and page tables are pages of
\* the allocator; the boot page that is mapped at UTOP is not one of them.
Shape(m) ==
    /\ m \in Memory
    /\ \A s \in Sites : m.at[s] = ZeroPte \/ Present(m.at[s])
    /\ \A s \in Sites : m.at[s].pa = EnvsPage => s = Utop /\ m.ref[EnvsPage] = 0
    /\ \A e \in Envs : /\ m.at[Dir(e)].pa \in Pages \cup {ZeroPage}
                       /\ \A d \in PDs : m.at[Table(e, d)].pa \in Pages \cup {ZeroPage}
                       /\ Present(m.at[Dir(e)]) => m.at[Dir(e)].pa \in Pages
                       /\ \A d \in PDs : Present(m.at[Table(e, d)]) => m.at[Table(e, d)].pa \in Pages
    /\ EnvsPage \notin m.free

\* pp_ref counts the pointers.
Exact(m) == \A p \in Pages : m.ref[p] = Cardinality(RefsIn(m, p))

\* The free list has the pages nobody points to, except x, which was taken from it.
Linked(m, x) == \A p \in Pages : p \in m.free <=> RefsIn(m, p) = {} /\ p # x

\* No page has more pointers than pp_ref can count.
Few(m) == \A p \in Pages : Cardinality(RefsIn(m, p)) < RefMod

LEMMA EntryFacts ==
  /\ ZeroPte \in Entry /\ ~Present(ZeroPte) /\ ZeroPte.pa = ZeroPage
  /\ \A p \in AllPages, perm \in SUBSET Bits :
        /\ [pa |-> p, perm |-> perm \cup {"P"}] \in Entry
        /\ Present([pa |-> p, perm |-> perm \cup {"P"}])
  /\ \A p \in AllPages : [pa |-> p, perm |-> {"P", "U", "W"}] \in Entry /\ [pa |-> p, perm |-> {"P"}] \in Entry
  /\ ZeroPage \in AllPages /\ EnvsPage \in AllPages /\ Pages \subseteq AllPages /\ NULL \notin AllPages
  BY NullAssumption DEF ZeroPte, Entry, Present, Bits, AllPages

-----------------------------------------------------------------------------
(* page_alloc, pgdir_walk *)

LEMMA AllocEffect ==
  ASSUME NEW m, Shape(m), Exact(m), Linked(m, NULL), NEW p \in m.free, p # ZeroPage
  PROVE  LET n == page_alloc(m, p) IN
         /\ p \in Pages /\ RefsIn(m, p) = {} /\ m.ref[p] = 0
         /\ Shape(n) /\ Exact(n) /\ Linked(n, p)
         /\ n.at = m.at /\ n.ref = m.ref /\ n.panic = m.panic /\ n.free = m.free \ {p}
         /\ \A x : RefsIn(n, x) = RefsIn(m, x)
  <1> DEFINE n == page_alloc(m, p)
  <1>1. p \in Pages
    BY DEF Shape, Memory, AllPages
  <1>2. RefsIn(m, p) = {} /\ m.ref[p] = 0
    BY <1>1, RefsFinite DEF Linked, Exact
  <1>3. n.at = m.at /\ n.ref = m.ref /\ n.panic = m.panic /\ n.free = m.free \ {p} /\ n \in Memory
    BY DEF page_alloc, Shape, Memory
  <1>4. \A x : RefsIn(n, x) = RefsIn(m, x)
    BY <1>3 DEF RefsIn
  <1> HIDE DEF n
  <1>5. Shape(n)
    BY <1>3 DEF Shape
  <1>6. Exact(n)
    BY <1>3, <1>4 DEF Exact
  <1>7. Linked(n, p)
    BY <1>3, <1>4, EntryFacts DEF Linked
  <1> QED
    BY <1>1, <1>2, <1>3, <1>4, <1>5, <1>6, <1>7 DEF n

\* What becomes of a memory when a page table is made.
Walked(m, n, e, va, q) ==
    /\ va \in VAs /\ q \in m.free
    /\ m.at[Table(e, PDX(va))] = ZeroPte
    /\ n.free = m.free \ {q} /\ n.panic = m.panic
    /\ n.ref = [m.ref EXCEPT ![q] = Incremented(@)]
    /\ n.at = [m.at EXCEPT ![Table(e, PDX(va))] = [pa |-> q, perm |-> {"P", "U", "W"}]]

LEMMA WalkEffect ==
  ASSUME NEW m, m \in Memory, NEW e \in Envs, NEW va \in VAs \cup {UTOP} \cup Windows, NEW q \in Available(m),
         ~InsertFails(m, e, va, q)
  PROVE  LET n == pgdir_walk(m, e, va, q) IN
         /\ n \in Memory /\ HasTable(n, e, va) /\ n.at[Pte(e, va)] = m.at[Pte(e, va)]
         /\ n = m \/ Walked(m, n, e, va, q)
  <1> DEFINE n == pgdir_walk(m, e, va, q)
  <1>1. CASE HasTable(m, e, va)
    BY <1>1 DEF pgdir_walk
  <1>2. CASE ~HasTable(m, e, va)
    <2> DEFINE t == Table(e, PDX(va))
               x == [pa |-> q, perm |-> {"P", "U", "W"}]
    <2>1. va \in VAs /\ m.at[t] = ZeroPte
      BY <1>2 DEF HasTable
    <2>2. q \in m.free /\ q \in AllPages
      BY <1>2 DEF Available, InsertFails, Memory
    <2>3. t \in Sites /\ t # Pte(e, va)
      <3>1. t # Pte(e, va)
        BY AddressKinds, <2>1 DEF Table, Pte
      <3> QED
        BY <3>1, <2>1, SiteKinds, AddressHasTable
    <2>4. x \in Entry /\ x # ZeroPte
      BY <2>2, EntryFacts DEF ZeroPte
    <2>5. n = [ref |-> [m.ref EXCEPT ![q] = Incremented(@)], free |-> m.free \ {q},
               at |-> [m.at EXCEPT ![t] = x], panic |-> m.panic]
      BY <1>2, <2>2, <2>3 DEF pgdir_walk, page_alloc, Store, Memory
    <2>6. n \in Memory
      BY <2>2, <2>3, <2>4, <2>5, CountSteps DEF Memory, Counts
    <2>7. n.at[t] = x /\ n.at[Pte(e, va)] = m.at[Pte(e, va)]
      BY <2>3, <2>5, SiteKinds DEF Memory
    <2> QED
      BY <2>1, <2>2, <2>4, <2>5, <2>6, <2>7 DEF Walked, HasTable
  <1> QED
    BY <1>1, <1>2

LEMMA WalkKeeps ==
  ASSUME NEW m, Shape(m), Exact(m), NEW x, Linked(m, x), ZeroPage \notin m.free,
         NEW n, n \in Memory, NEW e \in Envs, NEW va, NEW q, Walked(m, n, e, va, q)
  PROVE  /\ q \in Pages /\ q # x /\ RefsIn(m, q) = {}
         /\ Shape(n) /\ Exact(n) /\ Linked(n, x) /\ ZeroPage \notin n.free
         /\ RefsIn(n, q) = {Table(e, PDX(va))}
         /\ \A y : y # q => RefsIn(n, y) = RefsIn(m, y)
  <1> DEFINE t == Table(e, PDX(va))
  <1>1. q \in Pages /\ q # x /\ RefsIn(m, q) = {} /\ m.ref[q] = 0
    <2>1. q \in Pages
      BY DEF Shape, Memory, AllPages, Walked
    <2> QED
      BY <2>1, RefsFinite DEF Linked, Exact, Walked
  <1>2. t \in Sites /\ t # Utop
    BY SiteKinds, AddressHasTable DEF Walked
  <1>3. RefsIn(n, q) = {t}
    BY <1>1, <1>2 DEF RefsIn, Walked, Shape, Memory, Present
  <1>4. ASSUME NEW y, y # q PROVE RefsIn(n, y) = RefsIn(m, y)
    <2>1. ~Present(m.at[t])
      BY EntryFacts DEF Walked
    <2> QED
      BY <1>2, <1>4, <2>1 DEF RefsIn, Walked, Shape, Memory
  <1>5. Exact(n)
    <2>1. n.ref[q] = 1
      BY <1>1, CountSteps DEF Walked, Shape, Memory, Counts, AllPages
    <2>2. \A y \in Pages : y # q => n.ref[y] = m.ref[y]
      BY DEF Walked, Shape, Memory, AllPages
    <2> QED
      BY <1>3, <1>4, <2>1, <2>2, FS_Singleton DEF Exact
  <1>6. Linked(n, x)
    BY <1>1, <1>3, <1>4 DEF Linked, Walked
  <1>7. Shape(n)
    <2>1. \A s \in Sites : s # t => n.at[s] = m.at[s]
      BY DEF Walked, Shape, Memory
    <2>2. n.at[t] = [pa |-> q, perm |-> {"P", "U", "W"}] /\ Present(n.at[t])
      BY <1>2 DEF Walked, Shape, Memory, Present
    <2>3. n.ref[EnvsPage] = m.ref[EnvsPage]
      BY <1>1 DEF Walked, Shape, Memory, AllPages
    <2>4. \A s \in Sites : n.at[s] = ZeroPte \/ Present(n.at[s])
      BY <2>1, <2>2 DEF Shape
    <2>5. \A s \in Sites : n.at[s].pa = EnvsPage => s = Utop /\ n.ref[EnvsPage] = 0
      BY <1>1, <2>1, <2>2, <2>3 DEF Shape
    <2>6. ASSUME NEW s \in Sites, m.at[s].pa \in Pages \cup {ZeroPage}, Present(m.at[s]) => m.at[s].pa \in Pages
          PROVE  n.at[s].pa \in Pages \cup {ZeroPage} /\ (Present(n.at[s]) => n.at[s].pa \in Pages)
      BY <1>1, <2>1, <2>2, <2>6
    <2> QED
      BY <2>4, <2>5, <2>6, SiteKinds DEF Shape, Walked
  <1> QED
    BY <1>1, <1>3, <1>4, <1>5, <1>6, <1>7 DEF Walked

-----------------------------------------------------------------------------
(* page_remove, page_insert *)

\* page_decref of a page, seen from the memory r after it.
Dropped(m, r, p) ==
    /\ r.ref = [m.ref EXCEPT ![p] = Decremented(@)]
    /\ r.free = IF r.ref[p] = 0 /\ p \notin m.free THEN m.free \cup {p} ELSE m.free
    /\ r.panic = (m.panic \/ (r.ref[p] = 0 /\ p \in m.free))

LEMMA DecrefEffect ==
  ASSUME NEW m, m \in Memory, NEW p \in AllPages
  PROVE  LET r == page_decref(m, p) IN r \in Memory /\ r.at = m.at /\ Dropped(m, r, p)
  <1> DEFINE n == [m EXCEPT !.ref[p] = Decremented(@)]
             r == page_decref(m, p)
  <1>1. n = [ref |-> [m.ref EXCEPT ![p] = Decremented(@)], free |-> m.free, at |-> m.at, panic |-> m.panic]
    BY DEF Memory
  <1>2. n \in Memory /\ m.panic \in BOOLEAN
    BY <1>1, CountSteps DEF Memory, Counts
  <1>3. r = IF n.ref[p] = 0 THEN page_free(n, p) ELSE n
    BY DEF page_decref
  <1> HIDE DEF n, r
  <1>4. CASE n.ref[p] # 0
    BY <1>1, <1>2, <1>3, <1>4 DEF Dropped, n, r
  <1>5. CASE n.ref[p] = 0 /\ p \in n.free
    <2>1. r = [n EXCEPT !.panic = TRUE]
      BY <1>3, <1>5 DEF page_free
    <2>2. r = [ref |-> n.ref, free |-> n.free, at |-> n.at, panic |-> TRUE]
      BY <2>1, <1>2 DEF Memory
    <2>3. r \in Memory /\ r.at = m.at /\ r.ref = [m.ref EXCEPT ![p] = Decremented(@)] /\ r.free = m.free
      BY <2>2, <1>1, <1>2 DEF Memory
    <2>4. r.panic = TRUE /\ r.ref[p] = 0 /\ p \in m.free
      BY <2>2, <1>1, <1>5
    <2> QED
      BY <2>3, <2>4 DEF Dropped, r
  <1>6. CASE n.ref[p] = 0 /\ p \notin n.free
    <2>1. r = [n EXCEPT !.free = @ \cup {p}]
      BY <1>3, <1>6 DEF page_free
    <2>2. r = [ref |-> n.ref, free |-> n.free \cup {p}, at |-> n.at, panic |-> n.panic]
      BY <2>1, <1>2 DEF Memory
    <2> QED
      BY <2>2, <1>1, <1>2, <1>6 DEF Dropped, Memory, r
  <1> QED
    BY <1>4, <1>5, <1>6

LEMMA StoreEffect ==
  ASSUME NEW m, m \in Memory, NEW s \in Sites, NEW x \in Entry
  PROVE  LET r == Store(m, s, x) IN
         /\ r \in Memory /\ r.at = [m.at EXCEPT ![s] = x]
         /\ r.ref = m.ref /\ r.free = m.free /\ r.panic = m.panic
  BY DEF Store, Memory

LEMMA RemoveEffect ==
  ASSUME NEW m, m \in Memory, NEW e \in Envs, NEW va \in VAs \cup {UTOP} \cup Windows
  PROVE  LET r == page_remove(m, e, va)  s == Pte(e, va) IN
         /\ r \in Memory
         /\ ~HasTable(m, e, va) => r = m
         /\ HasTable(m, e, va) => r.at = [m.at EXCEPT ![s] = ZeroPte] /\ Dropped(m, r, m.at[s].pa)
  <1> DEFINE s == Pte(e, va)
             d == page_decref(m, m.at[s].pa)
  <1>1. s \in Sites /\ m.at[s].pa \in AllPages
    BY SiteKinds DEF Memory, Entry
  <1>2. d \in Memory /\ d.at = m.at /\ Dropped(m, d, m.at[s].pa)
    BY <1>1, DecrefEffect
  <1>3. CASE HasTable(m, e, va)
    <2>1. page_remove(m, e, va) = Store(d, s, ZeroPte)
      BY <1>3 DEF page_remove
    <2> DEFINE r == Store(d, s, ZeroPte)
    <2>2. r \in Memory /\ r.at = [d.at EXCEPT ![s] = ZeroPte] /\ r.ref = d.ref /\ r.free = d.free /\ r.panic = d.panic
      BY <1>1, <1>2, StoreEffect, EntryFacts
    <2> HIDE DEF r, d
    <2>3. r.at = [m.at EXCEPT ![s] = ZeroPte] /\ Dropped(m, r, m.at[s].pa)
      BY <1>2, <2>2 DEF Dropped
    <2> QED
      BY <1>3, <2>1, <2>2, <2>3 DEF r
  <1> QED
    BY <1>3 DEF page_remove

\* What page_insert does once there is a page table.
Inserted(n, r, s, p, perm) ==
    /\ r.at = [n.at EXCEPT ![s] = [pa |-> p, perm |-> perm \cup {"P"}]]
    /\ \E m \in Memory : m.ref = [n.ref EXCEPT ![p] = Incremented(@)] /\ m.free = n.free
                         /\ m.panic = n.panic /\ Dropped(m, r, n.at[s].pa)

LEMMA InsertEffect ==
  ASSUME NEW m, m \in Memory, NEW e \in Envs, NEW va \in VAs \cup {UTOP} \cup Windows, NEW q \in Available(m),
         ~InsertFails(m, e, va, q), NEW p \in AllPages, NEW perm \in SUBSET Bits
  PROVE  LET r == page_insert(m, e, p, va, perm, q) IN
         r \in Memory /\ Inserted(pgdir_walk(m, e, va, q), r, Pte(e, va), p, perm)
  <1> DEFINE w == pgdir_walk(m, e, va, q)
             n == [w EXCEPT !.ref[p] = Incremented(@)]
             s == Pte(e, va)
             x == [pa |-> p, perm |-> perm \cup {"P"}]
             d == page_remove(n, e, va)
  <1>1. w \in Memory /\ HasTable(w, e, va)
    BY WalkEffect
  <1>2. page_insert(m, e, p, va, perm, q) = Store(d, s, x)
    BY DEF page_insert
  <1> HIDE DEF w
  <1>3. n = [ref |-> [w.ref EXCEPT ![p] = Incremented(@)], free |-> w.free, at |-> w.at, panic |-> w.panic]
    BY <1>1 DEF Memory
  <1>4. n \in Memory
    BY <1>1, <1>3, CountSteps DEF Memory, Counts
  <1>5. n.ref = [w.ref EXCEPT ![p] = Incremented(@)] /\ n.free = w.free /\ n.at = w.at /\ n.panic = w.panic
    BY <1>3
  <1> HIDE DEF n
  <1>6. HasTable(n, e, va)
    BY <1>1, <1>5 DEF HasTable
  <1>7. d \in Memory /\ d.at = [n.at EXCEPT ![s] = ZeroPte] /\ Dropped(n, d, n.at[s].pa)
    BY <1>4, <1>6, RemoveEffect
  <1>8. s \in Sites /\ x \in Entry
    BY SiteKinds, EntryFacts
  <1> HIDE DEF d, s, x
  <1> DEFINE r == Store(d, s, x)
  <1>9. r \in Memory /\ r.at = [d.at EXCEPT ![s] = x] /\ r.ref = d.ref /\ r.free = d.free /\ r.panic = d.panic
    BY <1>7, <1>8, StoreEffect
  <1>10. r.at = [w.at EXCEPT ![s] = x]
    <2>1. w.at \in [Sites -> Entry]
      BY <1>1 DEF Memory
    <2> QED
      BY <2>1, <1>5, <1>7, <1>8, <1>9
  <1>11. Dropped(n, r, w.at[s].pa)
    BY <1>5, <1>7, <1>9 DEF Dropped
  <1> HIDE DEF r
  <1>12. Inserted(w, r, s, p, perm)
    BY <1>4, <1>5, <1>7, <1>10, <1>11 DEF Inserted, x
  <1> QED
    BY <1>2, <1>9, <1>12 DEF w, s, r

\* One mapping goes and one comes: counts and free list stay right.  p is in use
\* already or was just taken from the free list.
LEMMA InsertKeeps ==
  ASSUME NEW n, Shape(n), Exact(n), NEW p \in Pages \cup {ZeroPage}, Linked(n, p), ZeroPage \notin n.free,
         NEW e \in Envs, NEW va \in VAs \cup {UTOP}, NEW perm \in SUBSET Bits,
         NEW r \in Memory, Inserted(n, r, Pte(e, va), p, perm), Few(r)
  PROVE  Shape(r) /\ Exact(r) /\ Linked(r, NULL) /\ r.panic = n.panic
  <1> DEFINE s == Pte(e, va)
             x == [pa |-> p, perm |-> perm \cup {"P"}]
             old == n.at[s].pa
  <1> PICK m \in Memory : m.ref = [n.ref EXCEPT ![p] = Incremented(@)] /\ m.free = n.free
                          /\ m.panic = n.panic /\ Dropped(m, r, old)
    BY DEF Inserted
  <1>0. n \in Memory
    BY DEF Shape
  <1>1. s \in Sites /\ x \in Entry /\ Present(x) /\ x.pa = p /\ x # ZeroPte
    <2>1. p \in AllPages
      BY EntryFacts
    <2> QED
      BY <2>1, SiteKinds, EntryFacts
  <1>2. /\ n.at \in [Sites -> Entry] /\ n.ref \in [AllPages -> Counts] /\ n.panic \in BOOLEAN
        /\ m.ref \in [AllPages -> Counts] /\ r.at \in [Sites -> Entry] /\ r.ref \in [AllPages -> Counts]
        /\ n.free \subseteq AllPages /\ old \in AllPages
    BY <1>1 DEF Shape, Memory, Entry, Counts
  <1>3. Stored(n, r, s, x)
    BY DEF Inserted, Stored
  <1>4. p \in AllPages /\ ZeroPage \in AllPages /\ EnvsPage \in AllPages /\ Pages \subseteq AllPages
    BY EntryFacts
  <1>5. /\ r.ref = [m.ref EXCEPT ![old] = Decremented(@)]
        /\ r.free = IF r.ref[old] = 0 /\ old \notin n.free THEN n.free \cup {old} ELSE n.free
        /\ r.panic = (n.panic \/ (r.ref[old] = 0 /\ old \in n.free))
    BY DEF Dropped
  <1> HIDE DEF s, x, old
  \* The pointers to a page y in use.
  <1>6. ASSUME NEW y \in Pages
        PROVE  /\ y = p => RefsIn(r, y) = RefsIn(n, y) \cup {s}
               /\ y # p => RefsIn(r, y) = RefsIn(n, y) \ {s}
               /\ y = p => s \in RefsIn(r, y)
    <2>1. RefsIn(r, y) = IF Present(x) /\ x.pa = y THEN RefsIn(n, y) \cup {s} ELSE RefsIn(n, y) \ {s}
      <3>1. y \in AllPages
        BY <1>4
      <3> QED
        BY <1>0, <1>1, <1>3, <3>1, StoreRefs
    <2>2. (y = p) <=> (Present(x) /\ x.pa = y)
      BY <1>1
    <2> QED
      BY <2>1, <2>2
  <1>7. ASSUME NEW y \in Pages PROVE y = old <=> s \in RefsIn(n, y)
    <2>1. n.at[s] = ZeroPte \/ Present(n.at[s])
      BY <1>1 DEF Shape
    <2>2. n.at[s] = ZeroPte => old # y
      BY EntryFacts DEF old
    <2> QED
      BY <1>1, <2>1, <2>2 DEF RefsIn, old
  <1>8. ASSUME NEW y \in Pages PROVE r.ref[y] = Cardinality(RefsIn(r, y))
    <2>1. /\ y = p /\ y # old => Cardinality(RefsIn(r, y)) = Cardinality(RefsIn(n, y)) + 1
          /\ y = p /\ y = old => Cardinality(RefsIn(r, y)) = Cardinality(RefsIn(n, y))
          /\ y # p /\ y = old => Cardinality(RefsIn(r, y)) = Cardinality(RefsIn(n, y)) - 1
          /\ y # p /\ y # old => Cardinality(RefsIn(r, y)) = Cardinality(RefsIn(n, y))
      <3>1. /\ Cardinality(RefsIn(n, y) \cup {s}) =
                 IF s \in RefsIn(n, y) THEN Cardinality(RefsIn(n, y)) ELSE Cardinality(RefsIn(n, y)) + 1
            /\ Cardinality(RefsIn(n, y) \ {s}) =
                 IF s \in RefsIn(n, y) THEN Cardinality(RefsIn(n, y)) - 1 ELSE Cardinality(RefsIn(n, y))
        BY CountOneMore
      <3> QED
        BY <3>1, <1>6, <1>7
    <2>2. /\ n.ref[y] = Cardinality(RefsIn(n, y)) /\ n.ref[y] \in Counts
          /\ Cardinality(RefsIn(r, y)) < RefMod /\ Cardinality(RefsIn(r, y)) \in Nat
      BY <1>2, <1>4, RefsFinite DEF Exact, Few
    <2>3. /\ y # p /\ y # old => r.ref[y] = n.ref[y]
          /\ y # p /\ y = old => r.ref[y] = Decremented(n.ref[y])
          /\ y = p /\ y # old => r.ref[y] = Incremented(n.ref[y])
          /\ y = p /\ y = old => r.ref[y] = Decremented(Incremented(n.ref[y]))
      BY <1>2, <1>4, <1>5
    <2>4. y = old => n.ref[y] > 0
      <3>1. y = old => RefsIn(n, y) # {}
        BY <1>7
      <3> QED
        BY <3>1, <2>2, RefsFinite DEF Counts
    <2> QED
      BY <2>1, <2>2, <2>3, <2>4, CountSteps DEF Counts
  <1>9. old \notin n.free \/ r.ref[old] # 0
    <2>1. CASE old \in Pages
      BY <2>1, <1>7 DEF Linked
    <2>2. CASE old \notin Pages
      BY <2>2, <1>2 DEF AllPages, Shape
    <2> QED
      BY <2>1, <2>2
  <1>10. ASSUME NEW y \in Pages PROVE y \in r.free <=> RefsIn(r, y) = {} /\ y # NULL
    <2>1. y # NULL
      BY <1>4, EntryFacts
    <2>2. CASE y = p
      <3>1. RefsIn(r, y) # {} /\ r.ref[y] # 0
        BY <2>2, <1>6, <1>8, RefsFinite
      <3>2. y \notin n.free
        BY <2>2 DEF Linked
      <3> QED
        BY <3>1, <3>2, <1>5
    <2>3. CASE y # p /\ y = old
      <3>1. y \notin n.free
        BY <2>3, <1>7 DEF Linked
      <3>2. r.ref[y] = 0 <=> RefsIn(r, y) = {}
        BY <1>8, RefsFinite
      <3> QED
        BY <2>1, <2>3, <3>1, <3>2, <1>5
    <2>4. CASE y # p /\ y # old
      <3>1. RefsIn(r, y) = RefsIn(n, y)
        BY <2>4, <1>6, <1>7
      <3> QED
        BY <2>1, <2>4, <3>1, <1>5 DEF Linked
    <2> QED
      BY <2>2, <2>3, <2>4
  <1>11. Shape(r)
    <2>1. \A y \in Sites : y # s => r.at[y] = n.at[y]
      BY <1>2, <1>3 DEF Stored
    <2>2. r.at[s] = x
      BY <1>1, <1>2, <1>3 DEF Stored
    <2>3. \A y \in Sites : r.at[y] = ZeroPte \/ Present(r.at[y])
      BY <1>1, <2>1, <2>2 DEF Shape
    <2>4. ASSUME NEW y \in Sites, r.at[y].pa = EnvsPage PROVE y = Utop /\ r.ref[EnvsPage] = 0
      <3>1. y # s /\ n.at[y].pa = EnvsPage
        BY <1>1, <2>1, <2>2, <2>4
      <3>2. y = Utop /\ n.ref[EnvsPage] = 0 /\ old # EnvsPage
        BY <3>1, <1>1 DEF Shape, old
      <3> QED
        BY <3>2, <1>2, <1>4, <1>5
    <2>5. EnvsPage \notin r.free
      <3>1. CASE old = EnvsPage
        <4>1. n.ref[EnvsPage] = 0
          BY <3>1, <1>1 DEF Shape, old
        <4>2. r.ref[EnvsPage] = Decremented(n.ref[EnvsPage])
          BY <3>1, <1>2, <1>4, <1>5
        <4>3. r.ref[EnvsPage] # 0
          BY <4>1, <4>2, CountSteps DEF Counts
        <4> QED
          BY <3>1, <4>3, <1>5 DEF Shape
      <3> QED
        BY <3>1, <1>5 DEF Shape
    <2>6. ASSUME NEW f \in Envs
          PROVE  /\ r.at[Dir(f)] = n.at[Dir(f)]
                 /\ \A d \in PDs : r.at[Table(f, d)] = n.at[Table(f, d)]
      <3>1. Dir(f) # s /\ \A d \in PDs : Table(f, d) # s
        BY AddressKinds DEF s, Pte, Dir, Table
      <3> QED
        BY <3>1, <2>1, SiteKinds
    <2> QED
      BY <2>3, <2>4, <2>5, <2>6 DEF Shape
  <1>12. r.panic = n.panic
    BY <1>2, <1>5, <1>9
  <1> QED
    BY <1>8, <1>10, <1>11, <1>12 DEF Exact, Linked

-----------------------------------------------------------------------------
(* The trees of page tables *)

Tables == {Dir(e) : e \in Envs} \cup {Table(e, d) : e \in Envs, d \in PDs}

\* No page directory or page table holds page p.
NoTable(m, p) == \A t \in Tables : Present(m.at[t]) => m.at[t].pa # p

Private(m) == \A s \in Sites, t \in Tables :
                 Present(m.at[s]) /\ Present(m.at[t]) /\ s # t => m.at[s].pa # m.at[t].pa
Below(m) == \A e \in Envs :
               /\ \A d \in PDs : Present(m.at[Table(e, d)]) => Present(m.at[Dir(e)])
               /\ \A va \in VAs : Present(m.at[Pte(e, va)]) => Present(m.at[Table(e, PDX(va))])
Tree(m) == Private(m) /\ Below(m)

LEMMA TableSites ==
  /\ Tables \subseteq Sites /\ Utop \notin Tables
  /\ \A e \in Envs, va \in VAs \cup {UTOP} : Pte(e, va) \notin Tables
  /\ \A e \in Envs : Dir(e) \in Tables /\ \A d \in PDs : Table(e, d) \in Tables
  /\ \A e, f \in Envs, va \in VAs \cup {UTOP} : Dir(f) # Pte(e, va) /\ \A d \in PDs : Table(f, d) # Pte(e, va)
  <1>1. \A e, f \in Envs, va \in VAs \cup {UTOP} : Dir(f) # Pte(e, va) /\ \A d \in PDs : Table(f, d) # Pte(e, va)
    BY AddressKinds DEF Dir, Table, Pte
  <1>2. Tables \subseteq Sites /\ Utop \notin Tables
    BY SiteKinds DEF Tables
  <1>3. \A e \in Envs : Dir(e) \in Tables /\ \A d \in PDs : Table(e, d) \in Tables
    BY DEF Tables
  <1>4. \A e \in Envs, va \in VAs \cup {UTOP} : Pte(e, va) \notin Tables
    BY <1>1 DEF Tables
  <1> QED
    BY <1>1, <1>2, <1>3, <1>4

\* A new page directory or page table.
LEMMA TableTree ==
  ASSUME NEW m, Shape(m), Tree(m), NEW n, n \in Memory, NEW e \in Envs, NEW t \in Tables,
         t = Dir(e) \/ (Present(m.at[Dir(e)]) /\ \E d \in PDs : t = Table(e, d)),
         NEW q \in Pages, RefsIn(m, q) = {}, NEW perm, "P" \in perm,
         n.at = [m.at EXCEPT ![t] = [pa |-> q, perm |-> perm]]
  PROVE  Tree(n) /\ \A p : p # q /\ NoTable(m, p) => NoTable(n, p)
  <1> DEFINE x == [pa |-> q, perm |-> perm]
  <1>1. t \in Sites /\ Present(x) /\ x.pa = q
    BY TableSites DEF Present
  <1>2. n.at[t] = x /\ \A s \in Sites : s # t => n.at[s] = m.at[s]
    BY <1>1 DEF Shape, Memory
  <1>3. \A s \in Sites : Present(m.at[s]) => m.at[s].pa # q
    BY DEF RefsIn
  <1> HIDE DEF x
  <1>4. Private(n)
    BY <1>1, <1>2, <1>3, TableSites DEF Private, Tree
  <1>5. Below(n)
    <2>1. \A s \in Sites : Present(m.at[s]) => Present(n.at[s])
      BY <1>1, <1>2
    <2>2. ASSUME NEW f \in Envs, NEW d \in PDs, Present(n.at[Table(f, d)]) PROVE Present(n.at[Dir(f)])
      <3>1. CASE Table(f, d) = t
        BY <3>1, <2>1, SiteEqual, SiteKinds
      <3>2. CASE Table(f, d) # t
        BY <2>2, <3>2, <1>2, <2>1, SiteKinds DEF Tree, Below
      <3> QED
        BY <3>1, <3>2
    <2>3. ASSUME NEW f \in Envs, NEW va \in VAs, Present(n.at[Pte(f, va)]) PROVE Present(n.at[Table(f, PDX(va))])
      <3>1. Pte(f, va) # t /\ Pte(f, va) \in Sites /\ Table(f, PDX(va)) \in Sites
        BY TableSites, SiteKinds, AddressHasTable
      <3> QED
        BY <2>3, <3>1, <1>2, <2>1 DEF Tree, Below
    <2> QED
      BY <2>2, <2>3 DEF Below
  <1> QED
    BY <1>1, <1>2, <1>4, <1>5, TableSites DEF Tree, NoTable

\* An entry of a page table is stored or cleared.
LEMMA EntryTree ==
  ASSUME NEW m, Shape(m), Tree(m), NEW n, n \in Memory, NEW e \in Envs, NEW va \in VAs \cup {UTOP}, NEW x,
         Present(x) => NoTable(m, x.pa) /\ (va = UTOP \/ Present(m.at[Table(e, PDX(va))])),
         n.at = [m.at EXCEPT ![Pte(e, va)] = x]
  PROVE  Tree(n) /\ \A p : NoTable(m, p) => NoTable(n, p)
  <1> DEFINE s == Pte(e, va)
  <1>1. s \in Sites /\ s \notin Tables
    BY TableSites, SiteKinds
  <1>2. n.at[s] = x /\ \A y \in Sites : y # s => n.at[y] = m.at[y]
    BY <1>1 DEF Shape, Memory
  <1>3. \A t \in Tables : n.at[t] = m.at[t]
    BY <1>1, <1>2, TableSites
  <1>4. Private(n)
    BY <1>2, <1>3 DEF Private, Tree, NoTable
  <1>5. ASSUME NEW f \in Envs, NEW vb \in VAs, Present(n.at[Pte(f, vb)]) PROVE Present(n.at[Table(f, PDX(vb))])
    <2>1. Pte(f, vb) \in Sites /\ Table(f, PDX(vb)) \in Tables
      BY TableSites, SiteKinds, AddressHasTable
    <2>2. CASE Pte(f, vb) = s
      <3>1. va \in VAs /\ f = e /\ vb = va
        BY <2>2, SiteEqual, SiteKinds
      <3> QED
        BY <1>2, <1>3, <1>5, <2>1, <2>2, <3>1, SetAssumption
    <2>3. CASE Pte(f, vb) # s
      BY <1>2, <1>3, <1>5, <2>1, <2>3 DEF Tree, Below
    <2> QED
      BY <2>2, <2>3
  <1>6. Below(n)
    BY <1>3, <1>5, TableSites DEF Below, Tree
  <1> QED
    BY <1>3, <1>4, <1>6 DEF Tree, NoTable

-----------------------------------------------------------------------------
(* The operations on a sound memory *)

Sound(m, x) == Shape(m) /\ Exact(m) /\ Linked(m, x) /\ Tree(m)

\* The entries that page_insert may change besides its own: it makes a page table.
GrowsTable(m, r, s, p) ==
    /\ m.at[s] = ZeroPte /\ \E f \in Envs, d \in PDs : s = Table(f, d)
    /\ \E q \in Pages : q # p /\ RefsIn(m, q) = {} /\ r.at[s] = [pa |-> q, perm |-> {"P", "U", "W"}]

LEMMA WalkSound ==
  ASSUME NEW m, NEW p, Sound(m, p), ZeroPage \notin m.free, NoTable(m, p),
         NEW e \in Envs, NEW va \in VAs \cup {UTOP}, Present(m.at[Dir(e)]),
         NEW q \in Available(m), ~InsertFails(m, e, va, q)
  PROVE  LET n == pgdir_walk(m, e, va, q) IN
         /\ Sound(n, p) /\ ZeroPage \notin n.free /\ NoTable(n, p) /\ n.panic = m.panic
         /\ va = UTOP \/ Present(n.at[Table(e, PDX(va))])
         /\ \A s \in Sites : n.at[s] # m.at[s] => GrowsTable(m, n, s, p)
  <1> DEFINE n == pgdir_walk(m, e, va, q)
             t == Table(e, PDX(va))
  <1>1. n \in Memory /\ HasTable(n, e, va) /\ (n = m \/ Walked(m, n, e, va, q))
    BY WalkEffect DEF Sound, Shape
  <1> HIDE DEF n
  <1>2. CASE n = m
    <2>1. va = UTOP \/ Present(n.at[t])
      BY <1>1, <1>2, TableSites, AddressHasTable, AddressKinds DEF HasTable, Sound, Shape
    <2> QED
      BY <1>2, <2>1 DEF n
  <1>3. CASE Walked(m, n, e, va, q)
    <2>1. /\ q \in Pages /\ q # p /\ RefsIn(m, q) = {}
          /\ Shape(n) /\ Exact(n) /\ Linked(n, p) /\ ZeroPage \notin n.free
      BY <1>1, <1>3, WalkKeeps DEF Sound
    <2>2. va \in VAs /\ t \in Tables /\ t \in Sites /\ \E d \in PDs : t = Table(e, d)
      BY <1>3, TableSites, AddressHasTable DEF Walked
    <2>3. Tree(n) /\ NoTable(n, p)
      <3> DEFINE perm == {"P", "U", "W"}
      <3>1. n.at = [m.at EXCEPT ![t] = [pa |-> q, perm |-> perm]] /\ "P" \in perm
        BY <1>3 DEF Walked
      <3> HIDE DEF perm, t
      <3> QED
        BY <1>1, <2>1, <2>2, <3>1, TableTree DEF Sound
    <2>4. n.at[t] = [pa |-> q, perm |-> {"P", "U", "W"}] /\ \A s \in Sites : s # t => n.at[s] = m.at[s]
      BY <1>3, <2>2 DEF Walked, Sound, Shape, Memory
    <2>5. m.at[t] = ZeroPte /\ n.panic = m.panic /\ Present(n.at[t])
      BY <1>3, <2>4 DEF Walked, Present
    <2>6. \A s \in Sites : n.at[s] # m.at[s] => GrowsTable(m, n, s, p)
      BY <2>1, <2>2, <2>4, <2>5 DEF GrowsTable
    <2> QED
      BY <2>1, <2>3, <2>5, <2>6 DEF Sound, n
  <1> QED
    BY <1>1, <1>2, <1>3

\* page_insert keeps a memory sound as long as pp_ref can count the mappings.
LEMMA InsertSound ==
  ASSUME NEW m, NEW p \in Pages \cup {ZeroPage}, Sound(m, p), ZeroPage \notin m.free, NoTable(m, p),
         NEW e \in Envs, NEW va \in VAs \cup {UTOP}, Present(m.at[Dir(e)]), NEW perm \in SUBSET Bits,
         NEW q \in Available(m), ~InsertFails(m, e, va, q), Few(page_insert(m, e, p, va, perm, q))
  PROVE  LET r == page_insert(m, e, p, va, perm, q) IN
         /\ Sound(r, NULL) /\ r.panic = m.panic
         /\ r.at[Pte(e, va)] = [pa |-> p, perm |-> perm \cup {"P"}]
         /\ \A s \in Sites : s # Pte(e, va) /\ r.at[s] # m.at[s] => GrowsTable(m, r, s, p)
  <1> DEFINE n == pgdir_walk(m, e, va, q)
             r == page_insert(m, e, p, va, perm, q)
             s == Pte(e, va)
             x == [pa |-> p, perm |-> perm \cup {"P"}]
  <1>1. /\ Sound(n, p) /\ ZeroPage \notin n.free /\ NoTable(n, p) /\ n.panic = m.panic
        /\ va = UTOP \/ Present(n.at[Table(e, PDX(va))])
        /\ \A y \in Sites : n.at[y] # m.at[y] => GrowsTable(m, n, y, p)
    BY WalkSound
  <1>2. p \in AllPages /\ m \in Memory
    BY EntryFacts DEF Sound, Shape
  <1>3. r \in Memory /\ Inserted(n, r, s, p, perm)
    BY <1>2, InsertEffect
  <1>4. Few(r)
    OBVIOUS
  <1> HIDE DEF n, r
  <1>5. Shape(r) /\ Exact(r) /\ Linked(r, NULL) /\ r.panic = n.panic
    BY <1>1, <1>3, <1>4, InsertKeeps DEF Sound
  <1>6. x.pa = p /\ r.at = [n.at EXCEPT ![s] = x]
    BY <1>3 DEF Inserted
  <1> HIDE DEF x
  <1>7. Tree(r)
    BY <1>1, <1>3, <1>6, EntryTree DEF Sound
  <1>8. r.at[s] = x /\ \A y \in Sites : y # s => r.at[y] = n.at[y]
    BY <1>1, <1>6, SiteKinds DEF Sound, Shape, Memory
  <1>9. \A y \in Sites : y # s /\ r.at[y] # m.at[y] => GrowsTable(m, r, y, p)
    BY <1>1, <1>8 DEF GrowsTable
  <1> QED
    BY <1>1, <1>5, <1>7, <1>8, <1>9 DEF Sound, r, x

\* page_remove keeps a memory sound.
LEMMA RemoveSound ==
  ASSUME NEW m, Sound(m, NULL), ZeroPage \notin m.free, NEW e \in Envs, NEW va \in VAs
  PROVE  LET r == page_remove(m, e, va) IN
         /\ Sound(r, NULL) /\ r.panic = m.panic
         /\ \A s \in Sites : r.at[s] = m.at[s] \/ (s = Pte(e, va) /\ r.at[s] = ZeroPte)
  <1> DEFINE r == page_remove(m, e, va)
             s == Pte(e, va)
             old == m.at[s].pa
  <1>1. /\ m \in Memory /\ r \in Memory /\ (~HasTable(m, e, va) => r = m)
        /\ HasTable(m, e, va) => r.at = [m.at EXCEPT ![s] = ZeroPte] /\ Dropped(m, r, old)
    BY RemoveEffect DEF Sound, Shape
  <1> HIDE DEF r
  <1>2. CASE r = m
    BY <1>2 DEF r
  <1>3. CASE HasTable(m, e, va)
    <2>1. s \in Sites /\ s # Utop /\ old \in AllPages /\ old # EnvsPage
      <3>1. s \in Sites /\ s # Utop
        BY SiteKinds
      <3> QED
        BY <1>1, <3>1 DEF Sound, Shape, Memory, Entry
    <2>2. /\ m.ref \in [AllPages -> Counts] /\ r.ref \in [AllPages -> Counts]
          /\ Pages \subseteq AllPages /\ EnvsPage \in AllPages /\ m.panic \in BOOLEAN
      BY <1>1 DEF Memory, Counts, AllPages
    <2>3. /\ r.ref = [m.ref EXCEPT ![old] = Decremented(@)]
          /\ r.free = IF r.ref[old] = 0 /\ old \notin m.free THEN m.free \cup {old} ELSE m.free
          /\ r.panic = (m.panic \/ (r.ref[old] = 0 /\ old \in m.free))
      BY <1>1, <1>3 DEF Dropped
    <2>4. r.at[s] = ZeroPte /\ \A y \in Sites : y # s => r.at[y] = m.at[y]
      BY <1>1, <1>3, <2>1 DEF Memory
    <2>5. Stored(m, r, s, ZeroPte) /\ ZeroPte \in Entry /\ ~Present(ZeroPte)
      BY <1>1, <1>3, EntryFacts DEF Stored
    <2> HIDE DEF s, old
    <2>6. ASSUME NEW y \in Pages PROVE RefsIn(r, y) = RefsIn(m, y) \ {s}
      <3>1. y \in AllPages
        BY <2>2
      <3> QED
        BY <1>1, <2>1, <2>5, <3>1, StoreRefs
    <2>7. ASSUME NEW y \in Pages PROVE y = old <=> s \in RefsIn(m, y)
      <3>1. m.at[s] = ZeroPte => old # y
        BY EntryFacts DEF old
      <3> QED
        BY <2>1, <3>1 DEF RefsIn, old, Sound, Shape
    <2>8. ASSUME NEW y \in Pages PROVE r.ref[y] = Cardinality(RefsIn(r, y))
      <3>1. Cardinality(RefsIn(r, y)) =
              IF y = old THEN Cardinality(RefsIn(m, y)) - 1 ELSE Cardinality(RefsIn(m, y))
        <4>1. Cardinality(RefsIn(m, y) \ {s}) =
                IF s \in RefsIn(m, y) THEN Cardinality(RefsIn(m, y)) - 1 ELSE Cardinality(RefsIn(m, y))
          BY CountOneMore
        <4> QED
          BY <2>6, <2>7, <4>1
      <3>2. m.ref[y] = Cardinality(RefsIn(m, y)) /\ m.ref[y] \in Counts
        BY <2>2 DEF Sound, Exact
      <3>3. r.ref[y] = IF y = old THEN Decremented(m.ref[y]) ELSE m.ref[y]
        BY <2>1, <2>2, <2>3
      <3>4. y = old => m.ref[y] > 0
        <4>1. y = old => RefsIn(m, y) # {}
          BY <2>7
        <4> QED
          BY <4>1, <3>2, RefsFinite DEF Counts
      <3> QED
        BY <3>1, <3>2, <3>3, <3>4, CountSteps
    <2>9. old \notin m.free
      <3>1. CASE old \in Pages
        BY <3>1, <2>7 DEF Linked, Sound
      <3>2. CASE old \notin Pages
        BY <3>2, <2>1 DEF AllPages
      <3> QED
        BY <3>1, <3>2
    <2>10. ASSUME NEW y \in Pages PROVE y \in r.free <=> RefsIn(r, y) = {} /\ y # NULL
      <3>1. y # NULL
        BY <2>2, EntryFacts
      <3>2. r.ref[y] = 0 <=> RefsIn(r, y) = {}
        BY <2>8, RefsFinite
      <3>3. y # old => RefsIn(r, y) = RefsIn(m, y)
        BY <2>6, <2>7
      <3> QED
        BY <2>3, <2>9, <3>1, <3>2, <3>3 DEF Sound, Linked
    <2>11. Shape(r)
      <3>1. \A y \in Sites : r.at[y] = m.at[y] \/ r.at[y] = ZeroPte
        BY <2>4
      <3>2. \A y \in Sites : r.at[y] = ZeroPte \/ Present(r.at[y])
        BY <3>1 DEF Sound, Shape
      <3>3. r.ref[EnvsPage] = m.ref[EnvsPage] /\ ZeroPte.pa = ZeroPage
        BY <2>1, <2>2, <2>3, EntryFacts
      <3>4. \A y \in Sites : r.at[y].pa = EnvsPage => y = Utop /\ r.ref[EnvsPage] = 0
        BY <3>1, <3>3 DEF Sound, Shape
      <3>5. EnvsPage \notin r.free
        BY <2>1, <2>3 DEF Sound, Shape
      <3>6. \A t \in Tables : r.at[t] = m.at[t]
        BY <2>4, TableSites DEF s
      <3>7. ASSUME NEW f \in Envs
            PROVE  r.at[Dir(f)] = m.at[Dir(f)] /\ \A d \in PDs : r.at[Table(f, d)] = m.at[Table(f, d)]
        BY <3>6, TableSites
      <3> QED
        BY <1>1, <3>2, <3>4, <3>5, <3>7 DEF Sound, Shape
    <2>12. Tree(r)
      <3>1. r.at = [m.at EXCEPT ![Pte(e, va)] = ZeroPte]
        BY <1>1, <1>3 DEF s
      <3> QED
        BY <1>1, <2>5, <3>1, EntryTree DEF Sound
    <2>13. r.panic = m.panic
      BY <2>2, <2>3, <2>9
    <2> QED
      BY <2>4, <2>8, <2>10, <2>11, <2>12, <2>13 DEF Sound, Exact, Linked, r, s
  <1> QED
    BY <1>1, <1>2, <1>3

\* page_free of a page that was just taken links it again.
LEMMA FreeFresh ==
  ASSUME NEW m, Sound(m, NULL), NEW p \in m.free, p # ZeroPage
  PROVE  page_free(page_alloc(m, p), p) = m
  <1>1. m.ref[p] = 0
    BY AllocEffect DEF Sound
  <1>2. page_alloc(m, p) = [ref |-> m.ref, free |-> m.free \ {p}, at |-> m.at, panic |-> m.panic]
    <2>1. m \in Memory
      BY DEF Sound, Shape
    <2> QED
      BY <2>1 DEF page_alloc, Memory
  <1>3. page_free(page_alloc(m, p), p) = [ref |-> m.ref, free |-> m.free, at |-> m.at, panic |-> m.panic]
    BY <1>1, <1>2 DEF page_free
  <1> QED
    BY <1>3 DEF Sound, Shape, Memory

\* page_free of a page that is in use panics, and that of page 0 may link it.
LEMMA FreeUsed ==
  ASSUME NEW m, Sound(m, NULL), NEW p \in Pages \cup {ZeroPage}, p \in Pages => RefsIn(m, p) # {}
  PROVE  LET r == page_free(m, p) IN
         /\ Sound(r, NULL) /\ r.at = m.at
         /\ p \in Pages => r.panic
  <1> DEFINE r == page_free(m, p)
  <1>1. p \in Pages => m.ref[p] # 0
    BY RefsFinite DEF Sound, Exact
  <1>2. /\ r \in Memory /\ r.at = m.at /\ r.ref = m.ref
        /\ r.free = m.free \/ (p = ZeroPage /\ r.free = m.free \cup {p})
        /\ p \in Pages => r.panic
    <2>1. p \in AllPages /\ m \in Memory
      BY EntryFacts DEF Sound, Shape
    <2>2. CASE m.ref[p] # 0 \/ p \in m.free
      <3>1. r = [ref |-> m.ref, free |-> m.free, at |-> m.at, panic |-> TRUE]
        BY <2>1, <2>2 DEF page_free, Memory
      <3> QED
        BY <2>1, <3>1 DEF Memory
    <2>3. CASE ~(m.ref[p] # 0 \/ p \in m.free)
      <3>1. r = [ref |-> m.ref, free |-> m.free \cup {p}, at |-> m.at, panic |-> m.panic]
        BY <2>1, <2>3 DEF page_free, Memory
      <3> QED
        BY <1>1, <2>1, <2>3, <3>1 DEF Memory
    <2> QED
      BY <2>2, <2>3
  <1> HIDE DEF r
  <1>3. \A y : RefsIn(r, y) = RefsIn(m, y)
    BY <1>2 DEF RefsIn
  <1>4. Shape(r)
    BY <1>2 DEF Sound, Shape
  <1>5. Exact(r) /\ Linked(r, NULL)
    BY <1>2, <1>3 DEF Sound, Exact, Linked
  <1>6. Tree(r)
    BY <1>2 DEF Sound, Tree, Private, Below
  <1> QED
    BY <1>2, <1>4, <1>5, <1>6 DEF Sound, r

\* env_setup_vm: a page becomes the page directory of a new environment.
LEMMA SetupSound ==
  ASSUME NEW m, Sound(m, NULL), ZeroPage \notin m.free, NEW e \in Envs, ~Present(m.at[Dir(e)]), NEW p \in m.free
  PROVE  LET r == env_setup_vm(m, e, p) IN
         /\ Sound(r, NULL) /\ r.panic = m.panic /\ p \in Pages /\ RefsIn(m, p) = {}
         /\ r.at = [m.at EXCEPT ![Dir(e)] = [pa |-> p, perm |-> {"P"}]]
  <1> DEFINE n == page_alloc(m, p)
             r == env_setup_vm(m, e, p)
             t == Dir(e)
             x == [pa |-> p, perm |-> {"P"}]
  <1>1. /\ p \in Pages /\ RefsIn(m, p) = {} /\ m.ref[p] = 0 /\ p # ZeroPage
        /\ Shape(n) /\ Exact(n) /\ Linked(n, p) /\ n.ref[p] = 0
        /\ n.at = m.at /\ n.ref = m.ref /\ n.panic = m.panic /\ n.free = m.free \ {p}
    BY AllocEffect DEF Sound
  <1>2. t \in Sites /\ t # Utop /\ t \in Tables /\ m.at[t] = ZeroPte /\ m.at \in [Sites -> Entry]
    BY SiteKinds, TableSites DEF Sound, Shape, Memory
  <1>3. p \in AllPages /\ x \in Entry /\ Present(x) /\ x.pa = p
    BY <1>1, EntryFacts DEF Present
  <1> HIDE DEF n
  <1>4. r = [ref |-> [m.ref EXCEPT ![p] = Incremented(@)], free |-> m.free \ {p},
             at |-> [m.at EXCEPT ![t] = x], panic |-> m.panic]
    <2>1. n = [ref |-> m.ref, free |-> m.free \ {p}, at |-> m.at, panic |-> m.panic]
      BY <1>1 DEF Shape, Memory
    <2>2. r = Store([n EXCEPT !.ref[p] = Incremented(@)], t, x)
      BY DEF env_setup_vm, n
    <2> HIDE DEF r, t, x
    <2> QED
      BY <2>1, <2>2 DEF Store
  <1> HIDE DEF r
  <1>5. r \in Memory /\ r.ref = [m.ref EXCEPT ![p] = Incremented(@)] /\ r.free = m.free \ {p}
        /\ r.at = [m.at EXCEPT ![t] = x] /\ r.panic = m.panic
    <2>1. m.ref \in [AllPages -> Counts] /\ m.free \in SUBSET AllPages /\ m.panic \in BOOLEAN
      BY DEF Sound, Shape, Memory, Counts
    <2>2. [m.ref EXCEPT ![p] = Incremented(@)] \in [AllPages -> Counts]
      BY <2>1, <1>3, CountSteps
    <2> HIDE DEF x, t
    <2> QED
      BY <1>2, <1>3, <1>4, <2>1, <2>2 DEF Memory, Counts
  <1>6. r.at[t] = x /\ \A s \in Sites : s # t => r.at[s] = m.at[s]
    BY <1>2, <1>5
  <1>7. r.ref[p] = 1 /\ \A y \in AllPages : y # p => r.ref[y] = m.ref[y]
    <2>1. m.ref \in [AllPages -> Counts] /\ r.ref[p] = Incremented(m.ref[p])
      BY <1>3, <1>5 DEF Sound, Shape, Memory, Counts
    <2>2. r.ref[p] = 1
      BY <1>1, <1>3, <2>1, CountSteps
    <2> QED
      BY <1>5, <2>1, <2>2
  <1> HIDE DEF x
  <1>8. RefsIn(r, p) = {t} /\ \A y : y # p => RefsIn(r, y) = RefsIn(m, y)
    <2>1. ~Present(m.at[t])
      BY <1>2, EntryFacts
    <2> QED
      BY <1>1, <1>2, <1>3, <1>6, <2>1 DEF RefsIn
  <1>9. Exact(r)
    BY <1>7, <1>8, EntryFacts, FS_Singleton DEF Exact, Sound
  <1>10. Linked(r, NULL)
    BY <1>1, <1>5, <1>8, EntryFacts DEF Linked, Sound
  <1>11. Shape(r)
    <2>1. p # EnvsPage /\ EnvsPage \in AllPages
      BY <1>1, EntryFacts
    <2>2. \A s \in Sites : r.at[s] = ZeroPte \/ Present(r.at[s])
      BY <1>3, <1>6 DEF Sound, Shape
    <2>3. \A s \in Sites : r.at[s].pa = EnvsPage => s = Utop /\ r.ref[EnvsPage] = 0
      BY <1>3, <1>6, <1>7, <2>1 DEF Sound, Shape
    <2>4. ASSUME NEW s \in Sites, m.at[s].pa \in Pages \cup {ZeroPage}, Present(m.at[s]) => m.at[s].pa \in Pages
          PROVE  r.at[s].pa \in Pages \cup {ZeroPage} /\ (Present(r.at[s]) => r.at[s].pa \in Pages)
      BY <1>1, <1>3, <1>6, <2>4
    <2>5. EnvsPage \notin r.free
      BY <1>5 DEF Sound, Shape
    <2> QED
      BY <1>5, <2>2, <2>3, <2>4, <2>5, SiteKinds DEF Sound, Shape
  <1>12. Tree(r)
    <2> DEFINE perm == {"P"}
    <2>1. r.at = [m.at EXCEPT ![t] = [pa |-> p, perm |-> perm]] /\ "P" \in perm
      BY <1>5 DEF x
    <2> HIDE DEF perm
    <2> QED
      BY <1>1, <1>2, <1>5, <2>1, TableTree DEF Sound
  <1> QED
    BY <1>1, <1>5, <1>9, <1>10, <1>11, <1>12 DEF Sound, r, x

\* env_free: the pages of an address space that nobody else maps are linked again.
LEMMA FreeSound ==
  ASSUME NEW m, Sound(m, NULL), NEW e \in Envs
  PROVE  LET r == env_free(m, e) IN
         /\ Sound(r, NULL) /\ r.panic = m.panic
         /\ \A s \in Sites : r.at[s] = IF s \in SitesOf(e) THEN ZeroPte ELSE m.at[s]
  <1> DEFINE r == env_free(m, e)
             reach == {p \in AllPages : \E k \in 1..Drops(m, e, p) : (m.ref[p] + RefMod - k) % RefMod = 0}
             D(p) == {s \in Freed(m, e) : m.at[s].pa = p}
  <1>1. /\ m \in Memory /\ m.ref \in [AllPages -> Counts] /\ m.at \in [Sites -> Entry]
        /\ m.free \subseteq AllPages /\ m.panic \in BOOLEAN
    BY DEF Sound, Shape, Memory, Counts
  <1>2. /\ r.ref = [p \in AllPages |-> (m.ref[p] + RefMod - Drops(m, e, p)) % RefMod]
        /\ r.free = m.free \cup reach /\ r.panic = m.panic
        /\ r.at = [s \in Sites |-> IF s \in Freed(m, e) THEN ZeroPte ELSE m.at[s]]
        /\ r = [ref |-> r.ref, free |-> r.free, at |-> r.at, panic |-> r.panic]
    BY DEF env_free
  <1> HIDE DEF r
  <1>3. SitesOf(e) \subseteq Sites /\ Utop \notin SitesOf(e) /\ Freed(m, e) \subseteq SitesOf(e)
    BY SitesOfKinds DEF Freed
  <1>4. \A s \in Sites : r.at[s] = IF s \in SitesOf(e) THEN ZeroPte ELSE m.at[s]
    BY <1>1, <1>2, <1>3 DEF Freed, Sound, Shape
  <1>5. ASSUME NEW p \in AllPages
        PROVE  /\ D(p) = RefsIn(m, p) \cap Freed(m, e) /\ IsFiniteSet(D(p)) /\ Drops(m, e, p) = Cardinality(D(p))
               /\ Drops(m, e, p) \in Nat
    <2>1. D(p) = RefsIn(m, p) \cap Freed(m, e)
      BY <1>3 DEF RefsIn, Freed
    <2>2. D(p) \subseteq Sites
      BY <1>3
    <2> QED
      BY <2>1, <2>2, SitesFinite, FS_Subset, FS_CardinalityType DEF Drops
  <1>6. ASSUME NEW p \in Pages PROVE RefsIn(r, p) = RefsIn(m, p) \ D(p)
    <2>1. ZeroPte.pa # p
      BY EntryFacts
    <2> QED
      BY <1>2, <2>1, EntryFacts DEF RefsIn
  <1> HIDE DEF D
  <1>7. ASSUME NEW p \in Pages
        PROVE  /\ Cardinality(RefsIn(r, p)) = m.ref[p] - Drops(m, e, p)
               /\ Drops(m, e, p) \in 0..m.ref[p] /\ m.ref[p] \in Counts
    <2>1. p \in AllPages /\ m.ref[p] = Cardinality(RefsIn(m, p)) /\ m.ref[p] \in Counts
      BY <1>1, EntryFacts DEF Sound, Exact
    <2>2. IsFiniteSet(RefsIn(m, p)) /\ IsFiniteSet(D(p)) /\ D(p) \subseteq RefsIn(m, p)
      BY <1>5, <2>1, RefsFinite
    <2>3. Cardinality(RefsIn(m, p) \ D(p)) = Cardinality(RefsIn(m, p)) - Cardinality(RefsIn(m, p) \cap D(p))
      BY <2>2, FS_Difference
    <2>4. RefsIn(m, p) \cap D(p) = D(p)
      BY <2>2
    <2>5. Cardinality(RefsIn(r, p)) \in Nat
      BY RefsFinite
    <2>6. Cardinality(RefsIn(r, p)) = m.ref[p] - Drops(m, e, p)
      BY <1>5, <1>6, <2>1, <2>3, <2>4
    <2> QED
      BY <1>5, <2>1, <2>5, <2>6 DEF Counts
  <1>8. ASSUME NEW p \in Pages PROVE r.ref[p] = Cardinality(RefsIn(r, p))
    <2>1. r.ref[p] = (m.ref[p] + RefMod - Drops(m, e, p)) % RefMod
      BY <1>2, EntryFacts
    <2> QED
      BY <1>7, <2>1 DEF Counts
  <1>9. ASSUME NEW p \in Pages PROVE p \in r.free <=> RefsIn(r, p) = {} /\ p # NULL
    <2>1. p \in AllPages /\ p # NULL
      BY EntryFacts
    <2>2. p \in reach <=> m.ref[p] = Drops(m, e, p) /\ Drops(m, e, p) > 0
      <3>1. ASSUME NEW k \in 1..Drops(m, e, p)
            PROVE  (m.ref[p] + RefMod - k) % RefMod = 0 <=> m.ref[p] = k
        BY <1>7, <3>1 DEF Counts
      <3> QED
        BY <1>7, <2>1, <3>1 DEF Counts
    <2>3. p \in m.free => m.ref[p] = 0
      BY <2>1, RefsFinite DEF Sound, Linked, Exact
    <2>4. m.ref[p] = 0 => p \in m.free
      BY <2>1, RefsFinite DEF Sound, Linked, Exact
    <2>5. RefsIn(r, p) = {} <=> m.ref[p] = Drops(m, e, p)
      BY <1>7, RefsFinite DEF Counts
    <2> HIDE DEF reach
    <2> QED
      BY <1>2, <1>7, <2>1, <2>2, <2>3, <2>4, <2>5 DEF Counts
  <1>10. r.ref[EnvsPage] = m.ref[EnvsPage] /\ EnvsPage \notin reach
    <2>1. D(EnvsPage) = {}
      BY <1>3 DEF D, Sound, Shape
    <2>2. EnvsPage \in AllPages /\ Drops(m, e, EnvsPage) = 0
      BY <1>5, <2>1, EntryFacts, FS_EmptySet
    <2>3. m.ref[EnvsPage] \in Counts
      BY <1>1, <2>2
    <2>4. EnvsPage \notin reach
      BY <2>2
    <2> QED
      BY <1>2, <2>2, <2>3, <2>4 DEF Counts
  <1>11. r \in Memory
    <2>1. ASSUME NEW p \in AllPages PROVE r.ref[p] \in 0..(RefMod - 1)
      BY <1>1, <1>2, <1>5 DEF Counts
    <2>2. r.at \in [Sites -> Entry] /\ r.free \in SUBSET AllPages
      BY <1>1, <1>2, EntryFacts
    <2>3. r.ref \in [AllPages -> 0..(RefMod - 1)]
      BY <1>2, <2>1
    <2> QED
      BY <1>1, <1>2, <2>2, <2>3 DEF Memory
  <1>12. Shape(r)
    <2>1. \A s \in Sites : r.at[s] = m.at[s] \/ r.at[s] = ZeroPte
      BY <1>4
    <2>2. \A s \in Sites : r.at[s] = ZeroPte \/ Present(r.at[s])
      BY <2>1 DEF Sound, Shape
    <2>3. \A s \in Sites : r.at[s].pa = EnvsPage => s = Utop /\ r.ref[EnvsPage] = 0
      BY <2>1, <1>10, EntryFacts DEF Sound, Shape
    <2>4. EnvsPage \notin r.free
      BY <1>2, <1>10 DEF Sound, Shape
    <2>5. ASSUME NEW s \in Sites, m.at[s].pa \in Pages \cup {ZeroPage}, Present(m.at[s]) => m.at[s].pa \in Pages
          PROVE  r.at[s].pa \in Pages \cup {ZeroPage} /\ (Present(r.at[s]) => r.at[s].pa \in Pages)
      BY <2>1, <2>5, EntryFacts
    <2> QED
      BY <1>11, <2>2, <2>3, <2>4, <2>5, SiteKinds DEF Sound, Shape
  <1>13. Tree(r)
    <2>1. Private(r)
      BY <1>4, EntryFacts, TableSites DEF Sound, Tree, Private
    <2>2. ASSUME NEW f \in Envs, NEW d \in PDs, Present(r.at[Table(f, d)]) PROVE Present(r.at[Dir(f)])
      <3>1. e # f
        BY <1>4, <2>2, SitesOfKinds, SiteKinds, EntryFacts
      <3> QED
        BY <1>4, <2>2, <3>1, SitesOfKinds, SiteKinds DEF Sound, Tree, Below
    <2>3. ASSUME NEW f \in Envs, NEW va \in VAs, Present(r.at[Pte(f, va)]) PROVE Present(r.at[Table(f, PDX(va))])
      <3>1. e # f /\ PDX(va) \in PDs
        BY <1>4, <2>3, SitesOfKinds, SiteKinds, EntryFacts, AddressHasTable
      <3> QED
        BY <1>4, <2>3, <3>1, SitesOfKinds, SiteKinds DEF Sound, Tree, Below
    <2> QED
      BY <2>1, <2>2, <2>3 DEF Tree, Below
  <1> QED
    BY <1>2, <1>4, <1>8, <1>9, <1>12, <1>13 DEF Sound, Exact, Linked, r

-----------------------------------------------------------------------------
(* Mapping a page, as the system calls do it *)

\* The entries before (m) and after (r) a page p is mapped at va of e.
Maps(m, r, e, va, p, perm) ==
    /\ r.at[Pte(e, va)] = [pa |-> p, perm |-> perm \cup {"P"}]
    /\ \A s \in Sites : s # Pte(e, va) /\ r.at[s] # m.at[s] => GrowsTable(m, r, s, p)

\* A page that was just taken from the free list.
LEMMA MapFresh ==
  ASSUME NEW m, Sound(m, NULL), ZeroPage \notin m.free, NEW p \in m.free,
         NEW e \in Envs, NEW va \in VAs \cup {UTOP}, Present(m.at[Dir(e)]), NEW perm \in SUBSET Bits,
         NEW q \in Available(page_alloc(m, p)), ~InsertFails(page_alloc(m, p), e, va, q),
         Few(page_insert(page_alloc(m, p), e, p, va, perm, q))
  PROVE  LET r == page_insert(page_alloc(m, p), e, p, va, perm, q) IN
         /\ Sound(r, NULL) /\ r.panic = m.panic /\ Maps(m, r, e, va, p, perm)
         /\ p \in Pages /\ RefsIn(m, p) = {}
  <1> DEFINE n == page_alloc(m, p)
             r == page_insert(n, e, p, va, perm, q)
  <1>1. /\ p \in Pages /\ RefsIn(m, p) = {} /\ Shape(n) /\ Exact(n) /\ Linked(n, p)
        /\ n.at = m.at /\ n.panic = m.panic /\ n.free = m.free \ {p}
        /\ \A x : RefsIn(n, x) = RefsIn(m, x)
    BY AllocEffect DEF Sound
  <1> HIDE DEF n
  <1>2. Sound(n, p) /\ ZeroPage \notin n.free /\ Present(n.at[Dir(e)])
    BY <1>1 DEF Sound, Tree, Private, Below
  <1>3. NoTable(n, p)
    BY <1>1, TableSites DEF NoTable, RefsIn
  <1>4. q \in Available(n) /\ ~InsertFails(n, e, va, q) /\ Few(r)
    BY DEF n
  <1>5. /\ Sound(r, NULL) /\ r.panic = n.panic
        /\ r.at[Pte(e, va)] = [pa |-> p, perm |-> perm \cup {"P"}]
        /\ \A s \in Sites : s # Pte(e, va) /\ r.at[s] # n.at[s] => GrowsTable(n, r, s, p)
    BY <1>1, <1>2, <1>3, <1>4, InsertSound
  <1> HIDE DEF r
  <1>6. Maps(m, r, e, va, p, perm)
    BY <1>1, <1>5 DEF Maps, GrowsTable
  <1> QED
    BY <1>1, <1>5, <1>6 DEF n, r

\* A page, or the empty entry, that an address of src names.
LEMMA UsedFacts ==
  ASSUME NEW m, Sound(m, NULL), NEW src \in Envs, NEW sva \in VAs
  PROVE  LET x == m.at[Pte(src, sva)] IN
         /\ x.pa \in Pages \cup {ZeroPage}
         /\ x.pa \in Pages => Present(x) /\ RefsIn(m, x.pa) # {}
         /\ NoTable(m, x.pa)
  <1> DEFINE s == Pte(src, sva)
             x == m.at[s]
  <1>1. s \in Sites /\ s # Utop /\ s \notin Tables
    BY SiteKinds, TableSites
  <1>2. x.pa \in Pages \cup {ZeroPage}
    BY <1>1 DEF Sound, Shape, Memory, Entry, AllPages
  <1>3. x.pa \in Pages => Present(x)
    BY <1>1, EntryFacts DEF Sound, Shape
  <1>4. \A t \in Tables : Present(m.at[t]) => m.at[t].pa \in Pages
    BY DEF Tables, Sound, Shape
  <1>5. NoTable(m, x.pa)
    BY <1>1, <1>2, <1>3, <1>4 DEF Sound, Tree, Private, NoTable
  <1> QED
    BY <1>1, <1>2, <1>3, <1>5 DEF RefsIn

LEMMA MapUsed ==
  ASSUME NEW m, Sound(m, NULL), ZeroPage \notin m.free, NEW src \in Envs, NEW sva \in VAs,
         NEW e \in Envs, NEW va \in VAs \cup {UTOP}, Present(m.at[Dir(e)]), NEW perm \in SUBSET Bits,
         NEW q \in Available(m), ~InsertFails(m, e, va, q),
         Few(page_insert(m, e, m.at[Pte(src, sva)].pa, va, perm, q))
  PROVE  LET p == m.at[Pte(src, sva)].pa  r == page_insert(m, e, p, va, perm, q) IN
         Sound(r, NULL) /\ r.panic = m.panic /\ Maps(m, r, e, va, p, perm)
  <1> DEFINE p == m.at[Pte(src, sva)].pa
             r == page_insert(m, e, p, va, perm, q)
  <1>1. p \in Pages \cup {ZeroPage} /\ NoTable(m, p) /\ (p \in Pages => RefsIn(m, p) # {})
    BY UsedFacts
  <1>2. Few(r)
    OBVIOUS
  <1> HIDE DEF p
  <1>3. Sound(m, p)
    <2>1. \A y \in Pages : y # NULL
      BY EntryFacts
    <2> QED
      BY <1>1, <2>1 DEF Sound, Linked
  <1>4. /\ Sound(r, NULL) /\ r.panic = m.panic
        /\ r.at[Pte(e, va)] = [pa |-> p, perm |-> perm \cup {"P"}]
        /\ \A s \in Sites : s # Pte(e, va) /\ r.at[s] # m.at[s] => GrowsTable(m, r, s, p)
    BY <1>1, <1>2, <1>3, InsertSound
  <1> HIDE DEF r
  <1> QED
    BY <1>4 DEF Maps, r, p

-----------------------------------------------------------------------------
(* Types *)

LEMMA MemoryOps ==
  ASSUME NEW m, m \in Memory
  PROVE  /\ [m EXCEPT !.panic = TRUE] \in Memory
         /\ \A p \in AllPages : /\ page_alloc(m, p) \in Memory /\ page_free(m, p) \in Memory
                                /\ page_alloc(m, p).ref = m.ref
         /\ m.free \subseteq AllPages
         /\ \A s \in Sites : m.at[s].pa \in AllPages
  <1>1. /\ m.ref \in [AllPages -> 0..(RefMod - 1)] /\ m.free \in SUBSET AllPages
        /\ m.at \in [Sites -> Entry] /\ m.panic \in BOOLEAN
    BY DEF Memory
  <1>2. [m EXCEPT !.panic = TRUE] \in Memory
    BY DEF Memory
  <1>3. ASSUME NEW p \in AllPages
        PROVE  page_alloc(m, p) \in Memory /\ page_free(m, p) \in Memory /\ page_alloc(m, p).ref = m.ref
    <2>1. page_alloc(m, p) = [ref |-> m.ref, free |-> m.free \ {p}, at |-> m.at, panic |-> m.panic]
      BY DEF page_alloc, Memory
    <2>2. [m EXCEPT !.free = @ \cup {p}] = [ref |-> m.ref, free |-> m.free \cup {p}, at |-> m.at, panic |-> m.panic]
      BY DEF Memory
    <2>3. page_alloc(m, p) \in Memory
      BY <1>1, <2>1 DEF Memory
    <2>4. [m EXCEPT !.free = @ \cup {p}] \in Memory
      BY <1>1, <2>2 DEF Memory
    <2> QED
      BY <1>2, <2>1, <2>3, <2>4 DEF page_free
  <1> QED
    BY <1>1, <1>2, <1>3 DEF Entry

LEMMA SetupType ==
  ASSUME NEW m, m \in Memory, NEW e \in Envs, NEW p \in m.free
  PROVE  env_setup_vm(m, e, p) \in Memory
  <1> DEFINE n == page_alloc(m, p)
             k == [n EXCEPT !.ref[p] = Incremented(@)]
             x == [pa |-> p, perm |-> {"P"}]
  <1>1. p \in AllPages /\ n \in Memory
    BY MemoryOps
  <1>2. env_setup_vm(m, e, p) = Store(k, Dir(e), x)
    BY DEF env_setup_vm
  <1> HIDE DEF n
  <1>3. k = [ref |-> [n.ref EXCEPT ![p] = Incremented(@)], free |-> n.free, at |-> n.at, panic |-> n.panic]
    BY <1>1 DEF Memory
  <1>4. k \in Memory
    BY <1>1, <1>3, CountSteps DEF Memory, Counts
  <1>5. x \in Entry /\ Dir(e) \in Sites
    BY <1>1, EntryFacts, SiteKinds
  <1> HIDE DEF k, x
  <1>6. Store(k, Dir(e), x) \in Memory
    <2> DEFINE t == Dir(e)
    <2> HIDE DEF t
    <2>1. t \in Sites
      BY <1>5 DEF t
    <2>2. Store(k, t, x) \in Memory
      BY <1>4, <1>5, <2>1 DEF Store, Memory
    <2> QED
      BY <2>2 DEF t
  <1> QED
    BY <1>2, <1>6

LEMMA EnvFreeType ==
  ASSUME NEW m, m \in Memory, NEW e \in Envs
  PROVE  env_free(m, e) \in Memory
  <1> DEFINE r == env_free(m, e)
             reach == {p \in AllPages : \E k \in 1..Drops(m, e, p) : (m.ref[p] + RefMod - k) % RefMod = 0}
  <1>1. /\ m.ref \in [AllPages -> Counts] /\ m.at \in [Sites -> Entry] /\ m.free \in SUBSET AllPages
        /\ m.panic \in BOOLEAN
    BY DEF Memory, Counts
  <1>2. /\ r.ref = [p \in AllPages |-> (m.ref[p] + RefMod - Drops(m, e, p)) % RefMod]
        /\ r.free = m.free \cup reach /\ r.panic = m.panic
        /\ r.at = [s \in Sites |-> IF s \in Freed(m, e) THEN ZeroPte ELSE m.at[s]]
        /\ r = [ref |-> r.ref, free |-> r.free, at |-> r.at, panic |-> r.panic]
    BY DEF env_free
  <1> HIDE DEF r
  <1>3. ASSUME NEW p \in AllPages PROVE Drops(m, e, p) \in Nat
    <2>1. {s \in Freed(m, e) : m.at[s].pa = p} \subseteq Sites
      BY SitesOfKinds DEF Freed
    <2> QED
      BY <2>1, SitesFinite, FS_Subset, FS_CardinalityType DEF Drops
  <1>4. ASSUME NEW p \in AllPages PROVE r.ref[p] \in 0..(RefMod - 1)
    BY <1>1, <1>2, <1>3 DEF Counts
  <1>5. r.ref \in [AllPages -> 0..(RefMod - 1)]
    BY <1>2, <1>4
  <1>6. r.at \in [Sites -> Entry] /\ r.free \in SUBSET AllPages
    BY <1>1, <1>2, EntryFacts
  <1> QED
    BY <1>1, <1>2, <1>5, <1>6 DEF Memory, r

LEMMA RemoveInsertType ==
  ASSUME NEW m, m \in Memory, NEW e \in Envs, NEW va \in VAs \cup {UTOP} \cup Windows
  PROVE  /\ page_remove(m, e, va) \in Memory
         /\ \A p \in AllPages, perm \in SUBSET Bits, q \in Available(m) :
               ~InsertFails(m, e, va, q) => page_insert(m, e, p, va, perm, q) \in Memory
  BY RemoveEffect, InsertEffect

\* A message received above UTOP leaves a memory, whatever becomes of the tables.
LEMMA AboveType ==
  ASSUME NEW m, m \in Memory, NEW e \in Envs, NEW va \in Beyond, NEW p \in AllPages,
         NEW perm \in SUBSET Bits, NEW q \in Available(m)
  PROVE  insert_above(m, e, p, va, perm, q) \in Memory
  <1>1. CASE va = KMEM
    <2>1. [m EXCEPT !.ref[p] = Incremented(@)] \in Memory
      <3> DEFINE n == [m EXCEPT !.ref[p] = Incremented(@)]
      <3>1. n = [ref |-> [m.ref EXCEPT ![p] = Incremented(@)], free |-> m.free, at |-> m.at, panic |-> m.panic]
        BY DEF Memory
      <3> QED
        BY <3>1, CountSteps DEF Memory, Counts
    <2> QED
      BY <1>1, <2>1 DEF insert_above
  <1>2. CASE va # KMEM
    <2>1. va \in Windows
      BY <1>2, AddressKinds
    <2>2. ~InsertFails(m, e, va, q)
      BY <2>1 DEF InsertFails, HasTable
    <2> QED
      BY <1>2, <2>1, <2>2, RemoveInsertType DEF insert_above
  <1> QED
    BY <1>1, <1>2

\* What a message of c does to the memory, when e is the environment that gets it.
Inserts(c, e, sva, perm, q) ==
    /\ recv[e] \in VAs \cup {UTOP} /\ ~InsertFails(mem, e, recv[e], q)
    /\ mem' = page_insert(mem, e, mem.at[Pte(c, sva)].pa, recv[e], perm, q)
    /\ UNCHANGED lost
InsertsAbove(c, e, sva, perm, q) ==
    /\ recv[e] \in Beyond /\ lost' = TRUE
    /\ mem' = insert_above(mem, e, mem.at[Pte(c, sva)].pa, recv[e], perm, q)
Delivers(c, e) ==
    /\ status[e] # "FREE" /\ recv[e] # NULL
    /\ \/ UNCHANGED <<mem, lost>>
       \/ \E sva \in VAs, perm \in Perms, q \in Available(mem) :
             /\ MayMap(mem.at[Pte(c, sva)], perm)
             /\ Inserts(c, e, sva, perm, q) \/ InsertsAbove(c, e, sva, perm, q)
    /\ status' = [status EXCEPT ![e] = "RUNNABLE"]
    /\ recv' = [recv EXCEPT ![e] = NULL]

LEMMA SendKinds ==
  ASSUME TypeOK, NEW c \in Envs, sys_ipc_try_send(c)
  PROVE  \E e \in Envs : Delivers(c, e)
  <1>1. PICK e \in Envs :
            /\ status[e] # "FREE" /\ recv[e] # NULL
            /\ \/ UNCHANGED <<mem, lost>>
               \/ \E sva \in VAs, perm \in Perms, q \in Available(mem) :
                     /\ MayMap(mem.at[Pte(c, sva)], perm)
                     /\ \/ /\ recv[e] \notin Beyond /\ ~InsertFails(mem, e, recv[e], q)
                           /\ mem' = page_insert(mem, e, mem.at[Pte(c, sva)].pa, recv[e], perm, q)
                           /\ UNCHANGED lost
                        \/ InsertsAbove(c, e, sva, perm, q)
            /\ status' = [status EXCEPT ![e] = "RUNNABLE"]
            /\ recv' = [recv EXCEPT ![e] = NULL]
    BY DEF sys_ipc_try_send, InsertsAbove
  <1>2. recv[e] \in VAs \cup {UTOP} \cup Beyond
    BY <1>1 DEF TypeOK
  <1>3. \A sva, perm, q :
           /\ recv[e] \notin Beyond /\ ~InsertFails(mem, e, recv[e], q)
           /\ mem' = page_insert(mem, e, mem.at[Pte(c, sva)].pa, recv[e], perm, q)
           /\ UNCHANGED lost
           => Inserts(c, e, sva, perm, q)
    BY <1>2 DEF Inserts
  <1>4. Delivers(c, e)
    BY <1>1, <1>3 DEF Delivers
  <1> QED
    BY <1>4

LEMMA TypeSent ==
  ASSUME TypeOK, NEW c, sys_ipc_try_send(c), ~lost'
  PROVE  lost' = lost
  BY DEF sys_ipc_try_send

\* The memory stays one in every action.
LEMMA MemoryStep ==
  ASSUME TypeOK, Next
  PROVE  mem' \in Memory
  <1> USE DEF TypeOK
  <1>1. Perms \subseteq SUBSET Bits /\ {"U", "W"} \in SUBSET Bits
    BY PermAssumption DEF Bits
  <1>2. \A e \in Envs : \A p, st : env_alloc(e, p, st) => mem' \in Memory
    BY SetupType DEF env_alloc
  <1>3. \A c, e \in Envs : Release(c, e) => mem' \in Memory
    BY EnvFreeType DEF Release
  <1>4. ASSUME NEW e \in Envs, NEW va \in VAs, region_alloc(e, va) PROVE mem' \in Memory
    <2> PICK p \in Available(mem) :
          IF p = NULL THEN mem' = [mem EXCEPT !.panic = TRUE]
          ELSE LET m == page_alloc(mem, p) IN
               \E q \in Available(m) :
                  mem' = IF InsertFails(m, e, va, q) THEN [m EXCEPT !.panic = TRUE]
                         ELSE page_insert(m, e, p, va, {"U", "W"}, q)
      BY <1>4 DEF region_alloc
    <2>1. CASE p = NULL
      BY <2>1, MemoryOps
    <2>2. CASE p # NULL
      <3> DEFINE m == page_alloc(mem, p)
      <3>1. p \in AllPages /\ m \in Memory
        BY <2>2, MemoryOps DEF Available
      <3>2. PICK q \in Available(m) : mem' = IF InsertFails(m, e, va, q) THEN [m EXCEPT !.panic = TRUE]
                                             ELSE page_insert(m, e, p, va, {"U", "W"}, q)
        BY <2>2
      <3> HIDE DEF m
      <3>3. CASE InsertFails(m, e, va, q)
        BY <3>1, <3>2, <3>3, MemoryOps
      <3>4. CASE ~InsertFails(m, e, va, q)
        BY <1>1, <3>1, <3>2, <3>4, RemoveInsertType
      <3> QED
        BY <3>3, <3>4
    <2> QED
      BY <2>1, <2>2
  <1>5. ASSUME NEW c \in Envs, sys_page_alloc(c) PROVE mem' \in Memory
    <2>1. PICK e \in Targets(c), va \in VAs, perm \in Perms, p \in mem.free :
             \E q \in Available(page_alloc(mem, p)) :
                mem' = IF InsertFails(page_alloc(mem, p), e, va, q) THEN page_free(page_alloc(mem, p), p)
                       ELSE page_insert(page_alloc(mem, p), e, p, va, perm, q)
      BY <1>5 DEF sys_page_alloc
    <2> DEFINE m == page_alloc(mem, p)
    <2>2. p \in AllPages /\ m \in Memory /\ e \in Envs
      BY MemoryOps DEF Targets
    <2>3. PICK q \in Available(m) : mem' = IF InsertFails(m, e, va, q) THEN page_free(m, p)
                                           ELSE page_insert(m, e, p, va, perm, q)
      BY <2>1
    <2> HIDE DEF m
    <2>4. CASE InsertFails(m, e, va, q)
      BY <2>2, <2>3, <2>4, MemoryOps
    <2>5. CASE ~InsertFails(m, e, va, q)
      BY <1>1, <2>2, <2>3, <2>5, RemoveInsertType
    <2> QED
      BY <2>4, <2>5
  <1>6. ASSUME NEW c \in Envs, sys_page_map(c) PROVE mem' \in Memory
    <2>1. PICK src \in Targets(c), dst \in Targets(c), sva \in VAs, dva \in VAs, perm \in Perms :
             \E q \in Available(mem) :
                mem' = IF InsertFails(mem, dst, dva, q) THEN page_free(mem, mem.at[Pte(src, sva)].pa)
                       ELSE page_insert(mem, dst, mem.at[Pte(src, sva)].pa, dva, perm, q)
      BY <1>6 DEF sys_page_map
    <2>2. src \in Envs /\ dst \in Envs /\ Pte(src, sva) \in Sites
      BY SiteKinds DEF Targets
    <2>3. mem.at[Pte(src, sva)].pa \in AllPages
      BY <2>2, MemoryOps
    <2> DEFINE p == mem.at[Pte(src, sva)].pa
    <2>4. PICK q \in Available(mem) : mem' = IF InsertFails(mem, dst, dva, q) THEN page_free(mem, p)
                                             ELSE page_insert(mem, dst, p, dva, perm, q)
      BY <2>1
    <2>5. p \in AllPages
      BY <2>3
    <2> HIDE DEF p
    <2>6. CASE InsertFails(mem, dst, dva, q)
      BY <2>4, <2>5, <2>6, MemoryOps
    <2>7. CASE ~InsertFails(mem, dst, dva, q)
      BY <1>1, <2>2, <2>4, <2>5, <2>7, RemoveInsertType
    <2> QED
      BY <2>6, <2>7
  <1>7. ASSUME NEW c \in Envs, sys_page_unmap(c) PROVE mem' \in Memory
    BY <1>7, RemoveInsertType DEF sys_page_unmap, Targets
  <1>8. ASSUME NEW c \in Envs, sys_ipc_try_send(c) PROVE mem' \in Memory
    <2>1. PICK e \in Envs : Delivers(c, e)
      BY <1>8, SendKinds
    <2>2. \A sva \in VAs : mem.at[Pte(c, sva)].pa \in AllPages
      BY SiteKinds, MemoryOps
    <2>3. ASSUME NEW sva \in VAs, NEW perm \in Perms, NEW q \in Available(mem), Inserts(c, e, sva, perm, q)
          PROVE  mem' \in Memory
      BY <1>1, <2>2, <2>3, RemoveInsertType DEF Inserts
    <2>4. ASSUME NEW sva \in VAs, NEW perm \in Perms, NEW q \in Available(mem), InsertsAbove(c, e, sva, perm, q)
          PROVE  mem' \in Memory
      BY <1>1, <2>2, <2>4, AboveType DEF InsertsAbove
    <2> QED
      BY <2>1, <2>3, <2>4 DEF Delivers
  <1>9. ASSUME NEW c \in Envs, syscall(c) PROVE mem' \in Memory
    BY <1>2, <1>3, <1>5, <1>6, <1>7, <1>8, <1>9
    DEF syscall, sys_exofork, sys_env_set_status, sys_env_destroy, sys_ipc_recv
  <1> QED
    BY <1>2, <1>3, <1>4, <1>9 DEF Next, boot_done, env_create, load_done, env_run, preempt, collect_zombie, access

LEMMA TypeStep ==
  ASSUME TypeOK, [Next]_vars
  PROVE  TypeOK'
  <1> USE DEF TypeOK
  <1>1. CASE UNCHANGED vars
    BY <1>1 DEF vars
  <1>2. ASSUME Next PROVE TypeOK'
    <2>0. mem' \in Memory
      BY <1>2, MemoryStep
    <2>1. NoTlb \in [VAs -> Entry]
      BY EntryFacts DEF NoTlb
    <2>2. ASSUME NEW e \in Envs, NEW p \in Envs \cup {NULL},
                 NEW st \in {"LOADING", "NOT_RUNNABLE"}, env_alloc(e, p, st)
          PROVE  status' \in [Envs -> {"FREE", "LOADING", "DYING", "RUNNABLE", "RUNNING", "NOT_RUNNABLE"}]
                 /\ parent' \in [Envs -> Envs \cup {NULL}] /\ recv' \in [Envs -> VAs \cup {UTOP, NULL} \cup Beyond]
      BY <2>2 DEF env_alloc
    <2>3. ASSUME NEW c \in Envs, NEW e \in Envs, Release(c, e)
          PROVE  /\ status' \in [Envs -> {"FREE", "LOADING", "DYING", "RUNNABLE", "RUNNING", "NOT_RUNNABLE"}]
                 /\ parent' \in [Envs -> Envs \cup {NULL}] /\ recv' \in [Envs -> VAs \cup {UTOP, NULL} \cup Beyond]
                 /\ tlb' \in [Envs -> [VAs -> Entry]]
      BY <2>1, <2>3 DEF Release
    <2>4. \A c \in Envs : Reload(c) => tlb' \in [Envs -> [VAs -> Entry]]
      BY <2>1 DEF Reload
    <2>5. ASSUME boot_done PROVE TypeOK'
      BY <2>0, <2>5 DEF boot_done
    <2>6. ASSUME NEW e \in Envs, env_create(e) PROVE TypeOK'
      BY <2>0, <2>2, <2>6 DEF env_create
    <2>7. ASSUME NEW e \in Envs, load_done(e) PROVE TypeOK'
      BY <2>0, <2>7 DEF load_done
    <2>8. ASSUME NEW e \in Envs, env_run(e) PROVE TypeOK'
      BY <2>0, <2>4, <2>8 DEF env_run
    <2>9. ASSUME NEW e \in Envs, preempt(e) PROVE TypeOK'
      BY <2>0, <2>1, <2>9 DEF preempt
    <2>10. ASSUME NEW e \in Envs, collect_zombie(e) PROVE TypeOK'
      BY <2>0, <2>3, <2>10 DEF collect_zombie
    <2>11. ASSUME NEW e \in Envs, NEW va \in VAs, region_alloc(e, va) PROVE TypeOK'
      BY <2>0, <2>11 DEF region_alloc
    <2>12. ASSUME NEW e \in Envs, NEW va \in Touched, access(e, va) PROVE TypeOK'
      <3>1. va \in VAs /\ mem.at[Pte(e, va)] \in Entry
        BY PermAssumption, SiteKinds DEF Memory
      <3>2. tlb' \in [Envs -> [VAs -> Entry]]
        BY <2>12, <3>1 DEF access
      <3> QED
        BY <2>0, <2>12, <3>2 DEF access
    <2>13. ASSUME NEW c \in Envs, syscall(c) PROVE TypeOK'
      <3>0. lost' \in BOOLEAN /\ booting' \in BOOLEAN
        BY <2>13 DEF syscall, sys_ipc_try_send
      <3>1. CASE sys_exofork(c)
        BY <2>0, <2>2, <2>4, <3>0, <3>1 DEF sys_exofork
      <3>2. CASE sys_env_set_status(c)
        BY <2>0, <2>4, <3>0, <3>2 DEF sys_env_set_status, Targets
      <3>3. CASE sys_env_destroy(c)
        BY <2>0, <2>3, <2>4, <3>0, <3>3 DEF sys_env_destroy
      <3>4. CASE sys_page_alloc(c) \/ sys_page_map(c) \/ sys_page_unmap(c)
        BY <2>0, <2>4, <3>0, <3>4 DEF sys_page_alloc, sys_page_map, sys_page_unmap
      <3>5. CASE sys_ipc_recv(c)
        <4>1. PICK va \in VAs \cup {UTOP} \cup Beyond : recv' = [recv EXCEPT ![c] = va]
          BY <3>5 DEF sys_ipc_recv
        <4> QED
          BY <2>0, <2>1, <3>0, <3>5, <4>1 DEF sys_ipc_recv
      <3>6. CASE sys_ipc_try_send(c)
        <4>1. PICK e \in Envs : status' = [status EXCEPT ![e] = "RUNNABLE"] /\ recv' = [recv EXCEPT ![e] = NULL]
          BY <3>6 DEF sys_ipc_try_send
        <4> QED
          BY <2>0, <2>4, <3>0, <3>6, <4>1 DEF sys_ipc_try_send
      <3> QED
        BY <2>13, <3>1, <3>2, <3>3, <3>4, <3>5, <3>6 DEF syscall
    <2> QED
      BY <1>2, <2>5, <2>6, <2>7, <2>8, <2>9, <2>10, <2>11, <2>12, <2>13 DEF Next
  <1> QED
    BY <1>1, <1>2

\* The kernel's tables and the TLBs hold values of their types: no reference count
\* leaves the range of pp_ref, and page_free_list only has pages.
THEOREM TypeCorrect == Spec => []TypeOK
  <1>1. ASSUME Init PROVE TypeOK
    <2> DEFINE at == [s \in Sites |-> IF s = <<"utop">> THEN [pa |-> EnvsPage, perm |-> {"P", "U"}] ELSE ZeroPte]
               ref == [p \in AllPages |-> 0]
    <2>1. at \in [Sites -> Entry] /\ ref \in [AllPages -> 0..(RefMod - 1)] /\ Pages \in SUBSET AllPages
      BY EntryFacts DEF Entry, Bits
    <2>2. mem = [ref |-> ref, free |-> Pages, at |-> at, panic |-> FALSE]
      BY <1>1 DEF Init
    <2> HIDE DEF at, ref
    <2>3. mem \in Memory
      BY <2>1, <2>2 DEF Memory
    <2> QED
      BY <1>1, <2>3, EntryFacts DEF Init, TypeOK, NoTlb
  <1>2. TypeOK /\ [Next]_vars => TypeOK'
    BY TypeStep
  <1> QED
    BY <1>1, <1>2, PTL DEF Spec

-----------------------------------------------------------------------------
(* What each action does to the memory *)

\* Page tables and counts are sound, and so is the free list until a panic.
Held(m) == Shape(m) /\ Exact(m) /\ Tree(m) /\ (m.panic \/ Linked(m, NULL))

\* An environment has a page directory exactly while it exists.
Slots == \A e \in Envs : Present(mem.at[Dir(e)]) <=> status[e] # "FREE"

\* No page has as many mappings as pp_ref can count.
FewMappings == \A p \in Pages : Cardinality(Refs(p)) < RefMod

\* The state of the memory when an action begins.
Ready == Sound(mem, NULL) /\ ZeroPage \notin mem.free /\ ~mem.panic /\ Slots /\ TypeOK

LEMMA FewIsFew == FewMappings <=> Few(mem)
  BY DEF FewMappings, Few, Refs, RefsIn

LEMMA FewNext ==
  ASSUME FewMappings'
  PROVE  Few(mem')
  BY DEF FewMappings, Few, Refs, RefsIn

LEMMA PermBits == Perms \subseteq SUBSET Bits /\ {"U", "W"} \in SUBSET Bits
  BY PermAssumption DEF Bits

LEMMA SoundHeld == \A m : Sound(m, NULL) => Held(m)
  BY DEF Sound, Held

LEMMA DoRegionAlloc ==
  ASSUME Ready, Few(mem'), NEW e \in Envs, NEW va \in VAs, region_alloc(e, va)
  PROVE  /\ Held(mem')
         /\ \/ mem'.at = mem.at
            \/ \E p \in Pages : RefsIn(mem, p) = {} /\ Maps(mem, mem', e, va, p, {"U", "W"})
  <1> PICK p \in Available(mem) :
        IF p = NULL THEN mem' = [mem EXCEPT !.panic = TRUE]
        ELSE \E q \in Available(page_alloc(mem, p)) :
                mem' = IF InsertFails(page_alloc(mem, p), e, va, q) THEN [page_alloc(mem, p) EXCEPT !.panic = TRUE]
                       ELSE page_insert(page_alloc(mem, p), e, p, va, {"U", "W"}, q)
    BY DEF region_alloc
  <1>0. ASSUME NEW m, m \in Memory, Shape(m), Exact(m), Tree(m), m.at = mem.at, mem' = [m EXCEPT !.panic = TRUE]
        PROVE  Held(mem') /\ mem'.at = mem.at
    <2>1. mem' = [ref |-> m.ref, free |-> m.free, at |-> m.at, panic |-> TRUE]
      BY <1>0 DEF Memory
    <2>2. mem' \in Memory
      BY <1>0 DEF Memory
    <2>3. mem'.ref = m.ref /\ mem'.free = m.free /\ mem'.at = m.at /\ mem'.panic = TRUE
      BY <2>1
    <2>4. Shape(mem')
      BY <1>0, <2>2, <2>3 DEF Shape
    <2>5. Exact(mem')
      BY <1>0, <2>3 DEF Exact, RefsIn
    <2>6. Tree(mem')
      BY <1>0, <2>3 DEF Tree, Private, Below
    <2> QED
      BY <1>0, <2>3, <2>4, <2>5, <2>6 DEF Held
  <1>1. CASE p = NULL
    BY <1>0, <1>1 DEF Ready, Sound, Shape
  <1>2. CASE p # NULL
    <2> DEFINE m == page_alloc(mem, p)
               U == {"U", "W"}
    <2>1. p \in mem.free /\ p # ZeroPage
      BY <1>2 DEF Available, Ready
    <2>2. Shape(m) /\ Exact(m) /\ m.at = mem.at
      BY <2>1, AllocEffect DEF Ready, Sound
    <2>3. PICK q \in Available(m) : mem' = IF InsertFails(m, e, va, q) THEN [m EXCEPT !.panic = TRUE]
                                           ELSE page_insert(m, e, p, va, U, q)
      BY <1>2
    <2>4. U \in SUBSET Bits
      BY PermBits
    <2>5. Present(mem.at[Dir(e)])
      BY DEF Ready, Slots, region_alloc
    <2> HIDE DEF U
    <2>6. CASE InsertFails(m, e, va, q)
      <3> HIDE DEF m
      <3>1. Tree(m) /\ m \in Memory
        BY <2>2 DEF Ready, Sound, Tree, Private, Below, Shape
      <3> QED
        BY <1>0, <2>2, <2>3, <2>6, <3>1
    <2>7. CASE ~InsertFails(m, e, va, q)
      <3>1. mem' = page_insert(m, e, p, va, U, q)
        BY <2>3, <2>7
      <3>2. Sound(mem', NULL) /\ Maps(mem, mem', e, va, p, U) /\ p \in Pages /\ RefsIn(mem, p) = {}
        <4>1. q \in Available(page_alloc(mem, p)) /\ ~InsertFails(page_alloc(mem, p), e, va, q)
              /\ Few(page_insert(page_alloc(mem, p), e, p, va, U, q)) /\ va \in VAs \cup {UTOP}
          BY <2>3, <2>7, <3>1
        <4>2. Sound(mem, NULL) /\ ZeroPage \notin mem.free
          BY DEF Ready
        <4> HIDE DEF m
        <4> QED
          BY <2>1, <2>4, <2>5, <3>1, <4>1, <4>2, MapFresh DEF m
      <3> QED
        BY <3>2, SoundHeld DEF U
    <2> QED
      BY <2>6, <2>7
  <1> QED
    BY <1>1, <1>2

LEMMA DoPageAlloc ==
  ASSUME Ready, Few(mem'), NEW c \in Envs, sys_page_alloc(c)
  PROVE  /\ Held(mem')
         /\ \E e \in Targets(c), va \in VAs, perm \in Perms :
               /\ PermOK(perm)
               /\ \/ mem' = mem
                  \/ \E p \in Pages : RefsIn(mem, p) = {} /\ Maps(mem, mem', e, va, p, perm)
  <1>1. PICK e \in Targets(c), va \in VAs, perm \in Perms, p \in mem.free :
             /\ PermOK(perm)
             /\ \E q \in Available(page_alloc(mem, p)) :
                   mem' = IF InsertFails(page_alloc(mem, p), e, va, q) THEN page_free(page_alloc(mem, p), p)
                          ELSE page_insert(page_alloc(mem, p), e, p, va, perm, q)
    BY DEF sys_page_alloc
  <1> DEFINE m == page_alloc(mem, p)
  <1>2. PICK q \in Available(m) : mem' = IF InsertFails(m, e, va, q) THEN page_free(m, p)
                                         ELSE page_insert(m, e, p, va, perm, q)
    BY <1>1
  <1>3. p # ZeroPage /\ e \in Envs /\ Present(mem.at[Dir(e)]) /\ perm \in SUBSET Bits
    BY PermBits DEF Ready, Slots, Targets, MayManipulate
  <1>4. CASE InsertFails(m, e, va, q)
    <2>1. mem' = mem
      BY <1>2, <1>3, <1>4, FreeFresh DEF Ready
    <2> QED
      BY <1>1, <2>1, SoundHeld DEF Ready
  <1>5. CASE ~InsertFails(m, e, va, q)
    <2>1. mem' = page_insert(m, e, p, va, perm, q)
      BY <1>2, <1>5
    <2>2. Sound(mem', NULL) /\ Maps(mem, mem', e, va, p, perm) /\ p \in Pages /\ RefsIn(mem, p) = {}
      BY <1>2, <1>3, <1>5, <2>1, MapFresh DEF Ready
    <2> QED
      BY <1>1, <2>2, SoundHeld
  <1> QED
    BY <1>4, <1>5

LEMMA DoPageMap ==
  ASSUME Ready, Few(mem'), NEW c \in Envs, sys_page_map(c)
  PROVE  /\ Held(mem')
         /\ \E src, dst \in Targets(c), sva, dva \in VAs, perm \in Perms :
               /\ MayMap(mem.at[Pte(src, sva)], perm)
               /\ \/ mem'.at = mem.at
                  \/ Maps(mem, mem', dst, dva, mem.at[Pte(src, sva)].pa, perm)
  <1>1. PICK src \in Targets(c), dst \in Targets(c), sva \in VAs, dva \in VAs, perm \in Perms :
           /\ MayMap(mem.at[Pte(src, sva)], perm)
           /\ \E q \in Available(mem) :
                 mem' = IF InsertFails(mem, dst, dva, q) THEN page_free(mem, mem.at[Pte(src, sva)].pa)
                        ELSE page_insert(mem, dst, mem.at[Pte(src, sva)].pa, dva, perm, q)
    BY DEF sys_page_map
  <1>2. src \in Envs /\ dst \in Envs /\ Present(mem.at[Dir(dst)]) /\ perm \in SUBSET Bits
    BY PermBits DEF Ready, Slots, Targets, MayManipulate
  <1> DEFINE p == mem.at[Pte(src, sva)].pa
  <1>3. PICK q \in Available(mem) : mem' = IF InsertFails(mem, dst, dva, q) THEN page_free(mem, p)
                                           ELSE page_insert(mem, dst, p, dva, perm, q)
    BY <1>1
  <1>4. CASE InsertFails(mem, dst, dva, q)
    <2>1. p \in Pages \cup {ZeroPage} /\ (p \in Pages => RefsIn(mem, p) # {})
      BY <1>2, UsedFacts DEF Ready
    <2>2. mem' = page_free(mem, p)
      BY <1>3, <1>4
    <2> HIDE DEF p
    <2>3. Sound(mem', NULL) /\ mem'.at = mem.at
      BY <2>1, <2>2, FreeUsed DEF Ready
    <2> QED
      BY <1>1, <2>3, SoundHeld DEF p
  <1>5. CASE ~InsertFails(mem, dst, dva, q)
    <2>1. mem' = page_insert(mem, dst, p, dva, perm, q)
      BY <1>3, <1>5
    <2>2. Sound(mem', NULL) /\ Maps(mem, mem', dst, dva, p, perm)
      <3>1. Few(page_insert(mem, dst, mem.at[Pte(src, sva)].pa, dva, perm, q)) /\ dva \in VAs \cup {UTOP}
        BY <2>1
      <3>2. Sound(mem, NULL) /\ ZeroPage \notin mem.free
        BY DEF Ready
      <3>3. ~InsertFails(mem, dst, dva, q) /\ q \in Available(mem)
        BY <1>3, <1>5
      <3> QED
        BY <1>2, <2>1, <3>1, <3>2, <3>3, MapUsed
    <2> QED
      BY <1>1, <2>2, SoundHeld
  <1> QED
    BY <1>4, <1>5

LEMMA DoPageUnmap ==
  ASSUME Ready, NEW c \in Envs, sys_page_unmap(c)
  PROVE  /\ Held(mem')
         /\ \E e \in Targets(c), va \in VAs : \A s \in Sites :
               mem'.at[s] = mem.at[s] \/ (s = Pte(e, va) /\ mem'.at[s] = ZeroPte)
  <1>1. PICK e \in Targets(c), va \in VAs : mem' = page_remove(mem, e, va)
    BY DEF sys_page_unmap
  <1>2. e \in Envs
    BY DEF Targets
  <1>3. /\ Sound(mem', NULL)
        /\ \A s \in Sites : mem'.at[s] = mem.at[s] \/ (s = Pte(e, va) /\ mem'.at[s] = ZeroPte)
    BY <1>1, <1>2, RemoveSound DEF Ready
  <1> QED
    BY <1>3, SoundHeld

LEMMA DoSend ==
  ASSUME Ready, Few(mem'), NEW c \in Envs, sys_ipc_try_send(c), ~lost'
  PROVE  /\ Held(mem')
         /\ \E e \in Envs :
               /\ status[e] # "FREE" /\ recv[e] # NULL
               /\ \/ UNCHANGED mem
                  \/ /\ recv[e] \in VAs \cup {UTOP}
                     /\ \E sva \in VAs, perm \in Perms :
                           /\ MayMap(mem.at[Pte(c, sva)], perm)
                           /\ Maps(mem, mem', e, recv[e], mem.at[Pte(c, sva)].pa, perm)
               /\ status' = [status EXCEPT ![e] = "RUNNABLE"]
               /\ recv' = [recv EXCEPT ![e] = NULL]
  <1>1. PICK e \in Envs : Delivers(c, e)
    BY SendKinds DEF Ready
  <1>2. CASE UNCHANGED mem
    BY <1>1, <1>2, SoundHeld DEF Ready, Delivers
  <1>3. ASSUME NEW sva \in VAs, NEW perm \in Perms, NEW q \in Available(mem),
               MayMap(mem.at[Pte(c, sva)], perm), Inserts(c, e, sva, perm, q)
        PROVE  Sound(mem', NULL) /\ Maps(mem, mem', e, recv[e], mem.at[Pte(c, sva)].pa, perm)
    <2> DEFINE dst == recv[e]
    <2>1. dst \in VAs \cup {UTOP} /\ perm \in SUBSET Bits /\ Present(mem.at[Dir(e)])
      BY <1>1, <1>3, PermBits DEF Ready, Slots, Delivers, Inserts
    <2>2. ~InsertFails(mem, e, dst, q) /\ mem' = page_insert(mem, e, mem.at[Pte(c, sva)].pa, dst, perm, q)
      BY <1>3 DEF Inserts
    <2> HIDE DEF dst
    <2>3. Sound(mem', NULL) /\ Maps(mem, mem', e, dst, mem.at[Pte(c, sva)].pa, perm)
      BY <2>1, <2>2, MapUsed DEF Ready
    <2> QED
      BY <2>3 DEF dst
  <1>4. CASE ~UNCHANGED mem
    <2>1. PICK sva \in VAs, perm \in Perms, q \in Available(mem) :
             MayMap(mem.at[Pte(c, sva)], perm) /\ Inserts(c, e, sva, perm, q)
      BY <1>1, <1>4 DEF Delivers, InsertsAbove
    <2>2. recv[e] \in VAs \cup {UTOP}
      BY <2>1 DEF Inserts
    <2> QED
      BY <1>1, <1>3, <2>1, <2>2, SoundHeld DEF Delivers
  <1> QED
    BY <1>2, <1>4

LEMMA DoEnvAlloc ==
  ASSUME Ready, NEW e \in Envs, NEW pa, NEW st \in {"LOADING", "NOT_RUNNABLE"}, env_alloc(e, pa, st)
  PROVE  /\ Held(mem') /\ Slots'
         /\ \A s \in Sites : s # Dir(e) => mem'.at[s] = mem.at[s]
         /\ \E q \in Pages : RefsIn(mem, q) = {} /\ mem'.at[Dir(e)] = [pa |-> q, perm |-> {"P"}]
  <1>1. PICK q \in mem.free : mem' = env_setup_vm(mem, e, q)
    BY DEF env_alloc
  <1>2. ~Present(mem.at[Dir(e)])
    BY DEF Ready, Slots, env_alloc
  <1>3. /\ Sound(mem', NULL) /\ q \in Pages /\ RefsIn(mem, q) = {}
        /\ mem'.at = [mem.at EXCEPT ![Dir(e)] = [pa |-> q, perm |-> {"P"}]]
    BY <1>1, <1>2, SetupSound DEF Ready
  <1>4. /\ \A s \in Sites : s # Dir(e) => mem'.at[s] = mem.at[s]
        /\ mem'.at[Dir(e)] = [pa |-> q, perm |-> {"P"}]
    BY <1>3, SiteKinds DEF Ready, TypeOK, Memory
  <1>5. Present([pa |-> q, perm |-> {"P"}])
    BY DEF Present
  <1>6. \A f \in Envs : f # e => mem'.at[Dir(f)] = mem.at[Dir(f)]
    BY <1>4, SiteEqual, SiteKinds
  <1>7. \A f \in Envs : status'[f] = IF f = e THEN st ELSE status[f]
    BY DEF env_alloc, Ready, TypeOK
  <1>8. Slots'
    BY <1>4, <1>5, <1>6, <1>7 DEF Ready, Slots
  <1> QED
    BY <1>3, <1>4, <1>8, SoundHeld

LEMMA DoRelease ==
  ASSUME Ready, NEW c \in Envs, NEW e \in Envs, Release(c, e)
  PROVE  /\ Held(mem') /\ Slots'
         /\ \A s \in Sites : mem'.at[s] = IF s \in SitesOf(e) THEN ZeroPte ELSE mem.at[s]
  <1>1. /\ Sound(mem', NULL)
        /\ \A s \in Sites : mem'.at[s] = IF s \in SitesOf(e) THEN ZeroPte ELSE mem.at[s]
    BY FreeSound DEF Ready, Release
  <1>2. \A f \in Envs : mem'.at[Dir(f)] = IF f = e THEN ZeroPte ELSE mem.at[Dir(f)]
    BY <1>1, SitesOfKinds, SiteKinds
  <1>3. \A f \in Envs : status'[f] = IF f = e THEN "FREE" ELSE status[f]
    BY DEF Release, Ready, TypeOK
  <1>4. Slots'
    BY <1>2, <1>3, EntryFacts DEF Ready, Slots
  <1> QED
    BY <1>1, <1>4, SoundHeld

\* Mapping a page touches no page directory.
LEMMA MapsDirs ==
  ASSUME NEW m, NEW r, NEW e \in Envs, NEW va \in VAs \cup {UTOP}, NEW p, NEW perm, Maps(m, r, e, va, p, perm),
         NEW f \in Envs
  PROVE  r.at[Dir(f)] = m.at[Dir(f)]
  <1>1. Dir(f) \in Sites /\ Dir(f) # Pte(e, va)
    BY SiteKinds, TableSites
  <1>2. ~GrowsTable(m, r, Dir(f), p)
    BY SiteEqual DEF GrowsTable
  <1> QED
    BY <1>1, <1>2 DEF Maps

-----------------------------------------------------------------------------
(* Reference counts and the free list *)

\* Nothing is said of a memory after a message that was received above UTOP.
MemInv == TypeOK /\ (lost \/ (Held(mem) /\ Slots))

LEMMA MemInvStep ==
  ASSUME MemInv, FewMappings', [Next]_vars
  PROVE  MemInv'
  <1>1. TypeOK'
    BY TypeStep DEF MemInv
  <1>2. CASE UNCHANGED vars
    <2>1. mem' = mem /\ status' = status /\ lost' = lost
      BY <1>2 DEF vars
    <2>2. lost' \/ (Held(mem') /\ Slots')
      BY <2>1 DEF MemInv, Slots
    <2> QED
      BY <1>1, <2>2 DEF MemInv
  <1>3. ASSUME Next, ~lost' PROVE Held(mem') /\ Slots'
    <2>0. TypeOK /\ Held(mem) /\ Slots
      BY <1>3 DEF Next, Stopped, MemInv
    <2>1. Ready
      BY <1>3, <2>0 DEF Next, Stopped, Held, Ready, Sound
    <2>2. Few(mem')
      BY FewNext
    <2>3. ASSUME mem' = mem, \A f \in Envs : status'[f] = "FREE" <=> status[f] = "FREE"
          PROVE  Held(mem') /\ Slots'
      BY <2>0, <2>3 DEF Slots
    <2>4. ASSUME Held(mem'), \A f \in Envs : mem'.at[Dir(f)] = mem.at[Dir(f)],
                 \A f \in Envs : status'[f] = "FREE" <=> status[f] = "FREE"
          PROVE  Held(mem') /\ Slots'
      BY <2>0, <2>4 DEF Slots
    <2>5. \A f \in Envs : \A st : st # "FREE" /\ status[f] # "FREE" /\ status' = [status EXCEPT ![f] = st]
                              => \A g \in Envs : status'[g] = "FREE" <=> status[g] = "FREE"
      BY <2>0 DEF TypeOK
    <2>6. ASSUME boot_done PROVE Held(mem') /\ Slots'
      BY <2>3, <2>6 DEF boot_done
    <2>7. ASSUME NEW e \in Envs, env_create(e) PROVE Held(mem') /\ Slots'
      BY <2>1, <2>7, DoEnvAlloc DEF env_create
    <2>8. ASSUME NEW e \in Envs, load_done(e) \/ env_run(e) \/ preempt(e) PROVE Held(mem') /\ Slots'
      BY <2>3, <2>5, <2>8 DEF load_done, env_run, preempt
    <2>9. ASSUME NEW e \in Envs, collect_zombie(e) PROVE Held(mem') /\ Slots'
      BY <2>1, <2>9, DoRelease DEF collect_zombie
    <2>10. ASSUME NEW e \in Envs, NEW va \in VAs, region_alloc(e, va) PROVE Held(mem') /\ Slots'
      <3>1. Held(mem') /\ \A f \in Envs : mem'.at[Dir(f)] = mem.at[Dir(f)]
        BY <2>1, <2>2, <2>10, DoRegionAlloc, MapsDirs
      <3> QED
        BY <2>4, <2>10, <3>1 DEF region_alloc
    <2>11. ASSUME NEW e \in Envs, NEW va \in Touched, access(e, va) PROVE Held(mem') /\ Slots'
      BY <2>3, <2>11 DEF access
    <2>12. ASSUME NEW c \in Envs, syscall(c) PROVE Held(mem') /\ Slots'
      <3>1. CASE sys_exofork(c)
        BY <2>1, <3>1, DoEnvAlloc DEF sys_exofork
      <3>2. CASE sys_env_set_status(c)
        BY <2>3, <2>5, <3>2 DEF sys_env_set_status, Targets
      <3>3. CASE sys_env_destroy(c)
        <4>1. PICK e \in Envs :
                 \/ status[e] = "RUNNING" /\ status' = [status EXCEPT ![e] = "DYING"] /\ UNCHANGED mem
                 \/ Release(c, e)
          BY <3>3 DEF sys_env_destroy
        <4> QED
          BY <2>1, <2>3, <2>5, <4>1, DoRelease
      <3>4. CASE sys_page_alloc(c)
        <4>1. Held(mem') /\ \A f \in Envs : mem'.at[Dir(f)] = mem.at[Dir(f)]
          BY <2>1, <2>2, <3>4, DoPageAlloc, MapsDirs DEF Targets
        <4> QED
          BY <2>4, <3>4, <4>1 DEF sys_page_alloc
      <3>5. CASE sys_page_map(c)
        <4>1. Held(mem') /\ \A f \in Envs : mem'.at[Dir(f)] = mem.at[Dir(f)]
          BY <2>1, <2>2, <3>5, DoPageMap, MapsDirs DEF Targets
        <4> QED
          BY <2>4, <3>5, <4>1 DEF sys_page_map
      <3>6. CASE sys_page_unmap(c)
        <4>1. PICK e \in Targets(c), va \in VAs : \A s \in Sites :
                 mem'.at[s] = mem.at[s] \/ (s = Pte(e, va) /\ mem'.at[s] = ZeroPte)
          BY <2>1, <3>6, DoPageUnmap
        <4>2. \A f \in Envs : mem'.at[Dir(f)] = mem.at[Dir(f)]
          BY <4>1, SiteKinds, TableSites DEF Targets
        <4> QED
          BY <2>1, <2>4, <3>6, <4>2, DoPageUnmap DEF sys_page_unmap
      <3>7. CASE sys_ipc_recv(c)
        BY <2>3, <2>5, <2>12, <3>7 DEF sys_ipc_recv, syscall
      <3>8. CASE sys_ipc_try_send(c)
        <4>1. Held(mem')
          BY <1>3, <2>1, <2>2, <3>8, DoSend
        <4>2. PICK e \in Envs :
                 /\ status[e] # "FREE" /\ recv[e] # NULL
                 /\ \/ UNCHANGED mem
                    \/ /\ recv[e] \in VAs \cup {UTOP}
                       /\ \E sva \in VAs, perm \in Perms :
                             Maps(mem, mem', e, recv[e], mem.at[Pte(c, sva)].pa, perm)
                 /\ status' = [status EXCEPT ![e] = "RUNNABLE"]
          BY <1>3, <2>1, <2>2, <3>8, DoSend
        <4>4. \A f \in Envs : mem'.at[Dir(f)] = mem.at[Dir(f)]
          BY <4>2, MapsDirs
        <4> QED
          BY <2>4, <2>5, <4>1, <4>2, <4>4
      <3> QED
        BY <2>12, <3>1, <3>2, <3>3, <3>4, <3>5, <3>6, <3>7, <3>8 DEF syscall
    <2> QED
      BY <1>3, <2>6, <2>7, <2>8, <2>9, <2>10, <2>11, <2>12 DEF Next
  <1> QED
    BY <1>1, <1>2, <1>3 DEF MemInv

LEMMA MemInvInit ==
  ASSUME Init, TypeOK
  PROVE  MemInv
  <1>1. \A s \in Sites : mem.at[s] = IF s = Utop THEN [pa |-> EnvsPage, perm |-> {"P", "U"}] ELSE ZeroPte
    BY DEF Init, Utop
  <1>2. /\ mem.ref = [p \in AllPages |-> 0] /\ mem.free = Pages /\ mem.panic = FALSE
        /\ \A e \in Envs : status[e] = "FREE"
        /\ mem \in Memory
    BY DEF Init, TypeOK
  <1>3. ZeroPte.pa = ZeroPage /\ ~Present(ZeroPte) /\ Pages \subseteq AllPages /\ EnvsPage \in AllPages
    BY EntryFacts
  <1>4. \A t \in Tables : t \in Sites /\ mem.at[t] = ZeroPte
    BY <1>1, TableSites
  <1>5. \A p \in Pages : RefsIn(mem, p) = {}
    BY <1>1, <1>3 DEF RefsIn
  <1>6. Shape(mem)
    <2>1. \A s \in Sites : mem.at[s] = ZeroPte \/ Present(mem.at[s])
      BY <1>1 DEF Present
    <2>2. \A s \in Sites : mem.at[s].pa = EnvsPage => s = Utop /\ mem.ref[EnvsPage] = 0
      BY <1>1, <1>2, <1>3
    <2> QED
      BY <1>2, <1>3, <1>4, <2>1, <2>2, TableSites DEF Shape
  <1>7. Exact(mem) /\ Linked(mem, NULL)
    BY <1>2, <1>3, <1>5, EntryFacts, FS_EmptySet DEF Exact, Linked
  <1>8. Tree(mem)
    <2>1. \A e \in Envs, va \in VAs : ~Present(mem.at[Pte(e, va)])
      BY <1>1, <1>3, SiteKinds
    <2> QED
      BY <1>3, <1>4, <2>1, TableSites DEF Tree, Private, Below
  <1>9. Slots
    BY <1>2, <1>3, <1>4, TableSites DEF Slots
  <1> QED
    BY <1>6, <1>7, <1>8, <1>9 DEF MemInv, Held

\* The invariant behind the theorems about page tables, counts and the free list.
THEOREM MemoryHolds == Spec /\ []FewMappings => []MemInv
  <1>1. Init /\ TypeOK => MemInv
    BY MemInvInit
  <1>2. MemInv /\ FewMappings' /\ [Next]_vars => MemInv'
    BY MemInvStep
  <1> QED
    BY <1>1, <1>2, TypeCorrect, PTL DEF Spec

\* As long as no page has 2^16 mappings, pp_ref of every page is the number of
\* entries that point to it, after every trap and whatever call fails: the count
\* that page_decref trusts when it gives a page back (pmap.c).  This is so up to
\* the first message received above UTOP, the first panic and the first linking
\* of page 0, where Pmap stops.
THEOREM CountsExact == Spec /\ []FewMappings => []RefExact
  <1>1. MemInv => RefExact
    BY DEF MemInv, Held, Exact, RefExact, Refs, RefsIn
  <1> QED
    BY <1>1, MemoryHolds, PTL

\* Under the same condition, and as long, page_free_list holds exactly the pages
\* nobody points to: a mapped page is never handed out, and no page is lost, also
\* when page_insert or env_alloc fails half way.
THEOREM FreeListExact == Spec /\ []FewMappings => []NoLeak
  <1>1. MemInv => NoLeak
    BY EntryFacts DEF MemInv, Held, Linked, NoLeak, Refs, RefsIn
  <1> QED
    BY <1>1, MemoryHolds, PTL

\* Page directories and page tables are private to one environment, are never
\* mapped as memory, and nothing hangs below a missing one: what env_free takes
\* for granted when it walks the tables of a dying environment.  Only a message
\* received above UTOP, in the window at UVPT, puts a program's page among them.
THEOREM TreesExact == Spec /\ []FewMappings => []TreeOK
  <1>1. ASSUME MemInv, ~lost PROVE TreeShape
    <2>1. \A e \in Envs : \A t \in {Dir(e)} \cup {Table(e, d) : d \in PDs} : t \in Tables
      BY DEF Tables
    <2>2. TablesPrivate
      BY <1>1, <2>1 DEF MemInv, Held, Tree, Private, TablesPrivate
    <2> QED
      BY <1>1, <2>2 DEF MemInv, Held, Tree, Below, Slots, TreeShape
  <1>2. MemInv => TreeOK
    BY <1>1 DEF TreeOK
  <1> QED
    BY <1>2, MemoryHolds, PTL

-----------------------------------------------------------------------------
(* TLBs.  What a call does to other entries does not depend on the counts.     *)

\* The entries of the programs after an operation, but for one of them.
SameEntries(m, r) == \A f \in Envs, vb \in VAs : r.at[Pte(f, vb)] = m.at[Pte(f, vb)]
SameBut(m, r, e, va) ==
    \A f \in Envs, vb \in VAs : r.at[Pte(f, vb)] = m.at[Pte(f, vb)] \/ (va \in VAs /\ f = e /\ vb = va)

LEMMA InsertBut ==
  ASSUME NEW m, m \in Memory, NEW e \in Envs, NEW va \in VAs \cup {UTOP}, NEW q \in Available(m),
         ~InsertFails(m, e, va, q), NEW p \in AllPages, NEW perm \in SUBSET Bits
  PROVE  SameBut(m, page_insert(m, e, p, va, perm, q), e, va)
  <1> DEFINE n == pgdir_walk(m, e, va, q)
             r == page_insert(m, e, p, va, perm, q)
             s == Pte(e, va)
  <1>1. n \in Memory /\ (n = m \/ Walked(m, n, e, va, q))
    BY WalkEffect
  <1>2. Inserted(n, r, s, p, perm)
    BY InsertEffect
  <1> HIDE DEF n, r
  <1>3. ASSUME NEW f \in Envs, NEW vb \in VAs PROVE n.at[Pte(f, vb)] = m.at[Pte(f, vb)]
    <2>1. CASE Walked(m, n, e, va, q)
      <3>1. Pte(f, vb) # Table(e, PDX(va)) /\ Pte(f, vb) \in Sites
        BY <2>1, SiteKinds, TableSites, AddressHasTable DEF Walked
      <3> QED
        BY <2>1, <3>1 DEF Walked, Memory
    <2> QED
      BY <1>1, <2>1
  <1>4. ASSUME NEW f \in Envs, NEW vb \in VAs
        PROVE  r.at[Pte(f, vb)] = n.at[Pte(f, vb)] \/ (va \in VAs /\ f = e /\ vb = va)
    <2>1. CASE Pte(f, vb) = s
      <3>1. va \in VAs
        BY <2>1, SiteKinds
      <3> QED
        BY <2>1, <3>1, SiteEqual
    <2>2. CASE Pte(f, vb) # s
      <3>1. s \in Sites /\ Pte(f, vb) \in Sites /\ n.at \in [Sites -> Entry]
        BY <1>1, SiteKinds DEF Memory
      <3> QED
        BY <1>2, <2>2, <3>1 DEF Inserted
    <2> QED
      BY <2>1, <2>2
  <1> QED
    BY <1>3, <1>4 DEF SameBut, r

LEMMA RemoveBut ==
  ASSUME NEW m, m \in Memory, NEW e \in Envs, NEW va \in VAs
  PROVE  SameBut(m, page_remove(m, e, va), e, va)
  <1> DEFINE r == page_remove(m, e, va)
  <1>1. r = m \/ r.at = [m.at EXCEPT ![Pte(e, va)] = ZeroPte]
    BY RemoveEffect
  <1> HIDE DEF r
  <1>2. ASSUME NEW f \in Envs, NEW vb \in VAs PROVE r.at[Pte(f, vb)] = m.at[Pte(f, vb)] \/ (f = e /\ vb = va)
    <2>1. Pte(f, vb) = Pte(e, va) => f = e /\ vb = va
      BY SiteEqual
    <2>2. Pte(f, vb) \in Sites /\ Pte(e, va) \in Sites
      BY SiteKinds
    <2> QED
      BY <1>1, <2>1, <2>2 DEF Memory
  <1> QED
    BY <1>2 DEF SameBut, r

LEMMA SameOps ==
  ASSUME NEW m, m \in Memory
  PROVE  /\ SameEntries(m, m) /\ SameEntries(m, [m EXCEPT !.panic = TRUE])
         /\ \A p \in AllPages : /\ page_alloc(m, p).at = m.at /\ page_free(m, p).at = m.at
                                /\ [page_alloc(m, p) EXCEPT !.panic = TRUE].at = m.at
  BY DEF SameEntries, page_alloc, page_free, Memory

LEMMA SetupSame ==
  ASSUME NEW m, m \in Memory, NEW e \in Envs, NEW p \in m.free
  PROVE  SameEntries(m, env_setup_vm(m, e, p))
  <1> DEFINE n == page_alloc(m, p)
             k == [n EXCEPT !.ref[p] = Incremented(@)]
             x == [pa |-> p, perm |-> {"P"}]
  <1>1. n \in Memory /\ n.at = m.at
    BY MemoryOps, SameOps
  <1> HIDE DEF n
  <1>2. k.at = m.at
    BY <1>1 DEF Memory
  <1> HIDE DEF k, x
  <1>3. env_setup_vm(m, e, p) = Store(k, Dir(e), x)
    BY DEF env_setup_vm, k, n, x
  <1>4. env_setup_vm(m, e, p).at = [m.at EXCEPT ![Dir(e)] = x]
    BY <1>2, <1>3 DEF Store, k, n, page_alloc, Memory
  <1>5. \A f \in Envs, vb \in VAs : Pte(f, vb) # Dir(e) /\ Pte(f, vb) \in Sites
    BY SiteKinds, TableSites
  <1> QED
    BY <1>4, <1>5 DEF SameEntries, Memory

LEMMA EnvFreeSame ==
  ASSUME NEW m, m \in Memory, NEW e \in Envs, NEW f \in Envs, f # e, NEW vb \in VAs
  PROVE  env_free(m, e).at[Pte(f, vb)] = m.at[Pte(f, vb)]
  <1>1. Pte(f, vb) \in Sites /\ Pte(f, vb) \notin SitesOf(e)
    BY SiteKinds, SitesOfKinds
  <1> QED
    BY <1>1 DEF env_free, Freed

\* Only environments that are off the processors wait for a message, and a
\* processor caches nothing for an environment it does not run.
Waits == \A e \in Envs : recv[e] # NULL => status[e] = "NOT_RUNNABLE"
Idle  == \A e \in Envs : status[e] \notin OnCpu => tlb[e] = NoTlb

\* Without remote calls, a call of c leaves the entries of every other running
\* environment alone.
LEMMA CallsStayHome ==
  ASSUME RemoteCalls = FALSE, TypeOK, Waits, NEW c \in Envs, syscall(c), ~lost',
         NEW f \in Envs, f # c, status[f] \in OnCpu, NEW vb \in VAs
  PROVE  tlb'[f] = NoTlb \/ (tlb'[f] = tlb[f] /\ mem'.at[Pte(f, vb)] = mem.at[Pte(f, vb)])
  <1> USE DEF TypeOK
  <1>0. Perms \subseteq SUBSET Bits /\ mem \in Memory
    BY PermBits
  <1>1. Reload(c) => tlb'[f] = tlb[f]
    BY DEF Reload
  <1>2. \A e \in Targets(c) : e \in Envs /\ e # f
    BY DEF Targets
  <1>3. ASSUME NEW e \in Envs, e # f, NEW va, SameBut(mem, mem', e, va) PROVE mem'.at[Pte(f, vb)] = mem.at[Pte(f, vb)]
    BY <1>3 DEF SameBut
  <1>4. ASSUME mem'.at = mem.at \/ SameEntries(mem, mem') PROVE mem'.at[Pte(f, vb)] = mem.at[Pte(f, vb)]
    BY <1>4 DEF SameEntries
  <1>5. CASE sys_exofork(c)
    <2>1. SameEntries(mem, mem')
      BY <1>0, <1>5, SetupSame DEF sys_exofork, env_alloc
    <2> QED
      BY <1>1, <1>4, <1>5, <2>1 DEF sys_exofork
  <1>6. CASE sys_env_set_status(c)
    BY <1>1, <1>6 DEF sys_env_set_status
  <1>7. CASE sys_env_destroy(c)
    <2>1. PICK e \in Envs : (Reload(c) /\ UNCHANGED mem) \/ Release(c, e)
      BY <1>7 DEF sys_env_destroy
    <2>2. CASE Release(c, e) /\ e = f
      BY <2>2 DEF Release
    <2>3. CASE Release(c, e) /\ e # f
      BY <1>0, <2>3, EnvFreeSame DEF Release
    <2> QED
      BY <1>1, <2>1, <2>2, <2>3
  <1>8. CASE sys_page_alloc(c)
    <2>1. PICK e \in Targets(c), va \in VAs, perm \in Perms, p \in mem.free :
             \E q \in Available(page_alloc(mem, p)) :
                mem' = IF InsertFails(page_alloc(mem, p), e, va, q) THEN page_free(page_alloc(mem, p), p)
                       ELSE page_insert(page_alloc(mem, p), e, p, va, perm, q)
      BY <1>8 DEF sys_page_alloc
    <2> DEFINE m == page_alloc(mem, p)
    <2>2. p \in AllPages /\ m \in Memory /\ m.at = mem.at /\ page_free(m, p).at = m.at
      BY <1>0, MemoryOps, SameOps
    <2>3. PICK q \in Available(m) : mem' = IF InsertFails(m, e, va, q) THEN page_free(m, p)
                                           ELSE page_insert(m, e, p, va, perm, q)
      BY <2>1
    <2> HIDE DEF m
    <2>4. CASE InsertFails(m, e, va, q)
      <3>1. mem'.at = mem.at
        BY <2>2, <2>3, <2>4
      <3> QED
        BY <1>1, <1>4, <1>8, <3>1 DEF sys_page_alloc
    <2>5. CASE ~InsertFails(m, e, va, q)
      <3>1. SameBut(m, mem', e, va)
        BY <1>0, <1>2, <2>2, <2>3, <2>5, InsertBut
      <3>2. SameBut(mem, mem', e, va)
        BY <2>2, <3>1 DEF SameBut
      <3> QED
        BY <1>1, <1>2, <1>3, <1>8, <3>2 DEF sys_page_alloc
    <2> QED
      BY <2>4, <2>5
  <1>9. CASE sys_page_map(c)
    <2>1. PICK src \in Targets(c), dst \in Targets(c), sva \in VAs, dva \in VAs, perm \in Perms :
             \E q \in Available(mem) :
                mem' = IF InsertFails(mem, dst, dva, q) THEN page_free(mem, mem.at[Pte(src, sva)].pa)
                       ELSE page_insert(mem, dst, mem.at[Pte(src, sva)].pa, dva, perm, q)
      BY <1>9 DEF sys_page_map
    <2> DEFINE p == mem.at[Pte(src, sva)].pa
    <2>2. PICK q \in Available(mem) : mem' = IF InsertFails(mem, dst, dva, q) THEN page_free(mem, p)
                                             ELSE page_insert(mem, dst, p, dva, perm, q)
      BY <2>1
    <2>3. p \in AllPages
      BY <1>0, <1>2, SiteKinds, MemoryOps
    <2> HIDE DEF p
    <2>4. CASE InsertFails(mem, dst, dva, q)
      <3>1. mem'.at = mem.at
        BY <1>0, <2>2, <2>3, <2>4, SameOps
      <3> QED
        BY <1>1, <1>4, <1>9, <3>1 DEF sys_page_map
    <2>5. CASE ~InsertFails(mem, dst, dva, q)
      <3>1. SameBut(mem, mem', dst, dva)
        BY <1>0, <1>2, <2>2, <2>3, <2>5, InsertBut
      <3> QED
        BY <1>1, <1>2, <1>3, <1>9, <3>1 DEF sys_page_map
    <2> QED
      BY <2>4, <2>5
  <1>10. CASE sys_page_unmap(c)
    <2>1. PICK e \in Targets(c), va \in VAs : mem' = page_remove(mem, e, va)
      BY <1>10 DEF sys_page_unmap
    <2>2. SameBut(mem, mem', e, va)
      BY <1>0, <1>2, <2>1, RemoveBut
    <2> QED
      BY <1>1, <1>2, <1>3, <1>10, <2>2 DEF sys_page_unmap
  <1>11. CASE sys_ipc_recv(c)
    BY <1>11 DEF sys_ipc_recv
  <1>12. CASE sys_ipc_try_send(c)
    <2>1. PICK e \in Envs : Delivers(c, e)
      BY <1>12, SendKinds
    <2>2. e # f
      BY <2>1 DEF Waits, OnCpu, Delivers
    <2>3. ASSUME ~UNCHANGED mem PROVE SameBut(mem, mem', e, recv[e])
      <3> DEFINE dst == recv[e]
      <3>1. \A sva \in VAs : mem.at[Pte(c, sva)].pa \in AllPages
        BY <1>0, SiteKinds, MemoryOps
      <3>2. PICK sva \in VAs, perm \in Perms, q \in Available(mem) : Inserts(c, e, sva, perm, q)
        BY <2>1, <2>3 DEF Delivers, InsertsAbove
      <3>3. /\ dst \in VAs \cup {UTOP} /\ ~InsertFails(mem, e, dst, q)
            /\ mem' = page_insert(mem, e, mem.at[Pte(c, sva)].pa, dst, perm, q)
        BY <3>2 DEF Inserts
      <3> HIDE DEF dst
      <3>4. SameBut(mem, mem', e, dst)
        BY <1>0, <3>1, <3>3, InsertBut
      <3> QED
        BY <3>4 DEF dst
    <2>4. mem'.at[Pte(f, vb)] = mem.at[Pte(f, vb)]
      <3>1. CASE UNCHANGED mem
        BY <3>1
      <3>2. CASE ~UNCHANGED mem
        BY <1>3, <2>2, <2>3, <3>2
      <3> QED
        BY <3>1, <3>2
    <2> QED
      BY <1>1, <1>12, <2>4 DEF sys_ipc_try_send
  <1> QED
    BY <1>5, <1>6, <1>7, <1>8, <1>9, <1>10, <1>11, <1>12 DEF syscall

LEMMA WaitsIdleStep ==
  ASSUME TypeOK, Waits, Idle, Next
  PROVE  Waits' /\ Idle'
  <1> USE DEF TypeOK
  <1>1. \A e \in Envs : \A p, st : env_alloc(e, p, st) =>
           \A f \in Envs : /\ recv'[f] = IF f = e THEN NULL ELSE recv[f]
                           /\ status'[f] = IF f = e THEN st ELSE status[f]
                           /\ status[e] = "FREE"
    BY DEF env_alloc
  <1>2. \A c, e \in Envs : Release(c, e) =>
           \A f \in Envs : /\ recv'[f] = IF f = e THEN NULL ELSE recv[f]
                           /\ status'[f] = IF f = e THEN "FREE" ELSE status[f]
                           /\ tlb'[f] = IF f = e \/ f = c THEN NoTlb ELSE tlb[f]
    BY DEF Release
  <1>3. \A c \in Envs : Reload(c) => \A f \in Envs : tlb'[f] = IF f = c THEN NoTlb ELSE tlb[f]
    BY DEF Reload
  <1>4. ASSUME NEW e \in Envs, env_create(e) PROVE Waits' /\ Idle'
    BY <1>1, <1>4 DEF env_create, Waits, Idle, OnCpu
  <1>5. ASSUME NEW e \in Envs, load_done(e) PROVE Waits' /\ Idle'
    BY <1>5 DEF load_done, Waits, Idle, OnCpu
  <1>6. ASSUME NEW e \in Envs, env_run(e) PROVE Waits' /\ Idle'
    BY <1>3, <1>6 DEF env_run, Waits, Idle, OnCpu
  <1>7. ASSUME NEW e \in Envs, preempt(e) PROVE Waits' /\ Idle'
    BY <1>7 DEF preempt, Waits, Idle, OnCpu
  <1>8. ASSUME NEW e \in Envs, collect_zombie(e) PROVE Waits' /\ Idle'
    BY <1>2, <1>8 DEF collect_zombie, Waits, Idle, OnCpu
  <1>9. ASSUME NEW e \in Envs, NEW va \in VAs, region_alloc(e, va) PROVE Waits' /\ Idle'
    BY <1>9 DEF region_alloc, Waits, Idle, OnCpu
  <1>10. ASSUME NEW e \in Envs, NEW va \in Touched, access(e, va) PROVE Waits' /\ Idle'
    <2>1. \A f \in Envs : f # e => tlb'[f] = tlb[f]
      BY <1>10 DEF access
    <2> QED
      BY <1>10, <2>1 DEF access, Waits, Idle
  <1>11. ASSUME NEW c \in Envs, syscall(c) PROVE Waits' /\ Idle'
    <2>1. CASE sys_exofork(c)
      BY <1>1, <1>3, <2>1 DEF sys_exofork, Waits, Idle, OnCpu
    <2>2. CASE sys_env_set_status(c)
      <3>1. PICK e \in Envs : status[e] = "NOT_RUNNABLE" /\ recv[e] = NULL /\ status' = [status EXCEPT ![e] = "RUNNABLE"]
        BY <2>2 DEF sys_env_set_status, Targets
      <3> QED
        BY <1>3, <2>2, <3>1 DEF sys_env_set_status, Waits, Idle, OnCpu
    <2>3. CASE sys_env_destroy(c)
      <3>1. PICK e \in Envs :
               \/ /\ status[e] = "RUNNING" /\ status' = [status EXCEPT ![e] = "DYING"]
                  /\ Reload(c) /\ UNCHANGED recv
               \/ Release(c, e)
        BY <2>3 DEF sys_env_destroy
      <3>2. CASE Release(c, e)
        BY <1>2, <3>2 DEF Waits, Idle, OnCpu
      <3>3. CASE status[e] = "RUNNING" /\ status' = [status EXCEPT ![e] = "DYING"] /\ Reload(c) /\ UNCHANGED recv
        BY <1>3, <3>3 DEF Waits, Idle, OnCpu
      <3> QED
        BY <3>1, <3>2, <3>3
    <2>4. CASE sys_page_alloc(c) \/ sys_page_map(c) \/ sys_page_unmap(c)
      <3>1. status' = status /\ recv' = recv /\ Reload(c)
        BY <2>4 DEF sys_page_alloc, sys_page_map, sys_page_unmap
      <3> QED
        BY <1>3, <3>1 DEF Waits, Idle, OnCpu
    <2>5. CASE sys_ipc_recv(c)
      <3>1. PICK va \in VAs \cup {UTOP} \cup Beyond : recv' = [recv EXCEPT ![c] = va]
        BY <2>5 DEF sys_ipc_recv
      <3> QED
        BY <1>3, <2>5, <3>1 DEF sys_ipc_recv, Waits, Idle, OnCpu
    <2>6. CASE sys_ipc_try_send(c)
      <3>1. PICK e \in Envs :
               recv[e] # NULL /\ status' = [status EXCEPT ![e] = "RUNNABLE"] /\ recv' = [recv EXCEPT ![e] = NULL]
        BY <2>6 DEF sys_ipc_try_send
      <3> QED
        BY <1>3, <2>6, <3>1 DEF sys_ipc_try_send, Waits, Idle, OnCpu
    <2> QED
      BY <1>11, <2>1, <2>2, <2>3, <2>4, <2>5, <2>6 DEF syscall
  <1>12. ASSUME boot_done PROVE Waits' /\ Idle'
    BY <1>12 DEF boot_done, Waits, Idle
  <1> QED
    BY <1>4, <1>5, <1>6, <1>7, <1>8, <1>9, <1>10, <1>11, <1>12 DEF Next

LEMMA RegionStaysHome ==
  ASSUME TypeOK, NEW e \in Envs, NEW va \in VAs, region_alloc(e, va), NEW f \in Envs, f # e, NEW vb \in VAs
  PROVE  mem'.at[Pte(f, vb)] = mem.at[Pte(f, vb)]
  <1>0. mem \in Memory
    BY DEF TypeOK
  <1> PICK p \in Available(mem) :
        IF p = NULL THEN mem' = [mem EXCEPT !.panic = TRUE]
        ELSE \E q \in Available(page_alloc(mem, p)) :
                mem' = IF InsertFails(page_alloc(mem, p), e, va, q) THEN [page_alloc(mem, p) EXCEPT !.panic = TRUE]
                       ELSE page_insert(page_alloc(mem, p), e, p, va, {"U", "W"}, q)
    BY DEF region_alloc
  <1>1. CASE p = NULL
    <2>1. mem' = [mem EXCEPT !.panic = TRUE]
      BY <1>1
    <2>2. SameEntries(mem, mem')
      BY <1>0, <2>1, SameOps, Zenon
    <2> QED
      BY <2>2 DEF SameEntries
  <1>2. CASE p # NULL
    <2> DEFINE m == page_alloc(mem, p)
               U == {"U", "W"}
    <2>1. p \in AllPages /\ m \in Memory /\ m.at = mem.at /\ [m EXCEPT !.panic = TRUE].at = mem.at
      BY <1>0, <1>2, MemoryOps, SameOps DEF Available
    <2>2. PICK q \in Available(m) : mem' = IF InsertFails(m, e, va, q) THEN [m EXCEPT !.panic = TRUE]
                                           ELSE page_insert(m, e, p, va, U, q)
      BY <1>2
    <2>3. U \in SUBSET Bits
      BY PermBits
    <2> HIDE DEF m, U
    <2>4. CASE InsertFails(m, e, va, q)
      BY <2>1, <2>2, <2>4
    <2>5. CASE ~InsertFails(m, e, va, q)
      <3>1. SameBut(m, mem', e, va)
        BY <2>1, <2>2, <2>3, <2>5, InsertBut
      <3> QED
        BY <2>1, <3>1 DEF SameBut
    <2> QED
      BY <2>4, <2>5
  <1> QED
    BY <1>1, <1>2

LEMMA TlbStep ==
  ASSUME RemoteCalls = FALSE, TypeOK, Waits, Idle, TlbFresh, Next
  PROVE  TlbFresh'
  <1> USE DEF TypeOK
  <1>0. mem \in Memory /\ ~Present(ZeroPte) /\ ~lost
    BY EntryFacts DEF Next, Stopped
  <1>1. SUFFICES ASSUME ~lost', NEW f \in Envs, NEW vb \in VAs, Present(tlb'[f][vb])
                 PROVE  tlb'[f][vb] = mem'.at[Pte(f, vb)]
    BY DEF TlbFresh
  <1>2. tlb'[f] # NoTlb
    BY <1>0, <1>1 DEF NoTlb
  <1>3. ASSUME tlb'[f] = tlb[f], status[f] \in OnCpu => mem'.at[Pte(f, vb)] = mem.at[Pte(f, vb)]
        PROVE  tlb'[f][vb] = mem'.at[Pte(f, vb)]
    BY <1>0, <1>1, <1>2, <1>3 DEF Idle, TlbFresh
  <1>4. ASSUME boot_done PROVE tlb'[f][vb] = mem'.at[Pte(f, vb)]
    BY <1>3, <1>4 DEF boot_done
  <1>5. ASSUME NEW e \in Envs, env_create(e) PROVE tlb'[f][vb] = mem'.at[Pte(f, vb)]
    <2>1. SameEntries(mem, mem')
      BY <1>0, <1>5, SetupSame DEF env_create, env_alloc
    <2> QED
      BY <1>3, <1>5, <2>1 DEF env_create, SameEntries
  <1>6. ASSUME NEW e \in Envs, load_done(e) \/ env_run(e) \/ preempt(e) PROVE tlb'[f][vb] = mem'.at[Pte(f, vb)]
    BY <1>2, <1>3, <1>6 DEF load_done, env_run, preempt, Reload
  <1>7. ASSUME NEW e \in Envs, collect_zombie(e) PROVE tlb'[f][vb] = mem'.at[Pte(f, vb)]
    <2>1. f # e /\ tlb'[f] = tlb[f]
      BY <1>2, <1>7 DEF collect_zombie, Release
    <2> QED
      BY <1>0, <1>3, <1>7, <2>1, EnvFreeSame DEF collect_zombie, Release
  <1>8. ASSUME NEW e \in Envs, NEW va \in VAs, region_alloc(e, va) PROVE tlb'[f][vb] = mem'.at[Pte(f, vb)]
    BY <1>3, <1>8, RegionStaysHome DEF region_alloc, OnCpu
  <1>9. ASSUME NEW e \in Envs, NEW va \in Touched, access(e, va) PROVE tlb'[f][vb] = mem'.at[Pte(f, vb)]
    <2>1. /\ va \in VAs
          /\ tlb'[f][vb] = IF f = e /\ vb = va THEN mem.at[Pte(e, va)] ELSE tlb[f][vb]
          /\ mem' = mem
      BY <1>9, PermAssumption DEF access
    <2> QED
      BY <1>0, <1>1, <2>1 DEF TlbFresh
  <1>10. ASSUME NEW c \in Envs, syscall(c) PROVE tlb'[f][vb] = mem'.at[Pte(f, vb)]
    <2>1. CASE f = c
      <3>1. tlb'[c] = NoTlb
        BY <1>10 DEF syscall, sys_exofork, sys_env_set_status, sys_env_destroy, sys_page_alloc, sys_page_map,
                     sys_page_unmap, sys_ipc_recv, sys_ipc_try_send, Reload, Release
      <3> QED
        BY <1>2, <2>1, <3>1
    <2>2. CASE f # c /\ status[f] \in OnCpu
      BY <1>1, <1>2, <1>3, <1>10, <2>2, CallsStayHome
    <2>3. CASE f # c /\ status[f] \notin OnCpu
      <3>1. tlb'[f] = tlb[f] \/ tlb'[f] = NoTlb
        BY <1>10, <2>3 DEF syscall, sys_exofork, sys_env_set_status, sys_env_destroy, sys_page_alloc, sys_page_map,
                     sys_page_unmap, sys_ipc_recv, sys_ipc_try_send, Reload, Release
      <3> QED
        BY <1>2, <1>3, <2>3, <3>1
    <2> QED
      BY <2>1, <2>2, <2>3
  <1> QED
    BY <1>4, <1>5, <1>6, <1>7, <1>8, <1>9, <1>10 DEF Next

\* As long as parents remap only children that are on no processor, what a processor
\* has cached is what the page table says, although tlb_invalidate is local and
\* page_remove calls it only for a page that it frees (pmap.c:553).
THEOREM TlbNeverStale ==
  ASSUME RemoteCalls = FALSE
  PROVE  Spec => []TlbFresh
  <1> DEFINE TlbInv == Waits /\ Idle /\ TlbFresh
  <1>1. Init => TlbInv
    BY EntryFacts DEF Init, Waits, Idle, TlbFresh, NoTlb
  <1>2. TypeOK /\ TlbInv /\ [Next]_vars => TlbInv'
    <2>1. CASE UNCHANGED vars
      BY <2>1 DEF vars, Waits, Idle, TlbFresh
    <2>2. CASE TypeOK /\ TlbInv /\ Next
      BY <2>2, WaitsIdleStep, TlbStep
    <2> QED
      BY <2>1, <2>2
  <1>3. TlbInv => TlbFresh
    OBVIOUS
  <1> HIDE DEF TlbInv
  <1> QED
    BY <1>1, <1>2, <1>3, TypeCorrect, PTL DEF Spec

-----------------------------------------------------------------------------
(* Write permission *)

LEMMA MapsWrite ==
  ASSUME NEW m, NEW r, NEW e \in Envs, NEW va \in VAs \cup {UTOP}, NEW x, NEW perm, Maps(m, r, e, va, x, perm),
         NEW p \in Pages, RefsIn(m, p) # {}, Writable(r, p)
  PROVE  Writable(m, p) \/ (p = x /\ "W" \in perm)
  <1>1. PICK s \in Sites : r.at[s].pa = p /\ {"P", "W"} \subseteq r.at[s].perm
    BY DEF Writable
  <1>2. CASE r.at[s] = m.at[s]
    BY <1>1, <1>2 DEF Writable
  <1>3. CASE s = Pte(e, va)
    <2>1. r.at[s] = [pa |-> x, perm |-> perm \cup {"P"}]
      BY <1>3 DEF Maps
    <2> QED
      BY <1>1, <2>1
  <1>4. CASE s # Pte(e, va) /\ r.at[s] # m.at[s]
    <2>1. PICK q \in Pages : RefsIn(m, q) = {} /\ r.at[s] = [pa |-> q, perm |-> {"P", "U", "W"}]
      BY <1>4 DEF Maps, GrowsTable
    <2> QED
      BY <1>1, <2>1
  <1> QED
    BY <1>2, <1>3, <1>4

\* A copy of an entry that sys_page_map or sys_ipc_try_send may make.
LEMMA CopyWrite ==
  ASSUME Sound(mem, NULL), NEW src \in Envs, NEW sva \in VAs, NEW perm,
         MayMap(mem.at[Pte(src, sva)], perm), "W" \in perm, mem.at[Pte(src, sva)].pa \in Pages
  PROVE  Writable(mem, mem.at[Pte(src, sva)].pa)
  <1>1. Present(mem.at[Pte(src, sva)]) /\ Pte(src, sva) \in Sites
    BY UsedFacts, SiteKinds
  <1> QED
    BY <1>1 DEF Writable, MayMap, Present

LEMMA WriteKept ==
  ASSUME MemInv, FewMappings', Next
  PROVE  WriteStep
  <1>1. Ready /\ Few(mem') /\ Sound(mem, NULL)
    BY FewNext DEF Next, Stopped, MemInv, Held, Ready, Sound
  <1>2. SUFFICES ASSUME ~lost', NEW p \in Pages, RefsIn(mem, p) # {}, ~Writable(mem, p), Writable(mem', p)
                 PROVE  FALSE
    BY DEF WriteStep, Refs, RefsIn
  <1>3. mem'.at # mem.at
    BY <1>2 DEF Writable
  <1>4. ASSUME NEW f \in Envs, NEW vb \in VAs \cup {UTOP}, NEW x, NEW perm, Maps(mem, mem', f, vb, x, perm)
        PROVE  p = x /\ "W" \in perm
    BY <1>2, <1>4, MapsWrite
  <1>5. ~\E x \in Pages, f \in Envs, vb \in VAs \cup {UTOP} : \E perm : RefsIn(mem, x) = {} /\ Maps(mem, mem', f, vb, x, perm)
    BY <1>2, <1>4
  <1>6. ~\E src, f \in Envs, sva \in VAs, vb \in VAs \cup {UTOP} : \E perm :
            MayMap(mem.at[Pte(src, sva)], perm) /\ Maps(mem, mem', f, vb, mem.at[Pte(src, sva)].pa, perm)
    BY <1>1, <1>2, <1>4, CopyWrite
  <1>7. ~\A s \in Sites : mem'.at[s] = mem.at[s] \/ mem'.at[s] = ZeroPte
    BY <1>2, EntryFacts DEF Writable
  <1>8. ASSUME NEW e \in Envs, NEW pa, NEW st \in {"LOADING", "NOT_RUNNABLE"}, env_alloc(e, pa, st) PROVE FALSE
    <2>1. PICK q \in Pages : RefsIn(mem, q) = {} /\ mem'.at[Dir(e)] = [pa |-> q, perm |-> {"P"}]
      BY <1>1, <1>8, DoEnvAlloc
    <2>2. \A s \in Sites : s # Dir(e) => mem'.at[s] = mem.at[s]
      BY <1>1, <1>8, DoEnvAlloc
    <2> QED
      BY <1>2, <2>1, <2>2 DEF Writable
  <1>9. ASSUME NEW c \in Envs, NEW e \in Envs, Release(c, e) PROVE FALSE
    BY <1>1, <1>7, <1>9, DoRelease
  <1>10. \A c \in Envs : \A e \in Targets(c) : e \in Envs
    BY DEF Targets
  <1>11. ASSUME NEW c \in Envs, syscall(c) PROVE FALSE
    <2>1. CASE sys_exofork(c)
      BY <1>8, <2>1 DEF sys_exofork
    <2>2. CASE sys_env_set_status(c) \/ sys_ipc_recv(c)
      BY <1>3, <2>2 DEF sys_env_set_status, sys_ipc_recv
    <2>3. CASE sys_env_destroy(c)
      BY <1>3, <1>9, <2>3 DEF sys_env_destroy
    <2>4. CASE sys_page_alloc(c)
      BY <1>1, <1>3, <1>5, <1>10, <2>4, DoPageAlloc
    <2>5. CASE sys_page_map(c)
      <3>1. PICK src \in Targets(c), dst \in Targets(c), sva \in VAs, dva \in VAs, perm \in Perms :
               MayMap(mem.at[Pte(src, sva)], perm) /\ Maps(mem, mem', dst, dva, mem.at[Pte(src, sva)].pa, perm)
        BY <1>1, <1>3, <2>5, DoPageMap
      <3> QED
        BY <1>6, <1>10, <3>1
    <2>6. CASE sys_page_unmap(c)
      BY <1>1, <1>7, <2>6, DoPageUnmap
    <2>7. CASE sys_ipc_try_send(c)
      <3>1. PICK e \in Envs : recv[e] \in VAs \cup {UTOP} /\
               \E sva \in VAs, perm \in Perms :
                  MayMap(mem.at[Pte(c, sva)], perm) /\ Maps(mem, mem', e, recv[e], mem.at[Pte(c, sva)].pa, perm)
        BY <1>1, <1>2, <1>3, <2>7, DoSend
      <3> QED
        BY <1>6, <3>1
    <2> QED
      BY <1>11, <2>1, <2>2, <2>3, <2>4, <2>5, <2>6, <2>7 DEF syscall
  <1>12. ASSUME NEW e \in Envs, NEW va \in VAs, region_alloc(e, va) PROVE FALSE
    BY <1>1, <1>3, <1>5, <1>12, DoRegionAlloc
  <1>13. ASSUME NEW e \in Envs, env_create(e) \/ collect_zombie(e) PROVE FALSE
    BY <1>8, <1>9, <1>13 DEF env_create, collect_zombie
  <1> QED
    BY <1>3, <1>11, <1>12, <1>13 DEF Next, boot_done, load_done, env_run, preempt, access

\* No call makes a page writable that was mapped and writable nowhere, up to the
\* first message received above UTOP (and where else Pmap stops): but for that,
\* the check of sys_page_map and sys_ipc_try_send is enough (syscall.c:264, 376).
THEOREM NoWriteGranted == Spec /\ []FewMappings => WriteNeverGranted
  <1>1. MemInv /\ FewMappings' /\ [Next]_vars => [WriteStep]_vars
    BY WriteKept
  <1> QED
    BY <1>1, MemoryHolds, PTL DEF Spec, WriteNeverGranted

-----------------------------------------------------------------------------
(* The kernel implements VirtualMemory. *)

\* The abstract state, with the text of the refinement mapping.
Live  == {e \in Envs : status[e] # "FREE"}
Space == [e \in Envs |-> [va \in VAs |-> Shown(mem.at[Pte(e, va)])]]
Top   == Shown(mem.at[Utop])
AllPerms == Perms \cup {{"P", "U", "W"}}

LEMMA SpaceIs == \A e \in Envs, va \in VAs : Space[e][va] = Shown(mem.at[Pte(e, va)])
  BY DEF Space

LEMMA TopIs == Top = Shown(mem.at[<<"utop">>])
  BY DEF Top, Utop

LEMMA SpaceSame ==
  ASSUME SameEntries(mem, mem')
  PROVE  Space' = Space
  BY DEF SameEntries, Space

LEMMA SpaceSet ==
  ASSUME NEW e \in Envs, NEW va \in VAs, SameBut(mem, mem', e, va)
  PROVE  Space' = [Space EXCEPT ![e][va] = Shown(mem'.at[Pte(e, va)])]
  <1>1. ASSUME NEW f \in Envs, NEW vb \in VAs
        PROVE  Shown(mem'.at[Pte(f, vb)]) =
                 IF f = e /\ vb = va THEN Shown(mem'.at[Pte(e, va)]) ELSE Shown(mem.at[Pte(f, vb)])
    BY DEF SameBut
  <1>2. Space = [f \in Envs |-> [vb \in VAs |-> Shown(mem.at[Pte(f, vb)])]]
    BY DEF Space
  <1>3. Space' = [f \in Envs |-> [vb \in VAs |-> Shown(mem'.at[Pte(f, vb)])]]
    BY DEF Space
  <1> HIDE DEF Space
  <1> QED
    BY <1>1, <1>2, <1>3

LEMMA MapsBut ==
  ASSUME NEW m, NEW r, NEW e \in Envs, NEW va \in VAs \cup {UTOP}, NEW p, NEW perm, Maps(m, r, e, va, p, perm)
  PROVE  SameBut(m, r, e, va) /\ (va \in VAs => r.at[Utop] = m.at[Utop])
  <1>1. ASSUME NEW f \in Envs, NEW vb \in VAs, r.at[Pte(f, vb)] # m.at[Pte(f, vb)]
        PROVE  va \in VAs /\ f = e /\ vb = va
    <2>1. Pte(f, vb) \in Sites /\ Pte(f, vb) \notin Tables
      BY SiteKinds, TableSites
    <2>2. ~GrowsTable(m, r, Pte(f, vb), p)
      BY <2>1, TableSites DEF GrowsTable
    <2>3. Pte(f, vb) = Pte(e, va)
      BY <1>1, <2>1, <2>2 DEF Maps
    <2>4. va \in VAs
      BY <2>3, SiteKinds
    <2> QED
      BY <2>3, <2>4, SiteEqual
  <1>2. ASSUME va \in VAs PROVE r.at[Utop] = m.at[Utop]
    <2>1. Utop \in Sites /\ Utop # Pte(e, va)
      BY <1>2, SiteKinds
    <2>2. ~GrowsTable(m, r, Utop, p)
      BY SiteKinds DEF GrowsTable
    <2> QED
      BY <2>1, <2>2 DEF Maps
  <1> QED
    BY <1>1, <1>2 DEF SameBut

\* What programs see does not change.
SameView == SameEntries(mem, mem') /\ mem'.at[Utop] = mem.at[Utop] /\ lost' = lost

LEMMA SameViewKeeps ==
  ASSUME SameView
  PROVE  Space' = Space /\ Top' = Top /\ lost' = lost
  BY SpaceSame DEF SameView, Top

LEMMA SameMemory ==
  ASSUME mem'.at = mem.at, lost' = lost
  PROVE  SameView
  BY DEF SameView, SameEntries

\* The actions of VirtualMemory in terms of Live, Space and Top.
LEMMA RefineStutter ==
  ASSUME Live' = Live, parent' = parent, recv' = recv, Space' = Space, Top' = Top, lost' = lost
  PROVE  [VM!Next]_(VM!vars)
  BY DEF VM!vars, Live, Space, Top, Utop

LEMMA RefineCreate ==
  ASSUME NEW e \in Envs, NEW p \in Live \cup {NULL}, e \notin Live, Live' = Live \cup {e},
         parent' = [parent EXCEPT ![e] = p], recv' = recv, Space' = Space, Top' = Top, lost' = lost
  PROVE  VM!Next
  <1>1. VM!Create(e, p)
    BY DEF VM!Create, Live, Space, Top, Utop
  <1>2. p \in Envs \cup {NULL}
    BY DEF Live
  <1> QED
    BY <1>1, <1>2 DEF VM!Next

LEMMA RefineAllocate ==
  ASSUME NEW c \in Live, NEW e \in Live, e = c \/ parent[e] = c, NEW va \in VAs, NEW perm \in AllPerms,
         NEW f \in Pages, \A g \in Envs, vb \in VAs : Space[g][vb] = NULL \/ Space[g][vb].pa # f,
         Top = NULL \/ Top.pa # f,
         Space' = [Space EXCEPT ![e][va] = [pa |-> f, perm |-> perm]],
         Live' = Live, parent' = parent, recv' = recv, Top' = Top, lost' = lost
  PROVE  VM!Next
  <1>1. VM!Allocate(c, e, va, perm)
    <2>1. f \in VM!Unused
      BY SpaceIs, TopIs DEF VM!Unused, VM!Has, Utop
    <2>2. VM!MayManipulate(c, e)
      BY DEF VM!MayManipulate, Live
    <2>3. UNCHANGED <<Live, parent, recv, Top, lost>>
      OBVIOUS
    <2> QED
      BY <2>1, <2>2, <2>3 DEF VM!Allocate, Live, Space, Top, Utop
  <1>2. c \in Envs /\ e \in Envs
    BY DEF Live
  <1> QED
    BY <1>1, <1>2 DEF VM!Next, AllPerms

\* The entry a copy makes, as VirtualMemory says it.
Copied(entry, perm) == [pa |-> IF entry = NULL THEN ZeroPage ELSE entry.pa, perm |-> perm]

LEMMA RefineShare ==
  ASSUME NEW c \in Live, NEW src \in Live, NEW dst \in Live, src = c \/ parent[src] = c, dst = c \/ parent[dst] = c,
         NEW sva \in VAs, NEW dva \in VAs, NEW perm \in AllPerms,
         "W" \in perm => Space[src][sva] # NULL /\ "W" \in Space[src][sva].perm,
         Space' = [Space EXCEPT ![dst][dva] = Copied(Space[src][sva], perm)],
         Live' = Live, parent' = parent, recv' = recv, Top' = Top, lost' = lost
  PROVE  VM!Next
  <1>1. VM!Share(c, src, sva, dst, dva, perm)
    BY DEF VM!Share, VM!MayManipulate, VM!MayCopy, VM!Copy, Copied, Live, Space, Top, Utop
  <1>2. c \in Envs /\ src \in Envs /\ dst \in Envs
    BY DEF Live
  <1> QED
    BY <1>1, <1>2 DEF VM!Next, AllPerms

LEMMA RefineUnmap ==
  ASSUME NEW c \in Live, NEW e \in Live, e = c \/ parent[e] = c, NEW va \in VAs,
         Space' = [Space EXCEPT ![e][va] = NULL],
         Live' = Live, parent' = parent, recv' = recv, Top' = Top, lost' = lost
  PROVE  VM!Next
  <1>1. VM!Unmap(c, e, va)
    BY DEF VM!Unmap, VM!MayManipulate, Live, Space, Top, Utop
  <1>2. c \in Envs /\ e \in Envs
    BY DEF Live
  <1> QED
    BY <1>1, <1>2 DEF VM!Next

LEMMA RefineReceive ==
  ASSUME NEW e \in Live, recv[e] = NULL, NEW va \in VAs \cup {UTOP} \cup Beyond, recv' = [recv EXCEPT ![e] = va],
         Live' = Live, parent' = parent, Space' = Space, Top' = Top, lost' = lost
  PROVE  VM!Next
  <1>1. VM!Receive(e, va)
    BY DEF VM!Receive, Live, Space, Top, Utop
  <1>2. e \in Envs
    BY DEF Live
  <1> QED
    BY <1>1, <1>2 DEF VM!Next

LEMMA RefineSend ==
  ASSUME NEW c \in Live, NEW e \in Live, recv[e] # NULL, recv' = [recv EXCEPT ![e] = NULL],
         Live' = Live, parent' = parent, Space' = Space, Top' = Top, lost' = lost
  PROVE  VM!Next
  <1>1. VM!Send(c, e)
    BY DEF VM!Send, Live, Space, Top, Utop
  <1>2. c \in Envs /\ e \in Envs
    BY DEF Live
  <1> QED
    BY <1>1, <1>2 DEF VM!Next

LEMMA RefineSendPage ==
  ASSUME NEW c \in Live, NEW e \in Live, recv[e] \in VAs, NEW sva \in VAs, NEW perm \in AllPerms,
         "W" \in perm => Space[c][sva] # NULL /\ "W" \in Space[c][sva].perm,
         Space' = [Space EXCEPT ![e][recv[e]] = Copied(Space[c][sva], perm)], Top' = Top,
         Live' = Live, parent' = parent, recv' = [recv EXCEPT ![e] = NULL], lost' = lost
  PROVE  VM!Next
  <1>1. recv[e] # UTOP
    BY AddressKinds
  <1>2. VM!SendPage(c, e, sva, perm)
    BY <1>1 DEF VM!SendPage, VM!MayCopy, VM!Copy, Copied, Live, Space, Top, Utop
  <1>3. c \in Envs /\ e \in Envs
    BY DEF Live
  <1> QED
    BY <1>2, <1>3 DEF VM!Next, AllPerms

LEMMA RefineSendTop ==
  ASSUME NEW c \in Live, NEW e \in Live, recv[e] = UTOP, NEW sva \in VAs, NEW perm \in AllPerms,
         "W" \in perm => Space[c][sva] # NULL /\ "W" \in Space[c][sva].perm,
         Top' = Copied(Space[c][sva], perm), Space' = Space,
         Live' = Live, parent' = parent, recv' = [recv EXCEPT ![e] = NULL], lost' = lost
  PROVE  VM!Next
  <1>1. VM!SendPage(c, e, sva, perm)
    BY DEF VM!SendPage, VM!MayCopy, VM!Copy, Copied, Live, Space, Top, Utop
  <1>2. c \in Envs /\ e \in Envs
    BY DEF Live
  <1> QED
    BY <1>1, <1>2 DEF VM!Next, AllPerms

LEMMA RefineLose ==
  ASSUME NEW c \in Live, NEW e \in Live, recv[e] \in Beyond, lost' = TRUE
  PROVE  VM!Next
  <1>1. VM!Lose(c, e)
    BY DEF VM!Lose, Live
  <1>2. c \in Envs /\ e \in Envs
    BY DEF Live
  <1> QED
    BY <1>1, <1>2 DEF VM!Next

LEMMA RefineDestroy ==
  ASSUME NEW c \in Live, NEW e \in Live, e = c \/ parent[e] = c, Live' = Live \ {e},
         parent' = [x \in Envs |-> IF x = e \/ parent[x] = e THEN NULL ELSE parent[x]],
         recv' = [recv EXCEPT ![e] = NULL],
         Space' = [Space EXCEPT ![e] = [va \in VAs |-> NULL]], Top' = Top, lost' = lost
  PROVE  VM!Next
  <1>1. VM!Destroy(c, e)
    BY DEF VM!Destroy, VM!MayManipulate, VM!Empty, Live, Space, Top, Utop
  <1>2. c \in Envs /\ e \in Envs
    BY DEF Live
  <1> QED
    BY <1>1, <1>2 DEF VM!Next

\* What programs see of the entry that a call stores for page p.
LEMMA NewEntry ==
  ASSUME NEW e \in Envs, NEW va \in VAs \cup {UTOP}, NEW p, NEW perm, Maps(mem, mem', e, va, p, perm),
         perm \cup {"P"} = perm
  PROVE  /\ va \in VAs => Space' = [Space EXCEPT ![e][va] = [pa |-> p, perm |-> perm]] /\ Top' = Top
         /\ va = UTOP => Top' = [pa |-> p, perm |-> perm] /\ Space' = Space
  <1>1. Shown(mem'.at[Pte(e, va)]) = [pa |-> p, perm |-> perm]
    BY DEF Maps, Shown, Present
  <1>2. SameBut(mem, mem', e, va) /\ (va \in VAs => mem'.at[Utop] = mem.at[Utop])
    BY MapsBut
  <1>3. va \in VAs => Space' = [Space EXCEPT ![e][va] = [pa |-> p, perm |-> perm]]
    BY <1>1, <1>2, SpaceSet
  <1>4. va = UTOP => SameEntries(mem, mem') /\ Pte(e, va) = Utop
    BY <1>2, AddressKinds, SiteKinds DEF SameBut, SameEntries
  <1> QED
    BY <1>1, <1>2, <1>3, <1>4, SpaceSame DEF Top

\* What is copied from an entry, also from one that is empty.
LEMMA CopyEntry ==
  ASSUME Ready, NEW src \in Envs, NEW sva \in VAs, NEW perm \in Perms, MayMap(mem.at[Pte(src, sva)], perm)
  PROVE  /\ perm \cup {"P"} = perm
         /\ "W" \in perm => Space[src][sva] # NULL /\ "W" \in Space[src][sva].perm
         /\ Copied(Space[src][sva], perm) = [pa |-> mem.at[Pte(src, sva)].pa, perm |-> perm]
  <1> DEFINE x == mem.at[Pte(src, sva)]
  <1>1. x \in Entry /\ x # NULL /\ (x = ZeroPte \/ Present(x))
    BY SiteKinds, EntryAssumption DEF Ready, Sound, Shape, Memory
  <1>2. Space[src][sva] = Shown(x)
    BY SpaceIs
  <1>3. "P" \in perm /\ ("W" \in perm => "W" \in x.perm)
    BY DEF MayMap, PermOK
  <1> HIDE DEF x
  <1>4. perm \cup {"P"} = perm
    BY <1>3
  <1>5. CASE Present(x)
    BY <1>1, <1>2, <1>3, <1>4, <1>5 DEF Shown, Copied, x
  <1>6. CASE x = ZeroPte
    <2>1. Shown(x) = NULL /\ x.pa = ZeroPage /\ "W" \notin x.perm
      BY <1>6, EntryFacts DEF Shown, ZeroPte
    <2> QED
      BY <1>2, <1>3, <1>4, <2>1 DEF Copied, x
  <1> QED
    BY <1>1, <1>5, <1>6

\* A page that nobody points to is in no address space.
LEMMA UnusedPage ==
  ASSUME NEW p \in Pages, RefsIn(mem, p) = {}
  PROVE  /\ \A g \in Envs, vb \in VAs : Space[g][vb] = NULL \/ Space[g][vb].pa # p
         /\ Envs # {} => Top = NULL \/ Top.pa # p
  <1>1. \A s \in Sites : Shown(mem.at[s]) = NULL \/ Shown(mem.at[s]).pa # p
    BY DEF Shown, RefsIn
  <1>2. Envs # {} => Utop \in Sites
    BY SiteKinds
  <1> QED
    BY <1>1, <1>2, SpaceIs, SiteKinds DEF Top

\* One step of each kind.
LEMMA AllocRefines ==
  ASSUME Ready, Waits, NEW e \in Envs, NEW p \in Live \cup {NULL}, NEW st \in {"LOADING", "NOT_RUNNABLE"},
         env_alloc(e, p, st), lost' = lost
  PROVE  VM!Next
  <1>1. SameView
    <2>1. SameEntries(mem, mem')
      BY SetupSame DEF env_alloc, Ready, TypeOK
    <2>2. Utop \in Sites /\ Utop # Dir(e)
      BY SiteKinds
    <2>3. mem'.at[Utop] = mem.at[Utop]
      BY <2>2, DoEnvAlloc
    <2> QED
      BY <2>1, <2>3 DEF SameView
  <1>2. \A f \in Envs : status'[f] = IF f = e THEN st ELSE status[f]
    BY DEF env_alloc, Ready, TypeOK
  <1>3. e \notin Live /\ Live' = Live \cup {e}
    BY <1>2 DEF env_alloc, Live
  <1>4. recv' = recv
    <2>1. recv[e] = NULL
      BY DEF env_alloc, Waits
    <2> QED
      BY <2>1 DEF env_alloc, Ready, TypeOK
  <1>5. parent' = [parent EXCEPT ![e] = p]
    BY DEF env_alloc
  <1> QED
    BY <1>1, <1>3, <1>4, <1>5, SameViewKeeps, RefineCreate

LEMMA ReleaseRefines ==
  ASSUME Ready, NEW c \in Live, NEW e \in Live, e = c \/ parent[e] = c, Release(c, e), lost' = lost
  PROVE  VM!Next
  <1>1. e \in Envs /\ c \in Envs
    BY DEF Live
  <1>2. ASSUME NEW f \in Envs, NEW vb \in VAs
        PROVE  mem'.at[Pte(f, vb)] = IF f = e THEN ZeroPte ELSE mem.at[Pte(f, vb)]
    BY <1>1, DoRelease, SiteKinds, SitesOfKinds
  <1>3. Top' = Top
    <2>1. Utop \in Sites /\ Utop \notin SitesOf(e)
      BY <1>1, SiteKinds, SitesOfKinds
    <2> QED
      BY <1>1, <2>1, DoRelease DEF Top
  <1>4. Space' = [Space EXCEPT ![e] = [va \in VAs |-> NULL]]
    <2>1. Space = [f \in Envs |-> [vb \in VAs |-> Shown(mem.at[Pte(f, vb)])]]
      BY DEF Space
    <2>2. Space' = [f \in Envs |-> [vb \in VAs |-> Shown(mem'.at[Pte(f, vb)])]]
      BY DEF Space
    <2>3. Shown(ZeroPte) = NULL
      BY EntryFacts DEF Shown
    <2>4. ASSUME NEW f \in Envs PROVE Space'[f] = IF f = e THEN [va \in VAs |-> NULL] ELSE Space[f]
      BY <1>2, <2>1, <2>2, <2>3
    <2>5. DOMAIN Space = Envs /\ Space' = [f \in Envs |-> Space'[f]]
      BY <2>1, <2>2
    <2> HIDE DEF Space
    <2> QED
      BY <2>1, <2>4, <2>5
  <1>5. Live' = Live \ {e}
    <2>1. \A f \in Envs : status'[f] = IF f = e THEN "FREE" ELSE status[f]
      BY DEF Release, Ready, TypeOK
    <2> QED
      BY <2>1 DEF Live
  <1> QED
    BY <1>3, <1>4, <1>5, RefineDestroy DEF Release

LEMMA RegionRefines ==
  ASSUME Ready, Few(mem'), NEW e \in Envs, NEW va \in VAs, region_alloc(e, va)
  PROVE  [VM!Next]_(VM!vars)
  <1>1. Live' = Live /\ parent' = parent /\ recv' = recv /\ lost' = lost /\ e \in Live
    BY DEF region_alloc, Live
  <1>2. CASE mem'.at = mem.at
    BY <1>1, <1>2, SameMemory, SameViewKeeps, RefineStutter
  <1>3. CASE mem'.at # mem.at
    <2> DEFINE U == {"U", "W"}
               W == {"P", "U", "W"}
    <2>1. PICK p \in Pages : RefsIn(mem, p) = {} /\ Maps(mem, mem', e, va, p, U)
      BY <1>3, DoRegionAlloc
    <2>2. U \cup {"P"} = W /\ W \cup {"P"} = W /\ W \in AllPerms
      BY DEF AllPerms
    <2> HIDE DEF U, W
    <2>3. Maps(mem, mem', e, va, p, W)
      BY <2>1, <2>2 DEF Maps
    <2>4. Space' = [Space EXCEPT ![e][va] = [pa |-> p, perm |-> W]] /\ Top' = Top
      BY <2>2, <2>3, NewEntry
    <2> QED
      BY <1>1, <2>1, <2>2, <2>4, UnusedPage, RefineAllocate
  <1> QED
    BY <1>2, <1>3

LEMMA PageAllocRefines ==
  ASSUME Ready, Few(mem'), NEW c \in Live, sys_page_alloc(c), lost' = lost
  PROVE  [VM!Next]_(VM!vars)
  <1>1. Live' = Live /\ parent' = parent /\ recv' = recv /\ c \in Envs
    BY DEF sys_page_alloc, Live
  <1>2. PICK e \in Targets(c), va \in VAs, perm \in Perms :
               /\ PermOK(perm)
               /\ \/ mem' = mem
                  \/ \E p \in Pages : RefsIn(mem, p) = {} /\ Maps(mem, mem', e, va, p, perm)
    BY <1>1, DoPageAlloc
  <1>3. e \in Envs /\ e \in Live /\ (e = c \/ parent[e] = c)
    BY DEF Targets, MayManipulate, Live
  <1>4. CASE mem' = mem
    BY <1>1, <1>4, SameMemory, SameViewKeeps, RefineStutter
  <1>5. CASE mem' # mem
    <2>1. PICK p \in Pages : RefsIn(mem, p) = {} /\ Maps(mem, mem', e, va, p, perm)
      BY <1>2, <1>5
    <2>2. perm \cup {"P"} = perm /\ perm \in AllPerms
      BY <1>2 DEF AllPerms, PermOK
    <2>3. Space' = [Space EXCEPT ![e][va] = [pa |-> p, perm |-> perm]] /\ Top' = Top
      BY <1>3, <2>1, <2>2, NewEntry
    <2> QED
      BY <1>1, <1>3, <2>1, <2>2, <2>3, UnusedPage, RefineAllocate
  <1> QED
    BY <1>4, <1>5

LEMMA PageMapRefines ==
  ASSUME Ready, Few(mem'), NEW c \in Live, sys_page_map(c), lost' = lost
  PROVE  [VM!Next]_(VM!vars)
  <1>1. Live' = Live /\ parent' = parent /\ recv' = recv /\ c \in Envs
    BY DEF sys_page_map, Live
  <1>2. PICK src \in Targets(c), dst \in Targets(c), sva \in VAs, dva \in VAs, perm \in Perms :
               /\ MayMap(mem.at[Pte(src, sva)], perm)
               /\ \/ mem'.at = mem.at
                  \/ Maps(mem, mem', dst, dva, mem.at[Pte(src, sva)].pa, perm)
    BY <1>1, DoPageMap
  <1>3. /\ src \in Envs /\ src \in Live /\ (src = c \/ parent[src] = c)
        /\ dst \in Envs /\ dst \in Live /\ (dst = c \/ parent[dst] = c)
    BY DEF Targets, MayManipulate, Live
  <1>4. CASE mem'.at = mem.at
    BY <1>1, <1>4, SameMemory, SameViewKeeps, RefineStutter
  <1>5. CASE mem'.at # mem.at
    <2>1. Maps(mem, mem', dst, dva, mem.at[Pte(src, sva)].pa, perm)
      BY <1>2, <1>5
    <2>2. /\ perm \cup {"P"} = perm
          /\ "W" \in perm => Space[src][sva] # NULL /\ "W" \in Space[src][sva].perm
          /\ Copied(Space[src][sva], perm) = [pa |-> mem.at[Pte(src, sva)].pa, perm |-> perm]
      BY <1>2, <1>3, CopyEntry
    <2>3. Space' = [Space EXCEPT ![dst][dva] = Copied(Space[src][sva], perm)] /\ Top' = Top
      BY <1>3, <2>1, <2>2, NewEntry
    <2>4. perm \in AllPerms
      BY DEF AllPerms
    <2> QED
      BY <1>1, <1>3, <2>2, <2>3, <2>4, RefineShare
  <1> QED
    BY <1>4, <1>5

LEMMA PageUnmapRefines ==
  ASSUME Ready, NEW c \in Live, sys_page_unmap(c), lost' = lost
  PROVE  [VM!Next]_(VM!vars)
  <1>1. Live' = Live /\ parent' = parent /\ recv' = recv /\ c \in Envs
    BY DEF sys_page_unmap, Live
  <1>2. PICK e \in Targets(c), va \in VAs : \A s \in Sites :
               mem'.at[s] = mem.at[s] \/ (s = Pte(e, va) /\ mem'.at[s] = ZeroPte)
    BY <1>1, DoPageUnmap
  <1>3. e \in Envs /\ e \in Live /\ (e = c \/ parent[e] = c)
    BY DEF Targets, MayManipulate, Live
  <1>4. SameBut(mem, mem', e, va)
    <2>1. ASSUME NEW f \in Envs, NEW vb \in VAs
          PROVE  mem'.at[Pte(f, vb)] = mem.at[Pte(f, vb)] \/ (f = e /\ vb = va)
      BY <1>2, <1>3, SiteKinds, SiteEqual
    <2> QED
      BY <2>1 DEF SameBut
  <1>5. Pte(e, va) \in Sites /\ mem'.at[Utop] = mem.at[Utop]
    <2>1. Pte(e, va) \in Sites /\ Utop \in Sites /\ Pte(e, va) # Utop
      BY <1>3, SiteKinds
    <2> QED
      BY <1>2, <2>1
  <1>6. CASE mem'.at[Pte(e, va)] = ZeroPte
    <2>1. Shown(ZeroPte) = NULL
      BY EntryFacts DEF Shown
    <2>2. Space' = [Space EXCEPT ![e][va] = NULL]
      BY <1>3, <1>4, <1>6, <2>1, SpaceSet
    <2>3. Top' = Top
      BY <1>5 DEF Top
    <2> QED
      BY <1>1, <1>3, <2>2, <2>3, RefineUnmap
  <1>7. CASE mem'.at[Pte(e, va)] = mem.at[Pte(e, va)]
    <2>1. SameView
      BY <1>4, <1>5, <1>7 DEF SameView, SameEntries, SameBut
    <2> QED
      BY <1>1, <2>1, SameViewKeeps, RefineStutter
  <1> QED
    BY <1>2, <1>5, <1>6, <1>7

LEMMA RecvRefines ==
  ASSUME Ready, Waits, NEW c \in Live, status[c] = "RUNNING", sys_ipc_recv(c), lost' = lost
  PROVE  [VM!Next]_(VM!vars)
  <1>1. c \in Envs /\ parent' = parent
    BY DEF Live, sys_ipc_recv
  <1>2. Live' = Live
    <2>1. \A f \in Envs : status'[f] = IF f = c THEN "NOT_RUNNABLE" ELSE status[f]
      BY DEF sys_ipc_recv, Ready, TypeOK
    <2> QED
      BY <2>1 DEF Live
  <1>3. recv[c] = NULL
    BY <1>1 DEF Waits
  <1>4. PICK va \in VAs \cup {UTOP} \cup Beyond : recv' = [recv EXCEPT ![c] = va]
    BY DEF sys_ipc_recv
  <1>5. mem' = mem
    BY DEF sys_ipc_recv
  <1> QED
    BY <1>1, <1>2, <1>3, <1>4, <1>5, SameMemory, SameViewKeeps, RefineReceive

LEMMA SendRefines ==
  ASSUME Ready, ~lost, ~lost' => Few(mem'), NEW c \in Live, sys_ipc_try_send(c)
  PROVE  [VM!Next]_(VM!vars)
  <1>1. c \in Envs /\ parent' = parent
    BY DEF Live, sys_ipc_try_send
  <1>2. CASE lost'
    <2>1. PICK e \in Envs : Delivers(c, e)
      BY <1>1, SendKinds DEF Ready
    <2>2. e \in Live /\ recv[e] \in Beyond /\ lost' = TRUE
      BY <1>2, <2>1 DEF Delivers, Inserts, InsertsAbove, Live
    <2> QED
      BY <2>2, RefineLose
  <1>3. CASE ~lost'
    <2>1. PICK e \in Envs :
             /\ status[e] # "FREE" /\ recv[e] # NULL
             /\ \/ UNCHANGED mem
                \/ /\ recv[e] \in VAs \cup {UTOP}
                   /\ \E sva \in VAs, perm \in Perms :
                         /\ MayMap(mem.at[Pte(c, sva)], perm)
                         /\ Maps(mem, mem', e, recv[e], mem.at[Pte(c, sva)].pa, perm)
             /\ status' = [status EXCEPT ![e] = "RUNNABLE"]
             /\ recv' = [recv EXCEPT ![e] = NULL]
      BY <1>1, <1>3, DoSend
    <2>2. e \in Live /\ Live' = Live
      <3>1. \A f \in Envs : status'[f] = IF f = e THEN "RUNNABLE" ELSE status[f]
        BY <2>1 DEF Ready, TypeOK
      <3> QED
        BY <2>1, <3>1 DEF Live
    <2>3. lost' = lost
      BY <1>3, TypeSent DEF Ready
    <2>4. CASE UNCHANGED mem
      BY <1>1, <2>1, <2>2, <2>3, <2>4, SameMemory, SameViewKeeps, RefineSend
    <2>5. ASSUME NEW sva \in VAs, NEW perm \in Perms, MayMap(mem.at[Pte(c, sva)], perm),
                 recv[e] \in VAs \cup {UTOP}, Maps(mem, mem', e, recv[e], mem.at[Pte(c, sva)].pa, perm)
          PROVE  VM!Next
      <3> DEFINE va == recv[e]
                 p == mem.at[Pte(c, sva)].pa
      <3>1. /\ perm \cup {"P"} = perm
            /\ "W" \in perm => Space[c][sva] # NULL /\ "W" \in Space[c][sva].perm
            /\ Copied(Space[c][sva], perm) = [pa |-> p, perm |-> perm]
        BY <1>1, <2>5, CopyEntry
      <3>2. va \in VAs \cup {UTOP} /\ Maps(mem, mem', e, va, p, perm)
        BY <2>5
      <3>3. perm \in AllPerms
        BY DEF AllPerms
      <3> HIDE DEF p, va
      <3>4. /\ va \in VAs => Space' = [Space EXCEPT ![e][va] = [pa |-> p, perm |-> perm]] /\ Top' = Top
            /\ va = UTOP => Top' = [pa |-> p, perm |-> perm] /\ Space' = Space
        BY <3>1, <3>2, NewEntry
      <3>5. CASE va \in VAs
        <4>1. Space' = [Space EXCEPT ![e][recv[e]] = Copied(Space[c][sva], perm)] /\ Top' = Top
          BY <3>1, <3>4, <3>5 DEF va
        <4>2. recv[e] \in VAs /\ recv' = [recv EXCEPT ![e] = NULL] /\ parent' = parent
          BY <1>1, <2>1, <3>5 DEF va
        <4> QED
          BY <2>2, <2>3, <3>1, <3>3, <4>1, <4>2, RefineSendPage
      <3>6. CASE va = UTOP
        <4>1. Top' = Copied(Space[c][sva], perm) /\ Space' = Space
          BY <3>1, <3>4, <3>6
        <4>2. recv[e] = UTOP /\ recv' = [recv EXCEPT ![e] = NULL] /\ parent' = parent
          BY <1>1, <2>1, <3>6 DEF va
        <4> QED
          BY <2>2, <2>3, <3>1, <3>3, <4>1, <4>2, RefineSendTop
      <3> QED
        BY <3>2, <3>5, <3>6
    <2> QED
      BY <2>1, <2>4, <2>5
  <1> QED
    BY <1>2, <1>3

LEMMA StepRefines ==
  ASSUME MemInv, Waits, FewMappings', Next
  PROVE  [VM!Next]_(VM!vars)
  <1>1. Ready /\ Few(mem') /\ ~lost
    BY FewNext DEF Next, Stopped, MemInv, Held, Ready, Sound
  <1>2. ASSUME mem' = mem, lost' = lost, parent' = parent, recv' = recv,
               \A f \in Envs : status'[f] = "FREE" <=> status[f] = "FREE"
        PROVE  [VM!Next]_(VM!vars)
    <2>1. Live' = Live
      BY <1>2 DEF Live
    <2> QED
      BY <1>2, <2>1, SameMemory, SameViewKeeps, RefineStutter
  <1>3. \A f \in Envs : \A st : st # "FREE" /\ status[f] # "FREE" /\ status' = [status EXCEPT ![f] = st]
                            => \A g \in Envs : status'[g] = "FREE" <=> status[g] = "FREE"
    BY DEF MemInv, TypeOK
  <1>4. ASSUME boot_done PROVE [VM!Next]_(VM!vars)
    BY <1>2, <1>4 DEF boot_done
  <1>5. ASSUME NEW e \in Envs, env_create(e) PROVE [VM!Next]_(VM!vars)
    BY <1>1, <1>5, AllocRefines DEF env_create
  <1>6. ASSUME NEW e \in Envs, load_done(e) \/ env_run(e) \/ preempt(e) PROVE [VM!Next]_(VM!vars)
    BY <1>2, <1>3, <1>6 DEF load_done, env_run, preempt
  <1>7. ASSUME NEW e \in Envs, collect_zombie(e) PROVE [VM!Next]_(VM!vars)
    <2>1. e \in Live
      BY <1>7 DEF collect_zombie, Live
    <2> QED
      BY <1>1, <1>7, <2>1, ReleaseRefines DEF collect_zombie
  <1>8. ASSUME NEW e \in Envs, NEW va \in VAs, region_alloc(e, va) PROVE [VM!Next]_(VM!vars)
    BY <1>1, <1>8, RegionRefines
  <1>9. ASSUME NEW e \in Envs, NEW va \in Touched, access(e, va) PROVE [VM!Next]_(VM!vars)
    BY <1>2, <1>9 DEF access
  <1>10. ASSUME NEW c \in Envs, syscall(c) PROVE [VM!Next]_(VM!vars)
    <2>0. c \in Live /\ status[c] = "RUNNING" /\ (sys_ipc_try_send(c) \/ lost' = lost)
      BY <1>10 DEF syscall, Live
    <2>1. CASE sys_exofork(c) /\ lost' = lost
      BY <1>1, <2>0, <2>1, AllocRefines DEF sys_exofork
    <2>2. CASE sys_env_set_status(c) /\ lost' = lost
      BY <1>2, <1>3, <2>2 DEF sys_env_set_status, Targets
    <2>3. CASE sys_env_destroy(c) /\ lost' = lost
      <3>1. PICK e \in Envs :
               /\ MayManipulate(c, e)
               /\ \/ /\ status[e] = "RUNNING" /\ status' = [status EXCEPT ![e] = "DYING"]
                     /\ UNCHANGED <<mem, parent, recv>>
                  \/ Release(c, e)
        BY <2>3 DEF sys_env_destroy
      <3>2. CASE Release(c, e)
        <4>1. e \in Live /\ (e = c \/ parent[e] = c)
          BY <3>1 DEF MayManipulate, Live
        <4> QED
          BY <1>1, <2>0, <2>3, <3>2, <4>1, ReleaseRefines
      <3> QED
        BY <1>2, <1>3, <2>3, <3>1, <3>2
    <2>4. CASE sys_ipc_try_send(c)
      BY <1>1, <2>0, <2>4, SendRefines
    <2>5. CASE lost' = lost /\ (sys_page_alloc(c) \/ sys_page_map(c) \/ sys_page_unmap(c) \/ sys_ipc_recv(c))
      BY <1>1, <2>0, <2>5, PageAllocRefines, PageMapRefines, PageUnmapRefines, RecvRefines
    <2> QED
      BY <1>10, <2>1, <2>2, <2>3, <2>4, <2>5 DEF syscall
  <1> QED
    BY <1>4, <1>5, <1>6, <1>7, <1>8, <1>9, <1>10 DEF Next

\* Page tables, reference counts and the free list show programs exactly what
\* VirtualMemory describes: private maps that change only by calls of the owner
\* or its parent and by the message the owner waits for, with unused pages as new
\* memory and no write permission by copying; page 0 where nothing was mapped and
\* the page at UTOP are part of what they see (as long as pp_ref can count, up to
\* the first message received above UTOP and where else Pmap stops).
THEOREM KernelImplementsVirtualMemory == Spec /\ []FewMappings => ImplementsVirtualMemory
  <1> DEFINE Extra == Waits /\ Idle
  <1>1. Init => Extra
    BY DEF Init, Waits, Idle, NoTlb
  <1>2. MemInv /\ Extra /\ FewMappings' /\ [Next]_vars => Extra' /\ [VM!Next]_(VM!vars)
    <2>1. CASE UNCHANGED vars
      <3>1. Waits /\ Idle => Waits' /\ Idle'
        BY <2>1 DEF vars, Waits, Idle
      <3>2. Live' = Live /\ parent' = parent /\ recv' = recv /\ Space' = Space /\ Top' = Top /\ lost' = lost
        BY <2>1 DEF vars, Live, Space, Top
      <3> QED
        BY <3>1, <3>2, RefineStutter
    <2>2. CASE MemInv /\ Extra /\ FewMappings' /\ Next
      BY <2>2, StepRefines, WaitsIdleStep DEF MemInv
    <2> QED
      BY <2>1, <2>2
  <1>3. Init => VM!Init
    <2>1. ASSUME Init PROVE VM!Init
      <3>1. \A e \in Envs, va \in VAs : mem.at[Pte(e, va)] = ZeroPte
        BY <2>1, SiteKinds DEF Init, Utop
      <3>2. Live = {} /\ Space = [e \in Envs |-> [va \in VAs |-> NULL]]
        BY <2>1, <3>1, EntryFacts DEF Init, Live, Space, Shown
      <3>3. Top = [pa |-> EnvsPage, perm |-> {"P", "U"}]
        <4>1. mem.at[Utop] = [pa |-> EnvsPage, perm |-> {"P", "U"}]
          BY <2>1, SetAssumption, SiteKinds DEF Init, Utop
        <4> QED
          BY <4>1 DEF Top, Shown, Present
      <3> QED
        BY <2>1, <3>2, <3>3 DEF Init, VM!Init, VM!Empty, Live, Space, Top, Utop
    <2> QED
      BY <2>1
  <1> HIDE DEF Extra
  <1> QED
    BY <1>1, <1>2, <1>3, MemoryHolds, PTL DEF Spec, ImplementsVirtualMemory, VM!Spec
=============================================================================
