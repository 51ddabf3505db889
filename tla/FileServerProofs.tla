-------------------------- MODULE FileServerProofs --------------------------
(***************************************************************************)
(* Theorems about FileServer, for every number of processes, descriptors,  *)
(* files, entries of the open-file table and calls.                        *)
(***************************************************************************)
EXTENDS FileServer, FiniteSetTheorems, TLAPS

-----------------------------------------------------------------------------
(***************************************************************************)
(* The inductive invariant.                                                *)
(***************************************************************************)
Held(e) == \E p \in Procs, i \in Fds : fdpage[p][i] = e

ReqType == [op : Ops \cup {"none"}, fd : Fds \cup {NULL}, h : FileIds \cup {NULL}, f : Files \cup {NULL},
            flags : SUBSET {"creat", "excl", "trunc"}, n : Nat]
LocType == [at : {"idle", "send", "recv", "blocked", "unmap", "exit"}, req : ReqType, exiting : BOOLEAN]
SrvType == [at : {"listen", "blocked", "alloc", "handle", "reply", "panic"}, whom : Procs \cup {NULL}, req : ReqType,
            i : 0..MAXOPEN, r : Int, pg : Entries \cup {NULL}]

FieldsOK ==
    /\ status \in [Procs -> {"UNUSED", "LIVE", "DEAD"}] /\ parent \in [Procs -> Procs \cup {NULL}]
    /\ fdpage \in [Procs -> [Fds -> Entries \cup {NULL}]]
    /\ loc \in [Procs -> LocType] /\ srv \in SrvType
    /\ opentab \in [Entries -> [fileid : FileIds, file : Files \cup {NULL}]]
    /\ page \in [Entries -> [there : BOOLEAN, id : FileIds, off : Nat]]
    /\ size \in [Files -> Nat \cup {ABSENT}]
    /\ calls \in 0..MaxCalls /\ killed \subseteq Procs

\* A process that does not run has nothing; a request about a file names the one
\* that its descriptor maps; a process that waits is the one that the server serves.
ProcOK(p) ==
    /\ status[p] # "LIVE" => loc[p] = AtRest /\ \A i \in Fds : fdpage[p][i] = NULL
    /\ loc[p].req.op = "none" <=> loc[p].at \in {"idle", "exit"}
    /\ loc[p].req.op = "none" => loc[p].req = NoReq
    /\ loc[p].req.op # "none" => loc[p].req.fd \in Fds
    /\ loc[p].req.op = "open" => loc[p].req.f \in Files /\ loc[p].req.h = NULL
    /\ loc[p].req.op \in Ops \ {"open"} =>
          fdpage[p][loc[p].req.fd] \in Entries /\ loc[p].req.h = page[fdpage[p][loc[p].req.fd]].id
    /\ loc[p].at = "unmap" => loc[p].req.op = "close"
    /\ loc[p].at \in {"recv", "blocked"} => srv.whom = p /\ srv.at \in {"alloc", "handle", "reply", "panic"}

\* An open file has a page of its number; its number tells the entry.
Given(e) == page[e].there /\ page[e].id = opentab[e].fileid /\ opentab[e].file \in Files /\ opentab[e].fileid >= MAXOPEN
EntryOK(e) == opentab[e].fileid % MAXOPEN = e /\ (Held(e) => Given(e))

\* The client of the request waits, or was destroyed; the entry that a call of
\* open got is held by nobody yet.
ClientOK ==
    srv.at \in {"alloc", "handle", "reply"} =>
        /\ srv.whom \in Procs /\ srv.req.op # "none" /\ status[srv.whom] # "UNUSED"
        /\ IF status[srv.whom] = "LIVE" THEN loc[srv.whom].req = srv.req /\ loc[srv.whom].at \in {"recv", "blocked"}
                                        ELSE srv.whom \in killed
ResultOK ==
    /\ srv.at \in {"alloc", "handle", "blocked"} => srv.pg = NULL
    /\ srv.at = "alloc" => srv.req.op = "open"
    /\ srv.at = "handle" /\ srv.req.op = "open" =>
          /\ srv.i \in Entries /\ ~Held(srv.i) /\ opentab[srv.i].fileid >= MAXOPEN
          /\ page[srv.i].there /\ page[srv.i].off = 0
    /\ srv.at \in {"handle", "alloc"} => IF srv.req.op = "open" THEN srv.req.f \in Files ELSE srv.req.h \in FileIds
    /\ srv.at = "reply" =>
          /\ srv.req.op = "open" /\ srv.pg = NULL => srv.r = E_NO
          /\ srv.req.op = "close" /\ status[srv.whom] = "LIVE" => srv.r = 0
    /\ srv.at \in {"reply", "panic"} /\ srv.pg # NULL => srv.req.op = "open" /\ ~Held(srv.pg) /\ Given(srv.pg)
    /\ srv.at = "panic" =>
          /\ srv.whom \in Procs /\ status[srv.whom] # "UNUSED"
          /\ srv.r = E_INVAL => status[srv.whom] = "DEAD" /\ killed # {}
          /\ srv.r # E_INVAL => srv.r = E_NO /\ srv.pg # NULL
          /\ status[srv.whom] = "LIVE" => loc[srv.whom].at = "blocked" /\ loc[srv.whom].req = srv.req

\* Each call of open gives out one number at most.
Opening == {p \in Procs : loc[p].at = "send" /\ loc[p].req.op = "open"}
NumberOK(e) ==
    \E n \in Nat : /\ opentab[e].fileid = e + MAXOPEN * n
                   /\ n + Cardinality(Opening) + (IF srv.at = "alloc" THEN 1 ELSE 0) <= calls

Inv ==
    /\ FieldsOK /\ ClientOK /\ ResultOK
    /\ \A p \in Procs : ProcOK(p)
    /\ \A e \in Entries : EntryOK(e) /\ NumberOK(e)

-----------------------------------------------------------------------------
(***************************************************************************)
(* Numbers of open files and counts of references.                         *)
(***************************************************************************)
LEMMA Constants ==
  /\ MAXOPEN \in Nat /\ MAXOPEN > 0 /\ NFds \in Nat /\ MaxCalls \in Nat /\ Entries \subseteq Nat
  /\ \A e \in Entries : e < MAXOPEN /\ e >= 0
  /\ NULL \notin Int /\ NULL \notin Procs /\ NULL \notin Files /\ NULL \notin Entries /\ NULL \notin FileIds /\ FileIds \subseteq Nat
  /\ NoReq \in ReqType /\ AtRest \in LocType /\ E_NO = -1 /\ E_INVAL = -2
  <1>1. MAXOPEN \in Nat /\ MAXOPEN > 0 /\ NFds \in Nat /\ MaxCalls \in Nat
    BY NumAssumption
  <1>2. Entries \subseteq Nat /\ FileIds \subseteq Nat /\ \A e \in Entries : e < MAXOPEN /\ e >= 0
    BY <1>1 DEF Entries, FileIds
  <1>3. NULL \notin Int /\ NULL \notin Procs /\ NULL \notin Files
    BY NullAssumption
  <1>4. NULL \notin Entries /\ NULL \notin FileIds
    <2>1. NULL \notin Nat
      BY <1>3
    <2> QED
      BY <1>2, <2>1
  <1>5. NoReq \in ReqType
    BY DEF NoReq, ReqType
  <1>6. AtRest \in LocType
    BY <1>5 DEF AtRest, LocType
  <1>7. E_NO = -1 /\ E_INVAL = -2
    BY DEF E_NO, E_INVAL
  <1> QED
    BY <1>1, <1>2, <1>3, <1>4, <1>5, <1>6, <1>7

LEMMA SameRest ==
  ASSUME NEW a \in Int, NEW b \in Int, NEW m \in Nat, m > 0,
         NEW r \in 0..(m - 1), NEW s \in 0..(m - 1), m * a + r = m * b + s
  PROVE  r = s
  <1>1. CASE a > b
    <2>1. m * (a - b) >= m
      BY <1>1
    <2> QED
      BY <2>1
  <1>2. CASE a < b
    <2>1. m * (b - a) >= m
      BY <1>2
    <2> QED
      BY <2>1
  <1>3. CASE a = b
     BY <1>3
  <1> QED
    BY <1>1, <1>2, <1>3

\* The number of the next use of an entry tells the same entry.
LEMMA NextNumber ==
  ASSUME NEW x \in Nat, NEW m \in Nat, m > 0
  PROVE  (x + m) % m = x % m /\ x % m \in 0..(m - 1)
  <1>1. \A y \in Nat : y = m * (y \div m) + (y % m) /\ y % m \in 0..(m - 1) /\ y \div m \in Int
    OBVIOUS
  <1>2. x + m \in Nat
    OBVIOUS
  <1>3. m * ((x \div m) + 1) = m * (x \div m) + m /\ (x \div m) + 1 \in Int
    BY <1>1
  <1>4. m * ((x + m) \div m) + ((x + m) % m) = m * ((x \div m) + 1) + (x % m)
    BY <1>1, <1>2, <1>3
  <1> QED
    BY ZenonT(30), <1>1, <1>2, <1>3, <1>4, SameRest

LEMMA OwnNumber ==
  ASSUME NEW e \in Entries
  PROVE  e % MAXOPEN = e
  BY Constants

Holders(e) == {h \in Procs \X Fds : fdpage[h[1]][h[2]] = e}

LEMMA HoldersFinite ==
  ASSUME NEW e PROVE IsFiniteSet(Holders(e)) /\ Cardinality(Holders(e)) \in Nat
                     /\ (Cardinality(Holders(e)) = 0 <=> ~Held(e))
  <1>1. IsFiniteSet(Procs) /\ IsFiniteSet(Fds)
    BY ProcAssumption, Constants, FS_Interval DEF Fds
  <1>2. IsFiniteSet(Procs \X Fds)
    BY <1>1, FS_Product
  <1>3. Holders(e) \subseteq Procs \X Fds
    BY DEF Holders
  <1>4. IsFiniteSet(Holders(e)) /\ Cardinality(Holders(e)) \in Nat
    BY <1>2, <1>3, FS_Subset, FS_CardinalityType
  <1>5. Cardinality(Holders(e)) = 0 <=> Holders(e) = {}
    BY <1>4, FS_EmptySet
  <1>6. Holders(e) = {} <=> ~Held(e)
    <2>1. ASSUME Held(e) PROVE Holders(e) # {}
      <3>1. PICK p \in Procs, i \in Fds : fdpage[p][i] = e
        BY <2>1 DEF Held
      <3>2. <<p, i>> \in Holders(e)
        BY <3>1 DEF Holders
      <3> QED
        BY <3>2
    <2>2. ASSUME Holders(e) # {} PROVE Held(e)
      <3>1. PICK h \in Holders(e) : TRUE
        BY <2>2
      <3>2. h[1] \in Procs /\ h[2] \in Fds /\ fdpage[h[1]][h[2]] = e
        BY <3>1 DEF Holders
      <3> QED
        BY <3>2 DEF Held
    <2> QED
      BY <2>1, <2>2
  <1> QED
    BY <1>4, <1>5, <1>6

\* What the server learns from the count of references of an entry.
LEMMA CountTells ==
  ASSUME NEW e \in Entries, Held(e) => page[e].there
  PROVE  /\ Available(e) => ~Held(e)
         /\ Held(e) => pageref(e) > 1
         /\ pageref(e) > 1 => Held(e)
  <1>1. pageref(e) = Cardinality(Holders(e)) + IF page[e].there THEN 1 ELSE 0
    BY DEF pageref, Holders
  <1>2. Cardinality(Holders(e)) \in Nat /\ (Cardinality(Holders(e)) = 0 <=> ~Held(e))
    BY HoldersFinite
  <1> QED
    BY <1>1, <1>2 DEF Available

LEMMA OpeningFinite == IsFiniteSet(Opening) /\ Cardinality(Opening) \in Nat
  <1>1. Opening \subseteq Procs
    BY DEF Opening
  <1> QED
    BY <1>1, ProcAssumption, FS_Subset, FS_CardinalityType

LEMMA OpeningStep ==
  ASSUME NEW x \in Procs, \A q \in Procs : q # x => loc'[q] = loc[q]
  PROVE  /\ Cardinality(Opening)' \in Nat
         /\ Cardinality(Opening)' <= Cardinality(Opening) + 1
         /\ x \notin Opening' => Cardinality(Opening)' <= Cardinality(Opening)
         /\ x \in Opening => Cardinality(Opening)' <= Cardinality(Opening)
         /\ x \in Opening /\ x \notin Opening' => Cardinality(Opening)' + 1 <= Cardinality(Opening)
  <1>1. \A q \in Procs : q # x => (q \in Opening' <=> q \in Opening)
    BY DEF Opening
  <1>2. IsFiniteSet(Opening) /\ Cardinality(Opening) \in Nat /\ Opening \subseteq Procs /\ Opening' \subseteq Procs
    BY OpeningFinite DEF Opening
  <1>3. IsFiniteSet(Opening \cup {x}) /\ Cardinality(Opening \cup {x}) \in Nat
        /\ Cardinality(Opening \cup {x}) = IF x \in Opening THEN Cardinality(Opening) ELSE Cardinality(Opening) + 1
    BY <1>2, FS_AddElement, FS_CardinalityType
  <1>4. IsFiniteSet(Opening \ {x}) /\ Cardinality(Opening \ {x}) \in Nat
        /\ Cardinality(Opening \ {x}) = IF x \in Opening THEN Cardinality(Opening) - 1 ELSE Cardinality(Opening)
    BY <1>2, FS_RemoveElement, FS_CardinalityType
  <1>5. Cardinality(Opening)' = Cardinality(Opening')
    OBVIOUS
  <1>6. CASE x \in Opening'
    <2>1. Opening' = Opening \cup {x}
      BY <1>1, <1>2, <1>6
    <2> QED
      BY <1>2, <1>3, <1>5, <1>6, <2>1
  <1>7. CASE x \notin Opening'
    <2>1. Opening' = Opening \ {x}
      BY <1>1, <1>2, <1>7
    <2> QED
      BY <1>2, <1>4, <1>5, <1>7, <2>1
  <1> QED
    BY <1>6, <1>7

-----------------------------------------------------------------------------
(***************************************************************************)
(* A step that only moves the process x.                                   *)
(***************************************************************************)
Moves(x) ==
    /\ \A q \in Procs : q # x => status'[q] = status[q] /\ fdpage'[q] = fdpage[q] /\ loc'[q] = loc[q]
    /\ srv' = srv /\ opentab' = opentab /\ size' = size
    /\ \A e \in Entries : page'[e].there = page[e].there /\ page'[e].id = page[e].id
    /\ \A e \in Entries : ~Held(e) => page'[e].off = page[e].off
    /\ killed \subseteq killed'

\* The server has a request of x, or died of it.
Serves(x) == srv.whom = x /\ srv.at \in {"alloc", "handle", "reply", "panic"}

LEMMA NotServed ==
  ASSUME Inv, NEW x \in Procs, Serves(x)
  PROVE  status[x] # "UNUSED" /\ (status[x] = "LIVE" => loc[x].at \in {"recv", "blocked"} /\ loc[x].req = srv.req)
  BY DEF Inv, ClientOK, ResultOK, Serves

\* What a move of x must do for the server.
Awaited(x) ==
    Serves(x) =>
        /\ status'[x] \in {"LIVE", "DEAD"}
        /\ status'[x] = "LIVE" =>
              /\ status[x] = "LIVE" /\ loc'[x].req = loc[x].req /\ loc'[x].at \in {"recv", "blocked"}
              /\ loc[x].at = "blocked" => loc'[x].at = "blocked"
        /\ status'[x] = "DEAD" => status[x] = "DEAD" \/ srv.at = "panic" \/ x \in killed'

LEMMA ClientStep ==
  ASSUME Inv, FieldsOK', NEW x \in Procs, Moves(x), Awaited(x), ProcOK(x)',
         \A e \in Entries : Held(e)' => Held(e),
         calls' >= calls, x \in Opening' /\ x \notin Opening => calls' = calls + 1
  PROVE  Inv'
  <1>1. ClientOK'
    <2> SUFFICES ASSUME srv.at \in {"alloc", "handle", "reply"}
                 PROVE  /\ srv.whom \in Procs /\ srv.req.op # "none" /\ status'[srv.whom] # "UNUSED"
                        /\ IF status'[srv.whom] = "LIVE"
                           THEN loc'[srv.whom].req = srv.req /\ loc'[srv.whom].at \in {"recv", "blocked"}
                           ELSE srv.whom \in killed'
      BY DEF ClientOK, Moves
    <2>1. /\ srv.whom \in Procs /\ srv.req.op # "none" /\ status[srv.whom] # "UNUSED"
          /\ IF status[srv.whom] = "LIVE" THEN loc[srv.whom].req = srv.req /\ loc[srv.whom].at \in {"recv", "blocked"}
                                          ELSE srv.whom \in killed
      BY DEF Inv, ClientOK
    <2>2. CASE srv.whom # x
      BY <2>1, <2>2 DEF Moves
    <2>3. CASE srv.whom = x
      <3>1. Serves(x)
        BY <2>3 DEF Serves
      <3> QED
        BY <2>1, <2>3, <3>1 DEF Awaited, Moves
    <2> QED
      BY <2>2, <2>3
  <1>2. \A e \in Entries : Given(e)' <=> Given(e)
    BY DEF Given, Moves
  <1>3. ResultOK'
    <2>1. ResultOK /\ FieldsOK
      BY DEF Inv
    <2>2. srv.at = "handle" /\ srv.req.op = "open" =>
             /\ srv.i \in Entries /\ ~Held(srv.i)' /\ opentab'[srv.i].fileid >= MAXOPEN
             /\ page'[srv.i].there /\ page'[srv.i].off = 0
      <3> SUFFICES ASSUME srv.at = "handle", srv.req.op = "open"
                   PROVE  /\ srv.i \in Entries /\ ~Held(srv.i)' /\ opentab'[srv.i].fileid >= MAXOPEN
                          /\ page'[srv.i].there /\ page'[srv.i].off = 0
        OBVIOUS
      <3>i. PICK i : i = srv.i
        OBVIOUS
      <3>1. /\ i \in Entries /\ ~Held(i) /\ opentab[i].fileid >= MAXOPEN
            /\ page[i].there /\ page[i].off = 0
        BY <2>1, <3>i DEF ResultOK
      <3>2. page'[i].there = page[i].there /\ page'[i].off = page[i].off /\ opentab' = opentab /\ srv' = srv
        BY <3>1 DEF Moves
      <3> QED
        BY <3>1, <3>2, <3>i
    <2>3. srv.at = "reply" /\ srv.req.op = "close" /\ status'[srv.whom] = "LIVE" => srv.r = 0
      <3> SUFFICES ASSUME srv.at = "reply", srv.req.op = "close", status'[srv.whom] = "LIVE" PROVE srv.r = 0
        OBVIOUS
      <3>1. srv.whom \in Procs
        BY DEF Inv, ClientOK
      <3>2. status[srv.whom] = "LIVE"
        BY <3>1 DEF Moves, Awaited, Serves
      <3> QED
        BY <2>1, <3>2 DEF ResultOK
    <2>4. srv.at \in {"reply", "panic"} /\ srv.pg # NULL => srv.req.op = "open" /\ ~Held(srv.pg)' /\ Given(srv.pg)'
      <3> SUFFICES ASSUME srv.at \in {"reply", "panic"}, srv.pg # NULL
                   PROVE  srv.req.op = "open" /\ ~Held(srv.pg)' /\ Given(srv.pg)'
        OBVIOUS
      <3>1. srv.req.op = "open" /\ ~Held(srv.pg) /\ Given(srv.pg)
        BY <2>1 DEF ResultOK
      <3>p. PICK e : e = srv.pg
        OBVIOUS
      <3>2. e \in Entries /\ srv'.pg = e
        BY <2>1, <3>p DEF FieldsOK, SrvType, Moves
      <3>3. ~Held(e)' /\ Given(e)'
        BY <1>2, <3>1, <3>2, <3>p
      <3> QED
        BY <3>1, <3>2, <3>3 DEF Held, Given
    <2>5. srv.at = "panic" =>
             /\ srv.whom \in Procs /\ status'[srv.whom] # "UNUSED"
             /\ srv.r = E_INVAL => status'[srv.whom] = "DEAD" /\ killed' # {}
             /\ srv.r # E_INVAL => srv.r = E_NO /\ srv.pg # NULL
             /\ status'[srv.whom] = "LIVE" => loc'[srv.whom].at = "blocked" /\ loc'[srv.whom].req = srv.req
      <3> SUFFICES ASSUME srv.at = "panic"
                   PROVE  /\ srv.whom \in Procs /\ status'[srv.whom] # "UNUSED"
                          /\ srv.r = E_INVAL => status'[srv.whom] = "DEAD" /\ killed' # {}
                          /\ srv.r # E_INVAL => srv.r = E_NO /\ srv.pg # NULL
                          /\ status'[srv.whom] = "LIVE" => loc'[srv.whom].at = "blocked" /\ loc'[srv.whom].req = srv.req
        OBVIOUS
      <3>1. /\ srv.whom \in Procs /\ status[srv.whom] # "UNUSED"
            /\ srv.r = E_INVAL => status[srv.whom] = "DEAD" /\ killed # {}
            /\ srv.r # E_INVAL => srv.r = E_NO /\ srv.pg # NULL
            /\ status[srv.whom] = "LIVE" => loc[srv.whom].at = "blocked" /\ loc[srv.whom].req = srv.req
        BY <2>1 DEF ResultOK
      <3>2. CASE srv.whom # x
        BY <3>1, <3>2 DEF Moves
      <3>3. CASE srv.whom = x
        <4>1. Serves(x)
          BY <3>3 DEF Serves
        <4>2. killed # {} => killed' # {}
          BY DEF Moves
        <4> QED
          BY <3>1, <3>3, <4>1, <4>2 DEF Awaited
      <3> QED
        BY <3>2, <3>3
    <2>6. srv' = srv
      BY DEF Moves
    <2> QED
      BY <2>1, <2>2, <2>3, <2>4, <2>5, <2>6 DEF ResultOK
  <1>4. ASSUME NEW q \in Procs PROVE ProcOK(q)'
    <2>1. CASE q # x
      <3>1. ProcOK(q) /\ status'[q] = status[q] /\ fdpage'[q] = fdpage[q] /\ loc'[q] = loc[q] /\ srv' = srv
        BY <2>1 DEF Inv, Moves
      <3>2. \A e \in Entries : page'[e].id = page[e].id
        BY DEF Moves
      <3> QED
        BY <3>1, <3>2 DEF ProcOK
    <2> QED
      BY <2>1
  <1>5. ASSUME NEW e \in Entries PROVE EntryOK(e)' /\ NumberOK(e)'
    <2>1. EntryOK(e) /\ NumberOK(e) /\ opentab'[e] = opentab[e] /\ srv' = srv /\ calls \in Nat /\ calls' \in Nat
      BY <1>5, Constants DEF Inv, Moves, FieldsOK
    <2>2. EntryOK(e)'
      BY <1>2, <2>1 DEF EntryOK
    <2>3. PICK n \in Nat : opentab[e].fileid = e + MAXOPEN * n
                           /\ n + Cardinality(Opening) + (IF srv.at = "alloc" THEN 1 ELSE 0) <= calls
      BY <2>1 DEF NumberOK
    <2>4. Cardinality(Opening)' - Cardinality(Opening) <= calls' - calls /\ Cardinality(Opening)' \in Nat
          /\ Cardinality(Opening) \in Nat
      <3>1. \A q \in Procs : q # x => loc'[q] = loc[q]
        BY DEF Moves
      <3>2. /\ Cardinality(Opening)' \in Nat
            /\ Cardinality(Opening)' <= Cardinality(Opening) + 1
            /\ x \notin Opening' => Cardinality(Opening)' <= Cardinality(Opening)
            /\ x \in Opening => Cardinality(Opening)' <= Cardinality(Opening)
        BY <3>1, OpeningStep
      <3> QED
        BY <2>1, <3>2, OpeningFinite
    <2>5. n + Cardinality(Opening)' + (IF srv'.at = "alloc" THEN 1 ELSE 0) <= calls'
      BY <2>1, <2>3, <2>4
    <2> QED
      BY <2>1, <2>2, <2>3, <2>5 DEF NumberOK
  <1> QED
    BY <1>1, <1>3, <1>4, <1>5 DEF Inv

LEMMA LocIs ==
  ASSUME FieldsOK, NEW p \in Procs, NEW l \in LocType, loc' = [loc EXCEPT ![p] = l]
  PROVE  loc' \in [Procs -> LocType] /\ loc'[p] = l /\ \A q \in Procs : q # p => loc'[q] = loc[q]
  BY DEF FieldsOK

\* A set of descriptors has a first.
LEMMA LeastExists ==
  ASSUME NEW S, S \subseteq Nat, IsFiniteSet(S), S # {}
  PROVE  \E i \in S : \A j \in S : i <= j
  <1> DEFINE Below(i) == {j \in S : j <= i}
             T == {Below(i) : i \in S}
             R == StrictSubsetOrdering(S)
  <1>1. IsWellFoundedOn(R, FiniteSubsetsOf(S))
    BY FS_StrictSubsetOrderingWellFounded
  <1>2. T \subseteq FiniteSubsetsOf(S) /\ T # {}
    <2>1. FiniteSubsetsOf(S) = SUBSET S
      BY FS_FiniteSubsetsOfFinite
    <2>2. T \subseteq SUBSET S /\ T # {}
      OBVIOUS
    <2> QED
      BY <2>1, <2>2
  <1>3. \E x \in T : \A y \in T : ~(<<y, x>> \in R)
    <2> HIDE DEF T, R
    <2> QED
      BY <1>1, <1>2, WFMin
  <1>4. PICK i \in S : \A j \in S : ~(<<Below(j), Below(i)>> \in R)
    BY <1>3
  <1>5. \A j \in S : i <= j
    <2> SUFFICES ASSUME NEW j \in S, j < i PROVE FALSE
      OBVIOUS
    <2>0. i \in Nat /\ j \in Nat /\ \A k \in S : k \in Nat
      OBVIOUS
    <2>1. Below(j) \subseteq Below(i) /\ i \in Below(i) /\ i \notin Below(j)
      <3>1. ASSUME NEW k \in Below(j) PROVE k \in Below(i)
        <4>1. k \in S /\ k <= j /\ k \in Nat
          BY <2>0
        <4> QED
          BY <2>0, <4>1
      <3>2. i \in Below(i) /\ ~(i <= j)
        BY <2>0
      <3>3. i \notin Below(j)
        BY <3>2
      <3> QED
        BY <3>1, <3>2, <3>3
    <2>2. Below(j) \in SUBSET S /\ Below(i) \in SUBSET S
      OBVIOUS
    <2>3. <<Below(j), Below(i)>> \in R
      <3> HIDE DEF Below
      <3> QED
        BY <2>1, <2>2 DEF StrictSubsetOrdering
    <2> QED
      BY <1>4, <2>3
  <1> QED
    BY <1>5

LEMMA NotServing ==
  ASSUME Inv, NEW x \in Procs, status[x] = "LIVE", loc[x].at \notin {"recv", "blocked"}
  PROVE  ~Serves(x)
  BY NotServed

LEMMA RequestStep ==
  ASSUME Inv, NEW p \in Procs, status[p] = "LIVE", loc[p].at \in {"idle", "exit"},
         NEW q \in ReqType, loc' = [loc EXCEPT ![p] = [@ EXCEPT !.at = "send", !.req = q]],
         q.op \in Ops, q.fd \in Fds, q.op = "open" => q.f \in Files /\ q.h = NULL,
         q.op # "open" => fdpage[p][q.fd] \in Entries /\ q.h = page[fdpage[p][q.fd]].id,
         UNCHANGED <<status, parent, fdpage, page, killed, srv, opentab, size>>,
         calls' \in 0..MaxCalls, calls' >= calls, q.op = "open" => calls' = calls + 1
  PROVE  Inv'
  <1>l. PICK l : l = [loc[p] EXCEPT !.at = "send", !.req = q]
    OBVIOUS
  <1>1. FieldsOK /\ ProcOK(p) /\ loc[p] \in LocType
    BY DEF Inv, FieldsOK
  <1>2. l \in LocType /\ l.at = "send" /\ l.req = q
    BY <1>1, <1>l DEF LocType
  <1>3. loc' \in [Procs -> LocType] /\ loc'[p] = l /\ \A r \in Procs : r # p => loc'[r] = loc[r]
    BY <1>1, <1>2, <1>l, LocIs
  <1>4. FieldsOK'
    BY <1>1, <1>3 DEF FieldsOK
  <1>5. Moves(p)
    BY <1>3 DEF Moves
  <1>6. Awaited(p)
    BY NotServing DEF Awaited
  <1>7. ProcOK(p)'
    BY <1>1, <1>2, <1>3 DEF ProcOK, Ops
  <1>8. \A e \in Entries : Held(e)' => Held(e)
    BY DEF Held
  <1>9. p \in Opening' => calls' = calls + 1
    BY <1>2, <1>3 DEF Opening
  <1> QED
    BY <1>4, <1>5, <1>6, <1>7, <1>8, <1>9, ClientStep

LEMMA CallRequestStep ==
  ASSUME Inv, NEW p \in Procs, NEW q \in ReqType, Request(p, q), calls' = calls + 1, calls' \in 0..MaxCalls,
         q.op \in Ops, q.fd \in Fds, q.op = "open" => q.f \in Files /\ q.h = NULL,
         q.op # "open" => fdpage[p][q.fd] \in Entries /\ q.h = page[fdpage[p][q.fd]].id
  PROVE  Inv'
  <1>1. /\ status[p] = "LIVE" /\ loc[p].at \in {"idle", "exit"}
        /\ loc' = [loc EXCEPT ![p] = [@ EXCEPT !.at = "send", !.req = q]]
        /\ UNCHANGED <<status, parent, fdpage, page, killed, srv, opentab, size>>
    BY DEF Request, UnchangedServer
  <1>2. calls' >= calls /\ (q.op = "open" => calls' = calls + 1)
    <2>1. calls \in Nat
      BY Constants DEF Inv, FieldsOK
    <2> QED
      BY <2>1
  <1> QED
    BY <1>1, <1>2, RequestStep

LEMMA RemoteIs ==
  ASSUME Inv, NEW p \in Procs, NEW i \in Fds, fdpage[p][i] # NULL, NEW op \in Ops \ {"open"}, NEW n \in Nat
  PROVE  /\ Remote(p, i, op, n) \in ReqType /\ Remote(p, i, op, n).op = op /\ Remote(p, i, op, n).fd = i
         /\ fdpage[p][i] \in Entries /\ Remote(p, i, op, n).h = page[fdpage[p][i]].id
         /\ Remote(p, i, op, n).n = n
  <1>1. fdpage[p][i] \in Entries
    BY DEF Inv, FieldsOK
  <1>2. page[fdpage[p][i]].id \in FileIds
    BY <1>1 DEF Inv, FieldsOK
  <1>h. PICK h \in FileIds : h = page[fdpage[p][i]].id
    BY <1>2
  <1>3. Remote(p, i, op, n) = [op |-> op, fd |-> i, h |-> h, f |-> NULL, flags |-> {}, n |-> n]
    <2>1. Remote(p, i, op, n) = [NoReq EXCEPT !.op = op, !.fd = i, !.h = h, !.n = n]
      BY <1>h DEF Remote
    <2> QED
      BY <2>1 DEF NoReq
  <1>4. [op |-> op, fd |-> i, h |-> h, f |-> NULL, flags |-> {}, n |-> n] \in ReqType
    BY DEF ReqType
  <1> QED
    BY <1>1, <1>3, <1>4, <1>h

LEMMA OpenIs ==
  ASSUME Inv, NEW p \in Procs, NEW f \in Files, NEW flags \in Modes, open(p, f, flags)
  PROVE  \E q \in ReqType : /\ Request(p, q) /\ q.op = "open" /\ q.fd \in Fds /\ q.f \in Files /\ q.h = NULL
                            /\ fdpage[p][q.fd] = NULL
  <1>1. fd_alloc(p) \in Fds /\ fdpage[p][fd_alloc(p)] = NULL
    <2>0. IsFiniteSet(Fds) /\ Fds \subseteq Nat
      BY Constants, FS_Interval DEF Fds
    <2>1. Free(p) \subseteq Nat /\ IsFiniteSet(Free(p)) /\ Free(p) # {} /\ Free(p) \subseteq Fds
      BY <2>0, FS_Subset DEF open, Free
    <2>2. \E i \in Free(p) : \A j \in Free(p) : i <= j
      BY <2>1, LeastExists
    <2>3. fd_alloc(p) \in Free(p)
      BY <2>2 DEF fd_alloc
    <2> QED
      BY <2>3 DEF Free
  <1>2. PICK q : q = [NoReq EXCEPT !.op = "open", !.fd = fd_alloc(p), !.f = f, !.flags = flags]
    OBVIOUS
  <1>3. q = [op |-> "open", fd |-> fd_alloc(p), h |-> NULL, f |-> f, flags |-> flags, n |-> 0]
    BY <1>2 DEF NoReq
  <1>4. q \in ReqType /\ q.op = "open" /\ q.fd \in Fds /\ q.f = f /\ q.h = NULL
    BY <1>1, <1>3 DEF ReqType, Modes, Ops
  <1>5. Request(p, q)
    BY <1>2 DEF open
  <1> QED
    BY <1>1, <1>3, <1>4, <1>5

LEMMA OpenStep ==
  ASSUME Inv, NEW p \in Procs, NEW f \in Files, NEW flags \in Modes, open(p, f, flags),
         calls' = calls + 1, calls' \in 0..MaxCalls
  PROVE  Inv'
  <1>1. PICK q \in ReqType : Request(p, q) /\ q.op = "open" /\ q.fd \in Fds /\ q.f \in Files /\ q.h = NULL
    BY OpenIs
  <1> QED
    BY <1>1, CallRequestStep DEF Ops

LEMMA DevfileStep ==
  ASSUME Inv, NEW p \in Procs, NEW i \in Fds, NEW op \in Ops \ {"open"}, NEW n \in Nat, devfile(p, i, op, n),
         calls' = calls + 1, calls' \in 0..MaxCalls
  PROVE  Inv'
  <1>q. PICK q : q = Remote(p, i, op, n)
    OBVIOUS
  <1>1. q \in ReqType /\ q.op = op /\ q.fd = i /\ fdpage[p][i] \in Entries /\ q.h = page[fdpage[p][i]].id
    BY <1>q, RemoteIs DEF devfile
  <1>2. Request(p, q)
    BY <1>q DEF devfile
  <1> QED
    BY <1>1, <1>2, CallRequestStep

LEMMA FdIs ==
  ASSUME FieldsOK, NEW p \in Procs, NEW j \in Fds, NEW y \in Entries \cup {NULL}, fdpage' = [fdpage EXCEPT ![p][j] = y]
  PROVE  /\ fdpage' \in [Procs -> [Fds -> Entries \cup {NULL}]] /\ fdpage'[p][j] = y
         /\ \A i \in Fds : i # j => fdpage'[p][i] = fdpage[p][i]
         /\ \A q \in Procs : q # p => fdpage'[q] = fdpage[q]
  <1>1. fdpage \in [Procs -> [Fds -> Entries \cup {NULL}]] /\ fdpage[p] \in [Fds -> Entries \cup {NULL}]
    BY DEF FieldsOK
  <1>t. PICK t : t = [fdpage[p] EXCEPT ![j] = y]
    OBVIOUS
  <1>2. t \in [Fds -> Entries \cup {NULL}] /\ t[j] = y /\ \A i \in Fds : i # j => t[i] = fdpage[p][i]
    BY <1>1, <1>t
  <1>3. fdpage' = [fdpage EXCEPT ![p] = t]
    BY <1>1, <1>t
  <1> QED
    BY <1>1, <1>2, <1>3

LEMMA DupStep ==
  ASSUME Inv, NEW p \in Procs, NEW i \in Fds, NEW j \in Fds, dup(p, i, j), calls' = calls + 1, calls' \in 0..MaxCalls
  PROVE  Inv'
  <1>1. /\ status[p] = "LIVE" /\ loc[p].at = "idle" /\ fdpage' = [fdpage EXCEPT ![p][j] = fdpage[p][i]]
        /\ UNCHANGED <<status, parent, loc, page, killed, srv, opentab, size>>
    BY DEF dup, UnchangedServer
  <1>2. FieldsOK /\ ProcOK(p) /\ fdpage[p][i] \in Entries \cup {NULL}
    BY DEF Inv, FieldsOK
  <1>3. /\ fdpage' \in [Procs -> [Fds -> Entries \cup {NULL}]] /\ fdpage'[p][j] = fdpage[p][i]
        /\ \A k \in Fds : k # j => fdpage'[p][k] = fdpage[p][k]
        /\ \A q \in Procs : q # p => fdpage'[q] = fdpage[q]
    BY ZenonT(30), <1>1, <1>2, FdIs
  <1>4. FieldsOK'
    BY <1>1, <1>2, <1>3 DEF FieldsOK
  <1>5. Moves(p)
    BY <1>1, <1>3 DEF Moves
  <1>6. Awaited(p)
    BY <1>1, NotServing DEF Awaited
  <1>7. ProcOK(p)'
    BY <1>1, <1>2 DEF ProcOK, Ops
  <1>8. \A e \in Entries : Held(e)' => Held(e)
    BY <1>3 DEF Held
  <1>9. p \notin Opening' /\ calls' >= calls
    BY <1>1, <1>2, Constants DEF Opening, FieldsOK
  <1> QED
    BY <1>4, <1>5, <1>6, <1>7, <1>8, <1>9, ClientStep

LEMMA SeekStep ==
  ASSUME Inv, NEW p \in Procs, NEW i \in Fds, NEW n \in Nat, seek(p, i, n), calls' = calls + 1, calls' \in 0..MaxCalls
  PROVE  Inv'
  <1>e. PICK e : e = fdpage[p][i]
    OBVIOUS
  <1>1. /\ status[p] = "LIVE" /\ loc[p].at = "idle" /\ e # NULL /\ page' = [page EXCEPT ![e].off = n]
        /\ UNCHANGED <<status, parent, fdpage, loc, killed, srv, opentab, size>>
    BY <1>e DEF seek, UnchangedServer
  <1>2. FieldsOK /\ ProcOK(p) /\ e \in Entries
    BY <1>1, <1>e DEF Inv, FieldsOK
  <1>3. /\ page' \in [Entries -> [there : BOOLEAN, id : FileIds, off : Nat]]
        /\ \A x \in Entries : page'[x].there = page[x].there /\ page'[x].id = page[x].id
    <2>1. page \in [Entries -> [there : BOOLEAN, id : FileIds, off : Nat]]
      BY <1>2 DEF FieldsOK
    <2> QED
      BY <1>1, <1>2, <2>1
  <1>4. FieldsOK'
    BY <1>1, <1>2, <1>3 DEF FieldsOK
  <1>5. Moves(p)
    <2>1. Held(e)
      BY <1>1, <1>2, <1>e DEF Held
    <2>2. page \in [Entries -> [there : BOOLEAN, id : FileIds, off : Nat]]
      BY <1>2 DEF FieldsOK
    <2>3. \A x \in Entries : ~Held(x) => page'[x].off = page[x].off
      BY <1>1, <2>1, <2>2
    <2> QED
      BY <1>1, <1>3, <2>3 DEF Moves
  <1>6. Awaited(p)
    BY <1>1, NotServing DEF Awaited
  <1>7. ProcOK(p)'
    BY <1>1, <1>2 DEF ProcOK, Ops
  <1>8. \A x \in Entries : Held(x)' => Held(x)
    BY <1>1 DEF Held
  <1>9. p \notin Opening' /\ calls' >= calls
    BY <1>1, <1>2, Constants DEF Opening, FieldsOK
  <1> QED
    BY <1>4, <1>5, <1>6, <1>7, <1>8, <1>9, ClientStep

LEMMA ForkStep ==
  ASSUME Inv, NEW p \in Procs, NEW c \in Procs, fork(p, c), calls' = calls + 1, calls' \in 0..MaxCalls
  PROVE  Inv'
  <1>1. /\ status[p] = "LIVE" /\ loc[p].at = "idle" /\ status[c] = "UNUSED" /\ status' = [status EXCEPT ![c] = "LIVE"]
        /\ parent' = [parent EXCEPT ![c] = p] /\ fdpage' = [fdpage EXCEPT ![c] = fdpage[p]]
        /\ UNCHANGED <<loc, page, killed, srv, opentab, size>>
    BY DEF fork, UnchangedServer
  <1>2. FieldsOK /\ ProcOK(c) /\ loc[c] = AtRest
    BY <1>1 DEF Inv, ProcOK
  <1>3. FieldsOK'
    BY <1>1, <1>2 DEF FieldsOK
  <1>4. Moves(c)
    BY <1>1, <1>2 DEF Moves, FieldsOK
  <1>5. Awaited(c)
    BY <1>1, NotServed DEF Awaited
  <1>6. ProcOK(c)'
    BY <1>1, <1>2 DEF ProcOK, Ops, AtRest, NoReq, FieldsOK
  <1>7. \A x \in Entries : Held(x)' => Held(x)
    BY <1>1, <1>2 DEF Held, FieldsOK
  <1>8. c \notin Opening' /\ calls' >= calls
    BY <1>1, <1>2, Constants DEF Opening, FieldsOK, AtRest
  <1> QED
    BY <1>3, <1>4, <1>5, <1>6, <1>7, <1>8, ClientStep

\* A step that only changes where p is.
LEMMA PlaceStep ==
  ASSUME Inv, NEW p \in Procs, status[p] = "LIVE", NEW l \in LocType, loc' = [loc EXCEPT ![p] = l],
         UNCHANGED <<status, parent, fdpage, page, killed, srv, opentab, size, calls>>,
         \/ loc[p].at = "idle" /\ l.at = "exit" /\ l.req = loc[p].req
         \/ loc[p].at = "recv" /\ l.at = "blocked" /\ l.req = loc[p].req
  PROVE  Inv'
  <1>1. FieldsOK /\ ProcOK(p)
    BY DEF Inv
  <1>2. loc' \in [Procs -> LocType] /\ loc'[p] = l /\ \A r \in Procs : r # p => loc'[r] = loc[r]
    BY <1>1, LocIs
  <1>3. FieldsOK'
    BY <1>1, <1>2 DEF FieldsOK
  <1>4. Moves(p)
    BY <1>2 DEF Moves
  <1>5. Awaited(p)
    BY <1>2, NotServed DEF Awaited
  <1>6. ProcOK(p)'
    BY <1>1, <1>2 DEF ProcOK, Ops
  <1>7. \A x \in Entries : Held(x)' => Held(x)
    BY DEF Held
  <1>8. p \notin Opening' /\ calls' >= calls
    BY <1>1, <1>2, Constants DEF Opening, FieldsOK
  <1> QED
    BY <1>3, <1>4, <1>5, <1>6, <1>7, <1>8, ClientStep

LEMMA ExitStep ==
  ASSUME Inv, NEW p \in Procs, exit(p), calls' = calls PROVE Inv'
  <1>l. PICK l : l = [loc[p] EXCEPT !.at = "exit", !.exiting = TRUE]
    OBVIOUS
  <1>1. /\ status[p] = "LIVE" /\ loc[p].at = "idle" /\ loc' = [loc EXCEPT ![p] = l]
        /\ UNCHANGED <<status, parent, fdpage, page, killed, srv, opentab, size, calls>>
    BY <1>l DEF exit, UnchangedServer, Inv, FieldsOK
  <1>2. loc[p] \in LocType
    BY DEF Inv, FieldsOK
  <1>3. l \in LocType /\ l.at = "exit" /\ l.req = loc[p].req
    BY <1>2, <1>l DEF LocType
  <1> QED
    BY <1>1, <1>3, PlaceStep

LEMMA RecvStep ==
  ASSUME Inv, NEW p \in Procs, ipc_recv(p), calls' = calls PROVE Inv'
  <1>l. PICK l : l = [loc[p] EXCEPT !.at = "blocked"]
    OBVIOUS
  <1>1. /\ status[p] = "LIVE" /\ loc[p].at = "recv" /\ loc' = [loc EXCEPT ![p] = l]
        /\ UNCHANGED <<status, parent, fdpage, page, killed, srv, opentab, size, calls>>
    BY <1>l DEF ipc_recv, UnchangedServer, Inv, FieldsOK
  <1>2. loc[p] \in LocType
    BY DEF Inv, FieldsOK
  <1>3. l \in LocType /\ l.at = "blocked" /\ l.req = loc[p].req
    BY <1>2, <1>l DEF LocType
  <1> QED
    BY <1>1, <1>3, PlaceStep

\* p ends, without a request at the server or destroyed.
LEMMA DiesStep ==
  ASSUME Inv, NEW p \in Procs, status[p] = "LIVE", Dies(p), calls' = calls,
         \/ killed' = killed /\ (Serves(p) => srv.at = "panic")
         \/ killed' = IF Pending(p) THEN killed \cup {p} ELSE killed
  PROVE  Inv'
  <1>1. /\ status' = [status EXCEPT ![p] = "DEAD"] /\ fdpage' = [fdpage EXCEPT ![p] = [i \in Fds |-> NULL]]
        /\ loc' = [loc EXCEPT ![p] = AtRest] /\ UNCHANGED <<parent, page, srv, opentab, size>>
    BY DEF Dies, UnchangedServer
  <1>2. FieldsOK /\ AtRest \in LocType
    BY Constants DEF Inv
  <1>3. FieldsOK'
    BY <1>1, <1>2 DEF FieldsOK
  <1>4. Moves(p)
    BY <1>1, <1>2 DEF Moves, FieldsOK
  <1>5. status'[p] = "DEAD" /\ loc'[p] = AtRest /\ \A i \in Fds : fdpage'[p][i] = NULL
    BY <1>1, <1>2 DEF FieldsOK
  <1>6. Awaited(p)
    BY <1>5 DEF Awaited, Pending, Serves
  <1>7. ProcOK(p)'
    BY <1>5 DEF ProcOK, Ops, AtRest, NoReq
  <1>8. \A x \in Entries : Held(x)' => Held(x)
    BY <1>4, <1>5, Constants DEF Held, Moves
  <1>9. p \notin Opening' /\ calls' >= calls
    BY <1>2, <1>5, Constants DEF Opening, FieldsOK, AtRest
  <1> QED
    BY <1>3, <1>4, <1>6, <1>7, <1>8, <1>9, ClientStep

LEMMA DestroyStep ==
  ASSUME Inv, NEW p \in Procs, env_destroy(p), calls' = calls PROVE Inv'
  BY DiesStep DEF env_destroy

LEMMA CloseAllIs ==
  ASSUME Inv, NEW p \in Procs, close_all(p), ~Dies(p)
  PROVE  \E q \in ReqType : /\ q.op = "close" /\ q.fd \in Fds
                            /\ fdpage[p][q.fd] \in Entries /\ q.h = page[fdpage[p][q.fd]].id
                            /\ loc' = [loc EXCEPT ![p] = [@ EXCEPT !.at = "send", !.req = q]]
                            /\ UNCHANGED <<status, parent, fdpage, page, killed, srv, opentab, size>>
  <1>1. PICK i : /\ i = CHOOSE x \in {k \in Fds : fdpage[p][k] # NULL} : \A y \in {k \in Fds : fdpage[p][k] # NULL} : x <= y
                 /\ {k \in Fds : fdpage[p][k] # NULL} # {}
                 /\ loc' = [loc EXCEPT ![p] = [@ EXCEPT !.at = "send", !.req = Remote(p, i, "close", 0)]]
                 /\ UNCHANGED <<status, parent, fdpage, page, srv, opentab, size>>
    BY DEF close_all, UnchangedServer
  <1>2. i \in Fds /\ fdpage[p][i] # NULL
    <2> DEFINE S == {k \in Fds : fdpage[p][k] # NULL}
    <2>1. IsFiniteSet(Fds) /\ Fds \subseteq Nat
      BY Constants, FS_Interval DEF Fds
    <2>2. S \subseteq Nat /\ IsFiniteSet(S) /\ S # {} /\ S \subseteq Fds
      BY <1>1, <2>1, FS_Subset
    <2>3. \E x \in S : \A y \in S : x <= y
      <3> HIDE DEF S
      <3> QED
        BY <2>2, LeastExists
    <2>4. i \in S
      BY <1>1, <2>3
    <2> QED
      BY <2>4
  <1>q. PICK q : q = Remote(p, i, "close", 0)
    OBVIOUS
  <1>3. q \in ReqType /\ q.op = "close" /\ q.fd = i /\ fdpage[p][i] \in Entries /\ q.h = page[fdpage[p][i]].id
    BY <1>q, <1>2, RemoteIs DEF Ops
  <1>4. /\ loc' = [loc EXCEPT ![p] = [@ EXCEPT !.at = "send", !.req = q]]
        /\ UNCHANGED <<status, parent, fdpage, page, killed, srv, opentab, size>>
    BY <1>1, <1>q DEF close_all
  <1> QED
    BY <1>2, <1>3, <1>4

LEMMA CloseAllStep ==
  ASSUME Inv, NEW p \in Procs, close_all(p), calls' = calls PROVE Inv'
  <1>1. status[p] = "LIVE" /\ loc[p].at = "exit" /\ killed' = killed
    BY DEF close_all
  <1>2. CASE Dies(p)
    BY <1>1, <1>2, DiesStep, NotServing
  <1>3. CASE ~Dies(p)
    <2>q. PICK q \in ReqType : /\ q.op = "close" /\ q.fd \in Fds
                               /\ fdpage[p][q.fd] \in Entries /\ q.h = page[fdpage[p][q.fd]].id
                               /\ loc' = [loc EXCEPT ![p] = [@ EXCEPT !.at = "send", !.req = q]]
                               /\ UNCHANGED <<status, parent, fdpage, page, killed, srv, opentab, size>>
      BY <1>3, CloseAllIs
    <2>1. calls' \in 0..MaxCalls /\ calls' >= calls
      BY Constants DEF Inv, FieldsOK
    <2> QED
      BY <1>1, <2>q, <2>1, RequestStep DEF Ops
  <1> QED
    BY <1>2, <1>3

LEMMA FdCloseStep ==
  ASSUME Inv, NEW p \in Procs, fd_close(p), calls' = calls PROVE Inv'
  <1>d. PICK d : d = loc[p].req.fd
    OBVIOUS
  <1>l. PICK l : l = [loc[p] EXCEPT !.at = IF loc[p].exiting THEN "exit" ELSE "idle", !.req = NoReq]
    OBVIOUS
  <1>1. FieldsOK /\ ProcOK(p) /\ loc[p] \in LocType /\ NoReq \in ReqType
    BY Constants DEF Inv, FieldsOK
  <1>2. /\ status[p] = "LIVE" /\ loc[p].at = "unmap" /\ fdpage' = [fdpage EXCEPT ![p][d] = NULL]
        /\ loc' = [loc EXCEPT ![p] = l] /\ UNCHANGED <<status, parent, page, killed, srv, opentab, size>>
    BY <1>1, <1>d, <1>l DEF fd_close, UnchangedServer, FieldsOK
  <1>3. d \in Fds
    BY <1>1, <1>2, <1>d DEF ProcOK
  <1>4. l \in LocType /\ l.at \in {"idle", "exit"} /\ l.req = NoReq
    BY <1>1, <1>l DEF LocType
  <1>5. loc' \in [Procs -> LocType] /\ loc'[p] = l /\ \A r \in Procs : r # p => loc'[r] = loc[r]
    BY <1>1, <1>2, <1>4, LocIs
  <1>6. /\ fdpage' \in [Procs -> [Fds -> Entries \cup {NULL}]] /\ fdpage'[p][d] = NULL
        /\ \A k \in Fds : k # d => fdpage'[p][k] = fdpage[p][k]
        /\ \A q \in Procs : q # p => fdpage'[q] = fdpage[q]
    BY <1>1, <1>2, <1>3, FdIs
  <1>7. FieldsOK'
    BY <1>1, <1>2, <1>5, <1>6 DEF FieldsOK
  <1>8. Moves(p)
    BY <1>2, <1>5, <1>6 DEF Moves
  <1>9. Awaited(p)
    BY <1>2, NotServing DEF Awaited
  <1>10. ProcOK(p)'
    BY <1>2, <1>4, <1>5 DEF ProcOK, Ops, NoReq
  <1>11. \A x \in Entries : Held(x)' => Held(x)
    BY <1>6, Constants DEF Held
  <1>12. p \notin Opening' /\ calls' >= calls
    BY <1>1, <1>4, <1>5, Constants DEF Opening, FieldsOK
  <1> QED
    BY <1>7, <1>8, <1>9, <1>10, <1>11, <1>12, ClientStep

LEMMA SendStep ==
  ASSUME Inv, NEW p \in Procs, ipc_send(p), calls' = calls PROVE Inv'
  <1>1. status[p] = "LIVE" /\ loc[p].at = "send"
    BY DEF ipc_send
  <1>2. CASE srv.at = "panic" /\ Dies(p) /\ UNCHANGED killed
    BY <1>1, <1>2, DiesStep
  <1>3. CASE /\ srv.at = "blocked"
             /\ srv' = [srv EXCEPT !.at = IF loc[p].req.op = "open" THEN "alloc" ELSE "handle", !.whom = p,
                                   !.req = loc[p].req, !.i = 0, !.pg = NULL]
             /\ loc' = [loc EXCEPT ![p].at = "recv"]
             /\ UNCHANGED <<status, parent, fdpage, page, killed, opentab, size>>
    <2>q. PICK q : q = loc[p].req
      OBVIOUS
    <2>l. PICK l : l = [loc[p] EXCEPT !.at = "recv"]
      OBVIOUS
    <2>1. FieldsOK /\ ProcOK(p) /\ loc[p] \in LocType /\ srv \in SrvType
      BY DEF Inv, FieldsOK
    <2>2. q \in ReqType /\ q.op # "none" /\ (q.op = "open" => q.f \in Files) /\ (q.op # "open" => q.h \in FileIds)
      <3>1. q \in ReqType /\ q.op # "none"
        BY <1>1, <2>1, <2>q DEF ProcOK, LocType
      <3>2. q.op = "open" => q.f \in Files
        BY <2>1, <2>q DEF ProcOK
      <3>3. q.op # "open" => q.h \in FileIds
        <4> SUFFICES ASSUME q.op # "open" PROVE q.h \in FileIds
          OBVIOUS
        <4>1. q.op \in Ops \ {"open"}
          BY <3>1 DEF ReqType
        <4>2. fdpage[p][q.fd] \in Entries /\ q.h = page[fdpage[p][q.fd]].id
          BY <4>1, <2>1, <2>q DEF ProcOK
        <4> QED
          BY <4>2, <2>1 DEF FieldsOK
      <3> QED
        BY <3>1, <3>2, <3>3
    <2>3. l \in LocType /\ l.at = "recv" /\ l.req = q
      BY <2>1, <2>l, <2>q DEF LocType
    <2>4. loc' = [loc EXCEPT ![p] = l]
      BY <1>3, <2>l, <2>1 DEF FieldsOK
    <2>5. loc' \in [Procs -> LocType] /\ loc'[p] = l /\ \A r \in Procs : r # p => loc'[r] = loc[r]
      BY <2>1, <2>3, <2>4, LocIs
    <2>6. /\ srv' \in SrvType /\ srv'.whom = p /\ srv'.req = q /\ srv'.pg = NULL
          /\ srv'.at = IF q.op = "open" THEN "alloc" ELSE "handle"
      <3>a. PICK a : a = IF q.op = "open" THEN "alloc" ELSE "handle"
        OBVIOUS
      <3>1. a \in {"alloc", "handle"}
        BY <3>a
      <3>2. srv' = [srv EXCEPT !.at = a, !.whom = p, !.req = q, !.i = 0, !.pg = NULL]
        BY <1>3, <2>q, <3>a
      <3>3. 0 \in 0..MAXOPEN
        BY Constants
      <3>4. srv' \in SrvType /\ srv'.whom = p /\ srv'.req = q /\ srv'.pg = NULL /\ srv'.at = a
        BY <2>1, <2>2, <3>1, <3>2, <3>3 DEF SrvType
      <3> QED
        BY <3>a, <3>4
    <2>7. FieldsOK'
      BY <1>3, <2>1, <2>5, <2>6 DEF FieldsOK
    <2>8. ClientOK'
      BY <1>1, <1>3, <2>2, <2>3, <2>5, <2>6 DEF ClientOK
    <2>9. ResultOK'
      BY <2>2, <2>6 DEF ResultOK
    <2>10. ASSUME NEW r \in Procs PROVE ProcOK(r)'
      <3>1. CASE r = p
        BY <1>1, <1>3, <2>1, <2>2, <2>3, <2>5, <2>6, <2>q, <3>1 DEF ProcOK
      <3>2. CASE r # p
        <4>1. ProcOK(r) /\ loc'[r] = loc[r] /\ loc[r].at \notin {"recv", "blocked"}
          BY <1>3, <2>5, <3>2 DEF Inv, ProcOK
        <4> QED
          BY <1>3, <4>1 DEF ProcOK
      <3> QED
        BY <3>1, <3>2
    <2>11. ASSUME NEW e \in Entries PROVE EntryOK(e)' /\ NumberOK(e)'
      <3>1. EntryOK(e) /\ NumberOK(e) /\ calls \in Nat
        BY <2>1, Constants DEF Inv, FieldsOK
      <3>2. EntryOK(e)'
        BY <1>3, <3>1 DEF EntryOK, Given, Held
      <3>3. PICK n \in Nat : opentab[e].fileid = e + MAXOPEN * n
                             /\ n + Cardinality(Opening) + (IF srv.at = "alloc" THEN 1 ELSE 0) <= calls
        BY <3>1 DEF NumberOK
      <3>4. p \notin Opening' /\ (q.op = "open" => p \in Opening)
        BY <1>1, <2>3, <2>5, <2>q DEF Opening
      <3>5. Cardinality(Opening)' \in Nat /\ Cardinality(Opening) \in Nat
            /\ Cardinality(Opening)' + (IF srv'.at = "alloc" THEN 1 ELSE 0) <= Cardinality(Opening)
        <4>1. /\ Cardinality(Opening)' \in Nat
              /\ p \notin Opening' => Cardinality(Opening)' <= Cardinality(Opening)
              /\ p \in Opening /\ p \notin Opening' => Cardinality(Opening)' + 1 <= Cardinality(Opening)
          BY <2>5, OpeningStep
        <4>2. Cardinality(Opening) \in Nat
          BY OpeningFinite
        <4>3. srv'.at = "alloc" => q.op = "open"
          BY <2>6
        <4> QED
          BY <3>4, <4>1, <4>2, <4>3
      <3>6. n + Cardinality(Opening)' + (IF srv'.at = "alloc" THEN 1 ELSE 0) <= calls'
        BY <3>1, <3>3, <3>5, <1>3
      <3> QED
        BY <1>3, <3>2, <3>3, <3>6 DEF NumberOK
    <2> QED
      BY <2>7, <2>8, <2>9, <2>10, <2>11 DEF Inv
  <1> QED
    BY <1>2, <1>3 DEF ipc_send

-----------------------------------------------------------------------------
(***************************************************************************)
(* Steps of the server that leave the processes where they are.            *)
(***************************************************************************)
LEMMA ServerStep ==
  ASSUME Inv, FieldsOK', ClientOK', ResultOK', \A e \in Entries : NumberOK(e)',
         UNCHANGED <<status, parent, killed, fdpage, loc>>,
         \A e \in Entries : Held(e) => page'[e].id = page[e].id /\ page'[e].there = page[e].there /\ opentab'[e] = opentab[e],
         \A e \in Entries : opentab'[e].fileid % MAXOPEN = opentab[e].fileid % MAXOPEN,
         srv.at \in {"alloc", "handle", "reply", "panic"} =>
            srv'.whom = srv.whom /\ srv'.at \in {"alloc", "handle", "reply", "panic"}
  PROVE  Inv'
  <1>1. ASSUME NEW q \in Procs PROVE ProcOK(q)'
    <2>1. ProcOK(q) /\ FieldsOK
      BY DEF Inv
    <2>2. loc[q].req.op \in Ops \ {"open"} =>
            fdpage[q][loc[q].req.fd] \in Entries /\ loc[q].req.h = page'[fdpage[q][loc[q].req.fd]].id
      <3> SUFFICES ASSUME loc[q].req.op \in Ops \ {"open"}
                   PROVE  fdpage[q][loc[q].req.fd] \in Entries /\ loc[q].req.h = page'[fdpage[q][loc[q].req.fd]].id
        OBVIOUS
      <3>1. /\ fdpage[q][loc[q].req.fd] \in Entries /\ loc[q].req.h = page[fdpage[q][loc[q].req.fd]].id
            /\ loc[q].req.fd \in Fds
        BY <2>1 DEF ProcOK, Ops
      <3>2. Held(fdpage[q][loc[q].req.fd])
        BY <3>1 DEF Held
      <3> QED
        BY <3>1, <3>2
    <2> QED
      BY <2>1, <2>2 DEF ProcOK
  <1>2. ASSUME NEW e \in Entries PROVE EntryOK(e)'
    <2>1. EntryOK(e)
      BY <1>2 DEF Inv
    <2> QED
      BY <1>2, <2>1 DEF EntryOK, Held, Given
  <1> QED
    BY <1>1, <1>2 DEF Inv

LEMMA SameNumbers ==
  ASSUME Inv, calls' = calls, loc' = loc, srv'.at # "alloc" \/ srv.at = "alloc",
         NEW e \in Entries, opentab'[e].fileid = opentab[e].fileid
  PROVE  NumberOK(e)'
  <1>1. NumberOK(e) /\ calls \in Nat
    BY Constants DEF Inv, FieldsOK
  <1>2. Cardinality(Opening)' = Cardinality(Opening) /\ Cardinality(Opening) \in Nat
    BY OpeningFinite DEF Opening
  <1>3. PICK n \in Nat : opentab[e].fileid = e + MAXOPEN * n
                         /\ n + Cardinality(Opening) + (IF srv.at = "alloc" THEN 1 ELSE 0) <= calls
    BY <1>1 DEF NumberOK
  <1>4. n + Cardinality(Opening)' + (IF srv'.at = "alloc" THEN 1 ELSE 0) <= calls'
    BY <1>1, <1>2, <1>3
  <1> QED
    BY <1>3, <1>4 DEF NumberOK

LEMMA ListenStep ==
  ASSUME Inv, listen, calls' = calls PROVE Inv'
  <1>1. /\ srv.at = "listen" /\ UNCHANGED <<fdpage, loc, opentab, page, size, status, parent, killed>>
        /\ srv' = [srv EXCEPT !.at = "blocked", !.whom = NULL, !.req = NoReq, !.i = 0, !.r = 0, !.pg = NULL]
    BY DEF listen, UnchangedClients
  <1>2. FieldsOK /\ srv \in SrvType
    BY DEF Inv, FieldsOK
  <1>3. srv' \in SrvType /\ srv'.at = "blocked" /\ srv'.pg = NULL
    <2>1. srv' = [at |-> "blocked", whom |-> NULL, req |-> NoReq, i |-> 0, r |-> 0, pg |-> NULL]
      BY <1>1, <1>2 DEF SrvType
    <2>2. NoReq \in ReqType /\ 0 \in 0..MAXOPEN /\ 0 \in Int
      BY Constants
    <2> QED
      BY <2>1, <2>2 DEF SrvType
  <1>4. FieldsOK'
    BY <1>1, <1>2, <1>3 DEF FieldsOK
  <1>5. ClientOK' /\ ResultOK'
    BY <1>3 DEF ClientOK, ResultOK
  <1>6. \A e \in Entries : NumberOK(e)'
    BY <1>1, <1>3, SameNumbers
  <1> QED
    BY <1>1, <1>4, <1>5, <1>6, ServerStep

\* The server has an answer to the request; nobody but the server has the
\* page of the answer, if it is one.
LEMMA AnswerStep ==
  ASSUME Inv, srv.at \in {"alloc", "handle"}, NEW r \in Int, NEW pg \in Entries \cup {NULL},
         srv' = [srv EXCEPT !.at = "reply", !.r = r, !.pg = pg],
         UNCHANGED <<status, parent, killed, fdpage, loc, calls>>,
         size' \in [Files -> Nat \cup {ABSENT}], page' \in [Entries -> [there : BOOLEAN, id : FileIds, off : Nat]],
         opentab' \in [Entries -> [fileid : FileIds, file : Files \cup {NULL}]],
         \A e \in Entries : opentab'[e].fileid = opentab[e].fileid,
         \A e \in Entries : Held(e) => page'[e].id = page[e].id /\ page'[e].there = page[e].there /\ opentab'[e] = opentab[e],
         srv.req.op = "open" /\ pg = NULL => r = E_NO,
         srv.req.op = "close" /\ status[srv.whom] = "LIVE" => r = 0,
         pg # NULL => srv.req.op = "open" /\ ~Held(pg)
                      /\ page'[pg].there /\ page'[pg].id = opentab[pg].fileid /\ opentab'[pg].file \in Files
                      /\ opentab[pg].fileid >= MAXOPEN
  PROVE  Inv'
  <1>1. FieldsOK /\ ClientOK /\ ResultOK /\ srv \in SrvType
    BY DEF Inv, FieldsOK
  <1>2. /\ srv' \in SrvType /\ srv'.at = "reply" /\ srv'.r = r /\ srv'.pg = pg
        /\ srv'.whom = srv.whom /\ srv'.req = srv.req /\ srv'.i = srv.i
    BY <1>1 DEF SrvType
  <1>3. FieldsOK'
    BY <1>1, <1>2 DEF FieldsOK
  <1>4. ClientOK'
    BY <1>1, <1>2 DEF ClientOK
  <1>5. ResultOK'
    <2>1. pg # NULL => ~Held(pg)' /\ page'[pg].there /\ page'[pg].id = opentab'[pg].fileid /\ opentab'[pg].file \in Files
                       /\ opentab'[pg].fileid >= MAXOPEN
      <3> SUFFICES ASSUME pg # NULL
                   PROVE  ~Held(pg)' /\ page'[pg].there /\ page'[pg].id = opentab'[pg].fileid /\ opentab'[pg].file \in Files
                          /\ opentab'[pg].fileid >= MAXOPEN
        OBVIOUS
      <3>1. pg \in Entries
        OBVIOUS
      <3>2. opentab'[pg].fileid = opentab[pg].fileid
        BY <3>1
      <3> QED
        BY <3>2 DEF Held
    <2> QED
      BY <1>2, <2>1 DEF ResultOK, Given, Held
  <1>6. \A e \in Entries : NumberOK(e)'
    BY <1>2, SameNumbers
  <1> QED
    BY <1>1, <1>2, <1>3, <1>4, <1>5, <1>6, ServerStep

LEMMA AllocStep ==
  ASSUME Inv, openfile_alloc, calls' = calls PROVE Inv'
  <1>e. PICK e : e = srv.i
    OBVIOUS
  <1>1. srv.at = "alloc" /\ UNCHANGED <<fdpage, loc, size, status, parent, killed>>
    BY DEF openfile_alloc, UnchangedClients
  <1>2. FieldsOK /\ ClientOK /\ ResultOK /\ srv \in SrvType /\ e \in 0..MAXOPEN
    BY <1>e DEF Inv, FieldsOK, SrvType
  <1>3. srv.req.op = "open" /\ srv.pg = NULL /\ srv.req.f \in Files
    BY <1>1, <1>2 DEF ResultOK
  <1>4. CASE srv' = [srv EXCEPT !.at = "reply", !.r = E_NO] /\ UNCHANGED <<opentab, page>>
    <2>1. srv' = [srv EXCEPT !.at = "reply", !.r = E_NO, !.pg = NULL]
      BY <1>2, <1>3, <1>4 DEF SrvType
    <2>2. E_NO \in Int
      BY DEF E_NO
    <2>3. /\ size' \in [Files -> Nat \cup {ABSENT}] /\ page' \in [Entries -> [there : BOOLEAN, id : FileIds, off : Nat]]
          /\ opentab' \in [Entries -> [fileid : FileIds, file : Files \cup {NULL}]]
          /\ opentab' = opentab /\ page' = page
      BY <1>1, <1>2, <1>4 DEF FieldsOK
    <2> QED
      BY <1>1, <1>3, <2>1, <2>2, <2>3, AnswerStep
  <1>5. CASE e < MAXOPEN /\ srv' = [srv EXCEPT !.i = @ + 1] /\ UNCHANGED <<opentab, page>>
    <2>1. e + 1 \in 0..MAXOPEN /\ srv' = [srv EXCEPT !.i = e + 1]
      BY <1>2, <1>5, <1>e, Constants
    <2>2. srv' \in SrvType /\ srv'.at = "alloc" /\ srv'.pg = NULL /\ srv'.req = srv.req /\ srv'.whom = srv.whom
      BY <1>1, <1>2, <1>3, <2>1 DEF SrvType
    <2>3. FieldsOK'
      BY <1>1, <1>2, <1>5, <2>2 DEF FieldsOK
    <2>4. ClientOK'
      BY <1>1, <1>2, <2>2 DEF ClientOK
    <2>5. ResultOK'
      BY <1>3, <2>2 DEF ResultOK
    <2>6. \A x \in Entries : NumberOK(x)'
      BY <1>1, <1>5, SameNumbers
    <2> QED
      BY <1>1, <1>5, <2>2, <2>3, <2>4, <2>5, <2>6, ServerStep
  <1>6. CASE /\ e < MAXOPEN /\ Available(e) /\ srv' = [srv EXCEPT !.at = "handle"]
             /\ opentab' = [opentab EXCEPT ![e].fileid = @ + MAXOPEN]
             /\ page' = [page EXCEPT ![e] = [there |-> TRUE, id |-> 0, off |-> 0]]
    <2>1. e \in Entries /\ EntryOK(e) /\ NumberOK(e)
      BY <1>2, <1>6, Constants DEF Inv, Entries
    <2>2. ~Held(e)
      BY <1>6, <2>1, CountTells DEF EntryOK, Given
    <2>3. PICK n \in Nat : opentab[e].fileid = e + MAXOPEN * n
                           /\ n + Cardinality(Opening) + (IF srv.at = "alloc" THEN 1 ELSE 0) <= calls
      BY <2>1 DEF NumberOK
    <2>4. Cardinality(Opening)' = Cardinality(Opening) /\ Cardinality(Opening) \in Nat
          /\ calls \in Nat /\ calls <= MaxCalls
      BY <1>1, <1>2, OpeningFinite, Constants DEF Opening, FieldsOK
    <2>5. n + 1 + Cardinality(Opening) <= calls /\ n + 1 <= MaxCalls
      <3>1. n + Cardinality(Opening) + 1 <= calls
        BY <1>1, <2>3
      <3> QED
        BY <2>4, <3>1, Constants
    <2>x. PICK x : x = opentab[e].fileid + MAXOPEN
      OBVIOUS
    <2>6. x = e + MAXOPEN * (n + 1) /\ x \in FileIds /\ x >= MAXOPEN
          /\ opentab[e].fileid \in Nat
      <3>1. MAXOPEN * (n + 1) = MAXOPEN * n + MAXOPEN
        BY Constants
      <3>2. e \in Nat /\ e < MAXOPEN /\ MAXOPEN * n \in Nat
        BY <2>1, Constants
      <3>3. MAXOPEN * (n + 1) <= MAXOPEN * (MaxCalls + 1)
        <4>1. n + 1 <= MaxCalls + 1
          BY <2>5, Constants
        <4>2. \A a, b, m \in Nat : a <= b => m * a <= m * b
          OBVIOUS
        <4>3. n + 1 \in Nat /\ MaxCalls + 1 \in Nat /\ MAXOPEN \in Nat
          BY Constants
        <4> QED
          BY <4>1, <4>2, <4>3
      <3>4. MAXOPEN * (n + 1) \in Nat /\ MAXOPEN * (MaxCalls + 1) \in Nat
        BY Constants
      <3>5. x = e + MAXOPEN * (n + 1)
        BY <2>x, <2>3, <3>1, <3>2, <3>4, Constants
      <3>6. x \in Nat /\ x <= MAXOPEN * (MaxCalls + 1) + MAXOPEN /\ x >= MAXOPEN
        BY <3>1, <3>2, <3>3, <3>4, <3>5, Constants
      <3>7. x \in FileIds
        BY <3>4, <3>6, Constants DEF FileIds
      <3> QED
        BY <2>3, <3>2, <3>5, <3>6, <3>7
    <2>7. /\ opentab' \in [Entries -> [fileid : FileIds, file : Files \cup {NULL}]]
          /\ opentab'[e].fileid = x /\ opentab'[e].file = opentab[e].file
          /\ \A y \in Entries : y # e => opentab'[y] = opentab[y]
      <3>1. opentab \in [Entries -> [fileid : FileIds, file : Files \cup {NULL}]]
        BY <1>2 DEF FieldsOK
      <3>2. opentab' = [opentab EXCEPT ![e].fileid = x]
        BY <1>6, <2>1, <2>x, <3>1
      <3> QED
        BY <2>1, <2>6, <3>1, <3>2
    <2>8. /\ page' \in [Entries -> [there : BOOLEAN, id : FileIds, off : Nat]]
          /\ page'[e].there /\ page'[e].off = 0 /\ \A y \in Entries : y # e => page'[y] = page[y]
      <3>1. page \in [Entries -> [there : BOOLEAN, id : FileIds, off : Nat]]
        BY <1>2 DEF FieldsOK
      <3>2. 0 \in FileIds
        BY Constants DEF FileIds
      <3>3. [there |-> TRUE, id |-> 0, off |-> 0] \in [there : BOOLEAN, id : FileIds, off : Nat]
        BY <3>2
      <3> QED
        BY <1>6, <2>1, <3>1, <3>3
    <2>9. /\ srv' \in SrvType /\ srv'.at = "handle" /\ srv'.pg = NULL /\ srv'.req = srv.req /\ srv'.whom = srv.whom
          /\ srv'.i = e
      BY <1>2, <1>3, <1>6, <1>e DEF SrvType
    <2>10. FieldsOK'
      BY <1>1, <1>2, <2>7, <2>8, <2>9 DEF FieldsOK
    <2>11. ClientOK'
      BY <1>1, <1>2, <2>9 DEF ClientOK
    <2>12. ResultOK'
      <3>1. ~Held(e)' /\ e \in Entries /\ page'[e].there /\ page'[e].off = 0 /\ opentab'[e].fileid >= MAXOPEN
        BY <1>1, <2>1, <2>2, <2>6, <2>7, <2>8 DEF Held
      <3>2. /\ srv'.at = "handle" /\ srv'.pg = NULL /\ srv'.req.op = "open" /\ srv'.req.f \in Files /\ srv'.i = e
        BY <1>3, <2>9
      <3> QED
        BY <3>1, <3>2 DEF ResultOK, Held
    <2>13. ASSUME NEW y \in Entries PROVE NumberOK(y)'
      <3>1. CASE y = e
        <4>1. n + 1 \in Nat /\ opentab'[e].fileid = e + MAXOPEN * (n + 1)
          BY <2>6, <2>7
        <4>2. (n + 1) + Cardinality(Opening)' + (IF srv'.at = "alloc" THEN 1 ELSE 0) <= calls'
          BY <2>4, <2>5, <2>9
        <4> QED
          BY <3>1, <4>1, <4>2 DEF NumberOK
      <3>2. CASE y # e
        BY <1>1, <2>7, <2>9, <3>2, SameNumbers
      <3> QED
        BY <3>1, <3>2
    <2>14. \A y \in Entries : opentab'[y].fileid % MAXOPEN = opentab[y].fileid % MAXOPEN
      <3>1. opentab'[e].fileid % MAXOPEN = opentab[e].fileid % MAXOPEN
        <4>1. MAXOPEN \in Nat /\ MAXOPEN > 0
          BY Constants
        <4>2. (opentab[e].fileid + MAXOPEN) % MAXOPEN = opentab[e].fileid % MAXOPEN
          BY <2>6, <4>1, NextNumber
        <4> QED
          BY <2>7, <2>x, <4>2
      <3> QED
        BY <2>7, <3>1
    <2> QED
      BY <1>1, <2>2, <2>7, <2>8, <2>9, <2>10, <2>11, <2>12, <2>13, <2>14, ServerStep
  <1> QED
    BY <1>1, <1>4, <1>5, <1>6, <1>e DEF openfile_alloc, Answer

LEMMA OpenServed ==
  ASSUME Inv, serve_open, calls' = calls PROVE Inv'
  <1>e. PICK e : e = srv.i
    OBVIOUS
  <1>f. PICK f : f = srv.req.f
    OBVIOUS
  <1>1. srv.at = "handle" /\ srv.req.op = "open" /\ UNCHANGED <<fdpage, loc, status, parent, killed>>
    BY DEF serve_open, UnchangedClients
  <1>2. FieldsOK /\ ResultOK /\ srv \in SrvType
    BY DEF Inv, FieldsOK
  <1>3. e \in Entries /\ ~Held(e) /\ page[e].there /\ opentab[e].fileid >= MAXOPEN /\ f \in Files /\ srv.pg = NULL
    BY <1>1, <1>2, <1>e, <1>f DEF ResultOK
  <1>4. CASE srv' = [srv EXCEPT !.at = "reply", !.r = E_NO] /\ UNCHANGED <<size, opentab, page>>
    <2>1. srv' = [srv EXCEPT !.at = "reply", !.r = E_NO, !.pg = NULL]
      BY <1>2, <1>3, <1>4 DEF SrvType
    <2>2. E_NO \in Int
      BY DEF E_NO
    <2>3. /\ size' \in [Files -> Nat \cup {ABSENT}] /\ page' \in [Entries -> [there : BOOLEAN, id : FileIds, off : Nat]]
          /\ opentab' \in [Entries -> [fileid : FileIds, file : Files \cup {NULL}]]
          /\ opentab' = opentab /\ page' = page
      BY <1>1, <1>2, <1>4 DEF FieldsOK
    <2> QED
      BY <1>1, <2>1, <2>2, <2>3, AnswerStep
  <1>5. CASE /\ \E s \in Nat \cup {ABSENT} : size' = [size EXCEPT ![f] = s]
             /\ opentab' = [opentab EXCEPT ![e].file = f]
             /\ page' = [page EXCEPT ![e].id = opentab[e].fileid]
             /\ srv' = [srv EXCEPT !.at = "reply", !.r = 0, !.pg = e]
    <2>1. size' \in [Files -> Nat \cup {ABSENT}]
      BY <1>2, <1>3, <1>5 DEF FieldsOK
    <2>x. PICK x \in FileIds : x = opentab[e].fileid
      BY <1>2, <1>3 DEF FieldsOK
    <2>2. /\ page' \in [Entries -> [there : BOOLEAN, id : FileIds, off : Nat]]
          /\ page'[e].there /\ page'[e].id = x /\ \A y \in Entries : y # e => page'[y] = page[y]
      <3>1. page \in [Entries -> [there : BOOLEAN, id : FileIds, off : Nat]]
        BY <1>2 DEF FieldsOK
      <3> QED
        BY <1>3, <1>5, <2>x, <3>1
    <2>3. /\ opentab' \in [Entries -> [fileid : FileIds, file : Files \cup {NULL}]]
          /\ opentab'[e].file = f /\ opentab'[e].fileid = x
          /\ \A y \in Entries : y # e => opentab'[y] = opentab[y]
      <3>1. opentab \in [Entries -> [fileid : FileIds, file : Files \cup {NULL}]]
        BY <1>2 DEF FieldsOK
      <3> QED
        BY <1>3, <1>5, <2>x, <3>1
    <2>4. \A y \in Entries : opentab'[y].fileid = opentab[y].fileid
      BY <2>3, <2>x
    <2>5. \A y \in Entries : Held(y) => page'[y].id = page[y].id /\ page'[y].there = page[y].there /\ opentab'[y] = opentab[y]
      BY <1>3, <2>2, <2>3
    <2>6. e # NULL /\ e \in Entries \cup {NULL} /\ 0 \in Int
      BY <1>3, Constants
    <2>7. /\ ~Held(e) /\ page'[e].there /\ page'[e].id = opentab[e].fileid /\ opentab'[e].file \in Files
          /\ opentab[e].fileid >= MAXOPEN
      BY <1>3, <2>2, <2>3, <2>x
    <2> QED
      BY <1>1, <1>5, <2>1, <2>2, <2>3, <2>4, <2>5, <2>6, <2>7, AnswerStep
  <1>6. ASSUME NEW b \in BOOLEAN, size' = [size EXCEPT ![f] = IF b THEN @ ELSE 0]
        PROVE  \E s \in Nat \cup {ABSENT} : size' = [size EXCEPT ![f] = s]
    <2>1. size[f] \in Nat \cup {ABSENT}
      BY <1>2, <1>3 DEF FieldsOK
    <2>2. CASE b
      BY <1>6, <2>1, <2>2
    <2>3. CASE ~b
      BY <1>6, <2>3
    <2> QED
      BY <2>2, <2>3
  <1>7. CASE /\ \E b \in BOOLEAN : size' = [size EXCEPT ![f] = IF b THEN @ ELSE 0]
             /\ opentab' = [opentab EXCEPT ![e].file = f]
             /\ page' = [page EXCEPT ![e].id = opentab[e].fileid]
             /\ srv' = [srv EXCEPT !.at = "reply", !.r = 0, !.pg = e]
    BY <1>5, <1>6, <1>7
  <1>8. CASE /\ size' = [size EXCEPT ![f] = IF size[f] # ABSENT /\ "trunc" \notin srv.req.flags THEN @ ELSE 0]
             /\ opentab' = [opentab EXCEPT ![e].file = f]
             /\ page' = [page EXCEPT ![e].id = opentab[e].fileid]
             /\ srv' = [srv EXCEPT !.at = "reply", !.r = 0, !.pg = e]
    <2> DEFINE b == size[f] # ABSENT /\ "trunc" \notin srv.req.flags
    <2>1. b \in BOOLEAN /\ size' = [size EXCEPT ![f] = IF b THEN @ ELSE 0]
      BY <1>8
    <2> HIDE DEF b
    <2> QED
      BY <1>7, <1>8, <2>1
  <1> QED
    BY <1>4, <1>8, <1>e, <1>f DEF serve_open, Answer

\* A request of a process that runs is about a file that it holds.
LEMMA RequestFound ==
  ASSUME Inv, srv.at = "handle", srv.req.op # "open", status[srv.whom] = "LIVE"
  PROVE  /\ srv.req.h % MAXOPEN \in Entries /\ Held(srv.req.h % MAXOPEN)
         /\ opentab[srv.req.h % MAXOPEN].fileid = srv.req.h
  <1>p. PICK p : p = srv.whom
    OBVIOUS
  <1>1. p \in Procs /\ status[p] = "LIVE" /\ loc[p].req = srv.req /\ srv.req.op # "none"
    BY <1>p DEF Inv, ClientOK
  <1>2. FieldsOK /\ ProcOK(p) /\ srv.req.op \in Ops \cup {"none"}
    BY <1>1 DEF Inv, FieldsOK, SrvType, ReqType
  <1>3. srv.req.fd \in Fds /\ fdpage[p][srv.req.fd] \in Entries /\ srv.req.h = page[fdpage[p][srv.req.fd]].id
    BY <1>1, <1>2 DEF ProcOK
  <1>x. PICK x : x = fdpage[p][srv.req.fd]
    OBVIOUS
  <1>4. x \in Entries /\ Held(x) /\ srv.req.h = page[x].id
    BY <1>1, <1>3, <1>x DEF Held
  <1>5. EntryOK(x)
    BY <1>4 DEF Inv
  <1>6. srv.req.h = opentab[x].fileid /\ srv.req.h % MAXOPEN = x
    BY <1>4, <1>5 DEF EntryOK, Given
  <1> QED
    BY <1>4, <1>6

\* An entry with a second reference holds a file that somebody opened.
LEMMA FoundIs ==
  ASSUME Inv, NEW e \in Entries
  PROVE  /\ \A h : Found(e, h) <=> Held(e) /\ opentab[e].fileid = h
         /\ \A h : Found(e, h) => opentab[e].file \in Files /\ page[e].id = h /\ page[e].off \in Nat
  <1>1. EntryOK(e) /\ page[e].off \in Nat
    BY DEF Inv, FieldsOK
  <1>2. Held(e) <=> pageref(e) > 1
    BY <1>1, CountTells DEF EntryOK, Given
  <1> QED
    BY <1>1, <1>2 DEF Found, EntryOK, Given

LEMMA RoomIs ==
  ASSUME FieldsOK, NEW f \in Files, NEW off \in Nat
  PROVE  Room(off, f) \in Nat /\ size[f] \in Nat \cup {-1}
  <1>1. size[f] \in Nat \cup {-1}
    BY DEF FieldsOK, ABSENT
  <1> QED
    BY <1>1 DEF Room

LEMMA HandleStep ==
  ASSUME Inv, handle, calls' = calls PROVE Inv'
  <1>e. PICK e : e = srv.req.h % MAXOPEN
    OBVIOUS
  <1>f. PICK f : f = opentab[e].file
    OBVIOUS
  <1>off. PICK off : off = page[e].off
    OBVIOUS
  <1>1. srv.at = "handle" /\ srv.req.op # "open" /\ UNCHANGED <<fdpage, loc, status, parent, killed, opentab, calls>>
    BY DEF handle, UnchangedClients
  <1>2. FieldsOK /\ ResultOK /\ srv \in SrvType /\ srv.pg = NULL /\ srv.req.h \in FileIds
    BY <1>1 DEF Inv, FieldsOK, ResultOK
  <1>3. e \in Entries
    BY <1>2, <1>e, Constants, NextNumber DEF Entries
  <1>4. CASE ~Found(e, srv.req.h) /\ srv' = [srv EXCEPT !.at = "reply", !.r = E_INVAL] /\ UNCHANGED <<size, page>>
    <2>1. srv' = [srv EXCEPT !.at = "reply", !.r = E_INVAL, !.pg = NULL] /\ E_INVAL \in Int
      <3>1. srv' = [srv EXCEPT !.at = "reply", !.r = E_INVAL, !.pg = NULL]
        BY <1>2, <1>4 DEF SrvType
      <3>2. E_INVAL \in Int
        BY Constants
      <3> QED
        BY <3>1, <3>2
    <2>2. status[srv.whom] # "LIVE"
      BY <1>1, <1>3, <1>4, <1>e, FoundIs, RequestFound
    <2>3. /\ size' \in [Files -> Nat \cup {ABSENT}] /\ page' \in [Entries -> [there : BOOLEAN, id : FileIds, off : Nat]]
          /\ opentab' \in [Entries -> [fileid : FileIds, file : Files \cup {NULL}]]
          /\ opentab' = opentab /\ page' = page
      BY <1>1, <1>2, <1>4 DEF FieldsOK
    <2> QED
      BY <1>1, <2>1, <2>2, <2>3, AnswerStep
  <1>5. ASSUME Found(e, srv.req.h), NEW s \in Nat \cup {ABSENT}, NEW o \in Nat, NEW r \in Int, srv.req.op = "close" => r = 0,
               size' = [size EXCEPT ![f] = s], page' = [page EXCEPT ![e].off = o], srv' = [srv EXCEPT !.at = "reply", !.r = r]
        PROVE  Inv'
    <2>1. srv' = [srv EXCEPT !.at = "reply", !.r = r, !.pg = NULL]
      BY <1>2, <1>5 DEF SrvType
    <2>2. f \in Files
      BY <1>3, <1>5, <1>f, FoundIs
    <2>3. size' \in [Files -> Nat \cup {ABSENT}]
      BY <1>2, <1>5, <2>2 DEF FieldsOK
    <2>4. /\ page' \in [Entries -> [there : BOOLEAN, id : FileIds, off : Nat]]
          /\ \A y \in Entries : page'[y].id = page[y].id /\ page'[y].there = page[y].there
      <3>1. page \in [Entries -> [there : BOOLEAN, id : FileIds, off : Nat]]
        BY <1>2 DEF FieldsOK
      <3> QED
        BY <1>3, <1>5, <3>1
    <2>5. opentab' \in [Entries -> [fileid : FileIds, file : Files \cup {NULL}]] /\ opentab' = opentab
      BY <1>1, <1>2 DEF FieldsOK
    <2> QED
      BY <1>1, <1>5, <2>1, <2>3, <2>4, <2>5, AnswerStep
  <1>6. CASE Found(e, srv.req.h)
    <2>n. PICK n : n = srv.req.n
      OBVIOUS
    <2>1. n \in Nat /\ off \in Nat /\ f \in Files
      BY <1>2, <1>3, <1>6, <1>f, <1>off, <2>n, FoundIs DEF SrvType, ReqType
    <2>2. Room(off, f) \in Nat /\ size[f] \in Nat \cup {-1} /\ ABSENT = -1 /\ E_NO = -1
      BY <1>2, <2>1, RoomIs DEF ABSENT, E_NO
    <2>got. PICK got : got = IF n < Room(off, f) THEN n ELSE Room(off, f)
      OBVIOUS
    <2>grown. PICK grown : grown = IF off + n > size[f] THEN off + n ELSE size[f]
      OBVIOUS
    <2>3. got \in Nat /\ grown \in Nat
      BY <2>1, <2>2, <2>got, <2>grown
    <2> DEFINE Result(s, o, r) == size' = [size EXCEPT ![f] = s] /\ page' = [page EXCEPT ![e].off = o]
                                  /\ srv' = [srv EXCEPT !.at = "reply", !.r = r]
    <2>4. \/ srv.req.op = "read" /\ Result(size[f], off + got, got)
          \/ srv.req.op = "read" /\ got > 0 /\ MayFail /\ Result(size[f], off, E_NO)
          \/ srv.req.op = "write" /\ Result(grown, off + n, n)
          \/ srv.req.op = "write" /\ n > 0 /\ MayFail /\ Result(grown, off, E_NO)
          \/ srv.req.op = "ftruncate" /\ Result(n, off, 0)
          \/ srv.req.op = "fstat" /\ Result(size[f], off, size[f])
          \/ srv.req.op = "close" /\ Result(size[f], off, 0)
      BY <1>6, <1>e, <1>f, <1>off, <2>n, <2>got, <2>grown DEF handle, Answer
    <2>5. PICK s \in Nat \cup {ABSENT}, o \in Nat, r \in Int : Result(s, o, r) /\ (srv.req.op = "close" => r = 0)
      <3>1. size[f] \in Nat \cup {ABSENT} /\ size[f] \in Int /\ E_NO \in Int /\ off + got \in Nat /\ off + n \in Nat
            /\ grown \in Nat \cup {ABSENT} /\ n \in Nat \cup {ABSENT} /\ got \in Int /\ n \in Int /\ 0 \in Int
        BY <2>1, <2>2, <2>3
      <3> HIDE DEF Result
      <3> QED
        BY <2>1, <2>4, <3>1
    <2> QED
      BY <1>5, <1>6, <2>5
  <1> QED
    BY <1>4, <1>6, <1>e DEF handle, Answer

\* The server panics: its client is gone, or has no memory for the page.
LEMMA PanicStep ==
  ASSUME Inv, srv.at = "reply", NEW r \in {E_INVAL, E_NO}, srv' = [srv EXCEPT !.at = "panic", !.r = r],
         UNCHANGED <<fdpage, loc, opentab, page, size, status, parent, killed, calls>>,
         r = E_INVAL => status[srv.whom] # "LIVE",
         r = E_NO => srv.pg # NULL /\ status[srv.whom] = "LIVE" /\ loc[srv.whom].at = "blocked"
  PROVE  Inv'
  <1>1. FieldsOK /\ ClientOK /\ ResultOK /\ srv \in SrvType
    BY DEF Inv, FieldsOK
  <1>2. r \in Int /\ E_INVAL # E_NO
    BY Constants
  <1>3. /\ srv' \in SrvType /\ srv'.at = "panic" /\ srv'.r = r /\ srv'.pg = srv.pg
        /\ srv'.whom = srv.whom /\ srv'.req = srv.req
    BY <1>1, <1>2 DEF SrvType
  <1>4. FieldsOK'
    BY <1>1, <1>3 DEF FieldsOK
  <1>5. ClientOK'
    BY <1>3 DEF ClientOK
  <1>6. /\ srv.whom \in Procs /\ status[srv.whom] # "UNUSED"
        /\ IF status[srv.whom] = "LIVE" THEN loc[srv.whom].req = srv.req /\ loc[srv.whom].at \in {"recv", "blocked"}
                                        ELSE srv.whom \in killed
    BY <1>1 DEF ClientOK
  <1>7. status[srv.whom] \in {"UNUSED", "LIVE", "DEAD"}
    BY <1>1, <1>6 DEF FieldsOK
  <1>8. ResultOK'
    <2>1. /\ srv'.whom \in Procs /\ status'[srv'.whom] # "UNUSED"
          /\ r = E_INVAL => status'[srv'.whom] = "DEAD" /\ killed' # {}
          /\ r # E_INVAL => r = E_NO /\ srv'.pg # NULL
          /\ status'[srv'.whom] = "LIVE" => loc'[srv'.whom].at = "blocked" /\ loc'[srv'.whom].req = srv'.req
      BY <1>2, <1>3, <1>6, <1>7
    <2>e. PICK e : e = srv.pg
      OBVIOUS
    <2>2. e # NULL => srv'.req.op = "open" /\ ~Held(e)' /\ Given(e)'
      <3> SUFFICES ASSUME e # NULL
                   PROVE  srv'.req.op = "open" /\ ~Held(e)' /\ Given(e)'
        OBVIOUS
      <3>1. srv.req.op = "open" /\ ~Held(e) /\ Given(e)
        BY <1>1, <2>e DEF ResultOK
      <3> QED
        BY <1>3, <3>1 DEF Held, Given
    <2>3. srv'.pg = e
      BY <1>3, <2>e
    <2>4. srv'.pg # NULL => srv'.req.op = "open" /\ (~Held(srv.pg) /\ Given(srv.pg))'
      BY <2>2, <2>3 DEF Held, Given
    <2> QED
      BY <1>3, <2>1, <2>4 DEF ResultOK
  <1>9. \A e \in Entries : NumberOK(e)'
    BY <1>3, SameNumbers
  <1> QED
    BY <1>3, <1>4, <1>5, <1>8, <1>9, ServerStep

LEMMA ReplyStep ==
  ASSUME Inv, reply, calls' = calls PROVE Inv'
  <1>c. PICK c : c = srv.whom
    OBVIOUS
  <1>1. srv.at = "reply" /\ UNCHANGED <<opentab, page, size, status, parent, killed, calls>>
    BY DEF reply, UnchangedClients
  <1>2. FieldsOK /\ ClientOK /\ ResultOK /\ srv \in SrvType
    BY DEF Inv, FieldsOK
  <1>3. CASE status[c] # "LIVE" /\ srv' = [srv EXCEPT !.at = "panic", !.r = E_INVAL] /\ UNCHANGED <<fdpage, loc>>
    <2>1. E_INVAL \in {E_INVAL, E_NO} /\ E_INVAL # E_NO
      BY Constants
    <2> QED
      BY <1>1, <1>3, <1>c, <2>1, PanicStep
  <1>4. CASE /\ status[c] = "LIVE" /\ loc[c].at = "blocked" /\ srv.pg # NULL
             /\ srv' = [srv EXCEPT !.at = "panic", !.r = E_NO] /\ UNCHANGED <<fdpage, loc>>
    <2>1. E_NO \in {E_INVAL, E_NO} /\ E_INVAL # E_NO
      BY Constants
    <2> QED
      BY <1>1, <1>4, <1>c, <2>1, PanicStep
  <1>5. CASE /\ status[c] = "LIVE" /\ loc[c].at = "blocked" /\ srv' = [srv EXCEPT !.at = "listen"]
             /\ fdpage' = IF srv.pg = NULL THEN fdpage ELSE [fdpage EXCEPT ![c][loc[c].req.fd] = srv.pg]
             /\ loc' = [loc EXCEPT ![c] = IF @.req.op = "close" THEN [@ EXCEPT !.at = "unmap"] ELSE AtRest]
    <2>d. PICK d : d = loc[c].req.fd
      OBVIOUS
    <2>l. PICK l : l = IF loc[c].req.op = "close" THEN [loc[c] EXCEPT !.at = "unmap"] ELSE AtRest
      OBVIOUS
    <2>1. c \in Procs /\ srv.req.op # "none" /\ loc[c].req = srv.req
      BY <1>1, <1>2, <1>5, <1>c DEF ClientOK
    <2>2. ProcOK(c) /\ loc[c] \in LocType /\ d \in Fds
      BY <1>2, <2>1, <2>d DEF Inv, FieldsOK, ProcOK
    <2>3. l \in LocType /\ (loc[c].req.op = "close" => l.at = "unmap" /\ l.req = loc[c].req)
                        /\ (loc[c].req.op # "close" => l = AtRest)
      BY <2>2, <2>l, Constants DEF LocType
    <2>4. loc' = [loc EXCEPT ![c] = l]
      BY <1>2, <1>5, <2>1, <2>l DEF FieldsOK
    <2>5. loc' \in [Procs -> LocType] /\ loc'[c] = l /\ \A q \in Procs : q # c => loc'[q] = loc[q]
      BY <1>2, <2>1, <2>3, <2>4, LocIs
    <2>6. srv' \in SrvType /\ srv'.at = "listen"
      BY <1>2, <1>5 DEF SrvType
    <2>7. /\ fdpage' \in [Procs -> [Fds -> Entries \cup {NULL}]]
          /\ srv.pg = NULL => fdpage' = fdpage
          /\ srv.pg # NULL => fdpage'[c][d] = srv.pg
          /\ \A k \in Fds : k # d => fdpage'[c][k] = fdpage[c][k]
          /\ \A q \in Procs : q # c => fdpage'[q] = fdpage[q]
      <3>1. CASE srv.pg = NULL
        BY <1>2, <1>5, <3>1 DEF FieldsOK
      <3>2. CASE srv.pg # NULL
        <4>y. PICK y : y = srv.pg
          OBVIOUS
        <4>1. y \in Entries \cup {NULL}
          BY <1>2, <4>y DEF SrvType
        <4>2. fdpage' = [fdpage EXCEPT ![c][d] = y]
          BY <1>5, <2>d, <3>2, <4>y
        <4>3. /\ fdpage' \in [Procs -> [Fds -> Entries \cup {NULL}]] /\ fdpage'[c][d] = y
              /\ \A k \in Fds : k # d => fdpage'[c][k] = fdpage[c][k]
              /\ \A q \in Procs : q # c => fdpage'[q] = fdpage[q]
          BY <1>2, <2>1, <2>2, <4>1, <4>2, FdIs
        <4> QED
          BY <3>2, <4>3, <4>y
      <3> QED
        BY <3>1, <3>2
    <2>8. FieldsOK'
      BY <1>1, <1>2, <2>5, <2>6, <2>7 DEF FieldsOK
    <2>9. ClientOK' /\ ResultOK'
      BY <2>6 DEF ClientOK, ResultOK
    <2>10. srv.pg # NULL => srv.req.op = "open" /\ ~Held(srv.pg) /\ Given(srv.pg)
      BY <1>1, <1>2 DEF ResultOK
    <2>11. ASSUME NEW q \in Procs PROVE ProcOK(q)'
      <3>1. CASE q # c
        <4>1. ProcOK(q) /\ loc'[q] = loc[q] /\ fdpage'[q] = fdpage[q] /\ loc[q].at \notin {"recv", "blocked"}
          BY <1>c, <2>5, <2>7, <3>1 DEF Inv, ProcOK
        <4> QED
          BY <1>1, <4>1 DEF ProcOK
      <3>2. CASE q = c /\ loc[c].req.op = "close"
        <4>1. srv.pg = NULL
          BY <2>1, <2>10, <3>2
        <4>2. fdpage' = fdpage
          BY <2>7, <4>1
        <4> QED
          BY <1>1, <1>5, <2>2, <2>3, <2>5, <3>2, <4>2 DEF ProcOK
      <3>3. CASE q = c /\ loc[c].req.op # "close"
        <4>1. loc'[q] = AtRest
          BY <2>3, <2>5, <3>3
        <4> QED
          BY <1>1, <1>5, <3>3, <4>1 DEF ProcOK, AtRest, NoReq, Ops
      <3> QED
        BY <3>1, <3>2, <3>3
    <2>12. ASSUME NEW e \in Entries PROVE EntryOK(e)' /\ NumberOK(e)'
      <3>1. EntryOK(e) /\ NumberOK(e) /\ calls \in Nat
        BY <1>2, Constants DEF Inv, FieldsOK
      <3>2. Held(e)' => Held(e) \/ (srv.pg # NULL /\ e = srv.pg)
        <4> SUFFICES ASSUME NEW q \in Procs, NEW k \in Fds, fdpage'[q][k] = e
                     PROVE  Held(e) \/ (srv.pg # NULL /\ e = srv.pg)
          BY DEF Held
        <4>1. CASE fdpage'[q][k] = fdpage[q][k]
          BY <4>1 DEF Held
        <4>2. CASE fdpage'[q][k] # fdpage[q][k]
          <5>1. q = c /\ k = d /\ srv.pg # NULL
            BY <2>7, <4>2
          <5> QED
            BY <2>7, <5>1
        <4> QED
          BY <4>1, <4>2
      <3>3. EntryOK(e)'
        <4>1. Held(e)' => Given(e)
          BY <2>10, <3>1, <3>2 DEF EntryOK
        <4> QED
          BY <1>1, <3>1, <4>1 DEF EntryOK, Given
      <3>4. NumberOK(e)'
        <4>1. c \notin Opening' /\ srv'.at # "alloc" /\ srv.at # "alloc"
          BY <1>1, <2>3, <2>5, <2>6 DEF Opening, AtRest
        <4>2. Cardinality(Opening)' \in Nat /\ Cardinality(Opening) \in Nat
              /\ Cardinality(Opening)' <= Cardinality(Opening)
          BY <2>1, <2>5, <4>1, OpeningStep, OpeningFinite
        <4>3. PICK n \in Nat : opentab[e].fileid = e + MAXOPEN * n
                               /\ n + Cardinality(Opening) + (IF srv.at = "alloc" THEN 1 ELSE 0) <= calls
          BY <3>1 DEF NumberOK
        <4>4. n + Cardinality(Opening)' + (IF srv'.at = "alloc" THEN 1 ELSE 0) <= calls'
          BY <1>1, <3>1, <4>1, <4>2, <4>3
        <4> QED
          BY <1>1, <4>3, <4>4 DEF NumberOK
      <3> QED
        BY <3>3, <3>4
    <2> QED
      BY <2>8, <2>9, <2>11, <2>12 DEF Inv
  <1> QED
    BY <1>1, <1>3, <1>4, <1>5, <1>c DEF reply

-----------------------------------------------------------------------------
(***************************************************************************)
(* The server stays up.                                                    *)
(***************************************************************************)
LEMMA InvInit == Init => Inv
  <1> SUFFICES ASSUME Init PROVE Inv
    OBVIOUS
  <1>0. NoReq \in ReqType /\ AtRest \in LocType
    BY Constants
  <1>1. FieldsOK
    <2>1. 0 \in FileIds /\ Entries \subseteq FileIds
      <3>1. \A m, c \in Nat : m * (c + 1) \in Nat
        OBVIOUS
      <3>2. MAXOPEN * (MaxCalls + 1) \in Nat
        BY <3>1, Constants
      <3> QED
        BY <3>2, Constants DEF FileIds, Entries
    <2>2. srv \in SrvType
      BY <1>0, Constants DEF Init, SrvType
    <2>3. 0 \in 0..MaxCalls
      BY Constants
    <2> QED
      BY <1>0, <2>1, <2>2, <2>3, ProcAssumption DEF Init, FieldsOK
  <1>2. srv.at = "listen" /\ srv.pg = NULL /\ \A p \in Procs : loc[p] = AtRest
    BY DEF Init
  <1>3. ClientOK /\ ResultOK
    BY <1>2 DEF ClientOK, ResultOK
  <1>4. \A p \in Procs : ProcOK(p)
    BY <1>2 DEF ProcOK, Init, AtRest, NoReq, Ops
  <1>5. ASSUME NEW e \in Entries PROVE EntryOK(e) /\ NumberOK(e)
    <2>1. opentab[e].fileid = e
      BY DEF Init
    <2>2. ~Held(e)
      <3>1. \A p \in Procs, i \in Fds : fdpage[p][i] = NULL
        BY DEF Init
      <3> QED
        BY <3>1, Constants DEF Held
    <2>3. Opening = {}
      BY <1>2 DEF Opening, AtRest
    <2>4. Cardinality(Opening) = 0 /\ calls = 0
      BY <2>3, FS_EmptySet DEF Init
    <2>5. e = e + MAXOPEN * 0 /\ 0 + Cardinality(Opening) + (IF srv.at = "alloc" THEN 1 ELSE 0) <= calls
      BY <1>2, <2>4, Constants
    <2>6. EntryOK(e)
      BY <2>1, <2>2, OwnNumber DEF EntryOK
    <2>7. NumberOK(e)
      <3>1. 0 \in Nat
        OBVIOUS
      <3> QED
        BY <2>1, <2>5, <3>1 DEF NumberOK
    <2> QED
      BY <2>6, <2>7
  <1> QED
    BY <1>1, <1>3, <1>4, <1>5 DEF Inv

LEMMA InvCall ==
  ASSUME Inv, NEW p \in Procs, Call(p) PROVE Inv'
  <1>1. calls' = calls + 1 /\ calls' \in 0..MaxCalls
    BY Constants DEF Call, Inv, FieldsOK
  <1>2. ASSUME NEW f \in Files, NEW flags \in Modes, open(p, f, flags) PROVE Inv'
    BY <1>1, <1>2, OpenStep
  <1>3. ASSUME NEW i \in Fds, devfile(p, i, "fstat", 0) \/ devfile(p, i, "close", 0) PROVE Inv'
    <2>1. {"fstat", "close"} \subseteq Ops \ {"open"} /\ 0 \in Nat
      BY DEF Ops
    <2> QED
      BY <1>1, <1>3, <2>1, DevfileStep
  <1>4. ASSUME NEW i \in Fds, NEW n \in Counts, NEW op \in {"read", "write", "ftruncate"}, devfile(p, i, op, n) PROVE Inv'
    <2>1. op \in Ops \ {"open"} /\ n \in Nat
      BY NumAssumption DEF Ops
    <2> QED
      BY <1>1, <1>4, <2>1, DevfileStep
  <1>5. ASSUME NEW i \in Fds, NEW n \in Counts, seek(p, i, n) PROVE Inv'
    <2>1. n \in Nat
      BY NumAssumption
    <2> QED
      BY <1>1, <1>5, <2>1, SeekStep
  <1>6. ASSUME NEW i \in Fds, NEW j \in Fds, dup(p, i, j) PROVE Inv'
    BY <1>1, <1>6, DupStep
  <1>7. ASSUME NEW c \in Procs, fork(p, c) PROVE Inv'
    BY <1>1, <1>7, ForkStep
  <1> QED
    BY <1>2, <1>3, <1>4, <1>5, <1>6, <1>7 DEF Call

LEMMA Invariance == Inv /\ [Next]_vars => Inv'
  <1> SUFFICES ASSUME Inv, [Next]_vars PROVE Inv'
    OBVIOUS
  <1>1. CASE serve
    BY <1>1, ListenStep, AllocStep, OpenServed, HandleStep, ReplyStep DEF serve
  <1>2. ASSUME NEW p \in Procs, Call(p) PROVE Inv'
    BY <1>2, InvCall
  <1>3. ASSUME NEW p \in Procs, Leave(p) PROVE Inv'
    BY <1>3, ExitStep, DestroyStep DEF Leave
  <1>4. ASSUME NEW p \in Procs, Continue(p) PROVE Inv'
    BY <1>4, CloseAllStep, SendStep, RecvStep, FdCloseStep DEF Continue
  <1>5. CASE UNCHANGED vars
    <2>1. FieldsOK' /\ ClientOK' /\ ResultOK'
      BY <1>5 DEF vars, Inv, FieldsOK, ClientOK, ResultOK, Held, Given
    <2>2. \A p \in Procs : ProcOK(p)'
      BY <1>5 DEF vars, Inv, ProcOK
    <2>3. \A e \in Entries : EntryOK(e)' /\ NumberOK(e)'
      BY <1>5 DEF vars, Inv, EntryOK, NumberOK, Held, Given, Opening
    <2> QED
      BY <2>1, <2>2, <2>3 DEF Inv
  <1> QED
    BY <1>1, <1>2, <1>3, <1>4, <1>5 DEF Next

LEMMA InvServerOK == Inv => ServerOK
  <1> SUFFICES ASSUME Inv PROVE ServerOK
    OBVIOUS
  <1>1. FieldsOK /\ ClientOK /\ ResultOK /\ srv \in SrvType
    BY DEF Inv, FieldsOK
  <1>2. ASSUME NEW p \in Procs
        PROVE  /\ status[p] # "LIVE" => loc[p] = AtRest /\ \A i \in Fds : fdpage[p][i] = NULL
               /\ loc[p].at \in {"idle", "send", "recv", "blocked", "unmap", "exit"} /\ loc[p].exiting \in BOOLEAN
               /\ loc[p].req.op \in Ops \cup {"none"}
               /\ loc[p].req.op \in Ops \ {"open"} => loc[p].req.h \in FileIds /\ fdpage[p][loc[p].req.fd] # NULL
    <2>1. ProcOK(p) /\ loc[p] \in LocType
      BY DEF Inv, FieldsOK
    <2>2. loc[p].req.op \in Ops \ {"open"} => loc[p].req.h \in FileIds /\ fdpage[p][loc[p].req.fd] # NULL
      BY <1>1, <2>1, Constants DEF ProcOK, FieldsOK
    <2> QED
      BY <2>1, <2>2 DEF ProcOK, LocType, ReqType
  <1>3. TypeOK
    BY <1>1, <1>2 DEF TypeOK, FieldsOK, SrvType, ReqType
  <1>4. PanicNeedsKill
    BY <1>1 DEF ResultOK, PanicNeedsKill
  <1> QED
    BY <1>3, <1>4 DEF ServerOK

\* The server panics over a client only when somebody destroyed that client
\* between its request and the answer; a client that leaves by exit, or whose
\* file's entry was taken for another file, never brings it down; and no file
\* number leaves the range of its entry (fs/serv.c:61-97, 331-359, ipc.c:63-68).
THEOREM ServerStaysUp == Spec => []ServerOK
  <1>1. Spec => []Inv
    BY InvInit, Invariance, PTL DEF Spec
  <1> QED
    BY <1>1, InvServerOK, PTL

-----------------------------------------------------------------------------
(***************************************************************************)
(* FileServer implements FileService: what the mapping makes of a state.   *)
(***************************************************************************)
Live    == {p \in Procs : status[p] = "LIVE"}
Ids     == {page[e].id : e \in Opened}
Handle  == [x \in Ids |-> [file |-> opentab[x % MAXOPEN].file, off |-> page[x % MAXOPEN].off]]
FdsOf   == [p \in Procs |-> [i \in Fds |-> Id(fdpage[p][i])]]
CallsOf == [p \in Procs |-> AbsCall(p)]

\* The server has answered p, or died while it did.
Replied(p) == srv.whom = p /\ srv.at \in {"reply", "panic"}

CallOK(p) ==
    /\ status[p] # "LIVE" =>
          AbsCall(p) = IF srv.whom = p /\ srv.at \in {"alloc", "handle"} THEN [req |-> srv.req, done |-> FALSE, r |-> 0]
                                                                         ELSE Service!Idle
    /\ status[p] = "LIVE" /\ ~Replied(p) => AbsCall(p) = [req |-> loc[p].req, done |-> loc[p].at = "unmap", r |-> 0]
    /\ status[p] = "LIVE" /\ Replied(p) =>
          AbsCall(p) = [req |-> loc[p].req, done |-> TRUE, r |-> IF srv.pg # NULL THEN page[srv.pg].id ELSE srv.r]

CallsOK == \A p \in Procs : CallOK(p)

LEMMA CallsAre == Inv => CallsOK
  <1> SUFFICES ASSUME Inv, NEW p \in Procs PROVE CallOK(p)
    BY DEF CallsOK
  <1>1. ProcOK(p) /\ ClientOK
    BY DEF Inv
  <1>2. CASE status[p] # "LIVE"
    <2>1. loc[p] = AtRest
      BY <1>1, <1>2 DEF ProcOK
    <2>2. CASE srv.at \notin {"alloc", "handle"}
      BY <1>2, <2>2 DEF CallOK, AbsCall, Service!Idle, Service!NoReq, NoReq
    <2>3. CASE srv.at \in {"alloc", "handle"} /\ srv.whom = p
      <3>1. Request_(p) = srv.req /\ loc[p].at # "unmap" /\ srv.at \notin {"reply", "panic"}
        BY <2>1, <2>3 DEF Request_, Pending, AtRest
      <3>2. AbsCall(p) = [req |-> srv.req, done |-> FALSE, r |-> 0]
        BY <1>2, <2>3, <3>1 DEF AbsCall
      <3> QED
        BY <1>2, <2>3, <3>2 DEF CallOK
    <2>4. CASE srv.at \in {"alloc", "handle"} /\ srv.whom # p
      <3>1. Request_(p) = NoReq /\ loc[p].at # "unmap" /\ srv.at \notin {"reply", "panic"}
        BY <1>2, <2>1, <2>4 DEF Request_, Pending, AtRest
      <3>2. AbsCall(p) = Service!Idle
        BY <1>2, <2>4, <3>1 DEF AbsCall, Service!Idle, Service!NoReq, NoReq
      <3> QED
        BY <1>2, <2>4, <3>2 DEF CallOK
    <2> QED
      BY <2>2, <2>3, <2>4
  <1>3. CASE status[p] = "LIVE"
    <2>1. Request_(p) = loc[p].req
      BY <1>1, <1>3 DEF Request_, Pending, ClientOK
    <2>2. Replied(p) => loc[p].at # "unmap"
      BY <1>3, NotServed DEF Replied, Serves
    <2>3. CASE Replied(p)
      BY <1>3, <2>1, <2>2, <2>3 DEF CallOK, AbsCall, Replied, Id
    <2>4. CASE ~Replied(p)
      BY <1>3, <2>1, <2>4 DEF CallOK, AbsCall, Replied
    <2> QED
      BY <2>3, <2>4
  <1> QED
    BY <1>2, <1>3

LEMMA CallsAreNext == Inv' => CallsOK'
  BY CallsAre, PTL

\* An entry in use has the number of its page; the number tells the entry.
OpenedOK(e) ==
    /\ page[e].id % MAXOPEN = e /\ page[e].id >= MAXOPEN /\ page[e].id \in FileIds
    /\ opentab[e].fileid = page[e].id /\ opentab[e].file \in Files

AllOpenedOK == \A e \in Entries : e \in Opened => OpenedOK(e)

LEMMA OpenedAre == Inv => AllOpenedOK
  <1> SUFFICES ASSUME Inv, NEW e \in Entries, e \in Opened PROVE OpenedOK(e)
    BY DEF AllOpenedOK
  <1>1. EntryOK(e) /\ page[e].id \in FileIds /\ ResultOK
    BY DEF Inv, FieldsOK
  <1>2. Given(e)
    <2>1. CASE Held(e)
      BY <1>1, <2>1 DEF EntryOK
    <2>2. CASE ~Held(e)
      <3>1. srv.at \in {"reply", "panic"} /\ srv.pg = e /\ e # NULL
        BY <2>2, Constants DEF Opened, Held
      <3>2. Given(srv.pg)
        BY <1>1, <3>1 DEF ResultOK
      <3> QED
        BY <3>1, <3>2
    <2> QED
      BY <2>1, <2>2
  <1> QED
    BY <1>1, <1>2 DEF OpenedOK, EntryOK, Given

LEMMA OpenedAreNext == Inv' => AllOpenedOK'
  BY OpenedAre, PTL

\* What the abstract processes refer to.
Referred == Service!Held(FdsOf, CallsOf)
ReferredOK ==
    /\ Ids \subseteq Referred /\ Referred \subseteq Ids \cup {NULL, 0, E_NO}
    /\ Ids \subseteq FileIds /\ NULL \notin Ids /\ 0 \notin Ids /\ E_NO \notin Ids
    /\ \A x \in Ids : x % MAXOPEN \in Opened /\ page[x % MAXOPEN].id = x

LEMMA ReferredAre == Inv => ReferredOK
  <1> SUFFICES ASSUME Inv PROVE ReferredOK
    OBVIOUS
  <1>1. FieldsOK /\ ResultOK /\ \A p \in Procs : ProcOK(p) /\ CallOK(p)
    BY CallsAre DEF Inv, CallsOK
  <1>2. \A e \in Opened : e \in Entries /\ OpenedOK(e)
    BY OpenedAre DEF Opened, AllOpenedOK
  <1>3. Referred = {FdsOf[p][i] : p \in Procs, i \in Fds} \cup {CallsOf[p].r : p \in {q \in Procs : CallsOf[q].req.op = "open"}}
    BY DEF Referred, Service!Held
  <1>4. \A e \in Opened : page[e].id \in Ids
    BY DEF Ids
  <1>5. ASSUME NEW x \in Ids
        PROVE  x \in FileIds /\ x % MAXOPEN \in Opened /\ page[x % MAXOPEN].id = x /\ x >= MAXOPEN
    <2>1. PICK e \in Opened : x = page[e].id
      BY DEF Ids
    <2> QED
      BY <1>2, <2>1 DEF OpenedOK
  <1>6. Ids \subseteq FileIds /\ NULL \notin Ids /\ 0 \notin Ids /\ E_NO \notin Ids
    BY <1>5, Constants
  <1>7. ASSUME NEW x \in Ids PROVE x \in Referred
    <2>1. PICK e \in Opened : x = page[e].id
      BY DEF Ids
    <2>2. CASE Held(e)
      <3>1. PICK p \in Procs, i \in Fds : fdpage[p][i] = e
        BY <2>2 DEF Held
      <3>2. FdsOf[p][i] = x
        BY <1>2, <2>1, <3>1, Constants DEF FdsOf, Id
      <3> QED
        BY <1>3, <3>2
    <2>3. CASE ~Held(e)
      <3>1. srv.at \in {"reply", "panic"} /\ srv.pg = e /\ status[srv.whom] = "LIVE" /\ e # NULL
        BY <1>2, <2>3, Constants DEF Opened, Held
      <3>p. PICK p : p = srv.whom
        OBVIOUS
      <3>2. p \in Procs /\ Replied(p) /\ srv.req.op = "open" /\ loc[p].req = srv.req
        BY <1>1, <3>1, <3>p DEF Replied, ResultOK, Inv, ClientOK
      <3>3. CallsOf[p] = [req |-> loc[p].req, done |-> TRUE, r |-> x]
        BY <1>1, <2>1, <3>1, <3>2, <3>p DEF CallOK, CallsOf
      <3>4. CallsOf[p].r = x /\ CallsOf[p].req.op = "open"
        BY <3>2, <3>3
      <3> QED
        BY <1>3, <3>2, <3>4
    <2> QED
      BY <2>2, <2>3
  <1>8. ASSUME NEW p \in Procs, NEW i \in Fds PROVE FdsOf[p][i] \in Ids \cup {NULL, 0, E_NO}
    <2>1. FdsOf[p][i] = Id(fdpage[p][i])
      BY DEF FdsOf
    <2>2. CASE fdpage[p][i] = NULL
      BY <2>1, <2>2 DEF Id
    <2>3. CASE fdpage[p][i] # NULL
      <3>e. PICK e : e = fdpage[p][i]
        OBVIOUS
      <3>1. e \in Entries /\ e \in Opened
        BY <1>1, <2>3, <3>e DEF FieldsOK, Opened
      <3> QED
        BY <1>4, <2>1, <2>3, <3>1, <3>e DEF Id
    <2> QED
      BY <2>2, <2>3
  <1>9. ASSUME NEW p \in Procs, CallsOf[p].req.op = "open" PROVE CallsOf[p].r \in Ids \cup {NULL, 0, E_NO}
    <2>1. CallsOf[p] = AbsCall(p) /\ CallOK(p)
      BY <1>1 DEF CallsOf
    <2>2. CASE status[p] # "LIVE"
      BY <2>1, <2>2 DEF CallOK, Service!Idle
    <2>3. CASE status[p] = "LIVE" /\ ~Replied(p)
      BY <2>1, <2>3 DEF CallOK
    <2>4. CASE status[p] = "LIVE" /\ Replied(p) /\ srv.pg # NULL
      <3>e. PICK e : e = srv.pg
        OBVIOUS
      <3>1. e \in Entries
        BY <1>1, <2>4, <3>e DEF FieldsOK, SrvType
      <3>2. e \in Opened
        BY <2>4, <3>1, <3>e DEF Opened, Replied
      <3> QED
        BY <1>4, <2>1, <2>4, <3>2, <3>e DEF CallOK
    <2>5. CASE status[p] = "LIVE" /\ Replied(p) /\ srv.pg = NULL
      <3>1. CallsOf[p] = [req |-> loc[p].req, done |-> TRUE, r |-> srv.r]
        BY <2>1, <2>5 DEF CallOK
      <3>2. srv.req = loc[p].req
        BY <2>5, NotServed DEF Replied, Serves
      <3>3. srv.req.op = "open"
        BY <1>9, <3>1, <3>2
      <3>4. srv.r = E_NO
        BY <1>1, <2>5, <3>3, Constants DEF ResultOK, Replied
      <3> QED
        BY <3>1, <3>4
    <2> QED
      BY <2>2, <2>3, <2>4, <2>5
  <1>10. Referred \subseteq Ids \cup {NULL, 0, E_NO}
    BY <1>3, <1>8, <1>9
  <1> QED
    BY <1>5, <1>6, <1>7, <1>10 DEF ReferredOK

LEMMA ReferredAreNext == Inv' => ReferredOK'
  BY ReferredAre, PTL

\* The abstract actions, in terms of the mapped state.
Keeps(g)   == Handle' = [x \in {y \in DOMAIN g : y \in Referred'} |-> g[x]]
Does(p, r) == CallsOf' = [CallsOf EXCEPT ![p] = IF p \in Live THEN [@ EXCEPT !.done = TRUE, !.r = r] ELSE Service!Idle]

LEMMA KeepIs ==
  ASSUME Inv', NEW g, Ids' \subseteq DOMAIN g, NULL \notin DOMAIN g, 0 \notin DOMAIN g, E_NO \notin DOMAIN g,
         \A x \in Ids' : g[x] = Handle'[x]
  PROVE  Keeps(g)
  <1>1. Ids' \subseteq Referred' /\ Referred' \subseteq Ids' \cup {NULL, 0, E_NO}
    BY ReferredAreNext DEF ReferredOK
  <1>2. {y \in DOMAIN g : y \in Referred'} = Ids'
    BY <1>1
  <1>3. Handle' = [x \in Ids' |-> Handle'[x]]
    BY DEF Handle
  <1> QED
    BY <1>2, <1>3 DEF Keeps

LEMMA RefineStutter ==
  ASSUME UNCHANGED <<Live, size, Handle, FdsOf, CallsOf>>
  PROVE  UNCHANGED Service!sVars
  BY DEF Service!sVars, Live, Handle, Ids, FdsOf, CallsOf

LEMMA RefineInvoke ==
  ASSUME NEW p \in Procs, p \in Live, CallsOf[p] = Service!Idle, NEW q, q.op # "none",
         q.h = FdsOf[p][q.fd], q.op = "open" <=> q.h = NULL,
         CallsOf' = [CallsOf EXCEPT ![p].req = q], UNCHANGED <<Live, size, Handle, FdsOf>>
  PROVE  Service!Next
  <1>1. CallsOf'[p].req = q
    BY DEF CallsOf, Service!Idle
  <1>2. Service!Invoke(p)
    BY <1>1 DEF Service!Invoke, Live, Handle, Ids, FdsOf, CallsOf
  <1> QED
    BY <1>2 DEF Service!Next

LEMMA RefineOpen ==
  ASSUME NEW p \in Procs, NEW q, q = CallsOf[p].req, q.op = "open", ~CallsOf[p].done,
         IF size[q.f] # ABSENT THEN ~({"creat", "excl"} \subseteq q.flags) ELSE "creat" \in q.flags,
         size' = [size EXCEPT ![q.f] = IF size[q.f] # ABSENT THEN (IF "trunc" \in q.flags THEN 0 ELSE @) ELSE 0],
         NEW h \in FileIds \ Referred, Does(p, h),
         Keeps([x \in Ids \cup {h} |-> IF x = h THEN [file |-> q.f, off |-> 0] ELSE Handle[x]]),
         UNCHANGED <<Live, FdsOf>>
  PROVE  Service!Next
  <1>1. DOMAIN Handle = Ids
    BY DEF Handle
  <1>2. Service!Done(p, h)
    BY DEF Service!Done, Does, Live, CallsOf
  <1>3. Service!Keep([x \in DOMAIN Handle \cup {h} |-> IF x = h THEN [file |-> CallsOf[p].req.f, off |-> 0] ELSE Handle[x]])
    BY <1>1 DEF Keeps, Service!Keep, Referred, Handle, Ids, FdsOf, CallsOf
  <1>4. Service!Open(p, CallsOf[p].req)
    BY <1>2, <1>3 DEF Service!Open, Service!ABSENT, ABSENT, Referred, Handle, Ids, FdsOf, CallsOf
  <1>5. Service!Perform(p)
    BY <1>4 DEF Service!Perform, Live, FdsOf, CallsOf
  <1> QED
    BY <1>5 DEF Service!Next

LEMMA RefineFails ==
  ASSUME NEW p \in Procs, NEW q, q = CallsOf[p].req, q.op # "none", ~CallsOf[p].done,
         q.op \in {"open", "read"} \/ p \notin Live,
         Does(p, E_NO), Keeps(Handle), UNCHANGED <<Live, size, FdsOf>>
  PROVE  Service!Next
  <1>1. Service!Done(p, E_NO)
    BY DEF Service!Done, Does, Live, CallsOf
  <1>2. Service!Keep(Handle)
    BY DEF Keeps, Service!Keep, Referred, Handle, Ids, FdsOf, CallsOf
  <1>3. Service!Done(p, Service!E_NO)
    BY <1>1 DEF Service!E_NO, E_NO
  <1>4. CASE q.op \in {"open", "read"}
    <2>1. Service!Perform(p)
      BY <1>2, <1>3, <1>4 DEF Service!Perform, Handle, Ids, FdsOf, CallsOf, Live
    <2> QED
      BY <2>1 DEF Service!Next
  <1>5. CASE p \notin Live
    <2>1. Service!Perform(p)
      BY <1>2, <1>3, <1>5 DEF Service!Perform, Handle, Ids, FdsOf, CallsOf, Live
    <2> QED
      BY <2>1 DEF Service!Next
  <1> QED
    BY <1>4, <1>5

LEMMA RefineReturn ==
  ASSUME NEW p \in Procs, p \in Live, CallsOf[p].done, CallsOf' = [CallsOf EXCEPT ![p] = Service!Idle],
         NEW q, q = CallsOf[p].req, NEW r, r = CallsOf[p].r,
         \/ q.op = "open" /\ r # E_NO /\ FdsOf' = [FdsOf EXCEPT ![p][q.fd] = r]
         \/ q.op = "close" /\ FdsOf' = [FdsOf EXCEPT ![p][q.fd] = NULL]
         \/ ~(q.op = "open" /\ r # E_NO) /\ q.op # "close" /\ FdsOf' = FdsOf,
         Keeps(Handle), UNCHANGED <<Live, size>>
  PROVE  Service!Next
  <1>1. FdsOf' = CASE q.op = "open" /\ r # E_NO -> [FdsOf EXCEPT ![p][q.fd] = r]
                   [] q.op = "close" -> [FdsOf EXCEPT ![p][q.fd] = NULL]
                   [] OTHER -> FdsOf
    OBVIOUS
  <1>2. Service!Keep(Handle)
    BY DEF Keeps, Service!Keep, Referred, Handle, Ids, FdsOf, CallsOf
  <1>3. Service!Return(p)
    BY <1>1, <1>2 DEF Service!Return, Service!E_NO, E_NO, Live, Handle, Ids, FdsOf, CallsOf
  <1> QED
    BY <1>3 DEF Service!Next

LEMMA RefineDup ==
  ASSUME NEW p \in Procs, NEW i \in Fds, NEW j \in Fds, p \in Live, CallsOf[p] = Service!Idle,
         FdsOf[p][i] # NULL, FdsOf[p][j] = NULL,
         FdsOf' = [FdsOf EXCEPT ![p][j] = FdsOf[p][i]], UNCHANGED <<Live, size, Handle, CallsOf>>
  PROVE  Service!Next
  <1>1. Service!Dup(p, i, j)
    BY DEF Service!Dup, Live, Handle, Ids, FdsOf, CallsOf
  <1> QED
    BY <1>1 DEF Service!Next

LEMMA RefineSeek ==
  ASSUME NEW p \in Procs, NEW i \in Fds, p \in Live, CallsOf[p] = Service!Idle,
         NEW h, h = FdsOf[p][i], h # NULL, NEW n \in Nat, Handle'[h].off = n, Handle' = [Handle EXCEPT ![h].off = n],
         UNCHANGED <<Live, size, FdsOf, CallsOf>>
  PROVE  Service!Next
  <1>1. Service!Seek(p, i)
    BY DEF Service!Seek, Live, Handle, Ids, FdsOf, CallsOf
  <1> QED
    BY <1>1 DEF Service!Next

LEMMA RefineFork ==
  ASSUME NEW p \in Procs, NEW c \in Procs, p \in Live, CallsOf[p] = Service!Idle, c \notin Live, Live' = Live \cup {c},
         FdsOf' = [FdsOf EXCEPT ![c] = FdsOf[p]], UNCHANGED <<size, Handle, CallsOf>>
  PROVE  Service!Next
  <1>1. Service!Fork(p, c)
    BY DEF Service!Fork, Live, Handle, Ids, FdsOf, CallsOf
  <1> QED
    BY <1>1 DEF Service!Next

LEMMA RefineEnd ==
  ASSUME NEW p \in Procs, p \in Live, Live' = Live \ {p}, CallsOf' = CallsOf \/ CallsOf' = [CallsOf EXCEPT ![p] = Service!Idle],
         FdsOf' = [FdsOf EXCEPT ![p] = [i \in Fds |-> NULL]], Keeps(Handle), UNCHANGED size
  PROVE  Service!Next
  <1>1. Service!Keep(Handle)
    BY DEF Keeps, Service!Keep, Referred, Handle, Ids, FdsOf, CallsOf
  <1>2. Service!End(p)
    BY <1>1 DEF Service!End, Live, Handle, Ids, FdsOf, CallsOf
  <1> QED
    BY <1>2 DEF Service!Next

\* The offset o, the size s and the result r of the request q on the file f.
Outcome(q, f, off, s, o, r) ==
    LET got == IF off >= size[f] THEN 0 ELSE IF q.n < size[f] - off THEN q.n ELSE size[f] - off
        grown == IF off + q.n > size[f] THEN off + q.n ELSE size[f]
    IN  \/ q.op = "read" /\ s = size[f] /\ o = off + got /\ r = got
        \/ q.op = "write" /\ s = grown /\ o = off + q.n /\ r = q.n
        \/ q.op = "write" /\ s = grown /\ o = off /\ r = E_NO
        \/ q.op = "ftruncate" /\ s = q.n /\ o = off /\ r = 0
        \/ q.op = "fstat" /\ s = size[f] /\ o = off /\ r = size[f]
        \/ q.op = "close" /\ s = size[f] /\ o = off /\ r = 0

LEMMA RefineAccess ==
  ASSUME NEW p \in Procs, NEW q, q = CallsOf[p].req, q.op # "none", ~CallsOf[p].done, q.h \in Ids,
         NEW f, f = Handle[q.h].file, NEW off, off = Handle[q.h].off, NEW s, NEW o, NEW r, Outcome(q, f, off, s, o, r),
         size' = [size EXCEPT ![f] = s], Does(p, r), Keeps([Handle EXCEPT ![q.h].off = o]), UNCHANGED <<Live, FdsOf>>
  PROVE  Service!Next
  <1>got. PICK got : got = IF off >= size[f] THEN 0 ELSE IF q.n < size[f] - off THEN q.n ELSE size[f] - off
    OBVIOUS
  <1>grown. PICK grown : grown = IF off + q.n > size[f] THEN off + q.n ELSE size[f]
    OBVIOUS
  <1>1. \/ q.op = "read" /\ s = size[f] /\ o = off + got /\ r = got
        \/ q.op = "write" /\ s = grown /\ o = off + q.n /\ r = q.n
        \/ q.op = "write" /\ s = grown /\ o = off /\ r = E_NO
        \/ q.op = "ftruncate" /\ s = q.n /\ o = off /\ r = 0
        \/ q.op = "fstat" /\ s = size[f] /\ o = off /\ r = size[f]
        \/ q.op = "close" /\ s = size[f] /\ o = off /\ r = 0
    BY <1>got, <1>grown DEF Outcome
  <1>3. Service!E_NO = E_NO /\ DOMAIN Handle = Ids
    BY DEF Service!E_NO, E_NO, Handle
  <1>4. Service!Access(p, CallsOf[p].req, CallsOf[p].req.h)
    <2>1. CASE q.op = "read" /\ s = size[f] /\ o = off + got /\ r = got
      BY <1>3, <1>got, <1>grown, <2>1 DEF Service!Access, Handle, Ids, Keeps, Service!Keep, Referred, FdsOf, CallsOf, Does, Service!Done, Live
    <2>2. CASE q.op = "write" /\ s = grown /\ o = off + q.n /\ r = q.n
      BY <1>3, <1>got, <1>grown, <2>2 DEF Service!Access, Handle, Ids, Keeps, Service!Keep, Referred, FdsOf, CallsOf, Does, Service!Done, Live
    <2>3. CASE q.op = "write" /\ s = grown /\ o = off /\ r = E_NO
      BY <1>3, <1>got, <1>grown, <2>3 DEF Service!Access, Handle, Ids, Keeps, Service!Keep, Referred, FdsOf, CallsOf, Does, Service!Done, Live
    <2>4. CASE q.op = "ftruncate" /\ s = q.n /\ o = off /\ r = 0
      BY <1>3, <1>got, <1>grown, <2>4 DEF Service!Access, Handle, Ids, Keeps, Service!Keep, Referred, FdsOf, CallsOf, Does, Service!Done, Live
    <2>5. CASE q.op = "fstat" /\ s = size[f] /\ o = off /\ r = size[f]
      BY <1>3, <1>got, <1>grown, <2>5 DEF Service!Access, Handle, Ids, Keeps, Service!Keep, Referred, FdsOf, CallsOf, Does, Service!Done, Live
    <2>6. CASE q.op = "close" /\ s = size[f] /\ o = off /\ r = 0
      BY <1>3, <1>got, <1>grown, <2>6 DEF Service!Access, Handle, Ids, Keeps, Service!Keep, Referred, FdsOf, CallsOf, Does, Service!Done, Live
    <2> QED
      BY <1>1, <2>1, <2>2, <2>3, <2>4, <2>5, <2>6
  <1>5. Service!Perform(p)
    BY <1>3, <1>4 DEF Service!Perform, Live, FdsOf, CallsOf, Handle, Ids
  <1> QED
    BY <1>5 DEF Service!Next

-----------------------------------------------------------------------------
(***************************************************************************)
(* Steps of the processes.                                                 *)
(***************************************************************************)
LEMMA IdSame ==
  ASSUME \A e \in Entries : page'[e].id = page[e].id, NEW y \in Entries \cup {NULL}
  PROVE  Id(y)' = Id(y)
  BY DEF Id

LEMMA CallsStep ==
  ASSUME Inv, NEW x \in Procs, Moves(x)
  PROVE  CallsOf' = [CallsOf EXCEPT ![x] = AbsCall(x)']
  <1>1. srv.pg \in Entries \cup {NULL} /\ srv' = srv
    BY DEF Inv, FieldsOK, SrvType, Moves
  <1>2. \A e \in Entries : page'[e].id = page[e].id
    BY DEF Moves
  <1>y. PICK y : y = srv.pg
    OBVIOUS
  <1>3. Id(y)' = Id(y)
    BY <1>1, <1>2, <1>y, IdSame
  <1>4. ASSUME NEW q \in Procs, q # x PROVE AbsCall(q)' = AbsCall(q)
    <2>1. status'[q] = status[q] /\ loc'[q] = loc[q]
      BY <1>4 DEF Moves
    <2>2. Request_(q)' = Request_(q)
      BY <1>1, <2>1 DEF Request_, Pending
    <2>3. AbsCall(q)' = IF status'[q] # "LIVE" /\ srv'.at \notin {"alloc", "handle"} THEN [req |-> NoReq, done |-> FALSE, r |-> 0]
                        ELSE [req |-> Request_(q)', done |-> (\/ srv'.whom = q /\ srv'.at \in {"reply", "panic"} /\ status'[q] = "LIVE"
                                                              \/ loc'[q].at = "unmap"),
                              r |-> IF loc'[q].at = "unmap" \/ ~(\/ srv'.whom = q /\ srv'.at \in {"reply", "panic"} /\ status'[q] = "LIVE"
                                                                 \/ loc'[q].at = "unmap")
                                    THEN 0 ELSE IF srv'.pg # NULL THEN Id(y)' ELSE srv'.r]
      BY <1>1, <1>y DEF AbsCall, Id
    <2> QED
      BY <1>1, <1>3, <1>y, <2>1, <2>2, <2>3 DEF AbsCall
  <1> QED
    BY <1>4 DEF CallsOf

\* A step that leaves the pages and the server alone.
LEMMA QuietStep ==
  ASSUME Inv, UNCHANGED <<status, fdpage, page, srv, opentab>>
  PROVE  UNCHANGED <<Live, Ids, Handle, FdsOf>>
  BY DEF Live, Handle, Ids, Opened, FdsOf, Id

LEMMA AtRestCall ==
  ASSUME Inv, NEW p \in Procs, status[p] = "LIVE", loc[p].at \in {"idle", "exit"}
  PROVE  CallsOf[p] = Service!Idle /\ ~Serves(p)
  <1>1. ~Serves(p)
    BY NotServing
  <1>2. CallOK(p) /\ loc[p].req = NoReq
    BY CallsAre DEF CallsOK, Inv, ProcOK
  <1> QED
    BY <1>1, <1>2 DEF CallsOf, CallOK, Serves, Replied, Service!Idle, Service!NoReq, NoReq

LEMMA NewReqOfIdle ==
  ASSUME NEW a, NEW q, NEW c, c = [req |-> a, done |-> FALSE, r |-> 0]
  PROVE  [c EXCEPT !.req = q] = [req |-> q, done |-> FALSE, r |-> 0]
  <1>g. PICK g : g = [c EXCEPT !.req = q]
    OBVIOUS
  <1>k. PICK k : k = [req |-> q, done |-> FALSE, r |-> 0]
    OBVIOUS
  <1>1. DOMAIN c = {"req", "done", "r"} /\ c.done = FALSE /\ c.r = 0
    OBVIOUS
  <1>2. DOMAIN g = {"req", "done", "r"} /\ g.req = q /\ g.done = FALSE /\ g.r = 0 /\ g = [x \in DOMAIN g |-> g[x]]
    BY <1>1, <1>g
  <1>3. DOMAIN k = {"req", "done", "r"} /\ k.req = q /\ k.done = FALSE /\ k.r = 0 /\ k = [x \in DOMAIN k |-> k[x]]
    BY <1>k
  <1>4. g = k
    BY <1>2, <1>3
  <1> QED
    BY <1>4, <1>g, <1>k

LEMMA InvokesCall ==
  ASSUME NEW p \in Procs, NEW q, CallsOf[p] = Service!Idle, CallsOf' = [CallsOf EXCEPT ![p] = AbsCall(p)'],
         AbsCall(p)' = [req |-> q, done |-> FALSE, r |-> 0]
  PROVE  CallsOf' = [CallsOf EXCEPT ![p].req = q]
  <1>1. AbsCall(p) = [req |-> Service!NoReq, done |-> FALSE, r |-> 0]
    BY DEF CallsOf, Service!Idle
  <1>2. [CallsOf EXCEPT ![p].req = q] = [x \in Procs |-> IF x = p THEN [AbsCall(p) EXCEPT !.req = q] ELSE AbsCall(x)]
    BY DEF CallsOf
  <1>3. [AbsCall(p) EXCEPT !.req = q] = [req |-> q, done |-> FALSE, r |-> 0]
    BY <1>1, NewReqOfIdle
  <1>4. CallsOf' = [x \in Procs |-> IF x = p THEN [req |-> q, done |-> FALSE, r |-> 0] ELSE AbsCall(x)]
    BY DEF CallsOf
  <1> QED
    BY <1>2, <1>3, <1>4

LEMMA RequestRefines ==
  ASSUME Inv, Inv', NEW p \in Procs, status[p] = "LIVE", loc[p].at \in {"idle", "exit"},
         NEW q \in ReqType, loc' = [loc EXCEPT ![p] = [@ EXCEPT !.at = "send", !.req = q]],
         q.op \in Ops, q.fd \in Fds,
         \/ q.op = "open" /\ q.h = NULL /\ fdpage[p][q.fd] = NULL
         \/ q.op # "open" /\ fdpage[p][q.fd] \in Entries /\ q.h = page[fdpage[p][q.fd]].id,
         UNCHANGED <<status, fdpage, page, srv, opentab, size, killed>>
  PROVE  Service!Next
  <1>l. PICK l : l = [loc[p] EXCEPT !.at = "send", !.req = q]
    OBVIOUS
  <1>1. FieldsOK /\ loc[p] \in LocType
    BY DEF Inv, FieldsOK
  <1>2. l \in LocType /\ l.at = "send" /\ l.req = q /\ loc' = [loc EXCEPT ![p] = l]
    BY <1>1, <1>l DEF LocType
  <1>3. loc'[p] = l /\ \A r \in Procs : r # p => loc'[r] = loc[r]
    BY <1>1, <1>2, LocIs
  <1>4. Moves(p)
    BY <1>3 DEF Moves
  <1>5. CallsOf[p] = Service!Idle /\ ~Serves(p)
    BY AtRestCall
  <1>6. CallOK(p)'
    BY CallsAreNext DEF CallsOK
  <1>7. AbsCall(p)' = [req |-> q, done |-> FALSE, r |-> 0]
    <2>1. status'[p] = "LIVE" /\ ~Replied(p)' /\ loc'[p].req = q /\ loc'[p].at = "send"
      BY <1>2, <1>3, <1>5 DEF Serves, Replied
    <2> QED
      BY <1>6, <2>1 DEF CallOK
  <1>8. CallsOf' = [CallsOf EXCEPT ![p].req = q]
    <2>1. CallsOf' = [CallsOf EXCEPT ![p] = AbsCall(p)']
      BY <1>4, CallsStep
    <2> QED
      BY <1>5, <1>7, <2>1, InvokesCall
  <1>9. UNCHANGED <<Live, size, Handle, FdsOf>>
    BY QuietStep
  <1>10. q.h = FdsOf[p][q.fd] /\ (q.op = "open" <=> q.h = NULL)
    <2>1. FdsOf[p][q.fd] = Id(fdpage[p][q.fd])
      BY DEF FdsOf
    <2>2. CASE q.op = "open"
      BY <2>1, <2>2 DEF Id
    <2>3. CASE q.op # "open"
      <3>1. fdpage[p][q.fd] # NULL /\ q.h \in FileIds
        BY <1>1, <2>3, Constants DEF FieldsOK
      <3> QED
        BY <2>1, <2>3, <3>1, Constants DEF Id
    <2> QED
      BY <2>2, <2>3
  <1> QED
    BY <1>5, <1>8, <1>9, <1>10, RefineInvoke DEF Live, Ops

LEMMA OpenRefines ==
  ASSUME Inv, Inv', NEW p \in Procs, NEW f \in Files, NEW flags \in Modes, open(p, f, flags)
  PROVE  Service!Next
  <1>1. PICK q \in ReqType : /\ Request(p, q) /\ q.op = "open" /\ q.fd \in Fds /\ q.f \in Files /\ q.h = NULL
                             /\ fdpage[p][q.fd] = NULL
    BY OpenIs
  <1> QED
    BY <1>1, RequestRefines DEF Request, UnchangedServer, Ops

LEMMA DevfileRefines ==
  ASSUME Inv, Inv', NEW p \in Procs, NEW i \in Fds, NEW op \in Ops \ {"open"}, NEW n \in Nat, devfile(p, i, op, n)
  PROVE  Service!Next
  <1>q. PICK q : q = Remote(p, i, op, n)
    OBVIOUS
  <1>1. q \in ReqType /\ q.op = op /\ q.fd = i /\ fdpage[p][i] \in Entries /\ q.h = page[fdpage[p][i]].id
    BY <1>q, RemoteIs DEF devfile
  <1>2. Request(p, q)
    BY <1>q DEF devfile
  <1> QED
    BY <1>1, <1>2, RequestRefines DEF Request, UnchangedServer, Ops

LEMMA SeekRefines ==
  ASSUME Inv, Inv', NEW p \in Procs, NEW i \in Fds, NEW n \in Nat, seek(p, i, n)
  PROVE  Service!Next
  <1>e. PICK e : e = fdpage[p][i]
    OBVIOUS
  <1>1. /\ status[p] = "LIVE" /\ loc[p].at = "idle" /\ e # NULL /\ page' = [page EXCEPT ![e].off = n]
        /\ UNCHANGED <<status, parent, fdpage, loc, killed, srv, opentab, size>>
    BY <1>e DEF seek, UnchangedServer
  <1>2. FieldsOK /\ e \in Entries /\ e \in Opened
    BY <1>1, <1>e DEF Inv, FieldsOK, Opened
  <1>3. /\ page'[e].off = n /\ page'[e].id = page[e].id /\ \A x \in Entries : page'[x].id = page[x].id
        /\ \A x \in Entries : x # e => page'[x] = page[x]
    <2>1. page \in [Entries -> [there : BOOLEAN, id : FileIds, off : Nat]]
      BY <1>2 DEF FieldsOK
    <2> QED
      BY <1>1, <1>2, <2>1
  <1>4. Moves(p)
    <2>1. page \in [Entries -> [there : BOOLEAN, id : FileIds, off : Nat]]
      BY <1>2 DEF FieldsOK
    <2>2. \A x \in Entries : page'[x].there = page[x].there
      BY <1>1, <1>2, <2>1
    <2>3. \A x \in Entries : ~Held(x) => page'[x].off = page[x].off
      <3>1. Held(e)
        BY <1>e, <1>2 DEF Held
      <3> QED
        BY <1>3, <3>1
    <2> QED
      BY <1>1, <1>3, <2>2, <2>3 DEF Moves
  <1>5. CallsOf[p] = Service!Idle
    BY <1>1, AtRestCall
  <1>6. CallsOf' = CallsOf
    <2>1. CallOK(p) /\ CallOK(p)'
      BY CallsAre, CallsAreNext DEF CallsOK
    <2>2. ~Serves(p)
      BY <1>1, AtRestCall
    <2>3. AbsCall(p)' = AbsCall(p)
      BY <1>1, <2>1, <2>2 DEF CallOK, Replied, Serves
    <2> QED
      BY <1>4, <2>3, CallsStep DEF CallsOf
  <1>h. PICK h : h = FdsOf[p][i]
    OBVIOUS
  <1>7. h = page[e].id /\ h # NULL /\ h \in Ids /\ h % MAXOPEN = e
    <2>1. h = page[e].id
      BY <1>1, <1>e, <1>h DEF FdsOf, Id
    <2>2. OpenedOK(e)
      BY <1>2, OpenedAre DEF AllOpenedOK
    <2> QED
      BY <1>2, <2>1, <2>2, Constants DEF OpenedOK, Ids
  <1>8. FdsOf' = FdsOf
    <2>1. ASSUME NEW q \in Procs, NEW j \in Fds PROVE Id(fdpage[q][j])' = Id(fdpage[q][j])
      <3>y. PICK y : y = fdpage[q][j]
        OBVIOUS
      <3>1. y \in Entries \cup {NULL} /\ fdpage'[q][j] = y
        BY <1>1, <1>2, <3>y DEF FieldsOK
      <3>2. Id(y)' = Id(y)
        BY <1>3, <3>1, IdSame
      <3> QED
        BY <3>1, <3>2, <3>y DEF Id
    <2> QED
      BY <1>1, <2>1 DEF FdsOf
  <1>9. Live' = Live /\ Opened' = Opened /\ Ids' = Ids
    <2>1. Live' = Live /\ Opened' = Opened
      BY <1>1 DEF Live, Opened
    <2>2. \A x \in Opened : x \in Entries
      BY DEF Opened
    <2> QED
      BY <1>3, <2>1, <2>2 DEF Ids
  <1>10. Handle' = [Handle EXCEPT ![h].off = n] /\ Handle'[h].off = n
    <2>1. ReferredOK
      BY ReferredAre
    <2>2. ASSUME NEW x \in Ids, x # h PROVE x % MAXOPEN \in Entries /\ x % MAXOPEN # e
      BY <1>7, <2>1, <2>2 DEF ReferredOK, Opened
    <2>3. Handle' = [x \in Ids |-> [file |-> opentab[x % MAXOPEN].file, off |-> page'[x % MAXOPEN].off]]
      BY <1>1, <1>9 DEF Handle
    <2> QED
      BY <1>3, <1>7, <2>2, <2>3 DEF Handle
  <1> QED
    BY <1>1, <1>5, <1>6, <1>h, <1>7, <1>8, <1>9, <1>10, RefineSeek DEF Live

LEMMA DupRefines ==
  ASSUME Inv, Inv', NEW p \in Procs, NEW i \in Fds, NEW j \in Fds, dup(p, i, j)
  PROVE  Service!Next
  <1>e. PICK e : e = fdpage[p][i]
    OBVIOUS
  <1>1. /\ status[p] = "LIVE" /\ loc[p].at = "idle" /\ e # NULL /\ fdpage[p][j] = NULL
        /\ fdpage' = [fdpage EXCEPT ![p][j] = e]
        /\ UNCHANGED <<status, parent, loc, page, killed, srv, opentab, size>>
    BY <1>e DEF dup, UnchangedServer
  <1>2. FieldsOK /\ e \in Entries
    BY <1>1, <1>e DEF Inv, FieldsOK
  <1>3. /\ fdpage' \in [Procs -> [Fds -> Entries \cup {NULL}]] /\ fdpage'[p][j] = e
        /\ \A k \in Fds : k # j => fdpage'[p][k] = fdpage[p][k]
        /\ \A q \in Procs : q # p => fdpage'[q] = fdpage[q]
    BY <1>1, <1>2, FdIs
  <1>4. CallsOf[p] = Service!Idle
    BY <1>1, AtRestCall
  <1>5. Live' = Live /\ CallsOf' = CallsOf
    BY <1>1 DEF Live, CallsOf, AbsCall, Request_, Pending, Id
  <1>6. Opened' = Opened
    <2>1. ASSUME NEW x \in Entries
          PROVE  (\E q \in Procs, k \in Fds : fdpage'[q][k] = x) <=> (\E q \in Procs, k \in Fds : fdpage[q][k] = x)
      <3>1. ASSUME NEW q \in Procs, NEW k \in Fds, fdpage'[q][k] = x PROVE \E r \in Procs, d \in Fds : fdpage[r][d] = x
        BY <1>3, <1>e, <3>1
      <3>2. ASSUME NEW q \in Procs, NEW k \in Fds, fdpage[q][k] = x PROVE \E r \in Procs, d \in Fds : fdpage'[r][d] = x
        <4>1. ~(q = p /\ k = j)
          BY <1>1, <3>2, Constants
        <4> QED
          BY <1>3, <3>2, <4>1
      <3> QED
        BY <3>1, <3>2
    <2> QED
      BY <1>1, <2>1 DEF Opened
  <1>7. Handle' = Handle
    BY <1>1, <1>6 DEF Handle, Ids
  <1>8. FdsOf' = [FdsOf EXCEPT ![p][j] = FdsOf[p][i]] /\ FdsOf[p][i] # NULL /\ FdsOf[p][j] = NULL
    <2>i. PICK y : y = Id(e)
      OBVIOUS
    <2>1. FdsOf[p][i] = y /\ FdsOf[p][j] = NULL
      BY <1>1, <1>e, <2>i DEF FdsOf, Id
    <2>2. y # NULL
      BY <1>1, <1>2, <2>i, Constants DEF Id, FieldsOK
    <2>3. FdsOf' = [q \in Procs |-> [k \in Fds |-> IF q = p /\ k = j THEN y ELSE Id(fdpage[q][k])]]
      <3>1. ASSUME NEW q \in Procs, NEW k \in Fds
            PROVE  Id(fdpage[q][k])' = IF q = p /\ k = j THEN y ELSE Id(fdpage[q][k])
        BY <1>1, <1>3, <2>i DEF Id
      <3> QED
        BY <3>1 DEF FdsOf
    <2>4. [FdsOf EXCEPT ![p][j] = y] = [q \in Procs |-> [k \in Fds |-> IF q = p /\ k = j THEN y ELSE Id(fdpage[q][k])]]
      BY DEF FdsOf
    <2> QED
      BY <2>1, <2>2, <2>3, <2>4
  <1> QED
    BY <1>1, <1>4, <1>5, <1>7, <1>8, RefineDup DEF Live

LEMMA ForkRefines ==
  ASSUME Inv, Inv', NEW p \in Procs, NEW c \in Procs, fork(p, c)
  PROVE  Service!Next
  <1>1. /\ status[p] = "LIVE" /\ loc[p].at = "idle" /\ status[c] = "UNUSED" /\ status' = [status EXCEPT ![c] = "LIVE"]
        /\ fdpage' = [fdpage EXCEPT ![c] = fdpage[p]]
        /\ UNCHANGED <<loc, page, killed, srv, opentab, size>>
    BY DEF fork, UnchangedServer
  <1>2. FieldsOK /\ loc[c] = AtRest /\ \A i \in Fds : fdpage[c][i] = NULL
    BY <1>1 DEF Inv, ProcOK
  <1>3. CallsOf[p] = Service!Idle
    BY <1>1, AtRestCall
  <1>4. Moves(c) /\ status'[c] = "LIVE" /\ fdpage'[c] = fdpage[p] /\ \A q \in Procs : q # c => fdpage'[q] = fdpage[q]
    BY <1>1, <1>2 DEF Moves, FieldsOK
  <1>5. CallsOf' = CallsOf
    <2>1. CallOK(c) /\ CallOK(c)' /\ ~Serves(c)
      BY <1>1, NotServed, CallsAre, CallsAreNext DEF CallsOK
    <2>2. AbsCall(c) = Service!Idle
      BY <1>1, <2>1 DEF CallOK, Serves
    <2>3. ~Replied(c)'
      BY <1>1, <2>1 DEF Replied, Serves
    <2>4. AbsCall(c)' = [req |-> NoReq, done |-> FALSE, r |-> 0]
      <3>1. loc'[c].req = NoReq /\ loc'[c].at # "unmap"
        BY <1>1, <1>2 DEF AtRest
      <3> QED
        BY <1>4, <2>1, <2>3, <3>1 DEF CallOK
    <2>5. AbsCall(c)' = AbsCall(c)
      BY <2>2, <2>4 DEF Service!Idle, Service!NoReq, NoReq
    <2> QED
      BY <1>4, <2>5, CallsStep DEF CallsOf
  <1>6. Live' = Live \cup {c} /\ c \notin Live /\ p \in Live
    BY <1>1, <1>2 DEF Live, FieldsOK
  <1>7. Opened' = Opened
    <2>1. ASSUME NEW x \in Entries
          PROVE  (\E q \in Procs, k \in Fds : fdpage'[q][k] = x) <=> (\E q \in Procs, k \in Fds : fdpage[q][k] = x)
      BY <1>2, <1>4, Constants
    <2>2. srv.at \in {"reply", "panic"} => (status'[srv.whom] = "LIVE" <=> status[srv.whom] = "LIVE")
      <3>1. ~Serves(c)
        BY <1>1, NotServed
      <3>2. srv.at \in {"reply", "panic"} => srv.whom \in Procs /\ srv.whom # c
        BY <3>1 DEF Serves, Inv, ClientOK, ResultOK
      <3> QED
        BY <1>4, <3>2 DEF Moves
    <2> QED
      BY <1>1, <2>1, <2>2 DEF Opened
  <1>8. Handle' = Handle
    BY <1>1, <1>7 DEF Handle, Ids
  <1>9. FdsOf' = [FdsOf EXCEPT ![c] = FdsOf[p]]
    <2>1. FdsOf' = [q \in Procs |-> IF q = c THEN [k \in Fds |-> Id(fdpage[p][k])] ELSE [k \in Fds |-> Id(fdpage[q][k])]]
      BY <1>1, <1>4 DEF FdsOf, Id
    <2> QED
      BY <2>1 DEF FdsOf
  <1> QED
    BY <1>1, <1>3, <1>5, <1>6, <1>8, <1>9, RefineFork

LEMMA DiesRefines ==
  ASSUME Inv, Inv', NEW p \in Procs, status[p] = "LIVE", Dies(p), killed \subseteq killed'
  PROVE  Service!Next
  <1>1. /\ status' = [status EXCEPT ![p] = "DEAD"] /\ fdpage' = [fdpage EXCEPT ![p] = [i \in Fds |-> NULL]]
        /\ loc' = [loc EXCEPT ![p] = AtRest] /\ UNCHANGED <<parent, page, srv, opentab, size>>
    BY DEF Dies, UnchangedServer
  <1>2. FieldsOK
    BY DEF Inv
  <1>3. /\ Moves(p) /\ status'[p] = "DEAD" /\ fdpage'[p] = [i \in Fds |-> NULL]
        /\ \A q \in Procs : q # p => fdpage'[q] = fdpage[q]
    BY <1>1, <1>2 DEF Moves, FieldsOK
  <1>4. CallsOf' = CallsOf \/ CallsOf' = [CallsOf EXCEPT ![p] = Service!Idle]
    <2>1. CallOK(p) /\ CallOK(p)'
      BY CallsAre, CallsAreNext DEF CallsOK
    <2>2. CallsOf' = [CallsOf EXCEPT ![p] = AbsCall(p)']
      BY <1>3, CallsStep
    <2>3. CASE srv.whom = p /\ srv.at \in {"alloc", "handle"}
      <3>1. AbsCall(p)' = [req |-> srv.req, done |-> FALSE, r |-> 0]
        BY <1>1, <1>3, <2>1, <2>3 DEF CallOK
      <3>2. loc[p].req = srv.req /\ loc[p].at # "unmap"
        BY <2>3, NotServed DEF Serves
      <3>3. AbsCall(p) = [req |-> srv.req, done |-> FALSE, r |-> 0]
        BY <2>1, <2>3, <3>2 DEF CallOK, Replied
      <3> QED
        BY <2>2, <3>1, <3>3 DEF CallsOf
    <2>4. CASE ~(srv.whom = p /\ srv.at \in {"alloc", "handle"})
      <3>1. AbsCall(p)' = Service!Idle
        BY <1>1, <1>3, <2>1, <2>4 DEF CallOK
      <3> QED
        BY <2>2, <3>1
    <2> QED
      BY <2>3, <2>4
  <1>5. Live' = Live \ {p} /\ p \in Live
    BY <1>1, <1>2 DEF Live, FieldsOK
  <1>6. Opened' \subseteq Opened
    <2>1. ASSUME NEW x \in Entries, NEW q \in Procs, NEW k \in Fds, fdpage'[q][k] = x PROVE fdpage[q][k] = x
      BY <1>3, <2>1, Constants
    <2>2. ASSUME srv.at \in {"reply", "panic"}, status'[srv.whom] = "LIVE" PROVE status[srv.whom] = "LIVE"
      <3>1. srv.whom \in Procs
        BY <2>2 DEF Inv, ClientOK, ResultOK
      <3> QED
        BY <1>3, <2>2, <3>1 DEF Moves
    <2> QED
      BY <1>1, <2>1, <2>2 DEF Opened
  <1>7. Keeps(Handle)
    <2>1. Ids' \subseteq Ids
      BY <1>1, <1>6 DEF Ids
    <2>2. \A x \in Ids' : Handle[x] = Handle'[x]
      BY <1>1, <2>1 DEF Handle
    <2>3. DOMAIN Handle = Ids /\ NULL \notin Ids /\ 0 \notin Ids /\ E_NO \notin Ids
      BY ReferredAre DEF Handle, ReferredOK
    <2>g. PICK g : g = Handle
      OBVIOUS
    <2>4. Keeps(g)
      BY <2>1, <2>2, <2>3, <2>g, KeepIs
    <2> QED
      BY <2>4, <2>g DEF Keeps
  <1>8. FdsOf' = [FdsOf EXCEPT ![p] = [i \in Fds |-> NULL]]
    <2>1. FdsOf' = [q \in Procs |-> IF q = p THEN [k \in Fds |-> NULL] ELSE [k \in Fds |-> Id(fdpage[q][k])]]
      BY <1>1, <1>3 DEF FdsOf, Id
    <2> QED
      BY <2>1 DEF FdsOf
  <1> QED
    BY <1>1, <1>4, <1>5, <1>7, <1>8, RefineEnd

LEMMA CloseAllRefines ==
  ASSUME Inv, Inv', NEW p \in Procs, close_all(p)
  PROVE  Service!Next
  <1>1. status[p] = "LIVE" /\ loc[p].at = "exit" /\ killed' = killed
    BY DEF close_all
  <1>2. CASE Dies(p)
    BY <1>1, <1>2, DiesRefines
  <1>3. CASE ~Dies(p)
    <2>q. PICK q \in ReqType : /\ q.op = "close" /\ q.fd \in Fds
                               /\ fdpage[p][q.fd] \in Entries /\ q.h = page[fdpage[p][q.fd]].id
                               /\ loc' = [loc EXCEPT ![p] = [@ EXCEPT !.at = "send", !.req = q]]
                               /\ UNCHANGED <<status, parent, fdpage, page, killed, srv, opentab, size>>
      BY <1>3, CloseAllIs
    <2> QED
      BY <1>1, <2>q, RequestRefines DEF Ops
  <1> QED
    BY <1>2, <1>3

LEMMA KeepsHandle ==
  ASSUME Inv, Inv', Opened' \subseteq Opened, opentab' = opentab, page' = page
  PROVE  Keeps(Handle)
  <1>1. Ids' \subseteq Ids
    BY DEF Ids
  <1>2. \A x \in Ids' : Handle[x] = Handle'[x]
    BY <1>1 DEF Handle
  <1>3. DOMAIN Handle = Ids /\ NULL \notin Ids /\ 0 \notin Ids /\ E_NO \notin Ids
    BY ReferredAre DEF Handle, ReferredOK
  <1>g. PICK g : g = Handle
    OBVIOUS
  <1>4. Keeps(g)
    BY <1>1, <1>2, <1>3, <1>g, KeepIs
  <1> QED
    BY <1>4, <1>g DEF Keeps

LEMMA FdCloseRefines ==
  ASSUME Inv, Inv', NEW p \in Procs, fd_close(p)
  PROVE  Service!Next
  <1>d. PICK d : d = loc[p].req.fd
    OBVIOUS
  <1>q. PICK q : q = loc[p].req
    OBVIOUS
  <1>l. PICK l : l = [loc[p] EXCEPT !.at = IF loc[p].exiting THEN "exit" ELSE "idle", !.req = NoReq]
    OBVIOUS
  <1>1. FieldsOK /\ ProcOK(p) /\ loc[p] \in LocType /\ NoReq \in ReqType
    BY Constants DEF Inv, FieldsOK
  <1>2. /\ status[p] = "LIVE" /\ loc[p].at = "unmap" /\ fdpage' = [fdpage EXCEPT ![p][d] = NULL]
        /\ loc' = [loc EXCEPT ![p] = l] /\ UNCHANGED <<status, parent, page, killed, srv, opentab, size>>
    BY <1>1, <1>d, <1>l DEF fd_close, UnchangedServer, FieldsOK
  <1>3. d \in Fds /\ q.op = "close" /\ q.fd = d
    BY <1>1, <1>2, <1>d, <1>q DEF ProcOK
  <1>4. l \in LocType /\ l.at \in {"idle", "exit"} /\ l.req = NoReq
    BY <1>1, <1>l DEF LocType
  <1>5. loc'[p] = l /\ \A r \in Procs : r # p => loc'[r] = loc[r]
    BY <1>1, <1>2, <1>4, LocIs
  <1>6. /\ fdpage'[p][d] = NULL /\ \A k \in Fds : k # d => fdpage'[p][k] = fdpage[p][k]
        /\ \A r \in Procs : r # p => fdpage'[r] = fdpage[r]
    BY ZenonT(30), <1>1, <1>2, <1>3, FdIs
  <1>7. Moves(p)
    BY <1>2, <1>5, <1>6 DEF Moves
  <1>8. ~Serves(p)
    BY <1>2, NotServing
  <1>9. CallsOf[p] = [req |-> q, done |-> TRUE, r |-> 0]
    <2>1. CallOK(p) /\ ~Replied(p)
      BY <1>8, CallsAre DEF CallsOK, Replied, Serves
    <2> QED
      BY <1>2, <1>q, <2>1 DEF CallOK, CallsOf
  <1>10. CallsOf' = [CallsOf EXCEPT ![p] = Service!Idle]
    <2>1. CallOK(p)' /\ ~Replied(p)'
      BY <1>2, <1>8, CallsAreNext DEF CallsOK, Replied, Serves
    <2>2. loc'[p].req = NoReq /\ loc'[p].at # "unmap" /\ status'[p] = "LIVE"
      BY <1>2, <1>4, <1>5
    <2>3. AbsCall(p)' = [req |-> NoReq, done |-> FALSE, r |-> 0]
      BY <2>1, <2>2 DEF CallOK
    <2>4. AbsCall(p)' = Service!Idle
      BY <2>3 DEF Service!Idle, Service!NoReq, NoReq
    <2> QED
      BY <1>7, <2>4, CallsStep
  <1>11. FdsOf' = [FdsOf EXCEPT ![p][d] = NULL]
    <2>1. FdsOf' = [r \in Procs |-> [k \in Fds |-> IF r = p /\ k = d THEN NULL ELSE Id(fdpage[r][k])]]
      <3>1. ASSUME NEW r \in Procs, NEW k \in Fds
            PROVE  Id(fdpage[r][k])' = IF r = p /\ k = d THEN NULL ELSE Id(fdpage[r][k])
        BY <1>2, <1>6 DEF Id
      <3> QED
        BY <3>1 DEF FdsOf
    <2>2. [FdsOf EXCEPT ![p][d] = NULL] = [r \in Procs |-> [k \in Fds |-> IF r = p /\ k = d THEN NULL ELSE Id(fdpage[r][k])]]
      BY DEF FdsOf
    <2> QED
      BY <2>1, <2>2
  <1>12. Opened' \subseteq Opened
    <2>1. ASSUME NEW x \in Entries, NEW r \in Procs, NEW k \in Fds, fdpage'[r][k] = x PROVE fdpage[r][k] = x
      BY <1>6, <2>1, Constants
    <2> QED
      BY <1>2, <2>1 DEF Opened
  <1>13. Keeps(Handle)
    BY <1>2, <1>12, KeepsHandle
  <1>14. p \in Live /\ Live' = Live /\ size' = size
    BY <1>2 DEF Live
  <1>c. PICK c : c = CallsOf[p]
    OBVIOUS
  <1>15. c.done /\ c.req = q /\ c.r = 0
    BY <1>9, <1>c
  <1>16. CallsOf[p].done /\ q = CallsOf[p].req /\ 0 = CallsOf[p].r
    BY <1>15, <1>c
  <1> QED
    BY <1>3, <1>10, <1>11, <1>13, <1>14, <1>16, RefineReturn

\* What another process asked is what it asked before.
LEMMA OtherCalls ==
  ASSUME Inv, Inv', NEW q \in Procs, status'[q] = status[q], loc'[q] = loc[q],
         q # srv.whom \/ srv.at \in {"listen", "blocked"}, q # srv'.whom \/ srv'.at \in {"listen", "blocked"}
  PROVE  AbsCall(q)' = AbsCall(q)
  <1>1. CallOK(q) /\ CallOK(q)'
    BY CallsAre, CallsAreNext DEF CallsOK
  <1>2. ~Replied(q) /\ ~Replied(q)' /\ ~(srv.whom = q /\ srv.at \in {"alloc", "handle"})
        /\ ~(srv'.whom = q /\ srv'.at \in {"alloc", "handle"})
    BY DEF Replied
  <1>3. CASE status[q] = "LIVE"
    BY <1>1, <1>2, <1>3 DEF CallOK
  <1>4. CASE status[q] # "LIVE"
    BY <1>1, <1>2, <1>4 DEF CallOK
  <1> QED
    BY <1>3, <1>4

\* The server has taken the request of p.
LEMMA TakenCall ==
  ASSUME Inv, srv.at \in {"alloc", "handle"}
  PROVE  /\ srv.whom \in Procs
         /\ AbsCall(srv.whom) = [req |-> srv.req, done |-> FALSE, r |-> 0]
  <1>p. PICK p : p = srv.whom
    OBVIOUS
  <1>1. p \in Procs /\ CallOK(p) /\ ~Replied(p)
    BY <1>p, CallsAre DEF Inv, ClientOK, CallsOK, Replied
  <1>2. CASE status[p] # "LIVE"
    BY <1>1, <1>2, <1>p DEF CallOK
  <1>3. CASE status[p] = "LIVE"
    <2>1. loc[p].req = srv.req /\ loc[p].at # "unmap"
      BY <1>3, <1>p DEF Inv, ClientOK
    <2> QED
      BY <1>1, <1>3, <1>p, <2>1 DEF CallOK
  <1> QED
    BY <1>1, <1>2, <1>3, <1>p

LEMMA DestroyRefines ==
  ASSUME Inv, Inv', NEW p \in Procs, env_destroy(p)
  PROVE  Service!Next
  <1>1. status[p] = "LIVE" /\ Dies(p) /\ killed \subseteq killed'
    BY DEF env_destroy
  <1> QED
    BY <1>1, DiesRefines

\* A step of p within a call, or between two.
LEMMA PlaceRefines ==
  ASSUME Inv, Inv', NEW p \in Procs, status[p] = "LIVE", NEW l \in LocType, loc' = [loc EXCEPT ![p] = l],
         l.req = loc[p].req, l.at # "unmap", loc[p].at # "unmap",
         UNCHANGED <<status, parent, fdpage, page, killed, srv, opentab, size>>
  PROVE  UNCHANGED Service!sVars
  <1>1. loc'[p] = l /\ \A q \in Procs : q # p => loc'[q] = loc[q]
    BY LocIs DEF Inv
  <1>2. Moves(p)
    BY <1>1 DEF Moves
  <1>3. CallOK(p) /\ CallOK(p)'
    BY CallsAre, CallsAreNext DEF CallsOK
  <1>4. AbsCall(p)' = AbsCall(p)
    <2>1. CASE Replied(p)
      BY <1>1, <1>3, <2>1 DEF CallOK, Replied
    <2>2. CASE ~Replied(p)
      BY <1>1, <1>3, <2>2 DEF CallOK, Replied
    <2> QED
      BY <2>1, <2>2
  <1>5. CallsOf' = CallsOf
    BY <1>2, <1>4, CallsStep DEF CallsOf
  <1>6. UNCHANGED <<Live, Ids, Handle, FdsOf>>
    BY QuietStep
  <1> QED
    BY <1>5, <1>6, RefineStutter

LEMMA ExitRefines ==
  ASSUME Inv, Inv', NEW p \in Procs, exit(p)
  PROVE  UNCHANGED Service!sVars
  <1>l. PICK l : l = [loc[p] EXCEPT !.at = "exit", !.exiting = TRUE]
    OBVIOUS
  <1>1. /\ status[p] = "LIVE" /\ loc[p].at = "idle" /\ loc' = [loc EXCEPT ![p] = l]
        /\ UNCHANGED <<status, parent, fdpage, page, killed, srv, opentab, size>>
    BY <1>l DEF exit, UnchangedServer, Inv, FieldsOK
  <1>2. loc[p] \in LocType
    BY DEF Inv, FieldsOK
  <1>3. l \in LocType /\ l.at = "exit" /\ l.req = loc[p].req
    BY <1>2, <1>l DEF LocType
  <1> QED
    BY <1>1, <1>3, PlaceRefines

LEMMA RecvRefines ==
  ASSUME Inv, Inv', NEW p \in Procs, ipc_recv(p)
  PROVE  UNCHANGED Service!sVars
  <1>l. PICK l : l = [loc[p] EXCEPT !.at = "blocked"]
    OBVIOUS
  <1>1. /\ status[p] = "LIVE" /\ loc[p].at = "recv" /\ loc' = [loc EXCEPT ![p] = l]
        /\ UNCHANGED <<status, parent, fdpage, page, killed, srv, opentab, size>>
    BY <1>l DEF ipc_recv, UnchangedServer, Inv, FieldsOK
  <1>2. loc[p] \in LocType
    BY DEF Inv, FieldsOK
  <1>3. l \in LocType /\ l.at = "blocked" /\ l.req = loc[p].req
    BY <1>2, <1>l DEF LocType
  <1> QED
    BY <1>1, <1>3, PlaceRefines

\* Steps of the server leave the processes and what they hold.
LEMMA ServerQuiet ==
  ASSUME Inv, UNCHANGED <<status, fdpage>>, \A e \in Entries : Held(e) => page'[e].id = page[e].id
  PROVE  Live' = Live /\ FdsOf' = FdsOf
  <1>1. ASSUME NEW q \in Procs, NEW k \in Fds PROVE Id(fdpage[q][k])' = Id(fdpage[q][k])
    <2>y. PICK y : y = fdpage[q][k]
      OBVIOUS
    <2>1. y \in Entries \cup {NULL}
      BY <2>y DEF Inv, FieldsOK
    <2>2. CASE y = NULL
      BY <2>2, <2>y DEF Id
    <2>3. CASE y \in Entries
      <3>1. Held(y)
        BY <2>y DEF Held
      <3>2. page'[y].id = page[y].id
        BY <2>3, <3>1
      <3> QED
        BY <3>2, <2>y DEF Id
    <2> QED
      BY <2>1, <2>2, <2>3
  <1> QED
    BY <1>1 DEF Live, FdsOf

LEMMA ServerCalls ==
  ASSUME Inv, Inv', NEW c \in Procs, c = srv.whom, srv'.whom = c, status' = status,
         \A q \in Procs : q # c => loc'[q] = loc[q]
  PROVE  CallsOf' = [CallsOf EXCEPT ![c] = AbsCall(c)']
  <1>1. ASSUME NEW q \in Procs, q # c PROVE AbsCall(q)' = AbsCall(q)
    BY <1>1, OtherCalls
  <1> QED
    BY <1>1 DEF CallsOf

LEMMA SendRefines ==
  ASSUME Inv, Inv', NEW p \in Procs, ipc_send(p)
  PROVE  Service!Next \/ UNCHANGED Service!sVars
  <1>1. status[p] = "LIVE" /\ loc[p].at = "send"
    BY DEF ipc_send
  <1>2. CASE srv.at = "panic" /\ Dies(p) /\ UNCHANGED killed
    BY <1>1, <1>2, DiesRefines
  <1>3. CASE /\ srv.at = "blocked"
             /\ srv' = [srv EXCEPT !.at = IF loc[p].req.op = "open" THEN "alloc" ELSE "handle", !.whom = p,
                                   !.req = loc[p].req, !.i = 0, !.pg = NULL]
             /\ loc' = [loc EXCEPT ![p].at = "recv"]
             /\ UNCHANGED <<status, parent, fdpage, page, killed, opentab, size>>
    <2>l. PICK l : l = [loc[p] EXCEPT !.at = "recv"]
      OBVIOUS
    <2>1. FieldsOK /\ loc[p] \in LocType /\ srv \in SrvType
      BY DEF Inv, FieldsOK
    <2>2. l \in LocType /\ l.at = "recv" /\ l.req = loc[p].req
      BY <2>1, <2>l DEF LocType
    <2>3. loc' = [loc EXCEPT ![p] = l]
      BY <1>3, <2>1, <2>l DEF FieldsOK
    <2>4. loc'[p] = l /\ \A q \in Procs : q # p => loc'[q] = loc[q]
      BY <2>1, <2>2, <2>3, LocIs
    <2>5. srv'.at \in {"alloc", "handle"} /\ srv'.whom = p
      BY <1>3, <2>1 DEF SrvType
    <2>6. CallOK(p) /\ CallOK(p)'
      BY CallsAre, CallsAreNext DEF CallsOK
    <2>7. AbsCall(p) = [req |-> loc[p].req, done |-> FALSE, r |-> 0]
      BY <1>1, <1>3, <2>6 DEF CallOK, Replied
    <2>8. AbsCall(p)' = [req |-> loc[p].req, done |-> FALSE, r |-> 0]
      <3>1. ~Replied(p)' /\ loc'[p].at # "unmap" /\ loc'[p].req = loc[p].req /\ status'[p] = "LIVE"
        BY <1>1, <1>3, <2>2, <2>4, <2>5 DEF Replied
      <3> QED
        BY <2>6, <3>1 DEF CallOK
    <2>9. ASSUME NEW q \in Procs, q # p PROVE AbsCall(q)' = AbsCall(q)
      BY <1>3, <2>4, <2>5, <2>9, OtherCalls
    <2>10. CallsOf' = CallsOf
      BY <2>7, <2>8, <2>9 DEF CallsOf
    <2>11. Opened' = Opened
      BY <1>3, <2>5 DEF Opened
    <2>12. Live' = Live /\ Handle' = Handle /\ FdsOf' = FdsOf
      BY <1>3, <2>11 DEF Live, Handle, Ids, FdsOf, Id
    <2> QED
      BY <1>3, <2>10, <2>12, RefineStutter
  <1> QED
    BY <1>2, <1>3 DEF ipc_send

LEMMA ListenRefines ==
  ASSUME Inv, Inv', listen
  PROVE  UNCHANGED Service!sVars
  <1>1. /\ srv.at = "listen" /\ UNCHANGED <<fdpage, loc, opentab, page, size, status, parent, killed>>
        /\ srv' = [srv EXCEPT !.at = "blocked", !.whom = NULL, !.req = NoReq, !.i = 0, !.r = 0, !.pg = NULL]
    BY DEF listen, UnchangedClients
  <1>2. srv'.at = "blocked"
    BY <1>1 DEF Inv, FieldsOK, SrvType
  <1>3. \A q \in Procs : AbsCall(q)' = AbsCall(q)
    BY <1>1, <1>2, OtherCalls
  <1>4. CallsOf' = CallsOf
    BY <1>3 DEF CallsOf
  <1>5. Opened' = Opened
    BY <1>1, <1>2 DEF Opened
  <1>6. Live' = Live /\ Handle' = Handle /\ FdsOf' = FdsOf
    BY <1>1, <1>5 DEF Live, Handle, Ids, FdsOf, Id
  <1> QED
    BY <1>1, <1>4, <1>6, RefineStutter

LEMMA DoneOf ==
  ASSUME NEW a, NEW v, NEW c, c = [req |-> a, done |-> FALSE, r |-> 0]
  PROVE  [c EXCEPT !.done = TRUE, !.r = v] = [req |-> a, done |-> TRUE, r |-> v]
  <1>g. PICK g : g = [c EXCEPT !.done = TRUE, !.r = v]
    OBVIOUS
  <1>k. PICK k : k = [req |-> a, done |-> TRUE, r |-> v]
    OBVIOUS
  <1>1. DOMAIN c = {"req", "done", "r"} /\ c.req = a
    OBVIOUS
  <1>2. DOMAIN g = {"req", "done", "r"} /\ g.req = a /\ g.done = TRUE /\ g.r = v /\ g = [x \in DOMAIN g |-> g[x]]
    BY <1>1, <1>g
  <1>3. DOMAIN k = {"req", "done", "r"} /\ k.req = a /\ k.done = TRUE /\ k.r = v /\ k = [x \in DOMAIN k |-> k[x]]
    BY <1>k
  <1>4. g = k
    BY ZenonT(30), <1>2, <1>3
  <1> QED
    BY <1>4, <1>g, <1>k

\* The server makes its answer: the call of its client takes place.
LEMMA AnswersCall ==
  ASSUME Inv, Inv', srv.at \in {"alloc", "handle"}, NEW c \in Procs, c = srv.whom,
         srv'.at = "reply", srv'.whom = c, UNCHANGED <<status, loc>>,
         NEW v, v = IF srv'.pg = NULL THEN srv'.r ELSE page'[srv'.pg].id
  PROVE  CallsOf[c] = [req |-> srv.req, done |-> FALSE, r |-> 0] /\ Does(c, v)
  <1>1. AbsCall(c) = [req |-> srv.req, done |-> FALSE, r |-> 0]
    BY TakenCall
  <1>2. CallsOf' = [CallsOf EXCEPT ![c] = AbsCall(c)']
    BY ServerCalls
  <1>3. CallOK(c)' /\ Replied(c)'
    BY CallsAreNext DEF CallsOK, Replied
  <1>4. CASE c \in Live
    <2>1. status[c] = "LIVE"
      BY <1>4 DEF Live
    <2>2. loc[c].req = srv.req
      BY <2>1 DEF Inv, ClientOK
    <2>3. AbsCall(c)' = [req |-> srv.req, done |-> TRUE, r |-> v]
      BY <1>3, <2>1, <2>2 DEF CallOK
    <2>x. PICK x : x = CallsOf[c]
      OBVIOUS
    <2>4. x = [req |-> srv.req, done |-> FALSE, r |-> 0]
      BY <1>1, <2>x DEF CallsOf
    <2>5. [x EXCEPT !.done = TRUE, !.r = v] = [req |-> srv.req, done |-> TRUE, r |-> v]
      BY <2>4, DoneOf
    <2>6. [CallsOf[c] EXCEPT !.done = TRUE, !.r = v] = AbsCall(c)'
      BY <2>3, <2>5, <2>x
    <2> QED
      BY <1>1, <1>2, <1>4, <2>6 DEF Does, CallsOf
  <1>5. CASE c \notin Live
    <2>1. AbsCall(c)' = Service!Idle
      BY <1>3, <1>5 DEF CallOK, Live
    <2> QED
      BY <1>1, <1>2, <1>5, <2>1 DEF Does, CallsOf
  <1> QED
    BY <1>4, <1>5

\* The server goes on with the request that it has.
LEMMA TakenStays ==
  ASSUME Inv, Inv', srv.at \in {"alloc", "handle"}, srv'.at \in {"alloc", "handle"},
         srv'.whom = srv.whom, srv'.req = srv.req, UNCHANGED <<status, loc>>
  PROVE  CallsOf' = CallsOf
  <1>c. PICK c : c = srv.whom
    OBVIOUS
  <1>1. c \in Procs /\ AbsCall(c) = [req |-> srv.req, done |-> FALSE, r |-> 0]
    BY <1>c, TakenCall
  <1>2. CallOK(c)' /\ ~Replied(c)'
    BY <1>1, CallsAreNext DEF CallsOK, Replied
  <1>3. AbsCall(c)' = AbsCall(c)
    <2>1. CASE status[c] = "LIVE"
      <3>1. loc[c].req = srv.req /\ loc[c].at # "unmap"
        BY <1>c, <2>1 DEF Inv, ClientOK
      <3> QED
        BY <1>1, <1>2, <2>1, <3>1 DEF CallOK
    <2>2. CASE status[c] # "LIVE"
      BY <1>1, <1>2, <1>c, <2>2 DEF CallOK
    <2> QED
      BY <2>1, <2>2
  <1>4. CallsOf' = [CallsOf EXCEPT ![c] = AbsCall(c)']
    BY <1>1, <1>c, ServerCalls
  <1> QED
    BY <1>3, <1>4 DEF CallsOf

\* An answer that says that the call was not done.
LEMMA FailureRefines ==
  ASSUME Inv, Inv', srv.at \in {"alloc", "handle"}, srv.pg = NULL, NEW r, srv' = [srv EXCEPT !.at = "reply", !.r = r],
         UNCHANGED <<status, loc, fdpage, size, opentab, page>>,
         \/ r = E_NO /\ srv.req.op \in {"open", "read"}
         \/ status[srv.whom] # "LIVE"
  PROVE  Service!Next
  <1>c. PICK c : c = srv.whom
    OBVIOUS
  <1>q. PICK q : q = srv.req
    OBVIOUS
  <1>1. c \in Procs /\ q.op # "none"
    BY <1>c, <1>q DEF Inv, ClientOK
  <1>2. srv \in SrvType
    BY DEF Inv, FieldsOK
  <1>3. srv'.at = "reply" /\ srv'.whom = c /\ srv'.pg = NULL /\ srv'.r = r
    BY <1>2, <1>c DEF SrvType
  <1>4. CallsOf[c] = [req |-> q, done |-> FALSE, r |-> 0] /\ Does(c, r)
    BY <1>1, <1>c, <1>q, <1>3, AnswersCall
  <1>5. CallsOf[c].req = q /\ ~CallsOf[c].done
    BY <1>4
  <1>6. Opened' \subseteq Opened
    BY <1>3, Constants DEF Opened
  <1>7. Keeps(Handle)
    BY <1>6, KeepsHandle
  <1>8. UNCHANGED <<Live, size, FdsOf>>
    BY ServerQuiet
  <1>9. Does(c, E_NO)
    BY <1>4, <1>c DEF Does, Live
  <1>10. q.op \in {"open", "read"} \/ c \notin Live
    BY <1>c, <1>q DEF Live
  <1> QED
    BY <1>1, <1>5, <1>7, <1>8, <1>9, <1>10, RefineFails

LEMMA AllocRefines ==
  ASSUME Inv, Inv', openfile_alloc
  PROVE  Service!Next \/ UNCHANGED Service!sVars
  <1>e. PICK e : e = srv.i
    OBVIOUS
  <1>1. srv.at = "alloc" /\ UNCHANGED <<fdpage, loc, size, status, parent, killed>>
    BY DEF openfile_alloc, UnchangedClients
  <1>2. FieldsOK /\ srv \in SrvType /\ e \in 0..MAXOPEN
    BY <1>e DEF Inv, FieldsOK, SrvType
  <1>3. srv.req.op = "open" /\ srv.pg = NULL
    BY <1>1 DEF Inv, ResultOK
  <1>4. CASE srv' = [srv EXCEPT !.at = "reply", !.r = E_NO] /\ UNCHANGED <<opentab, page>>
    BY <1>1, <1>3, <1>4, FailureRefines
  <1>5. CASE e < MAXOPEN /\ srv' = [srv EXCEPT !.i = @ + 1] /\ UNCHANGED <<opentab, page>>
    <2>1. srv'.at = "alloc" /\ srv'.whom = srv.whom /\ srv'.req = srv.req
      BY <1>1, <1>2, <1>5 DEF SrvType
    <2>2. CallsOf' = CallsOf
      BY <1>1, <2>1, TakenStays
    <2>3. Opened' = Opened
      BY <1>1, <2>1 DEF Opened
    <2>4. Live' = Live /\ Handle' = Handle /\ FdsOf' = FdsOf
      BY <1>1, <1>5, <2>3 DEF Live, Handle, Ids, FdsOf, Id
    <2> QED
      BY <1>1, <2>2, <2>4, RefineStutter
  <1>6. CASE /\ e < MAXOPEN /\ Available(e) /\ srv' = [srv EXCEPT !.at = "handle"]
             /\ opentab' = [opentab EXCEPT ![e].fileid = @ + MAXOPEN]
             /\ page' = [page EXCEPT ![e] = [there |-> TRUE, id |-> 0, off |-> 0]]
    <2>1. srv'.at = "handle" /\ srv'.whom = srv.whom /\ srv'.req = srv.req
      BY <1>1, <1>2, <1>6 DEF SrvType
    <2>2. CallsOf' = CallsOf
      BY <1>1, <2>1, TakenStays
    <2>3. e \in Entries
      BY <1>2, <1>6, Constants DEF Entries
    <2>4. EntryOK(e)
      BY <2>3 DEF Inv
    <2>5. ~Held(e)
      BY <1>6, <2>3, <2>4, CountTells DEF EntryOK, Given
    <2>6. \A x \in Entries : x # e => opentab'[x] = opentab[x] /\ page'[x] = page[x]
      BY <1>2, <1>6 DEF FieldsOK
    <2>7. Opened' = Opened
      BY <1>1, <2>1 DEF Opened
    <2>8. \A x \in Opened : x \in Entries /\ x # e
      BY <1>1, <2>5 DEF Opened, Held
    <2>9. Ids' = Ids
      BY <2>6, <2>7, <2>8 DEF Ids
    <2>10. \A x \in Ids : x % MAXOPEN \in Opened
      BY ReferredAre DEF ReferredOK
    <2>11. Handle' = Handle
      BY <2>6, <2>8, <2>9, <2>10 DEF Handle
    <2>12. Live' = Live /\ FdsOf' = FdsOf
      <3>1. \A x \in Entries : Held(x) => page'[x].id = page[x].id
        BY <2>5, <2>6
      <3> QED
        BY <1>1, <3>1, ServerQuiet
    <2> QED
      BY <1>1, <2>2, <2>11, <2>12, RefineStutter
  <1>7. \/ srv' = [srv EXCEPT !.at = "reply", !.r = E_NO] /\ UNCHANGED <<opentab, page>>
        \/ e < MAXOPEN /\ srv' = [srv EXCEPT !.i = @ + 1] /\ UNCHANGED <<opentab, page>>
        \/ /\ e < MAXOPEN /\ Available(e) /\ srv' = [srv EXCEPT !.at = "handle"]
           /\ opentab' = [opentab EXCEPT ![e].fileid = @ + MAXOPEN]
           /\ page' = [page EXCEPT ![e] = [there |-> TRUE, id |-> 0, off |-> 0]]
    BY <1>e DEF openfile_alloc, Answer
  <1> QED
    BY <1>4, <1>5, <1>6, <1>7

LEMMA OpenServedRefines ==
  ASSUME Inv, Inv', serve_open
  PROVE  Service!Next
  <1>e. PICK e : e = srv.i
    OBVIOUS
  <1>q. PICK q : q = srv.req
    OBVIOUS
  <1>f. PICK f : f = q.f
    OBVIOUS
  <1>c. PICK c : c = srv.whom
    OBVIOUS
  <1>h. PICK h : h = opentab[e].fileid
    OBVIOUS
  <1>1. srv.at = "handle" /\ q.op = "open" /\ UNCHANGED <<fdpage, loc, status, parent, killed>>
    BY <1>q DEF serve_open, UnchangedClients
  <1>2. FieldsOK /\ ResultOK /\ srv \in SrvType /\ c \in Procs
    BY <1>1, <1>c DEF Inv, FieldsOK, ClientOK
  <1>3. /\ e \in Entries /\ ~Held(e) /\ page[e].there /\ page[e].off = 0 /\ h >= MAXOPEN
        /\ f \in Files /\ srv.pg = NULL
    BY <1>1, <1>2, <1>e, <1>f, <1>h, <1>q DEF ResultOK
  <1>4. CASE srv' = [srv EXCEPT !.at = "reply", !.r = E_NO] /\ UNCHANGED <<size, opentab, page>>
    BY <1>1, <1>3, <1>4, <1>q, FailureRefines
  <1>5. CASE /\ IF size[f] # ABSENT THEN "creat" \notin q.flags \/ "excl" \notin q.flags ELSE "creat" \in q.flags
             /\ size' = [size EXCEPT ![f] = IF size[f] # ABSENT /\ "trunc" \notin q.flags THEN @ ELSE 0]
             /\ opentab' = [opentab EXCEPT ![e].file = f]
             /\ page' = [page EXCEPT ![e].id = opentab[e].fileid]
             /\ srv' = [srv EXCEPT !.at = "reply", !.r = 0, !.pg = e]
    <2>1. srv'.at = "reply" /\ srv'.whom = c /\ srv'.pg = e /\ e # NULL
      BY <1>2, <1>3, <1>5, <1>c, Constants DEF SrvType
    <2>2. /\ opentab'[e].file = f /\ page'[e].id = h /\ page'[e].off = 0
          /\ \A y \in Entries : y # e => opentab'[y] = opentab[y] /\ page'[y] = page[y]
      BY <1>2, <1>3, <1>5, <1>h DEF FieldsOK
    <2>3. h \in FileIds /\ h % MAXOPEN = e /\ h # NULL /\ h # 0 /\ h # E_NO
      <3>1. h \in FileIds
        BY <1>2, <1>3, <1>h DEF FieldsOK
      <3>2. h % MAXOPEN = e
        BY <1>3, <1>h DEF Inv, EntryOK
      <3>3. h \in Nat /\ MAXOPEN \in Nat /\ MAXOPEN > 0 /\ E_NO = -1
        BY <3>1, Constants
      <3>4. h # NULL
        BY <3>1, Constants
      <3> QED
        BY <1>3, <3>1, <3>2, <3>3, <3>4
    <2>4. CallsOf[c] = [req |-> q, done |-> FALSE, r |-> 0] /\ Does(c, h)
      BY <1>1, <1>2, <1>c, <1>q, <2>1, <2>2, AnswersCall
    <2>5. CallsOf[c].req = q /\ ~CallsOf[c].done
      BY <2>4
    <2>6. e \notin Opened /\ Opened' \subseteq Opened \cup {e}
      BY <1>1, <1>3, <2>1 DEF Opened, Held
    <2>7. ReferredOK
      BY ReferredAre
    <2>8. h \notin Ids /\ h \notin Referred
      BY <2>3, <2>6, <2>7 DEF ReferredOK
    <2>g. PICK g : g = [x \in Ids \cup {h} |-> IF x = h THEN [file |-> f, off |-> 0] ELSE Handle[x]]
      OBVIOUS
    <2>9. ASSUME NEW x \in Ids' PROVE x \in Ids \cup {h} /\ g[x] = Handle'[x]
      <3>1. PICK y \in Opened' : x = page'[y].id
        BY DEF Ids
      <3>2. Handle'[x] = [file |-> opentab'[x % MAXOPEN].file, off |-> page'[x % MAXOPEN].off]
        BY DEF Handle
      <3>3. CASE y = e
        <4>1. x = h
          BY <2>2, <3>1, <3>3
        <4> QED
          BY <2>2, <2>3, <2>g, <3>2, <4>1
      <3>4. CASE y # e
        <4>1. y \in Opened /\ y \in Entries
          BY <2>6, <3>1, <3>4 DEF Opened
        <4>2. x = page[y].id /\ x \in Ids
          BY <2>2, <3>1, <3>4, <4>1 DEF Ids
        <4>3. x % MAXOPEN = y
          BY <4>1, <4>2, OpenedAre DEF AllOpenedOK, OpenedOK
        <4>4. x # h
          BY <2>8, <4>2
        <4>5. Handle[x] = [file |-> opentab[x % MAXOPEN].file, off |-> page[x % MAXOPEN].off]
          BY <4>2 DEF Handle
        <4> QED
          BY <2>2, <2>g, <3>2, <3>4, <4>1, <4>2, <4>3, <4>4, <4>5
      <3> QED
        BY <3>3, <3>4
    <2>10. DOMAIN g = Ids \cup {h} /\ NULL \notin DOMAIN g /\ 0 \notin DOMAIN g /\ E_NO \notin DOMAIN g
      BY <2>3, <2>7, <2>g DEF ReferredOK
    <2>11. Keeps(g)
      BY <2>9, <2>10, KeepIs
    <2>12. Keeps([x \in Ids \cup {h} |-> IF x = h THEN [file |-> q.f, off |-> 0] ELSE Handle[x]])
      BY <1>f, <2>11, <2>g
    <2>13. UNCHANGED <<Live, FdsOf>>
      <3>1. \A x \in Entries : Held(x) => page'[x].id = page[x].id
        BY <1>3, <2>2
      <3> QED
        BY <1>1, <3>1, ServerQuiet
    <2>14. IF size[q.f] # ABSENT THEN ~({"creat", "excl"} \subseteq q.flags) ELSE "creat" \in q.flags
      BY <1>5, <1>f
    <2>15. size' = [size EXCEPT ![q.f] = IF size[q.f] # ABSENT THEN (IF "trunc" \in q.flags THEN 0 ELSE @) ELSE 0]
      BY <1>2, <1>3, <1>5, <1>f DEF FieldsOK
    <2>16. h \in FileIds \ Referred
      BY <2>3, <2>8
    <2> QED
      BY <1>1, <1>2, <2>4, <2>5, <2>12, <2>13, <2>14, <2>15, <2>16, RefineOpen
  <1> QED
    BY <1>4, <1>5, <1>e, <1>f, <1>q DEF serve_open, Answer

LEMMA HandleRefines ==
  ASSUME Inv, Inv', handle
  PROVE  Service!Next
  <1>q. PICK q : q = srv.req
    OBVIOUS
  <1>h. PICK h : h = q.h
    OBVIOUS
  <1>e. PICK e : e = h % MAXOPEN
    OBVIOUS
  <1>f. PICK f : f = opentab[e].file
    OBVIOUS
  <1>off. PICK off : off = page[e].off
    OBVIOUS
  <1>c. PICK c : c = srv.whom
    OBVIOUS
  <1>1. srv.at = "handle" /\ q.op # "open" /\ UNCHANGED <<fdpage, loc, status, parent, killed, opentab>>
    BY <1>q DEF handle, UnchangedClients
  <1>2. FieldsOK /\ ResultOK /\ srv \in SrvType /\ srv.pg = NULL /\ h \in FileIds /\ c \in Procs /\ q.op # "none"
    BY <1>1, <1>c, <1>h, <1>q DEF Inv, FieldsOK, ResultOK, ClientOK
  <1>3. e \in Entries
    BY <1>2, <1>e, Constants, NextNumber DEF Entries
  <1>4. CASE ~Found(e, h) /\ srv' = [srv EXCEPT !.at = "reply", !.r = E_INVAL] /\ UNCHANGED <<size, page>>
    <2>1. status[srv.whom] # "LIVE"
      BY <1>1, <1>3, <1>4, <1>e, <1>h, <1>q, FoundIs, RequestFound
    <2> QED
      BY <1>1, <1>2, <1>4, <2>1, FailureRefines
  <1>5. CASE Found(e, h)
    <2>n. PICK n : n = q.n
      OBVIOUS
    <2>1. n \in Nat /\ off \in Nat /\ f \in Files /\ Held(e) /\ page[e].id = h
      BY <1>2, <1>3, <1>5, <1>f, <1>off, <1>q, <2>n, FoundIs DEF SrvType, ReqType
    <2>2. e \in Opened /\ h \in Ids
      BY <1>3, <2>1 DEF Opened, Held, Ids
    <2>3. Handle[h].file = f /\ Handle[h].off = off
      BY <1>e, <1>f, <1>off, <2>2 DEF Handle
    <2>got. PICK got : got = IF off >= size[f] THEN 0 ELSE IF n < size[f] - off THEN n ELSE size[f] - off
      OBVIOUS
    <2>grown. PICK grown : grown = IF off + n > size[f] THEN off + n ELSE size[f]
      OBVIOUS
    <2>4. got = IF n < Room(off, f) THEN n ELSE Room(off, f)
      <3>1. size[f] \in Nat \cup {-1}
        BY <1>2, <2>1, RoomIs
      <3> QED
        BY <2>1, <2>got, <3>1 DEF Room
    <2> DEFINE Result(s, o, r) == size' = [size EXCEPT ![f] = s] /\ page' = [page EXCEPT ![e].off = o]
                                  /\ srv' = [srv EXCEPT !.at = "reply", !.r = r]
    <2>5. \/ q.op = "read" /\ Result(size[f], off + got, got)
          \/ q.op = "read" /\ Result(size[f], off, E_NO)
          \/ q.op = "write" /\ Result(grown, off + n, n)
          \/ q.op = "write" /\ Result(grown, off, E_NO)
          \/ q.op = "ftruncate" /\ Result(n, off, 0)
          \/ q.op = "fstat" /\ Result(size[f], off, size[f])
          \/ q.op = "close" /\ Result(size[f], off, 0)
      BY <1>5, <1>e, <1>f, <1>h, <1>off, <1>q, <2>n, <2>4, <2>grown DEF handle, Answer
    <2>6. CASE q.op = "read" /\ Result(size[f], off, E_NO)
      <3>1. size' = size /\ page' = page /\ srv' = [srv EXCEPT !.at = "reply", !.r = E_NO]
        BY <1>2, <1>3, <1>off, <2>1, <2>6 DEF FieldsOK
      <3> QED
        BY <1>1, <1>2, <1>q, <2>6, <3>1, FailureRefines
    <2>7. ASSUME NEW s, NEW o, NEW r, Result(s, o, r), Outcome(q, f, off, s, o, r) PROVE Service!Next
      <3>1. srv'.at = "reply" /\ srv'.whom = c /\ srv'.pg = NULL /\ srv'.r = r
        BY <1>2, <1>c, <2>7 DEF SrvType
      <3>2. /\ \A y \in Entries : page'[y].id = page[y].id
            /\ page'[e].off = o /\ \A y \in Entries : y # e => page'[y] = page[y]
        BY <1>2, <1>3, <2>7 DEF FieldsOK
      <3>3. CallsOf[c] = [req |-> q, done |-> FALSE, r |-> 0] /\ Does(c, r)
        BY <1>1, <1>2, <1>c, <1>q, <3>1, AnswersCall
      <3>4. CallsOf[c].req = q /\ ~CallsOf[c].done
        BY <3>3
      <3>5. Opened' = Opened
        BY <1>1, <3>1, Constants DEF Opened
      <3>6. Ids' = Ids
        BY <3>2, <3>5 DEF Ids, Opened
      <3>7. ReferredOK
        BY ReferredAre
      <3>g. PICK g : g = [Handle EXCEPT ![h].off = o]
        OBVIOUS
      <3>8. DOMAIN g = Ids
        BY <3>g DEF Handle
      <3>9. ASSUME NEW x \in Ids PROVE g[x] = Handle'[x]
        <4>1. Handle'[x] = [file |-> opentab'[x % MAXOPEN].file, off |-> page'[x % MAXOPEN].off]
          BY <3>6 DEF Handle
        <4>2. CASE x = h
          BY <1>1, <1>e, <1>f, <2>2, <3>2, <3>g, <4>1, <4>2 DEF Handle
        <4>3. CASE x # h
          <5>1. x % MAXOPEN \in Entries /\ x % MAXOPEN # e
            BY <2>1, <3>7, <4>3 DEF ReferredOK, Opened
          <5>2. g[x] = [file |-> opentab[x % MAXOPEN].file, off |-> page[x % MAXOPEN].off]
            BY <3>g, <4>3 DEF Handle
          <5> QED
            BY <1>1, <3>2, <4>1, <5>1, <5>2
        <4> QED
          BY <4>2, <4>3
      <3>10. Keeps(g)
        BY <3>6, <3>7, <3>8, <3>9, KeepIs DEF ReferredOK
      <3>11. Keeps([Handle EXCEPT ![q.h].off = o])
        BY <1>h, <3>10, <3>g
      <3>12. UNCHANGED <<Live, FdsOf>>
        BY <1>1, <3>2, ServerQuiet
      <3>13. q.h \in Ids /\ f = Handle[q.h].file /\ off = Handle[q.h].off
        BY <1>h, <2>2, <2>3
      <3>16. size' = [size EXCEPT ![f] = s]
        BY <2>7
      <3> QED
        BY <1>2, <2>7, <3>3, <3>4, <3>11, <3>12, <3>13, <3>16, RefineAccess
    <2>8. CASE \E s, o, r : Result(s, o, r) /\ Outcome(q, f, off, s, o, r)
      <3> HIDE DEF Result
      <3> QED
        BY <2>7, <2>8
    <2>9. (q.op = "read" /\ Result(size[f], off, E_NO)) \/ \E s, o, r : Result(s, o, r) /\ Outcome(q, f, off, s, o, r)
      <3>1. /\ q.op = "read" => Outcome(q, f, off, size[f], off + got, got)
            /\ q.op = "write" => Outcome(q, f, off, grown, off + n, n) /\ Outcome(q, f, off, grown, off, E_NO)
            /\ q.op = "ftruncate" => Outcome(q, f, off, n, off, 0)
            /\ q.op = "fstat" => Outcome(q, f, off, size[f], off, size[f])
            /\ q.op = "close" => Outcome(q, f, off, size[f], off, 0)
        BY <2>n, <2>got, <2>grown DEF Outcome
      <3> HIDE DEF Result
      <3> QED
        BY <2>5, <3>1
    <2> QED
      BY <2>6, <2>8, <2>9
  <1> QED
    BY <1>4, <1>5, <1>e, <1>h, <1>q DEF handle, Answer

LEMMA PanicRefines ==
  ASSUME Inv, Inv', srv.at = "reply", NEW r, srv' = [srv EXCEPT !.at = "panic", !.r = r],
         UNCHANGED <<fdpage, loc, opentab, page, size, status>>, srv.pg # NULL \/ status[srv.whom] # "LIVE"
  PROVE  UNCHANGED Service!sVars
  <1>c. PICK c : c = srv.whom
    OBVIOUS
  <1>1. srv \in SrvType /\ c \in Procs
    BY <1>c DEF Inv, FieldsOK, ClientOK
  <1>2. srv'.at = "panic" /\ srv'.pg = srv.pg /\ srv'.whom = c
    BY <1>1, <1>c DEF SrvType
  <1>3. CallOK(c) /\ CallOK(c)' /\ Replied(c) /\ Replied(c)'
    BY <1>1, <1>2, <1>c, CallsAre, CallsAreNext DEF CallsOK, Replied
  <1>4. AbsCall(c)' = AbsCall(c)
    <2>1. CASE status[c] = "LIVE"
      BY <1>2, <1>3, <1>c, <2>1 DEF CallOK
    <2>2. CASE status[c] # "LIVE"
      BY <1>2, <1>3, <2>2 DEF CallOK
    <2> QED
      BY <2>1, <2>2
  <1>5. CallsOf' = CallsOf
    <2>1. CallsOf' = [CallsOf EXCEPT ![c] = AbsCall(c)']
      BY <1>1, <1>2, <1>c, ServerCalls
    <2> QED
      BY <1>4, <2>1 DEF CallsOf
  <1>6. Opened' = Opened
    BY <1>2, <1>c DEF Opened
  <1>7. Live' = Live /\ Handle' = Handle /\ FdsOf' = FdsOf
    BY <1>6 DEF Live, Handle, Ids, FdsOf, Id
  <1> QED
    BY <1>5, <1>7, RefineStutter

LEMMA ReplyRefines ==
  ASSUME Inv, Inv', reply
  PROVE  Service!Next \/ UNCHANGED Service!sVars
  <1>c. PICK c : c = srv.whom
    OBVIOUS
  <1>q. PICK q : q = srv.req
    OBVIOUS
  <1>pg. PICK pg : pg = srv.pg
    OBVIOUS
  <1>1. srv.at = "reply" /\ UNCHANGED <<opentab, page, size, status, parent, killed>>
    BY DEF reply, UnchangedClients
  <1>2. FieldsOK /\ ClientOK /\ ResultOK /\ srv \in SrvType /\ c \in Procs
    BY <1>1, <1>c DEF Inv, FieldsOK, ClientOK
  <1>3. CASE status[c] # "LIVE" /\ srv' = [srv EXCEPT !.at = "panic", !.r = E_INVAL] /\ UNCHANGED <<fdpage, loc>>
    BY <1>1, <1>3, <1>c, PanicRefines
  <1>4. CASE /\ status[c] = "LIVE" /\ loc[c].at = "blocked" /\ srv.pg # NULL
             /\ srv' = [srv EXCEPT !.at = "panic", !.r = E_NO] /\ UNCHANGED <<fdpage, loc>>
    BY <1>1, <1>4, PanicRefines
  <1>5. CASE /\ status[c] = "LIVE" /\ loc[c].at = "blocked" /\ srv' = [srv EXCEPT !.at = "listen"]
             /\ fdpage' = IF srv.pg = NULL THEN fdpage ELSE [fdpage EXCEPT ![c][loc[c].req.fd] = srv.pg]
             /\ loc' = [loc EXCEPT ![c] = IF @.req.op = "close" THEN [@ EXCEPT !.at = "unmap"] ELSE AtRest]
    <2>d. PICK d : d = q.fd
      OBVIOUS
    <2>v. PICK v : v = IF pg # NULL THEN page[pg].id ELSE srv.r
      OBVIOUS
    <2>l. PICK l : l = IF loc[c].req.op = "close" THEN [loc[c] EXCEPT !.at = "unmap"] ELSE AtRest
      OBVIOUS
    <2>1. loc[c].req = q /\ q.op # "none" /\ loc[c] \in LocType /\ pg \in Entries \cup {NULL} /\ ProcOK(c)
      BY <1>1, <1>2, <1>5, <1>c, <1>pg, <1>q DEF ClientOK, FieldsOK, SrvType, Inv
    <2>2. d \in Fds /\ fdpage' = IF pg = NULL THEN fdpage ELSE [fdpage EXCEPT ![c][d] = pg]
      BY <1>5, <1>pg, <2>1, <2>d DEF ProcOK
    <2>3. /\ l \in LocType /\ loc' = [loc EXCEPT ![c] = l]
          /\ IF q.op = "close" THEN l.at = "unmap" /\ l.req = q ELSE l.at = "idle" /\ l.req = NoReq
      <3>1. loc' = [loc EXCEPT ![c] = l]
        BY <1>2, <1>5, <2>l DEF FieldsOK
      <3>2. CASE q.op = "close"
        BY <2>1, <2>l, <3>1, <3>2 DEF LocType
      <3>3. CASE q.op # "close"
        BY <2>1, <2>l, <3>1, <3>3, Constants DEF AtRest
      <3> QED
        BY <3>2, <3>3
    <2>4. loc'[c] = l /\ \A p \in Procs : p # c => loc'[p] = loc[p]
      BY <1>2, <2>3, LocIs
    <2>5. srv'.at = "listen" /\ srv'.whom = c /\ srv'.pg = pg
      BY <1>2, <1>5, <1>c, <1>pg DEF SrvType
    <2>6. CallOK(c) /\ CallOK(c)' /\ Replied(c) /\ ~Replied(c)'
      BY <1>1, <1>2, <1>c, <2>5, CallsAre, CallsAreNext DEF CallsOK, Replied
    <2>7. AbsCall(c) = [req |-> q, done |-> TRUE, r |-> v]
      BY <1>5, <1>pg, <2>1, <2>6, <2>v DEF CallOK
    <2>8. CallsOf' = [CallsOf EXCEPT ![c] = AbsCall(c)']
      BY <1>1, <1>2, <1>c, <2>4, <2>5, ServerCalls
    <2>9. AbsCall(c)' = [req |-> l.req, done |-> l.at = "unmap", r |-> 0]
      BY <1>1, <1>5, <2>4, <2>6 DEF CallOK
    <2>10. CASE q.op = "close"
      <3>1. pg = NULL /\ srv.r = 0
        BY <1>1, <1>2, <1>5, <1>c, <1>pg, <1>q, <2>10 DEF ResultOK
      <3>2. AbsCall(c)' = AbsCall(c)
        BY <2>3, <2>7, <2>9, <2>10, <2>v, <3>1
      <3>3. CallsOf' = CallsOf
        BY <2>8, <3>2 DEF CallsOf
      <3>4. fdpage' = fdpage /\ Opened' = Opened
        BY <1>pg, <2>2, <2>5, <3>1, Constants DEF Opened
      <3>5. Live' = Live /\ Handle' = Handle /\ FdsOf' = FdsOf
        BY <1>1, <3>4 DEF Live, Handle, Ids, FdsOf, Id
      <3> QED
        BY <1>1, <3>3, <3>5, RefineStutter
    <2>11. CASE q.op # "close"
      <3>1. AbsCall(c)' = Service!Idle
        <4>1. AbsCall(c)' = [req |-> NoReq, done |-> FALSE, r |-> 0]
          BY <2>3, <2>9, <2>11
        <4> QED
          BY <4>1 DEF Service!Idle, Service!NoReq, NoReq
      <3>2. CallsOf' = [CallsOf EXCEPT ![c] = Service!Idle]
        BY <2>8, <3>1
      <3>x. PICK x : x = CallsOf[c]
        OBVIOUS
      <3>3. x = [req |-> q, done |-> TRUE, r |-> v]
        BY <1>2, <2>7, <3>x DEF CallsOf
      <3>4. CallsOf[c].done /\ q = CallsOf[c].req /\ v = CallsOf[c].r
        BY <3>3, <3>x
      <3>5. c \in Live /\ Live' = Live /\ size' = size
        BY <1>1, <1>2, <1>5 DEF Live
      <3>6. CASE pg = NULL
        <4>1. fdpage' = fdpage /\ Opened' = Opened
          BY <1>pg, <2>2, <2>5, <3>6, Constants DEF Opened
        <4>2. Keeps(Handle)
          BY <1>1, <4>1, KeepsHandle
        <4>3. FdsOf' = FdsOf
          BY <1>1, <4>1 DEF FdsOf, Id
        <4>4. ~(q.op = "open" /\ v # E_NO)
          BY <1>1, <1>2, <1>pg, <1>q, <2>v, <3>6 DEF ResultOK
        <4> QED
          BY <1>2, <2>11, <3>2, <3>4, <3>5, <4>2, <4>3, <4>4, RefineReturn
      <3>7. CASE pg # NULL
        <4>1. q.op = "open" /\ pg \in Entries /\ Given(pg)
          BY <1>1, <1>2, <1>pg, <1>q, <2>1, <3>7 DEF ResultOK
        <4>2. v # E_NO /\ v = page[pg].id
          <5>1. v = page[pg].id /\ v >= MAXOPEN /\ v \in FileIds
            BY <1>2, <2>v, <3>7, <4>1 DEF Given, FieldsOK
          <5>2. v \in Nat /\ E_NO = -1
            BY <5>1, Constants
          <5> QED
            BY <5>1, <5>2
        <4>3. /\ fdpage'[c][d] = pg /\ \A k \in Fds : k # d => fdpage'[c][k] = fdpage[c][k]
              /\ \A p \in Procs : p # c => fdpage'[p] = fdpage[p]
          BY <1>2, <2>2, <3>7, <4>1, FdIs
        <4>4. pg \in Opened
          BY <1>1, <1>5, <1>c, <1>pg, <4>1 DEF Opened
        <4>5. Opened' \subseteq Opened
          <5>1. ASSUME NEW y \in Entries, NEW p \in Procs, NEW k \in Fds, fdpage'[p][k] = y PROVE y \in Opened
            <6>1. CASE p = c /\ k = d
              BY <4>3, <4>4, <5>1, <6>1
            <6>2. CASE ~(p = c /\ k = d)
              <7>1. fdpage[p][k] = y
                BY <4>3, <5>1, <6>2
              <7> QED
                BY <7>1 DEF Opened
            <6> QED
              BY <6>1, <6>2
          <5> QED
            BY <2>5, <5>1 DEF Opened
        <4>6. Keeps(Handle)
          BY <1>1, <4>5, KeepsHandle
        <4>7. FdsOf' = [FdsOf EXCEPT ![c][d] = v]
          <5>1. FdsOf' = [p \in Procs |-> [k \in Fds |-> IF p = c /\ k = d THEN v ELSE Id(fdpage[p][k])]]
            <6>1. ASSUME NEW p \in Procs, NEW k \in Fds
                  PROVE  Id(fdpage[p][k])' = IF p = c /\ k = d THEN v ELSE Id(fdpage[p][k])
              BY <1>1, <3>7, <4>2, <4>3 DEF Id
            <6> QED
              BY <6>1 DEF FdsOf
          <5>2. [FdsOf EXCEPT ![c][d] = v] = [p \in Procs |-> [k \in Fds |-> IF p = c /\ k = d THEN v ELSE Id(fdpage[p][k])]]
            BY DEF FdsOf
          <5> QED
            BY <5>1, <5>2
        <4>8. FdsOf' = [FdsOf EXCEPT ![c][q.fd] = v]
          BY <2>d, <4>7
        <4> QED
          BY <1>2, <3>2, <3>4, <3>5, <4>1, <4>2, <4>6, <4>8, RefineReturn
      <3> QED
        BY <3>6, <3>7
    <2> QED
      BY <2>10, <2>11
  <1> QED
    BY <1>3, <1>4, <1>5, <1>c DEF reply

LEMMA InitRefines == Init => Service!Init
  <1> SUFFICES ASSUME Init PROVE Service!Init
    OBVIOUS
  <1>1. /\ status = [p \in Procs |-> IF p = Root THEN "LIVE" ELSE "UNUSED"]
        /\ fdpage = [p \in Procs |-> [i \in Fds |-> NULL]] /\ loc = [p \in Procs |-> AtRest]
        /\ srv = [at |-> "listen", whom |-> NULL, req |-> NoReq, i |-> 0, r |-> 0, pg |-> NULL] /\ size = Initial
    BY DEF Init
  <1>2. Live = {Root}
    BY <1>1, ProcAssumption DEF Live
  <1>3. FdsOf = [p \in Procs |-> [i \in Fds |-> NULL]]
    <2>1. ASSUME NEW p \in Procs, NEW i \in Fds PROVE Id(fdpage[p][i]) = NULL
      BY <1>1 DEF Id
    <2> QED
      BY <2>1 DEF FdsOf
  <1>4. CallsOf = [p \in Procs |-> Service!Idle]
    <2>1. ASSUME NEW p \in Procs PROVE AbsCall(p) = Service!Idle
      <3>1. CallOK(p) /\ srv.at = "listen" /\ loc[p].req = NoReq /\ loc[p].at = "idle"
        BY <1>1, InvInit, CallsAre DEF CallsOK, AtRest
      <3>2. CASE status[p] = "LIVE"
        <4>1. AbsCall(p) = [req |-> NoReq, done |-> FALSE, r |-> 0]
          BY <3>1, <3>2 DEF CallOK, Replied
        <4> QED
          BY <4>1 DEF Service!Idle, Service!NoReq, NoReq
      <3>3. CASE status[p] # "LIVE"
        BY <3>1, <3>3 DEF CallOK
      <3> QED
        BY <3>2, <3>3
    <2> QED
      BY <2>1 DEF CallsOf
  <1>5. Handle = [x \in {} |-> 0]
    <2>1. Opened = {}
      BY <1>1, Constants DEF Opened
    <2> QED
      BY <2>1 DEF Handle, Ids
  <1> QED
    BY <1>1, <1>2, <1>3, <1>4, <1>5 DEF Service!Init, Live, FdsOf, CallsOf, Handle, Ids

LEMMA CallRefines ==
  ASSUME Inv, Inv', NEW p \in Procs, Call(p)
  PROVE  Service!Next
  <1>1. Counts \subseteq Nat /\ 0 \in Nat
    BY NumAssumption
  <1>2. CASE \E f \in Files, flags \in Modes : open(p, f, flags)
    BY <1>2, OpenRefines
  <1>3. CASE \E i \in Fds : devfile(p, i, "fstat", 0) \/ devfile(p, i, "close", 0)
    <2>1. "fstat" \in Ops \ {"open"} /\ "close" \in Ops \ {"open"}
      BY DEF Ops
    <2> QED
      BY <1>1, <1>3, <2>1, DevfileRefines
  <1>4. CASE \E i \in Fds, n \in Counts, op \in {"read", "write", "ftruncate"} : devfile(p, i, op, n)
    <2>1. PICK i \in Fds, n \in Counts, op \in {"read", "write", "ftruncate"} : devfile(p, i, op, n)
      BY <1>4
    <2>2. op \in Ops \ {"open"} /\ n \in Nat
      BY <1>1 DEF Ops
    <2> QED
      BY <2>1, <2>2, DevfileRefines
  <1>5. CASE \E i \in Fds, n \in Counts : seek(p, i, n)
    BY <1>1, <1>5, SeekRefines
  <1>6. CASE \E i, j \in Fds : dup(p, i, j)
    BY <1>6, DupRefines
  <1>7. CASE \E c \in Procs : fork(p, c)
    BY <1>7, ForkRefines
  <1> QED
    BY <1>2, <1>3, <1>4, <1>5, <1>6, <1>7 DEF Call

LEMMA StepRefines == Inv /\ Inv' /\ [Next]_vars => Service!Next \/ UNCHANGED Service!sVars
  <1> SUFFICES ASSUME Inv, Inv', [Next]_vars PROVE Service!Next \/ UNCHANGED Service!sVars
    OBVIOUS
  <1>1. CASE serve
    <2>1. CASE listen
      BY <2>1, ListenRefines
    <2>2. CASE openfile_alloc
      BY <2>2, AllocRefines
    <2>3. CASE serve_open
      BY <2>3, OpenServedRefines
    <2>4. CASE handle
      BY <2>4, HandleRefines
    <2>5. CASE reply
      BY <2>5, ReplyRefines
    <2> QED
      BY <1>1, <2>1, <2>2, <2>3, <2>4, <2>5 DEF serve
  <1>2. ASSUME NEW p \in Procs, Call(p) PROVE Service!Next
    BY <1>2, CallRefines
  <1>3. ASSUME NEW p \in Procs, Leave(p) PROVE Service!Next \/ UNCHANGED Service!sVars
    BY <1>3, ExitRefines, DestroyRefines DEF Leave
  <1>4. ASSUME NEW p \in Procs, Continue(p) PROVE Service!Next \/ UNCHANGED Service!sVars
    BY <1>4, CloseAllRefines, SendRefines, RecvRefines, FdCloseRefines DEF Continue
  <1>5. CASE UNCHANGED vars
    <2>1. CallsOf' = CallsOf
      BY <1>5 DEF vars, CallsOf, AbsCall, Request_, Pending, Id
    <2>2. Opened' = Opened
      BY <1>5 DEF vars, Opened
    <2>3. Live' = Live /\ Handle' = Handle /\ FdsOf' = FdsOf
      BY <1>5, <2>2 DEF vars, Live, Handle, Ids, FdsOf, Id
    <2> QED
      BY <1>5, <2>1, <2>3, RefineStutter DEF vars
  <1> QED
    BY <1>1, <1>2, <1>3, <1>4, <1>5 DEF Next

\* The open-file table without a list of holders, the file numbers that tell
\* one use of an entry from the next, and the exchanges by ipc_send and
\* ipc_recv (serv.c:61-97, 331-365, file.c:20-50) give every process the file
\* service of FileService: each of its calls happens once, on the file that it
\* opened and at the offset that it shares, whatever the others do meanwhile,
\* processes that are destroyed in the middle of a call among them.
THEOREM FileServerImplementsFileService == Spec => ImplementsFileService
  <1>1. Spec => []Inv
    BY InvInit, Invariance, PTL DEF Spec
  <1>2. Inv /\ Inv' /\ [Next]_vars => [Service!Next]_(Service!sVars)
    BY StepRefines
  <1>3. Spec => Service!Init /\ [][Service!Next]_(Service!sVars)
    BY <1>1, <1>2, InitRefines, PTL DEF Spec
  <1> QED
    BY <1>3 DEF ImplementsFileService, Service!Spec
=============================================================================
