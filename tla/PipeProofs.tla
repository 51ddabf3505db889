----------------------------- MODULE PipeProofs -----------------------------
(***************************************************************************)
(* Theorems about Pipe, for every number of environments and slots, every  *)
(* size of the buffer and every bound on bytes and calls.                  *)
(***************************************************************************)
EXTENDS Pipe, FiniteSetTheorems, TLAPS

-----------------------------------------------------------------------------
(***************************************************************************)
(* The inductive invariant.                                                *)
(***************************************************************************)

LocType == [op  : {"none", "pipe", "read", "write", "query", "close", "dup", "fork", "exit"},
            at  : Labels,
            fd  : Slots,
            to  : Slots \cup Envs \cup {NULL},
            n   : Nat,
            got : BOOLEAN]

\* The labels of each call.
LabelOK(r) ==
    \/ r = Idle
    \/ r.op = "pipe" /\ r.at \in {"pipe1", "pipe2", "pipe3", "pipe4"}
    \/ r.op \in {"read", "write"} /\ r.at \in {"test", "ref1", "ref2", "take", "advance"}
    \/ r.op = "query" /\ r.at \in {"ref1", "ref2"}
    \/ r.op = "close" /\ r.at \in {"closefd", "closedata"} /\ r.to \in Slots
    \/ r.op = "dup" /\ r.at \in {"closefd", "closedata", "dupdata", "dupfd"} /\ r.to \in Slots
    \/ r.op = "exit" /\ r.at = "exit"
    \/ r.op = "exit" /\ r.at \in {"closefd", "closedata"} /\ r.to \in Slots
    \/ r.op = "fork" /\ r.at = "map" /\ r.to \in Envs

\* Only running environments are in a call; the others hold nothing, except
\* children that fork has begun to fill.
EnvOK(e) ==
    /\ LabelOK(loc[e])
    /\ status[e] # "LIVE" => loc[e] = Idle
    /\ status[e] \in {"UNUSED", "DEAD"} => \A i \in Slots : fdpage[e][i] = NULL /\ ~data[e][i]
    /\ loc[e].op = "pipe" => e = Root /\ ~ring.made

\* Until pipe() has succeeded, only Root exists, with what it has mapped so far.
Built(i) == IF loc[Root].at \in {"pipe2", "pipe3", "pipe4"} /\ i = loc[Root].fd THEN "R"
            ELSE IF loc[Root].at \in {"pipe3", "pipe4"} /\ i = loc[Root].to THEN "W" ELSE NULL
BuildOK ==
    ~ring.made =>
        /\ status[Root] = "LIVE" /\ \A e \in Envs \ {Root} : status[e] = "UNUSED"
        /\ loc[Root].op \in {"none", "pipe"}
        /\ loc[Root].at \in {"pipe3", "pipe4"} => loc[Root].to \in Slots /\ loc[Root].to # loc[Root].fd
        /\ \A i \in Slots : /\ fdpage[Root][i] = Built(i)
                            /\ data[Root][i] <=> loc[Root].at = "pipe4" /\ i = loc[Root].fd

\* A descriptor and the pipe page come in pairs, but for the slot that a close
\* or a dup is working on, which has no descriptor then.
PairsOK(e) ==
    status[e] = "LIVE" /\ ring.made =>
        /\ \A i \in Slots : \/ fdpage[e][i] # NULL <=> data[e][i]
                            \/ loc[e].at \in {"closedata", "dupfd"} /\ i = loc[e].to
        /\ loc[e].at \in {"closedata", "dupdata", "dupfd"} => fdpage[e][loc[e].to] = NULL
        /\ loc[e].at = "dupfd" => data[e][loc[e].to] = data[e][loc[e].fd]

\* A call on a descriptor finds it open until it returns.
UserOK(e) ==
    /\ loc[e].op \in {"read", "write", "query"} => ring.made /\ fdpage[e][loc[e].fd] # NULL
    /\ loc[e].op = "read"  => fdpage[e][loc[e].fd] = "R"
    /\ loc[e].op = "write" => fdpage[e][loc[e].fd] = "W"
Alone == \A e, f \in Envs : loc[e].op \in {"read", "write"} /\ loc[f].op = loc[e].op => e = f

\* A child has what its parent had at the addresses already copied.
ShareOK(e) ==
    loc[e].at = "map" =>
        /\ ring.made /\ status[loc[e].to] = "CHILD"
        /\ \A f \in Envs : loc[f].at = "map" /\ loc[f].to = loc[e].to => f = e
        /\ \A i \in Slots :
              /\ fdpage[loc[e].to][i] = IF i < loc[e].n THEN fdpage[e][i] ELSE NULL
              /\ data[loc[e].to][i] = (NSlots + i < loc[e].n /\ data[e][i])

\* The buffer holds the bytes from p_rpos to p_wpos; byte k is number k.
RingType == ring \in [rpos : 0..MaxBytes, wpos : 0..MaxBytes,
                      buf : [0..(BufSize - 1) -> 0..MaxBytes], made : BOOLEAN]
BytesOK ==
    /\ RingType
    /\ ring.rpos <= ring.wpos /\ ring.wpos <= ring.rpos + BufSize
    /\ Len(sent) = ring.wpos /\ Len(received) = ring.rpos
    /\ \A k \in 1..ring.wpos : sent[k] = k
    /\ \A k \in 0..(MaxBytes - 1) : ring.rpos <= k /\ k < ring.wpos => ring.buf[Index(k)] = k + 1

\* A byte in transit is the next one.
TransferOK(e) ==
    /\ loc[e].op = "write" => ring.wpos < MaxBytes
    /\ loc[e].op = "write" /\ loc[e].at \in {"take", "advance"} => ring.wpos < ring.rpos + BufSize
    /\ loc[e].op = "write" /\ loc[e].at = "advance" =>
          loc[e].n = ring.wpos + 1 /\ ring.buf[Index(ring.wpos)] = ring.wpos + 1
    /\ loc[e].op = "read" /\ loc[e].at \in {"take", "advance"} => ring.rpos < ring.wpos
    /\ loc[e].op = "read" /\ loc[e].at = "advance" => loc[e].n = ring.rpos + 1

EachOK(e) == EnvOK(e) /\ PairsOK(e) /\ UserOK(e) /\ ShareOK(e) /\ TransferOK(e)
Inv == TypeOK /\ BuildOK /\ Alone /\ BytesOK /\ \A e \in Envs : EachOK(e)

\* With one processor, a count that was read and not disturbed is still true.
CountOK == \A e \in Envs : loc[e].at = "ref2" /\ ~moved[e] => loc[e].n = FdRef(e)

-----------------------------------------------------------------------------
(***************************************************************************)
(* Lemmas about the operators of Pipe.                                     *)
(***************************************************************************)
USE EnvAssumption, NumAssumption, FailAssumption, NullAssumption

\* Min(S) is the least element of a set of numbers.
LEMMA MinLeast ==
  ASSUME NEW S, S \subseteq Nat, IsFiniteSet(S), S # {}
  PROVE  Min(S) \in S /\ \A j \in S : Min(S) <= j
  <1> DEFINE Below(i) == {j \in S : j <= i}
             T == {Below(i) : i \in S}
             R == StrictSubsetOrdering(S)
  <1>1. IsWellFoundedOn(R, FiniteSubsetsOf(S))
    BY FS_StrictSubsetOrderingWellFounded
  <1>2. T \subseteq FiniteSubsetsOf(S) /\ T # {}
    <2>1. FiniteSubsetsOf(S) = SUBSET S
      BY FS_FiniteSubsetsOfFinite
    <2>2. T \subseteq SUBSET S /\ T # {}
      OBVIOUS
    <2> QED
      BY <2>1, <2>2
  <1>3. \E x \in T : \A y \in T : ~(<<y, x>> \in R)
    <2> HIDE DEF T, R
    <2> QED
      BY <1>1, <1>2, WFMin
  <1>4. PICK i \in S : \A j \in S : ~(<<Below(j), Below(i)>> \in R)
    BY <1>3
  <1>5. \A j \in S : i <= j
    <2> SUFFICES ASSUME NEW j \in S, j < i PROVE FALSE
      OBVIOUS
    <2>0. i \in Nat /\ j \in Nat /\ \A k \in S : k \in Nat
      OBVIOUS
    <2>1. Below(j) \subseteq Below(i) /\ i \in Below(i) /\ i \notin Below(j)
      <3>1. ASSUME NEW k \in Below(j) PROVE k \in Below(i)
        <4>1. k \in S /\ k <= j /\ k \in Nat
          BY <2>0
        <4> QED
          BY <2>0, <4>1
      <3>2. i \in Below(i) /\ ~(i <= j)
        BY <2>0
      <3>3. i \notin Below(j)
        BY <3>2
      <3> QED
        BY <3>1, <3>2, <3>3
    <2>2. Below(j) \in SUBSET S /\ Below(i) \in SUBSET S
      OBVIOUS
    <2>3. <<Below(j), Below(i)>> \in R
      <3> HIDE DEF Below
      <3> QED
        BY <2>1, <2>2 DEF StrictSubsetOrdering
    <2> QED
      BY <1>4, <2>3
  <1> QED
    BY <1>5 DEF Min

LEMMA SlotsFinite == IsFiniteSet(Slots) /\ Slots \subseteq Nat /\ 0 \in Slots
  <1>1. NSlots \in Nat /\ NSlots >= 1
    OBVIOUS
  <1>2. IsFiniteSet(0..(NSlots - 1))
    BY <1>1, FS_Interval
  <1> QED
    BY <1>1, <1>2 DEF Slots

LEMMA FdAlloc ==
  ASSUME NEW e \in Envs, Free(e) # {} PROVE fd_alloc(e) \in Slots /\ fdpage[e][fd_alloc(e)] = NULL
  <1>1. Free(e) \in SUBSET Slots
    BY DEF Free
  <1>2. IsFiniteSet(Free(e)) /\ Free(e) \subseteq Nat
    BY <1>1, SlotsFinite, FS_Subset
  <1>3. fd_alloc(e) \in Free(e)
    BY <1>2, MinLeast DEF fd_alloc
  <1> QED
    BY <1>3 DEF Free

\* The pairs of an environment and one of its slots are finitely many.
LEMMA PairsFinite ==
  ASSUME NEW S \in SUBSET (Envs \X Slots) PROVE IsFiniteSet(S) /\ Cardinality(S) \in Nat
  <1>1. IsFiniteSet(Envs \X Slots)
    BY SlotsFinite, FS_Product
  <1>2. IsFiniteSet(S)
    BY <1>1, FS_Subset
  <1> QED
    BY <1>2, FS_CardinalityType

LEMMA FdRefNat == \A e : FdRef(e) \in Nat
  <1> TAKE e
  <1>1. Holders(fdpage[e][loc[e].fd]) \in SUBSET (Envs \X Slots)
    BY DEF Holders
  <1> QED
    BY <1>1, PairsFinite DEF FdRef

LEMMA RunsType ==
  ASSUME moved \in [Envs -> BOOLEAN], NEW e \in Envs, NEW m \in BOOLEAN, Runs(e, m)
  PROVE  moved' \in [Envs -> BOOLEAN]
  BY DEF Runs

-----------------------------------------------------------------------------
(***************************************************************************)
(* A step of e that changes nothing of another environment: what the       *)
(* invariant says of the others remains true.                              *)
(***************************************************************************)
Same(f) == /\ fdpage'[f] = fdpage[f] /\ data'[f] = data[f]
           /\ status'[f] = status[f] /\ loc'[f] = loc[f]
Mine(e) == \A f \in Envs \ {e} : Same(f)

LEMMA IdleType == Idle \in LocType /\ Idle.at = "idle" /\ Idle.op = "none"
  BY SlotsFinite DEF Idle, LocType, Labels

LEMMA LocOf == TypeOK => loc \in [Envs -> LocType]
  BY DEF TypeOK, LocType

\* The children that others fill are not running.
LEMMA OthersEach ==
  ASSUME Inv, NEW e \in Envs, status[e] = "LIVE", Mine(e), NEW r, loc' = [loc EXCEPT ![e] = r],
         r.at # "map", ring'.made = ring.made
  PROVE  \A f \in Envs \ {e} : EnvOK(f)' /\ PairsOK(f)' /\ UserOK(f)' /\ ShareOK(f)'
  <1> SUFFICES ASSUME NEW f \in Envs, f # e
               PROVE  EnvOK(f)' /\ PairsOK(f)' /\ UserOK(f)' /\ ShareOK(f)'
    OBVIOUS
  <1>1. Same(f) /\ EachOK(f)
    BY DEF Mine, Inv
  <1>2. EnvOK(f)' /\ PairsOK(f)' /\ UserOK(f)'
    BY <1>1 DEF Same, EachOK, EnvOK, PairsOK, UserOK
  <1>3. ShareOK(f)'
    <2> SUFFICES ASSUME loc[f].at = "map" PROVE ShareOK(f)'
      BY <1>1 DEF ShareOK, Same
    <2> DEFINE c == loc[f].to
    <2>1. c \in Envs /\ status[c] = "CHILD"
      BY <1>1 DEF EachOK, EnvOK, LabelOK, ShareOK, Idle
    <2>2. Same(c)
      BY <2>1 DEF Mine
    <2>3. \A g \in Envs : loc'[g].at = "map" => g # e /\ loc'[g] = loc[g]
      BY DEF Mine, Same, Inv, TypeOK
    <2> QED
      BY <1>1, <2>1, <2>2, <2>3 DEF ShareOK, EachOK, Same
  <1> QED
    BY <1>2, <1>3

LEMMA AloneKept ==
  ASSUME Inv, NEW e \in Envs, NEW r, loc' = [loc EXCEPT ![e] = r],
         r.op \in {"read", "write"} => r.op = loc[e].op \/ \A f \in Envs : loc[f].op # r.op
  PROVE  Alone'
  BY DEF Inv, Alone, TypeOK

\* A transfer only depends on the positions and on the byte at the end.
LEMMA TransferSame ==
  ASSUME Inv, NEW f \in Envs, loc'[f] = loc[f], UNCHANGED ring
  PROVE  TransferOK(f)'
  BY DEF Inv, EachOK, TransferOK, Index

LEMMA TypeStep ==
  ASSUME Inv, NEW e \in Envs, NEW r \in LocType, loc' = [loc EXCEPT ![e] = r],
         fdpage' \in [Envs -> [Slots -> Ends \cup {NULL}]], data' \in [Envs -> [Slots -> BOOLEAN]],
         status' \in [Envs -> {"UNUSED", "CHILD", "LIVE", "DEAD"}],
         calls' \in 0..MaxCalls, moved' \in [Envs -> BOOLEAN], UnchangedBytes
  PROVE  TypeOK' /\ BytesOK'
  <1>1. loc' \in [Envs -> LocType]
    BY LocOf DEF Inv
  <1>2. BytesOK'
    BY DEF Inv, BytesOK, RingType, UnchangedBytes, Index
  <1> QED
    BY <1>1, <1>2 DEF TypeOK, LocType, UnchangedBytes, Inv

LEMMA CallsType == ASSUME Inv, calls' = calls \/ (calls < MaxCalls /\ calls' = calls + 1)
                   PROVE  calls' \in 0..MaxCalls
  BY DEF Inv, TypeOK

\* A step of e within its own environment.
LEMMA OwnStep ==
  ASSUME Inv, NEW e \in Envs, status[e] = "LIVE", Mine(e), NEW r \in LocType, loc' = [loc EXCEPT ![e] = r],
         fdpage' \in [Envs -> [Slots -> Ends \cup {NULL}]], data' \in [Envs -> [Slots -> BOOLEAN]],
         status' \in [Envs -> {"UNUSED", "CHILD", "LIVE", "DEAD"}],
         calls' \in 0..MaxCalls, moved' \in [Envs -> BOOLEAN], UnchangedBytes, r.at # "map",
         r.op \in {"read", "write"} => r.op = loc[e].op \/ \A f \in Envs : loc[f].op # r.op,
         EachOK(e)', ring.made \/ BuildOK'
  PROVE  Inv'
  <1>1. TypeOK' /\ BytesOK'
    BY TypeStep
  <1>2. Alone'
    BY AloneKept
  <1>3. ring' = ring
    BY DEF UnchangedBytes
  <1>4. \A f \in Envs \ {e} : EachOK(f)'
    <2> SUFFICES ASSUME NEW f \in Envs \ {e} PROVE EachOK(f)'
      OBVIOUS
    <2>1. EnvOK(f)' /\ PairsOK(f)' /\ UserOK(f)' /\ ShareOK(f)'
      BY <1>3, OthersEach
    <2>2. TransferOK(f)'
      BY <1>3, TransferSame DEF Mine, Same
    <2> QED
      BY <2>1, <2>2 DEF EachOK
  <1>5. BuildOK'
    BY <1>3 DEF BuildOK
  <1> QED
    BY <1>1, <1>2, <1>4, <1>5 DEF Inv

\* A step that changes nothing but where e is.
LEMMA QuietStep ==
  ASSUME Inv, NEW e \in Envs, status[e] = "LIVE", NEW r \in LocType, loc' = [loc EXCEPT ![e] = r],
         NEW m \in BOOLEAN, Runs(e, m), UnchangedPages, UnchangedBytes, status' = status,
         calls' = calls \/ (calls < MaxCalls /\ calls' = calls + 1), r.at # "map",
         r.op \in {"read", "write"} => r.op = loc[e].op \/ \A f \in Envs : loc[f].op # r.op,
         EachOK(e)', ring.made \/ BuildOK'
  PROVE  Inv'
  <1>1. calls' \in 0..MaxCalls
    BY CallsType
  <1>2. moved' \in [Envs -> BOOLEAN]
    BY RunsType DEF Inv, TypeOK
  <1>3. Mine(e)
    BY DEF Mine, Same, UnchangedPages, Inv, TypeOK
  <1>4. /\ fdpage' \in [Envs -> [Slots -> Ends \cup {NULL}]] /\ data' \in [Envs -> [Slots -> BOOLEAN]]
        /\ status' \in [Envs -> {"UNUSED", "CHILD", "LIVE", "DEAD"}]
    BY DEF UnchangedPages, Inv, TypeOK
  <1> QED
    BY <1>1, <1>2, <1>3, <1>4, OwnStep

\* What is known of an environment between two calls, or at any label.
LEMMA AtFacts ==
  ASSUME Inv, NEW e \in Envs
  PROVE  /\ EachOK(e) /\ loc[e] \in LocType /\ loc \in [Envs -> LocType]
         /\ loc[e].at = "idle" => loc[e] = Idle
         /\ ~ring.made /\ status[e] = "LIVE" => e = Root
         /\ fdpage[e] \in [Slots -> Ends \cup {NULL}] /\ data[e] \in [Slots -> BOOLEAN]
  <1>1. EachOK(e) /\ loc[e] \in LocType /\ loc \in [Envs -> LocType]
    BY LocOf DEF Inv
  <1>2. loc[e].at = "idle" => loc[e] = Idle
    BY <1>1 DEF EachOK, EnvOK, LabelOK
  <1>3. ~ring.made /\ status[e] = "LIVE" => e = Root
    BY DEF Inv, BuildOK
  <1> QED
    BY <1>1, <1>2, <1>3 DEF Inv, TypeOK

\* Before pipe() has succeeded no descriptor is open between calls.
LEMMA OpenMade ==
  ASSUME Inv, NEW e \in Envs, At(e, "idle"), NEW i \in Slots, fdpage[e][i] # NULL PROVE ring.made
  BY DEF Inv, At, BuildOK, Built, EachOK, EnvOK

LEMMA IdleEach == ASSUME Inv, NEW e \in Envs, status'[e] = status[e], loc'[e] = Idle, loc[e].at # "map",
                         loc[e].at \notin {"closedata", "dupdata", "dupfd"},
                         fdpage'[e] = fdpage[e], data'[e] = data[e], ring' = ring, ring.made
                  PROVE  EachOK(e)'
  BY IdleType DEF Inv, EachOK, EnvOK, LabelOK, PairsOK, UserOK, ShareOK, TransferOK

\* Which labels a call has, and which call a label belongs to.
LEMMA LabelFacts ==
  ASSUME NEW r \in LocType, LabelOK(r)
  PROVE  /\ r.op \in {"read", "write", "query"} => r.at \in {"test", "ref1", "ref2", "take", "advance"}
         /\ r.op = "query" => r.at \in {"ref1", "ref2"}
         /\ r.at \in {"test", "take", "advance"} => r.op \in {"read", "write"}
         /\ r.at \in {"ref1", "ref2"} => r.op \in {"read", "write", "query"}
         /\ r.at \in {"closefd", "closedata"} => r.op \in {"close", "dup", "exit"} /\ r.to \in Slots
         /\ r.at \in {"dupdata", "dupfd"} => r.op = "dup" /\ r.to \in Slots
         /\ r.at \in {"pipe1", "pipe2", "pipe3", "pipe4"} => r.op = "pipe"
         /\ r.at = "exit" => r.op = "exit"
         /\ r.at = "map" => r.op = "fork" /\ r.to \in Envs
         /\ r.op = "pipe" => r.at \in {"pipe1", "pipe2", "pipe3", "pipe4"}
         /\ r.op = "none" => r = Idle
         /\ r.at = "idle" => r = Idle
  BY DEF LabelOK, Idle

-----------------------------------------------------------------------------
(* The calls. *)
Counted == calls' = calls \/ (calls < MaxCalls /\ calls' = calls + 1)

LEMMA PipeStep == ASSUME Inv, NEW e \in Envs, pipe(e), Counted PROVE Inv'
  <1> DEFINE r == [Idle EXCEPT !.op = "pipe", !.at = "pipe1"]
  <1>1. /\ status[e] = "LIVE" /\ loc[e].at = "idle" /\ loc' = [loc EXCEPT ![e] = r] /\ Runs(e, TRUE)
        /\ UnchangedPages /\ UnchangedBytes /\ status' = status /\ e = Root /\ ~ring.made
    BY DEF pipe, At, Jump
  <1>2. r \in LocType /\ LabelOK(r) /\ r.op = "pipe" /\ r.at = "pipe1"
    BY SlotsFinite DEF Idle, LocType, Labels, LabelOK
  <1> HIDE DEF r
  <1>3. loc'[e] = r
    BY <1>1, AtFacts
  <1>4. EachOK(e)'
    BY <1>1, <1>2, <1>3, AtFacts DEF EachOK, EnvOK, PairsOK, UserOK, ShareOK, TransferOK, UnchangedPages, UnchangedBytes
  <1>5. BuildOK'
    BY <1>1, <1>2, <1>3, AtFacts DEF Inv, BuildOK, Built, Idle, UnchangedPages, UnchangedBytes
  <1> QED
    BY <1>1, <1>2, <1>4, <1>5, QuietStep DEF Counted

LEMMA ReadWriteStep ==
  ASSUME Inv, NEW e \in Envs, NEW i \in Slots, read_write(e, i), Counted PROVE Inv'
  <1> DEFINE r == [Idle EXCEPT !.op = IF fdpage[e][i] = "R" THEN "read" ELSE "write", !.at = "test", !.fd = i]
  <1>1. /\ status[e] = "LIVE" /\ loc[e].at = "idle" /\ loc' = [loc EXCEPT ![e] = r] /\ Runs(e, TRUE)
        /\ UnchangedPages /\ UnchangedBytes /\ status' = status /\ fdpage[e][i] # NULL
        /\ (fdpage[e][i] = "W" => ring.wpos < MaxBytes) /\ \A f \in Envs : ~Using(f, fdpage[e][i])
    BY DEF read_write, At, Jump
  <1>2. /\ r \in LocType /\ LabelOK(r) /\ r.op \in {"read", "write"} /\ r.at = "test" /\ r.fd = i
        /\ r.op = IF fdpage[e][i] = "R" THEN "read" ELSE "write"
    BY DEF Idle, LocType, Labels, LabelOK
  <1> HIDE DEF r
  <1>3. loc'[e] = r /\ ring.made /\ fdpage[e][i] \in Ends
    BY <1>1, AtFacts, OpenMade DEF At
  <1>4. \A f \in Envs : loc[f].op # r.op
    BY <1>1, <1>2 DEF Using
  <1>5. EachOK(e)'
    BY <1>1, <1>2, <1>3, AtFacts DEF EachOK, EnvOK, PairsOK, UserOK, ShareOK, TransferOK, UnchangedPages, UnchangedBytes, Ends
  <1> QED
    BY <1>1, <1>2, <1>3, <1>4, <1>5, QuietStep DEF Counted

LEMMA QueryStep ==
  ASSUME Inv, NEW e \in Envs, NEW i \in Slots, pipeisclosed(e, i), Counted PROVE Inv'
  <1> DEFINE r == [Idle EXCEPT !.op = "query", !.at = "ref1", !.fd = i]
  <1>1. /\ status[e] = "LIVE" /\ loc[e].at = "idle" /\ loc' = [loc EXCEPT ![e] = r] /\ Runs(e, TRUE)
        /\ UnchangedPages /\ UnchangedBytes /\ status' = status /\ fdpage[e][i] # NULL
    BY DEF pipeisclosed, At, Jump
  <1>2. r \in LocType /\ LabelOK(r) /\ r.op = "query" /\ r.at = "ref1" /\ r.fd = i
    BY DEF Idle, LocType, Labels, LabelOK
  <1> HIDE DEF r
  <1>3. loc'[e] = r /\ ring.made
    BY <1>1, AtFacts, OpenMade DEF At
  <1>4. EachOK(e)'
    BY <1>1, <1>2, <1>3, AtFacts DEF EachOK, EnvOK, PairsOK, UserOK, ShareOK, TransferOK, UnchangedPages, UnchangedBytes
  <1> QED
    BY <1>1, <1>2, <1>3, <1>4, QuietStep DEF Counted

LEMMA CloseStep ==
  ASSUME Inv, NEW e \in Envs, NEW i \in Slots, close(e, i), Counted PROVE Inv'
  <1> DEFINE r == [Idle EXCEPT !.op = "close", !.at = "closefd", !.fd = i, !.to = i]
  <1>1. /\ status[e] = "LIVE" /\ loc[e].at = "idle" /\ loc' = [loc EXCEPT ![e] = r] /\ Runs(e, TRUE)
        /\ UnchangedPages /\ UnchangedBytes /\ status' = status /\ fdpage[e][i] # NULL
    BY DEF close, At, Jump
  <1>2. r \in LocType /\ LabelOK(r) /\ r.op = "close" /\ r.at = "closefd" /\ r.fd = i
    BY DEF Idle, LocType, Labels, LabelOK
  <1> HIDE DEF r
  <1>3. loc'[e] = r /\ ring.made
    BY <1>1, AtFacts, OpenMade DEF At
  <1>4. EachOK(e)'
    BY <1>1, <1>2, <1>3, AtFacts DEF EachOK, EnvOK, PairsOK, UserOK, ShareOK, TransferOK, UnchangedPages, UnchangedBytes
  <1> QED
    BY <1>1, <1>2, <1>3, <1>4, QuietStep DEF Counted

LEMMA DupStep ==
  ASSUME Inv, NEW e \in Envs, NEW i \in Slots, NEW j \in Slots, dup(e, i, j), Counted PROVE Inv'
  <1> DEFINE r == [Idle EXCEPT !.op = "dup", !.fd = i, !.to = j,
                               !.at = IF fdpage[e][j] # NULL THEN "closefd" ELSE "dupdata"]
  <1>1. /\ status[e] = "LIVE" /\ loc[e].at = "idle" /\ loc' = [loc EXCEPT ![e] = r] /\ Runs(e, TRUE)
        /\ UnchangedPages /\ UnchangedBytes /\ status' = status /\ fdpage[e][i] # NULL
    BY DEF dup, At, Jump
  <1>2. r \in LocType /\ LabelOK(r) /\ r.op = "dup" /\ r.fd = i /\ r.to = j
        /\ r.at = IF fdpage[e][j] # NULL THEN "closefd" ELSE "dupdata"
    BY DEF Idle, LocType, Labels, LabelOK
  <1> HIDE DEF r
  <1>3. loc'[e] = r /\ ring.made
    BY <1>1, AtFacts, OpenMade DEF At
  <1>4. EachOK(e)'
    BY <1>1, <1>2, <1>3, AtFacts DEF EachOK, EnvOK, PairsOK, UserOK, ShareOK, TransferOK, UnchangedPages, UnchangedBytes
  <1> QED
    BY <1>1, <1>2, <1>3, <1>4, QuietStep DEF Counted

LEMMA ExitStep == ASSUME Inv, NEW e \in Envs, exit(e), Counted PROVE Inv'
  <1> DEFINE r == [Idle EXCEPT !.op = "exit", !.at = "exit"]
  <1>1. /\ status[e] = "LIVE" /\ loc[e].at = "idle" /\ loc' = [loc EXCEPT ![e] = r] /\ Runs(e, TRUE)
        /\ UnchangedPages /\ UnchangedBytes /\ status' = status /\ ring.made
    BY DEF exit, At, Jump
  <1>2. r \in LocType /\ LabelOK(r) /\ r.op = "exit" /\ r.at = "exit"
    BY SlotsFinite DEF Idle, LocType, Labels, LabelOK
  <1> HIDE DEF r
  <1>3. loc'[e] = r
    BY <1>1, AtFacts
  <1>4. EachOK(e)'
    BY <1>1, <1>2, <1>3, AtFacts DEF EachOK, EnvOK, PairsOK, UserOK, ShareOK, TransferOK, UnchangedPages, UnchangedBytes
  <1> QED
    BY <1>1, <1>2, <1>3, <1>4, QuietStep DEF Counted

-----------------------------------------------------------------------------
(* The steps of read, write and pipeisclosed that look at the pipe. *)

\* A call that returns without having touched a page.
LEMMA ReturnStep ==
  ASSUME Inv, NEW e \in Envs, status[e] = "LIVE", loc[e].op \in {"read", "write", "query"}, Return(e),
         UnchangedPages, UnchangedBytes, status' = status, calls' = calls
  PROVE  Inv'
  <1>1. loc' = [loc EXCEPT ![e] = Idle] /\ Runs(e, TRUE)
    BY DEF Return, Jump
  <1>2. loc'[e] = Idle /\ ring.made /\ loc[e].at \in {"test", "ref1", "ref2", "take", "advance"}
    BY <1>1, AtFacts, LabelFacts DEF EachOK, EnvOK, UserOK
  <1>3. EachOK(e)'
    BY <1>2, IdleEach DEF UnchangedPages, UnchangedBytes
  <1> QED
    BY <1>1, <1>2, <1>3, IdleType, QuietStep

\* A call that goes on to another label.
LEMMA GoStep ==
  ASSUME Inv, NEW e \in Envs, status[e] = "LIVE", loc[e].op \in {"read", "write", "query"},
         NEW a \in {"test", "ref1", "ref2", "take"}, NEW n \in Nat, NEW m \in BOOLEAN, Runs(e, m),
         loc' = [loc EXCEPT ![e] = [loc[e] EXCEPT !.at = a, !.n = n]],
         loc[e].op = "query" => a \in {"ref1", "ref2"}, a = "take" => ~Blocked(loc[e].op),
         UnchangedPages, UnchangedBytes, status' = status, calls' = calls
  PROVE  Inv'
  <1> DEFINE r == [loc[e] EXCEPT !.at = a, !.n = n]
  <1>1. /\ loc' = [loc EXCEPT ![e] = r] /\ r \in LocType /\ LabelOK(r)
        /\ r.op = loc[e].op /\ r.fd = loc[e].fd /\ r.at = a
    BY AtFacts, ZenonT(30) DEF LocType, Labels, LabelOK
  <1> HIDE DEF r
  <1>2. loc'[e] = r /\ loc[e].at \in {"test", "ref1", "ref2", "take", "advance"}
    BY <1>1, AtFacts, LabelFacts DEF EachOK, EnvOK
  <1>3. ring.made /\ BytesOK
    BY AtFacts DEF EachOK, UserOK, Inv
  <1>4. r.at = "take" => (r.op = "read" => ring.rpos < ring.wpos) /\ (r.op = "write" => ring.wpos < ring.rpos + BufSize)
    BY <1>1, <1>3 DEF Blocked, BytesOK, RingType
  <1>5. EachOK(e)'
    BY <1>1, <1>2, <1>3, <1>4, AtFacts DEF EachOK, EnvOK, PairsOK, UserOK, ShareOK, TransferOK, UnchangedPages, UnchangedBytes
  <1> QED
    BY <1>1, <1>2, <1>3, <1>5, QuietStep, ZenonT(30)

LEMMA GotoIs ==
  ASSUME Inv, NEW e \in Envs, NEW a, Goto(e, a)
  PROVE  loc' = [loc EXCEPT ![e] = [loc[e] EXCEPT !.at = a, !.n = loc[e].n]] /\ Runs(e, TRUE)
  BY AtFacts DEF Goto, Jump, LocType

LEMMA TestStep == ASSUME Inv, NEW e \in Envs, devpipe_test(e), calls' = calls PROVE Inv'
  <1>1. /\ status[e] = "LIVE" /\ loc[e].op \in {"read", "write"}
        /\ UnchangedPages /\ UnchangedBytes /\ status' = status
    BY AtFacts, LabelFacts DEF devpipe_test, At, EachOK, EnvOK
  <1>2. CASE Return(e)
    BY <1>1, <1>2, ReturnStep
  <1>3. CASE Goto(e, "take") /\ ~Blocked(loc[e].op)
    BY <1>1, <1>3, GotoIs, GoStep, AtFacts, ZenonT(30) DEF LocType
  <1>4. CASE Goto(e, "ref1")
    <2>1. loc[e].n \in Nat
      BY AtFacts DEF LocType
    <2> QED
      BY <1>1, <1>4, <2>1, GotoIs, GoStep
  <1> QED
    BY <1>2, <1>3, <1>4 DEF devpipe_test

LEMMA FirstRefStep == ASSUME Inv, NEW e \in Envs, FirstRef(e), calls' = calls PROVE Inv'
  <1>1. /\ status[e] = "LIVE" /\ loc[e].op \in {"read", "write", "query"} /\ Runs(e, FALSE)
        /\ UnchangedPages /\ UnchangedBytes /\ status' = status
    BY AtFacts, LabelFacts DEF FirstRef, At, EachOK, EnvOK
  <1>2. loc' = [loc EXCEPT ![e] = [loc[e] EXCEPT !.at = "ref2", !.n = FdRef(e)]]
    BY AtFacts DEF FirstRef
  <1> QED
    BY <1>1, <1>2, FdRefNat, GoStep

LEMMA SecondRefStep == ASSUME Inv, NEW e \in Envs, SecondRef(e), calls' = calls PROVE Inv'
  <1>1. /\ status[e] = "LIVE" /\ loc[e].op \in {"read", "write", "query"} /\ loc[e].n \in Nat
        /\ UnchangedPages /\ UnchangedBytes /\ status' = status
    BY AtFacts, LabelFacts DEF SecondRef, Answers, At, EachOK, EnvOK, LocType
  <1>2. CASE Return(e)
    BY <1>1, <1>2, ReturnStep
  <1>3. CASE loc[e].op # "query" /\ Goto(e, "test")
    BY <1>1, <1>3, GotoIs, GoStep
  <1>4. CASE Goto(e, "ref1")
    BY <1>1, <1>4, GotoIs, GoStep
  <1> QED
    BY <1>2, <1>3, <1>4 DEF SecondRef

-----------------------------------------------------------------------------
(* The steps of close, dup and exit. *)
LEMMA BusyMade ==
  ASSUME Inv, NEW e \in Envs, status[e] = "LIVE", loc[e].op \notin {"none", "pipe"} PROVE ring.made
  BY DEF Inv, BuildOK

\* A step of e that maps or unmaps pages of its own.
LEMMA PageStep ==
  ASSUME Inv, NEW e \in Envs, status[e] = "LIVE", ring.made, NEW r \in LocType, Jump(e, r),
         NEW F \in [Slots -> Ends \cup {NULL}], NEW D \in [Slots -> BOOLEAN],
         fdpage' = [fdpage EXCEPT ![e] = F], data' = [data EXCEPT ![e] = D],
         status' = [status EXCEPT ![e] = status'[e]], status'[e] \in {"LIVE", "DEAD"},
         r.at # "map", r.op \notin {"read", "write"}, UnchangedBytes, calls' = calls, EachOK(e)'
  PROVE  Inv'
  <1>1. loc' = [loc EXCEPT ![e] = r] /\ Runs(e, TRUE)
    BY DEF Jump
  <1>2. moved' \in [Envs -> BOOLEAN]
    BY <1>1, RunsType DEF Inv, TypeOK
  <1>3. calls' \in 0..MaxCalls
    BY DEF Inv, TypeOK
  <1>4. /\ fdpage' \in [Envs -> [Slots -> Ends \cup {NULL}]] /\ data' \in [Envs -> [Slots -> BOOLEAN]]
        /\ status' \in [Envs -> {"UNUSED", "CHILD", "LIVE", "DEAD"}]
    BY ZenonT(30) DEF Inv, TypeOK
  <1>5. Mine(e)
    BY <1>1 DEF Mine, Same, Inv, TypeOK
  <1> QED
    BY <1>1, <1>2, <1>3, <1>4, <1>5, OwnStep

LEMMA PageAt ==
  ASSUME Inv, NEW e \in Envs, NEW r, Jump(e, r), NEW F, NEW D,
         fdpage' = [fdpage EXCEPT ![e] = F], data' = [data EXCEPT ![e] = D]
  PROVE  loc'[e] = r /\ fdpage'[e] = F /\ data'[e] = D
  BY AtFacts DEF Jump, Inv, TypeOK

\* The two halves of devpipe_close.
LEMMA CloseFdStep ==
  ASSUME Inv, NEW e \in Envs, At(e, "closefd"), MapFd(e, loc[e].to, NULL), UNCHANGED data,
         Goto(e, "closedata"), UnchangedBytes, status' = status, calls' = calls
  PROVE  Inv'
  <1> DEFINE r == [loc[e] EXCEPT !.at = "closedata"]
             F == [fdpage[e] EXCEPT ![loc[e].to] = NULL]
             D == data[e]
  <1>1. status[e] = "LIVE" /\ loc[e].at = "closefd" /\ EachOK(e) /\ loc[e] \in LocType
        /\ loc[e].op \in {"close", "dup", "exit"} /\ loc[e].to \in Slots
    BY AtFacts, LabelFacts DEF At, EachOK, EnvOK
  <1>2. r \in LocType /\ LabelOK(r) /\ r.op = loc[e].op /\ r.at = "closedata" /\ r.to = loc[e].to /\ Jump(e, r)
    BY <1>1 DEF Goto, LocType, Labels, LabelOK
  <1>3. F \in [Slots -> Ends \cup {NULL}] /\ D \in [Slots -> BOOLEAN]
        /\ \A i \in Slots : F[i] = IF i = loc[e].to THEN NULL ELSE fdpage[e][i]
    BY <1>1, AtFacts
  <1>4. fdpage' = [fdpage EXCEPT ![e] = F] /\ data' = [data EXCEPT ![e] = D]
    BY DEF MapFd, Inv, TypeOK
  <1>5. ring.made /\ ring' = ring
    BY <1>1, BusyMade DEF UnchangedBytes
  <1> HIDE DEF r, F, D
  <1>6. loc'[e] = r /\ fdpage'[e] = F /\ data'[e] = D
    BY <1>2, <1>4, PageAt, ZenonT(30)
  <1> USE DEF D
  <1>7. EachOK(e)'
    BY <1>1, <1>2, <1>3, <1>5, <1>6 DEF EachOK, EnvOK, PairsOK, UserOK, ShareOK, TransferOK
  <1>8. status' = [status EXCEPT ![e] = status'[e]] /\ status'[e] = "LIVE"
    BY <1>1 DEF Inv, TypeOK
  <1> QED
    <2> HIDE DEF D
    <2>1. r.at # "map" /\ r.op \notin {"read", "write"} /\ status'[e] \in {"LIVE", "DEAD"} /\ r \in LocType /\ Jump(e, r)
      BY <1>1, <1>2, <1>8
    <2>2. F \in [Slots -> Ends \cup {NULL}] /\ D \in [Slots -> BOOLEAN]
      BY <1>3
    <2> QED
      BY <1>1, <1>4, <1>5, <1>7, <1>8, <2>1, <2>2, PageStep

LEMMA AfterCloseIs ==
  ASSUME Inv, NEW e \in Envs, loc[e].op \in {"close", "dup", "exit"}, loc[e].to \in Slots
  PROVE  /\ AfterClose(e) \in LocType /\ LabelOK(AfterClose(e)) /\ AfterClose(e).at \in {"idle", "dupdata", "exit"}
         /\ AfterClose(e).op \in {"none", "dup", "exit"}
         /\ AfterClose(e).at = "dupdata" => AfterClose(e).to = loc[e].to
  <1>1. CASE loc[e].op = "close"
    BY <1>1, IdleType DEF AfterClose, LabelOK
  <1>2. CASE loc[e].op = "dup"
    <2>1. AfterClose(e) = [loc[e] EXCEPT !.at = "dupdata"]
      BY <1>2 DEF AfterClose
    <2> QED
      BY <1>2, <2>1, AtFacts DEF LocType, Labels, LabelOK
  <1>3. CASE loc[e].op = "exit"
    <2>1. AfterClose(e) = [Idle EXCEPT !.op = "exit", !.at = "exit"]
      BY <1>3 DEF AfterClose
    <2> QED
      BY <2>1, SlotsFinite DEF Idle, LocType, Labels, LabelOK
  <1> QED
    BY <1>1, <1>2, <1>3

LEMMA CloseDataStep ==
  ASSUME Inv, NEW e \in Envs, At(e, "closedata"), MapData(e, loc[e].to, FALSE), UNCHANGED fdpage,
         Jump(e, AfterClose(e)), UnchangedBytes, status' = status, calls' = calls
  PROVE  Inv'
  <1> DEFINE r == AfterClose(e)
             F == fdpage[e]
             D == [data[e] EXCEPT ![loc[e].to] = FALSE]
  <1>1. status[e] = "LIVE" /\ loc[e].at = "closedata" /\ EachOK(e) /\ loc[e] \in LocType
        /\ loc[e].op \in {"close", "dup", "exit"} /\ loc[e].to \in Slots
    BY AtFacts, LabelFacts DEF At, EachOK, EnvOK
  <1>2. r \in LocType /\ LabelOK(r) /\ r.at \in {"idle", "dupdata", "exit"} /\ r.op \in {"none", "dup", "exit"}
        /\ (r.at = "dupdata" => r.to = loc[e].to)
    BY <1>1, AfterCloseIs
  <1>3. F \in [Slots -> Ends \cup {NULL}] /\ D \in [Slots -> BOOLEAN]
        /\ \A i \in Slots : D[i] = IF i = loc[e].to THEN FALSE ELSE data[e][i]
    BY <1>1, AtFacts
  <1>4. fdpage' = [fdpage EXCEPT ![e] = F] /\ data' = [data EXCEPT ![e] = D]
    BY DEF MapData, Inv, TypeOK
  <1>5. ring.made /\ ring' = ring
    BY <1>1, BusyMade DEF UnchangedBytes
  <1> HIDE DEF r, D
  <1>6. loc'[e] = r /\ fdpage'[e] = F /\ data'[e] = D
    BY <1>4, PageAt DEF r
  <1>7. EachOK(e)'
    <2>1. EnvOK(e)' /\ UserOK(e)' /\ ShareOK(e)' /\ TransferOK(e)'
      BY <1>1, <1>2, <1>5, <1>6 DEF EnvOK, UserOK, ShareOK, TransferOK
    <2>2. fdpage[e][loc[e].to] = NULL /\ \A i \in Slots : i # loc[e].to => (fdpage[e][i] # NULL <=> data[e][i])
      BY <1>1, <1>5 DEF EachOK, PairsOK
    <2>3. PairsOK(e)'
      BY <1>1, <1>2, <1>3, <1>5, <1>6, <2>2 DEF PairsOK
    <2> QED
      BY <2>1, <2>3 DEF EachOK
  <1>8. status' = [status EXCEPT ![e] = status'[e]] /\ status'[e] = "LIVE"
    BY <1>1 DEF Inv, TypeOK
  <1> QED
    BY <1>1, <1>2, <1>3, <1>4, <1>5, <1>7, <1>8, PageStep DEF r

LEMMA DevCloseStep == ASSUME Inv, NEW e \in Envs, devpipe_close(e), calls' = calls PROVE Inv'
  BY CloseFdStep, CloseDataStep DEF devpipe_close

\* dup's sys_page_map of the pipe page.
LEMMA DupDataStep ==
  ASSUME Inv, NEW e \in Envs, At(e, "dupdata"), MapData(e, loc[e].to, data[e][loc[e].fd]), UNCHANGED fdpage,
         Goto(e, "dupfd"), UnchangedBytes, status' = status, calls' = calls
  PROVE  Inv'
  <1> DEFINE r == [loc[e] EXCEPT !.at = "dupfd"]
             F == fdpage[e]
             D == [data[e] EXCEPT ![loc[e].to] = data[e][loc[e].fd]]
  <1>1. status[e] = "LIVE" /\ loc[e].at = "dupdata" /\ EachOK(e) /\ loc[e] \in LocType
        /\ loc[e].op = "dup" /\ loc[e].to \in Slots /\ loc[e].fd \in Slots
    BY AtFacts, LabelFacts DEF At, EachOK, EnvOK, LocType
  <1>2. r \in LocType /\ LabelOK(r) /\ r.op = "dup" /\ r.at = "dupfd" /\ r.to = loc[e].to /\ r.fd = loc[e].fd
        /\ Jump(e, r)
    BY <1>1 DEF Goto, LocType, Labels, LabelOK
  <1>3. F \in [Slots -> Ends \cup {NULL}] /\ D \in [Slots -> BOOLEAN]
        /\ \A i \in Slots : D[i] = IF i = loc[e].to THEN data[e][loc[e].fd] ELSE data[e][i]
    BY <1>1, AtFacts
  <1>4. fdpage' = [fdpage EXCEPT ![e] = F] /\ data' = [data EXCEPT ![e] = D]
    BY DEF MapData, Inv, TypeOK
  <1>5. ring.made /\ ring' = ring
    BY <1>1, BusyMade DEF UnchangedBytes
  <1> HIDE DEF r, D, F
  <1>6. loc'[e] = r /\ fdpage'[e] = F /\ data'[e] = D
    BY <1>2, <1>4, AtFacts DEF Jump, Inv, TypeOK
  <1> USE DEF F
  <1>7. EachOK(e)'
    <2>1. EnvOK(e)' /\ UserOK(e)' /\ ShareOK(e)' /\ TransferOK(e)'
      BY <1>1, <1>2, <1>5, <1>6 DEF EnvOK, UserOK, ShareOK, TransferOK
    <2>2. fdpage[e][loc[e].to] = NULL /\ \A i \in Slots : (fdpage[e][i] # NULL <=> data[e][i])
      BY <1>1, <1>5 DEF EachOK, PairsOK
    <2>3. PairsOK(e)'
      BY <1>1, <1>2, <1>3, <1>5, <1>6, <2>2 DEF PairsOK
    <2> QED
      BY <2>1, <2>3 DEF EachOK
  <1>8. status' = [status EXCEPT ![e] = status'[e]] /\ status'[e] = "LIVE"
    BY <1>1 DEF Inv, TypeOK
  <1> QED
    BY <1>1, <1>2, <1>3, <1>4, <1>5, <1>7, <1>8, PageStep

\* The return from dup with or without the new descriptor.
LEMMA DupReturn ==
  ASSUME Inv, NEW e \in Envs, At(e, "dupdata") \/ At(e, "dupfd"),
         NEW F \in [Slots -> Ends \cup {NULL}], NEW D \in [Slots -> BOOLEAN],
         fdpage' = [fdpage EXCEPT ![e] = F], data' = [data EXCEPT ![e] = D],
         \A i \in Slots : F[i] # NULL <=> D[i],
         Return(e), UnchangedBytes, status' = status, calls' = calls
  PROVE  Inv'
  <1>1. status[e] = "LIVE" /\ loc[e].at \in {"dupdata", "dupfd"} /\ EachOK(e) /\ loc[e].op = "dup"
    BY AtFacts, LabelFacts DEF At, EachOK, EnvOK
  <1>2. ring.made /\ ring' = ring
    BY <1>1, BusyMade DEF UnchangedBytes
  <1>3. loc'[e] = Idle /\ fdpage'[e] = F /\ data'[e] = D /\ Jump(e, Idle)
    BY PageAt DEF Return
  <1>4. EachOK(e)'
    BY <1>1, <1>2, <1>3, IdleType DEF EachOK, EnvOK, LabelOK, PairsOK, UserOK, ShareOK, TransferOK
  <1>5. status' = [status EXCEPT ![e] = status'[e]] /\ status'[e] = "LIVE"
    BY <1>1 DEF Inv, TypeOK
  <1> QED
    BY <1>1, <1>2, <1>3, <1>4, <1>5, IdleType, PageStep

LEMMA DupMapStep == ASSUME Inv, NEW e \in Envs, dup_map(e), calls' = calls PROVE Inv'
  <1> DEFINE i == loc[e].fd
             j == loc[e].to
  <1>1. status[e] = "LIVE" /\ loc[e].at \in {"dupdata", "dupfd"} /\ EachOK(e) /\ loc[e].op = "dup"
        /\ j \in Slots /\ i \in Slots /\ UnchangedBytes /\ status' = status
    BY AtFacts, LabelFacts DEF dup_map, At, EachOK, EnvOK, LocType
  <1>2. ring.made /\ PairsOK(e) /\ fdpage[e] \in [Slots -> Ends \cup {NULL}] /\ data[e] \in [Slots -> BOOLEAN]
    BY <1>1, BusyMade, AtFacts DEF EachOK
  <1> HIDE DEF i, j
  <1>3. CASE dup_err(e) /\ (At(e, "dupdata") \/ At(e, "dupfd"))
    <2> DEFINE F == [fdpage[e] EXCEPT ![j] = NULL]
               D == [data[e] EXCEPT ![j] = FALSE]
    <2>1. F \in [Slots -> Ends \cup {NULL}] /\ D \in [Slots -> BOOLEAN]
      BY <1>2
    <2>2. \A k \in Slots : F[k] # NULL <=> D[k]
      BY <1>1, <1>2 DEF PairsOK, j
    <2>3. fdpage' = [fdpage EXCEPT ![e] = F] /\ data' = [data EXCEPT ![e] = D] /\ Return(e)
      BY <1>3 DEF dup_err, MapFd, MapData, j, Inv, TypeOK
    <2> HIDE DEF F, D
    <2> QED
      BY <1>1, <1>3, <2>1, <2>2, <2>3, DupReturn
  <1>4. CASE At(e, "dupdata") /\ MapData(e, j, data[e][i]) /\ UNCHANGED fdpage /\ Goto(e, "dupfd")
    BY <1>1, <1>4, DupDataStep DEF i, j
  <1>5. CASE At(e, "dupfd") /\ fdpage[e][i] # NULL /\ MapFd(e, j, fdpage[e][i]) /\ UNCHANGED data /\ Return(e)
    <2> DEFINE F == [fdpage[e] EXCEPT ![j] = fdpage[e][i]]
               D == data[e]
    <2>1. F \in [Slots -> Ends \cup {NULL}] /\ D \in [Slots -> BOOLEAN]
      BY <1>1, <1>2
    <2>2. \A k \in Slots : F[k] # NULL <=> D[k]
      BY <1>1, <1>2, <1>5 DEF PairsOK, i, j, At
    <2>3. fdpage' = [fdpage EXCEPT ![e] = F] /\ data' = [data EXCEPT ![e] = D]
      BY <1>5 DEF MapFd, Inv, TypeOK
    <2> HIDE DEF F, D
    <2> QED
      BY <1>1, <1>5, <2>1, <2>2, <2>3, DupReturn
  <1> QED
    BY <1>3, <1>4, <1>5 DEF dup_map, i, j

\* close_all goes on to an open slot.
LEMMA CloseNextStep ==
  ASSUME Inv, NEW e \in Envs, At(e, "exit"), NEW i \in Slots, Jump(e, [loc[e] EXCEPT !.at = "closefd", !.to = i]),
         UnchangedPages, UnchangedBytes, status' = status, calls' = calls
  PROVE  Inv'
  <1> DEFINE r == [loc[e] EXCEPT !.at = "closefd", !.to = i]
  <1>1. status[e] = "LIVE" /\ loc[e].at = "exit" /\ EachOK(e) /\ loc[e] \in LocType /\ loc[e].op = "exit"
    BY AtFacts, LabelFacts DEF At, EachOK, EnvOK
  <1>2. r \in LocType /\ LabelOK(r) /\ r.op = "exit" /\ r.at = "closefd" /\ Jump(e, r)
    BY <1>1 DEF LocType, Labels, LabelOK
  <1>3. ring.made /\ ring' = ring
    BY <1>1, BusyMade DEF UnchangedBytes
  <1> HIDE DEF r
  <1>4. loc' = [loc EXCEPT ![e] = r] /\ Runs(e, TRUE) /\ loc'[e] = r
    BY <1>2, AtFacts DEF Jump
  <1>5. EachOK(e)'
    BY <1>1, <1>2, <1>3, <1>4 DEF EachOK, EnvOK, PairsOK, UserOK, ShareOK, TransferOK, UnchangedPages
  <1> QED
    BY <1>1, <1>2, <1>3, <1>4, <1>5, QuietStep

\* The end of an environment, wherever it was.
LEMMA ReleaseStep ==
  ASSUME Inv, NEW e \in Envs, status[e] = "LIVE", ring.made, Released(e), UnchangedBytes, calls' = calls
  PROVE  Inv'
  <1> DEFINE F == [i \in Slots |-> NULL]
             D == [i \in Slots |-> FALSE]
  <1>1. F \in [Slots -> Ends \cup {NULL}] /\ D \in [Slots -> BOOLEAN]
        /\ \A i \in Slots : F[i] = NULL /\ ~D[i]
    OBVIOUS
  <1>2. fdpage' = [fdpage EXCEPT ![e] = F] /\ data' = [data EXCEPT ![e] = D] /\ Jump(e, Idle)
    BY DEF Released, Return
  <1> HIDE DEF F, D
  <1>3. loc'[e] = Idle /\ fdpage'[e] = F /\ data'[e] = D
    BY <1>2, PageAt
  <1>4. status' = [status EXCEPT ![e] = status'[e]] /\ status'[e] = "DEAD" /\ ring' = ring
    BY DEF Released, Inv, TypeOK, UnchangedBytes
  <1>5. EachOK(e)'
    BY <1>1, <1>3, <1>4, IdleType DEF EachOK, EnvOK, LabelOK, PairsOK, UserOK, ShareOK, TransferOK
  <1> QED
    BY <1>1, <1>2, <1>3, <1>4, <1>5, IdleType, PageStep

LEMMA CloseAllStep == ASSUME Inv, NEW e \in Envs, close_all(e), calls' = calls PROVE Inv'
  <1> DEFINE open == {i \in Slots : fdpage[e][i] # NULL}
  <1>1. status[e] = "LIVE" /\ loc[e].at = "exit" /\ loc[e].op = "exit" /\ UnchangedBytes
    BY AtFacts, LabelFacts DEF close_all, At, EachOK, EnvOK
  <1>2. CASE open # {}
    <2>1. open \in SUBSET Slots
      OBVIOUS
    <2>2. IsFiniteSet(open) /\ open \subseteq Nat
      BY <2>1, SlotsFinite, FS_Subset
    <2> DEFINE i == Min(open)
    <2>3. i \in Slots
      BY <1>2, <2>2, MinLeast
    <2>4. UnchangedPages /\ status' = status /\ Jump(e, [loc[e] EXCEPT !.at = "closefd", !.to = i]) /\ At(e, "exit")
      BY <1>2 DEF close_all
    <2> HIDE DEF i
    <2> QED
      BY <1>1, <2>3, <2>4, CloseNextStep
  <1>3. CASE open = {}
    BY <1>1, <1>3, BusyMade, ReleaseStep DEF close_all
  <1> QED
    BY <1>2, <1>3

-----------------------------------------------------------------------------
(* The steps of pipe(). *)
LEMMA Building ==
  ASSUME Inv, NEW e \in Envs, status[e] = "LIVE", loc[e].at \in {"pipe1", "pipe2", "pipe3", "pipe4"}
  PROVE  /\ e = Root /\ ~ring.made /\ loc[e].op = "pipe" /\ loc[e].fd \in Slots
         /\ loc[e].at \in {"pipe3", "pipe4"} => loc[e].to \in Slots /\ loc[e].to # loc[e].fd
         /\ \A i \in Slots : fdpage[e][i] = Built(i) /\ (data[e][i] <=> loc[e].at = "pipe4" /\ i = loc[e].fd)
         /\ \A f \in Envs \ {e} : status[f] = "UNUSED" /\ loc[f] = Idle
  <1>1. EachOK(e) /\ loc[e] \in LocType /\ loc[e].op = "pipe"
    BY AtFacts, LabelFacts DEF EachOK, EnvOK
  <1>2. e = Root /\ ~ring.made
    BY <1>1 DEF EachOK, EnvOK
  <1>3. \A f \in Envs \ {e} : status[f] = "UNUSED" /\ loc[f] = Idle
    BY <1>2 DEF Inv, BuildOK, EachOK, EnvOK
  <1> QED
    BY <1>1, <1>2, <1>3 DEF Inv, BuildOK, LocType

\* What pipe() has mapped when it is at r.
HeldAt(r, F, D) ==
    \A i \in Slots : /\ F[i] = IF r.at \in {"pipe2", "pipe3", "pipe4"} /\ i = r.fd THEN "R"
                               ELSE IF r.at \in {"pipe3", "pipe4"} /\ i = r.to THEN "W" ELSE NULL
                     /\ D[i] <=> r.at = "pipe4" /\ i = r.fd

\* A step of pipe() before the last.
LEMMA BuildStep ==
  ASSUME Inv, NEW e \in Envs, status[e] = "LIVE", loc[e].at \in {"pipe1", "pipe2", "pipe3", "pipe4"},
         NEW r \in LocType, Jump(e, r), LabelOK(r), r.op \in {"none", "pipe"},
         NEW F \in [Slots -> Ends \cup {NULL}], NEW D \in [Slots -> BOOLEAN],
         fdpage' = [fdpage EXCEPT ![e] = F], data' = [data EXCEPT ![e] = D],
         r.at \in {"pipe3", "pipe4"} => r.to \in Slots /\ r.to # r.fd,
         HeldAt(r, F, D),
         status' = status, UnchangedBytes, calls' = calls
  PROVE  Inv'
  <1>1. e = Root /\ ~ring.made /\ loc[e].op = "pipe" /\ \A f \in Envs \ {e} : status[f] = "UNUSED"
    BY Building
  <1>2. loc'[e] = r /\ fdpage'[e] = F /\ data'[e] = D
    BY AtFacts DEF Jump, Inv, TypeOK
  <1>3. ring' = ring /\ r.at # "map" /\ r.at \notin {"ref1", "ref2", "take", "advance", "test"}
    BY LabelFacts DEF UnchangedBytes
  <1>4. EachOK(e)'
    BY <1>1, <1>2, <1>3 DEF EachOK, EnvOK, PairsOK, UserOK, ShareOK, TransferOK
  <1>5. BuildOK'
    <2>1. status'[Root] = "LIVE" /\ \A f \in Envs \ {Root} : status'[f] = "UNUSED"
      BY <1>1
    <2>2. loc'[Root] = r /\ fdpage'[Root] = F /\ data'[Root] = D
      BY <1>1, <1>2
    <2>3. \A i \in Slots : F[i] = Built(i)'
      BY <2>2 DEF Built, HeldAt
    <2>4. \A i \in Slots : D[i] <=> r.at = "pipe4" /\ i = r.fd
      BY DEF HeldAt
    <2> QED
      BY <2>1, <2>2, <2>3, <2>4 DEF BuildOK
  <1>6. loc' = [loc EXCEPT ![e] = r] /\ Runs(e, TRUE)
    BY DEF Jump
  <1>7. moved' \in [Envs -> BOOLEAN]
    BY <1>6, RunsType DEF Inv, TypeOK
  <1>8. calls' \in 0..MaxCalls
    BY DEF Inv, TypeOK
  <1>9. /\ fdpage' \in [Envs -> [Slots -> Ends \cup {NULL}]] /\ data' \in [Envs -> [Slots -> BOOLEAN]]
        /\ status' \in [Envs -> {"UNUSED", "CHILD", "LIVE", "DEAD"}]
    BY DEF Inv, TypeOK
  <1>10. Mine(e)
    BY <1>6 DEF Mine, Same, Inv, TypeOK
  <1> QED
    BY <1>3, <1>4, <1>5, <1>6, <1>7, <1>8, <1>9, <1>10, OwnStep

LEMMA AllocFdStep ==
  ASSUME Inv, NEW e \in Envs, AllocFd(e, "R", "pipe1", "pipe2") \/ AllocFd(e, "W", "pipe2", "pipe3"), calls' = calls
  PROVE  Inv'
  <1>1. /\ status[e] = "LIVE" /\ loc[e].at \in {"pipe1", "pipe2"} /\ UnchangedBytes /\ status' = status
        /\ loc[e] \in LocType /\ fdpage[e] \in [Slots -> Ends \cup {NULL}] /\ data[e] \in [Slots -> BOOLEAN]
        /\ data' = [data EXCEPT ![e] = data[e]]
    BY AtFacts DEF AllocFd, At, Inv, TypeOK
  <1>2. loc[e].op = "pipe" /\ loc[e].fd \in Slots
        /\ \A i \in Slots : fdpage[e][i] = Built(i) /\ ~data[e][i]
    BY <1>1, Building
  <1>3. \A i \in Slots : fdpage[e][i] = IF loc[e].at = "pipe2" /\ i = loc[e].fd THEN "R" ELSE NULL
    BY <1>1, <1>2, Building DEF Built
  <1>4. ASSUME NEW F \in [Slots -> Ends \cup {NULL}], fdpage' = [fdpage EXCEPT ![e] = F], Return(e),
               \A i \in Slots : F[i] = NULL
        PROVE  Inv'
    <2>1. Jump(e, Idle)
      BY <1>4 DEF Return
    <2> DEFINE D == data[e]
    <2>2. D \in [Slots -> BOOLEAN] /\ data' = [data EXCEPT ![e] = D] /\ \A i \in Slots : ~D[i]
      BY <1>1, <1>2
    <2>3. LabelOK(Idle) /\ Idle.op \in {"none", "pipe"} /\ Idle.at \notin {"pipe2", "pipe3", "pipe4"} /\ Idle \in LocType
      BY IdleType DEF LabelOK
    <2>4. loc[e].at \in {"pipe1", "pipe2", "pipe3", "pipe4"}
      BY <1>1
    <2>5. HeldAt(Idle, F, D)
      BY <1>4, <2>2, <2>3 DEF HeldAt
    <2> HIDE DEF D
    <2> QED
      BY <1>1, <1>4, <2>1, <2>2, <2>3, <2>4, <2>5, BuildStep
  <1>5. ASSUME NEW s \in Slots, NEW x \in Ends, MapFd(e, s, x), fdpage[e][s] = NULL, NEW r \in LocType, Jump(e, r),
               \/ loc[e].at = "pipe1" /\ x = "R" /\ r = [loc[e] EXCEPT !.at = "pipe2", !.fd = s]
               \/ loc[e].at = "pipe2" /\ x = "W" /\ r = [loc[e] EXCEPT !.at = "pipe3", !.to = s]
        PROVE  Inv'
    <2> DEFINE F == [fdpage[e] EXCEPT ![s] = x]
               D == data[e]
    <2>1. F \in [Slots -> Ends \cup {NULL}] /\ fdpage' = [fdpage EXCEPT ![e] = F]
          /\ \A i \in Slots : F[i] = IF i = s THEN x ELSE fdpage[e][i]
      BY <1>1, <1>5 DEF MapFd, Inv, TypeOK
    <2>2. D \in [Slots -> BOOLEAN] /\ data' = [data EXCEPT ![e] = D] /\ \A i \in Slots : ~D[i]
      BY <1>1, <1>2
    <2>3. \/ loc[e].at = "pipe1" /\ x = "R" /\ r.op = "pipe" /\ r.at = "pipe2" /\ r.fd = s
          \/ loc[e].at = "pipe2" /\ x = "W" /\ r.op = "pipe" /\ r.at = "pipe3" /\ r.fd = loc[e].fd /\ r.to = s
      BY <1>1, <1>2, <1>5 DEF LocType
    <2>4. LabelOK(r)
      BY <2>3 DEF LabelOK
    <2>5. r.at = "pipe3" => s # r.fd
      BY <1>2, <1>3, <1>5, <2>3 DEF Ends
    <2>6. \A i \in Slots : F[i] = IF r.at \in {"pipe2", "pipe3", "pipe4"} /\ i = r.fd THEN "R"
                                  ELSE IF r.at \in {"pipe3", "pipe4"} /\ i = r.to THEN "W" ELSE NULL
      BY <1>3, <2>1, <2>3, <2>5
    <2>7. HeldAt(r, F, D)
      BY <2>2, <2>3, <2>6 DEF HeldAt
    <2>8. r.op \in {"none", "pipe"} /\ (r.at \in {"pipe3", "pipe4"} => r.to \in Slots /\ r.to # r.fd)
          /\ loc[e].at \in {"pipe1", "pipe2", "pipe3", "pipe4"}
      BY <1>1, <1>5, <2>3, <2>5
    <2> HIDE DEF F, D
    <2> QED
      BY <1>1, <1>5, <2>1, <2>2, <2>4, <2>7, <2>8, BuildStep
  <1>6. CASE Free(e) # {} /\ MapFd(e, fd_alloc(e), "R") /\ loc[e].at = "pipe1"
             /\ Jump(e, [loc[e] EXCEPT !.at = "pipe2", !.fd = fd_alloc(e)])
    <2> DEFINE s == fd_alloc(e)
               r == [loc[e] EXCEPT !.at = "pipe2", !.fd = s]
    <2>1. s \in Slots /\ fdpage[e][s] = NULL
      BY <1>6, FdAlloc
    <2>2. r \in LocType
      <3> HIDE DEF s
      <3> QED
        BY <1>1, <2>1 DEF LocType, Labels
    <2> HIDE DEF s
    <2> QED
      BY <1>5, <1>6, <2>1, <2>2 DEF s, Ends
  <1>7. CASE Free(e) # {} /\ MapFd(e, fd_alloc(e), "W") /\ loc[e].at = "pipe2"
             /\ Jump(e, [loc[e] EXCEPT !.at = "pipe3", !.to = fd_alloc(e)])
    <2> DEFINE s == fd_alloc(e)
               r == [loc[e] EXCEPT !.at = "pipe3", !.to = s]
    <2>1. s \in Slots /\ fdpage[e][s] = NULL
      BY <1>7, FdAlloc
    <2>2. r \in LocType
      <3> HIDE DEF s
      <3> QED
        BY <1>1, <2>1 DEF LocType, Labels
    <2> HIDE DEF s
    <2> QED
      BY <1>5, <1>7, <2>1, <2>2 DEF s, Ends
  <1>8. CASE AllocFd(e, "R", "pipe1", "pipe2")
    <2>1. CASE /\ fdpage' = [fdpage EXCEPT ![e] = [i \in Slots |-> IF FALSE THEN NULL ELSE @[i]]]
               /\ Return(e) /\ loc[e].at = "pipe1"
      <3> DEFINE F == [i \in Slots |-> IF FALSE THEN NULL ELSE fdpage[e][i]]
      <3>1. F \in [Slots -> Ends \cup {NULL}] /\ \A i \in Slots : F[i] = NULL
        BY <1>1, <1>3, <2>1
      <3>2. fdpage' = [fdpage EXCEPT ![e] = F]
        BY <2>1
      <3> HIDE DEF F
      <3> QED
        BY <1>4, <2>1, <3>1, <3>2
    <2> QED
      BY <1>6, <1>8, <2>1 DEF AllocFd, At
  <1>9. CASE AllocFd(e, "W", "pipe2", "pipe3")
    <2>1. CASE /\ fdpage' = [fdpage EXCEPT ![e] = [i \in Slots |-> IF i = loc[e].fd THEN NULL ELSE @[i]]]
               /\ Return(e) /\ loc[e].at = "pipe2"
      <3> DEFINE F == [i \in Slots |-> IF i = loc[e].fd THEN NULL ELSE fdpage[e][i]]
      <3>1. F \in [Slots -> Ends \cup {NULL}] /\ \A i \in Slots : F[i] = NULL
        BY <1>1, <1>3, <2>1
      <3>2. fdpage' = [fdpage EXCEPT ![e] = F]
        BY <2>1
      <3> HIDE DEF F
      <3> QED
        BY <1>4, <2>1, <3>1, <3>2
    <2> QED
      BY <1>7, <1>9, <2>1 DEF AllocFd, At
  <1> QED
    BY <1>8, <1>9

\* err3 and err2 leave nothing behind.
LEMMA UnwindStep ==
  ASSUME Inv, NEW e \in Envs, status[e] = "LIVE", loc[e].at \in {"pipe3", "pipe4"}, Unwind(e),
         status' = status, UnchangedBytes, calls' = calls
  PROVE  Inv'
  <1> DEFINE F == [fdpage[e] EXCEPT ![loc[e].fd] = NULL, ![loc[e].to] = NULL]
             D == [data[e] EXCEPT ![loc[e].fd] = FALSE]
  <1>1. fdpage[e] \in [Slots -> Ends \cup {NULL}] /\ data[e] \in [Slots -> BOOLEAN]
    BY AtFacts
  <1>2. loc[e].fd \in Slots /\ loc[e].to \in Slots
        /\ \A i \in Slots : fdpage[e][i] = Built(i) /\ (data[e][i] => i = loc[e].fd)
    BY Building
  <1>3. \A i \in Slots : i # loc[e].fd /\ i # loc[e].to => fdpage[e][i] = NULL
    BY <1>2, Building DEF Built
  <1>4. F \in [Slots -> Ends \cup {NULL}] /\ D \in [Slots -> BOOLEAN] /\ \A i \in Slots : F[i] = NULL /\ ~D[i]
    BY <1>1, <1>2, <1>3
  <1>5. fdpage' = [fdpage EXCEPT ![e] = F] /\ data' = [data EXCEPT ![e] = D] /\ Jump(e, Idle)
    BY <1>1, <1>2 DEF Unwind, MapData, Return, Inv, TypeOK
  <1> HIDE DEF F, D
  <1>6. LabelOK(Idle) /\ Idle.op \in {"none", "pipe"} /\ Idle.at \notin {"pipe2", "pipe3", "pipe4"} /\ Idle \in LocType
    BY IdleType DEF LabelOK
  <1>7. HeldAt(Idle, F, D)
    BY <1>4, <1>6 DEF HeldAt
  <1>8. loc[e].at \in {"pipe1", "pipe2", "pipe3", "pipe4"}
    OBVIOUS
  <1> QED
    BY <1>4, <1>5, <1>6, <1>7, <1>8, BuildStep

LEMMA AllocPipeStep == ASSUME Inv, NEW e \in Envs, AllocPipe(e), calls' = calls PROVE Inv'
  <1>1. /\ status[e] = "LIVE" /\ loc[e].at = "pipe3" /\ status' = status /\ UnchangedBytes
        /\ fdpage[e] \in [Slots -> Ends \cup {NULL}] /\ data[e] \in [Slots -> BOOLEAN] /\ loc[e] \in LocType
    BY AtFacts DEF AllocPipe, At
  <1>2. CASE Unwind(e)
    BY <1>1, <1>2, UnwindStep
  <1>3. CASE MapData(e, loc[e].fd, TRUE) /\ Goto(e, "pipe4") /\ UNCHANGED fdpage
    <2> DEFINE r == [loc[e] EXCEPT !.at = "pipe4"]
               F == fdpage[e]
               D == [data[e] EXCEPT ![loc[e].fd] = TRUE]
    <2>1. loc[e].fd \in Slots /\ loc[e].to \in Slots /\ loc[e].to # loc[e].fd /\ loc[e].op = "pipe"
          /\ \A i \in Slots : fdpage[e][i] = Built(i) /\ ~data[e][i]
      BY <1>1, Building
    <2>2. r \in LocType /\ LabelOK(r) /\ r.op = "pipe" /\ r.at = "pipe4" /\ r.fd = loc[e].fd /\ r.to = loc[e].to /\ Jump(e, r)
      BY <1>1, <1>3, <2>1 DEF Goto, LocType, Labels, LabelOK
    <2>3. \A i \in Slots : F[i] = IF i = loc[e].fd THEN "R" ELSE IF i = loc[e].to THEN "W" ELSE NULL
      BY <1>1, <2>1, Building DEF Built
    <2>4. D \in [Slots -> BOOLEAN] /\ \A i \in Slots : D[i] = (i = loc[e].fd)
      BY <1>1, <2>1
    <2>5. fdpage' = [fdpage EXCEPT ![e] = F] /\ data' = [data EXCEPT ![e] = D]
      BY <1>3 DEF MapData, Inv, TypeOK
    <2> HIDE DEF r, F, D
    <2>6. HeldAt(r, F, D)
      BY <2>2, <2>3, <2>4 DEF HeldAt
    <2>7. F \in [Slots -> Ends \cup {NULL}] /\ loc[e].at \in {"pipe1", "pipe2", "pipe3", "pipe4"}
      BY <1>1 DEF F
    <2> QED
      BY <1>1, <2>1, <2>2, <2>4, <2>5, <2>6, <2>7, BuildStep
  <1> QED
    BY <1>2, <1>3 DEF AllocPipe

\* pipe() has succeeded: both descriptors and the pipe page beside each.
LEMMA MadeStep ==
  ASSUME Inv, NEW e \in Envs, status[e] = "LIVE", loc[e].at = "pipe4", MapData(e, loc[e].to, TRUE),
         ring' = [ring EXCEPT !.made = TRUE], Return(e), UNCHANGED <<fdpage, status, sent, received>>, calls' = calls
  PROVE  Inv'
  <1>1. /\ e = Root /\ ~ring.made /\ loc[e].fd \in Slots /\ loc[e].to \in Slots /\ loc[e].to # loc[e].fd
        /\ \A i \in Slots : fdpage[e][i] = Built(i) /\ (data[e][i] <=> i = loc[e].fd)
        /\ \A f \in Envs \ {e} : status[f] = "UNUSED" /\ loc[f] = Idle
    BY Building
  <1>2. \A i \in Slots : fdpage[e][i] = IF i = loc[e].fd THEN "R" ELSE IF i = loc[e].to THEN "W" ELSE NULL
    BY <1>1 DEF Built
  <1>3. loc' = [loc EXCEPT ![e] = Idle] /\ Runs(e, TRUE) /\ loc'[e] = Idle
    BY AtFacts DEF Return, Jump
  <1>4. \A i \in Slots : data'[e][i] <=> (i = loc[e].fd \/ i = loc[e].to)
    BY <1>1, AtFacts DEF MapData, Inv, TypeOK
  <1>5. RingType' /\ ring'.made /\ ring'.rpos = ring.rpos /\ ring'.wpos = ring.wpos /\ ring'.buf = ring.buf
    BY DEF Inv, BytesOK, RingType
  <1>6. BytesOK'
    BY <1>5 DEF Inv, BytesOK, Index
  <1>7. TypeOK'
    <2>1. moved' \in [Envs -> BOOLEAN]
      BY <1>3, RunsType DEF Inv, TypeOK
    <2>2. loc' \in [Envs -> LocType]
      BY <1>3, IdleType, AtFacts
    <2>3. data' \in [Envs -> [Slots -> BOOLEAN]]
      BY DEF MapData, Inv, TypeOK
    <2> QED
      BY <1>5, <2>1, <2>2, <2>3 DEF TypeOK, LocType, Inv, RingType
  <1>8. Alone' /\ BuildOK'
    BY <1>3, <1>5, IdleType, AloneKept DEF BuildOK
  <1>9. EachOK(e)'
    <2>1. PairsOK(e)'
      BY <1>2, <1>3, <1>4, IdleType DEF PairsOK, Ends
    <2> QED
      BY <1>3, <2>1, IdleType DEF EachOK, EnvOK, LabelOK, UserOK, ShareOK, TransferOK
  <1>10. ASSUME NEW f \in Envs \ {e} PROVE EachOK(f)'
    <2>1. loc'[f] = Idle /\ status'[f] = "UNUSED" /\ fdpage'[f] = fdpage[f] /\ data'[f] = data[f] /\ EachOK(f)
      BY <1>1, <1>3, AtFacts DEF MapData, Inv, TypeOK
    <2> QED
      BY <2>1, IdleType DEF EachOK, EnvOK, PairsOK, LabelOK, UserOK, ShareOK, TransferOK
  <1> QED
    BY <1>6, <1>7, <1>8, <1>9, <1>10 DEF Inv

LEMMA MapPipeStep == ASSUME Inv, NEW e \in Envs, MapPipe(e), calls' = calls PROVE Inv'
  <1>1. status[e] = "LIVE" /\ loc[e].at = "pipe4" /\ status' = status /\ UNCHANGED <<sent, received>>
    BY DEF MapPipe, At
  <1>2. CASE Unwind(e) /\ UNCHANGED ring
    BY <1>1, <1>2, UnwindStep DEF UnchangedBytes
  <1>3. CASE /\ MapData(e, loc[e].to, TRUE) /\ ring' = [ring EXCEPT !.made = TRUE]
             /\ Return(e) /\ UNCHANGED fdpage
    BY <1>1, <1>3, MadeStep
  <1> QED
    BY <1>2, <1>3 DEF MapPipe

-----------------------------------------------------------------------------
(* The bytes. *)

LEMMA ModDiffer ==
  ASSUME NEW B \in Nat \ {0}, NEW k \in Nat, NEW w \in Nat, k < w, w < k + B
  PROVE  k % B # w % B
  <1> DEFINE x == k \div B
             y == w \div B
  <1>1. x \in Int /\ y \in Int /\ k = B * x + (k % B) /\ w = B * y + (w % B)
    OBVIOUS
  <1>2. ASSUME k % B = w % B PROVE FALSE
    <2>1. w - k = B * y - B * x
      BY <1>1, <1>2
    <2>2. B * y - B * x = B * (y - x)
      BY <1>1
    <2> HIDE DEF x, y
    <2> DEFINE d == y - x
    <2>3. d \in Int /\ B * d > 0 /\ B * d < B
      BY <1>1, <2>1, <2>2
    <2> HIDE DEF d
    <2>4. d <= 0 => B * d <= 0
      BY <2>3
    <2>5. d >= 1 => B * d >= B
      BY <2>3
    <2> QED
      BY <2>3, <2>4, <2>5
  <1> QED
    BY <1>2

\* A position has a place in the buffer, and those on the way have different ones.
LEMMA Places ==
  /\ \A k \in Nat : Index(k) \in 0..(BufSize - 1)
  /\ \A k, w \in Nat : k < w /\ w < k + BufSize => Index(k) # Index(w)
  BY ModDiffer DEF Index

\* A step of read or write that moves a byte or a position.
LEMMA DataStep ==
  ASSUME Inv, NEW e \in Envs, status[e] = "LIVE", loc[e].op \in {"read", "write"},
         NEW r \in LocType, LabelOK(r), r = Idle \/ (r.op = loc[e].op /\ r.fd = loc[e].fd), Jump(e, r),
         UnchangedPages, status' = status, calls' = calls, RingType', ring'.made = ring.made,
         sent' \in Seq(1..MaxBytes), received' \in Seq(0..MaxBytes), BytesOK', \A f \in Envs : TransferOK(f)'
  PROVE  Inv'
  <1>1. /\ loc' = [loc EXCEPT ![e] = r] /\ Runs(e, TRUE) /\ loc'[e] = r /\ ring.made
        /\ r.at # "map" /\ r.at \notin {"closedata", "dupdata", "dupfd"} /\ r.op \in {"none", loc[e].op}
        /\ loc[e].at \in {"test", "ref1", "ref2", "take", "advance"}
    BY AtFacts, LabelFacts, BusyMade, IdleType, ZenonT(30) DEF Jump, EachOK, EnvOK
  <1>2. moved' \in [Envs -> BOOLEAN]
    BY <1>1, RunsType DEF Inv, TypeOK
  <1>3. Mine(e)
    BY <1>1 DEF Mine, Same, UnchangedPages, Inv, TypeOK
  <1>4. \A f \in Envs \ {e} : EnvOK(f)' /\ PairsOK(f)' /\ UserOK(f)' /\ ShareOK(f)'
    BY <1>1, <1>3, OthersEach
  <1>5. EnvOK(e)' /\ PairsOK(e)' /\ UserOK(e)' /\ ShareOK(e)'
    BY <1>1, AtFacts, IdleType DEF EachOK, EnvOK, PairsOK, UserOK, ShareOK, UnchangedPages
  <1>6. Alone'
    BY <1>1, AloneKept
  <1>7. TypeOK'
    <2>1. loc' \in [Envs -> LocType]
      BY <1>1, AtFacts
    <2> QED
      BY <1>2, <2>1 DEF TypeOK, LocType, Inv, RingType, UnchangedPages
  <1>8. BuildOK'
    BY <1>1 DEF BuildOK
  <1> QED
    BY <1>4, <1>5, <1>6, <1>7, <1>8 DEF Inv, EachOK

LEMMA AdvanceLoc ==
  ASSUME NEW l \in LocType, l.op \in {"read", "write"}, NEW m \in Nat
  PROVE  LET r == [l EXCEPT !.at = "advance", !.n = m] IN
         r \in LocType /\ LabelOK(r) /\ r.op = l.op /\ r.fd = l.fd /\ r.at = "advance" /\ r.n = m
  <1> DEFINE r == [l EXCEPT !.at = "advance", !.n = m]
  <1>1. r \in LocType /\ r.op = l.op /\ r.fd = l.fd /\ r.at = "advance" /\ r.n = m
    BY DEF LocType, Labels
  <1> HIDE DEF r
  <1>2. LabelOK(r)
    BY <1>1 DEF LabelOK
  <1> QED
    BY <1>1, <1>2 DEF r

LEMMA TransferStep == ASSUME Inv, NEW e \in Envs, Transfer(e), calls' = calls PROVE Inv'
  <1>1. /\ status[e] = "LIVE" /\ loc[e].at = "take" /\ loc[e].op \in {"read", "write"} /\ EachOK(e)
        /\ UnchangedPages /\ status' = status /\ sent' = sent /\ received' = received /\ loc[e] \in LocType
    BY AtFacts, LabelFacts DEF Transfer, At, EachOK, EnvOK
  <1>2. /\ ring.rpos \in Nat /\ ring.wpos \in Nat /\ ring.buf \in [0..(BufSize - 1) -> 0..MaxBytes]
        /\ ring.rpos <= ring.wpos /\ ring.wpos <= MaxBytes /\ Len(sent) = ring.wpos /\ Len(received) = ring.rpos
        /\ RingType
        /\ \A k \in 0..(MaxBytes - 1) : ring.rpos <= k /\ k < ring.wpos => ring.buf[Index(k)] = k + 1
    BY DEF Inv, BytesOK, RingType
  <1>3. \A f \in Envs \ {e} : loc'[f] = loc[f] /\ loc[f].op # loc[e].op /\ TransferOK(f)
    BY <1>1, AtFacts DEF Transfer, Jump, Inv, Alone, EachOK
  <1>4. CASE loc[e].op = "read"
    <2> DEFINE m == ring.rpos + 1
               r == [loc[e] EXCEPT !.at = "advance", !.n = m]
    <2>1. ring.rpos < ring.wpos
      BY <1>1, <1>4 DEF EachOK, TransferOK
    <2>2. ring.buf[Index(ring.rpos)] = ring.rpos + 1
      BY <1>2, <2>1
    <2>3. Jump(e, r) /\ ring' = ring
      BY <1>4, <2>2 DEF Transfer
    <2>4. r \in LocType /\ LabelOK(r) /\ r.op = "read" /\ r.fd = loc[e].fd /\ r.at = "advance" /\ r.n = ring.rpos + 1
      <3>1. m \in Nat
        BY <1>2
      <3>2. r \in LocType /\ LabelOK(r) /\ r.op = loc[e].op /\ r.fd = loc[e].fd /\ r.at = "advance" /\ r.n = m
        <4> HIDE DEF m
        <4> QED
          BY <1>1, <3>1, AdvanceLoc
      <3> QED
        BY <1>4, <3>2
    <2> HIDE DEF r
    <2>5. loc'[e] = r
      BY <2>3, AtFacts DEF Jump
    <2>6. \A f \in Envs : TransferOK(f)'
      BY <1>3, <2>1, <2>3, <2>4, <2>5 DEF TransferOK, Index
    <2>7. BytesOK' /\ RingType'
      BY <1>1, <2>3 DEF Inv, BytesOK, RingType, Index
    <2>8. sent' \in Seq(1..MaxBytes) /\ received' \in Seq(0..MaxBytes)
      BY <1>1 DEF Inv, TypeOK
    <2> QED
      BY <1>1, <1>4, <2>3, <2>4, <2>6, <2>7, <2>8, DataStep
  <1>5. CASE loc[e].op = "write"
    <2> DEFINE w == ring.wpos
               m == w + 1
               r == [loc[e] EXCEPT !.at = "advance", !.n = m]
    <2>1. w < MaxBytes /\ w < ring.rpos + BufSize
      BY <1>1, <1>5 DEF EachOK, TransferOK
    <2>2. Jump(e, r) /\ ring' = [ring EXCEPT !.buf[Index(w)] = w + 1]
      BY <1>2, <1>5 DEF Transfer
    <2>3. r \in LocType /\ LabelOK(r) /\ r.op = "write" /\ r.fd = loc[e].fd /\ r.at = "advance" /\ r.n = w + 1
      <3>1. m \in Nat
        BY <1>2
      <3>2. r \in LocType /\ LabelOK(r) /\ r.op = loc[e].op /\ r.fd = loc[e].fd /\ r.at = "advance" /\ r.n = m
        <4> HIDE DEF m
        <4> QED
          BY <1>1, <3>1, AdvanceLoc
      <3> QED
        BY <1>5, <3>2
    <2> HIDE DEF r
    <2>4. loc'[e] = r
      BY <2>2, AtFacts DEF Jump
    <2>5. Index(w) \in 0..(BufSize - 1) /\ w + 1 \in 0..MaxBytes
      <3>1. w \in Nat /\ w + 1 \in 0..MaxBytes
        BY <1>2, <2>1
      <3> HIDE DEF w
      <3> QED
        BY <3>1, Places
    <2>6. /\ ring'.rpos = ring.rpos /\ ring'.wpos = w /\ ring'.made = ring.made /\ RingType'
          /\ ring'.buf = [ring.buf EXCEPT ![Index(w)] = w + 1]
      BY <1>2, <2>2, <2>5 DEF RingType
    <2>7. \A k \in 0..(MaxBytes - 1) : ring.rpos <= k /\ k < w => ring'.buf[Index(k)] = k + 1
      <3> SUFFICES ASSUME NEW k \in 0..(MaxBytes - 1), ring.rpos <= k, k < w PROVE ring'.buf[Index(k)] = k + 1
        OBVIOUS
      <3>1. Index(k) # Index(w) /\ Index(k) \in 0..(BufSize - 1)
        <4>1. k \in Nat /\ w \in Nat /\ k < w /\ w < k + BufSize
          BY <1>2, <2>1
        <4> HIDE DEF w
        <4> QED
          BY <4>1, Places
      <3> QED
        BY <1>2, <2>6, <3>1
    <2>8. BytesOK'
      BY <1>1, <1>2, <2>6, <2>7 DEF Inv, BytesOK, Index
    <2>9. ring'.buf[Index(w)] = w + 1
      BY <1>2, <2>5, <2>6
    <2>10. \A f \in Envs : TransferOK(f)'
      BY <1>3, <1>5, <2>1, <2>3, <2>4, <2>6, <2>9 DEF TransferOK, Index
    <2>11. sent' \in Seq(1..MaxBytes) /\ received' \in Seq(0..MaxBytes)
      BY <1>1 DEF Inv, TypeOK
    <2> QED
      BY <1>1, <1>5, <2>2, <2>3, <2>6, <2>8, <2>10, <2>11, DataStep
  <1> QED
    BY <1>1, <1>4, <1>5

\* Where a call goes after a byte.
LEMMA NextLoc ==
  ASSUME Inv, NEW e \in Envs, Advance(e), calls' = calls
  PROVE  \E r \in LocType : /\ LabelOK(r) /\ Jump(e, r)
                            /\ r = Idle \/ (/\ r.op = loc[e].op /\ r.fd = loc[e].fd /\ r.at = "test"
                                            /\ loc[e].op = "write" => ring.wpos + 1 < MaxBytes)
  <1>1. loc[e].at = "advance" /\ loc[e].op \in {"read", "write"} /\ loc[e].fd \in Slots
    BY AtFacts, LabelFacts DEF Advance, At, EachOK, EnvOK, LocType
  <1>2. CASE Return(e)
    <2>1. Idle \in LocType /\ LabelOK(Idle) /\ Jump(e, Idle)
      BY <1>2, IdleType DEF Return, LabelOK
    <2> QED
      BY <2>1
  <1>3. CASE /\ loc[e].op = "write" => ring.wpos + 1 < MaxBytes
             /\ Jump(e, [Idle EXCEPT !.op = loc[e].op, !.at = "test", !.fd = loc[e].fd, !.got = TRUE])
    <2> DEFINE op == loc[e].op
               fd == loc[e].fd
               r == [Idle EXCEPT !.op = op, !.at = "test", !.fd = fd, !.got = TRUE]
    <2>1. r \in LocType /\ LabelOK(r) /\ r.op = op /\ r.fd = fd /\ r.at = "test"
      <3>1. op \in {"read", "write"} /\ fd \in Slots
        BY <1>1
      <3> HIDE DEF op, fd
      <3> QED
        BY <3>1 DEF Idle, LocType, Labels, LabelOK
    <2> HIDE DEF r
    <2>2. Jump(e, r)
      BY <1>3 DEF r
    <2> QED
      BY <1>3, <2>1, <2>2
  <1> QED
    BY <1>2, <1>3 DEF Advance

LEMMA AdvanceStep == ASSUME Inv, NEW e \in Envs, Advance(e), calls' = calls PROVE Inv'
  <1>1. /\ status[e] = "LIVE" /\ loc[e].at = "advance" /\ loc[e].op \in {"read", "write"} /\ EachOK(e)
        /\ UnchangedPages /\ status' = status
    BY AtFacts, LabelFacts DEF Advance, At, EachOK, EnvOK
  <1>2. /\ ring.rpos \in Nat /\ ring.wpos \in Nat /\ ring.rpos <= ring.wpos /\ ring.wpos <= MaxBytes
        /\ Len(sent) = ring.wpos /\ Len(received) = ring.rpos /\ ring.wpos <= ring.rpos + BufSize
        /\ sent \in Seq(1..MaxBytes) /\ received \in Seq(0..MaxBytes) /\ RingType
        /\ (\A k \in 1..ring.wpos : sent[k] = k)
        /\ \A k \in 0..(MaxBytes - 1) : ring.rpos <= k /\ k < ring.wpos => ring.buf[Index(k)] = k + 1
    BY DEF Inv, BytesOK, RingType, TypeOK
  <1>3. PICK r \in LocType : /\ LabelOK(r) /\ Jump(e, r)
                             /\ r = Idle \/ (/\ r.op = loc[e].op /\ r.fd = loc[e].fd /\ r.at = "test"
                                             /\ loc[e].op = "write" => ring.wpos + 1 < MaxBytes)
    BY NextLoc
  <1>4. loc'[e] = r /\ r.at \notin {"take", "advance"}
    BY <1>3, AtFacts, IdleType DEF Jump
  <1>5. \A f \in Envs \ {e} : loc'[f] = loc[f] /\ loc[f].op # loc[e].op /\ TransferOK(f)
    BY <1>1, <1>3, AtFacts DEF Jump, Inv, Alone, EachOK
  <1>6. CASE loc[e].op = "read"
    <2>1. ring.rpos < ring.wpos /\ loc[e].n = ring.rpos + 1
      BY <1>1, <1>6 DEF EachOK, TransferOK
    <2>2. ring' = [ring EXCEPT !.rpos = ring.rpos + 1] /\ received' = Append(received, ring.rpos + 1) /\ sent' = sent
      BY <1>6, <2>1 DEF Advance
    <2>3. /\ ring'.rpos = ring.rpos + 1 /\ ring'.wpos = ring.wpos /\ ring'.buf = ring.buf
          /\ ring'.made = ring.made /\ RingType'
      <3> DEFINE p == ring.rpos + 1
      <3>1. p \in 0..MaxBytes
        BY <1>2, <2>1
      <3> HIDE DEF p
      <3>2. ring' = [ring EXCEPT !.rpos = p]
        BY <2>2 DEF p
      <3>3. ring'.rpos = p /\ ring'.wpos = ring.wpos /\ ring'.buf = ring.buf /\ ring'.made = ring.made /\ RingType'
        BY <1>2, <3>1, <3>2 DEF RingType
      <3> QED
        BY <3>3 DEF p
    <2>4. received' \in Seq(0..MaxBytes) /\ Len(received') = ring.rpos + 1
      <3>1. ring.rpos + 1 \in 0..MaxBytes
        BY <1>2, <2>1
      <3> QED
        BY <1>2, <2>2, <3>1
    <2>5. BytesOK'
      BY <1>2, <2>1, <2>2, <2>3, <2>4, SMTT(30) DEF BytesOK, Index
    <2>6. \A f \in Envs : TransferOK(f)'
      <3>1. ASSUME NEW f \in Envs \ {e} PROVE TransferOK(f)'
        <4>1. loc[f].op # "read"
          BY <1>5, <1>6
        <4> QED
          BY <1>2, <1>5, <2>3, <4>1 DEF TransferOK
      <3>2. TransferOK(e)'
        BY <1>3, <1>4, <1>6, IdleType DEF TransferOK
      <3> QED
        BY <3>1, <3>2
    <2> QED
      BY <1>1, <1>2, <1>3, <2>2, <2>3, <2>4, <2>5, <2>6, DataStep
  <1>7. CASE loc[e].op = "write"
    <2>1. /\ ring.wpos < MaxBytes /\ ring.wpos < ring.rpos + BufSize /\ loc[e].n = ring.wpos + 1
          /\ ring.buf[Index(ring.wpos)] = ring.wpos + 1
      BY <1>1, <1>7 DEF EachOK, TransferOK
    <2>2. ring' = [ring EXCEPT !.wpos = ring.wpos + 1] /\ sent' = Append(sent, ring.wpos + 1) /\ received' = received
      BY <1>7, <2>1 DEF Advance
    <2>3. /\ ring'.rpos = ring.rpos /\ ring'.wpos = ring.wpos + 1 /\ ring'.buf = ring.buf
          /\ ring'.made = ring.made /\ RingType'
      <3> DEFINE p == ring.wpos + 1
      <3>1. p \in 0..MaxBytes
        BY <1>2, <2>1
      <3> HIDE DEF p
      <3>2. ring' = [ring EXCEPT !.wpos = p]
        BY <2>2 DEF p
      <3>3. ring'.rpos = ring.rpos /\ ring'.wpos = p /\ ring'.buf = ring.buf /\ ring'.made = ring.made /\ RingType'
        BY <1>2, <3>1, <3>2 DEF RingType
      <3> QED
        BY <3>3 DEF p
    <2>4. /\ sent' \in Seq(1..MaxBytes) /\ Len(sent') = ring.wpos + 1
          /\ \A k \in 1..(ring.wpos + 1) : sent'[k] = k
      BY <1>2, <2>1, <2>2
    <2>5. \A k \in 0..(MaxBytes - 1) : ring.rpos <= k /\ k < ring.wpos + 1 => ring.buf[Index(k)] = k + 1
      <3> SUFFICES ASSUME NEW k \in 0..(MaxBytes - 1), ring.rpos <= k, k < ring.wpos + 1
                   PROVE  ring.buf[Index(k)] = k + 1
        OBVIOUS
      <3>1. k < ring.wpos \/ k = ring.wpos
        BY <1>2
      <3> QED
        BY <1>2, <2>1, <3>1
    <2>6. BytesOK'
      BY <1>2, <2>1, <2>2, <2>3, <2>4, <2>5 DEF BytesOK, Index
    <2>7. \A f \in Envs : TransferOK(f)'
      <3>1. ASSUME NEW f \in Envs \ {e} PROVE TransferOK(f)'
        <4>1. loc[f].op # "write"
          BY <1>5, <1>7
        <4> QED
          BY <1>2, <1>5, <2>3, <4>1 DEF TransferOK
      <3>2. TransferOK(e)'
        <4>1. r.op = "write" => ring.wpos + 1 < MaxBytes
          BY <1>3, <1>7, IdleType
        <4> QED
          BY <1>4, <2>3, <4>1, <1>3, <1>7, IdleType DEF TransferOK
      <3> QED
        BY <3>1, <3>2
    <2> QED
      BY <1>1, <1>2, <1>3, <2>2, <2>3, <2>4, <2>6, <2>7, DataStep
  <1> QED
    BY <1>1, <1>6, <1>7

-----------------------------------------------------------------------------
(* fork. *)

\* A step of e that changes nothing but itself and its child.
LEMMA ChildStep ==
  ASSUME Inv, NEW e \in Envs, status[e] = "LIVE", ring.made, NEW c \in Envs, c # e, loc[c] = Idle,
         \A f \in Envs : f # e => ~(loc[f].at = "map" /\ loc[f].to = c),
         NEW r \in LocType, Jump(e, r), r.op \in {"none", "fork"}, r.at = "map" => r.to = c,
         \A f \in Envs : f # c => fdpage'[f] = fdpage[f] /\ data'[f] = data[f] /\ status'[f] = status[f],
         fdpage' \in [Envs -> [Slots -> Ends \cup {NULL}]], data' \in [Envs -> [Slots -> BOOLEAN]],
         status' \in [Envs -> {"UNUSED", "CHILD", "LIVE", "DEAD"}], UnchangedBytes, Counted,
         EachOK(e)', EnvOK(c)', PairsOK(c)'
  PROVE  Inv'
  <1>1. loc' = [loc EXCEPT ![e] = r] /\ Runs(e, TRUE) /\ ring' = ring /\ loc'[e] = r
        /\ \A f \in Envs : f # e => loc'[f] = loc[f]
    BY AtFacts DEF Jump, UnchangedBytes
  <1>2. moved' \in [Envs -> BOOLEAN] /\ calls' \in 0..MaxCalls
    BY <1>1, RunsType, CallsType DEF Inv, TypeOK, Counted
  <1>3. TypeOK' /\ BytesOK'
    BY <1>1, <1>2, TypeStep
  <1>4. Alone' /\ BuildOK'
    BY <1>1, AloneKept DEF BuildOK
  <1>5. EachOK(c)'
    BY <1>1, IdleType DEF EachOK, UserOK, ShareOK, TransferOK
  <1>6. ASSUME NEW f \in Envs, f # e, f # c PROVE EachOK(f)'
    <2>1. loc'[f] = loc[f] /\ fdpage'[f] = fdpage[f] /\ data'[f] = data[f] /\ status'[f] = status[f] /\ EachOK(f)
      BY <1>1, <1>6 DEF Inv
    <2>2. EnvOK(f)' /\ PairsOK(f)' /\ UserOK(f)' /\ TransferOK(f)'
      BY <1>1, <2>1, TransferSame DEF EachOK, EnvOK, PairsOK, UserOK
    <2>3. ShareOK(f)'
      <3> SUFFICES ASSUME loc[f].at = "map" PROVE ShareOK(f)'
        BY <2>1 DEF ShareOK
      <3> DEFINE d == loc[f].to
      <3>1. d \in Envs /\ status[d] = "CHILD" /\ d # c
        BY <1>6, <2>1 DEF EachOK, EnvOK, LabelOK, ShareOK, Idle
      <3>2. d # e /\ fdpage'[d] = fdpage[d] /\ data'[d] = data[d] /\ status'[d] = status[d]
        BY <3>1
      <3>3. \A g \in Envs : loc'[g].at = "map" /\ loc'[g].to = d => g # e /\ loc'[g] = loc[g]
        BY <1>1, <3>1
      <3> HIDE DEF d
      <3>4. loc'[f].to = d /\ loc[f].to = d
        BY <2>1 DEF d
      <3> QED
        BY <1>1, <2>1, <3>1, <3>2, <3>3, <3>4 DEF ShareOK, EachOK
    <2> QED
      BY <2>2, <2>3 DEF EachOK
  <1> QED
    BY <1>3, <1>4, <1>5, <1>6 DEF Inv

LEMMA ForkStep == ASSUME Inv, NEW e \in Envs, NEW c \in Envs, fork(e, c), Counted PROVE Inv'
  <1> DEFINE r == [Idle EXCEPT !.op = "fork", !.at = "map", !.to = c]
  <1>1. /\ status[e] = "LIVE" /\ loc[e].at = "idle" /\ Jump(e, r) /\ ring.made /\ status[c] = "UNUSED"
        /\ UnchangedPages /\ UnchangedBytes /\ status' = [status EXCEPT ![c] = "CHILD"]
    BY DEF fork, At
  <1>2. r \in LocType /\ LabelOK(r) /\ r.op = "fork" /\ r.at = "map" /\ r.to = c /\ r.n = 0
    BY SlotsFinite DEF Idle, LocType, Labels, LabelOK
  <1> HIDE DEF r
  <1>3. c # e /\ EachOK(c) /\ EachOK(e) /\ loc[c] = Idle /\ ring' = ring /\ loc'[e] = r /\ loc'[c] = Idle
        /\ \A f \in Envs : f # e => loc'[f] = loc[f]
    BY <1>1, AtFacts DEF EachOK, EnvOK, Jump, UnchangedBytes
  <1>4. \A f \in Envs : ~(loc[f].at = "map" /\ loc[f].to = c)
    BY <1>1 DEF Inv, EachOK, ShareOK
  <1>5. \A i \in Slots : fdpage[c][i] = NULL /\ ~data[c][i]
    BY <1>1, <1>3 DEF EachOK, EnvOK
  <1>6. /\ status' \in [Envs -> {"UNUSED", "CHILD", "LIVE", "DEAD"}] /\ status'[c] = "CHILD" /\ status'[e] = "LIVE"
        /\ \A f \in Envs : f # c => status'[f] = status[f]
    BY <1>1, <1>3 DEF Inv, TypeOK
  <1>7. EnvOK(c)' /\ PairsOK(c)'
    BY <1>3, <1>6 DEF EachOK, EnvOK, PairsOK
  <1>8. EachOK(e)'
    <2>1. ShareOK(e)'
      <3>1. \A i \in Slots : i \in Nat /\ NSlots + i \in Nat /\ data[c][i] \in BOOLEAN
        <4>1. data[c] \in [Slots -> BOOLEAN]
          BY AtFacts
        <4>2. \A i \in Slots : i \in Nat /\ NSlots + i \in Nat
          BY SlotsFinite
        <4> QED
          BY <4>1, <4>2
      <3>2. \A f \in Envs : loc'[f].at = "map" /\ loc'[f].to = c => f = e
        BY <1>3, <1>4
      <3>3. \A i \in Slots : /\ fdpage'[c][i] = IF i < 0 THEN fdpage'[e][i] ELSE NULL
                             /\ data'[c][i] = (NSlots + i < 0 /\ data'[e][i])
        BY <1>1, <1>5, <3>1 DEF UnchangedPages
      <3> QED
        BY <1>1, <1>2, <1>3, <1>6, <3>2, <3>3 DEF ShareOK
    <2>2. EnvOK(e)' /\ PairsOK(e)' /\ UserOK(e)' /\ TransferOK(e)'
      BY <1>1, <1>2, <1>3, <1>6 DEF EachOK, EnvOK, PairsOK, UserOK, TransferOK, UnchangedPages
    <2> QED
      BY <2>1, <2>2 DEF EachOK
  <1>9. /\ fdpage' \in [Envs -> [Slots -> Ends \cup {NULL}]] /\ data' \in [Envs -> [Slots -> BOOLEAN]]
        /\ \A f \in Envs : fdpage'[f] = fdpage[f] /\ data'[f] = data[f]
    BY <1>1 DEF UnchangedPages, Inv, TypeOK
  <1> QED
    <2>1. \A f \in Envs : f # e => ~(loc[f].at = "map" /\ loc[f].to = c)
      BY <1>4
    <2>2. r \in LocType /\ r.op \in {"none", "fork"} /\ (r.at = "map" => r.to = c)
      BY <1>2
    <2>3. \A f \in Envs : f # c => fdpage'[f] = fdpage[f] /\ data'[f] = data[f] /\ status'[f] = status[f]
      BY <1>6, <1>9
    <2> QED
      BY <1>1, <1>3, <1>6, <1>7, <1>8, <1>9, <2>1, <2>2, <2>3, ChildStep

\* The next page to share is the first one left.
LEMMA NextPage ==
  ASSUME NEW e \in Envs, NEW n \in Nat, NEW left, left = {k \in Mapped(e) : k >= n}, left # {}
  PROVE  /\ Min(left) \in Nat /\ Min(left) >= n
         /\ \A k \in left : Min(left) <= k
         /\ Min(left) < NSlots => Min(left) \in Slots /\ fdpage[e][Min(left)] # NULL
         /\ Min(left) >= NSlots => Min(left) - NSlots \in Slots /\ data[e][Min(left) - NSlots]
  <1> DEFINE A == 0..(NSlots + NSlots)
  <1>1. \A k \in Mapped(e) : /\ k \in A
                             /\ k < NSlots => k \in Slots /\ fdpage[e][k] # NULL
                             /\ k >= NSlots => k - NSlots \in Slots /\ data[e][k - NSlots]
    BY DEF Mapped, Slots
  <1>2. left \in SUBSET A
    BY <1>1
  <1>3. IsFiniteSet(A)
    BY FS_Interval
  <1>4. IsFiniteSet(left) /\ left \subseteq Nat
    <2>1. A \subseteq Nat
      OBVIOUS
    <2> HIDE DEF A
    <2> QED
      BY <1>2, <1>3, <2>1, FS_Subset
  <1>5. Min(left) \in left /\ \A k \in left : Min(left) <= k
    BY <1>4, MinLeast
  <1> QED
    BY <1>1, <1>5

\* A page of the parent that is not left to share is shared, or before the next.
LEMMA SharedBefore ==
  ASSUME NEW e \in Envs, NEW n \in Nat, NEW left, left = {k \in Mapped(e) : k >= n}, NEW i \in Slots
  PROVE  /\ fdpage[e][i] # NULL => i < n \/ i \in left
         /\ data[e][i] => NSlots + i < n \/ NSlots + i \in left
  <1>1. i \in Nat
    BY DEF Slots
  <1>2. fdpage[e][i] # NULL => i \in Mapped(e)
    BY DEF Mapped
  <1>3. data[e][i] => NSlots + i \in Mapped(e)
    BY DEF Mapped
  <1> QED
    BY <1>1, <1>2, <1>3

\* An idle child: it holds each descriptor with the pipe page, once it runs.
LEMMA ChildIdle ==
  ASSUME NEW c \in Envs, loc'[c] = Idle, status'[c] \in {"CHILD", "LIVE"},
         status'[c] = "LIVE" => \A i \in Slots : fdpage'[c][i] # NULL <=> data'[c][i]
  PROVE  EnvOK(c)' /\ PairsOK(c)'
  BY IdleType DEF EnvOK, PairsOK, LabelOK

LEMMA DupPageStep == ASSUME Inv, NEW e \in Envs, duppage(e), calls' = calls PROVE Inv'
  <1>0. /\ status[e] = "LIVE" /\ loc[e].at = "map" /\ EachOK(e) /\ loc[e] \in LocType /\ loc[e].op = "fork"
        /\ loc[e].to \in Envs /\ loc[e].n \in Nat /\ UnchangedBytes
    BY AtFacts, LabelFacts DEF duppage, At, EachOK, EnvOK, LocType
  <1> PICK c \in Envs : c = loc[e].to
    BY <1>0
  <1> DEFINE n == loc[e].n
             left == {k \in Mapped(e) : k >= n}
             k == Min(left)
  <1>1. /\ status[e] = "LIVE" /\ loc[e].at = "map" /\ EachOK(e) /\ loc[e] \in LocType /\ loc[e].op = "fork"
        /\ c \in Envs /\ n \in Nat /\ UnchangedBytes
    BY <1>0
  <1>2. ring.made /\ status[c] = "CHILD" /\ c # e /\ EachOK(c)
        /\ (\A f \in Envs : f # e => ~(loc[f].at = "map" /\ loc[f].to = c))
        /\ \A i \in Slots : /\ fdpage[c][i] = IF i < n THEN fdpage[e][i] ELSE NULL
                            /\ data[c][i] = (NSlots + i < n /\ data[e][i])
    BY <1>1, AtFacts DEF EachOK, ShareOK
  <1>3. loc[c] = Idle /\ fdpage[e] \in [Slots -> Ends \cup {NULL}] /\ data[e] \in [Slots -> BOOLEAN]
        /\ fdpage[c] \in [Slots -> Ends \cup {NULL}] /\ data[c] \in [Slots -> BOOLEAN] /\ ring' = ring
    BY <1>1, <1>2, AtFacts DEF EachOK, EnvOK, UnchangedBytes
  <1>4. \A i \in Slots : i \in Nat /\ i < NSlots
    BY DEF Slots
  <1>5. ASSUME left # {}, status' = status, Jump(e, [loc[e] EXCEPT !.n = k + 1]),
               NEW F \in [Slots -> Ends \cup {NULL}], NEW D \in [Slots -> BOOLEAN],
               fdpage' = [fdpage EXCEPT ![c] = F], data' = [data EXCEPT ![c] = D],
               \A i \in Slots : /\ F[i] = IF i < k + 1 THEN fdpage[e][i] ELSE NULL
                                /\ D[i] = (NSlots + i < k + 1 /\ data[e][i])
        PROVE  Inv'
    <2> DEFINE m == k + 1
               r == [loc[e] EXCEPT !.n = m]
    <2>1. m \in Nat
      <3>1. k \in Nat
        BY <1>1, <1>5, NextPage
      <3> HIDE DEF k, left
      <3> QED
        BY <3>1
    <2>2. r \in LocType /\ LabelOK(r) /\ r.op = "fork" /\ r.at = "map" /\ r.to = c /\ r.n = m
      <3> HIDE DEF m
      <3> QED
        BY <1>1, <2>1 DEF LocType, LabelOK
    <2> HIDE DEF m, left, k
    <2>3. Jump(e, r) /\ \A i \in Slots : /\ F[i] = IF i < m THEN fdpage[e][i] ELSE NULL
                                         /\ D[i] = (NSlots + i < m /\ data[e][i])
      BY <1>5 DEF m
    <2> HIDE DEF r, n
    <2>4. /\ loc'[e] = r /\ loc'[c] = Idle /\ \A f \in Envs : f # e => loc'[f] = loc[f]
          /\ fdpage'[c] = F /\ data'[c] = D
          /\ \A f \in Envs : f # c => fdpage'[f] = fdpage[f] /\ data'[f] = data[f] /\ status'[f] = status[f]
      BY <1>1, <1>2, <1>3, <1>5, <2>3, AtFacts DEF Jump, Inv, TypeOK
    <2>5. EnvOK(c)' /\ PairsOK(c)'
      BY <1>2, <1>5, <2>4, ChildIdle
    <2>6. ShareOK(e)'
      <3>1. \A f \in Envs : loc'[f].at = "map" /\ loc'[f].to = c => f = e
        BY <1>2, <2>4
      <3>2. fdpage'[e] = fdpage[e] /\ data'[e] = data[e] /\ status'[c] = "CHILD" /\ ring'.made
        BY <1>2, <1>3, <1>5, <2>4
      <3> QED
        BY <2>2, <2>3, <2>4, <3>1, <3>2 DEF ShareOK
    <2>7. EachOK(e)'
      BY <1>1, <1>2, <1>3, <2>2, <2>4, <2>6 DEF EachOK, EnvOK, PairsOK, UserOK, TransferOK
    <2>8. /\ fdpage' \in [Envs -> [Slots -> Ends \cup {NULL}]] /\ data' \in [Envs -> [Slots -> BOOLEAN]]
          /\ status' \in [Envs -> {"UNUSED", "CHILD", "LIVE", "DEAD"}]
      BY <1>5 DEF Inv, TypeOK
    <2>9. r.op \in {"none", "fork"} /\ Counted
      BY <2>2 DEF Counted
    <2>10. \A f \in Envs : f # e => ~(loc[f].at = "map" /\ loc[f].to = c)
      BY <1>2
    <2>11. \A f \in Envs : f # c => fdpage'[f] = fdpage[f] /\ data'[f] = data[f] /\ status'[f] = status[f]
      BY <2>4
    <2>12. c \in Envs /\ c # e /\ loc[c] = Idle /\ status[e] = "LIVE" /\ ring.made /\ UnchangedBytes
      BY <1>1, <1>2, <1>3
    <2>13. r \in LocType /\ (r.at = "map" => r.to = c) /\ Jump(e, r)
      BY <2>2, <2>3
    <2> QED
      BY <2>5, <2>7, <2>8, <2>9, <2>10, <2>11, <2>12, <2>13, ChildStep
  <1>6. CASE left # {} /\ k < NSlots /\ MapFd(c, k, fdpage[e][k]) /\ UNCHANGED <<data, status>>
             /\ Jump(e, [loc[e] EXCEPT !.n = k + 1])
    <2> DEFINE F == [fdpage[c] EXCEPT ![k] = fdpage[e][k]]
               D == data[c]
    <2>1. k \in Slots /\ k \in Nat /\ k >= n /\ \A j \in left : k <= j
      BY <1>1, <1>6, NextPage
    <2>2. \A i \in Slots : (fdpage[e][i] # NULL => i < n \/ i \in left)
      BY <1>1, SharedBefore
    <2> HIDE DEF k, left, n
    <2>3. fdpage' = [fdpage EXCEPT ![c] = F] /\ data' = [data EXCEPT ![c] = D]
      BY <1>6, <1>2 DEF MapFd, Inv, TypeOK
    <2>4. F \in [Slots -> Ends \cup {NULL}] /\ \A i \in Slots : F[i] = IF i = k THEN fdpage[e][k] ELSE fdpage[c][i]
      BY <1>3, <2>1
    <2>5. \A i \in Slots : F[i] = IF i < k + 1 THEN fdpage[e][i] ELSE NULL
      <3> SUFFICES ASSUME NEW i \in Slots PROVE F[i] = IF i < k + 1 THEN fdpage[e][i] ELSE NULL
        OBVIOUS
      <3>1. CASE i < k /\ i >= n
        <4>1. i \notin left
          BY <1>4, <2>1, <3>1
        <4> QED
          BY <1>1, <1>2, <1>4, <2>1, <2>2, <2>4, <3>1, <4>1
      <3> QED
        BY <1>1, <1>2, <1>4, <2>1, <2>4, <3>1
    <2>6. \A i \in Slots : D[i] = (NSlots + i < k + 1 /\ data[e][i])
      BY <1>1, <1>2, <1>4, <1>6, <2>1
    <2>7. D \in [Slots -> BOOLEAN]
      BY <1>3
    <2> HIDE DEF F, D
    <2>8. \A i \in Slots : /\ F[i] = IF i < k + 1 THEN fdpage[e][i] ELSE NULL
                           /\ D[i] = (NSlots + i < k + 1 /\ data[e][i])
      BY <2>5, <2>6
    <2> QED
      BY <1>5, <1>6, <2>3, <2>4, <2>7, <2>8
  <1>7. CASE left # {} /\ k >= NSlots /\ MapData(c, k - NSlots, TRUE) /\ UNCHANGED <<fdpage, status>>
             /\ Jump(e, [loc[e] EXCEPT !.n = k + 1])
    <2> DEFINE s == k - NSlots
               F == fdpage[c]
               D == [data[c] EXCEPT ![s] = TRUE]
    <2>1. s \in Slots /\ k \in Nat /\ k >= n /\ data[e][s] /\ \A j \in left : k <= j
      BY <1>1, <1>7, NextPage
    <2>2. \A i \in Slots : /\ fdpage[e][i] # NULL => i < n \/ i \in left
                           /\ data[e][i] => NSlots + i < n \/ NSlots + i \in left
      BY <1>1, SharedBefore
    <2>3. MapData(c, s, TRUE) /\ k = NSlots + s
      <3>1. MapData(c, s, TRUE)
        BY <1>7
      <3>2. k \in Nat /\ NSlots \in Nat
        BY <2>1
      <3> HIDE DEF k, left
      <3>3. k = NSlots + s
        BY <3>2
      <3> QED
        BY <3>1, <3>3
    <2> HIDE DEF k, left, n, s
    <2>4. fdpage' = [fdpage EXCEPT ![c] = F] /\ data' = [data EXCEPT ![c] = D]
      BY <1>7, <1>2, <2>3 DEF MapData, Inv, TypeOK
    <2>5. D \in [Slots -> BOOLEAN] /\ \A i \in Slots : D[i] = IF i = s THEN TRUE ELSE data[c][i]
      BY <1>3, <2>1
    <2>6. \A i \in Slots : F[i] = IF i < k + 1 THEN fdpage[e][i] ELSE NULL
      <3> SUFFICES ASSUME NEW i \in Slots PROVE F[i] = IF i < k + 1 THEN fdpage[e][i] ELSE NULL
        OBVIOUS
      <3>1. i < k + 1 /\ i < NSlots /\ i \in Nat
        BY <1>4, <1>7, <2>1
      <3>2. fdpage[e][i] # NULL => i < n
        BY <1>7, <2>1, <2>2, <3>1
      <3> QED
        BY <1>1, <1>2, <3>1, <3>2
    <2>7. \A i \in Slots : D[i] = (NSlots + i < k + 1 /\ data[e][i])
      <3> SUFFICES ASSUME NEW i \in Slots PROVE D[i] = (NSlots + i < k + 1 /\ data[e][i])
        OBVIOUS
      <3>0. i \in Nat /\ s \in Nat /\ data[e][i] \in BOOLEAN /\ data[c][i] = (NSlots + i < n /\ data[e][i])
        BY <1>2, <1>3, <1>4, <2>1
      <3>1. CASE i = s
        <4>1. NSlots + i < k + 1
          BY <2>1, <2>3, <3>0, <3>1
        <4>2. D[i] = TRUE /\ data[e][i]
          <5>1. D[i] = TRUE
            BY <2>5, <3>1
          <5>2. data[e][i]
            BY <2>1, <3>1
          <5> QED
            BY <5>1, <5>2
        <4> HIDE DEF D
        <4> QED
          BY <4>1, <4>2
      <3>2. CASE i > s
        <4>1. ~(NSlots + i < k + 1) /\ ~(NSlots + i < n)
          BY <1>1, <2>1, <2>3, <3>0, <3>2
        <4>2. D[i] = data[c][i]
          <5>1. i # s
            BY <3>0, <3>2
          <5> QED
            BY <2>5, <5>1
        <4> HIDE DEF D
        <4> QED
          BY <3>0, <4>1, <4>2
      <3>3. CASE i < s
        <4>1. NSlots + i < k + 1 /\ NSlots + i \notin left
          BY <1>1, <2>1, <2>3, <3>0, <3>3
        <4>2. data[e][i] => NSlots + i < n
          BY <2>2, <4>1
        <4>3. D[i] = data[c][i]
          <5>1. i # s
            BY <3>0, <3>3
          <5> QED
            BY <2>5, <5>1
        <4> HIDE DEF D
        <4> QED
          BY <3>0, <4>1, <4>2, <4>3
      <3>4. i = s \/ i > s \/ i < s
        BY <3>0
      <3> QED
        BY <3>1, <3>2, <3>3, <3>4
    <2>8. F \in [Slots -> Ends \cup {NULL}]
      BY <1>3
    <2> HIDE DEF F, D
    <2>9. \A i \in Slots : /\ F[i] = IF i < k + 1 THEN fdpage[e][i] ELSE NULL
                           /\ D[i] = (NSlots + i < k + 1 /\ data[e][i])
      BY <2>6, <2>7
    <2> QED
      BY <1>5, <1>7, <2>4, <2>5, <2>8, <2>9
  <1>8. CASE left = {} /\ status' = [status EXCEPT ![c] = "LIVE"] /\ UnchangedPages /\ Return(e)
    <2>1. \A i \in Slots : (fdpage[e][i] # NULL => i < n) /\ (data[e][i] => NSlots + i < n)
      <3> TAKE i \in Slots
      <3>1. /\ fdpage[e][i] # NULL => i < n \/ i \in left
            /\ data[e][i] => NSlots + i < n \/ NSlots + i \in left
        BY <1>1, SharedBefore
      <3> HIDE DEF left
      <3> QED
        BY <1>8, <3>1
    <2> HIDE DEF left, k, n
    <2>2. \A i \in Slots : fdpage[c][i] = fdpage[e][i] /\ data[c][i] = data[e][i]
      BY <1>2, <1>3, <2>1
    <2>3. \A i \in Slots : fdpage[e][i] # NULL <=> data[e][i]
      BY <1>1, <1>2 DEF EachOK, PairsOK
    <2>4. /\ Jump(e, Idle) /\ loc'[e] = Idle /\ loc'[c] = Idle /\ status'[c] = "LIVE" /\ fdpage' = fdpage /\ data' = data
          /\ \A f \in Envs : f # c => status'[f] = status[f]
      BY <1>1, <1>2, <1>3, <1>8, AtFacts, ZenonT(30) DEF Return, Jump, Inv, TypeOK, UnchangedPages
    <2>5. EnvOK(c)' /\ PairsOK(c)'
      <3>1. \A i \in Slots : fdpage'[c][i] # NULL <=> data'[c][i]
        BY <2>2, <2>3, <2>4
      <3> QED
        BY <1>1, <2>4, <3>1, ChildIdle
    <2>6. EachOK(e)'
      BY <1>1, <1>2, <1>3, <2>3, <2>4, IdleType DEF EachOK, EnvOK, LabelOK, PairsOK, UserOK, ShareOK, TransferOK
    <2>7. /\ fdpage' \in [Envs -> [Slots -> Ends \cup {NULL}]] /\ data' \in [Envs -> [Slots -> BOOLEAN]]
          /\ status' \in [Envs -> {"UNUSED", "CHILD", "LIVE", "DEAD"}]
      BY <1>8, <2>4 DEF Inv, TypeOK
    <2>8. Idle.op \in {"none", "fork"} /\ (Idle.at = "map" => Idle.to = c) /\ Idle \in LocType /\ Counted
      BY IdleType DEF Counted
    <2>9. \A f \in Envs : f # c => fdpage'[f] = fdpage[f] /\ data'[f] = data[f] /\ status'[f] = status[f]
      BY <2>4
    <2>10. \A f \in Envs : f # e => ~(loc[f].at = "map" /\ loc[f].to = c)
      BY <1>2
    <2>11. c \in Envs /\ c # e /\ loc[c] = Idle /\ status[e] = "LIVE" /\ ring.made /\ UnchangedBytes
      BY <1>1, <1>2, <1>3
    <2>12. Jump(e, Idle)
      BY <2>4
    <2> QED
      BY <2>5, <2>6, <2>7, <2>8, <2>9, <2>10, <2>11, <2>12, ChildStep
  <1> QED
    BY <1>6, <1>7, <1>8 DEF duppage

-----------------------------------------------------------------------------
(***************************************************************************)
(* The invariant holds.                                                    *)
(***************************************************************************)
LEMMA InvInit == Init => Inv
  <1> SUFFICES ASSUME Init PROVE Inv
    OBVIOUS
  <1>1. Idle \in LocType /\ Idle.at = "idle" /\ Idle.op = "none" /\ 0 \in 0..MaxBytes /\ 0 \in 0..MaxCalls
    BY IdleType
  <1>2. ring = [rpos |-> 0, wpos |-> 0, buf |-> [k \in 0..(BufSize - 1) |-> 0], made |-> FALSE]
    BY DEF Init
  <1>3. RingType /\ ring.rpos = 0 /\ ring.wpos = 0 /\ ring.made = FALSE
        /\ ring.buf \in [0..(BufSize - 1) -> 0..MaxBytes]
    BY <1>1, <1>2 DEF RingType
  <1>4. TypeOK
    BY <1>1, <1>3 DEF Init, TypeOK, LocType
  <1>5. BytesOK
    BY <1>3 DEF Init, BytesOK
  <1>6. /\ \A e \in Envs : /\ status[e] = IF e = Root THEN "LIVE" ELSE "UNUSED"
                           /\ loc[e] = Idle
        /\ \A e \in Envs, i \in Slots : fdpage[e][i] = NULL /\ ~data[e][i]
    BY DEF Init
  <1>7. BuildOK /\ Alone
    BY <1>1, <1>6 DEF BuildOK, Built, Alone
  <1>8. \A e \in Envs : EachOK(e)
    BY <1>1, <1>3, <1>6 DEF EachOK, EnvOK, LabelOK, PairsOK, UserOK, ShareOK, TransferOK
  <1> QED
    BY <1>4, <1>5, <1>7, <1>8 DEF Inv

LEMMA CallStep == ASSUME Inv, NEW e \in Envs, Call(e) PROVE Inv'
  <1>1. Counted
    BY DEF Call, Counted
  <1>2. CASE pipe(e)
    BY <1>1, <1>2, PipeStep
  <1>3. ASSUME NEW i \in Slots, read_write(e, i) PROVE Inv'
    BY <1>1, <1>3, ReadWriteStep
  <1>4. ASSUME NEW i \in Slots, pipeisclosed(e, i) PROVE Inv'
    BY <1>1, <1>4, QueryStep
  <1>5. ASSUME NEW i \in Slots, close(e, i) PROVE Inv'
    BY <1>1, <1>5, CloseStep
  <1>6. ASSUME NEW i \in Slots, NEW j \in Slots, dup(e, i, j) PROVE Inv'
    BY <1>1, <1>6, DupStep
  <1>7. ASSUME NEW c \in Envs, fork(e, c) PROVE Inv'
    BY <1>1, <1>7, ForkStep
  <1> QED
    BY <1>2, <1>3, <1>4, <1>5, <1>6, <1>7 DEF Call

LEMMA LeaveStep == ASSUME Inv, NEW e \in Envs, Leave(e) PROVE Inv'
  <1>1. calls' = calls /\ Counted
    BY DEF Leave, Counted
  <1>2. CASE exit(e)
    BY <1>1, <1>2, ExitStep
  <1>3. CASE env_destroy(e)
    BY <1>1, <1>3, ReleaseStep DEF env_destroy
  <1> QED
    BY <1>2, <1>3 DEF Leave

LEMMA ContinueStep == ASSUME Inv, NEW e \in Envs, Continue(e) PROVE Inv'
  <1>1. calls' = calls
    BY DEF Continue
  <1>2. CASE pipe_step(e)
    BY <1>1, <1>2, AllocFdStep, AllocPipeStep, MapPipeStep DEF pipe_step
  <1>3. CASE devpipe_test(e) \/ FirstRef(e) \/ SecondRef(e)
    BY <1>1, <1>3, TestStep, FirstRefStep, SecondRefStep
  <1>4. CASE Transfer(e) \/ Advance(e)
    BY <1>1, <1>4, TransferStep, AdvanceStep
  <1>5. CASE devpipe_close(e) \/ dup_map(e) \/ close_all(e)
    BY <1>1, <1>5, DevCloseStep, DupMapStep, CloseAllStep
  <1>6. CASE duppage(e)
    BY <1>1, <1>6, DupPageStep
  <1> QED
    BY <1>2, <1>3, <1>4, <1>5, <1>6 DEF Continue

LEMMA InvStep == Inv /\ [Next]_vars => Inv'
  <1>1. ASSUME Inv, Next PROVE Inv'
    BY <1>1, CallStep, LeaveStep, ContinueStep DEF Next
  <1>2. ASSUME Inv, UNCHANGED vars PROVE Inv'
    BY <1>2 DEF vars, Inv, TypeOK, BuildOK, Built, Alone, BytesOK, RingType, EachOK, EnvOK, PairsOK, UserOK,
                ShareOK, TransferOK, Index
  <1> QED
    BY <1>1, <1>2

LEMMA Invariance == Spec => []Inv
  <1> QED
    BY InvInit, InvStep, PTL DEF Spec

\* Every variable of the library keeps its type, and no running process has a
\* descriptor of the pipe without the pipe page beside it, whichever of its
\* calls it is in: the orders in which close unmaps and dup maps the two pages
\* are right, and so is the unwinding of each failure (pipe.c:186-191,
\* fd.c:183-200, pipe.c:65-72).
THEOREM DescriptorsPaired == Spec => []DescriptorsOK
  <1>1. Inv => DescriptorsOK
    <2> SUFFICES ASSUME Inv PROVE DataBesideFd
      BY DEF Inv, DescriptorsOK
    <2> SUFFICES ASSUME NEW e \in Envs, NEW i \in Slots, status[e] = "LIVE"
                 PROVE  /\ loc[e].op # "pipe" /\ fdpage[e][i] # NULL => data[e][i]
                        /\ loc[e].at = "idle" /\ data[e][i] => fdpage[e][i] # NULL
      BY DEF DataBesideFd
    <2>1. EachOK(e) /\ loc[e] \in LocType
      BY AtFacts
    <2>2. CASE ring.made
      BY <2>1, <2>2 DEF EachOK, PairsOK
    <2>3. CASE ~ring.made
      <3>1. e = Root
        BY <2>3, AtFacts
      <3>2. /\ fdpage[e][i] = Built(i)
            /\ data[e][i] <=> loc[Root].at = "pipe4" /\ i = loc[Root].fd
        BY <2>3, <3>1 DEF Inv, BuildOK
      <3>3. loc[e].op # "pipe" => loc[e].at = "idle"
        BY <2>1, <2>3, <3>1, IdleType DEF EachOK, EnvOK, LabelOK, Inv, BuildOK
      <3> QED
        BY <3>1, <3>2, <3>3 DEF Built
    <2> QED
      BY <2>2, <2>3
  <1> QED
    BY <1>1, Invariance, PTL

-----------------------------------------------------------------------------
(***************************************************************************)
(* The answer of _pipeisclosed, on one processor.                          *)
(***************************************************************************)

\* With one processor, every environment but the one that runs finds env_runs
\* changed when it runs again.
LEMMA OthersMove ==
  ASSUME NCPU = 1, NEW e \in Envs, NEW m \in BOOLEAN, Runs(e, m)
  PROVE  \A f \in Envs : f # e => moved'[f]
  <1>1. PICK on \in SUBSET (Envs \ {e}) :
           /\ Cardinality(on) < NCPU
           /\ moved' = [f \in Envs |-> IF f = e THEN m ELSE moved[f] \/ f \notin on]
    BY DEF Runs
  <1>2. IsFiniteSet(on)
    <2>1. on \in SUBSET Envs
      BY <1>1
    <2> QED
      BY <2>1, FS_Subset
  <1>3. on = {}
    <2>1. Cardinality(on) \in Nat
      BY <1>2, FS_CardinalityType
    <2>2. Cardinality(on) = 0
      BY <1>1, <2>1
    <2> QED
      BY <1>2, <2>2, FS_EmptySet
  <1> QED
    BY <1>1, <1>3

\* Every step but the first read of the counts is one in which the environment
\* finds that it has run.
LEMMA StepRuns ==
  ASSUME NEW e \in Envs, Call(e) \/ Leave(e) \/ Continue(e) PROVE Runs(e, TRUE) \/ FirstRef(e)
  <1>1. CASE Call(e)
    BY <1>1 DEF Call, pipe, read_write, pipeisclosed, close, dup, fork, Jump
  <1>2. CASE Leave(e)
    BY <1>2 DEF Leave, exit, env_destroy, Released, Return, Jump
  <1>3. CASE pipe_step(e)
    BY <1>3 DEF pipe_step, AllocFd, AllocPipe, MapPipe, Unwind, Goto, Return, Jump
  <1>4. CASE devpipe_test(e) \/ SecondRef(e) \/ Transfer(e) \/ Advance(e)
    BY <1>4 DEF devpipe_test, SecondRef, Transfer, Advance, Goto, Return, Jump
  <1>5. CASE devpipe_close(e) \/ dup_map(e)
    BY <1>5 DEF devpipe_close, dup_map, dup_err, Goto, Return, Jump
  <1>6. CASE close_all(e) \/ duppage(e)
    BY <1>6 DEF close_all, duppage, Released, Return, Jump
  <1>7. CASE FirstRef(e)
    BY <1>7
  <1> QED
    BY <1>1, <1>2, <1>3, <1>4, <1>5, <1>6, <1>7 DEF Continue

LEMMA CountStep == ASSUME NCPU = 1, Inv, CountOK, [Next]_vars PROVE CountOK'
  <1>1. CASE UNCHANGED vars
    BY <1>1 DEF vars, CountOK, FdRef, Holders
  <1>2. CASE Next
    <2> PICK e \in Envs : Call(e) \/ Leave(e) \/ Continue(e)
      BY <1>2 DEF Next
    <2>1. CASE Runs(e, TRUE)
      <3>1. \A f \in Envs : moved'[f]
        BY <2>1, OthersMove DEF Runs
      <3> QED
        BY <3>1 DEF CountOK
    <2>2. CASE FirstRef(e)
      <3>1. \A f \in Envs : f # e => moved'[f]
        BY <2>2, OthersMove DEF FirstRef
      <3>2. fdpage' = fdpage /\ loc'[e] = [loc[e] EXCEPT !.at = "ref2", !.n = FdRef(e)]
        BY <2>2, AtFacts DEF FirstRef, UnchangedPages
      <3>3. loc'[e].n = FdRef(e) /\ loc'[e].fd = loc[e].fd
        BY <3>2, AtFacts DEF LocType
      <3>4. FdRef(e)' = FdRef(e)
        BY <3>2, <3>3 DEF FdRef, Holders
      <3> QED
        BY <3>1, <3>3, <3>4 DEF CountOK
    <2> QED
      BY <2>1, <2>2, StepRuns
  <1> QED
    BY <1>1, <1>2

\* While no fork is in progress, every descriptor has its pipe page: the holders
\* of an end are among the holders of the pipe.
LEMMA HoldersInPipe ==
  ASSUME Inv, ring.made, ~HalfShared, NEW x \in Ends
  PROVE  Holders(x) \subseteq DataRefs
  <1> SUFFICES ASSUME NEW h \in Envs \X Slots, fdpage[h[1]][h[2]] = x PROVE data[h[1]][h[2]]
    BY DEF Holders, DataRefs
  <1> DEFINE f == h[1]
             i == h[2]
  <1>1. f \in Envs /\ i \in Slots /\ fdpage[f][i] # NULL
    OBVIOUS
  <1>2. EachOK(f) /\ loc[f] \in LocType /\ status[f] \in {"UNUSED", "CHILD", "LIVE", "DEAD"}
    BY <1>1, AtFacts DEF Inv, TypeOK
  <1>3. status[f] = "LIVE"
    BY <1>1, <1>2 DEF HalfShared, EachOK, EnvOK
  <1> QED
    BY <1>1, <1>2, <1>3 DEF EachOK, PairsOK

LEMMA ClosedStep ==
  ASSUME Inv, CountOK, NEW e \in Envs, Answers(e), loc[e].n = PipeRef, ~HalfShared
  PROVE  Holders(Other(fdpage[e][loc[e].fd])) = {}
  <1> DEFINE x == fdpage[e][loc[e].fd]
  <1>1. EachOK(e) /\ loc[e] \in LocType /\ loc[e].at = "ref2" /\ fdpage[e] \in [Slots -> Ends \cup {NULL}]
    BY AtFacts DEF Answers, At
  <1>2. loc[e].op \in {"read", "write", "query"}
    BY <1>1, LabelFacts DEF EachOK, EnvOK
  <1>3. ring.made /\ x \in Ends
    BY <1>1, <1>2 DEF EachOK, UserOK, LocType
  <1>4. Cardinality(Holders(x)) = Cardinality(DataRefs)
    BY <1>1 DEF Answers, CountOK, FdRef, PipeRef
  <1> HIDE DEF x
  <1>5. Other(x) \in Ends /\ Other(x) # x
    BY <1>3 DEF Ends, Other
  <1>6. Holders(x) \subseteq DataRefs /\ Holders(Other(x)) \subseteq DataRefs
    BY <1>3, <1>5, HoldersInPipe
  <1>7. IsFiniteSet(DataRefs)
    BY PairsFinite DEF DataRefs
  <1>8. Holders(x) = DataRefs
    BY <1>4, <1>6, <1>7, FS_Subset
  <1>9. Holders(x) \cap Holders(Other(x)) = {}
    BY <1>5 DEF Holders
  <1>10. Holders(Other(x)) = {}
    BY <1>6, <1>8, <1>9
  <1> QED
    BY <1>10 DEF x

\* On one processor, a process is told that the other end of its pipe is closed
\* only when no process has a descriptor of it, while no fork is in progress:
\* _pipeisclosed compares two counts read one after the other, and env_runs
\* tells it whether anybody ran in between (pipe.c:76-92).
THEOREM ClosedMeansClosed == NCPU = 1 => (Spec => ClosedIsTrue)
  <1> SUFFICES ASSUME NCPU = 1 PROVE Spec => ClosedIsTrue
    OBVIOUS
  <1> DEFINE A == \A e \in Envs : ReportsClosed(e) /\ ~HalfShared =>
                     Holders(Other(fdpage[e][loc[e].fd])) = {}
  <1>1. Init => Inv /\ CountOK
    BY InvInit, IdleType DEF Init, CountOK
  <1>2. Inv /\ CountOK /\ [Next]_vars => (Inv /\ CountOK)'
    BY InvStep, CountStep
  <1>3. Inv /\ CountOK /\ [Next]_vars => [A]_vars
    BY ClosedStep DEF ReportsClosed
  <1> QED
    BY <1>1, <1>2, <1>3, PTL DEF Spec, ClosedIsTrue

-----------------------------------------------------------------------------
(***************************************************************************)
(* Pipe implements ByteStream.                                             *)
(***************************************************************************)

\* The ends that some descriptor refers to, once there is a pipe.
OpenEnds == IF ring.made THEN {x \in Ends : Holders(x) # {}} ELSE Ends

\* No step maps a descriptor of an end that nobody has.
NoneAppears ==
    \A f \in Envs, i \in Slots : fdpage'[f][i] # NULL =>
        \E g \in Envs, j \in Slots : fdpage[g][j] = fdpage'[f][i]

LEMMA HoldersSame == UNCHANGED fdpage => \A x : Holders(x)' = Holders(x)
  BY DEF Holders

LEMMA OpenShrinks ==
  ASSUME ring'.made = ring.made, ring.made => NoneAppears
  PROVE  OpenEnds' \subseteq OpenEnds
  <1>1. CASE ~ring.made
    BY <1>1 DEF OpenEnds
  <1>2. CASE ring.made
    <2> SUFFICES ASSUME NEW x \in Ends, Holders(x)' # {} PROVE Holders(x) # {}
      BY <1>2 DEF OpenEnds
    <2>1. PICK f \in Envs, i \in Slots : fdpage'[f][i] = x
      BY DEF Holders
    <2>2. x # NULL
      OBVIOUS
    <2>3. PICK g \in Envs, j \in Slots : fdpage[g][j] = x
      BY <1>2, <2>1, <2>2 DEF NoneAppears
    <2>4. <<g, j>> \in Holders(x)
      BY <2>3 DEF Holders
    <2> QED
      BY <2>4
  <1> QED
    BY <1>1, <1>2

\* A step that transfers no byte is an end that goes away, or nothing at all.
LEMMA SilentStep ==
  ASSUME sent' = sent, received' = received, OpenEnds' \subseteq OpenEnds
  PROVE  [Stream!Next]_(Stream!sVars)
  <1>1. OpenEnds' = OpenEnds \/ Stream!Hangup
    BY DEF Stream!Hangup, OpenEnds
  <1>2. CASE OpenEnds' = OpenEnds
    BY <1>2 DEF Stream!sVars, OpenEnds
  <1> QED
    BY <1>1, <1>2 DEF Stream!Next

LEMMA QuietAppears == ASSUME UNCHANGED fdpage PROVE NoneAppears
  BY DEF NoneAppears

\* One slot changes, to nothing or to a descriptor that somebody has.
LEMMA OneAppears ==
  ASSUME TypeOK, NEW e \in Envs, NEW j \in Slots, NEW x \in Ends \cup {NULL},
         fdpage' = [fdpage EXCEPT ![e][j] = x],
         x # NULL => \E g \in Envs, i \in Slots : fdpage[g][i] = x
  PROVE  NoneAppears
  <1> SUFFICES ASSUME NEW f \in Envs, NEW i \in Slots, fdpage'[f][i] # NULL
               PROVE  \E g \in Envs, k \in Slots : fdpage[g][k] = fdpage'[f][i]
    BY DEF NoneAppears
  <1>1. fdpage'[f][i] = x \/ fdpage'[f][i] = fdpage[f][i]
    BY DEF TypeOK
  <1> QED
    BY <1>1

\* The steps of the library, but for the end of a transfer, leave the bytes
\* alone and map descriptors that are there.
LEMMA QuietOpen ==
  ASSUME Inv, NEW e \in Envs, Call(e) \/ Leave(e) \/ Continue(e), ~Advance(e)
  PROVE  sent' = sent /\ received' = received /\ OpenEnds' \subseteq OpenEnds
  <1>1. OpenEnds' \subseteq Ends /\ (~ring.made => OpenEnds = Ends)
    BY DEF OpenEnds
  <1>2. ASSUME UnchangedBytes, NoneAppears PROVE sent' = sent /\ received' = received /\ OpenEnds' \subseteq OpenEnds
    <2>1. ring' = ring /\ sent' = sent /\ received' = received
      BY <1>2 DEF UnchangedBytes
    <2> QED
      BY <1>2, <2>1, OpenShrinks
  <1>3. CASE Call(e) \/ exit(e)
    <2>1. UnchangedPages /\ UnchangedBytes
      BY <1>3 DEF Call, pipe, read_write, pipeisclosed, close, dup, fork, exit
    <2> QED
      BY <1>2, <2>1, QuietAppears DEF UnchangedPages
  <1>4. ASSUME Released(e), UnchangedBytes PROVE sent' = sent /\ received' = received /\ OpenEnds' \subseteq OpenEnds
    <2>1. fdpage' = [fdpage EXCEPT ![e] = [i \in Slots |-> NULL]]
      BY <1>4 DEF Released
    <2>2. \A f \in Envs, i \in Slots : fdpage'[f][i] # NULL => fdpage[f][i] = fdpage'[f][i]
      BY <2>1 DEF Inv, TypeOK
    <2>3. NoneAppears
      BY <2>2 DEF NoneAppears
    <2> QED
      BY <1>2, <1>4, <2>3
  <1>5. CASE pipe_step(e)
    <2>1. loc[e].at \in {"pipe1", "pipe2", "pipe3", "pipe4"} /\ sent' = sent /\ received' = received
      BY <1>5 DEF pipe_step, AllocFd, AllocPipe, MapPipe, At, UnchangedBytes
    <2>2. ~ring.made
      BY <2>1, AtFacts, LabelFacts DEF EachOK, EnvOK
    <2> QED
      BY <1>1, <2>1, <2>2
  <1>6. CASE devpipe_test(e) \/ FirstRef(e) \/ SecondRef(e)
    <2>1. UnchangedPages /\ UnchangedBytes
      BY <1>6 DEF devpipe_test, FirstRef, SecondRef
    <2> QED
      BY <1>2, <2>1, QuietAppears DEF UnchangedPages
  <1>7. CASE Transfer(e)
    <2>1. UnchangedPages /\ sent' = sent /\ received' = received
      BY <1>7 DEF Transfer
    <2>2. ring' = ring \/ \E b : ring' = [ring EXCEPT !.buf[Index(ring.wpos)] = b]
      BY <1>7 DEF Transfer
    <2>3. ring'.made = ring.made
      BY <2>2 DEF Inv, BytesOK, RingType
    <2> QED
      BY <2>1, <2>3, QuietAppears, OpenShrinks DEF UnchangedPages
  <1>8. CASE devpipe_close(e)
    <2>1. UnchangedBytes /\ (MapFd(e, loc[e].to, NULL) \/ fdpage' = fdpage) /\ loc[e].at \in {"closefd", "closedata"}
      BY <1>8 DEF devpipe_close, At
    <2>2. loc[e].to \in Slots
      BY <2>1, AtFacts, LabelFacts DEF EachOK, EnvOK
    <2>3. NoneAppears
      BY <2>1, <2>2, OneAppears, QuietAppears DEF MapFd, Inv
    <2> QED
      BY <1>2, <2>1, <2>3
  <1>9. CASE dup_map(e)
    <2> DEFINE i == loc[e].fd
               x == fdpage[e][i]
    <2>1. UnchangedBytes /\ loc[e].at \in {"dupdata", "dupfd"}
          /\ (MapFd(e, loc[e].to, NULL) \/ fdpage' = fdpage \/ (x # NULL /\ MapFd(e, loc[e].to, x)))
      BY <1>9 DEF dup_map, dup_err, At
    <2>2. loc[e].to \in Slots /\ i \in Slots /\ fdpage[e] \in [Slots -> Ends \cup {NULL}]
      BY <2>1, AtFacts, LabelFacts DEF EachOK, EnvOK, LocType
    <2>3. x \in Ends \cup {NULL} /\ \E g \in Envs, k \in Slots : fdpage[g][k] = x
      BY <2>2
    <2> HIDE DEF x, i
    <2>4. CASE MapFd(e, loc[e].to, NULL) \/ fdpage' = fdpage
      BY <1>2, <2>1, <2>2, <2>4, OneAppears, QuietAppears DEF MapFd, Inv
    <2>5. CASE MapFd(e, loc[e].to, x)
      BY <1>2, <2>1, <2>2, <2>3, <2>5, OneAppears DEF MapFd, Inv
    <2> QED
      BY <2>1, <2>4, <2>5
  <1>10. CASE close_all(e)
    <2>1. UnchangedBytes /\ (UnchangedPages \/ Released(e))
      BY <1>10 DEF close_all
    <2> QED
      BY <1>2, <1>4, <2>1, QuietAppears DEF UnchangedPages
  <1>11. CASE duppage(e)
    <2> DEFINE left == {k \in Mapped(e) : k >= loc[e].n}
               k == Min(left)
    <2>1. UnchangedBytes /\ loc[e].at = "map" /\ (fdpage' = fdpage \/ (left # {} /\ k < NSlots /\ MapFd(loc[e].to, k, fdpage[e][k])))
      BY <1>11 DEF duppage, At, UnchangedPages
    <2>2. loc[e].to \in Envs /\ loc[e].n \in Nat /\ fdpage[e] \in [Slots -> Ends \cup {NULL}]
      BY <2>1, AtFacts, LabelFacts DEF EachOK, EnvOK, LocType
    <2>3. left # {} /\ k < NSlots => k \in Slots /\ fdpage[e][k] \in Ends \cup {NULL}
      BY <2>2, NextPage
    <2> HIDE DEF k, left
    <2>4. NoneAppears
      BY <2>1, <2>2, <2>3, OneAppears, QuietAppears DEF MapFd, Inv
    <2> QED
      BY <1>2, <2>1, <2>4
  <1> QED
    BY <1>3, <1>4, <1>5, <1>6, <1>7, <1>8, <1>9, <1>10, <1>11 DEF Leave, Continue, env_destroy

\* The end of a transfer puts the next byte in the stream, or takes it.
LEMMA AdvanceStreams ==
  ASSUME Inv, NEW e \in Envs, Advance(e)
  PROVE  Stream!Put \/ Stream!Get
  <1>1. /\ status[e] = "LIVE" /\ loc[e].at = "advance" /\ EachOK(e) /\ loc[e] \in LocType
        /\ fdpage[e] \in [Slots -> Ends \cup {NULL}] /\ UnchangedPages /\ BytesOK
    BY AtFacts DEF Advance, At, Inv
  <1>2. loc[e].op \in {"read", "write"} /\ ring.made /\ loc[e].fd \in Slots
    BY <1>1, LabelFacts DEF EachOK, EnvOK, UserOK, LocType
  <1>3. ring \in [rpos : 0..MaxBytes, wpos : 0..MaxBytes, buf : [0..(BufSize - 1) -> 0..MaxBytes], made : BOOLEAN]
        /\ Len(sent) = ring.wpos /\ Len(received) = ring.rpos /\ ring.rpos \in Nat /\ ring.wpos \in Nat
    BY <1>1 DEF BytesOK, RingType
  <1>4. OpenEnds' = OpenEnds
    <2>1. ring'.made = ring.made
      BY <1>3 DEF Advance
    <2>2. \A x : Holders(x)' = Holders(x)
      BY <1>1, HoldersSame DEF UnchangedPages
    <2> QED
      BY <2>1, <2>2 DEF OpenEnds
  <1>5. ASSUME NEW x \in Ends, fdpage[e][loc[e].fd] = x PROVE x \in OpenEnds
    <2>1. <<e, loc[e].fd>> \in Holders(x)
      BY <1>2, <1>5 DEF Holders
    <2> QED
      BY <1>2, <2>1 DEF OpenEnds
  <1>6. CASE loc[e].op = "write"
    <2>1. sent' = Append(sent, loc[e].n) /\ received' = received
      BY <1>6 DEF Advance
    <2>2. loc[e].n = ring.wpos + 1 /\ ring.wpos < MaxBytes /\ ring.wpos < ring.rpos + BufSize
      BY <1>1, <1>6 DEF EachOK, TransferOK
    <2>3. loc[e].n \in 1..MaxBytes /\ Len(sent) - Len(received) < BufSize
      BY <1>3, <2>2
    <2>4. "W" \in OpenEnds
      BY <1>1, <1>5, <1>6 DEF EachOK, UserOK, Ends
    <2> QED
      BY <1>4, <2>1, <2>3, <2>4 DEF Stream!Put, OpenEnds
  <1>7. CASE loc[e].op = "read"
    <2>1. received' = Append(received, loc[e].n) /\ sent' = sent
      BY <1>7 DEF Advance
    <2>2. loc[e].n = ring.rpos + 1 /\ ring.rpos < ring.wpos
      BY <1>1, <1>7 DEF EachOK, TransferOK
    <2>3. sent[Len(received) + 1] = loc[e].n /\ Len(received) < Len(sent)
      <3>1. ring.rpos + 1 \in 1..ring.wpos
        BY <1>3, <2>2
      <3> QED
        BY <1>1, <1>3, <2>2, <3>1 DEF BytesOK
    <2>4. "R" \in OpenEnds
      BY <1>1, <1>5, <1>7 DEF EachOK, UserOK, Ends
    <2> QED
      BY <1>4, <2>1, <2>3, <2>4 DEF Stream!Get, OpenEnds
  <1> QED
    BY <1>2, <1>6, <1>7

\* Bytes come out of the pipe in the order in which they went in, none twice and
\* none lost, at most BufSize on the way, and only through ends that are open:
\* Pipe refines the bounded queue of ByteStream, whatever processes are
\* preempted or die between the copy of a byte and the move of the position
\* (pipe.c:105-174).
THEOREM PipeImplementsByteStream == Spec => ImplementsByteStream
  <1>1. Init => Stream!Init
    BY DEF Init, Stream!Init, Ends
  <1>2. Inv /\ [Next]_vars => [Stream!Next]_(Stream!sVars)
    <2>1. ASSUME Inv, UNCHANGED vars PROVE UNCHANGED Stream!sVars
      BY <2>1 DEF vars, Stream!sVars, Holders
    <2>2. ASSUME Inv, Next PROVE [Stream!Next]_(Stream!sVars)
      <3> PICK e \in Envs : Call(e) \/ Leave(e) \/ Continue(e)
        BY <2>2 DEF Next
      <3>1. CASE Advance(e)
        BY <2>2, <3>1, AdvanceStreams DEF Stream!Next
      <3>2. CASE ~Advance(e)
        BY <2>2, <3>2, QuietOpen, SilentStep
      <3> QED
        BY <3>1, <3>2
    <2> QED
      BY <2>1, <2>2
  <1> QED
    BY <1>1, <1>2, Invariance, PTL DEF Spec, ImplementsByteStream, Stream!Spec
=============================================================================
