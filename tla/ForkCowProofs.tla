---------------------------- MODULE ForkCowProofs ----------------------------
(***************************************************************************)
(* Theorems about ForkCow, for every number of environments and pages and  *)
(* every layout of the addresses.                                          *)
(***************************************************************************)
EXTENDS ForkCow, FiniteSetTheorems, TLAPS

-----------------------------------------------------------------------------
(***************************************************************************)
(* The inductive invariant.                                                *)
(***************************************************************************)
On(e, va) == pte[e][va] # NULL
Kept      == Private \cup Shared      \* addresses that a program always has

\* Only running environments are in a call or in the handler; a call fills a
\* child of its own, which does not run.
StatusOK(e) ==
    /\ status[e] # "LIVE" => call[e] = NoCall /\ fault[e] = NoFault
    /\ status[e] = "FREE" => \A va \in VAs : ~On(e, va)
    /\ call[e].op = "none" => call[e] = NoCall
    /\ call[e].op # "none" => call[e].child \in Envs /\ status[call[e].child] = "CHILD"
    /\ call[e].op # "fork" => during[e] = NoHistory
    /\ \A f \in Envs : call[e].op # "none" /\ call[f].op # "none" /\ call[f].child = call[e].child => f = e

\* The permissions that a page can have at each address.
PermOK(e, va) ==
    On(e, va) =>
        /\ va \in Private \cup {UTEMP} => pte[e][va].perm \in {{"W"}, {"COW"}}
        /\ va = PFTEMP   => pte[e][va].perm = {"W"}
        /\ va \in Text   => pte[e][va].perm = {}
        /\ va \in Shared => pte[e][va].perm = {"W", "SHARE"}
        /\ "COW" \in pte[e][va].perm => handler[e]

\* A fault is of a store to a private address; the page at PFTEMP is there only
\* in the handler, and is a copy when it is about to be moved.
FaultOK(e) ==
    /\ fault[e].at # "none" => fault[e].va \in Private /\ (fault[e].va # Stack => call[e].op = "none")
    /\ On(e, PFTEMP) <=> fault[e].at \in {"copy", "map", "unmap"}
    /\ fault[e].at = "map" => content[Page(e, PFTEMP)] = content[Page(e, fault[e].va)]

LiveOK(e) == status[e] \in {"LIVE", "PANIC"} => \A va \in Kept : On(e, va)

\* What a fork has given to its child so far, with values of the parent's.
ForkOK(e) ==
    call[e].op = "fork" =>
        LET c == call[e].child  n == call[e].va IN
        /\ call[e].at \in {"exstack", "child", "self"} /\ handler[e]
        /\ call[e].at = "exstack" => \A va \in VAs : ~On(c, va)
        /\ call[e].at \in {"child", "self"} =>
              n \in Nat /\ handler[c] /\ \A a \in Kept : a < n => On(c, a)
        /\ call[e].at = "self" => n \in Private \cup {UTEMP} /\ On(e, n) /\ On(c, n)
        /\ \A a \in Private : /\ content[Page(e, a)] \in during[e][a]
                              /\ On(c, a) => content[Page(c, a)] \in during[e][a]

\* What a spawn has given to its child so far: pages of the image.
SpawnOK(e) ==
    call[e].op = "spawn" =>
        LET c == call[e].child  n == call[e].va IN
        /\ call[e].at \in {"alloc", "read", "map", "unmap", "shared"}
        /\ call[e].at \in {"alloc", "read", "map", "unmap"} =>
              /\ n \in Image \cup {Stack}
              /\ n # Stack => On(c, Stack) /\ \A a \in Image : a < n => On(c, a)
        /\ call[e].at \in {"read", "map"} => On(e, UTEMP) /\ pte[e][UTEMP].perm = {"W"}
        /\ call[e].at = "map" => content[Page(e, UTEMP)] = 0
        /\ call[e].at = "unmap" => On(c, n)
        /\ call[e].at = "shared" =>
              n \in Nat /\ (\A a \in Private : On(c, a)) /\ \A a \in Shared : a < n => On(c, a)
        /\ \A a \in Private : On(c, a) => content[Page(c, a)] = 0

\* A child that nobody will start any more.
Orphan(f) == status[f] = "CHILD" /\ \A e \in Envs : call[e].op # "none" => call[e].child # f
Lost(e, f) == status[e] = "PANIC" /\ Orphan(f)

\* The page at va of e is on its way to vb of f.
Moving(e, va, f, vb) ==
    \/ e = f /\ va = PFTEMP /\ fault[e].at = "unmap" /\ vb = fault[e].va
    \/ /\ va = UTEMP /\ vb \in Image \cup {Stack}
       /\ \/ call[e].op = "spawn" /\ call[e].at = "unmap" /\ call[e].child = f /\ call[e].va = vb
          \/ Lost(e, f)

\* e has given va to its child and not yet made its own entry copy-on-write.
Copying(e, f, va) == call[e].op = "fork" /\ call[e].at = "self" /\ call[e].child = f /\ call[e].va = va

\* One page at two places: the same address of two environments, or a page on its
\* way.  A private page that one may write is not at a second place, but while a
\* fork or a spawn works on it, or was cut there.
PairOK(e, va, f, vb) ==
    On(e, va) /\ On(f, vb) /\ Page(e, va) = Page(f, vb) =>
        /\ va = vb \/ Moving(e, va, f, vb) \/ Moving(f, vb, e, va)
        /\ e # f /\ Has(e, va, "W") /\ ~Has(e, va, "SHARE") =>
              \/ Moving(e, va, f, vb) \/ Moving(f, vb, e, va)
              \/ Copying(e, f, va) \/ Lost(e, f)

\* All environments have the same page at a shared address.
SharedOK == \A e, f \in Envs, va \in Shared : On(e, va) /\ On(f, va) => Page(e, va) = Page(f, va)

EachOK(e) == StatusOK(e) /\ FaultOK(e) /\ LiveOK(e) /\ ForkOK(e) /\ SpawnOK(e)
Inv ==
    /\ TypeOK /\ SharedOK
    /\ \A e \in Envs : EachOK(e) /\ \A va \in VAs : PermOK(e, va)
    /\ \A e, f \in Envs, va, vb \in VAs : PairOK(e, va, f, vb)

-----------------------------------------------------------------------------
(***************************************************************************)
(* Facts that follow from the invariant, and frames.                       *)
(***************************************************************************)
CallType == [op    : {"none", "fork", "spawn"},
             at    : {"run", "exstack", "child", "self", "alloc", "read", "map", "unmap", "shared"},
             child : Envs \cup {NULL},
             va    : Nat \cup {NULL}]
FaultType == [at : {"none", "alloc", "copy", "map", "unmap"}, va : VAs \cup {NULL}, v : Values]

USE EnvAssumption, VaAssumption, ValueAssumption, NullAssumption

LEMMA Types ==
  ASSUME TypeOK
  PROVE  /\ call \in [Envs -> CallType] /\ fault \in [Envs -> FaultType]
         /\ \A e \in Envs : call[e] \in CallType /\ fault[e] \in FaultType
         /\ \A e \in Envs : pte[e] \in [VAs -> Pte \cup {NULL}]
         /\ \A e \in Envs, va \in VAs : On(e, va) => pte[e][va] \in Pte /\ Page(e, va) \in Pages
  BY DEF TypeOK, CallType, FaultType, On, Page, Pte

LEMMA None ==
  /\ NoCall \in CallType /\ NoCall.op = "none" /\ NoCall.at = "run"
  /\ NoFault \in FaultType /\ NoFault.at = "none"
  BY DEF NoCall, NoFault, CallType, FaultType

LEMMA Addresses ==
  /\ UTEMP \in VAs /\ PFTEMP \in VAs /\ Private \subseteq VAs /\ Shared \subseteq VAs /\ Text \subseteq VAs
  /\ Stack \in Private /\ Kept \subseteq VAs /\ Image \subseteq VAs /\ Data \subseteq Private
  /\ UTEMP \notin Kept /\ PFTEMP \notin Kept /\ UTEMP # PFTEMP /\ UTEMP \notin Text /\ PFTEMP \notin Text
  /\ UTEMP \notin Image /\ PFTEMP \notin Image /\ Private \cap Shared = {} /\ Text \cap Kept = {}
  /\ VAs = Kept \cup Text \cup {UTEMP, PFTEMP}
  BY DEF VAs, User, Private, Kept, Image

\* A step of e leaves what other environments do alone.
Others(e) == \A f \in Envs : f # e => call'[f] = call[f] /\ fault'[f] = fault[f] /\ during'[f] = during[f]

\* A step of e on its child c, or on an environment c that is free.
ActsOn(e, c) ==
    /\ status[e] \in {"LIVE", "PANIC"} /\ Others(e)
    /\ c = e \/ status[c] = "FREE" \/ (call[e].op # "none" /\ call[e].child = c)
    /\ call'[e].op # "none" => call'[e].child = c
    /\ \A f \in Envs : f \notin {e, c} =>
          pte'[f] = pte[f] /\ handler'[f] = handler[f] /\ status'[f] = status[f]
ContentKept(f) == \A a \in VAs \ Shared : On(f, a) => content'[Page(f, a)] = content[Page(f, a)]

\* All that the invariant says of the other environments remains true.
LEMMA OthersKept ==
  ASSUME Inv, NEW e \in Envs, NEW c \in Envs, ActsOn(e, c),
         \A f \in Envs : f \notin {e, c} => ContentKept(f)
  PROVE  \A f \in Envs : f \notin {e, c} => EachOK(f)' /\ \A va \in VAs : PermOK(f, va)'
  <1> SUFFICES ASSUME NEW f \in Envs, f \notin {e, c} PROVE EachOK(f)' /\ \A va \in VAs : PermOK(f, va)'
    OBVIOUS
  <1>1. /\ EachOK(f) /\ EachOK(e) /\ (\A va \in VAs : PermOK(f, va)) /\ call'[f] = call[f] /\ fault'[f] = fault[f]
        /\ during'[f] = during[f] /\ pte'[f] = pte[f] /\ handler'[f] = handler[f] /\ status'[f] = status[f]
        /\ \A a \in VAs \ Shared : On(f, a) => content'[Page(f, a)] = content[Page(f, a)]
    BY DEF Inv, Others, ActsOn, ContentKept
  <1>2. ASSUME NEW d \in Envs, call[f].op # "none", d = call[f].child
        PROVE  /\ d \notin {e, c} /\ status[d] = "CHILD"
               /\ pte'[d] = pte[d] /\ handler'[d] = handler[d] /\ status'[d] = status[d]
               /\ \A a \in VAs \ Shared : On(d, a) => content'[Page(d, a)] = content[Page(d, a)]
    <2>1. status[d] = "CHILD" /\ (\A g \in Envs : call[g].op # "none" /\ call[g].child = d => g = f)
      BY <1>1, <1>2 DEF EachOK, StatusOK
    <2>2. d # e /\ d # c
      BY <2>1 DEF ActsOn
    <2> QED
      BY <2>1, <2>2 DEF ActsOn, ContentKept
  <1>3. call[f].op # "none" => call[f].child \in Envs
    BY <1>1 DEF EachOK, StatusOK
  <1>4. StatusOK(f)'
    <2>1. ASSUME NEW g \in Envs, call'[f].op # "none", call'[g].op # "none", call'[g].child = call'[f].child PROVE g = f
      <3>1. CASE g = e
        BY <1>1, <1>2, <1>3, <2>1, <3>1 DEF ActsOn
      <3>2. CASE g # e
        BY <1>1, <2>1, <3>2 DEF ActsOn, Others, EachOK, StatusOK
      <3> QED
        BY <3>1, <3>2
    <2> QED
      BY <1>1, <1>2, <1>3, <2>1 DEF EachOK, StatusOK, On
  <1>5. FaultOK(f)'
    <2>1. fault[f].at = "map" => On(f, PFTEMP) /\ On(f, fault[f].va) /\ fault[f].va \in Private /\ status[f] = "LIVE"
      BY <1>1, Addresses, None DEF EachOK, FaultOK, StatusOK, LiveOK, Kept
    <2>2. fault[f].at = "map" => /\ content'[Page(f, PFTEMP)] = content[Page(f, PFTEMP)]
                                 /\ content'[Page(f, fault[f].va)] = content[Page(f, fault[f].va)]
      BY <1>1, <2>1, Addresses DEF Kept
    <2>3. FaultOK(f) /\ \A a : Page(f, a)' = Page(f, a) /\ On(f, a)' = On(f, a)
      BY <1>1 DEF EachOK, Page, On
    <2> QED
      BY <1>1, <2>2, <2>3 DEF FaultOK, On, Page
  <1>6. LiveOK(f)'
    BY <1>1 DEF EachOK, LiveOK, On
  <1>7. ForkOK(f)'
    <2> SUFFICES ASSUME call[f].op = "fork" PROVE ForkOK(f)'
      BY <1>1 DEF ForkOK
    <2> DEFINE d == call[f].child
    <2>1. /\ d \in Envs /\ pte'[d] = pte[d] /\ handler'[d] = handler[d]
          /\ \A a \in VAs \ Shared : On(d, a) => content'[Page(d, a)] = content[Page(d, a)]
      BY <1>2, <1>3
    <2>2. \A a \in Private : a \in VAs \ Shared /\ On(f, a)
      BY <1>1, Addresses, None DEF EachOK, LiveOK, StatusOK, Kept
    <2>3. call'[f].child = d
      BY <1>1
    <2> HIDE DEF d
    <2>4. /\ \A a \in Private : /\ content'[Page(f, a)] = content[Page(f, a)]
                                /\ On(d, a) => content'[Page(d, a)] = content[Page(d, a)]
      BY <1>1, <2>1, <2>2
    <2>5. ForkOK(f) /\ call[f].child = d
      BY <1>1 DEF EachOK, d
    <2> QED
      BY <1>1, <2>1, <2>3, <2>4, <2>5 DEF ForkOK, On, Page
  <1>8. SpawnOK(f)'
    <2> SUFFICES ASSUME call[f].op = "spawn" PROVE SpawnOK(f)'
      BY <1>1 DEF SpawnOK
    <2> DEFINE d == call[f].child
    <2>1. /\ d \in Envs /\ pte'[d] = pte[d]
          /\ \A a \in VAs \ Shared : On(d, a) => content'[Page(d, a)] = content[Page(d, a)]
      BY <1>2, <1>3
    <2>2. (\A a \in Private : a \in VAs \ Shared) /\ UTEMP \in VAs \ Shared
      BY Addresses DEF Kept
    <2>3. call'[f].child = d
      BY <1>1
    <2> HIDE DEF d
    <2>4. /\ \A a \in Private : On(d, a) => content'[Page(d, a)] = content[Page(d, a)]
          /\ On(f, UTEMP) => content'[Page(f, UTEMP)] = content[Page(f, UTEMP)]
      BY <1>1, <2>1, <2>2
    <2>5. SpawnOK(f) /\ call[f].child = d
      BY <1>1 DEF EachOK, d
    <2> QED
      BY <1>1, <2>1, <2>3, <2>4, <2>5 DEF SpawnOK, On, Page
  <1>9. \A va \in VAs : PermOK(f, va)'
    BY <1>1 DEF PermOK, On
  <1> QED
    BY <1>4, <1>5, <1>6, <1>7, <1>8, <1>9 DEF EachOK

LEMMA OrphanKept ==
  ASSUME Inv, NEW e \in Envs, NEW c \in Envs, ActsOn(e, c), NEW f \in Envs, Orphan(f) PROVE Orphan(f)'
  <1>1. f # e /\ f # c /\ status'[f] = "CHILD"
    BY DEF Orphan, ActsOn
  <1>2. ASSUME NEW g \in Envs, call'[g].op # "none" PROVE call'[g].child # f
    <2>1. CASE g = e
      BY <1>1, <1>2, <2>1 DEF ActsOn
    <2>2. CASE g # e
      BY <1>2, <2>2 DEF ActsOn, Others, Orphan
    <2> QED
      BY <2>1, <2>2
  <1> QED
    BY <1>1, <1>2 DEF Orphan

\* What excuses two environments for having a page remains, when e is not the
\* one that moves or copies it.
LEMMA ExcuseKept ==
  ASSUME Inv, NEW e \in Envs, NEW c \in Envs, ActsOn(e, c), NEW g \in Envs, g # e, NEW h \in Envs
  PROVE  /\ \A va, vb : Moving(g, va, h, vb) => Moving(g, va, h, vb)'
         /\ \A va : Copying(g, h, va) => Copying(g, h, va)'
         /\ Lost(g, h) => Lost(g, h)'
  <1>1. call'[g] = call[g] /\ fault'[g] = fault[g]
    BY DEF ActsOn, Others
  <1>2. Lost(g, h) => Lost(g, h)'
    <2> SUFFICES ASSUME Lost(g, h) PROVE Lost(g, h)'
      OBVIOUS
    <2>1. g # c
      BY DEF Lost, ActsOn, Inv, EachOK, StatusOK
    <2>2. status'[g] = "PANIC"
      BY <2>1 DEF Lost, ActsOn
    <2> QED
      BY <2>2, OrphanKept DEF Lost
  <1> QED
    BY <1>1, <1>2 DEF Moving, Copying

\* A step of e that changes one entry, and may remove others.
LEMMA PairStep ==
  ASSUME Inv, NEW e \in Envs, NEW c \in Envs, ActsOn(e, c), NEW x \in Envs, NEW a \in VAs,
         \A g \in Envs, va \in VAs : (g = x /\ va = a) \/ pte'[g][va] = pte[g][va] \/ pte'[g][va] = NULL,
         \A h \in Envs, va, vb \in VAs :
            Moving(e, va, h, vb) /\ On(e, va)' /\ On(h, vb)' => Moving(e, va, h, vb)',
         \A h \in Envs, va \in VAs :
            (Copying(e, h, va) \/ Lost(e, h)) /\ Has(e, va, "W")' /\ On(h, va)' => (Copying(e, h, va) \/ Lost(e, h))',
         \A h \in Envs, vb \in VAs :
            /\ pte'[x][a] # pte[x][a] /\ ~(h = x /\ vb = a)
            /\ On(x, a)' /\ On(h, vb)' /\ Page(x, a)' = Page(h, vb)
            => PairOK(x, a, h, vb)' /\ PairOK(h, vb, x, a)'
  PROVE  \A g, h \in Envs, va, vb \in VAs : PairOK(g, va, h, vb)'
  <1> SUFFICES ASSUME NEW g \in Envs, NEW h \in Envs, NEW va \in VAs, NEW vb \in VAs,
                      On(g, va)', On(h, vb)', Page(g, va)' = Page(h, vb)'
               PROVE  PairOK(g, va, h, vb)'
    BY ZenonT(40) DEF PairOK
  <1>1. CASE pte'[g][va] = pte[g][va] /\ pte'[h][vb] = pte[h][vb]
    <2>1. PairOK(g, va, h, vb) /\ On(g, va) /\ On(h, vb) /\ Page(g, va) = Page(h, vb)
          /\ (Has(g, va, "W")' <=> Has(g, va, "W")) /\ (Has(g, va, "SHARE")' <=> Has(g, va, "SHARE"))
      BY <1>1 DEF Inv, On, Page, Has
    <2>2. Moving(g, va, h, vb) => Moving(g, va, h, vb)'
      BY ExcuseKept
    <2>3. Moving(h, vb, g, va) => Moving(h, vb, g, va)'
      BY ExcuseKept
    <2>4. va = vb /\ Has(g, va, "W")' /\ (Copying(g, h, va) \/ Lost(g, h)) => (Copying(g, h, va) \/ Lost(g, h))'
      BY ExcuseKept
    <2> QED
      BY <2>1, <2>2, <2>3, <2>4 DEF PairOK
  <1>2. CASE ~(pte'[g][va] = pte[g][va] /\ pte'[h][vb] = pte[h][vb])
    <2>1. CASE g = h /\ va = vb
      BY <2>1 DEF PairOK
    <2>2. CASE g = x /\ va = a /\ ~(h = x /\ vb = a)
      <3>1. pte'[h][vb] = pte[h][vb] /\ Page(h, vb)' = Page(h, vb) /\ pte'[x][a] # pte[x][a]
        BY <1>2, <2>2 DEF On, Page
      <3> QED
        BY <2>2, <3>1
    <2>3. CASE h = x /\ vb = a /\ ~(g = x /\ va = a)
      <3>1. pte'[g][va] = pte[g][va] /\ Page(g, va)' = Page(g, va) /\ pte'[x][a] # pte[x][a]
        BY <1>2, <2>3 DEF On, Page
      <3> QED
        BY <2>3, <3>1
    <2>4. CASE ~(g = x /\ va = a) /\ ~(h = x /\ vb = a)
      BY <1>2, <2>4 DEF On
    <2> QED
      BY <2>1, <2>2, <2>3, <2>4
  <1> QED
    BY <1>1, <1>2

\* The shared pages stay where they are.
LEMMA SharedStep ==
  ASSUME Inv, NEW x \in Envs, NEW a \in VAs,
         \A g \in Envs, va \in VAs : (g = x /\ va = a) \/ pte'[g][va] = pte[g][va] \/ pte'[g][va] = NULL,
         a \in Shared /\ pte'[x][a] # pte[x][a] /\ On(x, a)' => \E g \in Envs : On(g, a) /\ Page(x, a)' = Page(g, a)
  PROVE  SharedOK'
  <1>1. \A g \in Envs, va \in Shared : On(g, va)' => \E h \in Envs : On(h, va) /\ Page(g, va)' = Page(h, va)
    <2> SUFFICES ASSUME NEW g \in Envs, NEW va \in Shared, On(g, va)'
                 PROVE  \E h \in Envs : On(h, va) /\ Page(g, va)' = Page(h, va)
      OBVIOUS
    <2>1. va \in VAs
      BY Addresses
    <2>2. CASE pte'[g][va] = pte[g][va]
      BY <2>2 DEF On, Page
    <2>3. CASE pte'[g][va] # pte[g][va]
      BY <2>1, <2>3 DEF On
    <2> QED
      BY <2>2, <2>3
  <1> QED
    BY <1>1 DEF Inv, SharedOK

\* Nobody else has the page that the handler, or spawn, is filling.
LEMMA TempSole ==
  ASSUME Inv, NEW e \in Envs, fault[e].at \in {"copy", "map"}, NEW h \in Envs, NEW vb \in VAs,
         On(h, vb), Page(h, vb) = Page(e, PFTEMP)
  PROVE  h = e /\ vb = PFTEMP
  <1>1. /\ PFTEMP \in VAs /\ On(e, PFTEMP) /\ EachOK(e) /\ EachOK(h) /\ PermOK(e, PFTEMP) /\ status[e] = "LIVE"
        /\ PairOK(e, PFTEMP, h, vb)
    BY Addresses, None DEF Inv, EachOK, FaultOK, StatusOK
  <1>2. Has(e, PFTEMP, "W") /\ ~Has(e, PFTEMP, "SHARE")
    BY <1>1 DEF PermOK, Has, On
  <1>3. ~Moving(e, PFTEMP, h, vb) /\ ~Moving(h, vb, e, PFTEMP)
    BY <1>1, Addresses DEF Moving, Lost, Orphan, EachOK, StatusOK
  <1>4. vb = PFTEMP
    BY <1>1, <1>3 DEF PairOK
  <1>5. ASSUME h # e PROVE FALSE
    <2>1. status[h] = "LIVE"
      BY <1>1, <1>4, None DEF EachOK, FaultOK, StatusOK
    <2> QED
      BY <1>1, <1>2, <1>3, <1>5, <2>1 DEF PairOK, Copying, Lost, Orphan, EachOK, StatusOK
  <1> QED
    BY <1>4, <1>5

LEMMA UtempSole ==
  ASSUME Inv, NEW e \in Envs, call[e].op = "spawn", call[e].at \in {"read", "map"}, NEW h \in Envs, NEW vb \in VAs,
         On(h, vb), Page(h, vb) = Page(e, UTEMP)
  PROVE  h = e /\ vb = UTEMP
  <1>1. /\ UTEMP \in VAs /\ On(e, UTEMP) /\ EachOK(e) /\ EachOK(h) /\ pte[e][UTEMP].perm = {"W"} /\ status[e] = "LIVE"
        /\ PairOK(e, UTEMP, h, vb)
    BY Addresses, None DEF Inv, EachOK, SpawnOK, StatusOK
  <1>2. Has(e, UTEMP, "W") /\ ~Has(e, UTEMP, "SHARE")
    BY <1>1 DEF Has, On
  <1>3. ~Moving(e, UTEMP, h, vb) /\ ~Moving(h, vb, e, UTEMP)
    <2>1. fault[e].at = "unmap" => fault[e].va # UTEMP
      BY <1>1, Addresses DEF EachOK, FaultOK, Kept
    <2>2. UTEMP # PFTEMP /\ UTEMP \notin Image \cup {Stack}
      BY Addresses DEF Kept
    <2> QED
      BY <1>1, <2>1, <2>2 DEF Moving, Lost, Orphan
  <1> QED
    BY <1>1, <1>2, <1>3 DEF PairOK, Copying, Lost

-----------------------------------------------------------------------------
(***************************************************************************)
(* The actions.                                                            *)
(***************************************************************************)

\* What is known of an environment that is in a call, and of its child.
LEMMA CallFacts ==
  ASSUME Inv, NEW e \in Envs, status[e] = "LIVE"
  PROVE  /\ EachOK(e) /\ call[e] \in CallType /\ fault[e] \in FaultType /\ (\A a \in VAs : PermOK(e, a))
         /\ \A a \in Kept : On(e, a)
         /\ call[e].op # "none" =>
               /\ call[e].child \in Envs /\ call[e].child # e /\ status[call[e].child] = "CHILD"
               /\ EachOK(call[e].child) /\ call[call[e].child] = NoCall /\ fault[call[e].child] = NoFault
               /\ during[call[e].child] = NoHistory /\ \A a \in VAs : PermOK(call[e].child, a)
  <1>1. EachOK(e) /\ call[e] \in CallType /\ fault[e] \in FaultType /\ (\A a \in VAs : PermOK(e, a))
    BY Types DEF Inv
  <1>2. \A a \in Kept : On(e, a)
    BY <1>1 DEF EachOK, LiveOK
  <1>3. ASSUME NEW c, call[e].op # "none", c = call[e].child
        PROVE  /\ c \in Envs /\ c # e /\ status[c] = "CHILD" /\ EachOK(c) /\ call[c] = NoCall /\ fault[c] = NoFault
               /\ during[c] = NoHistory /\ \A a \in VAs : PermOK(c, a)
    <2>1. c \in Envs /\ c # e /\ status[c] = "CHILD"
      BY <1>1, <1>3 DEF EachOK, StatusOK
    <2>2. EachOK(c) /\ \A a \in VAs : PermOK(c, a)
      BY <2>1 DEF Inv
    <2> QED
      BY <2>1, <2>2, None DEF EachOK, StatusOK
  <1> QED
    BY <1>1, <1>2, <1>3

\* The invariant of a child or of a free environment, in which nothing happens.
LEMMA IdleEach ==
  ASSUME NEW c \in Envs, call'[c] = NoCall, fault'[c] = NoFault, during'[c] = NoHistory, ~On(c, PFTEMP)',
         \/ status'[c] = "CHILD"
         \/ status'[c] = "FREE" /\ \A va \in VAs : ~On(c, va)'
         \/ status'[c] = "LIVE" /\ \A va \in Kept : On(c, va)'
  PROVE  EachOK(c)'
  <1>1. StatusOK(c)'
    BY None DEF StatusOK
  <1>2. FaultOK(c)' /\ LiveOK(c)' /\ ForkOK(c)' /\ SpawnOK(c)'
    BY None DEF FaultOK, LiveOK, ForkOK, SpawnOK
  <1> QED
    BY <1>1, <1>2 DEF EachOK

LEMMA GotoIs ==
  ASSUME TypeOK, NEW e \in Envs, NEW at, NEW va, Goto(e, at, va)
  PROVE  /\ call'[e] = [call[e] EXCEPT !.at = at, !.va = va]
         /\ call'[e].op = call[e].op /\ call'[e].child = call[e].child /\ call'[e].at = at /\ call'[e].va = va
         /\ \A f \in Envs : f # e => call'[f] = call[f]
         /\ /\ at \in {"run", "exstack", "child", "self", "alloc", "read", "map", "unmap", "shared"}
            /\ va \in Nat \cup {NULL}
            => call' \in [Envs -> CallType]
  <1> DEFINE r == [call[e] EXCEPT !.at = at, !.va = va]
  <1>1. call[e] \in CallType /\ call \in [Envs -> CallType] /\ call' = [call EXCEPT ![e] = r]
    BY Types DEF Goto
  <1>2. r.op = call[e].op /\ r.child = call[e].child /\ r.at = at /\ r.va = va
    BY <1>1 DEF CallType
  <1>3. /\ at \in {"run", "exstack", "child", "self", "alloc", "read", "map", "unmap", "shared"}
        /\ va \in Nat \cup {NULL}
        => r \in CallType
    BY <1>1 DEF CallType
  <1> HIDE DEF r
  <1>4. call'[e] = r /\ \A f \in Envs : f # e => call'[f] = call[f]
    BY <1>1
  <1>5. r \in CallType => call' \in [Envs -> CallType]
    BY <1>1
  <1>6. call'[e] = [call[e] EXCEPT !.at = at, !.va = va]
    BY <1>4 DEF r
  <1> QED
    BY <1>2, <1>3, <1>4, <1>5, <1>6

LEMMA UtempVa == UTEMP \in VAs
  BY Addresses

\* A step that changes no entry.
LEMMA PairsSame ==
  ASSUME Inv, NEW e \in Envs, NEW c \in Envs, ActsOn(e, c), pte' = pte,
         \A h \in Envs, va, vb \in VAs : Moving(e, va, h, vb) /\ On(e, va) => Moving(e, va, h, vb)',
         \A h \in Envs, va \in VAs :
            (Copying(e, h, va) \/ Lost(e, h)) /\ On(h, va) => (Copying(e, h, va) \/ Lost(e, h))'
  PROVE  (\A g, h \in Envs, va, vb \in VAs : PairOK(g, va, h, vb)') /\ SharedOK'
  <1>1. UTEMP \in VAs /\ \A g, va : On(g, va)' = On(g, va)
    BY Addresses DEF On
  <1>2. \A g, h \in Envs, va, vb \in VAs : PairOK(g, va, h, vb)'
    <2>1. \A g \in Envs, va \in VAs : (g = e /\ va = UTEMP) \/ pte'[g][va] = pte[g][va] \/ pte'[g][va] = NULL
      OBVIOUS
    <2>2. \A h \in Envs, va, vb \in VAs :
             Moving(e, va, h, vb) /\ On(e, va)' /\ On(h, vb)' => Moving(e, va, h, vb)'
      BY <1>1
    <2>3. \A h \in Envs, va \in VAs :
             (Copying(e, h, va) \/ Lost(e, h)) /\ Has(e, va, "W")' /\ On(h, va)' => (Copying(e, h, va) \/ Lost(e, h))'
      BY <1>1
    <2>4. \A h \in Envs, vb \in VAs :
             /\ pte'[e][UTEMP] # pte[e][UTEMP] /\ ~(h = e /\ vb = UTEMP)
             /\ On(e, UTEMP)' /\ On(h, vb)' /\ Page(e, UTEMP)' = Page(h, vb)
             => PairOK(e, UTEMP, h, vb)' /\ PairOK(h, vb, e, UTEMP)'
      OBVIOUS
    <2> QED
      BY UtempVa, <2>1, <2>2, <2>3, <2>4, PairStep
  <1>3. SharedOK'
    BY <1>1, SharedStep
  <1> QED
    BY <1>2, <1>3

\* A store reaches no page of another environment, but the one it shares or the
\* one its fork has just given away.
LEMMA StoreSole ==
  ASSUME Inv, NEW e \in Envs, status[e] = "LIVE", NEW va \in Kept, Has(e, va, "W"), fault[e].at # "unmap",
         NEW h \in Envs, NEW vb \in VAs, On(h, vb), Page(h, vb) = Page(e, va)
  PROVE  /\ vb = va
         /\ h # e /\ va \notin Shared => Copying(e, h, va)
  <1>1. va \in VAs /\ va \notin {UTEMP, PFTEMP} /\ va \notin Text /\ On(e, va)
    BY Addresses DEF Has, On
  <1>2. PairOK(e, va, h, vb) /\ PermOK(e, va)
    BY <1>1 DEF Inv
  <1>3. ~Moving(e, va, h, vb) /\ ~Moving(h, vb, e, va)
    <2>1. h # e => ~Moving(h, vb, e, va)
      BY CallFacts DEF Moving, Lost, Orphan, Inv, EachOK, StatusOK
    <2>2. ~Moving(e, vb, e, va)
      BY CallFacts DEF Moving, Lost, Orphan
    <2> QED
      BY <1>1, <2>1, <2>2 DEF Moving
  <1>4. va \notin Shared => ~Has(e, va, "SHARE")
    BY <1>1, <1>2, Addresses DEF PermOK, Has, On, Kept
  <1> QED
    BY <1>1, <1>2, <1>3, <1>4 DEF PairOK, Lost

LEMMA StoreStep ==
  ASSUME Inv, NEW e \in Envs, NEW va \in VAs, NEW v \in Values, store(e, va, v) PROVE Inv'
  <1>1. /\ status[e] = "LIVE" /\ fault[e].at = "none" /\ va \in Kept /\ (va # Stack => call[e].op = "none")
        /\ status' = status /\ pte' = pte /\ handler' = handler /\ call' = call
    BY DEF store, Executes, Kept
  <1>2. /\ EachOK(e) /\ call[e] \in CallType /\ (\A a \in Kept : On(e, a))
        /\ call[e].op # "none" => call[e].child \in Envs /\ EachOK(call[e].child)
    BY <1>1, CallFacts
  <1>3. CASE Has(e, va, "W") /\ Stored(e, va, v) /\ UNCHANGED fault
    <2> DEFINE p == Page(e, va)
    <2>1. p \in Pages /\ content' = [content EXCEPT ![p] = v] /\ fault' = fault
          /\ content' \in [Pages -> Values] /\ (\A q \in Pages : q # p => content'[q] = content[q]) /\ content'[p] = v
      BY <1>1, <1>2, <1>3, Types, Addresses DEF Stored, Inv, TypeOK
    <2>2. \A h \in Envs, vb \in VAs : On(h, vb) /\ Page(h, vb) = p =>
             vb = va /\ (h # e /\ va \notin Shared => Copying(e, h, va))
      BY <1>1, <1>3, StoreSole
    <2>3. \A h \in Envs, vb \in VAs : On(h, vb) => Page(h, vb) \in Pages
      BY Types DEF Inv
    <2> HIDE DEF p
    <2>4. \A f \in Envs : (f # e => during'[f] = during[f]) /\ during'[f] \in [Private -> SUBSET Values]
      BY <1>3 DEF Stored, Inv, TypeOK
    <2>5. Others(e)
      BY <1>1, <2>1, <2>4 DEF Others
    <2>6. PICK c \in Envs : c = IF call[e].op = "none" THEN e ELSE call[e].child
      BY <1>2
    <2>7. ActsOn(e, c)
      BY <1>1, <2>5, <2>6 DEF ActsOn
    <2>8. ASSUME NEW f \in Envs, f \notin {e, c} PROVE ContentKept(f)
      <3> SUFFICES ASSUME NEW a \in VAs \ Shared, On(f, a) PROVE content'[Page(f, a)] = content[Page(f, a)]
        BY DEF ContentKept
      <3>1. Page(f, a) # p
        BY <2>2, <2>6, <2>8 DEF Copying
      <3> QED
        BY <2>1, <2>3, <3>1
    <2>9. \A f \in Envs : f \notin {e, c} => EachOK(f)' /\ \A a \in VAs : PermOK(f, a)'
      BY <2>7, <2>8, OthersKept
    <2>10. \A f \in Envs, a \in VAs : PermOK(f, a)'
      BY <1>1 DEF Inv, PermOK, On
    <2>11. (\A g, h \in Envs, a, b \in VAs : PairOK(g, a, h, b)') /\ SharedOK'
      BY <1>1, <2>1, <2>7, PairsSame DEF Moving, Copying, Lost, Orphan
    <2>12. EachOK(e)'
      <3>1. StatusOK(e)'
        BY <1>1, <1>2, <1>3, <2>1 DEF EachOK, StatusOK, On, Stored
      <3>2. FaultOK(e)' /\ LiveOK(e)'
        BY <1>1, <1>2, <2>1 DEF EachOK, FaultOK, LiveOK, On
      <3>3. SpawnOK(e)'
        <4> SUFFICES ASSUME call[e].op = "spawn" PROVE SpawnOK(e)'
          BY <1>1 DEF SpawnOK
        <4>1. call[e].child = c /\ ~Copying(e, c, va) /\ c # e
          BY <1>1, <2>6, CallFacts DEF Copying
        <4>2. UTEMP \in VAs /\ UTEMP # va /\ va \notin Shared /\ \A a \in Private : a \in VAs
          BY <1>1, Addresses
        <4>3. \A a \in Private : On(c, a) => content'[Page(c, a)] = content[Page(c, a)]
          BY <2>1, <2>2, <2>3, <4>1, <4>2
        <4>4. On(e, UTEMP) => content'[Page(e, UTEMP)] = content[Page(e, UTEMP)]
          BY <2>1, <2>2, <2>3, <4>2
        <4> QED
          BY <1>1, <1>2, <4>1, <4>3, <4>4 DEF EachOK, SpawnOK, On, Page
      <3>4. ForkOK(e)'
        <4> SUFFICES ASSUME call[e].op = "fork" PROVE ForkOK(e)'
          BY <1>1 DEF ForkOK
        <4>1. call[e].child = c /\ c # e /\ va = Stack /\ va \in Private /\ va \notin Shared
          BY <1>1, <2>6, CallFacts, Addresses
        <4>2. during'[e] = [during[e] EXCEPT ![va] = @ \cup {v}]
          BY <1>3, <4>1 DEF Stored, Inv, TypeOK
        <4>3. \A a \in Private : a \in VAs /\ during[e][a] \subseteq during'[e][a]
          BY <4>2, Addresses DEF Inv, TypeOK
        <4>4. v \in during'[e][va]
          BY <4>1, <4>2 DEF Inv, TypeOK
        <4>5. ASSUME NEW a \in Private, NEW g \in {e, c}, On(g, a), content[Page(g, a)] \in during[e][a]
              PROVE  content'[Page(g, a)] \in during'[e][a]
          <5>1. CASE Page(g, a) = p
            BY <2>1, <2>2, <4>3, <4>4, <4>5, <5>1
          <5>2. CASE Page(g, a) # p
            BY <2>1, <2>3, <4>3, <4>5, <5>2
          <5> QED
            BY <5>1, <5>2
        <4>6. \A a \in Private : On(e, a)
          BY <1>2 DEF Kept
        <4> QED
          BY <1>1, <1>2, <4>1, <4>5, <4>6 DEF EachOK, ForkOK, On, Page
      <3> QED
        BY <3>1, <3>2, <3>3, <3>4 DEF EachOK
    <2>13. c # e => EachOK(c)'
      <3> SUFFICES ASSUME c # e PROVE EachOK(c)'
        OBVIOUS
      <3>1. status[c] = "CHILD" /\ call[c] = NoCall /\ fault[c] = NoFault /\ during[c] = NoHistory /\ ~On(c, PFTEMP)
        BY <1>1, <2>6, CallFacts, None DEF EachOK, FaultOK
      <3> QED
        BY <1>1, <2>1, <2>4, <3>1, IdleEach DEF On
    <2>14. TypeOK'
      <3>1. during' \in [Envs -> [Private -> SUBSET Values]]
        BY <1>3, <2>4 DEF Stored, Inv, TypeOK
      <3> QED
        BY <1>1, <2>1, <3>1 DEF Inv, TypeOK
    <2> QED
      BY <2>9, <2>10, <2>11, <2>12, <2>13, <2>14 DEF Inv
  <1>4. CASE /\ Has(e, va, "COW") /\ handler[e]
             /\ fault' = [fault EXCEPT ![e] = [at |-> "alloc", va |-> va, v |-> v]]
             /\ UNCHANGED <<content, during>>
    <2> DEFINE r == [at |-> "alloc", va |-> va, v |-> v]
    <2>1. r \in FaultType /\ r.at = "alloc" /\ r.va = va
      BY <1>1 DEF FaultType
    <2> HIDE DEF r
    <2>2. fault' = [fault EXCEPT ![e] = r] /\ fault'[e] = r /\ (\A f \in Envs : f # e => fault'[f] = fault[f])
          /\ fault' \in [Envs -> FaultType]
      BY <1>4, <2>1, Types DEF r, Inv
    <2>3. content' = content /\ during' = during
      BY <1>4
    <2>4. PICK c \in Envs : c = IF call[e].op = "none" THEN e ELSE call[e].child
      BY <1>2
    <2>5. ActsOn(e, c)
      BY <1>1, <2>2, <2>3, <2>4 DEF ActsOn, Others
    <2>6. \A f \in Envs : f \notin {e, c} => EachOK(f)'
      BY <2>3, <2>5, OthersKept DEF ContentKept
    <2>7. \A f \in Envs, a \in VAs : PermOK(f, a)'
      BY <1>1 DEF Inv, PermOK, On
    <2>8. (\A g, h \in Envs, a, b \in VAs : PairOK(g, a, h, b)') /\ SharedOK'
      <3>1. \A h \in Envs, a, b \in VAs : Moving(e, a, h, b) /\ On(e, a) => Moving(e, a, h, b)'
        BY <1>1, <2>2 DEF Moving, Lost, Orphan
      <3>2. \A h \in Envs, a \in VAs : (Copying(e, h, a) \/ Lost(e, h)) => (Copying(e, h, a) \/ Lost(e, h))'
        BY <1>1 DEF Copying, Lost, Orphan
      <3> QED
        BY <1>1, <2>5, <3>1, <3>2, PairsSame
    <2>9. va \in Private
      BY <1>1, <1>2, <1>4, CallFacts, Addresses DEF PermOK, Has, On, Kept
    <2>10. EachOK(e)'
      <3>1. StatusOK(e)' /\ LiveOK(e)' /\ ForkOK(e)' /\ SpawnOK(e)'
        BY <1>1, <1>2, <2>3 DEF EachOK, StatusOK, LiveOK, ForkOK, SpawnOK, On, Page
      <3>2. FaultOK(e)'
        BY <1>1, <1>2, <2>1, <2>2, <2>9 DEF EachOK, FaultOK, On
      <3> QED
        BY <3>1, <3>2 DEF EachOK
    <2>11. c # e => EachOK(c)'
      <3> SUFFICES ASSUME c # e PROVE EachOK(c)'
        OBVIOUS
      <3>1. status[c] = "CHILD" /\ call[c] = NoCall /\ fault[c] = NoFault /\ during[c] = NoHistory /\ ~On(c, PFTEMP)
        BY <1>1, <2>4, CallFacts, None DEF EachOK, FaultOK
      <3> QED
        BY <1>1, <2>2, <2>3, <3>1, IdleEach DEF On
    <2>12. TypeOK'
      BY <1>1, <2>2, <2>3 DEF Inv, TypeOK, FaultType
    <2> QED
      BY <2>6, <2>7, <2>8, <2>10, <2>11, <2>12 DEF Inv
  <1> QED
    BY <1>3, <1>4 DEF store

\* A step of the handler of e, which changes nothing but its place in it, its
\* own entries and contents that nobody else has.
LEMMA FaultFrame ==
  ASSUME Inv, NEW e \in Envs, status[e] = "LIVE", UNCHANGED <<status, handler, call, during>>,
         NEW r \in FaultType, fault' = [fault EXCEPT ![e] = r], r.at # "none" => fault[e].at # "none" /\ r.va = fault[e].va,
         pte' \in [Envs -> [VAs -> Pte \cup {NULL}]], content' \in [Pages -> Values],
         \A f \in Envs : f # e => pte'[f] = pte[f] /\ ContentKept(f),
         \A a \in Private : On(e, a)' /\ content'[Page(e, a)'] = content[Page(e, a)],
         \A a \in Shared : pte'[e][a] = pte[e][a],
         pte'[e][UTEMP] = pte[e][UTEMP], On(e, UTEMP) => content'[Page(e, UTEMP)] = content[Page(e, UTEMP)],
         On(e, PFTEMP)' <=> r.at \in {"copy", "map", "unmap"},
         r.at = "map" => content'[Page(e, PFTEMP)'] = content'[Page(e, r.va)'],
         \A a \in VAs : PermOK(e, a)', \A g, h \in Envs, a, b \in VAs : PairOK(g, a, h, b)', SharedOK'
  PROVE  Inv'
  <1>1. /\ EachOK(e) /\ call[e] \in CallType /\ fault[e] \in FaultType /\ (\A a \in Kept : On(e, a))
        /\ call[e].op # "none" => call[e].child \in Envs /\ EachOK(call[e].child)
    BY CallFacts
  <1>2. fault'[e] = r /\ (\A f \in Envs : f # e => fault'[f] = fault[f]) /\ fault' \in [Envs -> FaultType]
    BY Types DEF Inv
  <1>3. PICK c \in Envs : c = IF call[e].op = "none" THEN e ELSE call[e].child
    BY <1>1
  <1>4. ActsOn(e, c)
    BY <1>2, <1>3 DEF ActsOn, Others
  <1>5. \A f \in Envs : f \notin {e, c} => EachOK(f)'
    BY <1>4, OthersKept
  <1>6. \A f \in Envs, a \in VAs : PermOK(f, a)'
    <2>1. \A f \in Envs, a \in VAs : f # e => PermOK(f, a)'
      BY DEF Inv, PermOK, On
    <2> QED
      BY <2>1
  <1>7. c # e => EachOK(c)'
    <2> SUFFICES ASSUME c # e PROVE EachOK(c)'
      OBVIOUS
    <2>1. status[c] = "CHILD" /\ call[c] = NoCall /\ fault[c] = NoFault /\ during[c] = NoHistory /\ ~On(c, PFTEMP)
      BY <1>3, CallFacts, None DEF EachOK, FaultOK
    <2> QED
      BY <1>2, <2>1, IdleEach DEF On
  <1>8. EachOK(e)'
    <2>1. StatusOK(e)'
      BY <1>1 DEF EachOK, StatusOK
    <2>2. LiveOK(e)'
      BY <1>1 DEF LiveOK, On, Kept
    <2>3. FaultOK(e)'
      BY <1>1, <1>2 DEF EachOK, FaultOK
    <2>4. ForkOK(e)'
      <3> SUFFICES ASSUME call[e].op = "fork" PROVE ForkOK(e)'
        BY DEF ForkOK
      <3>1. call[e].child = c /\ c # e
        BY <1>3, CallFacts
      <3>2. \A a \in VAs : On(c, a)' <=> On(c, a)
        BY <3>1 DEF On
      <3>3. \A a \in Private : a \in VAs \ Shared /\ Page(c, a)' = Page(c, a)
        BY <3>1, Addresses DEF Page
      <3>4. \A a \in Private : On(c, a) => content'[Page(c, a)] = content[Page(c, a)]
        BY <3>1, <3>3 DEF ContentKept
      <3>5. call[e].at = "self" => On(e, call[e].va)'
        BY ZenonT(40), <1>1 DEF EachOK, ForkOK, On
      <3>6. \A a \in Kept \cup {UTEMP} : a \in VAs
        BY Addresses
      <3> QED
        BY ZenonT(30), <1>1, <3>1, <3>2, <3>3, <3>4, <3>5, <3>6 DEF EachOK, ForkOK, Kept
    <2>5. SpawnOK(e)'
      <3> SUFFICES ASSUME call[e].op = "spawn" PROVE SpawnOK(e)'
        BY DEF SpawnOK
      <3>1. call[e].child = c /\ c # e
        BY <1>3, CallFacts
      <3>2. pte'[c] = pte[c] /\ ContentKept(c)
        BY <3>1
      <3>3. \A a \in Private : On(c, a) => content'[Page(c, a)] = content[Page(c, a)]
        BY <3>2, Addresses DEF ContentKept
      <3> QED
        BY <1>1, <3>1, <3>2, <3>3 DEF EachOK, SpawnOK, On, Page
    <2> QED
      BY <2>1, <2>2, <2>3, <2>4, <2>5 DEF EachOK
  <1>9. TypeOK'
    BY <1>2 DEF Inv, TypeOK, FaultType
  <1> QED
    BY <1>5, <1>6, <1>7, <1>8, <1>9 DEF Inv

\* One entry changes.
OneEntry(x, a, y) == pte' = [pte EXCEPT ![x][a] = y]

LEMMA PermKept ==
  ASSUME NEW f, NEW a, PermOK(f, a), pte'[f][a] = pte[f][a], handler'[f] = handler[f] PROVE PermOK(f, a)'
  BY DEF PermOK, On

LEMMA EntryIs ==
  ASSUME TypeOK, NEW x \in Envs, NEW a \in VAs, NEW y \in Pte \cup {NULL}, OneEntry(x, a, y)
  PROVE  /\ pte' \in [Envs -> [VAs -> Pte \cup {NULL}]] /\ pte'[x][a] = y
         /\ \A g \in Envs, va \in VAs : ~(g = x /\ va = a) => pte'[g][va] = pte[g][va]
         /\ \A g \in Envs : g # x => pte'[g] = pte[g]
  <1> DEFINE t == [pte[x] EXCEPT ![a] = y]
  <1>1. pte[x] \in [VAs -> Pte \cup {NULL}] /\ pte \in [Envs -> [VAs -> Pte \cup {NULL}]] /\ pte' = [pte EXCEPT ![x] = t]
    BY DEF TypeOK, OneEntry
  <1>2. t \in [VAs -> Pte \cup {NULL}] /\ t[a] = y /\ \A va \in VAs : va # a => t[va] = pte[x][va]
    BY <1>1
  <1> HIDE DEF t
  <1>3. pte'[x] = t /\ (\A g \in Envs : g # x => pte'[g] = pte[g]) /\ pte' \in [Envs -> [VAs -> Pte \cup {NULL}]]
    BY <1>1, <1>2
  <1> QED
    BY <1>2, <1>3

\* Where the handler of e is.
LEMMA FaultFacts ==
  ASSUME Inv, NEW e \in Envs, status[e] = "LIVE", fault[e].at # "none"
  PROVE  /\ fault[e].va \in Private /\ fault[e].va \in VAs /\ On(e, fault[e].va) /\ fault[e].va \notin {UTEMP, PFTEMP}
         /\ fault[e].va \notin Shared /\ pte[e][fault[e].va] \in Pte
         /\ (fault[e].at = "alloc" <=> ~On(e, PFTEMP))
         /\ fault[e].at \in {"copy", "map", "unmap"} => pte[e][PFTEMP] \in Pte /\ pte[e][PFTEMP].perm = {"W"}
  <1>1. EachOK(e) /\ fault[e] \in FaultType /\ (\A a \in VAs : PermOK(e, a)) /\ \A a \in Kept : On(e, a)
    BY CallFacts
  <1>2. fault[e].va \in Private
    BY <1>1 DEF EachOK, FaultOK
  <1>3. fault[e].va \in Kept /\ fault[e].va \in VAs /\ fault[e].va \notin {UTEMP, PFTEMP} /\ fault[e].va \notin Shared
    BY <1>2, Addresses DEF Kept
  <1>4. PFTEMP \in VAs
    BY Addresses
  <1>5. fault[e].at = "alloc" <=> ~On(e, PFTEMP)
    BY <1>1 DEF EachOK, FaultOK, FaultType
  <1>6. On(e, PFTEMP) => pte[e][PFTEMP] \in Pte /\ pte[e][PFTEMP].perm = {"W"}
    BY <1>1, <1>4, Types DEF Inv, PermOK
  <1> QED
    BY <1>1, <1>2, <1>3, <1>5, <1>6, Types DEF Inv

LEMMA FaultAlloc ==
  ASSUME Inv, NEW e \in Envs, status[e] = "LIVE", UNCHANGED <<status, handler, call, during>>,
         fault[e].at = "alloc", fault' = [fault EXCEPT ![e].at = "copy"],
         NEW p \in FreePages, sys_page_alloc(e, PFTEMP, p, {"W"})
  PROVE  Inv'
  <1> DEFINE r == [fault[e] EXCEPT !.at = "copy"]
             y == [pa |-> p, perm |-> {"W"}]
  <1>1. EachOK(e) /\ fault[e] \in FaultType /\ (\A a \in VAs : PermOK(e, a)) /\ \A a \in Kept : On(e, a)
    BY CallFacts
  <1>2. r \in FaultType /\ r.at = "copy" /\ r.va = fault[e].va /\ fault' = [fault EXCEPT ![e] = r]
    BY <1>1, Types DEF FaultType, Inv
  <1>3. p \in Pages /\ \A g \in Envs, a \in VAs : On(g, a) => Page(g, a) # p
    BY DEF FreePages, On, Page
  <1>4. y \in Pte /\ y # NULL /\ y.pa = p /\ y.perm = {"W"} /\ PFTEMP \in VAs /\ OneEntry(e, PFTEMP, y)
    <2>1. y \in Pte
      BY <1>3 DEF Pte, Perms
    <2>2. OneEntry(e, PFTEMP, y)
      BY DEF OneEntry, sys_page_alloc
    <2>3. y # NULL
      BY <2>1 DEF Pte, Perms
    <2> HIDE DEF y
    <2> QED
      BY <2>1, <2>2, <2>3, Addresses DEF y
  <1> HIDE DEF r, y
  <1>5. /\ pte' \in [Envs -> [VAs -> Pte \cup {NULL}]] /\ pte'[e][PFTEMP] = y
        /\ \A g \in Envs, va \in VAs : ~(g = e /\ va = PFTEMP) => pte'[g][va] = pte[g][va]
        /\ \A g \in Envs : g # e => pte'[g] = pte[g]
    BY <1>4, EntryIs DEF Inv
  <1>6. content' \in [Pages -> Values] /\ \A g \in Envs, a \in VAs : On(g, a) => content'[Page(g, a)] = content[Page(g, a)]
    BY <1>3, Types DEF sys_page_alloc, Inv, TypeOK
  <1>7. \A a \in VAs : a # PFTEMP => (On(e, a)' <=> On(e, a)) /\ Page(e, a)' = Page(e, a)
    BY <1>5 DEF On, Page
  <1>8. \A a \in VAs : PermOK(e, a)'
    BY <1>1, <1>4, <1>5, Addresses DEF PermOK, On, Kept
  <1>9. \A g, h \in Envs, a, b \in VAs : PairOK(g, a, h, b)'
    <2>1. PICK c \in Envs : c = IF call[e].op = "none" THEN e ELSE call[e].child
      BY <1>1 DEF EachOK, StatusOK
    <2>2. ActsOn(e, c)
      BY <1>2, <1>5, <2>1 DEF ActsOn, Others
    <2>3. \A g \in Envs, va \in VAs : (g = e /\ va = PFTEMP) \/ pte'[g][va] = pte[g][va] \/ pte'[g][va] = NULL
      BY <1>5
    <2>4. \A h \in Envs, va, vb \in VAs : Moving(e, va, h, vb) /\ On(e, va)' /\ On(h, vb)' => Moving(e, va, h, vb)'
      BY DEF Moving, Lost, Orphan
    <2>5. \A h \in Envs, va \in VAs :
             (Copying(e, h, va) \/ Lost(e, h)) /\ Has(e, va, "W")' /\ On(h, va)' => (Copying(e, h, va) \/ Lost(e, h))'
      BY DEF Copying, Lost, Orphan
    <2>6. \A h \in Envs, vb \in VAs :
             /\ pte'[e][PFTEMP] # pte[e][PFTEMP] /\ ~(h = e /\ vb = PFTEMP)
             /\ On(e, PFTEMP)' /\ On(h, vb)' /\ Page(e, PFTEMP)' = Page(h, vb)
             => PairOK(e, PFTEMP, h, vb)' /\ PairOK(h, vb, e, PFTEMP)'
      BY <1>3, <1>4, <1>5 DEF On, Page
    <2> QED
      BY <1>4, <2>2, <2>3, <2>4, <2>5, <2>6, PairStep
  <1>10. SharedOK'
    BY <1>4, <1>5, Addresses, SharedStep DEF Kept
  <1>11. /\ \A f \in Envs : f # e => pte'[f] = pte[f] /\ ContentKept(f)
         /\ \A a \in Private : On(e, a)' /\ content'[Page(e, a)'] = content[Page(e, a)]
         /\ \A a \in Shared : pte'[e][a] = pte[e][a]
         /\ pte'[e][UTEMP] = pte[e][UTEMP] /\ (On(e, UTEMP) => content'[Page(e, UTEMP)] = content[Page(e, UTEMP)])
    BY <1>1, <1>5, <1>6, <1>7, Addresses DEF ContentKept, Kept
  <1>12. On(e, PFTEMP)' <=> r.at \in {"copy", "map", "unmap"}
    <2>1. On(e, PFTEMP)'
      BY <1>4, <1>5 DEF On
    <2> QED
      BY <1>2, <2>1
  <1> QED
    BY <1>2, <1>5, <1>6, <1>8, <1>9, <1>10, <1>11, <1>12, FaultFrame

LEMMA FaultCopy ==
  ASSUME Inv, NEW e \in Envs, status[e] = "LIVE", UNCHANGED <<status, handler, call, during>>,
         fault[e].at = "copy", fault' = [fault EXCEPT ![e].at = "map"], pte' = pte,
         content' = [content EXCEPT ![Page(e, PFTEMP)] = content[Page(e, fault[e].va)]]
  PROVE  Inv'
  <1> PICK r : r = [fault[e] EXCEPT !.at = "map"]
    OBVIOUS
  <1> PICK p : p = Page(e, PFTEMP)
    OBVIOUS
  <1> PICK va : va = fault[e].va
    OBVIOUS
  <1>1. EachOK(e) /\ fault[e] \in FaultType /\ (\A a \in VAs : PermOK(e, a)) /\ \A a \in Kept : On(e, a)
    BY CallFacts
  <1>2. r \in FaultType /\ r.at = "map" /\ r.va = va /\ fault' = [fault EXCEPT ![e] = r]
    BY <1>1, Types DEF FaultType, Inv
  <1>3. \A g \in Envs, a \in VAs : On(g, a) /\ Page(g, a) = p => g = e /\ a = PFTEMP
    BY TempSole
  <1>4. /\ va \in VAs /\ va # PFTEMP /\ On(e, va) /\ On(e, PFTEMP) /\ PFTEMP \in VAs
        /\ \A g \in Envs, a \in VAs : On(g, a) => Page(g, a) \in Pages
    BY FaultFacts, Addresses, Types DEF Inv
  <1>5. content' = [content EXCEPT ![p] = content[Page(e, va)]] /\ content \in [Pages -> Values] /\ p \in Pages
        /\ Page(e, va) \in Pages /\ Page(e, va) # p
    BY <1>3, <1>4 DEF Inv, TypeOK
  <1>6. /\ content' \in [Pages -> Values] /\ (\A q \in Pages : q # p => content'[q] = content[q])
        /\ content'[p] = content'[Page(e, va)]
    BY <1>5
  <1>7. \A g \in Envs, a \in VAs : On(g, a) /\ ~(g = e /\ a = PFTEMP) => content'[Page(g, a)] = content[Page(g, a)]
    BY <1>3, <1>4, <1>6
  <1>8. (\A g, h \in Envs, a, b \in VAs : PairOK(g, a, h, b)') /\ SharedOK'
    <2>1. PICK c \in Envs : c = IF call[e].op = "none" THEN e ELSE call[e].child
      BY <1>1 DEF EachOK, StatusOK
    <2>2. ActsOn(e, c)
      BY <1>2, <2>1 DEF ActsOn, Others
    <2>3. \A h \in Envs, a, b \in VAs : Moving(e, a, h, b) /\ On(e, a) => Moving(e, a, h, b)'
      BY DEF Moving, Lost, Orphan
    <2>4. \A h \in Envs, a \in VAs : (Copying(e, h, a) \/ Lost(e, h)) /\ On(h, a) => (Copying(e, h, a) \/ Lost(e, h))'
      BY DEF Copying, Lost, Orphan
    <2> QED
      BY <2>2, <2>3, <2>4, PairsSame
  <1>9. \A a \in VAs : PermOK(e, a)'
    BY <1>1 DEF PermOK, On
  <1>10. pte' \in [Envs -> [VAs -> Pte \cup {NULL}]]
    BY DEF Inv, TypeOK
  <1>11. /\ \A f \in Envs : f # e => pte'[f] = pte[f] /\ ContentKept(f)
         /\ \A a \in Private : On(e, a)' /\ content'[Page(e, a)'] = content[Page(e, a)]
         /\ \A a \in Shared : pte'[e][a] = pte[e][a]
         /\ pte'[e][UTEMP] = pte[e][UTEMP] /\ (On(e, UTEMP) => content'[Page(e, UTEMP)] = content[Page(e, UTEMP)])
    BY <1>1, <1>7, Addresses DEF ContentKept, Kept, On, Page
  <1>12. (On(e, PFTEMP)' <=> r.at \in {"copy", "map", "unmap"}) /\ content'[Page(e, PFTEMP)'] = content'[Page(e, r.va)']
    BY <1>2, <1>4, <1>6 DEF On, Page
  <1>13. r.va = fault[e].va
    BY <1>2
  <1> QED
    BY <1>2, <1>6, <1>8, <1>9, <1>10, <1>11, <1>12, <1>13, FaultFrame

LEMMA FaultMap ==
  ASSUME Inv, NEW e \in Envs, status[e] = "LIVE", UNCHANGED <<status, handler, call, during>>, pgfault_map(e)
  PROVE  Inv'
  <1> PICK r : r = [fault[e] EXCEPT !.at = "unmap"]
    OBVIOUS
  <1> PICK y : y = [pa |-> Page(e, PFTEMP), perm |-> {"W"}]
    OBVIOUS
  <1> PICK va : va = fault[e].va
    OBVIOUS
  <1>1. EachOK(e) /\ fault[e] \in FaultType /\ (\A a \in VAs : PermOK(e, a)) /\ \A a \in Kept : On(e, a)
    BY CallFacts
  <1>2. r \in FaultType /\ r.at = "unmap" /\ r.va = va /\ fault' = [fault EXCEPT ![e] = r] /\ fault[e].at = "map"
    BY <1>1, Types DEF FaultType, Inv, pgfault_map
  <1>3. \A g \in Envs, a \in VAs : On(g, a) /\ Page(g, a) = Page(e, PFTEMP) => g = e /\ a = PFTEMP
    BY <1>2, TempSole
  <1>4. /\ va \in Private /\ va \in VAs /\ va \notin {UTEMP, PFTEMP} /\ va \notin Shared /\ On(e, va) /\ On(e, PFTEMP)
        /\ PFTEMP \in VAs /\ Page(e, PFTEMP) \in Pages /\ va = fault[e].va
    BY <1>2, FaultFacts, Addresses, Types DEF Inv
  <1>5. y \in Pte /\ y # NULL /\ y.pa = Page(e, PFTEMP) /\ y.perm = {"W"} /\ OneEntry(e, va, y)
    <2>1. y \in Pte
      BY <1>4 DEF Pte, Perms
    <2>2. OneEntry(e, va, y)
      BY DEF OneEntry, sys_page_map, pgfault_map, Page
    <2>3. y # NULL
      BY <2>1 DEF Pte, Perms
    <2> QED
      BY <2>1, <2>2, <2>3
  <1>6. content' = content
    BY DEF pgfault_map
  <1>7. /\ pte' \in [Envs -> [VAs -> Pte \cup {NULL}]] /\ pte'[e][va] = y
        /\ \A g \in Envs, a \in VAs : ~(g = e /\ a = va) => pte'[g][a] = pte[g][a]
        /\ \A g \in Envs : g # e => pte'[g] = pte[g]
    BY <1>4, <1>5, EntryIs DEF Inv
  <1>8. \A a \in VAs : a # va => (On(e, a)' <=> On(e, a)) /\ Page(e, a)' = Page(e, a)
    BY <1>7 DEF On, Page
  <1>9. Page(e, va)' = Page(e, PFTEMP) /\ On(e, va)'
    BY <1>5, <1>7 DEF On, Page
  <1>10. \A a \in VAs : PermOK(e, a)'
    <2>1. PermOK(e, va)'
      BY <1>4, <1>5, <1>7, Addresses DEF PermOK, Kept
    <2>2. \A a \in VAs : a # va => PermOK(e, a)'
      BY <1>1, <1>7 DEF PermOK, On
    <2> QED
      BY <2>1, <2>2
  <1>11. \A g, h \in Envs, a, b \in VAs : PairOK(g, a, h, b)'
    <2>1. PICK c \in Envs : c = IF call[e].op = "none" THEN e ELSE call[e].child
      BY <1>1 DEF EachOK, StatusOK
    <2>2. ActsOn(e, c)
      BY <1>2, <1>7, <2>1 DEF ActsOn, Others
    <2>3. \A g \in Envs, a \in VAs : (g = e /\ a = va) \/ pte'[g][a] = pte[g][a] \/ pte'[g][a] = NULL
      BY <1>7
    <2>4. \A h \in Envs, a, b \in VAs : Moving(e, a, h, b) /\ On(e, a)' /\ On(h, b)' => Moving(e, a, h, b)'
      BY <1>2 DEF Moving, Lost, Orphan
    <2>5. \A h \in Envs, a \in VAs :
             (Copying(e, h, a) \/ Lost(e, h)) /\ Has(e, a, "W")' /\ On(h, a)' => (Copying(e, h, a) \/ Lost(e, h))'
      BY DEF Copying, Lost, Orphan
    <2>6. \A h \in Envs, b \in VAs :
             /\ pte'[e][va] # pte[e][va] /\ ~(h = e /\ b = va)
             /\ On(e, va)' /\ On(h, b)' /\ Page(e, va)' = Page(h, b)
             => PairOK(e, va, h, b)' /\ PairOK(h, b, e, va)'
      <3> SUFFICES ASSUME NEW h \in Envs, NEW b \in VAs, ~(h = e /\ b = va), On(h, b)', Page(e, va)' = Page(h, b)
                   PROVE  PairOK(e, va, h, b)' /\ PairOK(h, b, e, va)'
        OBVIOUS
      <3>1. h = e /\ b = PFTEMP
        <4>1. On(h, b)
          BY <1>7 DEF On
        <4>2. Page(h, b) = Page(e, PFTEMP)
          BY <1>9
        <4> QED
          BY <1>3, <4>1, <4>2
      <3>2. fault'[e].at = "unmap" /\ fault'[e].va = va
        BY <1>1, <1>2, Types DEF Inv
      <3>3. Moving(e, PFTEMP, e, va)'
        BY <3>2 DEF Moving
      <3> QED
        BY <3>1, <3>3 DEF PairOK
    <2> QED
      BY <1>4, <2>2, <2>3, <2>4, <2>5, <2>6, PairStep
  <1>12. SharedOK'
    BY <1>4, <1>7, SharedStep
  <1>13. content[Page(e, PFTEMP)] = content[Page(e, va)]
    BY <1>1, <1>2, <1>4 DEF EachOK, FaultOK
  <1>14. /\ \A f \in Envs : f # e => pte'[f] = pte[f] /\ ContentKept(f)
         /\ \A a \in Private : On(e, a)' /\ content'[Page(e, a)'] = content[Page(e, a)]
         /\ \A a \in Shared : pte'[e][a] = pte[e][a]
         /\ pte'[e][UTEMP] = pte[e][UTEMP] /\ (On(e, UTEMP) => content'[Page(e, UTEMP)] = content[Page(e, UTEMP)])
    <2>1. \A a \in Private : On(e, a)' /\ content'[Page(e, a)'] = content[Page(e, a)]
      <3> SUFFICES ASSUME NEW a \in Private PROVE On(e, a)' /\ content'[Page(e, a)'] = content[Page(e, a)]
        OBVIOUS
      <3>1. a \in Kept /\ a \in VAs /\ On(e, a)
        BY <1>1, Addresses DEF Kept
      <3> QED
        BY <1>6, <1>8, <1>9, <1>13, <3>1
    <2> QED
      BY <1>4, <1>6, <1>7, <2>1, Addresses DEF ContentKept, Kept
  <1>15. On(e, PFTEMP)' <=> r.at \in {"copy", "map", "unmap"}
    BY <1>2, <1>4, <1>8
  <1>16. content' \in [Pages -> Values] /\ r.va = fault[e].va /\ r.at # "map" /\ fault[e].at # "none"
    BY <1>2, <1>4, <1>6 DEF Inv, TypeOK
  <1> QED
    BY <1>2, <1>7, <1>10, <1>11, <1>12, <1>14, <1>15, <1>16, FaultFrame

LEMMA FaultUnmap ==
  ASSUME Inv, NEW e \in Envs, status[e] = "LIVE", UNCHANGED <<status, handler, call, during, content>>,
         fault[e].at = "unmap", fault' = [fault EXCEPT ![e] = NoFault], sys_page_unmap(e, PFTEMP)
  PROVE  Inv'
  <1>1. EachOK(e) /\ (\A a \in VAs : PermOK(e, a)) /\ \A a \in Kept : On(e, a)
    BY CallFacts
  <1>2. OneEntry(e, PFTEMP, NULL) /\ PFTEMP \in VAs
    BY Addresses DEF OneEntry, sys_page_unmap
  <1>3. /\ pte' \in [Envs -> [VAs -> Pte \cup {NULL}]] /\ pte'[e][PFTEMP] = NULL
        /\ \A g \in Envs, va \in VAs : ~(g = e /\ va = PFTEMP) => pte'[g][va] = pte[g][va]
        /\ \A g \in Envs : g # e => pte'[g] = pte[g]
    BY <1>2, EntryIs DEF Inv
  <1>4. \A a \in VAs : a # PFTEMP => (On(e, a)' <=> On(e, a)) /\ Page(e, a)' = Page(e, a)
    BY <1>3 DEF On, Page
  <1>5. \A a \in VAs : PermOK(e, a)'
    BY <1>1, <1>3 DEF PermOK, On
  <1>6. \A g, h \in Envs, a, b \in VAs : PairOK(g, a, h, b)'
    <2>1. PICK c \in Envs : c = IF call[e].op = "none" THEN e ELSE call[e].child
      BY <1>1 DEF EachOK, StatusOK
    <2>2. ActsOn(e, c)
      BY <1>3, <2>1, Types DEF ActsOn, Others, Inv
    <2>3. \A g \in Envs, va \in VAs : (g = e /\ va = PFTEMP) \/ pte'[g][va] = pte[g][va] \/ pte'[g][va] = NULL
      BY <1>3
    <2>4. \A h \in Envs, va, vb \in VAs : Moving(e, va, h, vb) /\ On(e, va)' /\ On(h, vb)' => Moving(e, va, h, vb)'
      BY <1>3 DEF Moving, Lost, Orphan, On
    <2>5. \A h \in Envs, va \in VAs :
             (Copying(e, h, va) \/ Lost(e, h)) /\ Has(e, va, "W")' /\ On(h, va)' => (Copying(e, h, va) \/ Lost(e, h))'
      BY DEF Copying, Lost, Orphan
    <2>6. \A h \in Envs, vb \in VAs :
             /\ pte'[e][PFTEMP] # pte[e][PFTEMP] /\ ~(h = e /\ vb = PFTEMP)
             /\ On(e, PFTEMP)' /\ On(h, vb)' /\ Page(e, PFTEMP)' = Page(h, vb)
             => PairOK(e, PFTEMP, h, vb)' /\ PairOK(h, vb, e, PFTEMP)'
      BY <1>3 DEF On
    <2> QED
      BY <1>2, <2>2, <2>3, <2>4, <2>5, <2>6, PairStep
  <1>7. SharedOK'
    <2>1. \A g \in Envs, va \in VAs : (g = e /\ va = PFTEMP) \/ pte'[g][va] = pte[g][va] \/ pte'[g][va] = NULL
      BY <1>3
    <2>2. ~On(e, PFTEMP)'
      BY <1>3 DEF On
    <2> QED
      BY <1>2, <2>1, <2>2, SharedStep
  <1>8. /\ \A f \in Envs : f # e => pte'[f] = pte[f] /\ ContentKept(f)
        /\ \A a \in Private : On(e, a)' /\ content'[Page(e, a)'] = content[Page(e, a)]
        /\ \A a \in Shared : pte'[e][a] = pte[e][a]
        /\ pte'[e][UTEMP] = pte[e][UTEMP] /\ (On(e, UTEMP) => content'[Page(e, UTEMP)] = content[Page(e, UTEMP)])
    BY <1>1, <1>3, <1>4, Addresses DEF ContentKept, Kept
  <1>9. ~On(e, PFTEMP)' /\ content' \in [Pages -> Values]
    BY <1>3 DEF On, Inv, TypeOK
  <1>10. UNCHANGED <<status, handler, call, during>>
    OBVIOUS
  <1> QED
    BY <1>3, <1>5, <1>6, <1>7, <1>8, <1>9, <1>10, None, FaultFrame

LEMMA PgfaultStep ==
  ASSUME Inv, NEW e \in Envs, pgfault(e) PROVE Inv'
  <1>1. status[e] = "LIVE" /\ UNCHANGED <<status, handler, call, during>>
    BY DEF pgfault
  <1>2. CASE /\ fault[e].at = "alloc" /\ fault' = [fault EXCEPT ![e].at = "copy"]
             /\ \E p \in FreePages : sys_page_alloc(e, PFTEMP, p, {"W"})
    BY <1>1, <1>2, FaultAlloc
  <1>3. CASE /\ fault[e].at = "copy" /\ fault' = [fault EXCEPT ![e].at = "map"]
             /\ content' = [content EXCEPT ![Page(e, PFTEMP)] = content[Page(e, fault[e].va)]]
             /\ UNCHANGED pte
    BY <1>1, <1>3, FaultCopy
  <1>4. CASE pgfault_map(e)
    BY <1>1, <1>4, FaultMap
  <1>5. CASE /\ fault[e].at = "unmap" /\ fault' = [fault EXCEPT ![e] = NoFault]
             /\ sys_page_unmap(e, PFTEMP)
             /\ UNCHANGED content
    <2>1. UNCHANGED <<status, handler, call, during, content>>
      BY <1>1, <1>5
    <2> QED
      BY <1>1, <1>5, <2>1, FaultUnmap
  <1> QED
    BY <1>2, <1>3, <1>4, <1>5 DEF pgfault

\* What a step of e on c has to keep.
LEMMA StepFrame ==
  ASSUME Inv, NEW e \in Envs, NEW c \in Envs, ActsOn(e, c), \A f \in Envs : f \notin {e, c} => ContentKept(f),
         TypeOK', SharedOK', EachOK(e)', EachOK(c)', \A a \in VAs : PermOK(e, a)' /\ PermOK(c, a)',
         \A g, h \in Envs, a, b \in VAs : PairOK(g, a, h, b)'
  PROVE  Inv'
  <1>1. \A f \in Envs : f \notin {e, c} => EachOK(f)' /\ \A va \in VAs : PermOK(f, va)'
    BY OthersKept
  <1> QED
    BY <1>1 DEF Inv

\* The child of a call that is given up, and goes on existing.
LEMMA NewOrphan ==
  ASSUME Inv, NEW e \in Envs, NEW c \in Envs, ActsOn(e, c), c # e, call[e].op # "none", call[e].child = c,
         call'[e].op = "none", status'[c] = "CHILD"
  PROVE  Orphan(c)'
  <1> SUFFICES ASSUME NEW g \in Envs, call'[g].op # "none", call'[g].child = c PROVE FALSE
    BY DEF Orphan
  <1>1. g # e /\ call'[g] = call[g]
    BY DEF ActsOn, Others
  <1> QED
    BY <1>1 DEF Inv, EachOK, StatusOK

\* A panic, in the handler before it has a page or in fork.
LEMMA PanicStep ==
  ASSUME Inv, NEW e \in Envs, status[e] = "LIVE", fault[e].at \in {"none", "alloc"}, Panics(e),
         pte' = pte, content' = content, handler' = handler \/ handler' = [handler EXCEPT ![e] = TRUE]
  PROVE  Inv'
  <1>1. /\ status[e] = "LIVE" /\ fault[e].at \in {"none", "alloc"} /\ pte' = pte /\ content' = content
        /\ status' = [status EXCEPT ![e] = "PANIC"] /\ call' = [call EXCEPT ![e] = NoCall]
        /\ fault' = [fault EXCEPT ![e] = NoFault] /\ during' = [during EXCEPT ![e] = NoHistory]
    BY DEF Panics
  <1>h. /\ handler' \in [Envs -> BOOLEAN] /\ (\A f \in Envs : handler[f] => handler'[f])
        /\ \A f \in Envs : f # e => handler'[f] = handler[f]
    BY DEF Inv, TypeOK
  <1>2. EachOK(e) /\ call[e] \in CallType /\ (\A a \in VAs : PermOK(e, a)) /\ \A a \in Kept : On(e, a)
    BY <1>1, CallFacts
  <1>3. PICK c \in Envs : c = IF call[e].op = "none" THEN e ELSE call[e].child
    BY <1>2 DEF EachOK, StatusOK
  <1>4. /\ call'[e] = NoCall /\ fault'[e] = NoFault /\ during'[e] = NoHistory /\ status'[e] = "PANIC"
        /\ \A f \in Envs : f # e => call'[f] = call[f] /\ fault'[f] = fault[f] /\ during'[f] = during[f] /\ status'[f] = status[f]
    BY <1>1 DEF Inv, TypeOK
  <1>5. ActsOn(e, c)
    BY <1>1, <1>h, <1>3, <1>4, None DEF ActsOn, Others
  <1>6. TypeOK'
    <2>1. call' \in [Envs -> CallType] /\ fault' \in [Envs -> FaultType]
      BY <1>1, Types, None DEF Inv
    <2>2. NoHistory \in [Private -> SUBSET Values]
      BY DEF NoHistory
    <2> QED
      BY <1>1, <1>h, <2>1, <2>2 DEF Inv, TypeOK, CallType, FaultType
  <1>7. \A a \in VAs : PermOK(e, a)' /\ PermOK(c, a)'
    BY <1>1, <1>h DEF Inv, PermOK, On
  <1>8. (\A g, h \in Envs, a, b \in VAs : PairOK(g, a, h, b)') /\ SharedOK'
    <2>1. call[e].op # "none" => Lost(e, c)'
      <3> SUFFICES ASSUME call[e].op # "none" PROVE Lost(e, c)'
        OBVIOUS
      <3>1. c # e /\ call[e].child = c /\ status'[c] = "CHILD" /\ call'[e].op = "none"
        BY <1>1, <1>3, <1>4, CallFacts, None
      <3> QED
        BY <1>4, <1>5, <3>1, NewOrphan DEF Lost
    <2>2. \A h \in Envs, a, b \in VAs : Moving(e, a, h, b) /\ On(e, a) => Moving(e, a, h, b)'
      BY <1>1, <1>3, <2>1 DEF Moving, Lost
    <2>3. \A h \in Envs, a \in VAs : (Copying(e, h, a) \/ Lost(e, h)) /\ On(h, a) => (Copying(e, h, a) \/ Lost(e, h))'
      BY <1>1, <1>3, <2>1 DEF Copying, Lost
    <2> QED
      BY <1>1, <1>5, <2>2, <2>3, PairsSame
  <1>9. EachOK(e)'
    <2>1. ~On(e, PFTEMP)'
      BY <1>1, <1>2 DEF EachOK, FaultOK, On
    <2>2. StatusOK(e)'
      BY <1>4, None DEF StatusOK
    <2>3. FaultOK(e)' /\ LiveOK(e)' /\ ForkOK(e)' /\ SpawnOK(e)'
      BY <1>1, <1>2, <1>4, <2>1, None DEF FaultOK, LiveOK, ForkOK, SpawnOK, On
    <2> QED
      BY <2>2, <2>3 DEF EachOK
  <1>10. EachOK(c)'
    <2> SUFFICES ASSUME c # e PROVE EachOK(c)'
      BY <1>9
    <2>1. status[c] = "CHILD" /\ call[c] = NoCall /\ fault[c] = NoFault /\ during[c] = NoHistory /\ ~On(c, PFTEMP)
      BY <1>1, <1>3, CallFacts, None DEF EachOK, FaultOK
    <2> QED
      BY <1>1, <1>4, <2>1, IdleEach DEF On
  <1>11. \A f \in Envs : f \notin {e, c} => ContentKept(f)
    BY <1>1 DEF ContentKept
  <1> QED
    BY <1>5, <1>6, <1>7, <1>8, <1>9, <1>10, <1>11, StepFrame

LEMMA PanicsStep ==
  ASSUME Inv, NEW e \in Envs, pgfault_panics(e) \/ fork_panics(e) PROVE Inv'
  <1>1. /\ status[e] = "LIVE" /\ fault[e].at \in {"none", "alloc"} /\ Panics(e) /\ pte' = pte /\ content' = content
        /\ handler' = handler \/ handler' = [handler EXCEPT ![e] = TRUE]
    BY DEF pgfault_panics, fork_panics, At, Executes
  <1> QED
    BY <1>1, PanicStep

\* What is known of a free environment.
LEMMA FreeFacts ==
  ASSUME Inv, NEW c \in Envs, status[c] = "FREE"
  PROVE  /\ call[c] = NoCall /\ fault[c] = NoFault /\ during[c] = NoHistory /\ \A a \in VAs : ~On(c, a)
         /\ \A g \in Envs : call[g].op # "none" => call[g].child # c
  BY None DEF Inv, EachOK, StatusOK

\* e begins to fork or to spawn into c.
LEMMA BeginStep ==
  ASSUME Inv, NEW e \in Envs, NEW c \in Envs, At(e, "none", "run"), status[c] = "FREE",
         status' = [status EXCEPT ![c] = "CHILD"], pte' = pte, content' = content, fault' = fault,
         NEW r \in CallType, call' = [call EXCEPT ![e] = r], r.op # "none", r.child = c,
         handler' \in [Envs -> BOOLEAN], \A f \in Envs : handler[f] => handler'[f], \A f \in Envs : f # e => handler'[f] = handler[f],
         during' \in [Envs -> [Private -> SUBSET Values]], \A f \in Envs : f # e => during'[f] = during[f],
         r.op # "fork" => during'[e] = NoHistory, ForkOK(e)', SpawnOK(e)'
  PROVE  Inv'
  <1>1. status[e] = "LIVE" /\ fault[e].at = "none" /\ call[e].op = "none" /\ c # e
    BY DEF At, Executes
  <1>2. EachOK(e) /\ call[e] \in CallType /\ (\A a \in VAs : PermOK(e, a)) /\ \A a \in Kept : On(e, a)
    BY <1>1, CallFacts
  <1>3. /\ call'[e] = r /\ (\A f \in Envs : f # e => call'[f] = call[f]) /\ call' \in [Envs -> CallType]
        /\ status'[c] = "CHILD" /\ \A f \in Envs : f # c => status'[f] = status[f]
    BY Types DEF Inv, TypeOK
  <1>4. ActsOn(e, c)
    BY <1>1, <1>3 DEF ActsOn, Others
  <1>5. TypeOK'
    <2>1. status' \in [Envs -> {"FREE", "CHILD", "LIVE", "PANIC"}]
      BY DEF Inv, TypeOK
    <2> QED
      BY <1>3, <2>1 DEF Inv, TypeOK, CallType
  <1>6. \A a \in VAs : PermOK(e, a)' /\ PermOK(c, a)'
    BY <1>2, FreeFacts DEF PermOK, On
  <1>7. (\A g, h \in Envs, a, b \in VAs : PairOK(g, a, h, b)') /\ SharedOK'
    <2>1. \A h \in Envs, a, b \in VAs : Moving(e, a, h, b) /\ On(e, a) => Moving(e, a, h, b)'
      BY <1>1 DEF Moving, Lost
    <2>2. \A h \in Envs, a \in VAs : (Copying(e, h, a) \/ Lost(e, h)) /\ On(h, a) => (Copying(e, h, a) \/ Lost(e, h))'
      BY <1>1 DEF Copying, Lost
    <2> QED
      BY <1>4, <2>1, <2>2, PairsSame
  <1>8. EachOK(e)'
    <2>1. StatusOK(e)'
      <3>1. \A f \in Envs : call'[f].op # "none" /\ call'[f].child = c => f = e
        BY <1>3, FreeFacts
      <3> QED
        BY <1>1, <1>3, <3>1 DEF StatusOK
    <2>2. FaultOK(e)'
      BY <1>1, <1>2 DEF EachOK, FaultOK, On, Page
    <2>3. LiveOK(e)'
      BY <1>2 DEF LiveOK, On
    <2> QED
      BY <2>1, <2>2, <2>3 DEF EachOK
  <1>9. EachOK(c)'
    <2>1. call'[c] = NoCall /\ fault'[c] = NoFault /\ during'[c] = NoHistory
      BY <1>1, <1>3, FreeFacts
    <2>2. ~On(c, PFTEMP)'
      BY FreeFacts, Addresses DEF On
    <2> QED
      BY <1>3, <2>1, <2>2, IdleEach
  <1>10. \A f \in Envs : f \notin {e, c} => ContentKept(f)
    BY DEF ContentKept
  <1> QED
    BY <1>4, <1>5, <1>6, <1>7, <1>8, <1>9, <1>10, StepFrame

LEMMA ForkStep ==
  ASSUME Inv, NEW e \in Envs, NEW c \in Envs, fork(e, c) PROVE Inv'
  <1> PICK r : r = [op |-> "fork", at |-> "exstack", child |-> c, va |-> NULL]
    OBVIOUS
  <1> PICK d : d = [va \in Private |-> {content[Page(e, va)]}]
    OBVIOUS
  <1>1. /\ At(e, "none", "run") /\ status[c] = "FREE" /\ handler' = [handler EXCEPT ![e] = TRUE]
        /\ status' = [status EXCEPT ![c] = "CHILD"] /\ call' = [call EXCEPT ![e] = r]
        /\ during' = [during EXCEPT ![e] = d] /\ pte' = pte /\ content' = content /\ fault' = fault
    BY DEF fork
  <1>2. r \in CallType /\ r.op = "fork" /\ r.child = c /\ r.at = "exstack"
    BY DEF CallType
  <1>3. status[e] = "LIVE" /\ \A a \in Private : On(e, a) /\ Page(e, a) \in Pages
    BY <1>1, CallFacts, Types, Addresses DEF At, Executes, Kept, Inv
  <1>4. d \in [Private -> SUBSET Values] /\ \A a \in Private : d[a] = {content[Page(e, a)]}
    BY <1>3 DEF Inv, TypeOK
  <1>5. /\ during' \in [Envs -> [Private -> SUBSET Values]] /\ during'[e] = d
        /\ \A f \in Envs : f # e => during'[f] = during[f]
    BY <1>1, <1>4 DEF Inv, TypeOK
  <1>6. /\ handler' \in [Envs -> BOOLEAN] /\ handler'[e]
        /\ \A f \in Envs : (handler[f] => handler'[f]) /\ (f # e => handler'[f] = handler[f])
    BY <1>1 DEF Inv, TypeOK
  <1>7. call'[e] = r
    BY <1>1, Types DEF Inv
  <1>8. \A a \in VAs : ~On(c, a)
    BY <1>1, FreeFacts
  <1>9. ForkOK(e)'
    BY <1>1, <1>2, <1>4, <1>5, <1>6, <1>7, <1>8, Addresses DEF ForkOK, On, Page
  <1>10. SpawnOK(e)'
    BY <1>2, <1>7 DEF SpawnOK
  <1> QED
    BY <1>1, <1>2, <1>5, <1>6, <1>9, <1>10, BeginStep

LEMMA SpawnStep ==
  ASSUME Inv, NEW e \in Envs, NEW c \in Envs, spawn(e, c) PROVE Inv'
  <1> PICK r : r = [op |-> "spawn", at |-> "alloc", child |-> c, va |-> Stack]
    OBVIOUS
  <1>1. /\ At(e, "none", "run") /\ status[c] = "FREE" /\ handler' = handler
        /\ status' = [status EXCEPT ![c] = "CHILD"] /\ call' = [call EXCEPT ![e] = r]
        /\ during' = during /\ pte' = pte /\ content' = content /\ fault' = fault
    BY DEF spawn
  <1>2. r \in CallType /\ r.op = "spawn" /\ r.child = c /\ r.at = "alloc" /\ r.va = Stack
    BY Addresses DEF CallType
  <1>3. call'[e] = r
    BY <1>1, Types DEF Inv
  <1>4. \A a \in VAs : ~On(c, a)
    BY <1>1, FreeFacts
  <1>5. during'[e] = NoHistory
    BY <1>1 DEF At, Inv, EachOK, StatusOK
  <1>6. ForkOK(e)'
    BY <1>2, <1>3 DEF ForkOK
  <1>7. SpawnOK(e)'
    BY <1>1, <1>2, <1>3, <1>4, Addresses DEF SpawnOK, On
  <1>8. handler' \in [Envs -> BOOLEAN] /\ during' \in [Envs -> [Private -> SUBSET Values]]
    BY <1>1 DEF Inv, TypeOK
  <1> QED
    BY <1>1, <1>2, <1>5, <1>6, <1>7, <1>8, BeginStep

LEMMA ExstackStep ==
  ASSUME Inv, NEW e \in Envs, child_exstack(e) PROVE Inv'
  <1>1. /\ status[e] = "LIVE" /\ fault[e].at = "none" /\ call[e].op = "fork" /\ call[e].at = "exstack"
        /\ handler' = [handler EXCEPT ![call[e].child] = TRUE] /\ Goto(e, "child", 0)
        /\ status' = status /\ pte' = pte /\ content' = content /\ fault' = fault /\ during' = during
    BY DEF child_exstack, At, Executes
  <1>2. /\ EachOK(e) /\ call[e] \in CallType /\ (\A a \in VAs : PermOK(e, a)) /\ (\A a \in Kept : On(e, a))
        /\ call[e].child \in Envs /\ call[e].child # e /\ status[call[e].child] = "CHILD"
        /\ \A a \in VAs : PermOK(call[e].child, a)
    BY <1>1, CallFacts
  <1>3. PICK c \in Envs : c = call[e].child
    BY <1>2
  <1>4. /\ call'[e].op = "fork" /\ call'[e].child = c /\ call'[e].at = "child" /\ call'[e].va = 0
        /\ (\A f \in Envs : f # e => call'[f] = call[f]) /\ call' \in [Envs -> CallType]
    BY <1>1, <1>3, GotoIs DEF Inv
  <1>5. /\ handler'[c] /\ (\A f \in Envs : f # c => handler'[f] = handler[f]) /\ handler' \in [Envs -> BOOLEAN]
        /\ \A f \in Envs : handler[f] => handler'[f]
    BY <1>1, <1>3 DEF Inv, TypeOK
  <1>6. ActsOn(e, c)
    BY <1>1, <1>3, <1>4, <1>5 DEF ActsOn, Others
  <1>7. TypeOK'
    BY <1>1, <1>4, <1>5 DEF Inv, TypeOK, CallType
  <1>8. \A a \in VAs : PermOK(e, a)' /\ PermOK(c, a)'
    BY <1>1, <1>2, <1>3, <1>5 DEF PermOK, On
  <1>9. (\A g, h \in Envs, a, b \in VAs : PairOK(g, a, h, b)') /\ SharedOK'
    <2>1. \A h \in Envs, a, b \in VAs : Moving(e, a, h, b) /\ On(e, a) => Moving(e, a, h, b)'
      BY <1>1 DEF Moving, Lost
    <2>2. \A h \in Envs, a \in VAs : (Copying(e, h, a) \/ Lost(e, h)) /\ On(h, a) => (Copying(e, h, a) \/ Lost(e, h))'
      BY <1>1 DEF Copying, Lost
    <2> QED
      BY <1>1, <1>6, <2>1, <2>2, PairsSame
  <1>10. EachOK(e)'
    <2>1. StatusOK(e)'
      BY <1>1, <1>2, <1>3, <1>4 DEF EachOK, StatusOK
    <2>2. FaultOK(e)' /\ LiveOK(e)'
      BY <1>1, <1>2, <1>4 DEF EachOK, FaultOK, LiveOK, On, Page
    <2>3. \A a \in Kept : a \in VAs /\ ~(a < 0)
      BY Addresses
    <2>4. ForkOK(e)'
      <3>1. \A a \in Private : content[Page(e, a)] \in during[e][a] /\ ~On(c, a)
        BY <1>1, <1>2, <1>3, Addresses DEF EachOK, ForkOK
      <3> QED
        BY <1>1, <1>2, <1>3, <1>4, <1>5, <2>3, <3>1 DEF EachOK, ForkOK, On, Page
    <2>5. SpawnOK(e)'
      BY <1>4 DEF SpawnOK
    <2> QED
      BY <2>1, <2>2, <2>4, <2>5 DEF EachOK
  <1>11. EachOK(c)'
    <2>1. status[c] = "CHILD" /\ call[c] = NoCall /\ fault[c] = NoFault /\ during[c] = NoHistory /\ ~On(c, PFTEMP)
      BY <1>1, <1>3, CallFacts, None DEF EachOK, FaultOK
    <2> QED
      BY <1>1, <1>2, <1>3, <1>4, <2>1, IdleEach DEF On
  <1>12. \A f \in Envs : f \notin {e, c} => ContentKept(f)
    BY <1>1 DEF ContentKept
  <1> QED
    BY <1>6, <1>7, <1>8, <1>9, <1>10, <1>11, <1>12, StepFrame

\* Least(S) is the least of a set of addresses.
LEMMA LeastIs ==
  ASSUME NEW S, S \subseteq VAs, S # {}
  PROVE  Least(S) \in S /\ \A j \in S : Least(S) <= j
  <1> DEFINE Below(i) == {j \in S : j <= i}
             T == {Below(i) : i \in S}
             R == StrictSubsetOrdering(S)
  <1>0. IsFiniteSet(S) /\ S \subseteq Nat
    BY FS_Subset
  <1>1. IsWellFoundedOn(R, FiniteSubsetsOf(S))
    BY <1>0, FS_StrictSubsetOrderingWellFounded
  <1>2. T \subseteq FiniteSubsetsOf(S) /\ T # {}
    <2>1. FiniteSubsetsOf(S) = SUBSET S
      BY <1>0, FS_FiniteSubsetsOfFinite
    <2>2. T \subseteq SUBSET S /\ T # {}
      BY ZenonT(40)
    <2> QED
      BY <2>1, <2>2
  <1>3. \E x \in T : \A y \in T : ~(<<y, x>> \in R)
    <2> HIDE DEF T, R
    <2> QED
      BY <1>1, <1>2, WFMin
  <1>4. PICK i \in S : \A j \in S : ~(<<Below(j), Below(i)>> \in R)
    BY <1>3
  <1>5. \A j \in S : i <= j
    <2> SUFFICES ASSUME NEW j \in S, j < i PROVE FALSE
      OBVIOUS
    <2>0. i \in Nat /\ j \in Nat /\ \A k \in S : k \in Nat
      BY <1>0
    <2>1. Below(j) \subseteq Below(i) /\ i \in Below(i) /\ i \notin Below(j)
      <3>1. ASSUME NEW k \in Below(j) PROVE k \in Below(i)
        <4>1. k \in S /\ k <= j /\ k \in Nat
          BY <2>0
        <4> QED
          BY <2>0, <4>1
      <3>2. i \in Below(i) /\ ~(i <= j)
        BY <2>0
      <3>3. i \notin Below(j)
        BY <3>2
      <3> QED
        BY <3>1, <3>2, <3>3
    <2>2. Below(j) \in SUBSET S /\ Below(i) \in SUBSET S
      OBVIOUS
    <2>3. <<Below(j), Below(i)>> \in R
      <3> HIDE DEF Below
      <3> QED
        BY <2>1, <2>2 DEF StrictSubsetOrdering
    <2> QED
      BY <1>4, <2>3
  <1> QED
    BY <1>5 DEF Least

\* Where fork and spawn go to next.
LEMMA MappedIs ==
  ASSUME TypeOK, NEW e \in Envs, NEW n \in Nat, NEW S \in SUBSET Mapped(e, n), S # {}
  PROVE  Least(S) \in S /\ Least(S) \in VAs /\ Least(S) \in Nat /\ On(e, Least(S)) /\ Least(S) >= n /\ \A a \in S : Least(S) <= a
  <1>1. S \subseteq VAs /\ \A a \in S : a >= n /\ On(e, a)
    BY DEF Mapped, On
  <1>2. Least(S) \in S /\ \A a \in S : Least(S) <= a
    BY <1>1, LeastIs
  <1> QED
    BY <1>1, <1>2

\* What duppage makes of the permissions of a page.
LEMMA DupPermIs ==
  /\ DupPerm({"W"}) = {"COW"} /\ DupPerm({"COW"}) = {"COW"} /\ DupPerm({}) = {} /\ DupPerm({"W", "SHARE"}) = {"W", "SHARE"}
  BY DEF DupPerm

\* No entry of an environment in fork, or in spawn before a page is moved, has a
\* page at two of its addresses, or at another one's address than its own.
LEMMA SameAddress ==
  ASSUME Inv, NEW e \in Envs, status[e] = "LIVE", fault[e].at # "unmap", call[e].op = "spawn" => call[e].at # "unmap",
         NEW a \in VAs, On(e, a), NEW h \in Envs, NEW b \in VAs, On(h, b), Page(h, b) = Page(e, a)
  PROVE  b = a /\ (h # e /\ Has(h, a, "W") => Has(h, a, "SHARE"))
         /\ (h # e /\ Has(e, a, "W") /\ ~Has(e, a, "SHARE") => Copying(e, h, a))
  <1>1. PairOK(e, a, h, b) /\ PairOK(h, b, e, a)
    BY DEF Inv
  <1>2. \A f, va, vb : ~Moving(e, va, f, vb)
    BY DEF Moving, Lost
  <1>3. h # e => \A va, vb : ~Moving(h, va, e, vb) /\ ~Copying(h, e, va) /\ ~Lost(h, e)
    <2> SUFFICES ASSUME h # e, NEW va, NEW vb PROVE ~Moving(h, va, e, vb) /\ ~Copying(h, e, va) /\ ~Lost(h, e)
      OBVIOUS
    <2>1. EachOK(h)
      BY DEF Inv
    <2> QED
      BY <2>1 DEF Moving, Copying, Lost, Orphan, EachOK, StatusOK
  <1>4. ~Lost(e, h)
    BY DEF Lost
  <1> QED
    BY <1>1, <1>2, <1>3, <1>4 DEF PairOK

\* A step of e in fork or spawn, which works on entries of its own and of its child c.
LEMMA CallStep ==
  ASSUME Inv, NEW e \in Envs, status[e] = "LIVE", fault[e].at = "none", call[e].op # "none",
         NEW c \in Envs, call[e].child = c, UNCHANGED <<status, handler, fault, during>>,
         NEW at \in {"child", "self", "alloc", "read", "map", "unmap", "shared"}, NEW n \in Nat, Goto(e, at, n),
         pte' \in [Envs -> [VAs -> Pte \cup {NULL}]], content' \in [Pages -> Values],
         \A f \in Envs : f \notin {e, c} => pte'[f] = pte[f] /\ ContentKept(f),
         \A g \in {e, c} : pte'[g][PFTEMP] = pte[g][PFTEMP], \A a \in Kept : On(e, a)',
         \A a \in VAs : PermOK(e, a)' /\ PermOK(c, a)', SharedOK',
         \A g, h \in Envs, a, b \in VAs : PairOK(g, a, h, b)', ForkOK(e)', SpawnOK(e)'
  PROVE  Inv'
  <1>1. EachOK(e) /\ call[e] \in CallType /\ c # e /\ status[c] = "CHILD"
    BY CallFacts
  <1>2. /\ call'[e].op = call[e].op /\ call'[e].child = c
        /\ (\A f \in Envs : f # e => call'[f] = call[f]) /\ call' \in [Envs -> CallType]
    BY GotoIs DEF Inv
  <1>3. ActsOn(e, c)
    BY <1>2 DEF ActsOn, Others
  <1>4. TypeOK'
    BY <1>2 DEF Inv, TypeOK, CallType
  <1>5. EachOK(e)'
    <2>1. StatusOK(e)'
      BY <1>1, <1>2 DEF EachOK, StatusOK
    <2>2. ~On(e, PFTEMP)'
      BY <1>1 DEF EachOK, FaultOK, On
    <2>3. FaultOK(e)' /\ LiveOK(e)'
      BY <2>2 DEF FaultOK, LiveOK
    <2> QED
      BY <2>1, <2>3 DEF EachOK
  <1>6. EachOK(c)'
    <2>1. call[c] = NoCall /\ fault[c] = NoFault /\ during[c] = NoHistory /\ ~On(c, PFTEMP)
      BY CallFacts, None DEF EachOK, FaultOK
    <2> QED
      BY <1>1, <1>2, <2>1, IdleEach DEF On
  <1> QED
    BY <1>3, <1>4, <1>5, <1>6, StepFrame

LEMMA DuppageStep ==
  ASSUME Inv, NEW e \in Envs, duppage(e) PROVE Inv'
  <1> PICK n : n = call[e].va
    OBVIOUS
  <1> PICK c : c = call[e].child
    OBVIOUS
  <1> PICK va : va = Least(Mapped(e, n))
    OBVIOUS
  <1> PICK perm : perm = DupPerm(pte[e][va].perm)
    OBVIOUS
  <1> PICK y : y = [pa |-> Page(e, va), perm |-> perm]
    OBVIOUS
  <1>1. /\ status[e] = "LIVE" /\ fault[e].at = "none" /\ call[e].op = "fork" /\ call[e].at = "child"
        /\ Mapped(e, n) # {} /\ OneEntry(c, va, y)
        /\ UNCHANGED <<status, handler, fault, during>> /\ content' = content
        /\ IF "COW" \in perm THEN Goto(e, "self", va) ELSE Goto(e, "child", va + 1)
    BY DEF duppage, At, Executes, sys_page_map, OneEntry, Page
  <1>2. /\ EachOK(e) /\ (\A a \in VAs : PermOK(e, a)) /\ (\A a \in Kept : On(e, a)) /\ ~On(e, PFTEMP)
        /\ c \in Envs /\ c # e /\ (\A a \in VAs : PermOK(c, a))
        /\ n \in Nat /\ handler[c] /\ handler[e] /\ (\A a \in Kept : a < n => On(c, a))
        /\ \A a \in Private : content[Page(e, a)] \in during[e][a] /\ (On(c, a) => content[Page(c, a)] \in during[e][a])
    <2>1. EachOK(e) /\ (\A a \in VAs : PermOK(e, a)) /\ (\A a \in Kept : On(e, a))
          /\ c \in Envs /\ c # e /\ (\A a \in VAs : PermOK(c, a))
      BY <1>1, CallFacts
    <2> QED
      BY <1>1, <2>1 DEF EachOK, FaultOK, ForkOK
  <1>3. va \in VAs /\ va \in Nat /\ On(e, va) /\ va >= n /\ \A a \in Mapped(e, n) : va <= a
    BY <1>1, <1>2, MappedIs DEF Inv
  <1>4. va # PFTEMP /\ PFTEMP \in VAs /\ pte[e][va] \in Pte /\ Page(e, va) \in Pages
    BY <1>2, <1>3, Types, Addresses DEF Inv
  <1>5. /\ va \in Private \cup {UTEMP} => perm = {"COW"}
        /\ va \in Text => perm = {} /\ pte[e][va].perm = {}
        /\ va \in Shared => perm = {"W", "SHARE"} /\ pte[e][va].perm = {"W", "SHARE"}
    <2>1. PermOK(e, va)
      BY <1>2, <1>3
    <2>2. /\ va \in Private \cup {UTEMP} => pte[e][va].perm \in {{"W"}, {"COW"}}
          /\ va \in Text => pte[e][va].perm = {}
          /\ va \in Shared => pte[e][va].perm = {"W", "SHARE"}
      BY <1>3, <2>1 DEF PermOK
    <2> QED
      BY <2>2, DupPermIs
  <1>6. va \in Private \cup {UTEMP} \/ va \in Text \/ va \in Shared
    BY <1>3, <1>4, Addresses DEF Kept
  <1>7. "COW" \in perm <=> va \in Private \cup {UTEMP}
    BY <1>5, <1>6, Addresses DEF Kept
  <1>8. y \in Pte /\ y # NULL /\ y.pa = Page(e, va) /\ y.perm = perm
    <2>1. y \in Pte
      BY <1>4, <1>5, <1>6 DEF Pte, Perms
    <2> QED
      BY <2>1 DEF Pte, Perms
  <1>9. /\ pte' \in [Envs -> [VAs -> Pte \cup {NULL}]] /\ pte'[c][va] = y
        /\ \A g \in Envs, a \in VAs : ~(g = c /\ a = va) => pte'[g][a] = pte[g][a]
        /\ \A g \in Envs : g # c => pte'[g] = pte[g]
    BY <1>1, <1>2, <1>3, <1>8, EntryIs DEF Inv
  <1>10. PICK at \in {"child", "self"}, m \in Nat :
            /\ Goto(e, at, m)
            /\ va \in Private \cup {UTEMP} => at = "self" /\ m = va
            /\ va \notin Private \cup {UTEMP} => at = "child" /\ m = va + 1
    BY <1>1, <1>3, <1>7
  <1>11. call'[e].op = "fork" /\ call'[e].child = c /\ call'[e].at = at /\ call'[e].va = m
         /\ \A f \in Envs : f # e => call'[f] = call[f]
    BY <1>1, <1>10, GotoIs DEF Inv
  <1>12. ActsOn(e, c)
    BY <1>1, <1>9, <1>11 DEF ActsOn, Others
  <1>13. On(c, va)' /\ Page(c, va)' = Page(e, va) /\ \A a \in VAs : a # va => (On(c, a)' <=> On(c, a)) /\ Page(c, a)' = Page(c, a)
    BY <1>2, <1>8, <1>9 DEF On, Page
  <1>14. \A a \in VAs : PermOK(e, a)' /\ PermOK(c, a)'
    <2>1. PermOK(c, va)'
      BY <1>1, <1>2, <1>4, <1>5, <1>8, <1>9, Addresses DEF PermOK, Kept
    <2>2. \A a \in VAs : PermOK(e, a)' /\ (a # va => PermOK(c, a)')
      <3> SUFFICES ASSUME NEW a \in VAs PROVE PermOK(e, a)' /\ (a # va => PermOK(c, a)')
        OBVIOUS
      <3>1. PermOK(e, a) /\ PermOK(c, a) /\ handler'[e] = handler[e] /\ handler'[c] = handler[c]
        BY <1>1, <1>2
      <3>2. pte'[e][a] = pte[e][a] /\ (a # va => pte'[c][a] = pte[c][a])
        BY <1>2, <1>9
      <3> QED
        BY <3>1, <3>2, PermKept
    <2> QED
      BY <2>1, <2>2
  <1>15. SharedOK'
    <2>1. \A g \in Envs, a \in VAs : (g = c /\ a = va) \/ pte'[g][a] = pte[g][a] \/ pte'[g][a] = NULL
      BY <1>9
    <2>2. \E g \in Envs : On(g, va) /\ Page(c, va)' = Page(g, va)
      BY <1>3, <1>13
    <2> QED
      BY <1>2, <1>3, <2>1, <2>2, SharedStep
  <1>16. \A g, h \in Envs, a, b \in VAs : PairOK(g, a, h, b)'
    <2>1. \A g \in Envs, a \in VAs : (g = c /\ a = va) \/ pte'[g][a] = pte[g][a] \/ pte'[g][a] = NULL
      BY <1>9
    <2>2. \A h \in Envs, a, b \in VAs : Moving(e, a, h, b) /\ On(e, a)' /\ On(h, b)' => Moving(e, a, h, b)'
      BY <1>1 DEF Moving, Lost
    <2>3. \A h \in Envs, a \in VAs :
             (Copying(e, h, a) \/ Lost(e, h)) /\ Has(e, a, "W")' /\ On(h, a)' => (Copying(e, h, a) \/ Lost(e, h))'
      BY <1>1 DEF Copying, Lost
    <2>4. \A h \in Envs, b \in VAs :
             /\ pte'[c][va] # pte[c][va] /\ ~(h = c /\ b = va)
             /\ On(c, va)' /\ On(h, b)' /\ Page(c, va)' = Page(h, b)
             => PairOK(c, va, h, b)' /\ PairOK(h, b, c, va)'
      <3> SUFFICES ASSUME NEW h \in Envs, NEW b \in VAs, ~(h = c /\ b = va), On(h, b)', Page(c, va)' = Page(h, b)
                   PROVE  PairOK(c, va, h, b)' /\ PairOK(h, b, c, va)'
        OBVIOUS
      <3>1. pte'[h][b] = pte[h][b] /\ On(h, b)
        BY <1>9 DEF On
      <3>2. Page(h, b) = Page(e, va)
        BY <1>13
      <3>3. b = va /\ (h # e /\ Has(h, va, "W") => Has(h, va, "SHARE"))
        <4>1. fault[e].at # "unmap" /\ (call[e].op = "spawn" => call[e].at # "unmap")
          BY <1>1
        <4>2. status[e] = "LIVE" /\ va \in VAs /\ On(e, va) /\ On(h, b)
          BY <1>1, <1>3, <3>1
        <4> QED
          BY <3>2, <4>1, <4>2, SameAddress
      <3>4. ~(Has(c, va, "W") /\ ~Has(c, va, "SHARE"))'
        <4>1. "W" \in perm => "SHARE" \in perm
          BY <1>5, <1>6
        <4>2. pte'[c][va].perm = perm /\ pte'[c][va] # NULL
          BY <1>8, <1>9
        <4> QED
          BY <4>1, <4>2 DEF Has
      <3>5. (Has(h, va, "W") /\ ~Has(h, va, "SHARE"))' => Copying(h, c, va)'
        <4>1. CASE h # e
          BY <3>1, <3>3, <4>1 DEF Has
        <4>2. CASE h = e
          <5> SUFFICES ASSUME (Has(e, va, "W") /\ ~Has(e, va, "SHARE"))' PROVE Copying(e, c, va)'
            BY <4>2
          <5>1. va \in Private \cup {UTEMP}
            BY <1>2, <1>5, <1>6, <1>9 DEF Has
          <5> QED
            BY <1>10, <1>11, <5>1 DEF Copying
        <4> QED
          BY <4>1, <4>2
      <3> QED
        BY <3>3, <3>4, <3>5 DEF PairOK
    <2> QED
      BY <1>2, <1>3, <1>12, <2>1, <2>2, <2>3, <2>4, PairStep
  <1>17. ForkOK(e)'
    <2>1. \A a \in Kept : a < m => On(c, a)'
      <3> SUFFICES ASSUME NEW a \in Kept, a < m PROVE On(c, a)'
        OBVIOUS
      <3>1. a \in VAs /\ a \in Nat /\ On(e, a) /\ (a >= n => a \in Mapped(e, n))
        BY <1>2, Addresses DEF Mapped, On
      <3>2. m = va \/ m = va + 1
        BY <1>10
      <3>3. a = va \/ a < n
        BY <1>2, <1>3, <3>1, <3>2
      <3> QED
        BY <1>2, <1>13, <3>1, <3>3
    <2>2. \A a \in Private : content[Page(e, a)] \in during[e][a] /\ (On(c, a)' => content[Page(c, a)'] \in during[e][a])
      BY <1>2, <1>13, Addresses
    <2>3. \A a \in VAs : (On(e, a)' <=> On(e, a)) /\ Page(e, a)' = Page(e, a)
      BY <1>2, <1>9 DEF On, Page
    <2>4. at = "self" => m \in Private \cup {UTEMP} /\ On(e, m)' /\ On(c, m)'
      BY <1>3, <1>10, <1>13, <2>3
    <2>5. at \in {"child", "self"} /\ at # "exstack" /\ handler'[c] /\ handler'[e] /\ content' = content /\ during' = during
      BY <1>1, <1>2
    <2>6. \A a \in Private : (content[Page(e, a)] \in during[e][a])' /\ (On(c, a)' => (content[Page(c, a)] \in during[e][a])')
      BY <2>2, <2>3, <2>5, Addresses
    <2> QED
      BY <1>11, <2>1, <2>4, <2>5, <2>6 DEF ForkOK
  <1>18. SpawnOK(e)'
    BY <1>11 DEF SpawnOK
  <1>19. /\ \A f \in Envs : f \notin {e, c} => pte'[f] = pte[f] /\ ContentKept(f)
         /\ \A g \in {e, c} : pte'[g][PFTEMP] = pte[g][PFTEMP]
         /\ \A a \in Kept : On(e, a)'
         /\ content' \in [Pages -> Values]
    BY <1>1, <1>2, <1>4, <1>9 DEF ContentKept, On, Inv, TypeOK
  <1>20. call[e].op # "none" /\ call[e].child = c /\ at \in {"child", "self", "alloc", "read", "map", "unmap", "shared"}
    BY <1>1
  <1> QED
    BY <1>1, <1>2, <1>9, <1>10, <1>14, <1>15, <1>16, <1>17, <1>18, <1>19, <1>20, CallStep

LEMMA DuppageSelfStep ==
  ASSUME Inv, NEW e \in Envs, duppage_self(e) PROVE Inv'
  <1>v. PICK va : va = call[e].va
    OBVIOUS
  <1>c. PICK c : c = call[e].child
    OBVIOUS
  <1>y. PICK y : y = [pa |-> Page(e, va), perm |-> DupPerm(pte[e][va].perm)]
    OBVIOUS
  <1>1. /\ status[e] = "LIVE" /\ fault[e].at = "none" /\ call[e].op = "fork" /\ call[e].at = "self"
        /\ OneEntry(e, va, y) /\ Goto(e, "child", va + 1)
        /\ UNCHANGED <<status, handler, fault, during>> /\ content' = content
    BY <1>v, <1>y DEF duppage_self, At, Executes, sys_page_map, OneEntry, Page
  <1>2. /\ EachOK(e) /\ (\A a \in VAs : PermOK(e, a)) /\ (\A a \in Kept : On(e, a)) /\ ~On(e, PFTEMP)
        /\ c \in Envs /\ c # e /\ (\A a \in VAs : PermOK(c, a))
        /\ va \in Nat /\ handler[c] /\ handler[e] /\ (\A a \in Kept : a < va => On(c, a))
        /\ va \in Private \cup {UTEMP} /\ On(e, va) /\ On(c, va)
        /\ \A a \in Private : content[Page(e, a)] \in during[e][a] /\ (On(c, a) => content[Page(c, a)] \in during[e][a])
    <2>1. EachOK(e) /\ (\A a \in VAs : PermOK(e, a)) /\ (\A a \in Kept : On(e, a))
          /\ c \in Envs /\ c # e /\ (\A a \in VAs : PermOK(c, a))
      BY <1>1, <1>c, CallFacts
    <2> QED
      BY <1>1, <1>v, <1>c, <2>1 DEF EachOK, FaultOK, ForkOK
  <1>3. va \in VAs /\ va # PFTEMP /\ PFTEMP \in VAs /\ va \notin Text /\ va \notin Shared
        /\ pte[e][va] \in Pte /\ Page(e, va) \in Pages
    BY <1>2, Types, Addresses DEF Inv, Kept
  <1>4. DupPerm(pte[e][va].perm) = {"COW"}
    BY <1>2, <1>3, DupPermIs DEF PermOK
  <1>5. y \in Pte /\ y # NULL /\ y.pa = Page(e, va) /\ y.perm = {"COW"}
    <2>1. y \in Pte
      BY <1>y, <1>3, <1>4 DEF Pte, Perms
    <2> QED
      BY <1>y, <1>4, <2>1 DEF Pte, Perms
  <1>6. /\ pte' \in [Envs -> [VAs -> Pte \cup {NULL}]] /\ pte'[e][va] = y
        /\ \A g \in Envs, a \in VAs : ~(g = e /\ a = va) => pte'[g][a] = pte[g][a]
        /\ \A g \in Envs : g # e => pte'[g] = pte[g]
    <2>1. y \in Pte \cup {NULL} /\ TypeOK /\ OneEntry(e, va, y)
      BY <1>1, <1>5 DEF Inv
    <2> HIDE DEF OneEntry
    <2> QED
      BY <1>3, <2>1, EntryIs
  <1>7. call'[e].op = "fork" /\ call'[e].child = c /\ call'[e].at = "child" /\ call'[e].va = va + 1
         /\ \A f \in Envs : f # e => call'[f] = call[f]
    BY <1>1, <1>c, GotoIs DEF Inv
  <1>8. ActsOn(e, c)
    BY <1>1, <1>c, <1>6, <1>7 DEF ActsOn, Others
  <1>9. \A a \in VAs : (On(e, a)' <=> On(e, a)) /\ Page(e, a)' = Page(e, a)
    <2>1. On(e, va)' /\ Page(e, va)' = Page(e, va)
      BY <1>5, <1>6 DEF On, Page
    <2>2. \A a \in VAs : a # va => (On(e, a)' <=> On(e, a)) /\ Page(e, a)' = Page(e, a)
      BY <1>6 DEF On, Page
    <2> QED
      BY <1>2, <2>1, <2>2
  <1>10. \A a \in VAs : (On(c, a)' <=> On(c, a)) /\ Page(c, a)' = Page(c, a)
    BY <1>2, <1>6 DEF On, Page
  <1>11. \A a \in VAs : PermOK(e, a)' /\ PermOK(c, a)'
    <2>1. PermOK(e, va)'
      BY <1>1, <1>2, <1>3, <1>5, <1>6 DEF PermOK
    <2>2. \A a \in VAs : PermOK(c, a)' /\ (a # va => PermOK(e, a)')
      <3> SUFFICES ASSUME NEW a \in VAs PROVE PermOK(c, a)' /\ (a # va => PermOK(e, a)')
        OBVIOUS
      <3>1. PermOK(e, a) /\ PermOK(c, a) /\ handler'[e] = handler[e] /\ handler'[c] = handler[c]
        BY <1>1, <1>2
      <3>2. pte'[c][a] = pte[c][a] /\ (a # va => pte'[e][a] = pte[e][a])
        BY <1>2, <1>6
      <3> QED
        BY <3>1, <3>2, PermKept
    <2> QED
      BY <2>1, <2>2
  <1>12. SharedOK'
    <2>1. \A g \in Envs, a \in VAs : (g = e /\ a = va) \/ pte'[g][a] = pte[g][a] \/ pte'[g][a] = NULL
      BY <1>6
    <2> QED
      BY <1>3, <2>1, SharedStep
  <1>13. \A g, h \in Envs, a, b \in VAs : PairOK(g, a, h, b)'
    <2>1. \A g \in Envs, a \in VAs : (g = e /\ a = va) \/ pte'[g][a] = pte[g][a] \/ pte'[g][a] = NULL
      BY <1>6
    <2>2. \A h \in Envs, a, b \in VAs : Moving(e, a, h, b) /\ On(e, a)' /\ On(h, b)' => Moving(e, a, h, b)'
      BY <1>1 DEF Moving, Lost
    <2>3. \A h \in Envs, a \in VAs :
             (Copying(e, h, a) \/ Lost(e, h)) /\ Has(e, a, "W")' /\ On(h, a)' => (Copying(e, h, a) \/ Lost(e, h))'
      BY <1>v, <1>1, <1>5, <1>6 DEF Copying, Lost, Has
    <2>4. \A h \in Envs, b \in VAs :
             /\ pte'[e][va] # pte[e][va] /\ ~(h = e /\ b = va)
             /\ On(e, va)' /\ On(h, b)' /\ Page(e, va)' = Page(h, b)
             => PairOK(e, va, h, b)' /\ PairOK(h, b, e, va)'
      <3> SUFFICES ASSUME NEW h \in Envs, NEW b \in VAs, ~(h = e /\ b = va), On(h, b)', Page(e, va)' = Page(h, b)
                   PROVE  PairOK(e, va, h, b)' /\ PairOK(h, b, e, va)'
        OBVIOUS
      <3>1. pte'[h][b] = pte[h][b] /\ On(h, b)
        BY <1>6 DEF On
      <3>2. Page(h, b) = Page(e, va)
        BY <1>3, <1>9
      <3>3. b = va /\ (h # e /\ Has(h, va, "W") => Has(h, va, "SHARE"))
        <4>1. fault[e].at # "unmap" /\ (call[e].op = "spawn" => call[e].at # "unmap")
          BY <1>1
        <4>2. status[e] = "LIVE" /\ va \in VAs /\ On(e, va) /\ On(h, b)
          BY <1>1, <1>2, <1>3, <3>1
        <4> QED
          BY <3>2, <4>1, <4>2, SameAddress
      <3>4. ~Has(e, va, "W")'
        BY <1>5, <1>6 DEF Has
      <3>5. h # e => ~(Has(h, va, "W") /\ ~Has(h, va, "SHARE"))'
        BY <3>1, <3>3 DEF Has
      <3> QED
        BY <3>3, <3>4, <3>5 DEF PairOK
    <2> QED
      BY <1>2, <1>3, <1>8, <2>1, <2>2, <2>3, <2>4, PairStep
  <1>14. ForkOK(e)'
    <2>1. \A a \in Kept : a < va + 1 => On(c, a)'
      <3> SUFFICES ASSUME NEW a \in Kept, a < va + 1 PROVE On(c, a)'
        OBVIOUS
      <3>1. a \in VAs /\ a \in Nat
        BY Addresses
      <3>2. a = va \/ a < va
        BY <1>2, <3>1
      <3> QED
        BY <1>2, <1>10, <3>1, <3>2
    <2>2. \A a \in Private : content[Page(e, a)'] \in during[e][a] /\ (On(c, a)' => content[Page(c, a)'] \in during[e][a])
      BY <1>2, <1>9, <1>10, Addresses
    <2>3. handler'[c] /\ handler'[e] /\ content' = content /\ during' = during
      BY <1>1, <1>2
    <2>4. \A a \in Private : (content[Page(e, a)] \in during[e][a])' /\ (On(c, a)' => (content[Page(c, a)] \in during[e][a])')
      BY <2>2, <2>3
    <2>5. PICK m \in Nat : m = va + 1
      BY <1>2
    <2> QED
      BY <1>7, <2>1, <2>3, <2>4, <2>5 DEF ForkOK
  <1>15. SpawnOK(e)'
    BY <1>7 DEF SpawnOK
  <1>16. /\ \A f \in Envs : f \notin {e, c} => pte'[f] = pte[f] /\ ContentKept(f)
         /\ \A g \in {e, c} : pte'[g][PFTEMP] = pte[g][PFTEMP]
         /\ \A a \in Kept : On(e, a)'
         /\ content' \in [Pages -> Values]
    BY <1>1, <1>2, <1>3, <1>6, <1>9, Addresses DEF ContentKept, Inv, TypeOK
  <1>17. call[e].op # "none" /\ call[e].child = c /\ va + 1 \in Nat
    BY <1>c, <1>1, <1>2
  <1> PICK n : n = va + 1
    OBVIOUS
  <1> PICK at \in {"child", "self", "alloc", "read", "map", "unmap", "shared"} : at = "child"
    OBVIOUS
  <1>18. n \in Nat /\ Goto(e, at, n)
    BY <1>1, <1>17
  <1> QED
    BY <1>1, <1>2, <1>6, <1>11, <1>12, <1>13, <1>14, <1>15, <1>16, <1>17, <1>18, CallStep

\* e starts its child.
LEMMA StartStep ==
  ASSUME Inv, NEW e \in Envs, status[e] = "LIVE", fault[e].at = "none", call[e].op # "none",
         call[e].op = "fork" => call[e].at = "child", call[e].op = "spawn" => call[e].at = "shared",
         Starts(e), \A a \in Kept : On(call[e].child, a), pte' = pte, content' = content, handler' = handler, fault' = fault
  PROVE  Inv'
  <1>1. /\ EachOK(e) /\ call[e] \in CallType /\ (\A a \in VAs : PermOK(e, a)) /\ (\A a \in Kept : On(e, a))
        /\ call[e].child \in Envs /\ call[e].child # e /\ status[call[e].child] = "CHILD"
        /\ \A a \in VAs : PermOK(call[e].child, a)
    BY CallFacts
  <1>2. PICK c \in Envs : c = call[e].child
    BY <1>1
  <1>3. /\ status' = [status EXCEPT ![c] = "LIVE"] /\ call' = [call EXCEPT ![e] = NoCall]
        /\ during' = [during EXCEPT ![e] = NoHistory]
    BY <1>2 DEF Starts
  <1>4. /\ call'[e] = NoCall /\ during'[e] = NoHistory /\ status'[c] = "LIVE"
        /\ \A f \in Envs : f # e => call'[f] = call[f] /\ during'[f] = during[f]
        /\ \A f \in Envs : f # c => status'[f] = status[f]
    BY <1>3 DEF Inv, TypeOK
  <1>5. ActsOn(e, c)
    BY <1>2, <1>4, None DEF ActsOn, Others
  <1>6. TypeOK'
    <2>1. call' \in [Envs -> CallType] /\ NoHistory \in [Private -> SUBSET Values]
      BY <1>3, Types, None DEF Inv, NoHistory
    <2> QED
      BY <1>3, <2>1 DEF Inv, TypeOK, CallType
  <1>7. \A a \in VAs : PermOK(e, a)' /\ PermOK(c, a)'
    BY <1>1, <1>2 DEF PermOK, On
  <1>8. (\A g, h \in Envs, a, b \in VAs : PairOK(g, a, h, b)') /\ SharedOK'
    <2>1. \A h \in Envs, a, b \in VAs : Moving(e, a, h, b) /\ On(e, a) => Moving(e, a, h, b)'
      BY DEF Moving, Lost
    <2>2. \A h \in Envs, a \in VAs : (Copying(e, h, a) \/ Lost(e, h)) /\ On(h, a) => (Copying(e, h, a) \/ Lost(e, h))'
      BY DEF Copying, Lost
    <2> QED
      BY <1>5, <2>1, <2>2, PairsSame
  <1>9. EachOK(e)'
    <2>1. ~On(e, PFTEMP)'
      BY <1>1 DEF EachOK, FaultOK, On
    <2>2. StatusOK(e)'
      BY <1>1, <1>2, <1>4, None DEF StatusOK
    <2>3. FaultOK(e)' /\ LiveOK(e)' /\ ForkOK(e)' /\ SpawnOK(e)'
      BY <1>1, <1>4, <2>1, None DEF FaultOK, LiveOK, ForkOK, SpawnOK, On
    <2> QED
      BY <2>2, <2>3 DEF EachOK
  <1>10. EachOK(c)'
    <2>1. call[c] = NoCall /\ fault[c] = NoFault /\ during[c] = NoHistory /\ ~On(c, PFTEMP)
      BY <1>2, CallFacts, None DEF EachOK, FaultOK
    <2>2. \A a \in Kept : On(c, a)'
      BY <1>2 DEF On
    <2> QED
      BY <1>1, <1>2, <1>4, <2>1, <2>2, IdleEach DEF On
  <1>11. \A f \in Envs : f \notin {e, c} => ContentKept(f)
    BY DEF ContentKept
  <1> QED
    BY <1>5, <1>6, <1>7, <1>8, <1>9, <1>10, <1>11, StepFrame

LEMMA ForkDoneStep ==
  ASSUME Inv, NEW e \in Envs, fork_done(e) PROVE Inv'
  <1>1. /\ status[e] = "LIVE" /\ fault[e].at = "none" /\ call[e].op = "fork" /\ call[e].at = "child"
        /\ Mapped(e, call[e].va) = {} /\ Starts(e)
        /\ pte' = pte /\ content' = content /\ handler' = handler /\ fault' = fault
    BY DEF fork_done, At, Executes
  <1>2. EachOK(e) /\ \A a \in Kept : On(e, a)
    BY <1>1, CallFacts
  <1>3. call[e].va \in Nat /\ \A a \in Kept : a < call[e].va => On(call[e].child, a)
    BY <1>1, <1>2 DEF EachOK, ForkOK
  <1>4. \A a \in Kept : On(call[e].child, a)
    <2> SUFFICES ASSUME NEW a \in Kept PROVE On(call[e].child, a)
      OBVIOUS
    <2>1. a \in VAs /\ a \in Nat /\ ~(a >= call[e].va)
      BY <1>1, <1>2, Addresses DEF Mapped, On
    <2> QED
      BY <1>3, <2>1
  <1> QED
    BY <1>1, <1>4, StartStep

LEMMA SpawnDoneStep ==
  ASSUME Inv, NEW e \in Envs, spawn_done(e) PROVE Inv'
  <1>1. /\ status[e] = "LIVE" /\ fault[e].at = "none" /\ call[e].op = "spawn" /\ call[e].at = "shared"
        /\ SharedLeft(e) = {} /\ Starts(e)
        /\ pte' = pte /\ content' = content /\ handler' = handler /\ fault' = fault
    BY DEF spawn_done, At, Executes
  <1>2. EachOK(e) /\ (\A a \in Kept : On(e, a)) /\ \A a \in VAs : PermOK(e, a)
    BY <1>1, CallFacts
  <1>3. /\ call[e].va \in Nat /\ (\A a \in Private : On(call[e].child, a))
        /\ \A a \in Shared : a < call[e].va => On(call[e].child, a)
    BY <1>1, <1>2 DEF EachOK, SpawnOK
  <1>4. \A a \in Kept : On(call[e].child, a)
    <2> SUFFICES ASSUME NEW a \in Shared PROVE On(call[e].child, a)
      BY <1>3 DEF Kept
    <2>1. a \in VAs /\ a \in Nat /\ On(e, a) /\ Has(e, a, "SHARE")
      BY <1>2, Addresses DEF Kept, PermOK, Has, On
    <2>2. ~(a >= call[e].va)
      BY <1>1, <2>1 DEF SharedLeft, Mapped, On
    <2> QED
      BY <1>3, <2>1, <2>2
  <1> QED
    BY <1>1, <1>4, StartStep

\* spawn takes a page for UTEMP.
LEMMA SpawnAllocStep ==
  ASSUME Inv, NEW e \in Envs, At(e, "spawn", "alloc"), Goto(e, "read", call[e].va),
         NEW p \in FreePages, sys_page_alloc(e, UTEMP, p, {"W"}), UNCHANGED <<status, handler, fault, during>>
  PROVE  Inv'
  <1> PICK va : va = call[e].va
    OBVIOUS
  <1> PICK c : c = call[e].child
    OBVIOUS
  <1>y. PICK y : y = [pa |-> p, perm |-> {"W"}]
    OBVIOUS
  <1>1. /\ status[e] = "LIVE" /\ fault[e].at = "none" /\ call[e].op = "spawn" /\ call[e].at = "alloc"
        /\ OneEntry(e, UTEMP, y) /\ Goto(e, "read", va) /\ content' = [content EXCEPT ![p] = 0]
        /\ UNCHANGED <<status, handler, fault, during>>
    BY <1>y DEF At, Executes, sys_page_alloc, OneEntry
  <1>2. /\ EachOK(e) /\ (\A a \in VAs : PermOK(e, a)) /\ (\A a \in Kept : On(e, a)) /\ ~On(e, PFTEMP)
        /\ c \in Envs /\ c # e /\ (\A a \in VAs : PermOK(c, a))
        /\ va \in Image \cup {Stack} /\ (va # Stack => On(c, Stack) /\ \A a \in Image : a < va => On(c, a))
        /\ \A a \in Private : On(c, a) => content[Page(c, a)] = 0
    <2>1. EachOK(e) /\ (\A a \in VAs : PermOK(e, a)) /\ (\A a \in Kept : On(e, a))
          /\ c \in Envs /\ c # e /\ (\A a \in VAs : PermOK(c, a))
      BY <1>1, CallFacts
    <2> QED
      BY <1>1, <2>1 DEF EachOK, FaultOK, SpawnOK
  <1>3. p \in Pages /\ \A g \in Envs, a \in VAs : On(g, a) => Page(g, a) # p /\ Page(g, a) \in Pages
    BY Types DEF FreePages, On, Page, Inv
  <1>4. y \in Pte /\ y # NULL /\ y.pa = p /\ y.perm = {"W"}
    <2>1. y \in Pte
      BY <1>y, <1>3 DEF Pte, Perms
    <2> QED
      BY <1>y, <2>1 DEF Pte, Perms
  <1>5. UTEMP \in VAs /\ PFTEMP \in VAs /\ UTEMP # PFTEMP /\ UTEMP \notin Kept /\ UTEMP \notin Text /\ va \in Nat
    BY <1>2, Addresses
  <1>6. /\ pte' \in [Envs -> [VAs -> Pte \cup {NULL}]] /\ pte'[e][UTEMP] = y
        /\ \A g \in Envs, a \in VAs : ~(g = e /\ a = UTEMP) => pte'[g][a] = pte[g][a]
        /\ \A g \in Envs : g # e => pte'[g] = pte[g]
    <2>1. y \in Pte \cup {NULL} /\ TypeOK /\ OneEntry(e, UTEMP, y)
      BY <1>1, <1>4 DEF Inv
    <2>2. UTEMP \in VAs
      BY <1>5
    <2> HIDE DEF OneEntry
    <2> QED
      BY <2>1, <2>2, EntryIs
  <1>7. content' \in [Pages -> Values] /\ \A g \in Envs, a \in VAs : On(g, a) => content'[Page(g, a)] = content[Page(g, a)]
    BY <1>1, <1>3 DEF Inv, TypeOK
  <1>8. call'[e].op = "spawn" /\ call'[e].child = c /\ call'[e].at = "read" /\ call'[e].va = va
         /\ \A f \in Envs : f # e => call'[f] = call[f]
    BY <1>1, GotoIs DEF Inv
  <1>9. ActsOn(e, c)
    BY <1>1, <1>6, <1>8 DEF ActsOn, Others
  <1>10. \A a \in VAs : PermOK(e, a)' /\ PermOK(c, a)'
    <2>1. PermOK(e, UTEMP)'
      BY <1>4, <1>5, <1>6 DEF PermOK, Kept
    <2>2. \A a \in VAs : PermOK(c, a)' /\ (a # UTEMP => PermOK(e, a)')
      BY <1>1, <1>2, <1>6 DEF PermOK, On
    <2> QED
      BY <2>1, <2>2
  <1>11. \A g \in Envs, a \in VAs : (g = e /\ a = UTEMP) \/ pte'[g][a] = pte[g][a] \/ pte'[g][a] = NULL
    BY <1>6
  <1>12. SharedOK'
    BY <1>5, <1>11, SharedStep DEF Kept
  <1>13. \A g, h \in Envs, a, b \in VAs : PairOK(g, a, h, b)'
    <2>1. \A h \in Envs, a, b \in VAs : Moving(e, a, h, b) /\ On(e, a)' /\ On(h, b)' => Moving(e, a, h, b)'
      BY <1>1 DEF Moving, Lost
    <2>2. \A h \in Envs, a \in VAs :
             (Copying(e, h, a) \/ Lost(e, h)) /\ Has(e, a, "W")' /\ On(h, a)' => (Copying(e, h, a) \/ Lost(e, h))'
      BY <1>1 DEF Copying, Lost
    <2>3. \A h \in Envs, b \in VAs :
             /\ pte'[e][UTEMP] # pte[e][UTEMP] /\ ~(h = e /\ b = UTEMP)
             /\ On(e, UTEMP)' /\ On(h, b)' /\ Page(e, UTEMP)' = Page(h, b)
             => PairOK(e, UTEMP, h, b)' /\ PairOK(h, b, e, UTEMP)'
      BY ZenonT(90), <1>3, <1>4, <1>6 DEF On, Page
    <2> QED
      BY <1>2, <1>5, <1>9, <1>11, <2>1, <2>2, <2>3, PairStep
  <1>14. ForkOK(e)'
    BY <1>8 DEF ForkOK
  <1>15. SpawnOK(e)'
    <2>1. \A a \in VAs : (On(c, a)' <=> On(c, a)) /\ Page(c, a)' = Page(c, a)
      BY <1>2, <1>6 DEF On, Page
    <2>2. \A a \in Private : On(c, a)' => (content[Page(c, a)])' = 0
      BY <1>2, <1>7, <2>1, Addresses
    <2>3. On(e, UTEMP)' /\ (pte[e][UTEMP].perm = {"W"})'
      BY <1>4, <1>6 DEF On
    <2>4. va # Stack => On(c, Stack)' /\ \A a \in Image : a < va => On(c, a)'
      BY <1>2, <2>1, Addresses
    <2> QED
      BY <1>2, <1>8, <2>2, <2>3, <2>4 DEF SpawnOK
  <1>16. /\ \A f \in Envs : f \notin {e, c} => pte'[f] = pte[f] /\ ContentKept(f)
         /\ \A g \in {e, c} : pte'[g][PFTEMP] = pte[g][PFTEMP]
         /\ \A a \in Kept : On(e, a)'
    BY <1>2, <1>5, <1>6, <1>7, Addresses DEF ContentKept, On
  <1>17. call[e].op # "none" /\ call[e].child = c
    BY <1>1
  <1> QED
    BY <1>1, <1>2, <1>5, <1>6, <1>7, <1>10, <1>12, <1>13, <1>14, <1>15, <1>16, <1>17, CallStep

\* spawn fills the page at UTEMP with a page of the image.
LEMMA SpawnReadStep ==
  ASSUME Inv, NEW e \in Envs, At(e, "spawn", "read"), Goto(e, "map", call[e].va),
         content' = [content EXCEPT ![Page(e, UTEMP)] = 0], UNCHANGED <<pte, status, handler, fault, during>>
  PROVE  Inv'
  <1> PICK va : va = call[e].va
    OBVIOUS
  <1> PICK c : c = call[e].child
    OBVIOUS
  <1> PICK p : p = Page(e, UTEMP)
    OBVIOUS
  <1>1. /\ status[e] = "LIVE" /\ fault[e].at = "none" /\ call[e].op = "spawn" /\ call[e].at = "read"
        /\ Goto(e, "map", va) /\ content' = [content EXCEPT ![p] = 0]
        /\ UNCHANGED <<status, handler, fault, during>> /\ pte' = pte
    BY DEF At, Executes
  <1>2. /\ EachOK(e) /\ (\A a \in VAs : PermOK(e, a)) /\ (\A a \in Kept : On(e, a))
        /\ c \in Envs /\ c # e /\ (\A a \in VAs : PermOK(c, a))
        /\ va \in Image \cup {Stack} /\ (va # Stack => On(c, Stack) /\ \A a \in Image : a < va => On(c, a))
        /\ On(e, UTEMP) /\ pte[e][UTEMP].perm = {"W"}
        /\ \A a \in Private : On(c, a) => content[Page(c, a)] = 0
    <2>1. EachOK(e) /\ (\A a \in VAs : PermOK(e, a)) /\ (\A a \in Kept : On(e, a))
          /\ c \in Envs /\ c # e /\ (\A a \in VAs : PermOK(c, a))
      BY <1>1, CallFacts
    <2> QED
      BY <1>1, <2>1 DEF EachOK, SpawnOK
  <1>3. \A h \in Envs, b \in VAs : On(h, b) /\ Page(h, b) = p => h = e /\ b = UTEMP
    BY <1>1, UtempSole
  <1>4. p \in Pages /\ (\A g \in Envs, a \in VAs : On(g, a) => Page(g, a) \in Pages) /\ UTEMP \in VAs /\ va \in Nat
    BY <1>2, Types, Addresses DEF Inv
  <1>5. content' \in [Pages -> Values] /\ content'[p] = 0 /\ \A q \in Pages : q # p => content'[q] = content[q]
    BY <1>1, <1>4 DEF Inv, TypeOK
  <1>6. call'[e].op = "spawn" /\ call'[e].child = c /\ call'[e].at = "map" /\ call'[e].va = va
         /\ \A f \in Envs : f # e => call'[f] = call[f]
    BY ZenonT(40), <1>1, GotoIs DEF Inv
  <1>7. ActsOn(e, c)
    BY <1>1, <1>6 DEF ActsOn, Others
  <1>8. \A a \in VAs : PermOK(e, a)' /\ PermOK(c, a)'
    BY <1>1, <1>2 DEF PermOK, On
  <1>9. (\A g, h \in Envs, a, b \in VAs : PairOK(g, a, h, b)') /\ SharedOK'
    <2>1. \A h \in Envs, a, b \in VAs : Moving(e, a, h, b) /\ On(e, a) => Moving(e, a, h, b)'
      BY <1>1 DEF Moving, Lost
    <2>2. \A h \in Envs, a \in VAs : (Copying(e, h, a) \/ Lost(e, h)) /\ On(h, a) => (Copying(e, h, a) \/ Lost(e, h))'
      BY <1>1 DEF Copying, Lost
    <2> QED
      BY <1>1, <1>2, <1>7, <2>1, <2>2, PairsSame
  <1>10. ForkOK(e)'
    BY <1>6 DEF ForkOK
  <1>11. SpawnOK(e)'
    <2>1. \A a \in Private : On(c, a) => content'[Page(c, a)] = 0
      BY <1>2, <1>3, <1>4, <1>5, Addresses
    <2> QED
      BY <1>1, <1>2, <1>5, <1>6, <2>1 DEF SpawnOK, On, Page
  <1>12. /\ \A f \in Envs : f \notin {e, c} => pte'[f] = pte[f] /\ ContentKept(f)
         /\ \A g \in {e, c} : pte'[g][PFTEMP] = pte[g][PFTEMP]
         /\ \A a \in Kept : On(e, a)'
    BY <1>1, <1>2, <1>3, <1>4, <1>5 DEF ContentKept, On
  <1>13. call[e].op # "none" /\ call[e].child = c /\ pte' \in [Envs -> [VAs -> Pte \cup {NULL}]]
    BY <1>1 DEF Inv, TypeOK
  <1> QED
    BY <1>1, <1>2, <1>4, <1>5, <1>8, <1>9, <1>10, <1>11, <1>12, <1>13, CallStep

\* spawn maps the page at UTEMP in the child.
LEMMA SpawnMapStep ==
  ASSUME Inv, NEW e \in Envs, At(e, "spawn", "map"), Goto(e, "unmap", call[e].va),
         sys_page_map(e, UTEMP, call[e].child, call[e].va, Rights(call[e].va)),
         UNCHANGED <<content, status, handler, fault, during>>
  PROVE  Inv'
  <1>v. PICK va : va = call[e].va
    OBVIOUS
  <1>c. PICK c : c = call[e].child
    OBVIOUS
  <1>p. PICK perm : perm = IF va \in Text THEN {} ELSE {"W"}
    OBVIOUS
  <1>y. PICK y : y = [pa |-> Page(e, UTEMP), perm |-> perm]
    OBVIOUS
  <1>1. /\ status[e] = "LIVE" /\ fault[e].at = "none" /\ call[e].op = "spawn" /\ call[e].at = "map"
        /\ call[e].va = va /\ call[e].child = c
        /\ Goto(e, "unmap", va) /\ OneEntry(c, va, y)
        /\ UNCHANGED <<status, handler, fault, during>> /\ content' = content
    BY <1>v, <1>c, <1>p, <1>y DEF At, Executes, sys_page_map, OneEntry, Page, Rights
  <1>2. /\ EachOK(e) /\ (\A a \in VAs : PermOK(e, a)) /\ (\A a \in Kept : On(e, a)) /\ ~On(e, PFTEMP)
        /\ c \in Envs /\ c # e /\ (\A a \in VAs : PermOK(c, a))
        /\ va \in Image \cup {Stack} /\ (va # Stack => On(c, Stack) /\ \A a \in Image : a < va => On(c, a))
        /\ On(e, UTEMP) /\ pte[e][UTEMP].perm = {"W"} /\ content[Page(e, UTEMP)] = 0
        /\ \A a \in Private : On(c, a) => content[Page(c, a)] = 0
    <2>1. EachOK(e) /\ (\A a \in VAs : PermOK(e, a)) /\ (\A a \in Kept : On(e, a))
          /\ c \in Envs /\ c # e /\ (\A a \in VAs : PermOK(c, a))
      BY <1>1, CallFacts
    <2> QED
      BY <1>1, <2>1 DEF EachOK, FaultOK, SpawnOK
  <1>3. \A h \in Envs, b \in VAs : On(h, b) /\ Page(h, b) = Page(e, UTEMP) => h = e /\ b = UTEMP
    BY <1>1, UtempSole
  <1>4. /\ va \in VAs /\ va \in Nat /\ va \notin {UTEMP, PFTEMP} /\ va \notin Shared /\ (va \in Private \/ va \in Text)
        /\ UTEMP \in VAs /\ PFTEMP \in VAs /\ Page(e, UTEMP) \in Pages
        /\ (va \in Text => va \notin Private) /\ Private \subseteq VAs
    <2>1. va \in Private \/ va \in Text
      BY <1>2, Addresses DEF Image
    <2> QED
      BY <1>2, <2>1, Types, Addresses DEF Inv, Kept
  <1>5. y \in Pte /\ y # NULL /\ y.pa = Page(e, UTEMP) /\ y.perm = perm
    <2>1. y \in Pte
      BY <1>4, <1>p, <1>y DEF Pte, Perms
    <2> QED
      BY <2>1, <1>y DEF Pte, Perms
  <1>6. /\ pte' \in [Envs -> [VAs -> Pte \cup {NULL}]] /\ pte'[c][va] = y
        /\ \A g \in Envs, a \in VAs : ~(g = c /\ a = va) => pte'[g][a] = pte[g][a]
        /\ \A g \in Envs : g # c => pte'[g] = pte[g]
    <2>1. y \in Pte \cup {NULL} /\ TypeOK /\ OneEntry(c, va, y) /\ c \in Envs /\ va \in VAs
      BY <1>1, <1>2, <1>4, <1>5 DEF Inv
    <2> QED
      BY <2>1, EntryIs
  <1>7. call'[e].op = "spawn" /\ call'[e].child = c /\ call'[e].at = "unmap" /\ call'[e].va = va
         /\ \A f \in Envs : f # e => call'[f] = call[f]
    BY <1>1, GotoIs DEF Inv
  <1>8. ActsOn(e, c)
    BY <1>1, <1>6, <1>7 DEF ActsOn, Others
  <1>9. On(c, va)' /\ Page(c, va)' = Page(e, UTEMP) /\ \A a \in VAs : a # va => (On(c, a)' <=> On(c, a)) /\ Page(c, a)' = Page(c, a)
    BY <1>2, <1>5, <1>6 DEF On, Page
  <1>10. \A a \in VAs : PermOK(e, a)' /\ PermOK(c, a)'
    <2>1. PermOK(c, va)'
      BY <1>4, <1>5, <1>6, <1>p DEF PermOK
    <2>2. \A a \in VAs : PermOK(e, a)' /\ (a # va => PermOK(c, a)')
      BY <1>1, <1>2, <1>6 DEF PermOK, On
    <2> QED
      BY <2>1, <2>2
  <1>11. \A g \in Envs, a \in VAs : (g = c /\ a = va) \/ pte'[g][a] = pte[g][a] \/ pte'[g][a] = NULL
    BY <1>6
  <1>12. SharedOK'
    BY <1>2, <1>4, <1>11, SharedStep
  <1>13. \A g, h \in Envs, a, b \in VAs : PairOK(g, a, h, b)'
    <2>1. \A h \in Envs, a, b \in VAs : Moving(e, a, h, b) /\ On(e, a)' /\ On(h, b)' => Moving(e, a, h, b)'
      BY <1>1 DEF Moving, Lost
    <2>2. \A h \in Envs, a \in VAs :
             (Copying(e, h, a) \/ Lost(e, h)) /\ Has(e, a, "W")' /\ On(h, a)' => (Copying(e, h, a) \/ Lost(e, h))'
      BY <1>1 DEF Copying, Lost
    <2>3. Moving(e, UTEMP, c, va)'
      BY <1>2, <1>7 DEF Moving
    <2>4. \A h \in Envs, b \in VAs :
             /\ pte'[c][va] # pte[c][va] /\ ~(h = c /\ b = va)
             /\ On(c, va)' /\ On(h, b)' /\ Page(c, va)' = Page(h, b)
             => PairOK(c, va, h, b)' /\ PairOK(h, b, c, va)'
      <3> SUFFICES ASSUME NEW h \in Envs, NEW b \in VAs, ~(h = c /\ b = va), On(h, b)', Page(c, va)' = Page(h, b)
                   PROVE  PairOK(c, va, h, b)' /\ PairOK(h, b, c, va)'
        OBVIOUS
      <3>1. On(h, b) /\ Page(h, b) = Page(e, UTEMP)
        BY <1>6, <1>9 DEF On
      <3>2. h = e /\ b = UTEMP
        BY <1>3, <3>1
      <3> QED
        BY <2>3, <3>2 DEF PairOK
    <2> QED
      BY <1>2, <1>4, <1>8, <1>11, <2>1, <2>2, <2>4, PairStep
  <1>14. ForkOK(e)'
    BY <1>7 DEF ForkOK
  <1>15. SpawnOK(e)'
    <2>1. \A a \in Private : On(c, a)' => content'[Page(c, a)'] = 0
      BY <1>1, <1>2, <1>4, <1>9
    <2>2. va # Stack => On(c, Stack)' /\ \A a \in Image : a < va => On(c, a)'
      <3>1. Stack \in VAs /\ Image \subseteq VAs
        BY Addresses
      <3> QED
        BY <1>2, <1>9, <3>1
    <2> QED
      BY <1>2, <1>7, <1>9, <2>1, <2>2 DEF SpawnOK
  <1>16. /\ \A f \in Envs : f \notin {e, c} => pte'[f] = pte[f] /\ ContentKept(f)
         /\ \A g \in {e, c} : pte'[g][PFTEMP] = pte[g][PFTEMP]
         /\ \A a \in Kept : On(e, a)'
    BY <1>1, <1>2, <1>4, <1>6 DEF ContentKept, On
  <1>17. call[e].op # "none" /\ call[e].child = c /\ content' \in [Pages -> Values]
    BY <1>1 DEF Inv, TypeOK
  <1> QED
    BY <1>1, <1>2, <1>4, <1>6, <1>10, <1>12, <1>13, <1>14, <1>15, <1>16, <1>17, CallStep

\* What spawn visits after va, when the child has all up to va.
LEMMA NextPageIs ==
  ASSUME NEW va \in Image \cup {Stack}
  PROVE  /\ NextPage(va) = NULL => \A a \in Image : va # Stack /\ (a = va \/ a < va)
         /\ NextPage(va) # NULL =>
               /\ NextPage(va) \in Image /\ NextPage(va) \in Nat
               /\ \A a \in Image : a < NextPage(va) => va # Stack /\ (a = va \/ a < va)
  <1> PICK S : S = {a \in Image : va = Stack \/ a > va}
    OBVIOUS
  <1>1. NextPage(va) = IF S = {} THEN NULL ELSE Least(S)
    BY DEF NextPage
  <1>2. S \subseteq VAs /\ va \in Nat /\ \A a \in Image : a \in Nat /\ a \in VAs
    BY Addresses
  <1>3. CASE S = {}
    <2>1. \A a \in Image : va # Stack /\ ~(a > va)
      BY <1>3
    <2>2. \A a \in Image : a = va \/ a < va
      BY <1>2, <2>1
    <2> QED
      BY <1>1, <1>3, <2>1, <2>2
  <1>4. CASE S # {}
    <2> PICK m : m = Least(S)
      OBVIOUS
    <2>1. m \in S /\ \A a \in S : m <= a
      BY <1>2, <1>4, LeastIs
    <2>2. m \in Image /\ m \in Nat /\ m # NULL
      BY <1>2, <2>1
    <2>3. \A a \in Image : a < m => va # Stack /\ (a = va \/ a < va)
      <3> SUFFICES ASSUME NEW a \in Image, a < m PROVE va # Stack /\ (a = va \/ a < va)
        OBVIOUS
      <3>1. a \notin S /\ a \in Nat
        BY <1>2, <2>1, <2>2
      <3> QED
        BY <1>2, <3>1
    <2> QED
      BY <1>1, <1>4, <2>2, <2>3
  <1> QED
    BY <1>3, <1>4

\* spawn frees UTEMP and goes to the next page.
LEMMA SpawnUnmapStep ==
  ASSUME Inv, NEW e \in Envs, At(e, "spawn", "unmap"), sys_page_unmap(e, UTEMP),
         GoNext(e, call[e].va),
         UNCHANGED <<content, status, handler, fault, during>>
  PROVE  Inv'
  <1> PICK va : va = call[e].va
    OBVIOUS
  <1> PICK c : c = call[e].child
    OBVIOUS
  <1>1. /\ status[e] = "LIVE" /\ fault[e].at = "none" /\ call[e].op = "spawn" /\ call[e].at = "unmap"
        /\ IF NextPage(va) = NULL THEN Goto(e, "shared", 0) ELSE Goto(e, "alloc", NextPage(va))
        /\ OneEntry(e, UTEMP, NULL)
        /\ UNCHANGED <<status, handler, fault, during>> /\ content' = content
    BY DEF At, Executes, sys_page_unmap, OneEntry, GoNext
  <1>2. /\ EachOK(e) /\ (\A a \in VAs : PermOK(e, a)) /\ (\A a \in Kept : On(e, a))
        /\ c \in Envs /\ c # e /\ (\A a \in VAs : PermOK(c, a))
        /\ va \in Image \cup {Stack} /\ (va # Stack => On(c, Stack) /\ \A a \in Image : a < va => On(c, a))
        /\ On(c, va) /\ \A a \in Private : On(c, a) => content[Page(c, a)] = 0
    <2>1. EachOK(e) /\ (\A a \in VAs : PermOK(e, a)) /\ (\A a \in Kept : On(e, a))
          /\ c \in Envs /\ c # e /\ (\A a \in VAs : PermOK(c, a))
      BY <1>1, CallFacts
    <2> QED
      BY <1>1, <2>1 DEF EachOK, FaultOK, SpawnOK
  <1>3. UTEMP \in VAs /\ PFTEMP \in VAs /\ UTEMP # PFTEMP /\ UTEMP \notin Kept /\ Private \subseteq VAs
    BY Addresses
  <1>4. /\ pte' \in [Envs -> [VAs -> Pte \cup {NULL}]] /\ pte'[e][UTEMP] = NULL
        /\ \A g \in Envs, a \in VAs : ~(g = e /\ a = UTEMP) => pte'[g][a] = pte[g][a]
        /\ \A g \in Envs : g # e => pte'[g] = pte[g]
    BY <1>1, <1>3, EntryIs DEF Inv
  <1>5. PICK at \in {"alloc", "shared"}, n \in Nat :
           /\ Goto(e, at, n)
           /\ at = "shared" => n = 0 /\ NextPage(va) = NULL
           /\ at = "alloc" => n = NextPage(va) /\ NextPage(va) # NULL
    BY <1>1, <1>2, NextPageIs
  <1>6. call'[e].op = "spawn" /\ call'[e].child = c /\ call'[e].at = at /\ call'[e].va = n
         /\ \A f \in Envs : f # e => call'[f] = call[f]
    BY <1>1, <1>5, GotoIs DEF Inv
  <1>7. ActsOn(e, c)
    BY <1>1, <1>4, <1>6 DEF ActsOn, Others
  <1>8. \A a \in VAs : PermOK(e, a)' /\ PermOK(c, a)'
    <2>1. ~On(e, UTEMP)'
      BY <1>4 DEF On
    <2>2. \A a \in VAs : PermOK(c, a)' /\ (a # UTEMP => PermOK(e, a)')
      BY <1>1, <1>2, <1>4 DEF PermOK, On
    <2> QED
      BY <2>1, <2>2 DEF PermOK
  <1>9. \A g \in Envs, a \in VAs : (g = e /\ a = UTEMP) \/ pte'[g][a] = pte[g][a] \/ pte'[g][a] = NULL
    BY <1>4
  <1>10. SharedOK'
    BY <1>3, <1>9, SharedStep DEF Kept
  <1>11. \A g, h \in Envs, a, b \in VAs : PairOK(g, a, h, b)'
    <2>1. ~On(e, UTEMP)'
      BY <1>4 DEF On
    <2>2. \A h \in Envs, a, b \in VAs : Moving(e, a, h, b) /\ On(e, a)' /\ On(h, b)' => Moving(e, a, h, b)'
      BY <1>1, <2>1 DEF Moving
    <2>3. \A h \in Envs, a \in VAs :
             (Copying(e, h, a) \/ Lost(e, h)) /\ Has(e, a, "W")' /\ On(h, a)' => (Copying(e, h, a) \/ Lost(e, h))'
      BY <1>1 DEF Copying, Lost
    <2>4. \A h \in Envs, b \in VAs :
             /\ pte'[e][UTEMP] # pte[e][UTEMP] /\ ~(h = e /\ b = UTEMP)
             /\ On(e, UTEMP)' /\ On(h, b)' /\ Page(e, UTEMP)' = Page(h, b)
             => PairOK(e, UTEMP, h, b)' /\ PairOK(h, b, e, UTEMP)'
      BY <2>1
    <2> QED
      BY <1>2, <1>3, <1>7, <1>9, <2>2, <2>3, <2>4, PairStep
  <1>12. ForkOK(e)'
    BY <1>6 DEF ForkOK
  <1>13. SpawnOK(e)'
    <2>1. \A a \in VAs : (On(c, a)' <=> On(c, a)) /\ Page(c, a)' = Page(c, a)
      BY <1>2, <1>4 DEF On, Page
    <2>2. \A a \in Private : On(c, a)' => content'[Page(c, a)'] = 0
      BY <1>1, <1>2, <1>3, <2>1
    <2>3. Stack \in VAs /\ Image \subseteq VAs /\ Stack \in Private /\ Private = Data \cup {Stack} /\ Data \subseteq Image
          /\ \A a \in Shared : a \in Nat /\ ~(a < 0)
      BY Addresses DEF Private, Image
    <2>4. On(c, Stack)
      BY <1>2
    <2>5. at = "alloc" => n \in Image \cup {Stack} /\ On(c, Stack)' /\ \A a \in Image : a < n => On(c, a)'
      <3>1. at = "alloc" => n \in Image /\ \A a \in Image : a < n => va # Stack /\ (a = va \/ a < va)
        BY <1>2, <1>5, NextPageIs
      <3> QED
        BY <1>2, <2>1, <2>3, <2>4, <3>1
    <2>6. at = "shared" => (\A a \in Private : On(c, a)') /\ \A a \in Shared : a < n => On(c, a)'
      <3>1. at = "shared" => n = 0 /\ \A a \in Image : va # Stack /\ (a = va \/ a < va)
        BY <1>2, <1>5, NextPageIs
      <3> QED
        BY <1>2, <2>1, <2>3, <2>4, <3>1
    <2> QED
      BY <1>6, <2>2, <2>5, <2>6 DEF SpawnOK
  <1>14. /\ \A f \in Envs : f \notin {e, c} => pte'[f] = pte[f] /\ ContentKept(f)
         /\ \A g \in {e, c} : pte'[g][PFTEMP] = pte[g][PFTEMP]
         /\ \A a \in Kept : On(e, a)'
    BY <1>1, <1>2, <1>3, <1>4, Addresses DEF ContentKept, On
  <1>15. /\ call[e].op # "none" /\ call[e].child = c /\ content' \in [Pages -> Values]
         /\ at \in {"child", "self", "alloc", "read", "map", "unmap", "shared"}
    BY <1>1 DEF Inv, TypeOK
  <1> QED
    BY <1>1, <1>2, <1>4, <1>5, <1>8, <1>10, <1>11, <1>12, <1>13, <1>14, <1>15, CallStep

\* spawn allocates a page that the file does not fill in the child.
LEMMA SpawnBlankStep ==
  ASSUME Inv, NEW e \in Envs, spawn_blank(e)
  PROVE  Inv'
  <1>v. PICK va : va = call[e].va
    OBVIOUS
  <1>c. PICK c : c = call[e].child
    OBVIOUS
  <1>r. PICK perm : perm = IF va \in Text THEN {} ELSE {"W"}
    OBVIOUS
  <1>p. PICK p \in FreePages : sys_page_alloc(c, va, p, perm)
    BY <1>v, <1>c, <1>r DEF spawn_blank, Rights
  <1>y. PICK y : y = [pa |-> p, perm |-> perm]
    OBVIOUS
  <1>1. /\ status[e] = "LIVE" /\ fault[e].at = "none" /\ call[e].op = "spawn" /\ call[e].at = "alloc"
        /\ call[e].va = va /\ call[e].child = c /\ va # Stack
        /\ IF NextPage(va) = NULL THEN Goto(e, "shared", 0) ELSE Goto(e, "alloc", NextPage(va))
        /\ OneEntry(c, va, y) /\ content' = [content EXCEPT ![p] = 0]
        /\ UNCHANGED <<status, handler, fault, during>>
    BY <1>v, <1>c, <1>p, <1>y DEF spawn_blank, GoNext, At, Executes, sys_page_alloc, OneEntry
  <1>2. /\ EachOK(e) /\ (\A a \in VAs : PermOK(e, a)) /\ (\A a \in Kept : On(e, a)) /\ ~On(e, PFTEMP)
        /\ c \in Envs /\ c # e /\ (\A a \in VAs : PermOK(c, a))
        /\ va \in Image /\ On(c, Stack) /\ (\A a \in Image : a < va => On(c, a))
        /\ \A a \in Private : On(c, a) => content[Page(c, a)] = 0
    <2>1. EachOK(e) /\ (\A a \in VAs : PermOK(e, a)) /\ (\A a \in Kept : On(e, a))
          /\ c \in Envs /\ c # e /\ (\A a \in VAs : PermOK(c, a))
      BY <1>1, CallFacts
    <2> QED
      BY <1>1, <2>1 DEF EachOK, FaultOK, SpawnOK
  <1>3. p \in Pages /\ \A g \in Envs, a \in VAs : On(g, a) => Page(g, a) # p /\ Page(g, a) \in Pages
    BY Types DEF FreePages, On, Page, Inv
  <1>4. /\ va \in VAs /\ va \in Nat /\ va \notin {UTEMP, PFTEMP} /\ va \notin Shared /\ (va \in Private \/ va \in Text)
        /\ PFTEMP \in VAs /\ (va \in Text => va \notin Private) /\ Private \subseteq VAs
    <2>1. va \in Private \/ va \in Text
      BY <1>2, Addresses DEF Image
    <2> QED
      BY <1>2, <2>1, Addresses DEF Kept
  <1>5. y \in Pte /\ y # NULL /\ y.pa = p /\ y.perm = perm
    <2>1. y \in Pte
      BY <1>3, <1>r, <1>y DEF Pte, Perms
    <2> QED
      BY <2>1, <1>y DEF Pte, Perms
  <1>6. /\ pte' \in [Envs -> [VAs -> Pte \cup {NULL}]] /\ pte'[c][va] = y
        /\ \A g \in Envs, a \in VAs : ~(g = c /\ a = va) => pte'[g][a] = pte[g][a]
        /\ \A g \in Envs : g # c => pte'[g] = pte[g]
    <2>1. y \in Pte \cup {NULL} /\ TypeOK /\ OneEntry(c, va, y) /\ c \in Envs /\ va \in VAs
      BY <1>1, <1>2, <1>4, <1>5 DEF Inv
    <2> QED
      BY <2>1, EntryIs
  <1>7. /\ content' \in [Pages -> Values] /\ content'[p] = 0
        /\ \A g \in Envs, a \in VAs : On(g, a) => content'[Page(g, a)] = content[Page(g, a)]
    BY <1>1, <1>3 DEF Inv, TypeOK
  <1>8. PICK at \in {"alloc", "shared"}, n \in Nat :
           /\ Goto(e, at, n)
           /\ at = "shared" => n = 0 /\ NextPage(va) = NULL
           /\ at = "alloc" => n = NextPage(va) /\ NextPage(va) # NULL
    BY <1>1, <1>2, NextPageIs
  <1>9. call'[e].op = "spawn" /\ call'[e].child = c /\ call'[e].at = at /\ call'[e].va = n
         /\ \A f \in Envs : f # e => call'[f] = call[f]
    BY <1>1, <1>8, GotoIs DEF Inv
  <1>10. ActsOn(e, c)
    BY <1>1, <1>6, <1>9 DEF ActsOn, Others
  <1>11. On(c, va)' /\ Page(c, va)' = p /\ \A a \in VAs : a # va => (On(c, a)' <=> On(c, a)) /\ Page(c, a)' = Page(c, a)
    BY <1>2, <1>5, <1>6 DEF On, Page
  <1>12. \A a \in VAs : PermOK(e, a)' /\ PermOK(c, a)'
    <2>1. PermOK(c, va)'
      BY <1>4, <1>5, <1>6, <1>r DEF PermOK
    <2>2. \A a \in VAs : PermOK(e, a)' /\ (a # va => PermOK(c, a)')
      BY <1>1, <1>2, <1>6 DEF PermOK, On
    <2> QED
      BY <2>1, <2>2
  <1>13. \A g \in Envs, a \in VAs : (g = c /\ a = va) \/ pte'[g][a] = pte[g][a] \/ pte'[g][a] = NULL
    BY <1>6
  <1>14. SharedOK'
    BY <1>2, <1>4, <1>13, SharedStep
  <1>15. \A g, h \in Envs, a, b \in VAs : PairOK(g, a, h, b)'
    <2>1. \A h \in Envs, a, b \in VAs : Moving(e, a, h, b) /\ On(e, a)' /\ On(h, b)' => Moving(e, a, h, b)'
      BY <1>1 DEF Moving, Lost
    <2>2. \A h \in Envs, a \in VAs :
             (Copying(e, h, a) \/ Lost(e, h)) /\ Has(e, a, "W")' /\ On(h, a)' => (Copying(e, h, a) \/ Lost(e, h))'
      BY <1>1 DEF Copying, Lost
    <2>3. \A h \in Envs, b \in VAs :
             /\ pte'[c][va] # pte[c][va] /\ ~(h = c /\ b = va)
             /\ On(c, va)' /\ On(h, b)' /\ Page(c, va)' = Page(h, b)
             => PairOK(c, va, h, b)' /\ PairOK(h, b, c, va)'
      <3> SUFFICES ASSUME NEW h \in Envs, NEW b \in VAs, ~(h = c /\ b = va), On(h, b)', Page(c, va)' = Page(h, b)
                   PROVE  FALSE
        OBVIOUS
      <3>1. On(h, b) /\ Page(h, b) = p
        BY <1>6, <1>11 DEF On
      <3> QED
        BY <1>3, <3>1
    <2> QED
      BY <1>2, <1>4, <1>10, <1>13, <2>1, <2>2, <2>3, PairStep
  <1>16. ForkOK(e)'
    BY <1>9 DEF ForkOK
  <1>17. SpawnOK(e)'
    <2>1. \A a \in Private : On(c, a)' => content'[Page(c, a)'] = 0
      BY <1>2, <1>4, <1>7, <1>11
    <2>2. Stack \in VAs /\ Image \subseteq VAs /\ Stack \in Private /\ Private = Data \cup {Stack} /\ Data \subseteq Image
          /\ \A a \in Shared : a \in Nat /\ ~(a < 0)
      BY Addresses DEF Private, Image
    <2>3. On(c, Stack)' /\ \A a \in Image : a = va \/ a < va => On(c, a)'
      BY <1>2, <1>11, <2>2
    <2>4. at = "alloc" => n \in Image \cup {Stack} /\ On(c, Stack)' /\ \A a \in Image : a < n => On(c, a)'
      <3>1. at = "alloc" => n \in Image /\ \A a \in Image : a < n => va # Stack /\ (a = va \/ a < va)
        BY <1>2, <1>8, NextPageIs
      <3> QED
        BY <2>3, <3>1
    <2>5. at = "shared" => (\A a \in Private : On(c, a)') /\ \A a \in Shared : a < n => On(c, a)'
      <3>1. at = "shared" => n = 0 /\ \A a \in Image : va # Stack /\ (a = va \/ a < va)
        BY <1>2, <1>8, NextPageIs
      <3> QED
        BY <2>2, <2>3, <3>1
    <2> QED
      BY <1>9, <2>1, <2>4, <2>5 DEF SpawnOK
  <1>18. /\ \A f \in Envs : f \notin {e, c} => pte'[f] = pte[f] /\ ContentKept(f)
         /\ \A g \in {e, c} : pte'[g][PFTEMP] = pte[g][PFTEMP]
         /\ \A a \in Kept : On(e, a)'
    BY <1>1, <1>2, <1>4, <1>6, <1>7 DEF ContentKept, On
  <1>19. /\ call[e].op # "none" /\ call[e].child = c
         /\ at \in {"child", "self", "alloc", "read", "map", "unmap", "shared"}
    BY <1>1
  <1> QED
    BY <1>1, <1>2, <1>6, <1>7, <1>8, <1>12, <1>14, <1>15, <1>16, <1>17, <1>18, <1>19, CallStep

LEMMA SpawnPageStep ==
  ASSUME Inv, NEW e \in Envs, spawn_page(e) PROVE Inv'
  <1>1. UNCHANGED <<status, handler, fault, during>>
    BY DEF spawn_page
  <1>2. CASE /\ At(e, "spawn", "alloc") /\ Goto(e, "read", call[e].va)
             /\ \E p \in FreePages : sys_page_alloc(e, UTEMP, p, {"W"})
    BY <1>1, <1>2, SpawnAllocStep
  <1>3. CASE /\ At(e, "spawn", "read") /\ Goto(e, "map", call[e].va)
             /\ content' = [content EXCEPT ![Page(e, UTEMP)] = 0] /\ UNCHANGED pte
    <2>1. UNCHANGED <<pte, status, handler, fault, during>>
      BY <1>1, <1>3
    <2> QED
      BY <1>3, <2>1, SpawnReadStep
  <1>4. CASE /\ At(e, "spawn", "map") /\ Goto(e, "unmap", call[e].va) /\ UNCHANGED content
             /\ sys_page_map(e, UTEMP, call[e].child, call[e].va, Rights(call[e].va))
    <2>1. UNCHANGED <<content, status, handler, fault, during>>
      BY <1>1, <1>4
    <2> QED
      BY <1>4, <2>1, SpawnMapStep
  <1>5. CASE /\ At(e, "spawn", "unmap") /\ UNCHANGED content
             /\ sys_page_unmap(e, UTEMP)
             /\ GoNext(e, call[e].va)
    <2>1. UNCHANGED <<content, status, handler, fault, during>>
      BY <1>1, <1>5
    <2> QED
      BY <1>5, <2>1, SpawnUnmapStep
  <1> QED
    BY <1>2, <1>3, <1>4, <1>5 DEF spawn_page

LEMMA CopySharedStep ==
  ASSUME Inv, NEW e \in Envs, copy_shared_pages(e) PROVE Inv'
  <1>n. PICK n : n = call[e].va
    OBVIOUS
  <1>c. PICK c : c = call[e].child
    OBVIOUS
  <1>v. PICK va : va = Least(SharedLeft(e))
    OBVIOUS
  <1>y. PICK y : y = [pa |-> Page(e, va), perm |-> pte[e][va].perm]
    OBVIOUS
  <1>1. /\ status[e] = "LIVE" /\ fault[e].at = "none" /\ call[e].op = "spawn" /\ call[e].at = "shared"
        /\ call[e].va = n /\ call[e].child = c /\ SharedLeft(e) # {}
        /\ Goto(e, "shared", va + 1) /\ OneEntry(c, va, y)
        /\ UNCHANGED <<status, handler, fault, during>> /\ content' = content
    BY <1>n, <1>c, <1>v, <1>y DEF copy_shared_pages, At, Executes, sys_page_map, OneEntry, Page
  <1>2. /\ EachOK(e) /\ (\A a \in VAs : PermOK(e, a)) /\ (\A a \in Kept : On(e, a)) /\ ~On(e, PFTEMP)
        /\ c \in Envs /\ c # e /\ (\A a \in VAs : PermOK(c, a))
        /\ n \in Nat /\ (\A a \in Private : On(c, a)) /\ (\A a \in Shared : a < n => On(c, a))
        /\ \A a \in Private : On(c, a) => content[Page(c, a)] = 0
    <2>1. EachOK(e) /\ (\A a \in VAs : PermOK(e, a)) /\ (\A a \in Kept : On(e, a))
          /\ c \in Envs /\ c # e /\ (\A a \in VAs : PermOK(c, a))
      BY <1>1, CallFacts
    <2> QED
      BY <1>1, <2>1 DEF EachOK, FaultOK, SpawnOK
  <1>3. SharedLeft(e) \in SUBSET Mapped(e, n) /\ \A a \in SharedLeft(e) : Has(e, a, "SHARE")
    BY <1>1 DEF SharedLeft
  <1>4. /\ va \in VAs /\ va \in Nat /\ On(e, va) /\ va >= n /\ Has(e, va, "SHARE") /\ \A a \in SharedLeft(e) : va <= a
    BY <1>1, <1>2, <1>3, <1>v, MappedIs DEF Inv
  <1>5. va \in Shared /\ pte[e][va].perm = {"W", "SHARE"}
    <2>1. PermOK(e, va)
      BY <1>2, <1>4
    <2>2. va \notin Text /\ va \notin Private \cup {UTEMP} /\ va # PFTEMP
      BY <1>4, <2>1 DEF PermOK, Has
    <2>3. va \in Shared
      BY <1>4, <2>2, Addresses DEF Kept
    <2> QED
      BY <1>4, <2>1, <2>3 DEF PermOK
  <1>6. /\ va \notin Private /\ va \notin Text /\ va \notin {UTEMP, PFTEMP} /\ PFTEMP \in VAs
        /\ Private \subseteq VAs /\ Shared \subseteq VAs /\ Page(e, va) \in Pages
    BY <1>4, <1>5, Types, Addresses DEF Inv, Kept
  <1>7. y \in Pte /\ y # NULL /\ y.pa = Page(e, va) /\ y.perm = {"W", "SHARE"}
    <2>1. y \in Pte
      BY <1>y, <1>5, <1>6 DEF Pte, Perms
    <2> QED
      BY <2>1, <1>y, <1>5 DEF Pte, Perms
  <1>8. /\ pte' \in [Envs -> [VAs -> Pte \cup {NULL}]] /\ pte'[c][va] = y
        /\ \A g \in Envs, a \in VAs : ~(g = c /\ a = va) => pte'[g][a] = pte[g][a]
        /\ \A g \in Envs : g # c => pte'[g] = pte[g]
    <2>1. y \in Pte \cup {NULL} /\ TypeOK /\ OneEntry(c, va, y) /\ c \in Envs /\ va \in VAs
      BY <1>1, <1>2, <1>4, <1>7 DEF Inv
    <2> QED
      BY <2>1, EntryIs
  <1>m. PICK m \in Nat : m = va + 1
    BY <1>4
  <1>9. call'[e].op = "spawn" /\ call'[e].child = c /\ call'[e].at = "shared" /\ call'[e].va = m
         /\ \A f \in Envs : f # e => call'[f] = call[f]
    <2>1. Goto(e, "shared", m) /\ TypeOK
      BY <1>1, <1>m DEF Inv
    <2>2. /\ call'[e].op = call[e].op /\ call'[e].child = call[e].child /\ call'[e].at = "shared" /\ call'[e].va = m
          /\ \A f \in Envs : f # e => call'[f] = call[f]
      BY ZenonT(40), <2>1, GotoIs
    <2> QED
      BY <1>1, <2>2
  <1>10. ActsOn(e, c)
    BY <1>1, <1>8, <1>9 DEF ActsOn, Others
  <1>11. On(c, va)' /\ Page(c, va)' = Page(e, va) /\ \A a \in VAs : a # va => (On(c, a)' <=> On(c, a)) /\ Page(c, a)' = Page(c, a)
    BY <1>2, <1>7, <1>8 DEF On, Page
  <1>12. \A a \in VAs : PermOK(e, a)' /\ PermOK(c, a)'
    <2>1. PermOK(c, va)'
      BY <1>6, <1>7, <1>8 DEF PermOK
    <2>2. \A a \in VAs : PermOK(e, a)' /\ (a # va => PermOK(c, a)')
      BY <1>1, <1>2, <1>8 DEF PermOK, On
    <2> QED
      BY <2>1, <2>2
  <1>13. \A g \in Envs, a \in VAs : (g = c /\ a = va) \/ pte'[g][a] = pte[g][a] \/ pte'[g][a] = NULL
    BY <1>8
  <1>14. SharedOK'
    <2>1. \E g \in Envs : On(g, va) /\ Page(c, va)' = Page(g, va)
      BY <1>4, <1>11
    <2> QED
      BY <1>2, <1>4, <1>13, <2>1, SharedStep
  <1>15. \A g, h \in Envs, a, b \in VAs : PairOK(g, a, h, b)'
    <2>1. \A h \in Envs, a, b \in VAs : Moving(e, a, h, b) /\ On(e, a)' /\ On(h, b)' => Moving(e, a, h, b)'
      BY <1>1 DEF Moving, Lost
    <2>2. \A h \in Envs, a \in VAs :
             (Copying(e, h, a) \/ Lost(e, h)) /\ Has(e, a, "W")' /\ On(h, a)' => (Copying(e, h, a) \/ Lost(e, h))'
      BY <1>1 DEF Copying, Lost
    <2>3. \A h \in Envs, b \in VAs :
             /\ pte'[c][va] # pte[c][va] /\ ~(h = c /\ b = va)
             /\ On(c, va)' /\ On(h, b)' /\ Page(c, va)' = Page(h, b)
             => PairOK(c, va, h, b)' /\ PairOK(h, b, c, va)'
      <3> SUFFICES ASSUME NEW h \in Envs, NEW b \in VAs, ~(h = c /\ b = va), On(h, b)', Page(c, va)' = Page(h, b)
                   PROVE  PairOK(c, va, h, b)' /\ PairOK(h, b, c, va)'
        OBVIOUS
      <3>1. pte'[h][b] = pte[h][b] /\ On(h, b)
        BY <1>8 DEF On
      <3>2. Page(h, b) = Page(e, va)
        BY <1>11
      <3>3. b = va /\ (h # e /\ Has(h, va, "W") => Has(h, va, "SHARE"))
        <4>1. fault[e].at # "unmap" /\ (call[e].op = "spawn" => call[e].at # "unmap")
          BY <1>1
        <4>2. status[e] = "LIVE" /\ va \in VAs /\ On(e, va) /\ On(h, b)
          BY <1>1, <1>4, <3>1
        <4> QED
          BY <3>2, <4>1, <4>2, SameAddress
      <3>4. Has(c, va, "SHARE")'
        BY <1>7, <1>8 DEF Has
      <3>5. (Has(h, va, "W") => Has(h, va, "SHARE"))'
        BY <1>4, <3>1, <3>3 DEF Has
      <3> QED
        BY <3>3, <3>4, <3>5 DEF PairOK
    <2> QED
      BY <1>2, <1>4, <1>10, <1>13, <2>1, <2>2, <2>3, PairStep
  <1>16. ForkOK(e)'
    BY <1>9 DEF ForkOK
  <1>17. SpawnOK(e)'
    <2>1. \A a \in Private : On(c, a)' /\ content'[Page(c, a)'] = 0
      BY <1>1, <1>2, <1>6, <1>11
    <2>2. \A a \in Shared : a < m => On(c, a)'
      <3> SUFFICES ASSUME NEW a \in Shared, a < m PROVE On(c, a)'
        OBVIOUS
      <3>1. a \in VAs /\ a \in Nat /\ On(e, a) /\ Has(e, a, "SHARE")
        BY <1>2, Addresses DEF Kept, PermOK, Has, On
      <3>2. a >= n => a \in SharedLeft(e)
        BY <1>1, <3>1 DEF SharedLeft, Mapped, On
      <3>3. a = va \/ a < n
        BY <1>2, <1>4, <1>m, <3>1, <3>2
      <3> QED
        BY <1>2, <1>11, <3>1, <3>3
    <2> QED
      BY <1>9, <2>1, <2>2 DEF SpawnOK
  <1>18. /\ \A f \in Envs : f \notin {e, c} => pte'[f] = pte[f] /\ ContentKept(f)
         /\ \A g \in {e, c} : pte'[g][PFTEMP] = pte[g][PFTEMP]
         /\ \A a \in Kept : On(e, a)'
    BY <1>1, <1>2, <1>6, <1>8 DEF ContentKept, On
  <1>19. call[e].op # "none" /\ call[e].child = c /\ content' \in [Pages -> Values] /\ Goto(e, "shared", m)
    BY <1>1, <1>m DEF Inv, TypeOK
  <1> QED
    BY <1>1, <1>2, <1>8, <1>12, <1>14, <1>15, <1>16, <1>17, <1>18, <1>19, CallStep

\* A step of e that empties x, a child or itself, and ends what e was doing.
LEMMA GoneStep ==
  ASSUME Inv, NEW e \in Envs, NEW c \in Envs, NEW x \in {e, c}, ActsOn(e, c), Gone(x), content' = content,
         call' = [call EXCEPT ![e] = NoCall], fault' \in [Envs -> FaultType], during' \in [Envs -> [Private -> SUBSET Values]],
         \A h \in Envs, a, b \in VAs : Moving(e, a, h, b) /\ On(e, a)' /\ On(h, b)' => Moving(e, a, h, b)',
         \A h \in Envs, a \in VAs :
            (Copying(e, h, a) \/ Lost(e, h)) /\ Has(e, a, "W")' /\ On(h, a)' => (Copying(e, h, a) \/ Lost(e, h))',
         EachOK(e)', EachOK(c)', \A a \in VAs : PermOK(e, a) /\ PermOK(c, a)
  PROVE  Inv'
  <1>1. /\ status' = [status EXCEPT ![x] = "FREE"] /\ pte' = [pte EXCEPT ![x] = Empty]
        /\ handler' = [handler EXCEPT ![x] = FALSE]
    BY DEF Gone
  <1>2. Empty \in [VAs -> Pte \cup {NULL}] /\ \A a \in VAs : Empty[a] = NULL
    BY DEF Empty
  <1>3. /\ pte' \in [Envs -> [VAs -> Pte \cup {NULL}]] /\ \A a \in VAs : pte'[x][a] = NULL
        /\ \A g \in Envs : g # x => pte'[g] = pte[g] /\ handler'[g] = handler[g]
    BY <1>1, <1>2 DEF Inv, TypeOK
  <1>4. TypeOK'
    <2>1. call' \in [Envs -> CallType]
      BY Types, None DEF Inv
    <2> QED
      BY <1>1, <1>3, <2>1 DEF Inv, TypeOK, CallType, FaultType
  <1>5. \A a \in VAs : PermOK(e, a)' /\ PermOK(c, a)'
    <2>1. \A a \in VAs : PermOK(x, a)'
      BY <1>3 DEF PermOK, On
    <2>2. \A g \in {e, c}, a \in VAs : g # x => PermOK(g, a)'
      BY <1>3 DEF PermOK, On
    <2> QED
      BY <2>1, <2>2
  <1>6. UTEMP \in VAs /\ ~On(x, UTEMP)' /\ x \in Envs
    BY <1>3, Addresses DEF On
  <1>7. \A g \in Envs, a \in VAs : (g = x /\ a = UTEMP) \/ pte'[g][a] = pte[g][a] \/ pte'[g][a] = NULL
    BY <1>3
  <1>8. SharedOK'
    BY <1>6, <1>7, SharedStep
  <1>9. \A g, h \in Envs, a, b \in VAs : PairOK(g, a, h, b)'
    <2>1. \A h \in Envs, b \in VAs :
             /\ pte'[x][UTEMP] # pte[x][UTEMP] /\ ~(h = x /\ b = UTEMP)
             /\ On(x, UTEMP)' /\ On(h, b)' /\ Page(x, UTEMP)' = Page(h, b)
             => PairOK(x, UTEMP, h, b)' /\ PairOK(h, b, x, UTEMP)'
      BY <1>6
    <2> QED
      BY <1>6, <1>7, <2>1, PairStep
  <1>10. \A f \in Envs : f \notin {e, c} => ContentKept(f)
    BY DEF ContentKept
  <1> QED
    BY <1>4, <1>5, <1>8, <1>9, <1>10, StepFrame

LEMMA SpawnFailsStep ==
  ASSUME Inv, NEW e \in Envs, spawn_fails(e) PROVE Inv'
  <1>c. PICK c : c = call[e].child
    OBVIOUS
  <1>1. /\ status[e] = "LIVE" /\ fault[e].at = "none" /\ call[e].op = "spawn" /\ call[e].at \in {"alloc", "read"}
        /\ call[e].child = c /\ call' = [call EXCEPT ![e] = NoCall]
        /\ fault' = fault /\ during' = during /\ content' = content
    BY <1>c DEF spawn_fails, At, Executes
  <1>2. /\ EachOK(e) /\ (\A a \in VAs : PermOK(e, a)) /\ (\A a \in Kept : On(e, a)) /\ ~On(e, PFTEMP)
        /\ c \in Envs /\ c # e /\ (\A a \in VAs : PermOK(c, a)) /\ status[c] = "CHILD"
        /\ call[c] = NoCall /\ fault[c] = NoFault /\ during[c] = NoHistory /\ during[e] = NoHistory
    <2>1. EachOK(e) /\ (\A a \in VAs : PermOK(e, a)) /\ (\A a \in Kept : On(e, a))
          /\ c \in Envs /\ c # e /\ (\A a \in VAs : PermOK(c, a)) /\ status[c] = "CHILD"
          /\ call[c] = NoCall /\ fault[c] = NoFault /\ during[c] = NoHistory
      BY <1>1, CallFacts
    <2> QED
      BY <1>1, <2>1 DEF EachOK, FaultOK, StatusOK
  <1>3. call'[e] = NoCall /\ call'[e].op = "none" /\ call' \in [Envs -> CallType] /\ \A f \in Envs : f # e => call'[f] = call[f]
    BY <1>1, Types, None DEF Inv
  <1>4. fault' \in [Envs -> FaultType] /\ during' \in [Envs -> [Private -> SUBSET Values]]
    BY <1>1, Types DEF Inv, TypeOK
  <1>5. \A h \in Envs, a, b \in VAs : ~Moving(e, a, h, b) /\ ~Copying(e, h, a) /\ ~Lost(e, h)
    BY <1>1 DEF Moving, Copying, Lost
  <1>6. ASSUME status'[e] = "LIVE", pte'[e] = pte[e] PROVE EachOK(e)'
    <2>1. StatusOK(e)'
      BY <1>1, <1>2, <1>3, <1>6, None DEF StatusOK
    <2>2. FaultOK(e)' /\ LiveOK(e)' /\ ForkOK(e)' /\ SpawnOK(e)'
      BY <1>1, <1>2, <1>3, <1>6 DEF FaultOK, LiveOK, ForkOK, SpawnOK, On
    <2> QED
      BY <2>1, <2>2 DEF EachOK
  <1>7. PFTEMP \in VAs
    BY Addresses
  <1>8. CASE UNCHANGED <<status, pte, handler>>
    <2>1. ActsOn(e, c)
      BY <1>1, <1>2, <1>3, <1>8 DEF ActsOn, Others
    <2>2. TypeOK'
      BY <1>1, <1>3, <1>8 DEF Inv, TypeOK, CallType
    <2>3. \A a \in VAs : PermOK(e, a)' /\ PermOK(c, a)'
      BY <1>2, <1>8 DEF PermOK, On
    <2>4. (\A g, h \in Envs, a, b \in VAs : PairOK(g, a, h, b)') /\ SharedOK'
      <3>1. \A h \in Envs, a, b \in VAs : Moving(e, a, h, b) /\ On(e, a) => Moving(e, a, h, b)'
        BY <1>5
      <3>2. \A h \in Envs, a \in VAs : (Copying(e, h, a) \/ Lost(e, h)) /\ On(h, a) => (Copying(e, h, a) \/ Lost(e, h))'
        BY <1>5, <1>7
      <3> QED
        BY <1>2, <1>8, <2>1, <3>1, <3>2, PairsSame
    <2>5. EachOK(e)'
      BY <1>1, <1>6, <1>8
    <2>6. EachOK(c)'
      <3>1. ~On(c, PFTEMP)
        BY <1>1, CallFacts, None DEF EachOK, FaultOK
      <3> QED
        BY <1>1, <1>2, <1>3, <1>8, <3>1, IdleEach DEF On
    <2>7. \A f \in Envs : f \notin {e, c} => ContentKept(f)
      BY <1>1 DEF ContentKept
    <2> QED
      BY <1>2, <2>1, <2>2, <2>3, <2>4, <2>5, <2>6, <2>7, StepFrame
  <1>9. CASE Gone(c)
    <2>1. /\ status'[c] = "FREE" /\ (\A a \in VAs : ~On(c, a)')
          /\ \A f \in Envs : f # c => status'[f] = status[f] /\ pte'[f] = pte[f] /\ handler'[f] = handler[f]
      BY <1>2, <1>9 DEF Gone, Empty, On, Inv, TypeOK
    <2>2. ActsOn(e, c)
      BY <1>1, <1>2, <1>3, <2>1 DEF ActsOn, Others
    <2>3. EachOK(e)'
      BY <1>1, <1>2, <1>6, <2>1
    <2>4. EachOK(c)'
      BY <1>1, <1>2, <1>3, <1>7, <2>1, IdleEach
    <2>5. \A h \in Envs, a, b \in VAs : Moving(e, a, h, b) /\ On(e, a)' /\ On(h, b)' => Moving(e, a, h, b)'
      BY <1>5
    <2>6. \A h \in Envs, a \in VAs :
            (Copying(e, h, a) \/ Lost(e, h)) /\ Has(e, a, "W")' /\ On(h, a)' => (Copying(e, h, a) \/ Lost(e, h))'
      BY <1>5, <1>7
    <2>7. c \in {e, c}
      OBVIOUS
    <2> QED
      BY <1>1, <1>2, <1>4, <1>9, <2>2, <2>3, <2>4, <2>5, <2>6, <2>7, GoneStep
  <1> QED
    BY <1>8, <1>9, <1>c DEF spawn_fails

LEMMA DestroyStep ==
  ASSUME Inv, NEW e \in Envs, env_destroy(e) PROVE Inv'
  <1>1. /\ status[e] \in {"LIVE", "PANIC"} /\ Gone(e) /\ content' = content
        /\ call' = [call EXCEPT ![e] = NoCall] /\ fault' = [fault EXCEPT ![e] = NoFault]
        /\ during' = [during EXCEPT ![e] = NoHistory]
    BY DEF env_destroy
  <1>2. EachOK(e) /\ \A a \in VAs : PermOK(e, a)
    BY DEF Inv
  <1>3. PICK c \in Envs : c = IF call[e].op = "none" THEN e ELSE call[e].child
    BY <1>2 DEF EachOK, StatusOK
  <1>4. /\ call'[e] = NoCall /\ call'[e].op = "none" /\ \A f \in Envs : f # e => call'[f] = call[f]
        /\ fault'[e] = NoFault /\ \A f \in Envs : f # e => fault'[f] = fault[f]
        /\ fault' \in [Envs -> FaultType]
    BY <1>1, Types, None DEF Inv
  <1>5. /\ during'[e] = NoHistory /\ (\A f \in Envs : f # e => during'[f] = during[f])
        /\ during' \in [Envs -> [Private -> SUBSET Values]]
    <2>1. NoHistory \in [Private -> SUBSET Values]
      BY DEF NoHistory
    <2> QED
      BY <1>1, <2>1 DEF Inv, TypeOK
  <1>6. /\ status'[e] = "FREE" /\ (\A a \in VAs : ~On(e, a)')
        /\ \A f \in Envs : f # e => status'[f] = status[f] /\ pte'[f] = pte[f] /\ handler'[f] = handler[f]
    BY <1>1 DEF Gone, Empty, On, Inv, TypeOK
  <1>7. ActsOn(e, c)
    BY <1>1, <1>3, <1>4, <1>5, <1>6 DEF ActsOn, Others
  <1>8. PFTEMP \in VAs
    BY Addresses
  <1>9. EachOK(e)'
    BY <1>4, <1>5, <1>6, <1>8, IdleEach
  <1>10. EachOK(c)' /\ \A a \in VAs : PermOK(c, a)
    <2> SUFFICES ASSUME c # e PROVE EachOK(c)' /\ \A a \in VAs : PermOK(c, a)
      BY <1>2, <1>9
    <2>1. status[e] = "LIVE" /\ call[e].op # "none" /\ call[e].child = c
      BY <1>1, <1>2, <1>3, None DEF EachOK, StatusOK
    <2>2. /\ status[c] = "CHILD" /\ call[c] = NoCall /\ fault[c] = NoFault /\ during[c] = NoHistory /\ EachOK(c)
          /\ \A a \in VAs : PermOK(c, a)
      BY <2>1, CallFacts
    <2>3. ~On(c, PFTEMP)
      BY <2>2, None DEF EachOK, FaultOK
    <2> QED
      BY <1>4, <1>5, <1>6, <2>2, <2>3, IdleEach DEF On
  <1>11. \A h \in Envs, a, b \in VAs : Moving(e, a, h, b) /\ On(e, a)' /\ On(h, b)' => Moving(e, a, h, b)'
    BY <1>6
  <1>12. \A h \in Envs, a \in VAs :
            (Copying(e, h, a) \/ Lost(e, h)) /\ Has(e, a, "W")' /\ On(h, a)' => (Copying(e, h, a) \/ Lost(e, h))'
    BY <1>6 DEF Has, On
  <1>13. e \in {e, c}
    OBVIOUS
  <1> QED
    BY <1>1, <1>2, <1>4, <1>5, <1>7, <1>9, <1>10, <1>11, <1>12, <1>13, GoneStep

-----------------------------------------------------------------------------
(***************************************************************************)
(* The theorems.                                                           *)
(***************************************************************************)
LEMMA InvInit == Init => Inv
  <1> SUFFICES ASSUME Init PROVE Inv
    OBVIOUS
  <1>1. /\ status = [e \in Envs |-> IF e = Root THEN "LIVE" ELSE "FREE"] /\ content = [p \in Pages |-> 0]
        /\ handler = [e \in Envs |-> FALSE] /\ call = [e \in Envs |-> NoCall] /\ fault = [e \in Envs |-> NoFault]
        /\ during = [e \in Envs |-> NoHistory]
    BY DEF Init
  <1>2. PICK at \in [User -> Pages] :
           /\ \A a, b \in User : at[a] = at[b] => a = b
           /\ pte = [e \in Envs |-> [va \in VAs |->
                       IF e = Root /\ va \in User
                       THEN [pa |-> at[va], perm |-> IF va \in Text THEN {} ELSE
                                                     IF va \in Shared THEN {"W", "SHARE"} ELSE {"W"}]
                       ELSE NULL]]
    BY DEF Init
  <1>3. /\ \A e \in Envs, va \in VAs : ~(e = Root /\ va \in User) => ~On(e, va)
        /\ \A va \in User : /\ pte[Root][va] \in Pte /\ On(Root, va) /\ Page(Root, va) = at[va]
                            /\ pte[Root][va].perm = IF va \in Text THEN {} ELSE
                                                    IF va \in Shared THEN {"W", "SHARE"} ELSE {"W"}
    <2>1. ASSUME NEW va \in User PROVE /\ pte[Root][va] \in Pte /\ On(Root, va) /\ Page(Root, va) = at[va]
                                       /\ pte[Root][va].perm = IF va \in Text THEN {} ELSE
                                                    IF va \in Shared THEN {"W", "SHARE"} ELSE {"W"}
      <3>1. PICK y : y = pte[Root][va]
        OBVIOUS
      <3>2. y = [pa |-> at[va], perm |-> IF va \in Text THEN {} ELSE
                                         IF va \in Shared THEN {"W", "SHARE"} ELSE {"W"}]
        BY <1>2, <3>1 DEF VAs
      <3>3. y \in Pte
        BY <3>2 DEF Pte, Perms
      <3>4. y # NULL
        BY <3>3 DEF Pte, Perms
      <3> QED
        BY <3>1, <3>2, <3>3, <3>4 DEF On, Page
    <2>2. \A e \in Envs, va \in VAs : ~(e = Root /\ va \in User) => ~On(e, va)
      BY <1>2 DEF On
    <2> QED
      BY <2>1, <2>2
  <1>4. TypeOK
    <2>1. pte \in [Envs -> [VAs -> Pte \cup {NULL}]]
      <3> DEFINE T(e) == [va \in VAs |->
                       IF e = Root /\ va \in User
                       THEN [pa |-> at[va], perm |-> IF va \in Text THEN {} ELSE
                                                     IF va \in Shared THEN {"W", "SHARE"} ELSE {"W"}]
                       ELSE NULL]
      <3>1. ASSUME NEW e \in Envs PROVE T(e) \in [VAs -> Pte \cup {NULL}]
        <4>1. \A va \in VAs : e = Root /\ va \in User =>
                 [pa |-> at[va], perm |-> IF va \in Text THEN {} ELSE
                                          IF va \in Shared THEN {"W", "SHARE"} ELSE {"W"}] \in Pte
          BY DEF Pte, Perms
        <4> QED
          BY <4>1
      <3>2. pte = [e \in Envs |-> T(e)]
        BY <1>2
      <3> HIDE DEF T
      <3> QED
        BY <3>1, <3>2
    <2>2. call \in [Envs -> CallType] /\ fault \in [Envs -> FaultType] /\ NoHistory \in [Private -> SUBSET Values]
      BY <1>1, None DEF NoHistory
    <2> QED
      BY <1>1, <2>1, <2>2 DEF TypeOK, CallType, FaultType
  <1>5. SharedOK
    BY <1>3, Addresses DEF SharedOK
  <1>6. ASSUME NEW e \in Envs PROVE EachOK(e)
    <2>1. \A va \in Kept : va \in User /\ va \in VAs
      BY DEF Kept, User, VAs
    <2>2. PFTEMP \in VAs /\ ~(e = Root /\ PFTEMP \in User)
      BY DEF VAs
    <2> QED
      BY <1>1, <1>3, <2>1, <2>2, None DEF EachOK, StatusOK, FaultOK, LiveOK, ForkOK, SpawnOK
  <1>7. ASSUME NEW e \in Envs, NEW va \in VAs PROVE PermOK(e, va)
    <2>1. va \in User => ~(va \in {UTEMP, PFTEMP}) /\ (va \in Private => va \notin Shared /\ va \notin Text)
      OBVIOUS
    <2> QED
      BY <1>3, <2>1 DEF PermOK
  <1>8. \A e, f \in Envs, va, vb \in VAs : PairOK(e, va, f, vb)
    <2> SUFFICES ASSUME NEW e \in Envs, NEW f \in Envs, NEW va \in VAs, NEW vb \in VAs,
                        On(e, va), On(f, vb), Page(e, va) = Page(f, vb)
                 PROVE  e = f /\ va = vb
      BY DEF PairOK
    <2>1. e = Root /\ f = Root /\ va \in User /\ vb \in User
      BY <1>3
    <2> QED
      BY <1>2, <1>3, <2>1
  <1> QED
    BY <1>4, <1>5, <1>6, <1>7, <1>8 DEF Inv

LEMMA InvStutter == Inv /\ UNCHANGED vars => Inv'
  <1> SUFFICES ASSUME Inv, UNCHANGED vars PROVE Inv'
    OBVIOUS
  <1>1. /\ status' = status /\ pte' = pte /\ content' = content /\ handler' = handler /\ call' = call
        /\ fault' = fault /\ during' = during
    BY DEF vars
  <1>2. TypeOK' /\ SharedOK'
    BY <1>1 DEF Inv, TypeOK, SharedOK, On, Page
  <1>3. \A e \in Envs : EachOK(e)' /\ \A va \in VAs : PermOK(e, va)'
    <2> SUFFICES ASSUME NEW e \in Envs PROVE EachOK(e)' /\ \A va \in VAs : PermOK(e, va)'
      OBVIOUS
    <2>1. EachOK(e) /\ \A va \in VAs : PermOK(e, va)
      BY DEF Inv
    <2>2. StatusOK(e)' /\ FaultOK(e)' /\ LiveOK(e)'
      BY <1>1, <2>1 DEF EachOK, StatusOK, FaultOK, LiveOK, On, Page
    <2>3. ForkOK(e)' /\ SpawnOK(e)'
      BY <1>1, <2>1 DEF EachOK, ForkOK, SpawnOK, On, Page
    <2>4. \A va \in VAs : PermOK(e, va)'
      BY <1>1, <2>1 DEF PermOK, On
    <2> QED
      BY <2>2, <2>3, <2>4 DEF EachOK
  <1>4. \A e, f \in Envs, va, vb \in VAs : PairOK(e, va, f, vb)'
    <2> SUFFICES ASSUME NEW e \in Envs, NEW f \in Envs, NEW va \in VAs, NEW vb \in VAs PROVE PairOK(e, va, f, vb)'
      OBVIOUS
    <2>1. PairOK(e, va, f, vb)
      BY DEF Inv
    <2> QED
      BY <1>1, <2>1 DEF PairOK, Moving, Copying, Lost, Orphan, On, Page, Has
  <1> QED
    BY <1>2, <1>3, <1>4 DEF Inv

LEMMA Invariance == Spec => []Inv
  <1>1. Inv /\ [Next]_vars => Inv'
    <2>1. ASSUME Inv, NEW e \in Envs,
                 \/ \E va \in VAs, v \in Values : store(e, va, v)
                 \/ pgfault(e) \/ pgfault_panics(e)
                 \/ \E c \in Envs : fork(e, c) \/ spawn(e, c)
                 \/ child_exstack(e) \/ fork_panics(e) \/ duppage(e) \/ duppage_self(e) \/ fork_done(e)
                 \/ spawn_blank(e) \/ spawn_page(e) \/ copy_shared_pages(e) \/ spawn_done(e) \/ spawn_fails(e)
                 \/ env_destroy(e)
          PROVE  Inv'
      BY <2>1, StoreStep, PgfaultStep, PanicsStep, ForkStep, SpawnStep, ExstackStep, DuppageStep, DuppageSelfStep,
         ForkDoneStep, SpawnBlankStep, SpawnPageStep, CopySharedStep, SpawnDoneStep, SpawnFailsStep, DestroyStep
    <2>2. ASSUME Inv, Next PROVE Inv'
      BY <2>1, <2>2 DEF Next
    <2> QED
      BY <2>2, InvStutter
  <1> QED
    BY <1>1, InvInit, PTL DEF Spec

\* The variables have their types: in particular fork and spawn map only pages
\* they hold, with the permissions the system calls allow (fork.c, spawn.c).
THEOREM TypeCorrect == Spec => []TypeOK
  <1>1. Inv => TypeOK
    BY DEF Inv
  <1> QED
    BY <1>1, Invariance, PTL

\* Copy-on-write never leaves a page that one program may write mapped by another
\* one, whatever the faults, stores, forks, failures and deaths between any two
\* system calls of fork and spawn (fork.c:39-49, 63-88, spawn.c:261-268).
THEOREM CopyOnWriteIsolates == Spec => []NoWritableAlias
  <1>1. Inv => NoWritableAlias
    <2> SUFFICES ASSUME Inv, NEW e \in Running, NEW f \in Running, NEW va \in VAs, NEW vb \in VAs,
                        e # f, Has(e, va, "W"), ~Has(e, va, "SHARE"), pte[f][vb] # NULL, Page(f, vb) = Page(e, va)
                 PROVE  FALSE
      BY DEF NoWritableAlias
    <2>1. e \in Envs /\ f \in Envs /\ status[e] # "CHILD" /\ status[f] # "CHILD" /\ EachOK(e) /\ EachOK(f)
      BY DEF Running, Inv
    <2>2. PairOK(e, va, f, vb) /\ On(e, va) /\ On(f, vb)
      BY <2>1 DEF Inv, On, Has
    <2>3. ~Moving(e, va, f, vb) /\ ~Moving(f, vb, e, va) /\ ~Copying(e, f, va) /\ ~Lost(e, f)
      BY <2>1 DEF Moving, Copying, Lost, Orphan, EachOK, StatusOK
    <2> QED
      BY <2>2, <2>3 DEF PairOK
  <1> QED
    BY <1>1, Invariance, PTL

\* A running program can always serve its next page fault: a copy-on-write page
\* comes with a handler and its exception stack, the program's addresses are
\* mapped, and PFTEMP is free outside the handler (fork.c:39-49, 156, 164-171).
THEOREM FaultsAreServed == Spec => []CanFault
  <1>1. Inv => CowHasHandler
    BY DEF Inv, CowHasHandler, Running, PermOK, Has, On
  <1>2. Inv => TempIsFree
    <2> SUFFICES ASSUME Inv, NEW e \in Envs, status[e] = "LIVE"
                 PROVE  /\ \A va \in Private \cup Shared : pte[e][va] # NULL
                        /\ pte[e][PFTEMP] # NULL => fault[e].at # "none"
      BY DEF TempIsFree
    <2> QED
      BY DEF Inv, EachOK, LiveOK, FaultOK, Kept, On
  <1> QED
    BY <1>1, <1>2, Invariance, PTL DEF CanFault

-----------------------------------------------------------------------------
(***************************************************************************)
(* fork and spawn implement ForkMemory.                                    *)
(***************************************************************************)
Memory     == [e \in Envs |-> [va \in Private |-> IF e \in Running THEN content[Page(e, va)] ELSE 0]]
SharedPart == [va \in Shared |-> IF Running = {} THEN 0 ELSE content[Page(CHOOSE e \in Running : TRUE, va)]]

\* The step lets each program see at its addresses what it saw before.
SameView == \A g \in Running, a \in Kept : content'[Page(g, a)'] = content[Page(g, a)]

\* Every program sees the shared part.
LEMMA SharedSeen ==
  ASSUME Inv, NEW e \in Running, NEW va \in Shared PROVE SharedPart[va] = content[Page(e, va)]
  <1>1. PICK f : f = CHOOSE g \in Running : TRUE
    OBVIOUS
  <1>2. f \in Running
    BY <1>1
  <1>3. On(f, va) /\ On(e, va) /\ e \in Envs /\ f \in Envs
    BY <1>2 DEF Inv, EachOK, LiveOK, Running, Kept
  <1>4. Page(e, va) = Page(f, va)
    BY <1>3 DEF Inv, SharedOK
  <1> QED
    BY <1>1, <1>4 DEF SharedPart

LEMMA SharedSeenNext ==
  ASSUME Inv', NEW e \in Running', NEW va \in Shared PROVE SharedPart'[va] = content'[Page(e, va)']
  <1>1. PICK f : f = CHOOSE g \in Running' : TRUE
    OBVIOUS
  <1>2. f \in Running'
    BY <1>1
  <1>3. On(f, va)' /\ On(e, va)' /\ e \in Envs /\ f \in Envs
    BY <1>2 DEF Inv, EachOK, LiveOK, Running, Kept
  <1>4. Page(e, va)' = Page(f, va)'
    BY <1>3 DEF Inv, SharedOK
  <1> QED
    BY <1>1, <1>4 DEF SharedPart

LEMMA SharedSame ==
  ASSUME Inv, Inv', NEW e \in Running, e \in Running', \A a \in Shared : content'[Page(e, a)'] = content[Page(e, a)]
  PROVE  SharedPart' = SharedPart
  <1>1. \A a \in Shared : SharedPart'[a] = SharedPart[a]
    BY SharedSeen, SharedSeenNext
  <1> QED
    BY <1>1 DEF SharedPart

LEMMA MemorySame ==
  ASSUME Running' = Running, SameView PROVE Memory' = Memory
  BY DEF Memory, SameView, Kept

\* The steps of ForkMemory.
LEMMA RefineStutter ==
  ASSUME Inv, Inv', NEW e \in Running, Running' = Running, SameView, during' = during
  PROVE  [Memories!Next]_(Memories!mVars)
  <1>1. Memory' = Memory /\ SharedPart' = SharedPart
    BY MemorySame, SharedSame DEF SameView, Kept
  <1> QED
    BY <1>1 DEF Memories!mVars, Memory, SharedPart

LEMMA RefineStore ==
  ASSUME NEW e \in Running, NEW va \in Private \cup Shared, NEW v \in Values, Running' = Running,
         \/ /\ va \in Private /\ Memory' = [Memory EXCEPT ![e][va] = v]
            /\ during' = IF during[e][va] = {} THEN during ELSE [during EXCEPT ![e][va] = @ \cup {v}]
            /\ SharedPart' = SharedPart
         \/ va \in Shared /\ SharedPart' = [SharedPart EXCEPT ![va] = v] /\ Memory' = Memory /\ during' = during
  PROVE  Memories!Next
  <1>1. Memories!Store(e, va, v)
    BY DEF Memories!Store, Memory, SharedPart
  <1> QED
    BY <1>1 DEF Memories!Next, Running

LEMMA RefineBeginFork ==
  ASSUME NEW e \in Running, during' = [during EXCEPT ![e] = [va \in Private |-> {Memory[e][va]}]],
         Running' = Running, Memory' = Memory, SharedPart' = SharedPart
  PROVE  Memories!Next
  <1>1. Memories!BeginFork(e)
    BY DEF Memories!BeginFork, Memory, SharedPart
  <1> QED
    BY <1>1 DEF Memories!Next, Running

LEMMA RefineGiveUp ==
  ASSUME NEW e \in Envs, during' = [during EXCEPT ![e] = NoHistory],
         Running' = Running, Memory' = Memory, SharedPart' = SharedPart
  PROVE  Memories!Next
  <1>1. Memories!GiveUp(e)
    BY DEF Memories!GiveUp, Memory, SharedPart, NoHistory
  <1> QED
    BY <1>1 DEF Memories!Next

LEMMA RefineEndFork ==
  ASSUME NEW e \in Running, NEW c \in Envs, c \notin Running, Running' = Running \cup {c},
         \A va \in Private : Memory'[c][va] \in during[e][va], Memory' = [Memory EXCEPT ![c] = Memory'[c]],
         during' = [during EXCEPT ![e] = NoHistory], SharedPart' = SharedPart
  PROVE  Memories!Next
  <1>1. Memories!EndFork(e, c)
    BY DEF Memories!EndFork, Memory, SharedPart, NoHistory
  <1> QED
    BY <1>1 DEF Memories!Next, Running

LEMMA RefineSpawn ==
  ASSUME NEW e \in Running, NEW c \in Envs, c \notin Running, Running' = Running \cup {c},
         Memory' = [Memory EXCEPT ![c] = [va \in Private |-> 0]], during' = during, SharedPart' = SharedPart
  PROVE  Memories!Next
  <1>1. Memories!Spawn(c)
    BY DEF Memories!Spawn, Memories!Image, Memory, SharedPart
  <1> QED
    BY <1>1 DEF Memories!Next

LEMMA RefineEnd ==
  ASSUME NEW e \in Running, Running' = Running \ {e}, Memory' = [Memory EXCEPT ![e] = [va \in Private |-> 0]],
         during' = [during EXCEPT ![e] = NoHistory],
         SharedPart' = IF Running' = {} THEN [va \in Shared |-> 0] ELSE SharedPart
  PROVE  Memories!Next
  <1>1. Memories!End(e)
    BY DEF Memories!End, Memories!Image, Memory, SharedPart, NoHistory
  <1> QED
    BY <1>1 DEF Memories!Next, Running

LEMMA StoreRefines ==
  ASSUME Inv, Inv', NEW e \in Envs, NEW va \in VAs, NEW v \in Values, store(e, va, v)
  PROVE  [Memories!Next]_(Memories!mVars)
  <1>1. /\ status[e] = "LIVE" /\ fault[e].at = "none" /\ va \in Kept /\ (va # Stack => call[e].op = "none")
        /\ status' = status /\ pte' = pte /\ handler' = handler /\ call' = call
    BY DEF store, Executes, Kept
  <1>2. e \in Running /\ Running' = Running /\ \A g, a : Page(g, a)' = Page(g, a)
    BY <1>1 DEF Running, Page
  <1>3. CASE fault' # fault
    <2>1. content' = content /\ during' = during
      BY <1>3 DEF store
    <2>2. SameView
      BY <1>2, <2>1 DEF SameView
    <2> QED
      BY <1>2, <2>1, <2>2, RefineStutter
  <1>4. CASE Has(e, va, "W") /\ Stored(e, va, v)
    <2>1. \A h \in Running, b \in VAs : On(h, b) /\ Page(h, b) = Page(e, va) => b = va /\ (va \notin Shared => h = e)
      <3> SUFFICES ASSUME NEW h \in Running, NEW b \in VAs, On(h, b), Page(h, b) = Page(e, va)
                   PROVE  b = va /\ (va \notin Shared => h = e)
        OBVIOUS
      <3>1. h \in Envs /\ status[h] # "CHILD" /\ fault[e].at # "unmap"
        BY <1>1 DEF Running
      <3>2. b = va /\ (h # e /\ va \notin Shared => Copying(e, h, va))
        BY <1>1, <1>4, <3>1, StoreSole
      <3>3. ~Copying(e, h, va)
        BY <1>1, <3>1, CallFacts DEF Copying
      <3> QED
        BY <3>2, <3>3
    <2>2. \A h \in Running, a \in Kept : a \in VAs /\ On(h, a) /\ Page(h, a) \in Pages
      <3> SUFFICES ASSUME NEW h \in Running, NEW a \in Kept PROVE a \in VAs /\ On(h, a) /\ Page(h, a) \in Pages
        OBVIOUS
      <3>1. h \in Envs /\ On(h, a) /\ a \in VAs
        BY Addresses DEF Running, Inv, EachOK, LiveOK
      <3> QED
        BY <3>1, Types DEF Inv
    <2>p. PICK p : p = Page(e, va)
      OBVIOUS
    <2>3. p \in Pages /\ content' = [content EXCEPT ![p] = v] /\ content \in [Pages -> Values]
      BY <1>1, <1>2, <1>4, <2>2, <2>p DEF Stored, Inv, TypeOK
    <2>4. content'[p] = v /\ \A q \in Pages : q # p => content'[q] = content[q]
      BY <2>3
    <2>5. CASE va \in Private
      <3>1. va \notin Shared
        BY <2>5, Addresses
      <3>2. \A h \in Running, a \in Kept : content'[Page(h, a)] = IF h = e /\ a = va THEN v ELSE content[Page(h, a)]
        BY <2>1, <2>2, <2>4, <2>p, <3>1
      <3>3. Memory' = [Memory EXCEPT ![e][va] = v]
        BY <1>2, <2>5, <3>2 DEF Memory, Kept
      <3>4. \A a \in Shared : content'[Page(e, a)'] = content[Page(e, a)]
        BY <1>2, <3>1, <3>2 DEF Kept
      <3>5. SharedPart' = SharedPart
        BY <1>2, <3>4, SharedSame
      <3>6. during' = IF during[e][va] = {} THEN during ELSE [during EXCEPT ![e][va] = @ \cup {v}]
        <4>1. EachOK(e)
          BY DEF Inv
        <4>2. CASE call[e].op = "fork"
          <5>1. during[e][va] # {}
            BY <2>5, <4>1, <4>2 DEF EachOK, ForkOK
          <5> QED
            BY <1>4, <2>5, <4>2, <5>1 DEF Stored
        <4>3. CASE call[e].op # "fork"
          <5>1. during[e][va] = {}
            BY <2>5, <4>1, <4>3 DEF EachOK, StatusOK, NoHistory
          <5> QED
            BY <1>4, <4>3, <5>1 DEF Stored
        <4> QED
          BY <4>2, <4>3
      <3> QED
        BY <1>2, <2>5, <3>3, <3>5, <3>6, RefineStore
    <2>6. CASE va \in Shared
      <3>1. va \notin Private
        BY <2>6, Addresses
      <3>2. \A h \in Running, a \in Kept : a # va => content'[Page(h, a)] = content[Page(h, a)]
        BY <2>1, <2>2, <2>4, <2>p
      <3>3. Memory' = Memory
        BY <1>2, <3>1, <3>2 DEF Memory, Kept
      <3>4. \A a \in Shared : SharedPart'[a] = IF a = va THEN v ELSE SharedPart[a]
        <4> SUFFICES ASSUME NEW a \in Shared PROVE SharedPart'[a] = IF a = va THEN v ELSE SharedPart[a]
          OBVIOUS
        <4>1. SharedPart[a] = content[Page(e, a)] /\ SharedPart'[a] = content'[Page(e, a)]
          BY <1>2, SharedSeen, SharedSeenNext
        <4> QED
          BY <1>2, <2>4, <2>p, <3>2, <4>1 DEF Kept
      <3>5. SharedPart' = [SharedPart EXCEPT ![va] = v]
        <4> DEFINE s == SharedPart
                   t == SharedPart'
        <4>1. s = [a \in Shared |-> s[a]] /\ t = [a \in Shared |-> t[a]]
          BY DEF SharedPart
        <4> HIDE DEF s, t
        <4>2. \A a \in Shared : t[a] = IF a = va THEN v ELSE s[a]
          BY <3>4 DEF s, t
        <4>3. t = [s EXCEPT ![va] = v]
          BY <2>6, <4>1, <4>2
        <4> QED
          BY <4>3 DEF s, t
      <3>6. during' = during
        BY <1>4, <3>1 DEF Stored
      <3> QED
        BY <1>2, <2>6, <3>3, <3>5, <3>6, RefineStore
    <2> QED
      BY <1>1, <2>5, <2>6 DEF Kept
  <1>5. CASE Has(e, va, "COW") /\ UNCHANGED <<content, during>>
    <2>1. SameView
      BY <1>2, <1>5 DEF SameView
    <2> QED
      BY <1>2, <1>5, <2>1, RefineStutter
  <1> QED
    BY <1>4, <1>5 DEF store

LEMMA PgfaultRefines ==
  ASSUME Inv, Inv', NEW e \in Envs, pgfault(e) PROVE [Memories!Next]_(Memories!mVars)
  <1>1. status[e] = "LIVE" /\ status' = status /\ during' = during
    BY DEF pgfault
  <1>2. e \in Running /\ Running' = Running
    BY <1>1 DEF Running
  <1>3. \A h \in Running, a \in Kept : h \in Envs /\ a \in VAs /\ On(h, a) /\ Page(h, a) \in Pages /\ a # PFTEMP
    <2> SUFFICES ASSUME NEW h \in Running, NEW a \in Kept
                 PROVE  h \in Envs /\ a \in VAs /\ On(h, a) /\ Page(h, a) \in Pages /\ a # PFTEMP
      OBVIOUS
    <2>1. h \in Envs /\ On(h, a) /\ a \in VAs /\ a # PFTEMP
      BY Addresses DEF Running, Inv, EachOK, LiveOK
    <2> QED
      BY <2>1, Types DEF Inv
  <1>4. PFTEMP \in VAs /\ TypeOK
    BY Addresses DEF Inv
  <1>5. SameView
    <2> SUFFICES ASSUME NEW h \in Running, NEW a \in Kept PROVE content'[Page(h, a)'] = content[Page(h, a)]
      BY DEF SameView
    <2>1. CASE \E p \in FreePages : sys_page_alloc(e, PFTEMP, p, {"W"})
      <3>1. PICK p \in FreePages : sys_page_alloc(e, PFTEMP, p, {"W"})
        BY <2>1
      <3>2. Page(h, a) # p
        BY <1>3 DEF FreePages, On, Page
      <3>3. Page(h, a)' = Page(h, a)
        BY <1>3, <1>4, <3>1 DEF sys_page_alloc, Page, TypeOK
      <3>4. content' = [content EXCEPT ![p] = 0] /\ content \in [Pages -> Values]
        BY <1>4, <3>1 DEF sys_page_alloc, TypeOK
      <3> QED
        BY <1>3, <3>2, <3>3, <3>4
    <2>2. CASE fault[e].at = "copy" /\ content' = [content EXCEPT ![Page(e, PFTEMP)] = content[Page(e, fault[e].va)]] /\ pte' = pte
      <3>1. Page(h, a) # Page(e, PFTEMP)
        BY <1>3, <2>2, TempSole
      <3>2. Page(h, a)' = Page(h, a) /\ content \in [Pages -> Values]
        BY <1>4, <2>2 DEF Page, TypeOK
      <3> QED
        BY <1>3, <2>2, <3>1, <3>2
    <2>3. CASE pgfault_map(e)
      <3>1. /\ fault[e].at = "map" /\ content' = content
            /\ pte' = [pte EXCEPT ![e][fault[e].va] = [pa |-> Page(e, PFTEMP), perm |-> {"W"}]]
        BY <2>3 DEF pgfault_map, sys_page_map, Page
      <3>2. content[Page(e, PFTEMP)] = content[Page(e, fault[e].va)]
        BY <3>1 DEF Inv, EachOK, FaultOK
      <3>3. fault[e].va \in VAs
        BY <1>1, <3>1, FaultFacts
      <3>4. CASE h = e /\ a = fault[e].va
        <4>1. Page(e, a)' = Page(e, PFTEMP)
          BY <1>4, <3>1, <3>3, <3>4 DEF Page, TypeOK
        <4> QED
          BY <3>1, <3>2, <3>4, <4>1
      <3>5. CASE ~(h = e /\ a = fault[e].va)
        <4>1. Page(h, a)' = Page(h, a)
          BY <1>3, <1>4, <3>1, <3>3, <3>5 DEF Page, TypeOK
        <4> QED
          BY <3>1, <4>1
      <3> QED
        BY <3>4, <3>5
    <2>4. CASE sys_page_unmap(e, PFTEMP) /\ content' = content
      <3>1. Page(h, a)' = Page(h, a)
        BY <1>3, <1>4, <2>4 DEF sys_page_unmap, Page, TypeOK
      <3> QED
        BY <2>4, <3>1
    <2> QED
      BY <2>1, <2>2, <2>3, <2>4 DEF pgfault
  <1> QED
    BY <1>1, <1>2, <1>5, RefineStutter

LEMMA PanicRefines ==
  ASSUME Inv, Inv', NEW e \in Envs, pgfault_panics(e) \/ fork_panics(e) PROVE [Memories!Next]_(Memories!mVars)
  <1>1. /\ status[e] = "LIVE" /\ status' = [status EXCEPT ![e] = "PANIC"] /\ pte' = pte /\ content' = content
        /\ during' = [during EXCEPT ![e] = NoHistory]
    BY DEF pgfault_panics, fork_panics, Panics, At, Executes
  <1>2. e \in Running /\ Running' = Running
    BY <1>1 DEF Running, Inv, TypeOK
  <1>3. Memory' = Memory
    BY <1>1, <1>2 DEF Memory, Page
  <1>4. SharedPart' = SharedPart
    BY <1>1, <1>2 DEF SharedPart, Page
  <1> QED
    BY <1>1, <1>2, <1>3, <1>4, RefineGiveUp

LEMMA ForkRefines ==
  ASSUME Inv, Inv', NEW e \in Envs, NEW c \in Envs, fork(e, c) PROVE [Memories!Next]_(Memories!mVars)
  <1>1. /\ status[e] = "LIVE" /\ status[c] = "FREE" /\ status' = [status EXCEPT ![c] = "CHILD"] /\ pte' = pte /\ content' = content
        /\ during' = [during EXCEPT ![e] = [va \in Private |-> {content[Page(e, va)]}]]
    BY DEF fork, At, Executes
  <1>2. e \in Running /\ Running' = Running
    BY <1>1 DEF Running, Inv, TypeOK
  <1>3. Memory' = Memory /\ SharedPart' = SharedPart
    BY <1>1, <1>2 DEF Memory, SharedPart, Page
  <1>4. \A va \in Private : Memory[e][va] = content[Page(e, va)]
    BY <1>2 DEF Memory
  <1>5. during' = [during EXCEPT ![e] = [va \in Private |-> {Memory[e][va]}]]
    BY <1>1, <1>4
  <1> QED
    BY <1>2, <1>3, <1>5, RefineBeginFork

\* A step of a call is on pages of e and of its child, which does not run yet.
LEMMA QuietRefines ==
  ASSUME Inv, Inv', NEW e \in Envs, status[e] = "LIVE", NEW c \in Envs, status[c] # "LIVE", status[c] # "PANIC",
         status' = status \/ status' = [status EXCEPT ![c] = "CHILD"] \/ status' = [status EXCEPT ![c] = "FREE"],
         during' = during, \A f \in Envs : f # c => \A a \in Kept : Page(f, a)' = Page(f, a),
         \A h \in Envs, a \in Kept : On(h, a) => content'[Page(h, a)] = content[Page(h, a)]
  PROVE  [Memories!Next]_(Memories!mVars)
  <1>1. e \in Running /\ c \notin Running
    BY DEF Running
  <1>2. Running' = Running
    BY <1>1 DEF Running, Inv, TypeOK
  <1>3. SameView
    BY <1>1 DEF SameView, Running, Inv, EachOK, LiveOK
  <1> QED
    BY <1>1, <1>2, <1>3, RefineStutter

LEMMA CallRefines ==
  ASSUME Inv, Inv', NEW e \in Envs,
         \/ \E c \in Envs : spawn(e, c)
         \/ child_exstack(e) \/ duppage(e) \/ duppage_self(e)
         \/ spawn_blank(e) \/ spawn_page(e) \/ copy_shared_pages(e) \/ spawn_fails(e)
  PROVE  [Memories!Next]_(Memories!mVars)
  <1>1. status[e] = "LIVE" /\ during' = during
    BY DEF spawn, child_exstack, duppage, duppage_self, spawn_blank, spawn_page, copy_shared_pages, spawn_fails, At, Executes
  <1>2. /\ TypeOK
        /\ call[e].op # "none" => call[e].child \in Envs /\ call[e].child # e /\ status[call[e].child] = "CHILD"
        /\ Kept \subseteq VAs /\ UTEMP \in VAs /\ UTEMP \notin Kept
    BY <1>1, CallFacts, Addresses DEF Inv
  <1>3. ASSUME NEW c \in Envs, status[c] \in {"FREE", "CHILD"}, pte' = pte, content' = content,
               status' = status \/ status' = [status EXCEPT ![c] = "CHILD"]
        PROVE  [Memories!Next]_(Memories!mVars)
    <2>1. \A f, a : Page(f, a)' = Page(f, a)
      BY <1>3 DEF Page
    <2> QED
      BY <1>1, <1>3, <2>1, QuietRefines
  <1>4. CASE \E c \in Envs : spawn(e, c)
    BY <1>3, <1>4 DEF spawn
  <1>5. ASSUME call[e].op # "none", content' = content, status' = status,
               \/ \E y, a : pte' = [pte EXCEPT ![call[e].child][a] = y]
               \/ \E y : pte' = [pte EXCEPT ![e][UTEMP] = y]
               \/ pte' = pte
        PROVE  [Memories!Next]_(Memories!mVars)
    <2>1. PICK c \in Envs : c = call[e].child /\ status[c] = "CHILD" /\ c # e
      BY <1>2, <1>5
    <2>2. \A f \in Envs : f # c => \A a \in Kept : Page(f, a)' = Page(f, a)
      <3> SUFFICES ASSUME NEW f \in Envs, f # c, NEW a \in Kept PROVE pte'[f][a] = pte[f][a]
        BY DEF Page
      <3>1. CASE \E y, b : pte' = [pte EXCEPT ![c][b] = y]
        <4>1. PICK y, b : pte' = [pte EXCEPT ![c][b] = y]
          BY <3>1
        <4> QED
          BY <1>2, <4>1 DEF TypeOK
      <3>2. CASE \E y : pte' = [pte EXCEPT ![e][UTEMP] = y]
        <4>1. PICK y : pte' = [pte EXCEPT ![e][UTEMP] = y]
          BY <3>2
        <4>2. a # UTEMP /\ a \in VAs
          BY <1>2
        <4> QED
          BY <1>2, <4>1, <4>2 DEF TypeOK
      <3> QED
        BY <1>5, <2>1, <3>1, <3>2
    <2> QED
      BY <1>1, <1>5, <2>1, <2>2, QuietRefines
  <1>6. CASE child_exstack(e) \/ duppage(e) \/ copy_shared_pages(e)
    <2>1. content' = content /\ status' = status /\ call[e].op # "none"
      BY <1>6 DEF child_exstack, duppage, copy_shared_pages, At
    <2>2. pte' = pte \/ \E y, a : pte' = [pte EXCEPT ![call[e].child][a] = y]
      BY <1>6 DEF child_exstack, duppage, copy_shared_pages, sys_page_map
    <2> QED
      BY <1>5, <2>1, <2>2
  <1>7. CASE duppage_self(e)
    <2>1. /\ content' = content /\ status' = status /\ call[e].op = "fork"
          /\ pte' = [pte EXCEPT ![e][call[e].va] = [pa |-> Page(e, call[e].va), perm |-> DupPerm(pte[e][call[e].va].perm)]]
      BY <1>7 DEF duppage_self, At, sys_page_map, Page
    <2>2. PICK c \in Envs : c = call[e].child /\ status[c] = "CHILD" /\ c # e
      BY <1>2, <2>1
    <2>3. \A f \in Envs, a \in VAs : Page(f, a)' = Page(f, a)
      <3> SUFFICES ASSUME NEW f \in Envs, NEW a \in VAs PROVE Page(f, a)' = Page(f, a)
        OBVIOUS
      <3>1. CASE f = e /\ a = call[e].va
        BY <1>2, <2>1, <3>1 DEF Page, TypeOK
      <3>2. CASE ~(f = e /\ a = call[e].va)
        BY <1>2, <2>1, <3>2 DEF Page, TypeOK
      <3> QED
        BY <3>1, <3>2
    <2> QED
      BY <1>1, <1>2, <2>1, <2>2, <2>3, QuietRefines
  <1>8. CASE spawn_page(e)
    <2>1. status' = status /\ call[e].op = "spawn"
      BY <1>8 DEF spawn_page, At
    <2>2. PICK c \in Envs : c = call[e].child /\ status[c] = "CHILD" /\ c # e
      BY <1>2, <2>1
    <2>3. CASE \E p \in FreePages : sys_page_alloc(e, UTEMP, p, {"W"})
      <3>1. PICK p \in FreePages : sys_page_alloc(e, UTEMP, p, {"W"})
        BY <2>3
      <3>2. \A h \in Envs, a \in Kept : On(h, a) => Page(h, a) # p /\ Page(h, a) \in Pages
        BY <1>2, Types DEF FreePages, On, Page
      <3>3. \A h \in Envs, a \in Kept : On(h, a) => content'[Page(h, a)] = content[Page(h, a)]
        BY <1>2, <3>1, <3>2 DEF sys_page_alloc, TypeOK
      <3>4. \A f \in Envs : \A a \in Kept : Page(f, a)' = Page(f, a)
        BY <1>2, <3>1 DEF sys_page_alloc, Page, TypeOK
      <3> QED
        BY <1>1, <2>1, <2>2, <3>3, <3>4, QuietRefines
    <2>4. CASE At(e, "spawn", "read") /\ content' = [content EXCEPT ![Page(e, UTEMP)] = 0] /\ pte' = pte
      <3>1. \A h \in Envs, a \in Kept : On(h, a) => Page(h, a) # Page(e, UTEMP) /\ Page(h, a) \in Pages
        <4>1. call[e].at \in {"read", "map"}
          BY <2>4 DEF At
        <4> QED
          BY <1>2, <2>1, <4>1, UtempSole, Types
      <3>2. \A h \in Envs, a \in Kept : On(h, a) => content'[Page(h, a)] = content[Page(h, a)]
        BY <1>2, <2>4, <3>1 DEF TypeOK
      <3>3. \A f, a : Page(f, a)' = Page(f, a)
        BY <2>4 DEF Page
      <3> QED
        BY <1>1, <2>1, <2>2, <3>2, <3>3, QuietRefines
    <2>5. CASE \/ sys_page_map(e, UTEMP, call[e].child, call[e].va, Rights(call[e].va)) /\ content' = content
               \/ sys_page_unmap(e, UTEMP) /\ content' = content
      BY <1>5, <2>1, <2>5 DEF sys_page_map, sys_page_unmap
    <2> QED
      BY <1>8, <2>3, <2>4, <2>5 DEF spawn_page
  <1>9. CASE spawn_fails(e)
    <2>1. content' = content /\ call[e].op = "spawn"
      BY <1>9 DEF spawn_fails, At
    <2>2. PICK c \in Envs : c = call[e].child /\ status[c] = "CHILD" /\ c # e
      BY <1>2, <2>1
    <2>3. CASE UNCHANGED <<status, pte, handler>>
      BY <1>3, <2>1, <2>2, <2>3
    <2>4. CASE Gone(c)
      <3>1. \A f \in Envs : f # c => \A a \in Kept : Page(f, a)' = Page(f, a)
        BY <1>2, <2>4 DEF Gone, Page, TypeOK
      <3> QED
        BY <1>1, <2>1, <2>2, <2>4, <3>1, QuietRefines DEF Gone
    <2> QED
      BY <1>9, <2>2, <2>3, <2>4 DEF spawn_fails
  <1>10. CASE spawn_blank(e)
    <2>1. /\ status' = status /\ call[e].op = "spawn"
          /\ \E p \in FreePages : sys_page_alloc(call[e].child, call[e].va, p, Rights(call[e].va))
      BY <1>10 DEF spawn_blank, At
    <2>2. PICK c \in Envs : c = call[e].child /\ status[c] = "CHILD" /\ c # e
      BY <1>2, <2>1
    <2>3. PICK p \in FreePages : sys_page_alloc(c, call[e].va, p, Rights(call[e].va))
      BY <2>1, <2>2
    <2>4. \A h \in Envs, a \in Kept : On(h, a) => Page(h, a) # p /\ Page(h, a) \in Pages
      BY <1>2, Types DEF FreePages, On, Page
    <2>5. \A h \in Envs, a \in Kept : On(h, a) => content'[Page(h, a)] = content[Page(h, a)]
      BY <1>2, <2>3, <2>4 DEF sys_page_alloc, TypeOK
    <2>6. \A f \in Envs : f # c => \A a \in Kept : Page(f, a)' = Page(f, a)
      BY <1>2, <2>3 DEF sys_page_alloc, Page, TypeOK
    <2> QED
      BY <1>1, <2>1, <2>2, <2>5, <2>6, QuietRefines
  <1> QED
    BY <1>4, <1>6, <1>7, <1>8, <1>9, <1>10

LEMMA DoneRefines ==
  ASSUME Inv, Inv', NEW e \in Envs, fork_done(e) \/ spawn_done(e) PROVE [Memories!Next]_(Memories!mVars)
  <1>1. /\ status[e] = "LIVE" /\ call[e].op = (IF fork_done(e) THEN "fork" ELSE "spawn") /\ Starts(e)
        /\ pte' = pte /\ content' = content
    BY DEF fork_done, spawn_done, At, Executes
  <1>2. PICK c \in Envs : c = call[e].child /\ status[c] = "CHILD" /\ c # e
    BY <1>1, CallFacts
  <1>3. status' = [status EXCEPT ![c] = "LIVE"] /\ during' = [during EXCEPT ![e] = NoHistory]
    BY <1>1, <1>2 DEF Starts
  <1>4. e \in Running /\ c \notin Running /\ Running' = Running \cup {c} /\ e \in Running'
    BY <1>1, <1>2, <1>3 DEF Running, Inv, TypeOK
  <1>5. \A f, a : Page(f, a)' = Page(f, a)
    BY <1>1 DEF Page
  <1>6. SharedPart' = SharedPart
    BY <1>1, <1>4, <1>5, SharedSame
  <1>7. \A va \in Private : On(c, va) /\ Memory'[c][va] = content[Page(c, va)] /\ Memory[c][va] = 0
    <2>1. LiveOK(c)' /\ status'[c] = "LIVE"
      BY <1>3 DEF Inv, EachOK, TypeOK
    <2>2. \A va \in Private : On(c, va)
      BY <1>1, <2>1 DEF LiveOK, Kept, On
    <2> QED
      BY <1>1, <1>4, <1>5, <2>2 DEF Memory
  <1>8. Memory' = [Memory EXCEPT ![c] = Memory'[c]]
    <2> DEFINE m == Memory
               n == Memory'
    <2>1. \A f \in Envs : f # c => n[f] = m[f]
      BY <1>1, <1>4, <1>5 DEF Memory
    <2>2. m = [f \in Envs |-> m[f]] /\ n = [f \in Envs |-> n[f]]
      BY DEF Memory
    <2> HIDE DEF m, n
    <2>3. n = [m EXCEPT ![c] = n[c]]
      BY <2>1, <2>2
    <2> QED
      BY <2>3 DEF m, n
  <1>9. CASE fork_done(e)
    <2>1. ForkOK(e) /\ call[e].op = "fork" /\ call[e].child = c
      BY <1>1, <1>2, <1>9 DEF Inv, EachOK
    <2>2. \A va \in Private : Memory'[c][va] \in during[e][va]
      BY <1>7, <2>1 DEF ForkOK
    <2> QED
      BY <1>3, <1>4, <1>6, <1>8, <2>2, RefineEndFork
  <1>10. CASE ~fork_done(e)
    <2>1. SpawnOK(e) /\ call[e].op = "spawn" /\ call[e].child = c /\ StatusOK(e)
      BY <1>1, <1>2, <1>10 DEF Inv, EachOK
    <2>2. \A va \in Private : Memory'[c][va] = 0
      BY <1>7, <2>1 DEF SpawnOK
    <2>3. Memory'[c] = [va \in Private |-> 0]
      BY <2>2 DEF Memory
    <2>4. during' = during
      BY <1>3, <2>1 DEF StatusOK, Inv, TypeOK
    <2> QED
      BY <1>4, <1>6, <1>8, <2>3, <2>4, RefineSpawn
  <1> QED
    BY <1>9, <1>10

LEMMA DestroyRefines ==
  ASSUME Inv, Inv', NEW e \in Envs, env_destroy(e) PROVE [Memories!Next]_(Memories!mVars)
  <1>1. /\ status[e] \in {"LIVE", "PANIC"} /\ status' = [status EXCEPT ![e] = "FREE"] /\ pte' = [pte EXCEPT ![e] = Empty]
        /\ content' = content /\ during' = [during EXCEPT ![e] = NoHistory]
    BY DEF env_destroy, Gone
  <1>2. e \in Running /\ Running' = Running \ {e}
    BY <1>1 DEF Running, Inv, TypeOK
  <1>3. \A f \in Envs : f # e => \A a : Page(f, a)' = Page(f, a)
    BY <1>1 DEF Page, Inv, TypeOK
  <1>4. Memory' = [Memory EXCEPT ![e] = [va \in Private |-> 0]]
    <2> DEFINE m == Memory
               n == Memory'
    <2>1. (\A f \in Envs : f # e => n[f] = m[f]) /\ n[e] = [va \in Private |-> 0]
      BY <1>1, <1>2, <1>3 DEF Memory
    <2>2. m = [f \in Envs |-> m[f]] /\ n = [f \in Envs |-> n[f]]
      BY DEF Memory
    <2> HIDE DEF m, n
    <2>3. n = [m EXCEPT ![e] = [va \in Private |-> 0]]
      BY <2>1, <2>2
    <2> QED
      BY <2>3 DEF m, n
  <1>5. SharedPart' = IF Running' = {} THEN [va \in Shared |-> 0] ELSE SharedPart
    <2>1. CASE Running' = {}
      BY <2>1 DEF SharedPart
    <2>2. ASSUME NEW f \in Running' PROVE SharedPart' = SharedPart
      <3>1. f \in Running /\ f # e /\ f \in Envs
        BY <1>2 DEF Running
      <3> QED
        BY <1>1, <1>3, <3>1, SharedSame
    <2> QED
      BY <2>1, <2>2
  <1> QED
    BY <1>1, <1>2, <1>4, <1>5, RefineEnd

\* fork and spawn give programs what ForkMemory promises: memories of their own
\* that only their own stores change, children that begin with values their
\* parent had during the fork or with the image, and pages that all share
\* (fork.c:15-49, 63-88, 108-178, spawn.c:20-137, 220-303).
THEOREM ForkImplementsForkMemory == Spec => ImplementsForkMemory
  <1>1. Init => Memories!Init
    <2> SUFFICES ASSUME Init PROVE Memories!Init
      OBVIOUS
    <2>1. Running = {Root} /\ content = [p \in Pages |-> 0] /\ during = [e \in Envs |-> NoHistory] /\ Inv
      BY InvInit DEF Init, Running
    <2>2. \A va \in Kept : Page(Root, va) \in Pages /\ content[Page(Root, va)] = 0
      <3> SUFFICES ASSUME NEW va \in Kept PROVE Page(Root, va) \in Pages /\ content[Page(Root, va)] = 0
        OBVIOUS
      <3>1. On(Root, va) /\ va \in VAs
        BY <2>1, Addresses DEF Inv, EachOK, LiveOK, Running
      <3>2. Page(Root, va) \in Pages
        BY <2>1, <3>1, Types DEF Inv
      <3> QED
        BY <2>1, <3>2
    <2>3. (CHOOSE e \in Running : TRUE) = Root
      BY <2>1
    <2>4. Memory = [e \in Envs |-> [va \in Private |-> 0]] /\ SharedPart = [va \in Shared |-> 0]
      BY <2>1, <2>2, <2>3 DEF Memory, SharedPart, Kept
    <2> QED
      BY <2>1, <2>4 DEF Memories!Init, Memories!Image, Memory, SharedPart, NoHistory
  <1>2. Inv /\ Inv' /\ [Next]_vars => [Memories!Next]_(Memories!mVars)
    <2>1. ASSUME Inv, Inv', NEW e \in Envs,
                 \/ \E va \in VAs, v \in Values : store(e, va, v)
                 \/ pgfault(e) \/ pgfault_panics(e)
                 \/ \E c \in Envs : fork(e, c) \/ spawn(e, c)
                 \/ child_exstack(e) \/ fork_panics(e) \/ duppage(e) \/ duppage_self(e) \/ fork_done(e)
                 \/ spawn_blank(e) \/ spawn_page(e) \/ copy_shared_pages(e) \/ spawn_done(e) \/ spawn_fails(e)
                 \/ env_destroy(e)
          PROVE  [Memories!Next]_(Memories!mVars)
      BY <2>1, StoreRefines, PgfaultRefines, PanicRefines, ForkRefines, CallRefines, DoneRefines, DestroyRefines
    <2>2. CASE Inv /\ Inv' /\ Next
      BY <2>1, <2>2 DEF Next
    <2>3. ASSUME UNCHANGED vars PROVE UNCHANGED Memories!mVars
      BY <2>3 DEF vars, Memories!mVars, Running, Page
    <2> QED
      BY <2>2, <2>3
  <1> QED
    BY <1>1, <1>2, Invariance, PTL DEF Spec, ImplementsForkMemory, Memories!Spec
=============================================================================
