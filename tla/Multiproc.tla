------------------------------ MODULE Multiproc ------------------------------
(***************************************************************************)
(* mp_init of kern/mpconfig.c: the processors that the kernel takes from   *)
(* the table of the BIOS.  An entry is "proc", "boot" (the processor that  *)
(* runs already), "other" (a bus, an interrupt) or "unknown".              *)
(***************************************************************************)
EXTENDS Integers, Sequences, FiniteSets

CPUSLOTS == 3  \* NCPU

\* What the loop makes of one entry; an unknown one ends it.
Entry(st, e) ==
    IF ~st.ismp \/ e = "other" THEN st
    ELSE IF e = "unknown" THEN [st EXCEPT !.ismp = FALSE]
    ELSE [st EXCEPT !.bootcpu = IF e = "boot" THEN st.ncpu ELSE @, !.ncpu = IF @ < CPUSLOTS THEN @ + 1 ELSE @]

mp_init(entries) ==
    LET After[i \in 0..Len(entries)] ==
          IF i = 0 THEN [ncpu |-> 0, bootcpu |-> 0, ismp |-> TRUE] ELSE Entry(After[i - 1], entries[i])
        st == After[Len(entries)]
    IN  IF st.ismp THEN st ELSE [st EXCEPT !.ncpu = 1]

-----------------------------------------------------------------------------
\* Each processor of the table gets a slot, as long as there are any, and bootcpu is that
\* of the processor that runs; with a table that is not understood the kernel goes on with
\* one processor (mpconfig.c:180-214).  When the running one is not among the first
\* NCPU of the table, bootcpu points behind the slots.
ASSUME ProcessorsAreFound ==
    \A entries \in UNION {[1..n -> {"proc", "boot", "other", "unknown"}] : n \in 1..6} :
        LET st == mp_init(entries)
            procs == {i \in DOMAIN entries : entries[i] \in {"proc", "boot"}}
            boots == {i \in DOMAIN entries : entries[i] = "boot"}
            Slot(i) == Cardinality({j \in procs : j < i})
        IN  Cardinality(boots) = 1 =>
              IF "unknown" \in {entries[i] : i \in DOMAIN entries} THEN st.ncpu = 1 /\ ~st.ismp
              ELSE /\ st.ncpu = IF Cardinality(procs) < CPUSLOTS THEN Cardinality(procs) ELSE CPUSLOTS
                   /\ \A i \in boots : IF Slot(i) < CPUSLOTS THEN st.bootcpu = Slot(i) /\ st.bootcpu < st.ncpu
                                       ELSE st.bootcpu = CPUSLOTS
=============================================================================
