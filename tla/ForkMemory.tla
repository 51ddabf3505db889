----------------------------- MODULE ForkMemory -----------------------------
(***************************************************************************)
(* What fork and spawn promise: programs with private memories, and pages  *)
(* that all of them share.                                                 *)
(***************************************************************************)
EXTENDS Naturals

CONSTANTS
    Envs, Root, Private, Shared, Values

VARIABLES
    alive,   \* the programs that exist
    memory,  \* memory[e][va]: private addresses; 0 for one that does not exist
    shared,  \* shared[va]
    during   \* during[e][va]: what e's va has held since its fork began

mVars == <<alive, memory, shared, during>>

Image == [va \in Private |-> 0]

Init ==
    /\ alive = {Root} /\ memory = [e \in Envs |-> Image]
    /\ shared = [va \in Shared |-> 0] /\ during = [e \in Envs |-> [va \in Private |-> {}]]

Store(e, va, v) ==
    /\ e \in alive
    /\ \/ /\ va \in Private /\ memory' = [memory EXCEPT ![e][va] = v]
          /\ during' = IF during[e][va] = {} THEN during ELSE [during EXCEPT ![e][va] = @ \cup {v}]
          /\ UNCHANGED shared
       \/ va \in Shared /\ shared' = [shared EXCEPT ![va] = v] /\ UNCHANGED <<memory, during>>
    /\ UNCHANGED alive

BeginFork(e) ==
    /\ e \in alive
    /\ during' = [during EXCEPT ![e] = [va \in Private |-> {memory[e][va]}]]
    /\ UNCHANGED <<alive, memory, shared>>

\* Each address of the child has a value of the parent's during the fork.
EndFork(e, c) ==
    /\ e \in alive /\ c \notin alive /\ alive' = alive \cup {c}
    /\ \A va \in Private : memory'[c][va] \in during[e][va]
    /\ memory' = [memory EXCEPT ![c] = memory'[c]]
    /\ during' = [during EXCEPT ![e] = [va \in Private |-> {}]]
    /\ UNCHANGED shared

Spawn(c) ==
    /\ alive # {} /\ c \notin alive /\ alive' = alive \cup {c}
    /\ memory' = [memory EXCEPT ![c] = Image]
    /\ UNCHANGED <<shared, during>>

\* A program that panics gives up its fork.
GiveUp(e) ==
    /\ during' = [during EXCEPT ![e] = [va \in Private |-> {}]]
    /\ UNCHANGED <<alive, memory, shared>>

End(e) ==
    /\ e \in alive /\ alive' = alive \ {e}
    /\ memory' = [memory EXCEPT ![e] = Image]
    /\ during' = [during EXCEPT ![e] = [va \in Private |-> {}]]
    /\ shared' = IF alive' = {} THEN [va \in Shared |-> 0] ELSE shared

Next ==
    \E e \in Envs :
        \/ \E va \in Private \cup Shared, v \in Values : Store(e, va, v)
        \/ BeginFork(e) \/ GiveUp(e) \/ End(e) \/ Spawn(e)
        \/ \E c \in Envs : EndFork(e, c)

Spec == Init /\ [][Next]_mVars
=============================================================================
