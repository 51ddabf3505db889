----------------------------- MODULE ByteStream -----------------------------
(***************************************************************************)
(* What a pipe promises: a bounded queue of bytes between its two ends,    *)
(* each of which is open until the last descriptor of it goes away.        *)
(***************************************************************************)
EXTENDS Naturals, Sequences

CONSTANTS
    Capacity,  \* bytes that may be on the way
    Bytes      \* the values of a byte

VARIABLES
    sent,      \* everything written
    received,  \* everything read
    open       \* the ends that some descriptor refers to

sVars == <<sent, received, open>>

Init == sent = <<>> /\ received = <<>> /\ open = {"R", "W"}

Put ==
    /\ "W" \in open /\ Len(sent) - Len(received) < Capacity
    /\ \E b \in Bytes : sent' = Append(sent, b)
    /\ UNCHANGED <<received, open>>

Get ==
    /\ "R" \in open /\ Len(received) < Len(sent)
    /\ received' = Append(received, sent[Len(received) + 1])
    /\ UNCHANGED <<sent, open>>

\* Nobody can open an end again.
Hangup ==
    /\ open' \subseteq open /\ open' # open
    /\ UNCHANGED <<sent, received>>

Next == Put \/ Get \/ Hangup

Spec == Init /\ [][Next]_sVars
=============================================================================
