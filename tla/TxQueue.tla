------------------------------ MODULE TxQueue -------------------------------
(***************************************************************************)
(* What the UNDI transmit path promises its caller (SNP), independent of   *)
(* descriptors: Transmit queues a frame if fewer than Capacity are         *)
(* outstanding, the device sends queued frames in order, and Status with   *)
(* GET_TRANSMITTED_BUFFERS hands back, oldest first, buffers whose frames  *)
(* have been sent.  Each buffer is handed back once.                       *)
(***************************************************************************)
EXTENDS Naturals, Sequences

CONSTANTS Capacity, MaxFrames

VARIABLES
    next,         \* the next frame the caller submits
    pending,      \* frames accepted and not yet handed back, oldest first
    transmitted,  \* frames the device has put on the wire
    completed     \* buffers handed back to the caller, in order

vars == <<next, pending, transmitted, completed>>

Init ==
    /\ next = 1
    /\ pending = << >>
    /\ transmitted = {}
    /\ completed = << >>

Enqueue ==
    /\ next <= MaxFrames
    /\ Len(pending) < Capacity
    /\ pending' = Append(pending, next)
    /\ next' = next + 1
    /\ UNCHANGED <<transmitted, completed>>

\* The device sends the oldest pending frame it has not sent yet.
Send ==
    \E j \in 1 .. Len(pending) :
        /\ pending[j] \notin transmitted
        /\ \A i \in 1 .. j - 1 : pending[i] \in transmitted
        /\ transmitted' = transmitted \cup {pending[j]}
        /\ UNCHANGED <<next, pending, completed>>

\* Hand back the k oldest pending buffers, all of them already sent.
Complete(k) ==
    /\ k <= Len(pending)
    /\ \A i \in 1 .. k : pending[i] \in transmitted
    /\ completed' = completed \o SubSeq(pending, 1, k)
    /\ pending' = SubSeq(pending, k + 1, Len(pending))
    /\ UNCHANGED <<next, transmitted>>

Next == Enqueue \/ Send \/ (\E k \in 1 .. Capacity : Complete(k))

SafetySpec == Init /\ [][Next]_vars

=============================================================================
