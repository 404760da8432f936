------------------------------ MODULE VoiceQueue ------------------------------
(***************************************************************************)
(* What AudioOutput promises: a first-in first-out queue of samples that   *)
(* keeps the newest Size of them.                                          *)
(***************************************************************************)
EXTENDS Naturals, Sequences

CONSTANTS
    Samples,   \* the values that are queued
    Size       \* how many of them the queue holds

VARIABLE queue

Init == queue = <<>>

\* A full queue loses its oldest sample.
Put(s) == queue' = Append(IF Len(queue) = Size THEN Tail(queue) ELSE queue, s)

Take == queue # <<>> /\ queue' = Tail(queue)

Clear == queue' = <<>>

Next == Take \/ Clear \/ \E s \in Samples : Put(s)

Spec == Init /\ [][Next]_queue

=============================================================================
