----------------------------- MODULE SendChannel -----------------------------
(***************************************************************************)
(* What Session::Send promises: the buffers it accepts go to the system in *)
(* the order of their acceptance, in batches, one at a time; the buffers   *)
(* of a batch are kept until the system is done with it; once a batch has  *)
(* been lost nothing follows it.                                           *)
(***************************************************************************)
EXTENDS Naturals, Sequences

VARIABLES
    accepted,           \* buffers accepted, numbered from 1
    waiting,            \* those that have not been handed to the system
    in_flight,          \* the batch that the system is working on
    done,               \* what it has finished with
    lost                \* the batch it has refused

channel == <<accepted, waiting, in_flight, done, lost>>

Init ==
    /\ accepted = 0
    /\ waiting = <<>> /\ in_flight = <<>> /\ done = <<>> /\ lost = <<>>

Send ==
    /\ accepted' = accepted + 1
    /\ waiting' = Append(waiting, accepted + 1)
    /\ UNCHANGED <<in_flight, done, lost>>

\* The first n buffers leave the queue together.
Batch(n) ==
    /\ in_flight = <<>> /\ lost = <<>>
    /\ waiting' = SubSeq(waiting, n + 1, Len(waiting))
    /\ UNCHANGED <<accepted, done>>

Submit(n) == Batch(n) /\ in_flight' = SubSeq(waiting, 1, n) /\ UNCHANGED lost

Lose(n) == Batch(n) /\ lost' = SubSeq(waiting, 1, n) /\ UNCHANGED in_flight

Complete ==
    /\ in_flight # <<>>
    /\ done' = done \o in_flight
    /\ in_flight' = <<>>
    /\ UNCHANGED <<accepted, waiting, lost>>

Next ==
    \/ Send
    \/ \E n \in 1 .. Len(waiting) : Submit(n) \/ Lose(n)
    \/ Complete

Spec == Init /\ [][Next]_channel

=============================================================================
