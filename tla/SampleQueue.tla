----------------------------- MODULE SampleQueue -----------------------------
(***************************************************************************)
(* What the two ends of a PCM ring rely on: a bounded queue of samples.    *)
(* Samples are put at its end and taken from its front, in one step each,  *)
(* and the queue may be cleared.                                           *)
(***************************************************************************)
EXTENDS Naturals, Sequences

CONSTANTS Bound

VARIABLES queue, heard

Init == queue = <<>> /\ heard = <<>>

Put == /\ Len(queue') \in Len(queue)..Bound
       /\ SubSeq(queue', 1, Len(queue)) = queue
       /\ UNCHANGED heard

Take == \E n \in 0..Len(queue) :
          /\ heard' = heard \o SubSeq(queue, 1, n)
          /\ queue' = SubSeq(queue, n + 1, Len(queue))

Clear == queue' = <<>> /\ UNCHANGED heard

Next == Put \/ Take \/ Clear

Spec == Init /\ [][Next]_<<queue, heard>>
=============================================================================
