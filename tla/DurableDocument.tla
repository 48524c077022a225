--------------------------- MODULE DurableDocument ---------------------------
(* What AtomicJsonStore promises: one document, replaced as a whole by each   *)
(* commit.  Whoever reads it learns what is stored at that moment.  A loss of *)
(* power may bring back a document of the past, though none older than the    *)
(* last that is known to be on the disk.                                      *)
CONSTANTS Thread, Doc, Default

VARIABLES
  stored,      \* the document
  returning,   \* the documents a loss of power may leave
  known        \* what each thread was last told is stored

Init ==
  /\ stored = Default
  /\ returning = {Default}
  /\ known = [t \in Thread |-> Default]

Commit(d) ==
  /\ stored' = d
  /\ returning' = returning \cup {d}
  /\ UNCHANGED known

Harden ==
  /\ returning' = {stored}
  /\ UNCHANGED <<stored, known>>

Learn(t) ==
  /\ known' = [known EXCEPT ![t] = stored]
  /\ UNCHANGED <<stored, returning>>

PowerLoss ==
  /\ stored' \in returning
  /\ returning' = {stored'}
  /\ UNCHANGED known

Next ==
  \/ \E d \in Doc : Commit(d)
  \/ Harden
  \/ \E t \in Thread : Learn(t)
  \/ PowerLoss

Spec == Init /\ [][Next]_<<stored, returning, known>>
=============================================================================
