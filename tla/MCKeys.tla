------------------------------- MODULE MCKeys -------------------------------
(* Small instances of Idempotency for TLC. *)
EXTENDS Idempotency, TLC

CONSTANTS c1, c2, p1, p2

\* Key 1 is a plain request, 2 a follow (20), 3 and 4 are library scans.  The scans
\* share an operation when their bodies name it and only the headers differ; the
\* other body of 4 names it too and asks for something else.
MCOperation ==
  [r \in Guarded \X Fingerprint |->
     IF r[1] = 2 THEN [name |-> 20, fingerprint |-> r[2]]
     ELSE IF r = <<3, p2>> THEN [name |-> 40, fingerprint |-> p2]
     ELSE [name |-> 30, fingerprint |-> r[2]]]

\* A follow is one transaction; the others are two.
MCTransactions == [k \in Key |-> IF k = 2 THEN 1 ELSE 2]

\* The operations sort before the answers of the middleware, or after them, as the
\* names of the scopes have it.
MCRank ==
  [e \in Entry |-> IF e[2] = "http" THEN 10 + e[1]
                   ELSE IF e[1] = 20 THEN 1 ELSE e[1]]

Symmetry == Permutations({c1, c2})
=============================================================================
