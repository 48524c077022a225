------------------------------- MODULE MCStore -------------------------------
(* Small instances of AtomicStore for TLC. *)
EXTENDS AtomicStore, TLC

CONSTANTS empty, first, second, a, b

Symmetry == Permutations({a, b}) \cup Permutations({first, second})
=============================================================================
