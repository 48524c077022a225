-------------------------------- MODULE MCNode --------------------------------
(* Small instances of NodeRepository for TLC. *)
EXTENDS NodeRepository, TLC

CONSTANTS c1, c2, c3, worker1, worker2

Small == [storage |-> 2, cache |-> 1]
SmallTight == [storage |-> 2, cache |-> 0]

SmallConfigs == {Small, SmallTight}
NoConfig == {}

Symmetry == Permutations({worker1, worker2})
=============================================================================
