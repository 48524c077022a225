------------------------------ MODULE MCTransfer ------------------------------
(* Small instances of TransferSystem for TLC. *)
EXTENDS TransferSystem, TLC

CONSTANTS r1, r2, r3

Wifi     == [network |-> "wifi", metered |-> FALSE, max |-> 1]
WifiTwo  == [network |-> "wifi", metered |-> FALSE, max |-> 2]
CellTwo == [network |-> "cellular", metered |-> TRUE, max |-> 2]
CellMetered == [network |-> "cellular", metered |-> TRUE, max |-> 1]

MCNoLimit == [t \in Task |-> NoLimit]
NoConfig == {}
CellHold == [network |-> "cellular", metered |-> FALSE, max |-> 2]

TwoNetworks == {Wifi, CellMetered}
OneLimited == [t \in Task |-> IF t = 1 THEN 2 ELSE NoLimit]

Symmetry == Permutations(Runner)
=============================================================================
