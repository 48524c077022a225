-------------------------------- MODULE MCHelia --------------------------------
(* Values for the constants of HeliaNode: two contents that share a block.  *)
EXTENDS HeliaNode, TLC

CONSTANTS c1, c2, album, track, cover, audio

MCDag == album :> {cover, audio} @@ track :> {audio}
MCSymmetry == Permutations({c1, c2})
=============================================================================
