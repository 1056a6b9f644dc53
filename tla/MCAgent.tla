------------------------------ MODULE MCAgent ------------------------------
(***************************************************************************)
(* Instances of Agent for TLC.                                             *)
(***************************************************************************)
EXTENDS Agent, TLC

CONSTANTS r1, r2, r3, d1, d2

ThreeReqs == {r1, r2, r3}
TwoDigests == {d1, d2}

Symmetry == Permutations(ThreeReqs) \cup Permutations(TwoDigests)
=============================================================================
