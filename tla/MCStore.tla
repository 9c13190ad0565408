------------------------------- MODULE MCStore -------------------------------
(***************************************************************************)
(* Instances of PositionStore for TLC.                                     *)
(***************************************************************************)
EXTENDS PositionStore, TLC

CONSTANTS a1, a2, w1, w2, v1, x, y

Alike == Permutations(Writers) \cup Permutations(Maintainers) \cup Permutations(Bodies)
=============================================================================
