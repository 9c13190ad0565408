------------------------------ MODULE MCPipeline ------------------------------
(***************************************************************************)
(* Instances of IngestionPipeline for TLC.                                 *)
(***************************************************************************)
EXTENDS IngestionPipeline, TLC

CONSTANTS h1, h2, m1, n1, n2

HandlesAreAlike == Permutations(Handles)
=============================================================================
