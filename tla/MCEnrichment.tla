----------------------------- MODULE MCEnrichment -----------------------------
(***************************************************************************)
(* Instances of Enrichment for TLC.                                        *)
(***************************************************************************)
EXTENDS Enrichment, TLC

CONSTANTS v1, p1, p2

Alike == Permutations(Profiles)
=============================================================================
