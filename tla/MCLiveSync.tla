------------------------------ MODULE MCLiveSync ------------------------------
(***************************************************************************)
(* Instances of LiveSync for TLC.                                          *)
(***************************************************************************)
EXTENDS LiveSync, TLC
=============================================================================
