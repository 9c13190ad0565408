------------------------------ MODULE MCRealtime ------------------------------
(***************************************************************************)
(* Instances of RealtimeGateway for TLC.                                   *)
(***************************************************************************)
EXTENDS RealtimeGateway, TLC

CONSTANTS v1, v2, c1, c2
=============================================================================
