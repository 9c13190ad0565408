----------------------------- MODULE MCStreamBus -----------------------------
(***************************************************************************)
(* Instances of StreamBus for TLC.                                         *)
(***************************************************************************)
EXTENDS StreamBus, TLC

CONSTANTS g1, c1, c2

\* Every subscription reads for the one group.  Groups share only the stream.
OneGroup == [c \in Consumers |-> g1]
=============================================================================
