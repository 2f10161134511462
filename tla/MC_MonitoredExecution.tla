----------------------- MODULE MC_MonitoredExecution -----------------------
(***************************************************************************)
(* MonitoredExecution on a flow of two nodes.                              *)
(***************************************************************************)
EXTENDS MonitoredExecution, TLC

CONSTANTS n1, n2

TwoNodes == {n1, n2}
TwoInOrder == <<n1, n2>>
OnlySecond == {n2}
=============================================================================
