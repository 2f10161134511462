-------------------------- MODULE MC_FlowExecution --------------------------
(***************************************************************************)
(* FlowExecution on small flows: the nodes in order, which of them are     *)
(* critical and which carry rollback data are values of the configuration. *)
(***************************************************************************)
EXTENDS FlowExecution, TLC

CONSTANTS n1, n2, n3

TwoNodes == {n1, n2}
TwoInOrder == <<n1, n2>>
ThreeNodes == {n1, n2, n3}
ThreeInOrder == <<n1, n2, n3>>
FirstTwo == {n1, n2}
OnlySecond == {n2}

Symmetry == Permutations(Commands)
=============================================================================
