---------------------------- MODULE MC_NodeRunner ----------------------------
(***************************************************************************)
(* NodeRunner with three runs: two of one execution (its job was handed    *)
(* out twice) and one of another.                                          *)
(***************************************************************************)
EXTENDS NodeRunner

CONSTANTS x1, x2, y1, x, y

TheRuns == {x1, x2, y1}
TheKeys == {x, y}
TheKeyOf == [r \in TheRuns |-> IF r = y1 THEN y ELSE x]
=============================================================================
