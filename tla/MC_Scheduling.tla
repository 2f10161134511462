--------------------------- MODULE MC_Scheduling ---------------------------
(***************************************************************************)
(* Scheduling of the schedules s1 and s2.  Both exist (the watcher's run), *)
(* or s1 does and a call may create s2; a bulk call names both.            *)
(***************************************************************************)
EXTENDS Scheduling, TLC

CONSTANTS s1, s2

Lists == {<<s1>>, <<s2, s1>>}
Symmetry == Permutations(Rounds) \union Permutations(Callers)
=============================================================================
