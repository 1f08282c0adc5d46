------------------------- MODULE MCConduitSessions -------------------------
(* ConduitSessions on a project of one story of one task, two sessions.    *)
EXTENDS ConduitSessions, TLC

CONSTANTS p1, s1, t1, b1, b2, alice, bob

MCParent == [i \in {s1, t1} |-> IF i = s1 THEN p1 ELSE s1]
MCOrder == <<p1, s1, t1>>

Symmetry == Permutations({b1, b2}) \cup Permutations({alice, bob})

=============================================================================
