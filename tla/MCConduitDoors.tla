--------------------------- MODULE MCConduitDoors ---------------------------
(* ConduitDoors on a project of one story of two tasks.           *)
EXTENDS ConduitDoors, TLC

CONSTANTS p1, s1, t1, t2, b1, b2

MCProjects == {p1}
MCStories == {s1}
MCTasks == {t1, t2}
MCBodies == {b1, b2}
MCParent == [i \in MCStories \cup MCTasks |-> IF i \in MCStories THEN p1 ELSE s1]

\* The two tasks of s1 are interchangeable, and so are the two bodies.
Symmetry == Permutations({t1, t2}) \cup Permutations({b1, b2})

=============================================================================
