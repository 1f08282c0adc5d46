--------------------------- MODULE MCAdrDecisions ---------------------------
(***************************************************************************)
(* AdrDecisions for TLC: two sessions, over a knowledge base that holds no *)
(* decision, or an accepted one with a hand-written Implementation section *)
(* and a proposal with a stored plan.                                      *)
(***************************************************************************)
EXTENDS AdrDecisions, TLC

Prose == "prose"
HandWritten == <<Implementation, Prose>>
Empty == <<>>
MCBodies == {Empty, HandWritten}
MCPlans == {<<"step">>}
MCLines == Headings \cup Markers \cup {Prompt, Prose, "step", "draft"}

Decision(id, status, body) ==
  [id |-> id, status |-> status, supersedes |-> 0, supersededBy |-> 0, review |-> FALSE, body |-> body]

MCStarts ==
  {NoPages}
    \cup
  {[s \in {<<1, a>>, <<2, b>>} |->
      IF s[1] = 1 THEN Decision(1, "accepted", HandWritten)
                  ELSE Decision(2, "proposed", Section(<<"draft">>))] : a, b \in Titles}

Symmetry == Permutations(Sessions) \cup Permutations(Titles)
=============================================================================
