------------------------------ MODULE MCAssess ------------------------------
(***************************************************************************)
(* AssessResponses for TLC: two turns of the agent and two requests of the *)
(* respondent, over a draft that grows to two domains, two practices and   *)
(* two questions.                                                          *)
(***************************************************************************)
EXTENDS AssessResponses, TLC

CONSTANTS d1, d2, p1, p2, q1, q2

OneDomain(d, p, o) == [Empty EXCEPT !.doms = <<d>>, !.pracs[d] = <<p, o>>]
TwoDomains(d, e, p) == [Empty EXCEPT !.doms = <<d, e>>, !.pracs[d] = <<p>>]

\* What the language model answers: one domain with two practices, or two
\* domains and a practice, under whatever ids.
MCStructures ==
  {OneDomain(d1, p1, p2), OneDomain(d2, p2, p1), TwoDomains(d1, d2, p1), TwoDomains(d2, d1, p2)}

\* No draft yet; two domains, a practice and a question; one domain whose two
\* practices have a question each.
MCStarts ==
  {None, [TwoDomains(d1, d2, p1) EXCEPT !.qs[p1] = {q1}],
   [OneDomain(d1, p1, p2) EXCEPT !.qs[p1] = {q1}, !.qs[p2] = {q2}]}

Symmetry ==
  Permutations(Writers) \cup Permutations(Requests)
=============================================================================
