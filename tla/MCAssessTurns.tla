---------------------------- MODULE MCAssessTurns ----------------------------
(***************************************************************************)
(* AssessTurns for TLC: two requests at a time.                            *)
(***************************************************************************)
EXTENDS AssessTurns, TLC

MCBudgets == {[min |-> 1, max |-> 2]}

Project(f, d, b, q) == [focus |-> f, docs |-> d, budget |-> b, queue |-> q]

\* A new project; one in Scoping whose first card is open and whose second
\* question waits; one in Questions with a budget and a document.
MCStarts ==
  {[proj |-> Project("scoping", {}, Nothing, <<>>), chat |-> NoChat, asked |-> 0],
   [proj |-> Project("scoping", {}, Nothing, <<2>>), asked |-> 2,
    chat |-> [log |-> <<FromUser, 1>>, open |-> {1}]]}
    \cup
  {[proj |-> Project("questions", {d}, b, <<>>), asked |-> 0,
    chat |-> [log |-> <<FromUser, PlainText>>, open |-> {}]] : d \in Documents, b \in MCBudgets}

Symmetry == Permutations(Handlers) \cup Permutations(Documents) \cup Permutations(PracticeIds)
=============================================================================
