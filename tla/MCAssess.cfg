SPECIFICATION Spec
CONSTANTS
  d1 = d1 d2 = d2 p1 = p1 p2 = p2 q1 = q1 q2 = q2
  Domains = {d1, d2}
  Practices = {p1, p2}
  Questions = {q1, q2}
  Wordings = {0, 1}
  Writers = {w1, w2}
  Structures <- MCStructures
  Starts <- MCStarts
  MaxVersion = 2
  MaxCalls = 3
  None = None
  Requests = {r1, r2}
  MaxRequests = 3
  MaxBegun = 3
SYMMETRY Symmetry
INVARIANTS AssessmentsStand
PROPERTIES OnlyWhatWasNamed AnswersUntilOverlap
CHECK_DEADLOCK FALSE
