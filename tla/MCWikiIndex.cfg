SPECIFICATION Spec
CONSTANTS
  e1 = e1
  e2 = e2
  p1 = p1
  p2 = p2
  note = note
  page = page
  x = x
  None = None
  Engines = {e1, e2}
  Pages = {p1, p2}
  Contents <- OneText
  Types = {note}
  DefaultType = page
  AutoRebuild = TRUE
  MaxCommits = 3
  MaxEdits = 2
  Servers = {s, t, u}
  Keep = 2
  MaxUpdates = 2
  MaxRequests = 2
  MaxRestarts = 1
SYMMETRY Symmetry
CONSTRAINTS FewRounds FewAtOnce
INVARIANTS IndexKeepsUp WorkIsAccountedFor GraphsKeepUpUntilOverlap
CHECK_DEADLOCK FALSE
