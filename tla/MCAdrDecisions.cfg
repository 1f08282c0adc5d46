SPECIFICATION Spec
CONSTANTS
  Sessions = {s1, s2}
  Titles = {t1, t2}
  Lines <- MCLines
  Bodies <- MCBodies
  Plans <- MCPlans
  Schemes = {"sequential", "date", "uuid"}
  Starts <- MCStarts
  MaxCalls = 3
  None = None
SYMMETRY Symmetry
INVARIANTS CorpusIsClean
PROPERTIES DecidedStays PlansAreKept
CHECK_DEADLOCK FALSE
