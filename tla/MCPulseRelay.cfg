SPECIFICATION FairSpec
CONSTANTS
  r1 = r1
  r2 = r2
  r3 = r3
  None = None
  Requests = {r1, r2, r3}
  BatchSize = 2
  Stops = TRUE
INVARIANTS SubmissionsAreKept
PROPERTIES EveryoneIsServed
CHECK_DEADLOCK FALSE
