CONSTANTS
  Wikis = {w1, w2}
  Known = {w1}
  Default = w1
  Audible = {w1}
  Threads = {t1, t2}
  Contents <- MCContents
  NoOwner = noOwner
  None = None
  MaxCalls = 3
  MaxHands = 1
  MaxStarts = 1
  MaxSpent = 4
  d1 = d1
  d2 = d2
  a = a
  b = b
  Shells = {s1, s2}
  Dirs = {d1, d2}
  Titles = {a, b}
  NoTitle = noTitle
  Roots = {"content", "docs"}
  Commands <- MCCommands
  FirstHomes <- MCFirstHomes
  MaxCommands = 3
  MaxDeaths = 1
SYMMETRY Symmetric
SPECIFICATION Spec
CHECK_DEADLOCK FALSE
INVARIANTS EngineAgrees
PROPERTIES OwnersKeep EditsAreNoticed SettingsHold
