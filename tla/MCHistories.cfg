\* Two sessions at conduit's merge door; two engines admitting pages.
SPECIFICATION Spec
CONSTANTS
  t1 = t1
  t2 = t2
  Nothing = Nothing
  WorkTasks <- MCTasks
  Changes <- MCChanges
  Author <- MCAuthor
  Green <- MCGreen
  Sessions = {alice, bob}
  MaxCalls = 5
  CanDie = TRUE
  Engines = {p, q}
  Slugs = {"section", "page"}
  Ancestors <- MCAncestors
  Places <- MCPlaces
  Texts = {"loose", "bad"}
  FirstTree <- MCFirstTree
  Subtrees <- MCSubtrees
  Settings <- MCSettings
  MaxEdits = 2
  MaxActs = 4
SYMMETRY Symmetry
INVARIANTS
  MainIsAsGated
  AdmissionsAreWhole
PROPERTIES
  MainOnlyGrows
CHECK_DEADLOCK FALSE
