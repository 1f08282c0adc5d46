SPECIFICATION Spec
CONSTANTS
  p1 = p1
  s1 = s1
  t1 = t1
  t2 = t2
  b1 = b1
  b2 = b2
  Projects <- MCProjects
  Stories <- MCStories
  Tasks <- MCTasks
  Bodies <- MCBodies
  Parent <- MCParent
  NoSeal = NoSeal
SYMMETRY Symmetry
INVARIANTS DoorsAgree
PROPERTIES LandingIsSigned TerminalFrozen
