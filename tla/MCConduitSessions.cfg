SPECIFICATION Spec
CONSTANTS
  p1 = p1
  s1 = s1
  t1 = t1
  b1 = b1
  b2 = b2
  alice = alice
  bob = bob
  NoSeal = NoSeal
  Projects = {p1}
  Stories = {s1}
  Tasks = {t1}
  Parent <- MCParent
  Bodies = {b1, b2}
  Order <- MCOrder
  Sessions = {alice, bob}
  MaxCalls = 5
  MaxTrouble = 2
CHECK_DEADLOCK FALSE
SYMMETRY Symmetry
INVARIANTS PagesAgree
PROPERTIES TerminalUntilOverlap ImplementsDoors
