SPECIFICATION PulseSpec
CONSTANTS
  ann = ann
  bob = bob
  b1 = b1
  Nobody = Nobody
  NoToken = NoToken
  Tokens = {t1, t2, t3}
  Employees = {ann, bob}
  Batches = {b1}
  Assigned <- Roster
  Engine = "roster"
  Cap = 2
  Malformed = TRUE
  MaxBoots = 2
  MaxRequests = 3
  Handlers = {h1, h2}
SYMMETRY Symmetric
CONSTRAINT OneEnding
INVARIANTS QuotaAddsUp VotesAreSound
PROPERTIES QuotaIsFair
CHECK_DEADLOCK FALSE
