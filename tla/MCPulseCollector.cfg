SPECIFICATION Spec
CONSTANTS
  t1 = t1
  t2 = t2
  h1 = h1
  h2 = h2
  NoToken = NoToken
  Tokens = {t1, t2}
  Handlers = {h1, h2}
  Durable = TRUE
  MaxBoots = 2
  MaxFaults = 1
  CanShred = TRUE
INVARIANTS ResponsesCount SpentIsRecordedUntilFailure
PROPERTIES ShreddingIsFinal
CHECK_DEADLOCK FALSE
