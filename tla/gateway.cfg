SPECIFICATION FairSpec
CONSTANTS
  Node = {"n1", "n2"}
  Acking = {"n1"}
  Data = {"d1", "d2", "d3"}
  Readings <- MCReadings
  Reporter = "n1"
  None = "none"
  RETRY_LIMIT = 1
  MAX_WAIT = 1
INVARIANTS TypeOK PrintedIfUntouched CopiesBounded
PROPERTIES ImplementsLink RfwriteReturns LoopGoesOn
