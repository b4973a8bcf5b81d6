SPECIFICATION FairSpec
CONSTANTS
  RETRIES = 3
  RETRY_MS = 2
  HALF = 64
  SECOND = 3
  FAST_MS = 1
  Secs = {0, 1}
  Data = {"d1", "d2"}
  Empty = "empty"
  ANSWER_MS = 2
  BUSY_MS = 1
  Patient = TRUE
  LastSubmit = 7
  MaxMillis = 20
INVARIANTS TypeOK SuppressedIsDelivered
PROPERTIES Spaced Settles ImplementsLink
