SPECIFICATION FairSpec
CONSTANTS
  maxTasks = 2
  WORD = 16
  BYTE = 4
  LATEST = 9
  TENTH = 3
  GRAIN = 2
  Halves = {1, 2}
  STEP_MAX = 2
  Tenths = {1, 3}
  MaxGap = 2
INVARIANTS TypeOK NoTaskLost NotEarly NeverStale
PROPERTY TaskRuns
