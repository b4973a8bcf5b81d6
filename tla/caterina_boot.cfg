SPECIFICATION FairSpec
CONSTANTS
  BASE = 4
  TIMEOUT_PERIOD = 11
  EXIT_GRACE = 3
  NPages = 1
  PageBytes = 2
  EEBytes = 1
  Images = {"i1"}
  HostCommands = {"A", "B", "E"}
  HostAddrs = {0}
  HostSizes = {2}
  HostMems = {"F", "other"}
  HostSuspends = TRUE
  IdleCap = 12
  Resets = {"PORF", "EXTRF", "BORF", "WDRF"}
INVARIANTS TypeOK BootKeyOneShot StaysOpen TimerRunsInLoop
CONSTRAINT NoGlitch
PROPERTY SketchGetsItsTurn
