SPECIFICATION Spec
CONSTANTS
  BASE = 2
  TIMEOUT_PERIOD = 1
  EXIT_GRACE = 0
  NPages = 1
  PageBytes = 2
  EEBytes = 2
  Images = {"i1"}
  HostCommands = {"E", "A", "B", "g", "C", "c", "m", "R", "D", "d", "T", "query", "sync", "unknown"}
  HostAddrs = {0}
  HostSizes = {0, 2}
  HostMems = {"E", "other"}
  HostSuspends = FALSE
  IdleCap = 2
  Resets = {"PORF"}
INVARIANTS AckedBlockIsProgrammed
CONSTRAINT NoGlitch
