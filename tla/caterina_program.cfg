SPECIFICATION Spec
CONSTANTS
  BASE = 2
  TIMEOUT_PERIOD = 1
  EXIT_GRACE = 0
  NPages = 2
  PageBytes = 4
  EEBytes = 1
  Images = {"i1"}
  HostCommands = {"A", "B", "g", "e"}
  HostAddrs = {0, 2}
  HostSizes = {4}
  HostMems = {"F"}
  HostSuspends = FALSE
  IdleCap = 2
  Resets = {"PORF"}
INVARIANTS AckedBlockIsProgrammed ReadBackIsReal AddressesInRange
CONSTRAINT NoGlitch
