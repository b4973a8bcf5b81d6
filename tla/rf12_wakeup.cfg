SPECIFICATION Spec
CONSTANTS
  RF12_MAXDATA = 1
  DRSSI_BYTES = 4
  NodeId = 2
  Packets <- MCOnePacket
  SendLens = {0}
  FixedLens = {0}
  Calls = {"recvDone", "sleep", "setWatchdog", "watchdogFired"}
INVARIANT WakeUpStands
CONSTRAINT RadioStops
