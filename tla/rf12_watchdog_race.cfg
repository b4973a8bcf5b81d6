SPECIFICATION Spec
CONSTANTS
  RF12_MAXDATA = 1
  DRSSI_BYTES = 4
  NodeId = 2
  Packets <- MCTwoPackets
  SendLens = {0}
  FixedLens = {0}
  Calls = {"recvDone", "setWatchdog"}
INVARIANT BufferBound
