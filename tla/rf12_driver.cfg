SPECIFICATION FairSpec
CONSTANTS
  RF12_MAXDATA = 2
  DRSSI_BYTES = 4
  NodeId = 2
  Packets <- MCPackets
  SendLens = {0, 2}
  FixedLens = {0, 1}
  Calls = {"recvDone", "canSend", "sendNow", "ack", "sleep", "restore", "setFixedLength"}
INVARIANTS TypeOK GoodPacketIsWhole RadioFollowsState RssiIsTheBand
PROPERTY SentAsGiven
PROPERTY CallsReturn
