\* Both threads run: every SendData returns and a dead handle is dropped.
CONSTANTS
  MaxCmd = 2
  MaxConn = 2
  MaxPackets = 2
  MaxSeq = 1
SPECIFICATION FairSpec
PROPERTIES
  SendDataReturns
  DeadHandleDropped
