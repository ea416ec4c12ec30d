\* Any interleaving of callbacks and connections; answers may be longer than the index allows.
CONSTANTS
  MaxCmd = 2
  MaxConn = 2
  MaxPackets = 4
  MaxSeq = 1
SPECIFICATION Spec
INVARIANTS
  TypeOK
  HandleIsLive
  StatusAgrees
PROPERTIES
  RepliesInOrder
