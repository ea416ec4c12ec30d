\* Three commands over two connections, answers of up to three packets.
CONSTANTS
  MaxCmd = 3
  MaxConn = 2
  MaxPackets = 3
  MaxSeq = 1
SPECIFICATION Spec
INVARIANTS
  ReplyWhole
  LagBoundedByAbandoned
  FreshUntilAbandoned
