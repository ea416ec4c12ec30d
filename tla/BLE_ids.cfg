\* Two devices, IDs that come round after three connections, and a number to spare for links.
CONSTANTS
  Devs = {d1, d2}
  NULL = NULL
  MaxID = 3
  MaxLinks = 3
  MaxConn = 4
SPECIFICATION Spec
INVARIANTS
  EveryLinkHasID
  DeadHandleNoticed
PROPERTY LatestReached
