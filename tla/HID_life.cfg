\* Three commands, three handles, a device that is unplugged and plugged in again.
CONSTANTS
  MaxCmd = 3
  MaxOpen = 3
  MaxReports = 3
SPECIFICATION FairSpec
INVARIANTS
  ReplyIsOwn
  PowerLossNoticed
  InitComesFirst
PROPERTY SendDataEnds
