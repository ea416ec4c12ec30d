\* The request of the repository's ETH test, and what its input becomes.
CONSTANTS
  CmdLen = {}
  RetLen = {}
  Capacity = 4102
  MaxWaits = 0
  FidoCmdLen = {}
  FidoRetLen = {}
  Lists = {}
  Cuts = {}
  Txs = {}
  Requests <- TestRequests
  Transfers = {}
SPECIFICATION FormatSpec
INVARIANT InputIsSigned
