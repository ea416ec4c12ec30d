\* Lengths, counts and arguments around every limit of the formats.
CONSTANTS
  CmdLen <- ShortCmd
  RetLen <- Answers
  Capacity = 4102
  MaxWaits = 1
  FidoCmdLen <- FidoCommands
  FidoRetLen <- FidoAnswers
  Lists <- SomeLists
  Cuts <- SomeCuts
  Txs <- SomeTxs
  Requests <- SomeRequests
  Transfers <- SomeTransfers
SPECIFICATION FormatSpec
INVARIANTS
  CommandWhole
  AnswerWhole
  WrapsToFrame
  ParsesToPayload
  FindsWholeValues
  ReadsAsGiven
  DeviceReadsRequest
  TransferPays
