\* Two requests one after the other, TLVs and signed transactions of every remainder.
CONSTANTS
  ChunkLen = 230
  PieceLen = 256
  EthMax = 2048
  Sizes <- SomeSizes
  RawLens <- SomeRawLens
  Shorts <- SomeShorts
  MaxSign = 2
SPECIFICATION Spec
INVARIANTS
  RawIsWhole
PROPERTIES
  ImplementsSigning
CHECK_DEADLOCK FALSE
