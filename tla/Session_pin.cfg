\* The comment of VerifyPIN against the code.
CONSTANTS
  NULL = NULL
  a1 = a1
  a2 = a2
  p1 = p1
  p2 = p2
  mUnit = mUnit
  bUnit = bUnit
  coinA = coinA
  coinB = coinB
  MaxID = 2
  Path = {p1}
  CoinTyped = {p1}
  Resettable = {}
  Addr = {a1}
  Unit = {mUnit}
  mBTC = mUnit
  Coin = {coinA}
  COINBTC = coinA
  TimeoutArg = {601}
  Called <- EveryCall
SPECIFICATION Spec
INVARIANT PINUnderSelectedApplet
