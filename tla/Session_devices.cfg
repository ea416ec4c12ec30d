\* Two devices that come and go while their handles wrap, one context address, two coin
\* types.
CONSTANTS
  NULL = NULL
  a1 = a1
  a2 = a2
  p1 = p1
  p2 = p2
  mUnit = mUnit
  bUnit = bUnit
  coinA = coinA
  coinB = coinB
  MaxID = 2
  Path = {p1, p2}
  CoinTyped = {p1, p2}
  Resettable = {}
  Addr = {a1}
  Unit = {mUnit}
  mBTC = mUnit
  Coin = {coinA, coinB}
  COINBTC = coinA
  TimeoutArg = {601}
  Called <- DeviceCalls
SPECIFICATION Spec
SYMMETRY PathSymmetry
INVARIANTS
  TypeOK
  LastIsConfigured
  CommandUnderOwnSettings
  ContextKeepsDevice
