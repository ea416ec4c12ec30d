\* One device with an old BTC applet that may be reset, two contexts whose handles wrap,
\* two units and two timeouts.
CONSTANTS
  NULL = NULL
  a1 = a1
  a2 = a2
  p1 = p1
  p2 = p2
  mUnit = mUnit
  bUnit = bUnit
  coinA = coinA
  coinB = coinB
  MaxID = 2
  Path = {p1}
  CoinTyped = {}
  Resettable = {p1}
  Addr = {a1, a2}
  Unit = {mUnit, bUnit}
  mBTC = mUnit
  Coin = {coinA}
  COINBTC = coinA
  TimeoutArg = {60}
  Called <- CacheCalls
SPECIFICATION Spec
SYMMETRY AddrSymmetry
INVARIANTS
  LastIsConfigured
  CommandUnderOwnSettings
  HandlesOwnContexts
  NoLeakBeforeCollision
PROPERTY HandleKeepsContext
