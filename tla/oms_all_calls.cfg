CONSTANTS
  t1 = t1
  t2 = t2
  BTC = BTC
  ETH = ETH
  None = None
  Tasks = {t1, t2}
  Symbols = {BTC}
  Orders = {1, 2, 3}
  OpenIds = {1, 2}
  Objects = {1, 2, 3, 4, 5}
  MaxQty = 1
  Tifs = {"GTC"}
  Calls = {"open", "close", "stop", "cancel", "sync", "algo", "abandon"}
SPECIFICATION FairSpec
CHECK_DEADLOCK FALSE
INVARIANT InFlightIsOwned
PROPERTY StopLocks
PROPERTY ImplementsLifecycle
