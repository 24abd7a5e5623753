CONSTANTS
  t1 = t1
  t2 = t2
  BTC = BTC
  ETH = ETH
  None = None
  Tasks = {t1}
  Symbols = {BTC}
  Orders = {1, 2, 3, 4}
  OpenIds = {1, 2}
  Objects = {1, 2, 3, 4}
  MaxQty = 1
  Tifs = {"GTC"}
  Calls = {"open", "stop"}
SPECIFICATION Spec
CHECK_DEADLOCK FALSE
INVARIANT StopFlattensPortfolio
