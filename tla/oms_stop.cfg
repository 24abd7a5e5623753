\* One caller, two symbols, and syncs.
SPECIFICATION Spec
CONSTANTS
    t1 = t1
    t2 = t2
    BTC = BTC
    ETH = ETH
    None = None
    Tasks = {t1}
    Symbols = {BTC, ETH}
    Orders = {1, 2, 3, 4}
    OpenIds = {1, 2}
    Objects = {1, 2, 3, 4, 5, 6}
    MaxQty = 2
    Tifs = {"GTC", "FOK"}
    Calls = {"open", "stop", "sync"}
INVARIANTS
    TypeOK
    StopFlattens
CHECK_DEADLOCK FALSE
