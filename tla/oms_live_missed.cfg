\* No fault: one order that fills as it is sent is enough.
SPECIFICATION VenuesSpec
CONSTANTS
    t1 = t1
    t2 = t2
    BTC = BTC
    ETH = ETH
    None = None
    Tasks = {t1, t2}
    Symbols = {BTC}
    Orders = {1, 2, 3}
    OpenIds = {1, 2, 3}
    Objects = {1, 2, 3, 4}
    MaxQty = 2
    Tifs = {"GTC", "FOK"}
    Calls = {"open", "cancel"}
    LiveOrders = {1, 2}
    LiveQty = 2
    Histories <- Past
    LiveFaults = {}
    Jobs <- ParentOrders
    MaxRetries = 3
    MaxUnseen = 12
    MaxLiveFaults = 0
INVARIANTS
    NoTradeIsMissed
CHECK_DEADLOCK FALSE
