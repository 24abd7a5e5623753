\* Two callers that submit and cancel at the paper venue, with objects enough for
\* every order to fill; two orders and one fault at the live one; one parent
\* order of each kind.
SPECIFICATION VenuesSpec
CONSTANTS
    t1 = t1
    t2 = t2
    BTC = BTC
    ETH = ETH
    None = None
    Tasks = {t1, t2}
    Symbols = {BTC}
    Orders = {1, 2, 3}
    OpenIds = {1, 2, 3}
    Objects = {1, 2, 3, 4}
    MaxQty = 2
    Tifs = {"GTC"}
    Calls = {"open", "cancel"}
    LiveOrders = {1, 2}
    LiveQty = 2
    Histories <- NoPast
    LiveFaults = {"lost", "silent", "query", "cancel", "refused"}
    Jobs <- ParentOrders
    MaxRetries = 3
    MaxUnseen = 12
    MaxLiveFaults = 1
INVARIANTS
    NothingIsLost
    BooksAgree
    NoEndIsShort
    OverbookingIsBounded
    ExecutesWhatItSays
PROPERTIES
    DoneIsNoticed
CHECK_DEADLOCK FALSE
