SPECIFICATION FairSpec
CONSTANTS
    Users = {"alice", "bob", "admin"}
    Pairs = {"btc"}
    Request <- MCMarketBuy
    Orders <- MCMarketBuyOrders
    Closers = {}
    SweepsMidTick = TRUE
    Funds = 8
    Lot = 2
    NoRow = NoRow
INVARIANTS
    EscrowIsBacked
    ClaimsAreExclusive
PROPERTIES
    LatchIsReleased
    MarketOrdersLeave
