SPECIFICATION Spec
CONSTANTS
    Users = {"alice", "bob"}
    Pairs = {"btc"}
    Request <- MCLimits
    Orders <- MCLimitsOrders
    Closers = {"alice"}
    SweepsMidTick = FALSE
    Funds = 12
    Lot = 2
    NoRow = NoRow
INVARIANTS
    TypeOK
    NoDoublePay
    InOrderIsReservations
