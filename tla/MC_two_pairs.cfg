SPECIFICATION Spec
CONSTANTS
    Users = {"alice", "bob"}
    Pairs = {"btc", "eth"}
    Request <- MCCrossing
    Orders <- MCCrossingOrders
    Closers = {}
    SweepsMidTick = TRUE
    Funds = 8
    Lot = 2
    NoRow = NoRow
INVARIANT NoDoublePay
