SPECIFICATION Spec
CONSTANTS
    Users = {"alice", "bob", "carol"}
    Pairs = {"btc"}
    Request <- MCOpposing
    Orders <- MCOpposingOrders
    Closers = {}
    SweepsMidTick = TRUE
    Funds = 8
    Lot = 2
    NoRow = NoRow
INVARIANTS
    CoinsConserved
PROPERTIES
    KeepsEscrows
CHECK_DEADLOCK FALSE
