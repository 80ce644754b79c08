SPECIFICATION Spec
CONSTANTS
    Placements = {"s"}
    Side <- MCSide
    Stake <- MCStake
    Cancels = {"cs"}
    Target <- MCTarget
    Claims = {"k1", "k2"}
    Resets = {"r1", "r2"}
    Closers = {}
    Matching = FALSE
    Errors = {}
    MaxCrashes = 1
    Seed = 3
    Coin0 = 2
INVARIANTS
    TypeOK
    NothingRestsAtReset
    NoMint
    ClaimPaysOnce
PROPERTIES
    ResetTellsTruth
CHECK_DEADLOCK FALSE
