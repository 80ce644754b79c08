SPECIFICATION FairSpec
CONSTANTS
    Placements = {"b"}
    Side <- MCSide
    Stake <- MCStake
    Cancels = {}
    Target <- MCTarget
    Claims = {}
    Resets = {"r1"}
    Closers = {"c"}
    Matching = TRUE
    Errors = {"reply_lost", "write_refused", "coins_unread"}
    MaxCrashes = 1
    Seed = 3
    Coin0 = 2
INVARIANTS
    ResetIsAlone
PROPERTIES
    AccountIsFreed
CHECK_DEADLOCK FALSE
