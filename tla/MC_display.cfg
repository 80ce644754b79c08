SPECIFICATION FairSpec
CONSTANTS
    Pairs = {ltc, dora}
    None = None
    MaxChanges = 1
    MaxSwitches = 1
    MaxLosses = 1
    MaxMounts = 2
INVARIANTS
    TypeOK
    NoRequestForgotten
    UsableIsNewest
PROPERTIES
    ScreenSettles
