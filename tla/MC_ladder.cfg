CONSTANTS
    Pairs = {"btc", "eth"}
    Visited = {"btc"}
    Generations = {"g1", "g2", "g3"}
    None = None
    MaxFaults = 2
SPECIFICATION FairSpec
INVARIANTS
    TypeOK
    OwnLadderOnly
    AcceptedIsBacked
PROPERTIES
    OrphansAreSwept
