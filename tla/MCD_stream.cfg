SPECIFICATION FairSpec
CONSTANTS
    Levels = {"bid", "ask"}
    MaxUpdates = 5
    VenueBook <- MCVenueBook
    GapRequests = {"gap1", "gap2"}
    MaxWire = 2
    MaxBuffered = 2
    MaxFaults = 2
    MaxFailures = 2
INVARIANTS
    TypeOK
    CacheIsVenueBook
    NothingStranded
    ReconnectIsAlone
PROPERTIES
    Recovers
CHECK_DEADLOCK FALSE
