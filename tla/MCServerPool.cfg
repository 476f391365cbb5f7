SPECIFICATION FairSpec
CONSTANTS
    NumServers = 3
    NoServer = NoServer
    MayHang = TRUE
INVARIANTS
    TypeOK
    ListFresh
PROPERTIES
    Converges
    DisposeStops
