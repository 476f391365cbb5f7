SPECIFICATION FairSpec
CONSTANTS
    Req = {r1, r2}
    NoReq = NoReq
    IdSpace = 3
    Timeout = 1
    Kind = {"data"}
    WriteMayFail = TRUE
    MayClose = FALSE
    MaxRestarts = 0
INVARIANTS
    ReplyMatches
PROPERTIES
    ReturnsUnlessDropped
\* a panic ends the process
CHECK_DEADLOCK FALSE
