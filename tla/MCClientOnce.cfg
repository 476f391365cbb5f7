SPECIFICATION Spec
CONSTANTS
    Req = {r1, r2}
    NoReq = NoReq
    IdSpace = 1
    Timeout = 1
    Kind = {"data", "error", "other"}
    WriteMayFail = TRUE
    MayClose = TRUE
    MaxRestarts = 1
SYMMETRY Requests
INVARIANTS
    TypeOK
    AtMostOnce
    PanicKnown
    CallbackAccounted
\* a panic ends the process
CHECK_DEADLOCK FALSE
