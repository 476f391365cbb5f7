SPECIFICATION FairSpec
CONSTANTS
    Req = {r1, r2}
    NoReq = NoReq
    Conn = {c1, c2}
    Nil = Nil
    Dotted = {r1}
INVARIANTS
    TypeOK
    ReplyOwn
    OpenTracked
    CloseCloses
    PanicKnown
PROPERTIES
    ReturnsUnlessSilent
\* the program may make no more requests, and a panic ends the process
CHECK_DEADLOCK FALSE
