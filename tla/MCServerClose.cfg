SPECIFICATION FairSpec
CONSTANTS
    Node = {n1}
    Down = {}
    NoNode = NoNode
    Req = {r1, r2}
    NoReq = NoReq
    Conn = {c1}
    Udp = Udp
    Worker = {w1, w2}
    Cap = 1
    Cmd = {"P"}
    SpareKey = FALSE
    May = {"close", "clear"}
PROPERTIES
    ReadPutApplied
    CloseDrains
\* a client may make no more requests, and a panic ends the process
CHECK_DEADLOCK FALSE
