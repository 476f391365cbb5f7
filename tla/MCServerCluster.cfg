SPECIFICATION Spec
CONSTANTS
    Node = {n1, n2, n3}
    Down = {n3}
    NoNode = NoNode
    Req = {r1, r2}
    NoReq = NoReq
    Conn = {}
    Udp = Udp
    Worker = {w1, w2}
    Cap = 1
    Cmd = {"P", "C", "bad"}
    SpareKey = TRUE
    May = {"fail"}
INVARIANTS
    TypeOK
    PutOncePerServer
    
    ReplicaAccounted
    OneErrorPerRefusal
SYMMETRY ServersWorkersRequests
\* clients may make no more requests
CHECK_DEADLOCK FALSE
