SPECIFICATION Spec
CONSTANTS
    Key = {1}
    TTL = 2
    Ns = {n1}
    Proc = {p1, p2}
    TreeId = {1, 2}
    Ops = {"put"}
    MaxNow = 2
    MaxPuts = 2
    MaxLists = 0
SYMMETRY Goroutines
INVARIANTS
    AckedReachable
CHECK_DEADLOCK FALSE
