SPECIFICATION Spec
CONSTANTS
    Key = {1, 2}
    TTL = 2
    Ns = {n1, n2}
    Proc = {p1}
    TreeId = {1, 2}
    Ops = {"put", "count", "countEntries", "countServer", "keyMatch", "namespaces", "timer", "toggle"}
    MaxNow = 3
    MaxPuts = 2
    MaxLists = 1
INVARIANTS
    AckedReachable
