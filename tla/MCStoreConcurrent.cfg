SPECIFICATION Spec
CONSTANTS
    Key = {1, 2}
    TTL = 1
    Ns = {n1, n2}
    Proc = {p1, p2}
    TreeId = {1, 2}
    Ops = {"put", "timer", "countServer"}
    MaxNow = 1
    MaxPuts = 2
    MaxLists = 0
SYMMETRY Goroutines
INVARIANTS
    TypeOK
    ServerSumBounds
PROPERTIES
    LossOnlyConcurrent
