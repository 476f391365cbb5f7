SPECIFICATION FairSpec
CONSTANTS
    Key = {1}
    TTL = 1
    Ns = {n1, n2}
    Proc = {p1, p2}
    TreeId = {1, 2}
    Ops = {"put", "timer", "namespaces"}
    MaxNow = 2
    MaxPuts = 2
    MaxLists = 1
INVARIANTS
    ChainsAddUp
PROPERTIES
    DeadCollected
