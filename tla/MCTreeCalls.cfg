SPECIFICATION Spec
CONSTANTS
    Key = {1, 2}
    TTL = 1
    Thread = {t1, t2}
    Pattern = {{1, 2}}
    MaxNow = 3
    MaxPuts = 2
SYMMETRY Goroutines
INVARIANTS
    TypeOK
    ExpiredFirst
    KeysComplete
    KeysSumBounds
    KeyMatchComplete
PROPERTIES
    ImplementsCounter
\* a panic ends the process
CHECK_DEADLOCK FALSE
