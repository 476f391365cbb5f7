SPECIFICATION Spec
CONSTANTS
    HashSize = 4
    IdSize = 3
    NamespaceSize = 1
    DataValueSize = 3
    preSharedKey <- MCKey
    Digest <- MCDigest
    IdBytesUsed = {10, 13, 46, 65}
    Namespaces <- MCNamespaces
    TextBytes = {10, 46, 65}
    MaxText = 4
    Counts <- MCCounts
INVARIANTS
    UdpExact
    TcpExact
    DataIsPrefix
    CutNeverPanics
    CountExact
\* a message is sent once
CHECK_DEADLOCK FALSE
