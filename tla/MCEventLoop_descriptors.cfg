\* Three other nodes, seven descriptors, tables of two and three. A process that has ended stays so, so deadlock is not checked.
CONSTANTS
    Node = {a, b, c}
    NoNode = NoNode
    MAX_REJECTED = 2
    INT_BITS = 4
    SIZE_BITS = 5
    PORT_BITS = 2
    PR_MAXPEERS = 2
    FD_MAX = 7
    MAX_BUCKETS = 8
    CommandLines <- SomeCommandLines
SPECIFICATION FairSpec
CHECK_DEADLOCK FALSE
INVARIANTS
    TypeOK
    SnapshotValid
    DescriptorsOwned
    OnlyLeaksExhaust
    TimeoutHasClient
    TableSizeAsGiven
PROPERTIES
    ClientTimesOut
