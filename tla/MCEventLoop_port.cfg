\* Ports of two bits; one command line asks for port 5. A process that has ended stays so, so deadlock is not checked.
CONSTANTS
    Node = {a, b, c}
    NoNode = NoNode
    MAX_REJECTED = 2
    INT_BITS = 4
    SIZE_BITS = 5
    PORT_BITS = 2
    PR_MAXPEERS = 2
    FD_MAX = 7
    MAX_BUCKETS = 8
    CommandLines <- SomeCommandLines
SPECIFICATION Spec
CHECK_DEADLOCK FALSE
INVARIANTS
    PortAsGiven
