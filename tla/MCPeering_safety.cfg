\* Four nodes, one with three slots, the others with two; one process may be stopped, SYNs may cross. A node may rest for ever, so deadlock is not checked.
CONSTANTS
    a = a
    b = b
    c = c
    d = d
    Node = {a, b, c, d}
    NoNode = NoNode
    MaxPeers <- WideMaxPeers
    MAX_REJECTED = 2
    PR_MAXPEERS = 6
    MaxStops = 1
    CrossingSyns = TRUE
SPECIFICATION Spec
SYMMETRY WideSymmetry
CHECK_DEADLOCK FALSE
INVARIANTS
    TableBound
    RejectedOK
    SocketsMatchTable
    AnswerExpected
    TodoAvailable
    PendingAnswered
    ConnectedAgreement
    IInv
PROPERTIES
    FirstThrow
    ImplementsMembership
