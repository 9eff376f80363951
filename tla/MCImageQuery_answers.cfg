\* Every client is answered and searches die out: small images.
CONSTANTS
    a = a
    b = b
    c = c
    u = u
    v = v
    w = w
    Node = {a, b, c}
    NoNode = NoNode
    NoClient = NoClient
    Links <- Mesh
    File = {"x", "y"}
    Files <- OneHolder
    Client = {u, v}
    Requests <- AnyRequestsOfTwo
    PR_MAXPEERS = 2
    SearchIds = 2
    LargeImages = FALSE
    MaxLeaves = 0
SPECIFICATION FairSpec
CHECK_DEADLOCK FALSE
PROPERTIES
    ClientsAnswered
    FloodEnds
