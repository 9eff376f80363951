\* More searches under way than the history remembers.
CONSTANTS
    a = a
    b = b
    c = c
    u = u
    v = v
    w = w
    Node = {a, b, c}
    NoNode = NoNode
    NoClient = NoClient
    Links <- Mesh
    File = {"x", "y"}
    Files <- OneHolder
    Client = {u, v}
    Requests <- VainRequests
    PR_MAXPEERS = 1
    SearchIds = 1
    LargeImages = FALSE
    MaxLeaves = 0
SPECIFICATION FairSpec
CHECK_DEADLOCK FALSE
PROPERTIES
    FloodEnds
