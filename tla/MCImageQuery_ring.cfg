\* Three transfers of large images at once.
CONSTANTS
    a = a
    b = b
    c = c
    u = u
    v = v
    w = w
    Node = {a, b, c}
    NoNode = NoNode
    NoClient = NoClient
    Links <- Mesh
    File = {"x", "y", "z"}
    Files <- RingFiles
    Client = {u, v, w}
    Requests <- RingRequests
    PR_MAXPEERS = 3
    SearchIds = 1
    LargeImages = TRUE
    MaxLeaves = 0
SPECIFICATION FairSpec
CHECK_DEADLOCK FALSE
INVARIANTS
    TransfersOK
PROPERTIES
    TransfersProgress
