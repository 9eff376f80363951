\* The holder gets two copies of the search of the first client.
CONSTANTS
    a = a
    b = b
    c = c
    u = u
    v = v
    w = w
    Node = {a, b, c}
    NoNode = NoNode
    NoClient = NoClient
    Links <- Mesh
    File = {"x", "y"}
    Files <- OneHolder
    Client = {u, v}
    Requests <- SameNodeRequests
    PR_MAXPEERS = 2
    SearchIds = 2
    LargeImages = FALSE
    MaxLeaves = 0
SPECIFICATION Spec
CHECK_DEADLOCK FALSE
INVARIANTS
    ImageAsAsked
