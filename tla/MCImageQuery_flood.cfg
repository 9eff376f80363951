\* Two clients, one holder, one client may leave.
CONSTANTS
    a = a
    b = b
    c = c
    u = u
    v = v
    w = w
    Node = {a, b, c}
    NoNode = NoNode
    NoClient = NoClient
    Links <- Mesh
    File = {"x", "y"}
    Files <- OneHolder
    Client = {u, v}
    Requests <- AnyRequests
    PR_MAXPEERS = 2
    SearchIds = 2
    LargeImages = FALSE
    MaxLeaves = 1
SPECIFICATION Spec
SYMMETRY ClientSymmetry
CHECK_DEADLOCK FALSE
INVARIANTS
    TypeOK
    ClientsAccountedFor
    SearchesWereAsked
    FloodOnce
    TransfersOK
PROPERTIES
    ImplementsService
    NewSearchesStart
