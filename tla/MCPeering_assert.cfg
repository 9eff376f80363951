\* Four nodes, nobody stopped, no crossing SYNs: the assertion of registerConnectedPeer.
CONSTANTS
    a = a
    b = b
    c = c
    d = d
    Node = {a, b, c, d}
    NoNode = NoNode
    MaxPeers <- MCMaxPeers
    MAX_REJECTED = 2
    PR_MAXPEERS = 6
    MaxStops = 0
    CrossingSyns = FALSE
SPECIFICATION Spec
SYMMETRY Symmetry
CHECK_DEADLOCK FALSE
INVARIANTS
    ConnectedPeerNotRejected
