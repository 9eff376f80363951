\* Four nodes, three of which can saturate each other; the list of rejecters holds two. A settled network stops, so deadlock is not checked.
CONSTANTS
    a = a
    b = b
    c = c
    d = d
    Node = {a, b, c, d}
    NoNode = NoNode
    MaxPeers <- MCMaxPeers
    MAX_REJECTED = 2
    PR_MAXPEERS = 6
    MaxStops = 0
    CrossingSyns = FALSE
SPECIFICATION RoundFairSpec
CHECK_DEADLOCK FALSE
PROPERTIES
    Settles
    RequestsAnswered
    NewcomerNeverSettles
