\* Every use of a connection; up to three searches. Packets take 3 to 9 bytes, a read returns up to 6. The reader may wait for ever, so deadlock is not checked.
CONSTANTS
    HeaderLen = 2
    PeeringLen = 3
    AddrLen = 2
    SearchLen = 4
    IqryLen = 5
    ImsgLen = 4
    BUFFER_SIZE = 6
    PeerCounts = {0, 1, 3}
    ImageSizes = {1, 5}
    MaxSearches = 3
SPECIFICATION FairSpec
CHECK_DEADLOCK FALSE
INVARIANTS
    TypeOK
    InStep
    ExitMeansNextPacket
PROPERTIES
    PacketsDealtWith
    EndOfStreamHangs
