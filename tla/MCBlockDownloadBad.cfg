SPECIFICATION Spec
CONSTANTS
    Blocks <- MCBlocks
    Genesis = "g"
    NULL = "null"
    Anc <- MCAnc
    BadBody <- BadOnes
    Peers <- MCPeers
    Preferred <- MCPeers
    Reliable <- OneReliable
    MaxInTransit = 2
    Window = 1
    MaxConnects = 3
INVARIANTS
    TypeOK
    InFlightExact
    CountersExact
    TransitBounded
    StallerOwes
    CommonComplete
CHECK_DEADLOCK FALSE
