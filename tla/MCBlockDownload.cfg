SPECIFICATION FairSpec
CONSTANTS
    Blocks <- GoodBlocks
    Genesis = "g"
    NULL = "null"
    Anc <- MCAnc
    BadBody <- NoBlocks
    Peers <- MCPeers
    Preferred <- MCPeers
    Reliable <- OneReliable
    MaxInTransit = 2
    Window = 1
    MaxConnects = 3
INVARIANTS
    InFlightExact
    CountersExact
    CommonComplete
PROPERTY SyncCompletes
CHECK_DEADLOCK FALSE
