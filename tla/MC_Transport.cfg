CONSTANTS
    p1 = p1
    p2 = p2
    Peers <- MCPeers
    MaxRequests = 1
    MaxInbound = 1
    MaxQueue = 2
SPECIFICATION Spec
INVARIANTS
    TypeOK
    SetHoldsLiveNormal
    ReplyAtMostOnce
