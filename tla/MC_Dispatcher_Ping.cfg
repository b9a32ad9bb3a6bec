CONSTANTS
    a = a
    b = b
    Nodes <- MCNodes
    Addrs = {"pub", "lan"}
    PrivateAddrs = {"lan"}
    Ports = {1, 2}
    NodeAddr <- DistinctAddr
    NodePorts <- AnyPort
    MaxId = 2
    MaxSockets = 3
SPECIFICATION Spec
INVARIANTS
    PingReachesManager
