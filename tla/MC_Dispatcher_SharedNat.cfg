CONSTANTS
    a = a
    b = b
    Nodes <- MCNodes
    Addrs = {"pub", "lan"}
    PrivateAddrs = {"lan"}
    Ports = {1, 2, 3}
    NodeAddr <- SharedAddr
    NodePorts <- NatPorts
    MaxId = 2
    MaxSockets = 3
SPECIFICATION Spec
INVARIANTS
    ConnectedToOwnPeer
