CONSTANTS
    p1 = p1
    p2 = p2
    p3 = p3
    Protocols <- MCProtocols
    Networks <- MCNetworks
    Alphabet = {"a", "A", "-", "e"}
    MaxLen = 3
    MaxFailures = 2
SYMMETRY ProtocolSymmetry
SPECIFICATION Spec
INVARIANT TasksShareNetworkClient
INVARIANT OneClientPerNetwork
