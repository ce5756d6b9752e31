SPECIFICATION Spec
CONSTANTS
    Peers = {f1}
    Callers = {h1, loop}
    Loop = loop
    Cluster = {f1}
    MaxPeers = 2
INVARIANT DepartedPeersHidden
