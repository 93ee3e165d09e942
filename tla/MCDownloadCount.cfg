SPECIFICATION Spec
CONSTANTS
    Blocks = {1, 2, 3}
    Parent <- MCParent
    Height <- MCHeight
    honest = honest
    other = other
    Nodes = {honest, other}
    PeerTip <- MCPeerTip
    Honest = {honest}
    Preferred = {honest, other}
    Window = 1
    MaxInTransit = 2
    None = None
INVARIANT QueuedExact
