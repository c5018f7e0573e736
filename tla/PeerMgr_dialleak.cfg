\* An outbound dial in progress when the instance is killed as a duplicate.
CONSTANTS
    Nodes = {n1}
    Ptns = {p1, p2}
    NoPtn = NoPtn
    NoNode = NoNode
    MaxPeers = 2
    MaxOutbounds = 2
    MaxInbounds = 1
    StaticMaxInBounds = 0
    NoAccept = FALSE
    PeInstMaxPingpongCnt = 1
    MaxAccepts = 1
    MaxAppCloses = 0
    MaxPiMbox = 0
    PowerOff = FALSE
    Static = FALSE
    StaticNodes = {}
SPECIFICATION Spec
INVARIANT ConnClosedWhenKilled
