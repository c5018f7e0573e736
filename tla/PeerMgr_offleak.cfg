\* Power-off racing outbound sessions: an instance closing when power-off reaches it.
CONSTANTS
    Nodes = {n1}
    Ptns = {p1, p2}
    NoPtn = NoPtn
    NoNode = NoNode
    MaxPeers = 2
    MaxOutbounds = 2
    MaxInbounds = 1
    StaticMaxInBounds = 0
    NoAccept = FALSE
    PeInstMaxPingpongCnt = 1
    MaxAccepts = 0
    MaxAppCloses = 0
    MaxPiMbox = 0
    PowerOff = TRUE
    Static = FALSE
    StaticNodes = {}
SPECIFICATION Spec
INVARIANT ConnClosedWhenKilled
