\* Two nodes, one peer slot, one outbound slot: the capacity branches of outbound and admission. The outbound stall of OutboundKeepsDriving leaves the model with nothing to do once the bounded listener is exhausted, so deadlock is not checked.
CHECK_DEADLOCK FALSE
CONSTANTS
    Nodes = {n1, n2}
    Ptns = {p1, p2}
    NoPtn = NoPtn
    NoNode = NoNode
    MaxPeers = 1
    MaxOutbounds = 1
    MaxInbounds = 2
    StaticMaxInBounds = 0
    NoAccept = FALSE
    PeInstMaxPingpongCnt = 1
    MaxAccepts = 2
    MaxAppCloses = 0
    MaxPiMbox = 0
    PowerOff = FALSE
    Static = FALSE
    StaticNodes = {}
SPECIFICATION Spec
INVARIANT WorkersWithinCaps
