\* Static network: one static node dialled out and also dialling in, one other node dialling in; an application close and a power-off.
CONSTANTS
    Nodes = {n1, n2}
    Ptns = {p1, p2}
    NoPtn = NoPtn
    NoNode = NoNode
    MaxPeers = 2
    MaxOutbounds = 1
    MaxInbounds = 0
    StaticMaxInBounds = 1
    NoAccept = FALSE
    PeInstMaxPingpongCnt = 1
    MaxAccepts = 1
    MaxAppCloses = 1
    MaxPiMbox = 0
    PowerOff = TRUE
    Static = TRUE
    StaticNodes = {n1}
SPECIFICATION Spec
INVARIANT StaticStatusMatchesNodes
PROPERTY PoweroffCompletes
PROPERTY ListenerResumes
