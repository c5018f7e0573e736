\* Power-off racing outbound sessions in every phase (dialling, handshaking, working, closing after an RX error); no pings, accepts or application closes.
CONSTANTS
    Nodes = {n1}
    Ptns = {p1, p2}
    NoPtn = NoPtn
    NoNode = NoNode
    MaxPeers = 2
    MaxOutbounds = 2
    MaxInbounds = 1
    StaticMaxInBounds = 0
    NoAccept = FALSE
    PeInstMaxPingpongCnt = 1
    MaxAccepts = 0
    MaxAppCloses = 0
    MaxPiMbox = 0
    PowerOff = TRUE
    Static = FALSE
    StaticNodes = {}
SPECIFICATION Spec
PROPERTY PoweroffCompletes
