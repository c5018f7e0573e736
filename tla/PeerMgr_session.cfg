\* Outbound sessions with pingpong timer, pings and RX errors, and an inbound connection from the same node racing them (duplicate kills); every closing instance is removed.
\* CHECK_DEADLOCK FALSE: with one outbound slot the find-node timer is not re-armed at the cap (peer.go:490, the pem_outbound_stall finding), so the manager can come to rest.
CONSTANTS
    Nodes = {n1}
    Ptns = {p1, p2}
    NoPtn = NoPtn
    NoNode = NoNode
    MaxPeers = 2
    MaxOutbounds = 1
    MaxInbounds = 1
    StaticMaxInBounds = 0
    NoAccept = FALSE
    PeInstMaxPingpongCnt = 1
    MaxAccepts = 1
    MaxAppCloses = 0
    MaxPiMbox = 1
    PowerOff = FALSE
    Static = FALSE
    StaticNodes = {}
SPECIFICATION Spec
CHECK_DEADLOCK FALSE
PROPERTY ClosingCompletes
