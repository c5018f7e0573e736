\* QCB bookkeeping and timers: one target queried twice, two peers, one instance slot.
\* CHECK_DEADLOCK FALSE: the task idles once the bounded owner, route manager and NAT are done.
CONSTANTS
    Targets = {t1}
    p1 = p1  p2 = p2
    Peers <- MCPeers
    PeerDist <- MCPeerDist
    Local = me
    ForWhats = {"FindNode", "GetValue", "PutValue"}
    Addrs = {a1, a2}
    LocalIp = a1
    NoQcb = NoQcb  NoInst = NoInst  NoAddr = NoAddr
    MaxActInsts = 1
    MaxPendings = 2
    QryMaxWidth = 2
    MaxQueries = 2
    MaxInsts = 3
    ResultPeerSets = {{}, {me}}
    MaxStops = 1
    MaxNotifs = 1
    MaxNatEvents = 0
SPECIFICATION Spec
INVARIANT TypeOK
INVARIANT TimersMatchQueries
INVARIANT PendingBookkeeping
CHECK_DEADLOCK FALSE
