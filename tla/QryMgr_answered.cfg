\* Every query is answered, and the QCB tables and timers stay consistent: one query, NAT events, stop and notification included.
\* CHECK_DEADLOCK FALSE: the task idles once the bounded owner, route manager and NAT are done.
CONSTANTS
    Targets = {t1}
    p1 = p1  p2 = p2
    Peers <- MCPeers
    PeerDist <- MCPeerDist
    Local = me
    ForWhats = {"FindNode", "GetValue", "PutValue"}
    Addrs = {a1, a2}
    LocalIp = a1
    NoQcb = NoQcb  NoInst = NoInst  NoAddr = NoAddr
    MaxActInsts = 1
    MaxPendings = 2
    QryMaxWidth = 2
    MaxQueries = 1
    MaxInsts = 3
    ResultPeerSets = {{}, {me}}
    MaxStops = 1
    MaxNotifs = 1
    MaxNatEvents = 3
SPECIFICATION Spec
CHECK_DEADLOCK FALSE
PROPERTY QueryAnswered
INVARIANT TimersMatchQueries
INVARIANT PendingBookkeeping
