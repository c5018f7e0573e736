------------------------------ MODULE PeerMgr ------------------------------
(***************************************************************************)
(* The peer manager (PEM) task of src/p2p/peer/peer.go together with the   *)
(* peer instance (PI) tasks it creates and the RX goroutine of each        *)
(* activated instance, for one sub-network: a dynamic one, or, with       *)
(* Static, the static sub-network of a static network.                     *)
(*                                                                         *)
(* PEM and every PI are scheduler tasks with a FIFO mailbox; each handler  *)
(* is one atomic step of its task. A dial and a handshake block the PI     *)
(* task, so each is split in two steps (start, completion) between which   *)
(* the PEM keeps running and may kill the instance. The listener, the      *)
(* discovery task, the timers, the remote peers and the application are    *)
(* the environment.                                                        *)
(***************************************************************************)
EXTENDS Integers, Sequences, FiniteSets, SequencesExt

CONSTANTS
    Nodes,                 \* remote node identities
    Ptns,                  \* task identities the scheduler can hand out
    NoPtn,                 \* no instance (absent map entry)
    NoNode,                \* node of an inbound instance before its handshake
    MaxPeers,              \* cfg.subNetMaxPeers[snid]
    MaxOutbounds,          \* cfg.subNetMaxOutbounds[snid]
    MaxInbounds,           \* cfg.subNetMaxInBounds[snid]
    StaticMaxInBounds,     \* cfg.staticMaxInBounds
    NoAccept,              \* cfg.noAccept
    PeInstMaxPingpongCnt,  \* pingpong threshold
    MaxAccepts,            \* bound: connections the listener accepts
    MaxAppCloses,          \* bound: ClosePeer calls of the application
    MaxPiMbox,             \* bound: messages the environment queues to a PI
    PowerOff,              \* the scheduler powers the PEM off in this run
    Static,                \* cfg.networkType is static: the sub-network is
                           \* cfg.staticSubNetId and the Max* are its caps
    StaticNodes            \* cfg.staticNodes

ASSUME NoPtn \notin Ptns /\ NoNode \notin Nodes /\ StaticNodes \subseteq Nodes

\* peInstState* constants (peer.go 1197-1206): compare() subtracts them.
Null == 0
ConnOut == 1
Accepted == 2
Connected == 3
Handshook == 4
Activated == 5
Killing == -1
Killed == -2

\* PeInstDir* / PeInst*Pos constants (peer.go 1210-1214)
DirNull == -1
Inbound == 0
Outbound == 1

\* cfg.ibpNumTotal as computed at power on (peer.go 299-302)
IbpNumTotal == StaticMaxInBounds + MaxInbounds

Keys == Nodes \X {Inbound, Outbound}

\* peerIdle, peerConnectOutInited, peerActivated, peerKilling (peer.go 88-91)
StaticStates == {"idle", "connectOutInited", "activated", "killing"}

VARIABLES
    pemMb,        \* PEM mailbox
    piMb,         \* mailbox of each PI task
    lsnMb,        \* listener mailbox: "start" / "stop"
    lsnRunning,   \* listener accepting
    pi,           \* peerInstance fields of each task identity
    tasks,        \* PI tasks not stopped by the scheduler
    peers,        \* peMgr.peers
    nodes,        \* peMgr.nodes[snid]
    workers,      \* peMgr.workers[snid]
    wrkNum, obpNum, ibpNum, ibpTotalNum,
    randoms,      \* peMgr.randoms[snid]
    staticsStatus,\* peMgr.staticsStatus, keyed by the static nodes' keys
    tidFindNode,  \* find-node timer armed
    dcvPending,   \* find-node request outstanding at discovery
    actInd,       \* instances a PeerActivated indication was queued for
    closeInd,     \* instances a PeerClosed indication was queued for
    accepts, appCloses,
    poweroff,     \* the scheduler sent EvSchPoweroff to the PEM
    pemDone       \* the PEM task is done (after peMgrPoweroff)

pemVars == <<peers, nodes, workers, wrkNum, obpNum, ibpNum, ibpTotalNum,
             randoms, tidFindNode, staticsStatus>>
offVars == <<poweroff, pemDone>>
envVars == <<lsnRunning, dcvPending, accepts, appCloses, offVars>>
vars == <<pemMb, piMb, lsnMb, pi, tasks, actInd, closeInd, pemVars, envVars>>

\* Messages to the PEM, one record shape for all of them
Msg(t, p, n, d, ok) ==
    [type |-> t, ptn |-> p, node |-> n, dir |-> d, ok |-> ok, cands |-> <<>>]
OutboundReqMsg == Msg("OutboundReq", NoPtn, NoNode, DirNull, TRUE)

\* peerInstDefault (peer.go 1262-1280), as a record of the modelled fields
PiDefault ==
    [state |-> Null, dir |-> DirNull, node |-> NoNode, conn |-> FALSE,
     phase |-> "idle", rx |-> "none", rxtx |-> FALSE,
     ppTid |-> FALSE, ppCnt |-> 0, ppEno |-> FALSE]

Key(p) == <<pi[p].node, pi[p].dir>>
FreePtns == {p \in Ptns : pi[p].dir = DirNull}
LiveDir(d) == {p \in peers : pi[p].dir = d}

\* A command to the listener task; a command equal to the last one queued is
\* merged with it (the listener applying it twice in a row changes nothing)
LsnSend(c) == IF lsnMb # <<>> /\ Last(lsnMb) = c THEN lsnMb ELSE Append(lsnMb, c)

\* SchSendMessage to a PI: a stopped task never receives it
SendPi(mb, p, m) == IF p \in tasks THEN [mb EXCEPT ![p] = Append(@, m)] ELSE mb

\* SchSendMessage to the PEM: dropped once its task is done
ToPemSeq(ms) == pemMb' = IF pemDone THEN pemMb ELSE pemMb \o ms
ToPem(m) == ToPemSeq(<<m>>)

\* updateStaticStatus: only a key of a static node in the static sub-network
UpdateStaticStatus(k, st) ==
    IF Static /\ k \in DOMAIN staticsStatus
    THEN [staticsStatus EXCEPT ![k] = st] ELSE staticsStatus

Init ==
    /\ pemMb = <<Msg("StartReq", NoPtn, NoNode, DirNull, TRUE)>>
    /\ piMb = [p \in Ptns |-> <<>>]
    /\ lsnMb = <<>>
    /\ lsnRunning = FALSE
    /\ pi = [p \in Ptns |-> PiDefault]
    /\ tasks = {}
    /\ peers = {}
    /\ nodes = [k \in Keys |-> NoPtn]
    /\ workers = [k \in Keys |-> NoPtn]
    /\ wrkNum = 0 /\ obpNum = 0 /\ ibpNum = 0 /\ ibpTotalNum = 0
    /\ randoms = <<>>
    /\ staticsStatus = [k \in StaticNodes \X {Inbound, Outbound} |-> "idle"]
    /\ tidFindNode = FALSE
    /\ dcvPending = FALSE
    /\ actInd = {} /\ closeInd = {}
    /\ accepts = 0 /\ appCloses = 0
    /\ poweroff = FALSE /\ pemDone = FALSE

-----------------------------------------------------------------------------
(* PEM helpers                                                             *)

\* Mutant of KillInst: ibpTotalNum, like ibpNum, only decremented for an
\* instance that was activated or killing.
KillInstIbpTotalAsIbp(p, selfMsgs) ==
    LET d == pi[p].dir
        k == Key(p)
        inW == k \in Keys /\ workers[k] # NoPtn
        inN == k \in Keys /\ nodes[k] # NoPtn
        ibpTotal == IF d = Inbound /\ pi[p].state \in {Activated, Killing}
                    THEN ibpTotalNum - 1 ELSE ibpTotalNum
    IN /\ workers' = IF inW THEN [workers EXCEPT ![k] = NoPtn] ELSE workers
       /\ wrkNum' = IF inW THEN wrkNum - 1 ELSE wrkNum
       /\ nodes' = IF inN THEN [nodes EXCEPT ![k] = NoPtn] ELSE nodes
       /\ peers' = peers \ {p}
       /\ obpNum' = IF d = Outbound THEN obpNum - 1 ELSE obpNum
       /\ ibpTotalNum' = ibpTotal
       /\ ibpNum' = IF d = Inbound /\ pi[p].state \in {Activated, Killing}
                    THEN ibpNum - 1 ELSE ibpNum
       /\ lsnMb' = IF ~NoAccept /\ ibpTotal < IbpNumTotal
                   THEN LsnSend("start") ELSE lsnMb
       /\ pi' = [pi EXCEPT ![p].ppTid = FALSE, ![p].conn = FALSE,
                           ![p].state = Killed, ![p].ppCnt = 0, ![p].ppEno = FALSE]
       /\ tasks' = tasks \ {p}
       /\ piMb' = [piMb EXCEPT ![p] = <<>>]
       /\ pemMb' = Tail(pemMb) \o selfMsgs
       /\ staticsStatus' = UpdateStaticStatus(k, "idle")
       /\ UNCHANGED <<randoms, tidFindNode>>

\* Mutant of KillInst: the static status is not reset to peerIdle
KillInstNoStaticIdle(p, selfMsgs) ==
    LET d == pi[p].dir
        k == Key(p)
        inW == k \in Keys /\ workers[k] # NoPtn
        inN == k \in Keys /\ nodes[k] # NoPtn
        ibpTotal == IF d = Inbound THEN ibpTotalNum - 1 ELSE ibpTotalNum
    IN /\ workers' = IF inW THEN [workers EXCEPT ![k] = NoPtn] ELSE workers
       /\ wrkNum' = IF inW THEN wrkNum - 1 ELSE wrkNum
       /\ nodes' = IF inN THEN [nodes EXCEPT ![k] = NoPtn] ELSE nodes
       /\ peers' = peers \ {p}
       /\ obpNum' = IF d = Outbound THEN obpNum - 1 ELSE obpNum
       /\ ibpTotalNum' = ibpTotal
       /\ ibpNum' = IF d = Inbound /\ pi[p].state \in {Activated, Killing}
                    THEN ibpNum - 1 ELSE ibpNum
       /\ lsnMb' = IF ~NoAccept /\ ibpTotal < IbpNumTotal
                   THEN LsnSend("start") ELSE lsnMb
       /\ pi' = [pi EXCEPT ![p].ppTid = FALSE, ![p].conn = FALSE,
                           ![p].state = Killed, ![p].ppCnt = 0, ![p].ppEno = FALSE]
       /\ tasks' = tasks \ {p}
       /\ piMb' = [piMb EXCEPT ![p] = <<>>]
       /\ pemMb' = Tail(pemMb) \o selfMsgs
       /\ UNCHANGED <<randoms, tidFindNode, staticsStatus>>

\* Mutant of KillInst: the accepter is not resumed
KillInstNoResume(p, selfMsgs) ==
    LET d == pi[p].dir
        k == Key(p)
        inW == k \in Keys /\ workers[k] # NoPtn
        inN == k \in Keys /\ nodes[k] # NoPtn
        ibpTotal == IF d = Inbound THEN ibpTotalNum - 1 ELSE ibpTotalNum
    IN /\ workers' = IF inW THEN [workers EXCEPT ![k] = NoPtn] ELSE workers
       /\ wrkNum' = IF inW THEN wrkNum - 1 ELSE wrkNum
       /\ nodes' = IF inN THEN [nodes EXCEPT ![k] = NoPtn] ELSE nodes
       /\ peers' = peers \ {p}
       /\ obpNum' = IF d = Outbound THEN obpNum - 1 ELSE obpNum
       /\ ibpTotalNum' = ibpTotal
       /\ ibpNum' = IF d = Inbound /\ pi[p].state \in {Activated, Killing}
                    THEN ibpNum - 1 ELSE ibpNum
       /\ UNCHANGED lsnMb
       /\ pi' = [pi EXCEPT ![p].ppTid = FALSE, ![p].conn = FALSE,
                           ![p].state = Killed, ![p].ppCnt = 0, ![p].ppEno = FALSE]
       /\ tasks' = tasks \ {p}
       /\ piMb' = [piMb EXCEPT ![p] = <<>>]
       /\ pemMb' = Tail(pemMb) \o selfMsgs
       /\ staticsStatus' = UpdateStaticStatus(k, "idle")
       /\ UNCHANGED <<randoms, tidFindNode>>

\* peMgrKillInst for an instance in peers with a matching direction: table
\* entries are removed by the key (node, dir) of the killed instance, the
\* socket is closed, the task stopped (ppCnt and ppEno, read only by the
\* stopped task, are reset to keep dead records alike). selfMsgs are the messages the calling
\* handler sends to the PEM itself afterwards.
KillInst(p, selfMsgs) ==
    LET d == pi[p].dir
        k == Key(p)
        inW == k \in Keys /\ workers[k] # NoPtn
        inN == k \in Keys /\ nodes[k] # NoPtn
        ibpTotal == IF d = Inbound THEN ibpTotalNum - 1 ELSE ibpTotalNum
    IN /\ workers' = IF inW THEN [workers EXCEPT ![k] = NoPtn] ELSE workers
       /\ wrkNum' = IF inW THEN wrkNum - 1 ELSE wrkNum
       /\ nodes' = IF inN THEN [nodes EXCEPT ![k] = NoPtn] ELSE nodes
       /\ peers' = peers \ {p}
       /\ obpNum' = IF d = Outbound THEN obpNum - 1 ELSE obpNum
       /\ ibpTotalNum' = ibpTotal
       /\ ibpNum' = IF d = Inbound /\ pi[p].state \in {Activated, Killing}
                    THEN ibpNum - 1 ELSE ibpNum
       /\ lsnMb' = IF ~NoAccept /\ ibpTotal < IbpNumTotal
                   THEN LsnSend("start") ELSE lsnMb
       /\ pi' = [pi EXCEPT ![p].ppTid = FALSE, ![p].conn = FALSE,
                           ![p].state = Killed, ![p].ppCnt = 0, ![p].ppEno = FALSE]
       /\ tasks' = tasks \ {p}
       /\ piMb' = [piMb EXCEPT ![p] = <<>>]
       /\ pemMb' = Tail(pemMb) \o selfMsgs
       /\ staticsStatus' = UpdateStaticStatus(k, "idle")
       /\ UNCHANGED <<randoms, tidFindNode>>

\* The OutboundReq a kill of an outbound instance is followed by
ReDrive(p) == IF pi[p].dir = Outbound THEN <<OutboundReqMsg>> ELSE <<>>

\* instStateCmpKill when a duplicate dup exists in nodes: the instance with
\* the lower state is killed, a tie is settled by a coin; the caller then
\* returns Duplicated whichever one was killed. peerInstState.compare is the
\* difference of the two states.
InstStateCmpKill(p, dup) ==
    LET cmp == pi[p].state - pi[dup].state
        losers == IF cmp < 0 THEN {p} ELSE IF cmp > 0 THEN {dup} ELSE {p, dup}
    IN \E l \in losers : KillInst(l, ReDrive(l))

\* peMgrDcvFindNodeRsp's filter loop over the response's nodes
AppendRandom(rs, n) ==
    IF nodes[<<n, Outbound>>] = NoPtn /\ n \notin ToSet(rs) /\ Len(rs) < MaxPeers
    THEN Append(rs, n) ELSE rs

Pop == pemMb' = Tail(pemMb)

-----------------------------------------------------------------------------
(* PEM handlers: each takes the head of the PEM mailbox                    *)

\* peMgrStartReq
StartReq ==
    /\ pemMb # <<>> /\ Head(pemMb).type = "StartReq"
    /\ lsnMb' = IF NoAccept THEN lsnMb ELSE LsnSend("start")
    /\ pemMb' = Tail(pemMb) \o <<OutboundReqMsg>>
    /\ UNCHANGED <<piMb, pi, tasks, actInd, closeInd, pemVars, envVars>>

\* peMgrOutboundReq: dialling is on and not a bootstrap node. In a dynamic
\* network there are no static nodes, so peMgrStaticSubNetOutbound returns
\* at once and a request without sub-network (from peMgrStartReq) or naming
\* the single dynamic sub-network ends in peMgrDynamicSubNetOutbound. In a
\* static network every request (without sub-network, or naming the static
\* one, as re-drives and the static timer do) ends in
\* peMgrStaticSubNetOutbound.
IsOutboundReq == pemMb # <<>> /\ Head(pemMb).type = "OutboundReq"

\* peMgrDynamicSubNetOutbound when a cap is reached
OutboundReqFull ==
    /\ IsOutboundReq
    /\ ~Static
    /\ wrkNum >= MaxPeers \/ obpNum >= MaxOutbounds
    /\ Pop
    /\ UNCHANGED <<piMb, lsnMb, pi, tasks, actInd, closeInd, pemVars, envVars>>

\* peMgrCreateOutboundInst for each instance of made: a PI in state connOut
\* towards nodeOf[p], its task created, registered in peers and nodes,
\* obpNum counted, EvPeConnOutReq sent to it
CreateOutboundInsts(made, nodeOf) ==
    /\ pi' = [p \in Ptns |->
               IF p \in made
               THEN [PiDefault EXCEPT !.state = ConnOut, !.dir = Outbound,
                                      !.node = nodeOf[p]]
               ELSE pi[p]]
    /\ tasks' = tasks \cup made
    /\ piMb' = [p \in Ptns |-> IF p \in made THEN <<"ConnOutReq">> ELSE piMb[p]]
    /\ peers' = peers \cup made
    /\ nodes' = [key \in Keys |->
                  IF key[2] = Outbound /\ \E p \in made : nodeOf[p] = key[1]
                  THEN CHOOSE p \in made : nodeOf[p] = key[1]
                  ELSE nodes[key]]
    /\ obpNum' = obpNum + Cardinality(made)

\* peMgrAsk4More for a dynamic sub-network with obp outbound instances:
\* EvDcvFindNodeReq for the missing ones, and the absolute find-node timer
\* killed and set again
Ask4More(obp) ==
    IF MaxOutbounds - obp <= 0
    THEN UNCHANGED <<dcvPending, tidFindNode>>
    ELSE dcvPending' = TRUE /\ tidFindNode' = TRUE

\* peMgrDynamicSubNetOutbound: drain randoms, create outbound instances for
\* the candidates not in nodes until obpNum reaches the cap (a creation fails
\* when the scheduler has no task left), then peMgrAsk4More if still short.
OutboundReq ==
    /\ IsOutboundReq
    /\ ~Static
    /\ wrkNum < MaxPeers /\ obpNum < MaxOutbounds
    /\ LET cands == SelectSeq(randoms, LAMBDA n : nodes[<<n, Outbound>>] = NoPtn)
           free == SetToSeq(FreePtns)
           k == Min({Len(cands), MaxOutbounds - obpNum, Len(free)})
           made == {free[i] : i \in 1..k}
           nodeOf == [p \in made |-> cands[CHOOSE i \in 1..k : free[i] = p]]
       IN /\ CreateOutboundInsts(made, nodeOf)
          /\ randoms' = <<>>
          /\ IF obpNum + k < MaxOutbounds
             THEN Ask4More(obpNum + k)
             ELSE UNCHANGED <<dcvPending, tidFindNode>>
    /\ Pop
    /\ UNCHANGED <<lsnMb, actInd, closeInd, workers, wrkNum, ibpNum, ibpTotalNum,
                   staticsStatus, lsnRunning, accepts, appCloses, offVars>>

\* peMgrStaticSubNetOutbound: nothing when a cap is reached; otherwise an
\* outbound instance, in random order, for each static node with no
\* outbound instance in nodes and status idle, until obpNum reaches the cap
\* (a creation fails when the scheduler has no task left, and the node
\* stays idle); each one created is connectOutInited. If still short,
\* peMgrAsk4More for the static sub-network only sets the static timer.
StaticOutboundReq ==
    /\ IsOutboundReq
    /\ Static
    /\ IF wrkNum >= MaxPeers \/ obpNum >= MaxOutbounds
       THEN UNCHANGED <<piMb, pi, tasks, peers, nodes, obpNum, staticsStatus,
                        tidFindNode>>
       ELSE LET cands == {n \in StaticNodes : nodes[<<n, Outbound>>] = NoPtn
                                     /\ staticsStatus[<<n, Outbound>>] = "idle"}
                k == Min({Cardinality(cands), MaxOutbounds - obpNum,
                          Cardinality(FreePtns)})
                free == SetToSeq(FreePtns)
                made == {free[i] : i \in 1..k}
            IN \E chosen \in kSubset(k, cands) :
               \E nodeOf \in Bijection(made, chosen) :
                 /\ CreateOutboundInsts(made, nodeOf)
                 /\ staticsStatus' = [key \in DOMAIN staticsStatus |->
                                        IF key[2] = Outbound /\ key[1] \in chosen
                                        THEN "connectOutInited"
                                        ELSE staticsStatus[key]]
                 /\ tidFindNode' = (obpNum + k < MaxOutbounds \/ tidFindNode)
    /\ Pop
    /\ UNCHANGED <<lsnMb, actInd, closeInd, workers, wrkNum, ibpNum, ibpTotalNum,
                   randoms, envVars>>

\* peMgrDcvFindNodeRsp
DcvFindNodeRsp ==
    /\ pemMb # <<>> /\ Head(pemMb).type = "DcvFindNodeRsp"
    /\ LET rs == FoldLeft(AppendRandom, randoms, Head(pemMb).cands)
       IN /\ randoms' = rs
          /\ pemMb' = Tail(pemMb) \o (IF Len(rs) > Len(randoms)
                                      THEN <<OutboundReqMsg>> ELSE <<>>)
    /\ UNCHANGED <<piMb, lsnMb, pi, tasks, actInd, closeInd, peers, nodes, workers,
                   wrkNum, obpNum, ibpNum, ibpTotalNum, tidFindNode, staticsStatus,
                   envVars>>

\* peMgrDcvFindNodeTimerHandler
DcvFindNodeTimer ==
    /\ pemMb # <<>> /\ Head(pemMb).type = "DcvFindNodeTimer"
    /\ pemMb' = Tail(pemMb) \o (IF obpNum >= MaxOutbounds THEN <<>>
                                ELSE <<OutboundReqMsg>>)
    /\ UNCHANGED <<piMb, lsnMb, pi, tasks, actInd, closeInd, pemVars, envVars>>

\* peMgrLsnConnAcceptedInd: an inbound instance in state accepted owning the
\* socket; the listener is paused once ibpTotalNum reaches the cap. When no
\* task can be created the handler returns and the socket is dropped.
LsnConnAcceptedInd ==
    /\ pemMb # <<>> /\ Head(pemMb).type = "ConnAcceptedInd"
    /\ IF FreePtns = {}
       THEN /\ Pop
            /\ UNCHANGED <<piMb, lsnMb, pi, tasks, peers, ibpTotalNum>>
       ELSE LET p == CHOOSE q \in FreePtns : TRUE
            IN /\ pi' = [pi EXCEPT ![p] = [PiDefault EXCEPT !.state = Accepted,
                                             !.dir = Inbound, !.conn = TRUE]]
               /\ tasks' = tasks \cup {p}
               /\ piMb' = [piMb EXCEPT ![p] = <<"HandshakeReq">>]
               /\ peers' = peers \cup {p}
               /\ ibpTotalNum' = ibpTotalNum + 1
               /\ lsnMb' = IF ibpTotalNum + 1 >= IbpNumTotal /\ ~NoAccept
                           THEN LsnSend("stop") ELSE lsnMb
               /\ Pop
    /\ UNCHANGED <<actInd, closeInd, nodes, workers, wrkNum, obpNum, ibpNum,
                   randoms, tidFindNode, staticsStatus, envVars>>

\* peMgrConnOutRsp: a failed dial kills the instance if it is still in peers
\* and re-drives the outbound; a successful one asks for the handshake
\* without checking that the instance is still alive.
ConnOutRsp ==
    /\ pemMb # <<>> /\ Head(pemMb).type = "ConnOutRsp"
    /\ LET m == Head(pemMb) IN
       IF ~m.ok /\ m.ptn \in peers
       THEN /\ KillInst(m.ptn, <<OutboundReqMsg>>)
            /\ UNCHANGED <<actInd, closeInd, envVars>>
       ELSE /\ piMb' = IF m.ok THEN SendPi(piMb, m.ptn, "HandshakeReq") ELSE piMb
            /\ Pop
            /\ UNCHANGED <<lsnMb, pi, tasks, actInd, closeInd, pemVars, envVars>>

\* peMgrHandshakeRsp, the branches before admission. Every kill except the
\* failed-handshake one returns without re-driving the outbound.
HandshakeRspLost ==
    /\ pemMb # <<>> /\ Head(pemMb).type = "HandshakeRsp"
    /\ Head(pemMb).ptn \notin peers
    /\ Pop
    /\ UNCHANGED <<piMb, lsnMb, pi, tasks, actInd, closeInd, pemVars, envVars>>

HandshakeRspFailed ==
    /\ pemMb # <<>> /\ Head(pemMb).type = "HandshakeRsp"
    /\ LET m == Head(pemMb) IN
       /\ m.ptn \in peers /\ ~m.ok
       /\ KillInst(m.ptn, ReDrive(m.ptn))
    /\ UNCHANGED <<actInd, closeInd, envVars>>

\* Mutant of Refused: the wrkNum cap is not checked
RefusedNoPeerCap(m) ==
    \/ ~Static /\ m.dir = Inbound /\ ibpNum >= MaxInbounds
    \/ ~Static /\ m.dir = Outbound /\ obpNum >= MaxOutbounds
    \/ workers[<<m.node, m.dir>>] # NoPtn

\* The instance is refused for room or as a duplicate worker (wrkNum cap,
\* ibpNum/obpNum cap, same key already a worker). In the static sub-network
\* (isStaticSubNetId) the ibpNum/obpNum caps are not checked. The
\* peerKilling set before the wrkNum kill is undone by peMgrKillInst.
Refused(m) ==
    \/ wrkNum >= MaxPeers
    \/ ~Static /\ m.dir = Inbound /\ ibpNum >= MaxInbounds
    \/ ~Static /\ m.dir = Outbound /\ obpNum >= MaxOutbounds
    \/ workers[<<m.node, m.dir>>] # NoPtn

\* The key of the instance of the other direction for the same node
Other(m) == <<m.node, 1 - m.dir>>

HandshakeRspRefused ==
    /\ pemMb # <<>> /\ Head(pemMb).type = "HandshakeRsp"
    /\ LET m == Head(pemMb) IN
       /\ m.ptn \in peers /\ m.ok /\ Refused(m)
       /\ KillInst(m.ptn, <<>>)
    /\ UNCHANGED <<actInd, closeInd, envVars>>

HandshakeRspDuplicated ==
    /\ pemMb # <<>> /\ Head(pemMb).type = "HandshakeRsp"
    /\ LET m == Head(pemMb) IN
       /\ m.ptn \in peers /\ m.ok /\ ~Refused(m)
       /\ ~Static /\ nodes[Other(m)] # NoPtn
       /\ InstStateCmpKill(m.ptn, nodes[Other(m)])
    /\ UNCHANGED <<actInd, closeInd, envVars>>

\* An admitted outbound instance of a static node becomes peerActivated
ActivateStatic(m) ==
    IF m.dir = Outbound THEN UpdateStaticStatus(<<m.node, Outbound>>, "activated")
    ELSE staticsStatus

\* Mutants of Admit: nodes not recorded for an inbound instance; wrkNum
\* not incremented.
AdmitNoNodes(p, m) ==
    /\ workers' = [workers EXCEPT ![<<m.node, m.dir>>] = p]
    /\ ibpNum' = IF m.dir = Inbound THEN ibpNum + 1 ELSE ibpNum
    /\ piMb' = SendPi(piMb, p, "EstablishedInd")
    /\ pi' = [pi EXCEPT ![p].state = Activated]
    /\ wrkNum' = wrkNum + 1
    /\ actInd' = actInd \cup {p}
    /\ staticsStatus' = ActivateStatic(m)
    /\ UNCHANGED nodes

AdmitNoCount(p, m) ==
    /\ nodes' = IF m.dir = Inbound THEN [nodes EXCEPT ![<<m.node, m.dir>>] = p]
                ELSE nodes
    /\ workers' = [workers EXCEPT ![<<m.node, m.dir>>] = p]
    /\ ibpNum' = IF m.dir = Inbound THEN ibpNum + 1 ELSE ibpNum
    /\ piMb' = SendPi(piMb, p, "EstablishedInd")
    /\ pi' = [pi EXCEPT ![p].state = Activated]
    /\ actInd' = actInd \cup {p}
    /\ staticsStatus' = ActivateStatic(m)
    /\ UNCHANGED wrkNum

\* Admission of instance p: into workers (and nodes for an inbound
\* instance; an outbound one is there since its creation), EstablishedInd
\* to the instance, state activated, counters, the PeerActivated indication.
Admit(p, m) ==
    /\ nodes' = IF m.dir = Inbound THEN [nodes EXCEPT ![<<m.node, m.dir>>] = p]
                ELSE nodes
    /\ workers' = [workers EXCEPT ![<<m.node, m.dir>>] = p]
    /\ ibpNum' = IF m.dir = Inbound THEN ibpNum + 1 ELSE ibpNum
    /\ piMb' = SendPi(piMb, p, "EstablishedInd")
    /\ pi' = [pi EXCEPT ![p].state = Activated]
    /\ wrkNum' = wrkNum + 1
    /\ actInd' = actInd \cup {p}
    /\ staticsStatus' = ActivateStatic(m)

\* Mutant of HandshakeRspAdmit: instStateCmpKill not called before admission
HandshakeRspAdmitNoCmp ==
    /\ pemMb # <<>> /\ Head(pemMb).type = "HandshakeRsp"
    /\ LET m == Head(pemMb) IN
       /\ m.ptn \in peers /\ m.ok /\ ~Refused(m)
       /\ Admit(m.ptn, m)
    /\ Pop
    /\ UNCHANGED <<lsnMb, tasks, closeInd, peers, obpNum, ibpTotalNum, randoms,
                   tidFindNode, envVars>>

HandshakeRspAdmit ==
    /\ pemMb # <<>> /\ Head(pemMb).type = "HandshakeRsp"
    /\ LET m == Head(pemMb) IN
       /\ m.ptn \in peers /\ m.ok /\ ~Refused(m)
       /\ Static \/ nodes[Other(m)] = NoPtn
       /\ Admit(m.ptn, m)
    /\ Pop
    /\ UNCHANGED <<lsnMb, tasks, closeInd, peers, obpNum, ibpTotalNum, randoms,
                   tidFindNode, envVars>>

\* peMgrCloseReq: the request names (node, dir); the worker found under that
\* key, whichever instance it is, is asked to close unless already killing;
\* a static node's key becomes peerKilling.
CloseReq ==
    /\ pemMb # <<>> /\ Head(pemMb).type = "CloseReq"
    /\ LET m == Head(pemMb)
           w == workers[<<m.node, m.dir>>]
       IN IF w # NoPtn /\ pi[w].state # Killing
          THEN /\ piMb' = SendPi(piMb, w, "CloseReq")
               /\ staticsStatus' = UpdateStaticStatus(<<m.node, m.dir>>, "killing")
          ELSE UNCHANGED <<piMb, staticsStatus>>
    /\ Pop
    /\ UNCHANGED <<lsnMb, pi, tasks, actInd, closeInd, peers, nodes, workers,
                   wrkNum, obpNum, ibpNum, ibpTotalNum, randoms, tidFindNode,
                   envVars>>

\* Mutant of ConnCloseCfm: a confirm for an instance already killing is
\* dropped as a duplicate, as peMgrCloseReq does with a request.
ConnCloseCfmSkipKilling ==
    /\ pemMb # <<>> /\ Head(pemMb).type = "CloseCfm"
    /\ LET p == Head(pemMb).ptn IN
       IF p \in peers /\ pi[p].state # Killing
       THEN /\ KillInst(p, <<OutboundReqMsg>>)
            /\ closeInd' = closeInd \cup {p}
            /\ UNCHANGED <<actInd, envVars>>
       ELSE /\ Pop
            /\ UNCHANGED <<piMb, lsnMb, pi, tasks, actInd, closeInd, pemVars,
                           envVars>>

\* Mutant of ConnCloseCfm: the PeerClosed indication is not queued
ConnCloseCfmNoInd ==
    /\ pemMb # <<>> /\ Head(pemMb).type = "CloseCfm"
    /\ LET p == Head(pemMb).ptn IN
       IF p \in peers
       THEN /\ KillInst(p, <<OutboundReqMsg>>)
            /\ UNCHANGED <<actInd, closeInd, envVars>>
       ELSE /\ Pop
            /\ UNCHANGED <<piMb, lsnMb, pi, tasks, actInd, closeInd, pemVars,
                           envVars>>

\* peMgrConnCloseCfm: kill, PeerClosed indication, re-drive the outbound; a
\* confirm for an instance no longer in peers returns at the failed kill.
ConnCloseCfm ==
    /\ pemMb # <<>> /\ Head(pemMb).type = "CloseCfm"
    /\ LET p == Head(pemMb).ptn IN
       IF p \in peers
       THEN /\ KillInst(p, <<OutboundReqMsg>>)
            /\ closeInd' = closeInd \cup {p}
            /\ UNCHANGED <<actInd, envVars>>
       ELSE /\ Pop
            /\ UNCHANGED <<piMb, lsnMb, pi, tasks, actInd, closeInd, pemVars,
                           envVars>>

\* peMgrPoweroff: EvSchPoweroff to the task of every instance in peers, the
\* indication channel closed, the PEM task done (its mailbox is dropped)
PemPoweroff ==
    /\ pemMb # <<>> /\ Head(pemMb).type = "Poweroff"
    /\ piMb' = [p \in Ptns |-> IF p \in peers THEN SendPi(piMb, p, "Poweroff")[p]
                               ELSE piMb[p]]
    /\ pemMb' = <<>>
    /\ pemDone' = TRUE
    /\ UNCHANGED <<lsnMb, pi, tasks, actInd, closeInd, pemVars, lsnRunning,
                   dcvPending, accepts, appCloses, poweroff>>

PemStep ==
    \/ PemPoweroff \/ StartReq \/ OutboundReqFull \/ OutboundReq \/ StaticOutboundReq
    \/ DcvFindNodeRsp
    \/ DcvFindNodeTimer \/ LsnConnAcceptedInd \/ ConnOutRsp
    \/ HandshakeRspLost \/ HandshakeRspFailed \/ HandshakeRspRefused
    \/ HandshakeRspDuplicated \/ HandshakeRspAdmit \/ CloseReq \/ ConnCloseCfm

-----------------------------------------------------------------------------
(* PI handlers: each takes the head of the instance's mailbox              *)

PiHead(p, t) == p \in tasks /\ pi[p].phase = "idle" /\ piMb[p] # <<>>
                /\ Head(piMb[p]) = t
PiPop(p) == piMb' = [piMb EXCEPT ![p] = Tail(@)]
PiMsg(t, p) == Msg(t, p, pi[p].node, pi[p].dir, TRUE)

\* piConnOutReq, first half: checks, then the blocking dial starts
PiConnOutReq(p) ==
    /\ PiHead(p, "ConnOutReq")
    /\ PiPop(p)
    /\ pi' = IF pi[p].dir = Outbound /\ pi[p].state = ConnOut
             THEN [pi EXCEPT ![p].phase = "dialing"] ELSE pi
    /\ UNCHANGED <<pemMb, lsnMb, tasks, actInd, closeInd, pemVars, envVars>>

\* piConnOutReq, second half: the dial returns (the task may have been
\* stopped meanwhile; the handler still runs to its end)
PiDialDone(p) ==
    /\ pi[p].phase = "dialing"
    /\ \E ok \in BOOLEAN :
          /\ pi' = [pi EXCEPT ![p].phase = "idle",
                              ![p].conn = (@ \/ ok),
                              ![p].state = IF ok THEN Connected ELSE @]
          /\ ToPem([PiMsg("ConnOutRsp", p) EXCEPT !.ok = ok])
    /\ UNCHANGED <<piMb, lsnMb, tasks, actInd, closeInd, pemVars, envVars>>

\* piHandshakeReq, first half
PiHandshakeReq(p) ==
    /\ PiHead(p, "HandshakeReq")
    /\ PiPop(p)
    /\ pi' = IF pi[p].state \in {Connected, Accepted} /\ pi[p].conn
             THEN [pi EXCEPT ![p].phase = "handshaking"] ELSE pi
    /\ UNCHANGED <<pemMb, lsnMb, tasks, actInd, closeInd, pemVars, envVars>>

\* piHandshakeReq, second half: piHandshakeInbound learns the node from the
\* peer's handshake (and keeps it even if writing the reply then fails);
\* piHandshakeOutbound checks it. I/O on a closed socket fails.
PiHandshakeDone(p) ==
    /\ pi[p].phase = "handshaking"
    /\ \E ok \in BOOLEAN, n \in Nodes \cup {NoNode} :
          /\ ok => pi[p].conn
          /\ IF pi[p].dir = Outbound THEN n = pi[p].node
             ELSE ok => n \in Nodes
          /\ pi' = [pi EXCEPT ![p].phase = "idle", ![p].node = n,
                              ![p].state = IF ok THEN Handshook ELSE @]
          /\ ToPem(Msg("HandshakeRsp", p, n, pi[p].dir, ok))
    /\ UNCHANGED <<piMb, lsnMb, tasks, actInd, closeInd, pemVars, envVars>>

\* piEstablishedInd: pingpong timer, error codes reset; when the socket
\* deadline cannot be cleared a CloseReq is sent instead of starting the
\* RX/TX goroutines
PiEstablishedInd(p) ==
    /\ PiHead(p, "EstablishedInd")
    /\ PiPop(p)
    /\ \E deadlineOk \in BOOLEAN :
          IF deadlineOk
          THEN /\ pi' = [pi EXCEPT ![p].ppTid = TRUE, ![p].ppEno = FALSE,
                                   ![p].rx = "run", ![p].rxtx = TRUE]
               /\ UNCHANGED pemMb
          ELSE /\ pi' = [pi EXCEPT ![p].ppTid = TRUE, ![p].ppEno = FALSE]
               /\ ToPem(PiMsg("CloseReq", p))
    /\ UNCHANGED <<lsnMb, tasks, actInd, closeInd, pemVars, envVars>>

\* Mutant of PiCloseReq: no CloseCfm is sent to the PEM
PiCloseReqNoCfm(p) ==
    /\ PiHead(p, "CloseReq")
    /\ PiPop(p)
    /\ IF pi[p].state = Killing
       THEN UNCHANGED pi
       ELSE pi' = [pi EXCEPT ![p].state = Killing, ![p].rxtx = FALSE,
                     ![p].rx = IF ~pi[p].rxtx THEN @
                               ELSE IF @ = "run" THEN "stopRun"
                               ELSE IF @ = "err" THEN "stopErr" ELSE @]
    /\ UNCHANGED <<pemMb, lsnMb, tasks, actInd, closeInd, pemVars, envVars>>

\* The RX goroutine once rxDone is signalled (when rxtxRuning)
RxSignalled(p) ==
    IF ~pi[p].rxtx THEN pi[p].rx
    ELSE IF pi[p].rx = "run" THEN "stopRun"
    ELSE IF pi[p].rx = "err" THEN "stopErr" ELSE pi[p].rx

\* piCloseReq: state killing, rxDone signalled to a running RX goroutine,
\* CloseCfm to the PEM; Duplicated when already killing
PiCloseReq(p) ==
    /\ PiHead(p, "CloseReq")
    /\ PiPop(p)
    /\ IF pi[p].state = Killing
       THEN UNCHANGED <<pemMb, pi>>
       ELSE /\ pi' = [pi EXCEPT ![p].state = Killing, ![p].rxtx = FALSE,
                                    ![p].rx = RxSignalled(p)]
            /\ ToPem(PiMsg("CloseCfm", p))
    /\ UNCHANGED <<lsnMb, tasks, actInd, closeInd, pemVars, envVars>>

\* piPingpongTimerHandler
PiPingpongTimer(p) ==
    /\ PiHead(p, "PingpongTimer")
    /\ pi' = [pi EXCEPT ![p].ppCnt = @ + 1,
                        ![p].ppEno = (@ \/ pi[p].ppCnt + 1 > PeInstMaxPingpongCnt)]
    /\ IF pi[p].ppCnt + 1 > PeInstMaxPingpongCnt
       THEN PiPop(p) /\ ToPem(PiMsg("CloseReq", p))
       ELSE /\ piMb' = [piMb EXCEPT ![p] = Append(Tail(@), "PingpongReq")]
            /\ UNCHANGED pemMb
    /\ UNCHANGED <<lsnMb, tasks, actInd, closeInd, pemVars, envVars>>

\* piPingpongReq: a ping that cannot be written closes the peer
PiPingpongReq(p) ==
    /\ PiHead(p, "PingpongReq")
    /\ PiPop(p)
    /\ \/ /\ pi[p].ppEno \/ ~pi[p].conn
          /\ UNCHANGED <<pemMb, pi>>
       \/ /\ ~pi[p].ppEno /\ pi[p].conn
          /\ \E ok \in BOOLEAN :
                IF ok THEN UNCHANGED <<pemMb, pi>>
                ELSE /\ pi' = [pi EXCEPT ![p].ppEno = TRUE]
                     /\ ToPem(PiMsg("CloseReq", p))
    /\ UNCHANGED <<lsnMb, tasks, actInd, closeInd, pemVars, envVars>>

\* piRxDataInd (piP2pPkgProc) for a Ping (piP2pPingProc): the counter is
\* reset, a pong is written (its failure is only returned). The other
\* packages piP2pPkgProc takes (malformed, handshake, pong, unknown) change
\* nothing, so RxPing hands only pings to the task.
PiRxDataInd(p) ==
    /\ PiHead(p, "RxDataInd")
    /\ PiPop(p)
    /\ pi' = [pi EXCEPT ![p].ppCnt = 0]
    /\ UNCHANGED <<pemMb, lsnMb, tasks, actInd, closeInd, pemVars, envVars>>

\* Mutant of PiPoweroff: an instance already killing returns without
\* SchTaskDone
PiPoweroffKeepKilling(p) ==
    /\ PiHead(p, "Poweroff")
    /\ piMb' = [piMb EXCEPT ![p] = <<>>]
    /\ IF pi[p].state = Killing
       THEN UNCHANGED <<pi, tasks>>
       ELSE /\ tasks' = tasks \ {p}
            /\ pi' = [pi EXCEPT ![p].state = Killed, ![p].rxtx = FALSE,
                                 ![p].conn = FALSE, ![p].rx = RxSignalled(p)]
    /\ UNCHANGED <<pemMb, lsnMb, actInd, closeInd, pemVars, envVars>>

\* piPoweroff: an instance already killing is done at once; otherwise the
\* RX and TX goroutines are signalled, the socket closed, state killed, and
\* the task done
PiPoweroff(p) ==
    /\ PiHead(p, "Poweroff")
    /\ piMb' = [piMb EXCEPT ![p] = <<>>]
    /\ tasks' = tasks \ {p}
    /\ IF pi[p].state = Killing
       THEN UNCHANGED pi
       ELSE pi' = [pi EXCEPT ![p].state = Killed, ![p].rxtx = FALSE,
                             ![p].conn = FALSE, ![p].rx = RxSignalled(p)]
    /\ UNCHANGED <<pemMb, lsnMb, actInd, closeInd, pemVars, envVars>>

PiStep(p) ==
    \/ PiPoweroff(p)
    \/ PiConnOutReq(p) \/ PiHandshakeReq(p) \/ PiEstablishedInd(p)
    \/ PiCloseReq(p) \/ PiPingpongTimer(p) \/ PiPingpongReq(p) \/ PiRxDataInd(p)

-----------------------------------------------------------------------------
(* The RX goroutine of an activated instance (piRx)                        *)

\* A Ping is read and handed to the instance task as RxDataInd
RxPing(p) ==
    /\ pi[p].rx = "run" /\ Len(piMb[p]) < MaxPiMbox
    /\ piMb' = SendPi(piMb, p, "RxDataInd")
    /\ UNCHANGED <<pemMb, lsnMb, pi, tasks, actInd, closeInd, pemVars, envVars>>

\* A read fails: rxEno is set and a CloseReq naming this instance is sent
RxFail(p) ==
    /\ pi[p].rx = "run"
    /\ pi' = [pi EXCEPT ![p].rx = "err"]
    /\ ToPem(PiMsg("CloseReq", p))
    /\ UNCHANGED <<piMb, lsnMb, tasks, actInd, closeInd, pemVars, envVars>>

\* After rxDone is signalled: a goroutine blocked in the read sees either
\* data (then rxDone at the loop top) or an error -- certainly once the PEM
\* has closed the socket -- and sends one more CloseReq before leaving; one
\* spinning on rxEno just leaves.
RxExit(p) ==
    /\ \/ /\ pi[p].rx = "stopRun"
          /\ \E err \in BOOLEAN :
                /\ ~pi[p].conn => err
                /\ IF err THEN ToPem(PiMsg("CloseReq", p)) ELSE UNCHANGED pemMb
       \/ /\ pi[p].rx = "stopErr"
          /\ UNCHANGED pemMb
    /\ pi' = [pi EXCEPT ![p].rx = "exit"]
    /\ UNCHANGED <<piMb, lsnMb, tasks, actInd, closeInd, pemVars, envVars>>

-----------------------------------------------------------------------------
(* Environment: listener, discovery, timers, application. The scheduler    *)
(* powers the listener and discovery tasks off with the PEM, and the find- *)
(* node timer and ClosePeer address the PEM: none acts once it is done.    *)

\* The listener task applies LsnStartReq / LsnStopReq in order
LsnStep ==
    /\ ~pemDone /\ lsnMb # <<>>
    /\ lsnRunning' = (Head(lsnMb) = "start")
    /\ lsnMb' = Tail(lsnMb)
    /\ UNCHANGED <<pemMb, piMb, pi, tasks, actInd, closeInd, pemVars, dcvPending,
                   accepts, appCloses, offVars>>

\* The running listener accepts a connection
LsnAccept ==
    /\ ~pemDone /\ lsnRunning /\ accepts < MaxAccepts
    /\ ToPem(Msg("ConnAcceptedInd", NoPtn, NoNode, Inbound, TRUE))
    /\ accepts' = accepts + 1
    /\ UNCHANGED <<piMb, lsnMb, pi, tasks, actInd, closeInd, pemVars, lsnRunning,
                   dcvPending, appCloses, offVars>>

\* A message of type t waits in the PEM mailbox
Queued(t) == \E i \in DOMAIN pemMb : pemMb[i].type = t

\* Discovery answers the outstanding EvDcvFindNodeReq with some nodes
\* (pacing bound: one answer waits in the PEM mailbox at a time)
DcvRespond ==
    /\ ~pemDone /\ dcvPending /\ ~Queued("DcvFindNodeRsp")
    /\ \E S \in SUBSET Nodes :
          ToPem([Msg("DcvFindNodeRsp", NoPtn, NoNode, DirNull, TRUE)
                    EXCEPT !.cands = SetToSeq(S)])
    /\ dcvPending' = FALSE
    /\ UNCHANGED <<piMb, lsnMb, pi, tasks, actInd, closeInd, pemVars, lsnRunning,
                   accepts, appCloses, offVars>>

\* The absolute find-node timer expires. Timing bound: the PEM handles a
\* message in far less than the 20 s period, so the timer does not expire
\* while an expiry or an OutboundReq (whose handler re-arms it) waits.
FindNodeTimerFire ==
    /\ ~pemDone /\ tidFindNode /\ ~Queued("DcvFindNodeTimer") /\ ~Queued("OutboundReq")
    /\ tidFindNode' = FALSE
    /\ ToPem(Msg("DcvFindNodeTimer", NoPtn, NoNode, DirNull, TRUE))
    /\ UNCHANGED <<piMb, lsnMb, pi, tasks, actInd, closeInd, peers, nodes,
                   workers, wrkNum, obpNum, ibpNum, ibpTotalNum, randoms,
                   staticsStatus, envVars>>

\* ClosePeer: a CloseReq without instance for each direction of the node
AppClosePeer ==
    /\ ~pemDone /\ appCloses < MaxAppCloses
    /\ \E n \in Nodes :
          ToPemSeq(<<Msg("CloseReq", NoPtn, n, Outbound, TRUE),
                     Msg("CloseReq", NoPtn, n, Inbound, TRUE)>>)
    /\ appCloses' = appCloses + 1
    /\ UNCHANGED <<piMb, lsnMb, pi, tasks, actInd, closeInd, pemVars, lsnRunning,
                   dcvPending, accepts, offVars>>

\* The periodic pingpong timer of an instance expires (bound: one tick
\* queued at a time, none once ppEno is set: later ticks would only repeat
\* the CloseReq already sent)
PpTick(p) ==
    /\ p \in tasks /\ pi[p].ppTid /\ ~pi[p].ppEno
    /\ "PingpongTimer" \notin ToSet(piMb[p]) /\ Len(piMb[p]) < MaxPiMbox
    /\ piMb' = [piMb EXCEPT ![p] = Append(@, "PingpongTimer")]
    /\ UNCHANGED <<pemMb, lsnMb, pi, tasks, actInd, closeInd, pemVars, envVars>>

\* The scheduler powers the peer manager off (once, when PowerOff)
SchPoweroff ==
    /\ PowerOff /\ ~poweroff
    /\ poweroff' = TRUE
    /\ ToPem(Msg("Poweroff", NoPtn, NoNode, DirNull, TRUE))
    /\ UNCHANGED <<piMb, lsnMb, pi, tasks, actInd, closeInd, pemVars, lsnRunning,
                   dcvPending, accepts, appCloses, pemDone>>

\* After power-off every task is done: the system stops
Stopped == pemDone /\ tasks = {} /\ UNCHANGED vars

Env ==
    \/ SchPoweroff \/ Stopped \/ LsnStep \/ LsnAccept \/ DcvRespond \/ FindNodeTimerFire \/ AppClosePeer
    \/ \E p \in Ptns : PpTick(p) \/ RxPing(p) \/ RxFail(p)

Next ==
    \/ PemStep
    \/ \E p \in Ptns : PiStep(p) \/ PiDialDone(p) \/ PiHandshakeDone(p) \/ RxExit(p)
    \/ Env

\* Every task eventually handles the head of its mailbox; a dial and a
\* handshake end within their timeouts; a signalled RX goroutine runs.
Fairness ==
    /\ WF_vars(PemStep)
    /\ WF_vars(LsnStep)
    /\ \A p \in Ptns : /\ WF_vars(PiStep(p))
                       /\ WF_vars(PiDialDone(p))
                       /\ WF_vars(PiHandshakeDone(p))
                       /\ WF_vars(RxExit(p))

Spec == Init /\ [][Next]_vars /\ Fairness

-----------------------------------------------------------------------------
(* Properties                                                              *)

TypeOK ==
    /\ pi \in [Ptns -> [state : Killed..Activated, dir : {DirNull, Inbound, Outbound},
                        node : Nodes \cup {NoNode}, conn : BOOLEAN,
                        phase : {"idle", "dialing", "handshaking"},
                        rx : {"none", "run", "err", "stopRun", "stopErr", "exit"},
                        rxtx : BOOLEAN, ppTid : BOOLEAN, ppCnt : Nat, ppEno : BOOLEAN]]
    /\ tasks \subseteq peers /\ peers \subseteq Ptns
    /\ nodes \in [Keys -> Ptns \cup {NoPtn}] /\ workers \in [Keys -> Ptns \cup {NoPtn}]
    /\ randoms \in Seq(Nodes)
    /\ {wrkNum, obpNum, ibpNum, ibpTotalNum} \subseteq Nat
    /\ {poweroff, pemDone} \subseteq BOOLEAN
    /\ staticsStatus \in [StaticNodes \X {Inbound, Outbound} -> StaticStates]

\* Static mode: the outbound status of a static node (peMgr.staticsStatus)
\* is idle exactly when nodes has no outbound instance for it, through
\* peMgrStaticSubNetOutbound, admission, peMgrCloseReq and every kill of
\* peMgrKillInst; an idle node with an instance would be dialled twice, a
\* non-idle one without would never be dialled again.
StaticStatusMatchesNodes ==
    \A n \in StaticNodes :
        (staticsStatus[<<n, Outbound>>] = "idle") = (nodes[<<n, Outbound>>] = NoPtn)

\* The PEM's counters agree with its tables through every kill path of
\* peMgrKillInst, peMgrCreateOutboundInst, peMgrLsnConnAcceptedInd and
\* admission: wrkNum counts the workers entries, obpNum the live outbound
\* instances, ibpTotalNum the live inbound ones.
CountersMatchTables ==
    /\ wrkNum = Cardinality({k \in Keys : workers[k] # NoPtn})
    /\ obpNum = Cardinality(LiveDir(Outbound))
    /\ ibpTotalNum = Cardinality(LiveDir(Inbound))

\* Every entry of workers and nodes is a live instance registered under its
\* own key, and, while the PEM runs, every worker is activated or being
\* closed (after peMgrPoweroff the instances power off behind the frozen
\* tables).
TablesAgree ==
    \A k \in Keys :
       /\ nodes[k] # NoPtn => nodes[k] \in peers /\ Key(nodes[k]) = k
       /\ workers[k] # NoPtn =>
             /\ nodes[k] = workers[k]
             /\ ~pemDone => pi[workers[k]].state \in {Activated, Killing}

\* Duplicate resolution in peMgrHandshakeRsp / instStateCmpKill never
\* leaves an inbound and an outbound worker for the same node.
OneWorkerPerNode ==
    \A n \in Nodes : workers[<<n, Inbound>>] = NoPtn \/ workers[<<n, Outbound>>] = NoPtn

\* A close in progress (piCloseReq set killing) always ends with the PEM
\* removing the instance, whatever else is closing or killing it.
ClosingCompletes ==
    \A p \in Ptns : (p \in peers /\ pi[p].state = Killing) ~> (p \notin peers)

\* The steps of peMgrHandshakeRsp
HandshakeRspStep ==
    \/ HandshakeRspLost \/ HandshakeRspFailed \/ HandshakeRspRefused
    \/ HandshakeRspDuplicated \/ HandshakeRspAdmit

\* Spec 8.2: every activated instance appears in workers (under its key).
\* peMgrKillInst removes the entries of the killed instance's key, which
\* may belong to another, activated instance of the same node and direction.
ActivatedAreWorkers ==
    \A p \in peers : pi[p].state = Activated => workers[Key(p)] = p

\* Spec 4.6.5: a successful handshake ends in admission or in a kill
\* ("exactly one survivor"): a live instance stays handshook only while its
\* HandshakeRsp waits for the PEM. instStateCmpKill returns Duplicated even
\* when it killed the other instance, and the caller then does neither.
HandshookAwaitsAdmission ==
    \A p \in peers :
       pi[p].state = Handshook =>
          \E i \in DOMAIN pemMb : pemMb[i].type = "HandshakeRsp" /\ pemMb[i].ptn = p

\* Spec 4.6.5: an instance whose handshake succeeded is refused only for
\* want of room or as a duplicate. Room counts the instance itself: an
\* outbound instance is in obpNum since peMgrCreateOutboundInst, an inbound
\* one enters ibpNum on admission.
Eligible(m) ==
    /\ m.ok /\ m.ptn \in peers /\ wrkNum < MaxPeers
    /\ m.dir = Inbound => ibpNum < MaxInbounds
    /\ m.dir = Outbound => obpNum <= MaxOutbounds
    /\ workers[<<m.node, m.dir>>] = NoPtn
    /\ nodes[Other(m)] = NoPtn

AdmitWithinCaps ==
    [][HandshakeRspStep /\ Eligible(Head(pemMb)) =>
         workers'[<<Head(pemMb).node, Head(pemMb).dir>>] = Head(pemMb).ptn]_vars

\* peMgrKillInst closes the socket of the instance it kills, and piPoweroff
\* that of the instance it ends (spec 4.6): an instance whose task is done
\* and whose handler has returned holds no open connection. A dial that
\* completes after the kill stores its socket in the dead instance; the
\* power-off of an instance already killing leaves its socket open.
ConnClosedWhenKilled ==
    \A p \in Ptns :
       pi[p].dir # DirNull /\ p \notin tasks /\ pi[p].phase = "idle" => ~pi[p].conn

\* Spec 5: messages carry the instance they concern. A CloseReq sent by an
\* instance (pingpong, RX error) is forwarded to that instance only;
\* peMgrCloseReq looks the worker up by (node, dir) and may find a newer one.
CloseForwardedToRequester ==
    [][CloseReq =>
         LET m == Head(pemMb)
             w == workers[<<m.node, m.dir>>]
         IN m.ptn # NoPtn /\ w # NoPtn /\ pi[w].state # Killing => w = m.ptn]_vars

\* The listener paused by peMgrLsnConnAcceptedInd at the inbound cap is
\* resumed: whenever it is not accepting while ibpTotalNum is below the cap,
\* it eventually accepts again (or the PEM is powered off). Start and stop
\* requests travel through the listener's mailbox behind each other, and
\* every kill of peMgrKillInst below the cap sends LsnStartReq.
ListenerResumes ==
    (~NoAccept /\ ~lsnRunning /\ ibpTotalNum < IbpNumTotal) ~> (lsnRunning \/ pemDone)

\* Spec 8.3: once ibpTotalNum reaches the cap no new inbound is accepted,
\* so it never exceeds cfg.ibpNumTotal. Connections the listener accepted
\* before handling LsnStopReq are still counted.
IbpTotalBounded == ibpTotalNum <= IbpNumTotal

\* The admission checks of peMgrHandshakeRsp keep the workers within
\* cfg.subNetMaxPeers and the activated inbound instances within
\* cfg.subNetMaxInBounds, however the inbound and outbound instances of
\* several nodes interleave their handshakes.
WorkersWithinCaps ==
    /\ wrkNum <= MaxPeers
    /\ ibpNum <= MaxInbounds
    /\ Cardinality({p \in peers : pi[p].state = Activated}) <= MaxPeers

\* Spec 7 (error handling): transient failures lead to cleanup
\* and re-driving of the outbound logic. Whenever the sub-network is short
\* of outbound peers and has room, an outbound attempt is eventually in
\* motion: an OutboundReq or a timer expiry queued, or the find-node timer
\* armed. peMgrDcvFindNodeTimerHandler returns without re-arming while the
\* outbound cap is reached, and the refusing branches of peMgrHandshakeRsp
\* kill an outbound instance without re-driving.
OutboundKeepsDriving ==
    (obpNum < MaxOutbounds /\ wrkNum < MaxPeers)
        ~> (tidFindNode \/ Queued("OutboundReq") \/ Queued("DcvFindNodeTimer"))

\* Spec 4.6 (power-off): once the scheduler powers the PEM off, the PEM
\* reaches EvSchPoweroff behind the messages already queued, passes it to
\* the task of every instance it still has, and every instance task ends,
\* whether it is dialling, handshaking, working or already closing.
PoweroffCompletes == poweroff ~> (pemDone /\ tasks = {})

\* The application's view of the sessions: one is open while its activated
\* instance is live, has ended once the instance is gone; PeerActivated is
\* queued on admission and PeerClosed in peMgrConnCloseCfm.
Session == INSTANCE PeerSession WITH
    sess <- [p \in Ptns |-> IF p \notin actInd THEN "none"
                            ELSE IF p \in peers THEN "open" ELSE "ended"],
    snode <- [p \in Ptns |-> IF p \in actInd THEN pi[p].node ELSE NoNode],
    told <- closeInd

\* The PEM implements the session contract: an activated instance leaves
\* the tables exactly when PeerClosed is queued for it, and the open
\* sessions stay within cfg.subNetMaxPeers and one per remote node. An
\* activated instance that instStateCmpKill removes while it is closing
\* gets no PeerClosed: its CloseCfm then finds it gone.
SessionSpec == Session!Spec

====
