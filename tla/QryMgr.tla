------------------------------ MODULE QryMgr ------------------------------
(***************************************************************************)
(* The DHT query manager (src/p2p/dht/query.go): the table of query       *)
(* control blocks (QCBs) keyed by target, their pending / actived /       *)
(* history / result sets, the query-instance tasks they spawn, the QCB    *)
(* expiry timers, and the NAT address handling.                            *)
(*                                                                         *)
(* The query manager is one task: each handler below is one step. Its     *)
(* peers are modelled from the spec, since their code is not under src/   *)
(* or never runs:                                                          *)
(*  - the owner (DHT facade) sends start and stop requests;               *)
(*  - the route manager answers every NearestReq and may push             *)
(*    notifications;                                                       *)
(*  - a query instance reports once (done or result) and stops on          *)
(*    power-off;                                                           *)
(*  - the scheduler fires an armed timer by queueing an expiry message.   *)
(*    SchKillTimer disarms the timer but cannot recall an expiry already   *)
(*    queued.                                                              *)
(*  - the NAT manager sends ready, map-response and address-update events.*)
(***************************************************************************)
EXTENDS Integers, Sequences, SequencesExt, FiniteSets

CONSTANTS
    Targets,        \* query targets (config.DsKey)
    Peers,          \* remote node identities
    Local,          \* the local node identity (self-filter)
    PeerDist,       \* distance reported for each peer (Peers -> Nat)
    ForWhats,       \* query kinds used: "FindNode", "GetValue", "PutValue"
    Addrs,          \* public / local IP addresses
    LocalIp,        \* qmCfg.local.IP from the configuration
    NoQcb, NoInst, NoAddr,
    MaxActInsts,    \* qmCfg.maxActInsts (8 in the code)
    MaxPendings,    \* qmCfg.maxPendings (64)
    QryMaxWidth,    \* qryMgrQryMaxWidth (64)
    MaxQueries,     \* bound: QCBs created (qcbSeq)
    MaxInsts,       \* bound: instance tasks the scheduler can create
    ResultPeerSets, \* peer lists an instance may report
    MaxStops, MaxNotifs, MaxNatEvents   \* bounds on environment events

ASSUME /\ LocalIp \in Addrs /\ Local \notin Peers
       /\ PeerDist \in [Peers -> Nat]
       /\ ForWhats \subseteq {"FindNode", "GetValue", "PutValue"}
       /\ ResultPeerSets \subseteq SUBSET (Peers \cup {Local})

QSeqs   == 0..(MaxQueries - 1)
InstIds == 1..MaxInsts
Enos    == {"None", "NotFound", "Timeout", "NatMapping", "Route", "RutErr",
            "Stopped"}

\* A peer list without repetitions, as the route manager reports it.
PeerSeqs == {s \in UNION {[1..n -> Peers] : n \in 0..Cardinality(Peers)} :
                IsInjective(s)}

VARIABLES
    qcbTab,       \* target -> QCB record or NoQcb
    qcbSeq,       \* next QCB sequence number
    rutReqs,      \* NearestReq not yet answered: target -> count
    timers,       \* armed QCB expiry timers: [seq, t]
    expired,      \* expiry messages queued: [seq, t]
    insts,        \* instance id -> [q, t, peer, fw, st, po] or NoInst
    nextInst,     \* next instance id the scheduler hands out
    instMsgs,     \* instance reports queued to the query manager
    answers,      \* QCB seq -> final answers sent to its owner, in order
    crashed,      \* the query manager task panicked
    running,      \* the task has not been powered off
    natTcpResult, \* last NAT mapping status for tcp
    pubTcpIp,     \* public address (NoAddr is net.IPv4zero)
    localIp,      \* qmCfg.local.IP, the advertised address
    natMap,       \* NAT mapping: "none", "sent" (MakeMapReq), "mapped"
    stops, notifs, natEvents

vars == <<qcbTab, qcbSeq, rutReqs, timers, expired, insts, nextInst,
          instMsgs, answers, crashed, running, natTcpResult, pubTcpIp,
          localIp, natMap, stops, notifs, natEvents>>

natVars == <<natTcpResult, pubTcpIp, localIp, natMap>>

Qcb == [seq : QSeqs, status : {"preparing", "inited"}, fw : ForWhats,
        pending : Seq(Peers), actived : [Peers -> InstIds \cup {NoInst}],
        history : SUBSET Peers, result : Seq(Peers)]

Inst == [q : QSeqs, t : Targets, peer : Peers, fw : ForWhats,
         st : {"run", "sent"}, po : BOOLEAN]

TimerRec == [seq : QSeqs, t : Targets]

InstMsg == [kind : {"done", "result"}, inst : InstIds, t : Targets,
            peer : Peers, peers : ResultPeerSets, found : BOOLEAN]

-----------------------------------------------------------------------------
(* Helpers on one QCB value.                                               *)

ActNum(q) == Cardinality({p \in Peers : q.actived[p] # NoInst})

ActIds(q) == {q.actived[p] : p \in {x \in Peers : q.actived[x] # NoInst}}

\* qcbUpdateResult: insert before the first entry of larger distance.
UpdateResult(li, p) ==
    LET after == {k \in 1..Len(li) : PeerDist[p] < PeerDist[li[k]]}
    IN  IF after = {} THEN Append(li, p) ELSE InsertAt(li, Min(after), p)

\* Variant of PendOne that forgets the history check.
PendOneNoHistory(q, n) ==
    LET stop == {k \in 1..Len(q.pending) :
                    q.pending[k] = n \/ PeerDist[n] < PeerDist[q.pending[k]]}
    IN  IF stop = {} THEN [q EXCEPT !.pending = Append(@, n)]
        ELSE IF q.pending[Min(stop)] = n THEN q
        ELSE [q EXCEPT !.pending = InsertAt(@, Min(stop), n)]

\* One node of qryMgrQcbPutPending: skipped when in the history; else the
\* scan stops at the first entry that is the same node (no insert) or is
\* farther (insert before it); a node reaching the end is pushed back.
PendOne(q, n) ==
    LET stop == {k \in 1..Len(q.pending) :
                    q.pending[k] = n \/ PeerDist[n] < PeerDist[q.pending[k]]}
        k    == Min(stop)
    IN  IF n \in q.history THEN q
        ELSE IF stop = {} THEN [q EXCEPT !.pending = Append(@, n)]
        ELSE IF q.pending[k] = n THEN q
        ELSE [q EXCEPT !.pending = InsertAt(@, k, n)]

\* qryMgrQcbPutPending: nothing for an empty list; the list is cut back to
\* size entries at the end.
PutPending(q, nodes, size) ==
    IF Len(nodes) = 0 \/ size <= 0 THEN q
    ELSE LET q1 == FoldLeft(PendOne, q, nodes)
         IN  [q1 EXCEPT !.pending = SubSeq(@, 1, Min({Len(@), size}))]

\* Variant of ActivateFrom that ignores a failing SchCreateTask.
RECURSIVE ActivateFromNoCreateCheck(_, _, _)
ActivateFromNoCreateCheck(q, i, created) ==
    IF i > Len(q.pending) \/ ActNum(q) >= MaxActInsts
    THEN [q |-> q, created |-> created, k |-> i - 1]
    ELSE LET p  == q.pending[i]
             id == nextInst + Len(created)
         IN  IF q.actived[p] # NoInst
             THEN ActivateFromNoCreateCheck(q, i + 1, created)
             ELSE ActivateFromNoCreateCheck(
                      [q EXCEPT !.actived[p] = id, !.history = @ \cup {p}],
                      i + 1, Append(created, p))

(***************************************************************************)
(* The loop of qryMgrQcbPutActived from pending entry i on. created lists *)
(* the peers of the instance tasks created so far; the next task gets id  *)
(* nextInst + Len(created). Returns the QCB, created, and k: the number   *)
(* of leading pending entries the loop put on its removal list. The entry *)
(* at which SchCreateTask fails is on that list already.                  *)
(***************************************************************************)
RECURSIVE ActivateFrom(_, _, _)
ActivateFrom(q, i, created) ==
    IF i > Len(q.pending) \/ ActNum(q) >= MaxActInsts
    THEN [q |-> q, created |-> created, k |-> i - 1]
    ELSE LET p  == q.pending[i]
             id == nextInst + Len(created)
         IN  IF q.actived[p] # NoInst THEN ActivateFrom(q, i + 1, created)
             ELSE IF id > MaxInsts
             THEN [q |-> q, created |-> created, k |-> i]
             ELSE ActivateFrom([q EXCEPT !.actived[p] = id,
                                         !.history = @ \cup {p}],
                               i + 1, Append(created, p))

\* qryMgrQcbPutActived, whole: returns the QCB and the created peers.
PutActived(q) ==
    IF Len(q.pending) = 0 \/ ActNum(q) >= MaxActInsts
    THEN [q |-> q, created |-> <<>>]
    ELSE LET r == ActivateFrom(q, 1, <<>>)
         IN  [q |-> [r.q EXCEPT !.pending = SubSeq(@, r.k + 1, Len(@))],
              created |-> r.created]

\* The instance tasks created for QCB q of target t (EvSchPoweron and
\* EvDhtQryInstStartReq sent to each).
Spawn(is, q, t, created) ==
    [i \in InstIds |->
        IF i >= nextInst /\ i < nextInst + Len(created)
        THEN [q |-> q.seq, t |-> t, peer |-> created[i - nextInst + 1],
              fw |-> q.fw, st |-> "run", po |-> FALSE]
        ELSE is[i]]

\* Power-off messages sent to the instances with ids in ids.
PowerOff(is, ids) ==
    [i \in InstIds |-> IF i \in ids THEN [is[i] EXCEPT !.po = TRUE] ELSE is[i]]

\* An answer sent to the owner of the QCB with sequence number s.
Answer(s, eno) == [answers EXCEPT ![s] = Append(@, eno)]

\* Variant of DelQcb that does not kill the QCB timer.
DelQcbNoKill(t, q, is) ==
    /\ qcbTab' = [qcbTab EXCEPT ![t] = NoQcb]
    /\ UNCHANGED timers
    /\ insts' = IF q.status = "inited" THEN PowerOff(is, ActIds(q)) ELSE is

(***************************************************************************)
(* qryMgrDelQcb for QCB q of target t: a QCB not yet inited is only       *)
(* removed; an inited one also has its timer killed and power-off sent to *)
(* every actived instance (the StopNotify to the route manager is not     *)
(* modelled). is is the instance table to start from.                     *)
(***************************************************************************)
DelQcb(t, q, is) ==
    /\ qcbTab' = [qcbTab EXCEPT ![t] = NoQcb]
    /\ IF q.status = "inited"
       THEN /\ timers' = timers \ {[seq |-> q.seq, t |-> t]}
            /\ insts' = PowerOff(is, ActIds(q))
       ELSE UNCHANGED timers /\ insts' = is

\* Variant of AfterActivate that deletes an empty QCB without reporting.
AfterActivateNoReport(t, r, eno) ==
    LET q  == r.q
        is == Spawn(insts, q, t, r.created)
    IN  /\ nextInst' = nextInst + Len(r.created)
        /\ UNCHANGED answers
        /\ IF Len(q.pending) = 0 /\ ActNum(q) = 0
           THEN DelQcb(t, q, is)
           ELSE /\ qcbTab' = [qcbTab EXCEPT ![t] = q]
                /\ insts' = is
                /\ UNCHANGED timers

(***************************************************************************)
(* The common tail of the handlers that call qryMgrQcbPutActived: keep    *)
(* the updated QCB (the "internal errors" early return leaves it the same *)
(* way), or, when nothing is pending or actived, report eno to the owner  *)
(* and delete the QCB (delQcb4NoMoreQueries).                              *)
(***************************************************************************)
AfterActivate(t, r, eno) ==
    LET q  == r.q
        is == Spawn(insts, q, t, r.created)
    IN  /\ nextInst' = nextInst + Len(r.created)
        /\ IF Len(q.pending) = 0 /\ ActNum(q) = 0
           THEN /\ answers' = Answer(q.seq, eno)
                /\ DelQcb(t, q, is)
           ELSE /\ qcbTab' = [qcbTab EXCEPT ![t] = q]
                /\ insts' = is
                /\ UNCHANGED <<timers, answers>>

Alive == running /\ ~crashed

-----------------------------------------------------------------------------
(* Handlers of the query manager task (qryMgrProc).                       *)

\* queryStartReq for a target without a QCB: create it in preparing and
\* ask the route manager for the nearest peers. (For a target with a QCB
\* the handler only answers Duplicated and changes nothing.)
QueryStartReq(t, fw) ==
    /\ Alive
    /\ qcbSeq < MaxQueries
    /\ qcbTab[t] = NoQcb
    /\ qcbTab' = [qcbTab EXCEPT ![t] =
                    [seq |-> qcbSeq, status |-> "preparing", fw |-> fw,
                     pending |-> <<>>, actived |-> [p \in Peers |-> NoInst],
                     history |-> {}, result |-> <<>>]]
    /\ qcbSeq' = qcbSeq + 1
    /\ rutReqs' = [rutReqs EXCEPT ![t] = @ + 1]
    /\ UNCHANGED <<timers, expired, insts, nextInst, instMsgs, answers,
                   crashed, running, natVars, stops, notifs, natEvents>>

(***************************************************************************)
(* rutNearestRsp for target t: the route manager's answer (eno ok or not, *)
(* the peers, whether one of them hashes to the target) meets whatever    *)
(* QCB holds t now. A failed, empty or local-hit answer ends the QCB;     *)
(* otherwise the result and pending lists are seeded, the timer armed,    *)
(* instances activated and the QCB inited.                                 *)
(***************************************************************************)
RutNearestRsp(t) ==
    /\ Alive
    /\ rutReqs[t] > 0
    /\ rutReqs' = [rutReqs EXCEPT ![t] = @ - 1]
    /\ \E ok \in BOOLEAN, peers \in PeerSeqs, found \in BOOLEAN :
        LET q == qcbTab[t] IN
        IF q = NoQcb \/ q.status # "preparing"
        THEN UNCHANGED <<qcbTab, timers, insts, nextInst, answers>>
        ELSE IF ~ok \/ Len(peers) = 0
                \/ (found /\ q.fw \in {"FindNode", "GetValue"})
        THEN /\ answers' = Answer(q.seq, IF ~ok THEN "RutErr"
                                         ELSE IF Len(peers) = 0 THEN "Route"
                                         ELSE "None")
             /\ DelQcb(t, q, insts)
             /\ UNCHANGED nextInst
        ELSE LET q1 == PutPending([q EXCEPT !.result =
                                         FoldLeft(UpdateResult, <<>>, peers)],
                                  peers, MaxPendings)
                 r  == PutActived(q1)
             IN  /\ timers' = timers \cup {[seq |-> q.seq, t |-> t]}
                 /\ qcbTab' = [qcbTab EXCEPT ![t] =
                                 [r.q EXCEPT !.status = "inited"]]
                 /\ insts' = Spawn(insts, r.q, t, r.created)
                 /\ nextInst' = nextInst + Len(r.created)
                 /\ UNCHANGED answers
    /\ UNCHANGED <<qcbSeq, expired, instMsgs, crashed, running, natVars,
                   stops, notifs, natEvents>>

\* The scheduler fires an armed QCB timer: the expiry is queued.
QcbTimerFire(tm) ==
    /\ tm \in timers
    /\ timers' = timers \ {tm}
    /\ expired' = expired \cup {tm}
    /\ UNCHANGED <<qcbTab, qcbSeq, rutReqs, insts, nextInst, instMsgs,
                   answers, crashed, running, natVars, stops, notifs,
                   natEvents>>

\* qcbTimerHandler: report Timeout to the owner of the expired QCB, then
\* qryMgrDelQcb(delQcb4Timeout, qcb.target) on whatever QCB holds the
\* target now.
QcbTimerHandler(tm) ==
    /\ Alive
    /\ tm \in expired
    /\ expired' = expired \ {tm}
    /\ answers' = Answer(tm.seq, "Timeout")
    /\ IF qcbTab[tm.t] # NoQcb
       THEN DelQcb(tm.t, qcbTab[tm.t], insts)
       ELSE UNCHANGED <<qcbTab, timers, insts>>
    /\ UNCHANGED <<qcbSeq, rutReqs, nextInst, instMsgs, crashed, running,
                   natVars, stops, notifs, natEvents>>

\* queryStopReq: qryMgrDelQcb(delQcb4Command, target); the stop answer is
\* recorded as the QCB's final answer.
QueryStopReq(t) ==
    /\ Alive
    /\ stops < MaxStops
    /\ stops' = stops + 1
    /\ IF qcbTab[t] # NoQcb
       THEN /\ answers' = Answer(qcbTab[t].seq, "Stopped")
            /\ DelQcb(t, qcbTab[t], insts)
       ELSE UNCHANGED <<qcbTab, timers, insts, answers>>
    /\ UNCHANGED <<qcbSeq, rutReqs, expired, nextInst, instMsgs, crashed,
                   running, natVars, notifs, natEvents>>

\* A query instance (spec-modelled) finishes and reports once: done
\* (qisDone status) or a result with the peers it learnt and, for a
\* GetValue query, whether a value came back (the flag means nothing for
\* other kinds and is kept FALSE there).
InstReport(i) ==
    /\ insts[i] # NoInst
    /\ insts[i].st = "run"
    /\ insts' = [insts EXCEPT ![i].st = "sent"]
    /\ \E kind \in {"done", "result"}, ps \in ResultPeerSets,
          found \in BOOLEAN :
          instMsgs' = instMsgs \cup
             {[kind |-> kind, inst |-> i, t |-> insts[i].t,
               peer |-> insts[i].peer,
               peers |-> IF kind = "done" THEN {} ELSE ps,
               found |-> kind = "result" /\ insts[i].fw = "GetValue"
                         /\ found]}
    /\ UNCHANGED <<qcbTab, qcbSeq, rutReqs, timers, expired, nextInst,
                   answers, crashed, running, natVars, stops, notifs,
                   natEvents>>

(***************************************************************************)
(* instStatusInd with qisDone: the QCB and the instance are looked up by  *)
(* (target, peer), not by instance. qryMgrDelIcb removes the actived      *)
(* entry, qryMgrQcbPutActived refills, and an empty query ends with None  *)
(* (put) or NotFound.                                                      *)
(***************************************************************************)
InstStatusDone(m) ==
    /\ Alive
    /\ m \in instMsgs /\ m.kind = "done"
    /\ instMsgs' = instMsgs \ {m}
    /\ LET q == qcbTab[m.t] IN
       IF q = NoQcb \/ q.actived[m.peer] = NoInst
       THEN UNCHANGED <<qcbTab, timers, insts, nextInst, answers>>
       ELSE AfterActivate(m.t,
                PutActived([q EXCEPT !.actived[m.peer] = NoInst]),
                IF q.fw = "PutValue" THEN "None" ELSE "NotFound")
    /\ UNCHANGED <<qcbSeq, rutReqs, expired, crashed, running, natVars,
                   stops, notifs, natEvents>>

(***************************************************************************)
(* instResultInd: the local node is filtered out of the reported peers;   *)
(* QCB and instance are looked up by (target, from). For each reported    *)
(* peer the handler calls rutMgrLog2Dist(nil, hash), which dereferences   *)
(* the nil hash: the task panics. Without peers: a GetValue query with a  *)
(* value ends with success; otherwise qryMgrDelIcb powers the instance    *)
(* off, a find/get query over the width limit ends with NotFound, and the *)
(* rest goes as after a done status. (The UpdateReq sent to the route     *)
(* manager is not modelled; depths stay 0, since peers never get in.)     *)
(***************************************************************************)
InstResultInd(m) ==
    /\ Alive
    /\ m \in instMsgs /\ m.kind = "result"
    /\ instMsgs' = instMsgs \ {m}
    /\ LET q     == qcbTab[m.t]
           peers == m.peers \ {Local}
           id    == q.actived[m.peer]
           q1    == [q EXCEPT !.actived[m.peer] = NoInst]
           is1   == PowerOff(insts, {id})
           get   == q.fw \in {"FindNode", "GetValue"}
       IN
       IF q = NoQcb \/ id = NoInst
       THEN UNCHANGED <<qcbTab, timers, insts, nextInst, answers, crashed>>
       ELSE IF peers # {}
       THEN /\ crashed' = TRUE
            /\ UNCHANGED <<qcbTab, timers, insts, nextInst, answers>>
       ELSE IF q.fw = "GetValue" /\ m.found
       THEN /\ answers' = Answer(q.seq, "None")
            /\ DelQcb(m.t, q, insts)
            /\ UNCHANGED <<nextInst, crashed>>
       ELSE IF get /\ Cardinality(q.history) >= QryMaxWidth
       THEN /\ answers' = Answer(q.seq, "NotFound")
            /\ DelQcb(m.t, q1, is1)
            /\ UNCHANGED <<nextInst, crashed>>
       ELSE /\ AfterActivate(m.t,
                  IF get THEN PutActived(q1) ELSE [q |-> q1, created |-> <<>>],
                  IF get THEN "NotFound" ELSE "None")
            /\ UNCHANGED crashed
    /\ UNCHANGED <<qcbSeq, rutReqs, expired, running, natVars, stops,
                   notifs, natEvents>>

\* rutNotificationInd: new peers (depth 0) for an inited QCB go to the
\* pending list and instances are activated.
RutNotificationInd(t) ==
    /\ Alive
    /\ notifs < MaxNotifs
    /\ notifs' = notifs + 1
    /\ \E peers \in PeerSeqs :
        LET q == qcbTab[t] IN
        IF q = NoQcb \/ q.status # "inited"
        THEN UNCHANGED <<qcbTab, timers, insts, nextInst, answers>>
        ELSE AfterActivate(t, PutActived(PutPending(q, peers, MaxPendings)),
                           "NotFound")
    /\ UNCHANGED <<qcbSeq, rutReqs, expired, instMsgs, crashed, running,
                   natVars, stops, natEvents>>

\* poweroff: power-off to every actived instance, then the task is done.
QryPoweroff ==
    /\ Alive
    /\ running' = FALSE
    /\ insts' = PowerOff(insts, UNION {ActIds(qcbTab[t]) :
                                       t \in {x \in Targets : qcbTab[x] # NoQcb}})
    /\ UNCHANGED <<qcbTab, qcbSeq, rutReqs, timers, expired, nextInst,
                   instMsgs, answers, crashed, natVars, stops, notifs,
                   natEvents>>

-----------------------------------------------------------------------------
(* NAT handlers. The map response and the address update are forwarded to *)
(* the connection manager as well, which is not modelled.                  *)

\* natMgrReadyInd: without NAT the public address is the local one;
\* otherwise a tcp MakeMapReq goes to the NAT manager.
NatMgrReadyInd ==
    /\ Alive
    /\ natEvents < MaxNatEvents /\ natMap = "none"
    /\ natEvents' = natEvents + 1
    /\ \/ /\ pubTcpIp' = localIp
          /\ UNCHANGED <<natTcpResult, localIp, natMap>>
       \/ /\ natMap' = "sent"
          /\ UNCHANGED <<natTcpResult, pubTcpIp, localIp>>
    /\ UNCHANGED <<qcbTab, qcbSeq, rutReqs, timers, expired, insts, nextInst,
                   instMsgs, answers, crashed, running, stops, notifs>>

\* natMakeMapRsp for tcp: record the status; on success take the public
\* address and switch the local address to it (switch2NatAddr).
NatMakeMapRsp ==
    /\ Alive
    /\ natEvents < MaxNatEvents /\ natMap = "sent"
    /\ natEvents' = natEvents + 1
    /\ natMap' = "mapped"
    /\ \E ok \in BOOLEAN, a \in Addrs :
          /\ natTcpResult' = ok
          /\ pubTcpIp' = IF ok THEN a ELSE NoAddr
          /\ localIp' = IF ok THEN a ELSE localIp
    /\ UNCHANGED <<qcbTab, qcbSeq, rutReqs, timers, expired, insts, nextInst,
                   instMsgs, answers, crashed, running, stops, notifs>>

\* natMapSwitch: every QCB is answered NatMapping and deleted, then the
\* local address is switched to the public one.
NatMapSwitch(a) ==
    LET live   == {t \in Targets : qcbTab[t] # NoQcb}
        inited == {t \in live : qcbTab[t].status = "inited"}
    IN  /\ answers' = [s \in QSeqs |->
                          IF \E t \in live : qcbTab[t].seq = s
                          THEN Append(answers[s], "NatMapping")
                          ELSE answers[s]]
        /\ qcbTab' = [t \in Targets |-> NoQcb]
        /\ timers' = timers \ {[seq |-> qcbTab[t].seq, t |-> t] : t \in inited}
        /\ insts' = PowerOff(insts, UNION {ActIds(qcbTab[t]) : t \in inited})
        /\ localIp' = a

(***************************************************************************)
(* natPubAddrUpdateInd for tcp: record the status; a bad one ends there.  *)
(* Otherwise the new address is stored in pubTcpIp and only then compared *)
(* with pubTcpIp, so the switch happens only when the previous status was *)
(* bad.                                                                    *)
(***************************************************************************)
NatPubAddrUpdateInd ==
    /\ Alive
    /\ natEvents < MaxNatEvents /\ natMap = "mapped"
    /\ natEvents' = natEvents + 1
    /\ \E ok \in BOOLEAN, a \in Addrs :
          /\ natTcpResult' = ok
          /\ IF ~ok
             THEN UNCHANGED <<pubTcpIp, localIp, qcbTab, timers, insts,
                              answers>>
             ELSE /\ pubTcpIp' = a
                  /\ IF ~natTcpResult \/ a # pubTcpIp'
                     THEN NatMapSwitch(a)
                     ELSE UNCHANGED <<localIp, qcbTab, timers, insts, answers>>
    /\ UNCHANGED <<qcbSeq, rutReqs, expired, nextInst, instMsgs, crashed,
                   running, natMap, stops, notifs>>

-----------------------------------------------------------------------------
Init ==
    /\ qcbTab = [t \in Targets |-> NoQcb]
    /\ qcbSeq = 0
    /\ rutReqs = [t \in Targets |-> 0]
    /\ timers = {} /\ expired = {}
    /\ insts = [i \in InstIds |-> NoInst]
    /\ nextInst = 1
    /\ instMsgs = {}
    /\ answers = [s \in QSeqs |-> <<>>]
    /\ crashed = FALSE /\ running = TRUE
    /\ natTcpResult = FALSE /\ pubTcpIp = NoAddr /\ localIp = LocalIp
    /\ natMap = "none"
    /\ stops = 0 /\ notifs = 0 /\ natEvents = 0

\* Steps of the query manager that consume a queued message or answer.
QryStep ==
    \/ \E t \in Targets : RutNearestRsp(t)
    \/ \E tm \in expired : QcbTimerHandler(tm)
    \/ \E m \in instMsgs : InstStatusDone(m) \/ InstResultInd(m)

\* Requests and events from the owner, the route manager and NAT.
EnvStep ==
    \/ \E t \in Targets, fw \in ForWhats : QueryStartReq(t, fw)
    \/ \E t \in Targets : QueryStopReq(t) \/ RutNotificationInd(t)
    \/ NatMgrReadyInd \/ NatMakeMapRsp \/ NatPubAddrUpdateInd
    \/ QryPoweroff

Next ==
    \/ QryStep
    \/ \E tm \in timers : QcbTimerFire(tm)
    \/ \E i \in InstIds : InstReport(i)
    \/ EnvStep

(***************************************************************************)
(* Fairness: the scheduler delivers every queued message to the task; an  *)
(* armed absolute timer fires (60 s); an instance reports within its 16 s *)
(* expiry. Owner, route-manager notifications and NAT get none.           *)
(***************************************************************************)
Fairness ==
    /\ WF_vars(QryStep)
    /\ WF_vars(\E tm \in timers : QcbTimerFire(tm))
    /\ WF_vars(\E i \in InstIds : InstReport(i))

Spec == Init /\ [][Next]_vars /\ Fairness

-----------------------------------------------------------------------------
(* Properties.                                                             *)

TypeOK ==
    /\ qcbTab \in [Targets -> Qcb \cup {NoQcb}]
    /\ qcbSeq \in 0..MaxQueries
    /\ rutReqs \in [Targets -> 0..MaxQueries]
    /\ timers \subseteq TimerRec /\ expired \subseteq TimerRec
    /\ insts \in [InstIds -> Inst \cup {NoInst}]
    /\ nextInst \in 1..(MaxInsts + 1)
    /\ instMsgs \subseteq InstMsg
    /\ answers \in [QSeqs -> Seq(Enos)]
    /\ crashed \in BOOLEAN /\ running \in BOOLEAN
    /\ natTcpResult \in BOOLEAN
    /\ pubTcpIp \in Addrs \cup {NoAddr} /\ localIp \in Addrs
    /\ natMap \in {"none", "sent", "mapped"}

(***************************************************************************)
(* Spec 8.5: a QCB's timer is active iff it is present. An armed timer    *)
(* belongs to the inited QCB now holding its target (qryMgrDelQcb kills   *)
(* it on every deletion path), and every inited QCB has its timer armed   *)
(* or its expiry queued (rutNearestRsp arms it before inited).            *)
(***************************************************************************)
TimersMatchQueries ==
    /\ \A tm \in timers :
          /\ qcbTab[tm.t] # NoQcb
          /\ qcbTab[tm.t].seq = tm.seq
          /\ qcbTab[tm.t].status = "inited"
    /\ \A t \in Targets :
          (qcbTab[t] # NoQcb /\ qcbTab[t].status = "inited") =>
             [seq |-> qcbTab[t].seq, t |-> t] \in timers \cup expired

(***************************************************************************)
(* Spec 4.2 (iteration): the pending list of a QCB is ordered by distance,*)
(* holds each peer once, never a peer already queried (history), and at   *)
(* most maxPendings entries; at most maxActInsts instances are actived,   *)
(* each for a peer in the history. Kept by qryMgrQcbPutPending and        *)
(* qryMgrQcbPutActived over start, notification and instance reports.     *)
(***************************************************************************)
PendingBookkeeping ==
    \A t \in Targets : qcbTab[t] # NoQcb =>
        LET q == qcbTab[t] IN
        /\ Len(q.pending) <= MaxPendings
        /\ IsInjective(q.pending)
        /\ \A k \in 1..(Len(q.pending) - 1) :
              PeerDist[q.pending[k]] <= PeerDist[q.pending[k + 1]]
        /\ \A k \in 1..Len(q.pending) : q.pending[k] \notin q.history
        /\ ActNum(q) <= MaxActInsts
        /\ \A p \in Peers : q.actived[p] # NoInst => p \in q.history

(***************************************************************************)
(* Every query that was started is eventually answered (result, failure,  *)
(* timeout, NAT switch or stop), unless the task is powered off or has    *)
(* crashed. A stale expiry that deletes a newer QCB of the same target    *)
(* would break this; the liveness run has one query.                      *)
(***************************************************************************)
QueryAnswered ==
    \A s \in QSeqs :
        (qcbSeq > s) ~> (Len(answers[s]) > 0 \/ ~running \/ crashed)

(***************************************************************************)
(* An instance still running and not told to power off is the actived    *)
(* instance of its own QCB: no instance is left probing for a QCB that no *)
(* longer tracks it. instStatusInd finds the instance by (target, peer),  *)
(* so a late done status of an old instance removes the entry of a newer  *)
(* QCB's instance for the same peer, without power-off.                    *)
(***************************************************************************)
InstancesTracked ==
    \A i \in InstIds :
        (insts[i] # NoInst /\ insts[i].st = "run" /\ ~insts[i].po) =>
            LET q == qcbTab[insts[i].t] IN
            /\ q # NoQcb
            /\ q.seq = insts[i].q
            /\ q.actived[insts[i].peer] = i

(***************************************************************************)
(* The owner of a query hears its end once. qcbTimerHandler reports       *)
(* Timeout for the QCB in the expiry message even when that QCB has been  *)
(* answered and deleted after the timer fired.                            *)
(***************************************************************************)
AnswerOnce ==
    \A s \in QSeqs : Len(answers[s]) <= 1

(***************************************************************************)
(* Spec 4.2 (instance completion): peers in an instance's response are    *)
(* added to the result and pending lists. instResultInd instead calls     *)
(* rutMgrLog2Dist(nil, hash) for them and the task panics.                *)
(***************************************************************************)
ResultPeersAccepted == ~crashed

(***************************************************************************)
(* Spec 4.2 (NAT interaction): when NAT reports a public-address change   *)
(* for tcp, the local advertised address is switched: while the mapping   *)
(* is good, the local address is the public one. natPubAddrUpdateInd      *)
(* compares the new address with itself and switches only after a bad    *)
(* status.                                                                  *)
(***************************************************************************)
LocalFollowsPublic ==
    natTcpResult => localIp = pubTcpIp

=============================================================================
