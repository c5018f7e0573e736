# TLA+ models of gyee's peer-to-peer layer

This directory holds TLA+ specifications of the gyee p2p layer (`src/p2p/...`),
the TLC configurations that check them, and `PROJECT.json`, which lists every
component, every run, the mutants that show each checked property can fail,
the source lines each definition models, the findings and the hazards.

## 1. Inventory

| Component | Source | State it keeps | Operations (handlers) | Talks to |
|---|---|---|---|---|
| Peer manager (PEM) | `src/p2p/peer/peer.go` 127-1191, 2056-2153 | `peers` (task -> instance), `nodes[snid][(id,dir)]`, `workers[snid][(id,dir)]`, `wrkNum`, `obpNum`, `ibpNum`, `ibpTotalNum`, `randoms`, `staticsStatus`, `tidFindNode` | StartReq, OutboundReq (static and dynamic), DcvFindNodeRsp, DcvFindNodeTimer, LsnConnAcceptedInd, ConnOutRsp, HandshakeRsp, CloseReq, CloseCfm, CloseInd, DataReq, PingpongRsp, Poweroff; helpers CreateOutboundInst, KillInst, Ask4More, instStateCmpKill, IndEnque | PI tasks, listener, discovery, consumer (indication channel) |
| Peer instance (PI) | `peer.go` 1197-2054 | `state` (null, connOut, accepted, connected, handshook, activated, killing, killed), `conn`, `ppCnt`, `ppEno`, `rxEno`/`txEno`, `rxtxRuning`, `ppTid` | ConnOutReq (dial), HandshakeReq (inbound/outbound), EstablishedInd, CloseReq, PingpongTimer, PingpongReq, RxDataInd, Poweroff | PEM; its own RX and TX goroutines |
| PI RX/TX goroutines | `peer.go` 1818-1989 | `rxEno`, `txEno`, `rxDone`/`txDone` signals | read loop, write loop | PI (RxDataInd), PEM (CloseReq), consumer rx channel |
| Listener, discovery, scheduler | not under `src/` | listening flag; find-node requests; mailboxes and timers | LsnStart/Stop, FindNode, message delivery, timers | PEM |
| Query manager (QRY) | `src/p2p/dht/query.go` | QCB table (target -> status preparing/inited, pending, actived, history, result, timer), ICB sequence, NAT state | StartReq, StopReq, NearestRsp, NotificationInd, InstStatusInd, InstResultInd, NatReadyInd, NatMakeMapRsp, NatPubAddrUpdateInd, qcb timer | route manager, query instances, NAT, DHT shell |
| Route manager (RUT) | `src/p2p/dht/route.go` | bucket table, log2dist lookup table, notifees, bootstrap timer | Poweron, NearestReq, UpdateReq, notifee register, bootstrap timer; algorithms log2dist, sortPeer, nearest, split | QRY, connection manager |
| DHT shell | `src/p2p/shell/dhtshell.go` | two bounded channels (64) | event dispatch, conn-status dispatch | DHT tasks, consumer |
| Static task table | `src/p2p/shell/static.go` | task list, power-on order | P2pStart | all tasks |
| Blockchain core | `src/core/block.go` | `lock`, `running`, `quitCh`, wait group, `lastBlockHeight` | Start, Stop, Wait, AddBlock, loop, stubs | its owner (Core, not in this snapshot) |
| Legacy peer manager | `src/unnamed/part_003` | as PEM without sub-networks | as PEM | — |
| bootnode CLI, protobuf schemas, tests | `src/cmd`, `unnamed/part_000..002`, `p2p/peer/pb`, `tests` | none | — | — |

### Hard behaviours
* PEM, every PI, and the two I/O goroutines of an activated PI are separate
  goroutines. The PEM reads a PI's `state` (in `instStateCmpKill`,
  `peMgrCloseReq` and `peMgrKillInst`) while the PI task writes it.
* A dial or a handshake blocks the PI task for up to 15 s or 8 s. Meanwhile
  the PEM can kill the instance and stop its task.
* Mailboxes are FIFO per task, and there is no order across tasks. Close
  requests reach the PEM from the application, the pingpong timer and the RX
  goroutine. They are keyed by `(node, dir)`, not by instance.
* An inbound and an outbound session to the same node race. Duplicate
  resolution compares the two instances' states.
* Capacity counters (`obpNum`, `ibpNum`, `ibpTotalNum`, `wrkNum`) are updated
  at different points of an instance's life.

## 2. Modules

### PeerMgr.tla (PEM + PI + RX goroutine, one sub-network: dynamic or static)

**State.**
* `peers`, `nodes`, `workers` and the four counters are the PEM maps of
  `PeerManager`. `nodes` and `workers` are functions from `(node, dir)` keys
  to a task identity or `NoPtn`.
* `pi[p]` holds the `peerInstance` fields the control flow reads:
  * `state`, `dir`, `node`;
  * `conn` (socket open);
  * `ppTid`, `ppCnt`, `ppEno`, `rxtxRuning`;
  * `phase`, which marks a task blocked in a dial or a handshake;
  * `rx`, the RX goroutine: `run`, `err` (rxEno set), `stopRun`/`stopErr`
    (rxDone signalled), `exit`.
* `tasks` are the PI tasks the scheduler has not stopped.
* `pemMb`, `piMb` and `lsnMb` are the FIFO mailboxes.
* `actInd` and `closeInd` record the PeerActivated and PeerClosed
  indications.
* `staticsStatus` is peMgr.staticsStatus over both keys of each static node
  (idle, connectOutInited, activated, killing).
* The constant `Static` selects the network type. With `Static` TRUE the one
  sub-network is the static one, `MaxPeers`/`MaxOutbounds` stand for
  staticMaxPeers/staticMaxOutbounds, `MaxInbounds` is 0 (no dynamic
  sub-network) and `StaticMaxInBounds` gives the listener's cap; the static
  nodes are `StaticNodes`.
* Task identities (`Ptns`) are never reused. A creation fails once they are
  exhausted, as `SchCreateTask` does when it has no task left.

**Actions.**
* PEM handlers:
  * `StartReq`, `OutboundReq` / `OutboundReqFull` (peMgrDynamicSubNetOutbound
    with peMgrCreateOutboundInst and peMgrAsk4More), `StaticOutboundReq`
    (peMgrStaticSubNetOutbound: the idle static nodes without an outbound
    instance, up to the cap, become connectOutInited; the static retry
    timer is set if still short), `DcvFindNodeRsp`,
    `DcvFindNodeTimer`, `LsnConnAcceptedInd`, `ConnOutRsp`, `CloseReq`,
    `ConnCloseCfm`;
  * the five branches of peMgrHandshakeRsp: `HandshakeRspLost`, `...Failed`,
    `...Refused`, `...Duplicated` (instStateCmpKill), `...Admit`.

  Every kill goes through `KillInst` (peMgrKillInst, whole), including the
  re-drive messages its caller sends afterwards and the static status reset
  to idle. In static mode admission checks only wrkNum and a same-direction
  worker (no ibp/obp cap, no instStateCmpKill), an admitted outbound
  instance becomes activated (`ActivateStatic`), and `CloseReq` marks the
  key killing (`UpdateStaticStatus`).
* PI handlers: `PiConnOutReq` + `PiDialDone`, `PiHandshakeReq` +
  `PiHandshakeDone`, `PiEstablishedInd` (including its SetDeadline failure
  path), `PiCloseReq`, `PiPingpongTimer`, `PiPingpongReq`, `PiRxDataInd`. A
  dial or handshake is split at its blocking I/O. The completion step runs
  even after the PEM stopped the task, as the Go handler does.
* RX goroutine: `RxPing`, `RxFail` (a read error sends CloseReq), `RxExit`.
  After rxDone a goroutine blocked in the read fails once the PEM closed the
  socket, and sends one more CloseReq.
* Environment (modelled from the spec, since this code is not under `src/`):
  listener start/stop and accept; discovery answers with any subset of
  `Nodes`; the find-node and pingpong timers; the application's `ClosePeer`;
  the scheduler's power-off (`SchPoweroff`, `Stopped`). With `PowerOff`
  TRUE the scheduler may send Poweroff to the PEM once. `PemPoweroff`
  (peMgrPoweroff) forwards it to every instance in `peers` and stops the
  PEM (`pemDone`); later messages to it are dropped. `PiPoweroff`
  (piPoweroff) finishes a Killing instance at once and leaves its socket
  as it is. Any other instance signals its RX goroutine, closes its socket
  and becomes Killed. Listener, discovery and the application stop with
  the PEM.

### PeerSession.tla (the contract of the peer manager)

The abstract specification of what the application sees (spec 4.6, 7, 8.2,
scenario S4). `sess[p]` is "none", "open" or "ended", `snode[p]` is the
session's node, and `told` is the set of sessions a PeerClosed was issued
for. `Activate(p, n)` opens a session when fewer than `MaxPeers` are open
and none is open with `n`. `Close(p)` ends an open session and issues
PeerClosed in the same step.

PeerMgr implements it (`SessionSpec == Session!Spec`, `INSTANCE PeerSession
WITH ...`) under this refinement mapping:
* a session is open while its instance has been announced (`actInd`) and is
  still in `peers`, and ended once it has left `peers`;
* its node is the instance's node;
* `told` is `closeInd`.

So every removal of an activated instance from `peers` must happen in the
step that issues its PeerClosed. No listed run checks the refinement:
* with inbound connections from a node that also has an outbound session,
  TLC finds it violated under `PeerMgr_closeorphan.cfg`. That is the
  instStateCmpKill path of the pem_cmpkill_orphan finding;
* without them, the only way an activated instance leaves `peers` is
  peMgrConnCloseCfm, which always indicates, so a pass would show nothing.

### PiDataPath.tla (data path of one activated instance)

Four goroutines share `inst.state`, the channels `inst.txChan` and
`inst.rxChan`, and `inst.txDone` and `inst.rxDone`, without a lock:
* the PEM task runs peMgrDataReq, peMgrCloseReq and peMgrConnCloseCfm;
* the PI task runs piCloseReq;
* the TX goroutine runs piTx;
* the RX goroutine runs piRx; the model has its PID_EXT payload path, and
  the application drains rxChan (`AppRecv`).

The model therefore makes every access to a shared field a step of its
own. The `pemPc`, `piPc`, `txPc` and `rxPc` variables say where each goroutine is:
* `DataReqState`, `DataReqLen` and `DataReqSend` are the state check, the
  `len >= cap` check and the send;
* `PiCloseReq`, `PiCloseTxChan`, `PiNilTxChan`, `PiSignalRxDone`,
  `PiSignalTxDone`, `PiCloseRxChan` and `PiNilRxChan` are the Killing
  write, `close(txChan)`, `txChan = nil`, the rxDone and txDone signals,
  `close(rxChan)`, and `rxChan = nil` with the CloseCfm, in the code's
  order;
* `TxChkDone`, `TxRecv`, `TxWait` and `TxSend` are the select on txDone,
  reading the `txChan` field, waiting on the channel object, and the write
  to the connection, which may fail and then sends CloseReq;
* `RxChkDone`, `RxRecv`, `RxLen` and `RxSend` are the select on rxDone,
  RecvPackage (a PID_EXT package from an open connection, or a failure
  that sets rxEno and sends CloseReq), the `len >= cap` check and the send
  on `rxChan`.

`txChan` is "open", "closed", or "nil" (the field cleared, the object
closed). `txq` is the object's buffer, which a closed channel still
delivers. Go's channel rules are kept:
* `len` and `cap` of nil are 0;
* a send on a closed channel panics;
* a send or receive on nil blocks for ever.

The instance starts as piEstablishedInd leaves it. The application's
SendPackage and outside close requests (ClosePeer, pingpong) are bounded
by `MaxData` and `MaxCloses`, the peer's PID_EXT packages by `MaxRx`.
`TxCap` and `RxCap` stand for the 128 of PeInstMaxP2packages.

### RouteAlgo.tla (route manager algorithms; MC_RouteAlgo)

Pure operators over byte sequences (hashes are 2 bytes in the runs, 32 in
the code; nothing depends on the length):
* `SetupLog2DistLKT` is rutMgrSetupLog2DistLKT: the number of leading zero
  bits of each byte.
* `Log2DistFrom`/`Log2Dist` is rutMgrLog2Dist (RECURSIVE, stops after the
  first byte whose delta is not 8).
* `InsertIdx`, `SortIndex`, `SwapAt`, `ApplyIdx`, `SortPeer` are the two
  loops of rutMgrSortPeer.

Reference definitions written from what the results mean: `CommonPrefixLen`
(bit by bit) and `StableOrder` (stable ascending rank). MC_RouteAlgo keeps one
input (a hash pair or a distance slice) in a variable and lets each step pick
any other, so TLC compares operator and reference on every input of the
bounded domain.

The stateful route manager is not modelled. NewRutMgr leaves `distLookupTab`
empty (route.go:139) and poweron writes its element 0 (route.go:216 via
rutMgrSetupLog2DistLKT), so the task panics at power-on; `update` likewise
writes `bucketTab[0]` of a zero-length slice. No bucket table state is ever
reached by the code as written, and NewRutMgr itself has no caller under
`src/`.

### QryMgr.tla (query manager; MC_QryMgr)

**State.**
* `qcbTab[t]`: the QCB of target t or `NoQcb`. A QCB is a record of
  `seq` (the query it belongs to), `status` (preparing, inited), `fw`
  (ForWhat), `pending` (a sequence of peers, sorted by `PeerDist`),
  `actived[p]` (instance id or `NoInst`), `history`, `result`.
* `timers`: the armed qcb timers (query, target); `expired`: expiries
  queued to the task but not yet handled.
* `rutReqs`: NearestReq messages waiting for the route manager.
* `insts[i]`: the instance tasks created (query, target, peer, `st`,
  `po` = power-off received); `instMsgs`: their status/result messages.
* `answers[s]`: the answers query s's owner got (each an eno).
* `running`, `crashed` (the task panicked), and the NAT state
  `natTcpResult`, `pubTcpIp`, `localIp`, `natMap`.

**Actions.** One per handler of qryMgrProc, each whole:
`QueryStartReq`, `RutNearestRsp` (the route manager's answer is chosen
nondeterministically among the peer lists it can give), `QueryStopReq`,
`RutNotificationInd`, `InstStatusDone`, `InstResultInd`,
`QcbTimerHandler`, `QryPoweroff`, `NatMgrReadyInd`, `NatMakeMapRsp`,
`NatPubAddrUpdateInd`. `NatMapSwitch` is natMapSwitch with switch2NatAddr.
Helpers `PutPending`, `PutActived` (`ActivateFrom`), `DelQcb`,
`UpdateResult` and `AfterActivate` are the shared functions of query.go.
Environment: `QcbTimerFire` (the scheduler queues an expiry of an armed
timer) and `InstReport` (a query instance reports done, or a result with a
peer set from `ResultPeerSets`; instances are not under `src/` and are
modelled from the spec).

### BlockChain.tla (blockchain lifecycle; MC_BlockChain)

**State.** `writer` is the goroutine holding `bc.lock` for writing.
`running`, `quitCh` ("open" or "closed"), `wg` (the wait group's counter)
and `lastBlockHeight` are the struct's fields. `loops` holds the pc of
each loop goroutine Start spawned. `pc[c]` is where caller `c` is inside
Stop or Wait.

**Actions.** `Init` is what NewBlockChain returns. `Start` and `AddBlock`
hold the lock without blocking, so each is one step that needs the lock
free. AddBlock either fails at one of its storage steps or sets the height.
Stop is split at the points where it can block or fail:
* `StopCall` and `StopLock` take the lock;
* `StopClose` closes quitCh, or panics if it is already closed;
* `StopWait` returns once the counter is zero, and releases the lock.

Wait is split the same way:
* `WaitCall` and `WaitRLock` read `running` under the read lock;
* `WaitRecv` is the receive on quitCh.

The loop goroutine has two steps: `LoopAdd` is its `wg.Add(1)`, and
`LoopQuit` is the select on quitCh followed by the deferred `wg.Done()`.

## 3. Runs

| run | cfg | checks | result |
|---|---|---|---|
| pem_tables | PeerMgr_tables.cfg | TypeOK, CountersMatchTables, TablesAgree, OneWorkerPerNode | pass (1.7M states) |
| pem_session | PeerMgr_session.cfg | ClosingCompletes, with pingpong, pings, RX errors and an inbound duplicate of the outbound session | pass (323k states) |
| pem_caps | PeerMgr_caps.cfg | WorkersWithinCaps (two nodes, one slot) | pass (2.4M states) |
| pem_static | PeerMgr_static.cfg | StaticStatusMatchesNodes, PoweroffCompletes (spec 4.6), ListenerResumes in a static network | pass (241k states) |
| rut_algo | MC_RouteAlgo.cfg | Log2DistIsCommonPrefix, SortIndexIsStableOrder | pass (6682 inputs) |
| qry_answered | QryMgr_answered.cfg | QueryAnswered, TimersMatchQueries, PendingBookkeeping | pass (55k states) |
| pem_send_race | PiDataPath_sendrace.cfg | TeardownSendsSafe (DataReqSendSafe and RxSendSafe; spec 5) | violated |
| pem_cmpkill_orphan | PeerMgr_orphan.cfg | HandshookAwaitsAdmission (spec 4.6.5) | violated |
| pem_outbound_stall | PeerMgr_stall.cfg | OutboundKeepsDriving (spec 7) | violated |
| qry_lost_query | QryMgr_lostquery.cfg | QueryAnswered | violated |
| pem_socket_leak | PeerMgr_dialleak.cfg | ConnClosedWhenKilled (spec 4.6, 5) | violated |
| blk_stop_join | BlockChain_stopjoin.cfg | StopWaitsForLoops (the comment on BlockChain) | violated |

What the violations show (details in `PROJECT.json` "findings"):

* **Send race.** peMgrDataReq checks `inst.state` and then sends on
  `inst.txChan`. Between the two, piCloseReq in the PI goroutine can set
  Killing and close the channel. The send then panics and ends the process
  (peer.go:993). If the field was already cleared, the send blocks the PEM
  for ever. The comment at peer.go:982-984 says the state check is meant to
  prevent exactly this. The RX goroutine has the same defect with a wider
  window (peer.go:1980). piRx looks at rxDone only at the top of its loop.
  If it is blocked in RecvPackage when piCloseReq starts, the socket is
  still open, because the PEM closes it only on CloseCfm. A PID_EXT package
  read then passes the `len(rxChan)` check on the closed channel object,
  and the send panics. RxSendSafe alone is violated in 13 steps.
* **Orphan.** instStateCmpKill returns Duplicated even when it killed the
  *other* instance, which leaves the survivor handshook and never admitted.
  The same return path also ends a session without PeerClosed: an
  activated instance that is closing loses to a handshook duplicate
  (peer.go:2140) and is removed without the indication, and its later
  CloseCfm fails before peMgrIndEnque. SessionSpec fails under `PeerMgr_closeorphan.cfg`: PeerMgr then no
  longer implements PeerSession.
* **Stop without waiting.** BlockChain.loop calls `wg.Add(1)` itself
  (block.go:324). A Stop that runs between Start and that statement closes
  quitCh, sees a zero counter and returns, although the type's comment
  promises to wait for its sub routines (6 states).
* **Outbound stall.** When the outbound cap is reached, the find-node timer
  is not re-armed. A refused outbound instance is killed without a re-drive,
  so dialling stops.
* **Socket leak.** An outbound instance can be killed as a duplicate while
  its task is blocked in the dial. peMgrKillInst finds no socket to close.
  The dial then returns and stores its socket in the dead instance
  (peer.go:1434). peMgrConnOutRsp sends HandshakeReq to the stopped task
  without checking that the instance is still alive (peer.go:731), so the
  socket is never closed. The same property also fails under
  `PeerMgr_offleak.cfg`, by a different path: power-off (peer.go:1368).
* **Lost query.** qcbTimerHandler deletes by `qcb.target`: a stale expiry of
  a deleted query removes the next query of the same target, which is never
  answered. This relies on the scheduler not recalling an expiry already
  queued when SchKillTimer runs (the scheduler is not under `src/`).

Further properties are stated in the modules, with a cfg each, and TLC finds
each of them violated, except the one marked as holding. They are not among the runs above, because each defect
is either plain from its line or repeats a kind of defect a listed run
already shows. The hazards in `PROJECT.json` point to them:

| property | cfg | the code |
|---|---|---|
| PeerMgr.ActivatedAreWorkers | PeerMgr_keyconf.cfg | peMgrKillInst deletes table entries by `(node, dir)`, so killing a second instance of the same node removes the live worker's entries (peer.go:1087; spec 8.2) |
| PeerMgr.SessionSpec | PeerMgr_closeorphan.cfg | an activated instance that is closing is killed by instStateCmpKill without PeerClosed, and its CloseCfm fails before the indication (peer.go:2140, 936; spec 7, S5) |
| BlockChain.AtMostOneLoop | BlockChain_twostart.cfg | Start never sets `bc.running`, so a second Start spawns a second loop (block.go:250) |
| BlockChain.StopNeverPanics | BlockChain_twostop.cfg | Stop closes quitCh without checking anything, so a second Stop panics (block.go:266) |
| BlockChain.WaitBlocksWhileRunning | BlockChain_nowait.cfg | Wait returns at once while the loop runs, because `bc.running` is never set (block.go:272) |
| PiDataPath.TxGoroutineExits | PiDataPath_txleak.cfg | piTx wakes on the closed txChan before txDone is sent, re-reads the field after it was set to nil and blocks for ever on the nil channel: the TX goroutine leaks (peer.go:1847) |
| PeerMgr.OneWorkerPerNode | PeerMgr_staticdup.cfg | in a static network a static node dialling in while dialled out keeps an inbound and an outbound worker: the static branch of peMgrHandshakeRsp has no duplicate resolution (peer.go:800, 826), where spec 4.6.5 and S4 ask for one survivor |
| PeerMgr.PoweroffCompletes | PeerMgr_poweroff.cfg | holds: power-off also completes in a dynamic network (63k states) |
| QryMgr.TypeOK, TimersMatchQueries, PendingBookkeeping | QryMgr_tables.cfg | hold: the same bookkeeping with two queries of one target (564k states) |
| PeerMgr.ConnClosedWhenKilled | PeerMgr_offleak.cfg | on power-off a Killing instance is done at once without closing its socket, and its CloseCfm to the stopped PEM is dropped (peer.go:1368) |
| MC_RouteAlgo.SortPeerIsStableOrder | MC_RouteAlgo_order.cfg | sortPeer's second loop swaps in place, so `<<1,0>>` is left unsorted (route.go:529; spec 4.1) |
| PeerMgr.AdmitWithinCaps | PeerMgr_obcap.cfg | the outbound cap test counts the candidate itself (peer.go:833) |
| PeerMgr.CloseForwardedToRequester | PeerMgr_staleclose.cfg | a late CloseReq of an old instance closes the newer worker of the same key (peer.go:918) |
| PeerMgr.IbpTotalBounded | PeerMgr_acceptcap.cfg | connections accepted before LsnStopReq overshoot ibpTotalNum (peer.go:555) |
| MC_RouteAlgo.Log2DistEqualIsZero | MC_RouteAlgo_equal.cfg | equal hashes give 8 x length, spec 8.6 says 0 (route.go:437) |
| QryMgr.InstancesTracked | QryMgr_staledone.cfg | an old instance's done status removes the new query's instance for that peer without power-off (query.go:641) |
| QryMgr.ResultPeersAccepted | QryMgr_panic.cfg | `rutMgrLog2Dist(nil, hash)` panics for any returned peer (query.go:772) |
| QryMgr.LocalFollowsPublic | QryMgr_natswitch.cfg | the new public address is compared with itself (query.go:976) |
| QryMgr.AnswerOnce | QryMgr_twice.cfg | a timer expiry queued before queryStopReq deleted the QCB still reports Timeout, so the owner hears Stopped and then Timeout (query.go:1313) |

Every property of a passing run has a mutant in `PROJECT.json`: an operator
placed just before the definition it replaces, modelling a plausible slip in
that code. TLC finds the property violated with the mutant in place.

## 4. Bounds

* **Sizes.** One node (two where the capacity branches need a second node),
  two task identities, and caps of 1–2:
  * two identities give an inbound and an outbound instance racing for one
    node, or two successive sessions;
  * one node is enough for every duplicate path.
* **MaxAccepts** (listener accepts), **MaxAppCloses** (ClosePeer calls) and
  **MaxPiMbox** (pings and ticks queued to one instance) bound the
  environment. Each run enables the ones its question needs; enabling all
  three together exceeds TLC's reach.
* **Pacing conditions** keep the PEM mailbox finite without cutting off a
  behaviour of the code, since timers run in seconds while handlers take
  microseconds:
  * discovery has at most one answer waiting;
  * the find-node timer does not expire while an expiry or an OutboundReq
    waits;
  * a pingpong tick is not queued twice, nor after ppEno is set;
  * a listener command equal to the last one queued is merged with it.
* **Static mode and power-off.** `pem_static` uses two nodes, one of them
  static, two identities, one outbound and one inbound slot, two peers, one
  accept and one application close. The static node can be dialled out,
  dial in, be closed and be re-dialled; the other node can dial in and be
  refused. Power-off can come at any point of a dial, a handshake, an
  activation or a kill, which is what its completion depends on.
  `PeerMgr_poweroff.cfg` checks the same completion in a dynamic network
  (one node, two outbound slots, no accepts or closes).
  Power-off can come at any point of a dial, a handshake, an activation or
  a kill, which is what its completion depends on. With power-off enabled
  in the larger runs the state space grows beyond TLC's reach in five
  minutes, so `PowerOff` is FALSE there.
* **Deadlock.** In PeerMgr it is checked everywhere except `pem_caps`,
  `pem_session` (one outbound slot) and `pem_outbound_stall`. There the outbound stall (a finding) leaves nothing
  to do once the bounded listener is exhausted.

* **PiDataPath.** Two packages, one outside close, one PID_EXT package
  from the peer and channel capacities of 1. That is enough for a send to find the queue full, a package to be
  buffered when the channel closes, and a TX write to fail and request the
  close itself. Deadlock checking is off: once the bounds are spent every
  task waits for a message, as the real ones do.
* **QryMgr.** One target (every cross-query hazard is between two queries
  of the same target), two peers at distances 1 and 2 plus the local node,
  one active instance (MaxActInsts 1) and two pending slots, so a result can
  push a farther peer out and a done must start the next instance. Two
  queries in the violation runs and in `QryMgr_tables.cfg`; one in
  `qry_answered`, where stops, notifications and three NAT events are
  enabled instead. Two queries there would make QueryAnswered fail by the
  lost-query defect.
  MaxInsts caps instance ids; reaching it is SchCreateTask failing.
  Deadlock checking is off in the QryMgr runs: once every query is answered
  and the bounds are spent the task simply waits, as the real one does.
* **BlockChain.** Two callers and four calls: enough for Start then Stop,
  two Starts, two Stops, and a Wait racing a Stop.
* **RouteAlgo.** Nine byte values cover every leading-zero class (0, 1,
  2-3, ..., 128-255) and pairs of them; sequences of up to 4 distances from
  {0,1,2} cover every order with ties.

## 5. Fairness

* Weak fairness applies to:
  * the PEM and listener tasks, and every PI task: the scheduler delivers
    mailbox heads in order;
  * dial and handshake completion, which are bounded by the 15 s and 8 s
    timeouts;
  * the RX goroutine's exit after rxDone.
* PiDataPath: weak fairness on the PEM and PI tasks' steps, since the
  scheduler runs a task that has a message, and on the TX and RX
  goroutines' own steps (not RecvPackage), since the Go runtime schedules
  a runnable goroutine.
* QryMgr: weak fairness on the task's handlers of queued messages, on the
  scheduler delivering a queued qcb expiry, and on an instance eventually
  reporting (instances end by their own timeouts). Stops, notifications
  and NAT events get none.
* `ListenerResumes` (pem_static) rests on the same weak fairness of the
  PEM and listener tasks: a queued LsnStartReq is eventually handled. It
  needs no fairness on the environment. Closes and handshake failures that
  free an inbound slot are what make the premise true.
* BlockChain: weak fairness on the loop goroutines and on a caller's steps
  inside Stop and Wait (the Go runtime schedules runnable goroutines).
  New calls get none. The run checks only a safety property.
* The scheduler's power-off gets no fairness: `PoweroffCompletes` only
  says what follows once it has been sent.
* The environment (remote peers, discovery, application, timers) gets no
  fairness. Liveness properties therefore hold whatever the network does.

## 6. Not modelled (yet)

* **PEM and PI.**
  * A dynamic network that also has static nodes (two sub-networks at
    once); each mode is modelled on its own.
  * The indication channel's 512 bound.
  * Package contents. The RX payload path and the TX side are in
    PiDataPath. piPoweroff's teardown of the channels is not there,
    because the PEM has stopped before it runs.
  * PingpongRsp and CloseInd: handlers that nothing under `src/` sends.
* **QRY.** Payloads (values, providers, the peer list of a result report,
  where idx is never incremented at query.go:1371), the StopNotify to the
  route manager, poweron/config loading.
* **RUT.** The route table state (see RouteAlgo above); the nearest answer
  also omits ForWhat and Pcs.
  The table routines are not modelled over hand-built tables either, because
  no table the program can reach holds a peer. Read from the code, they also
  fail on their own: `find` never advances `el` and loops for ever once the
  first entry does not match (route.go:554); `split` asserts a type the list
  does not hold (route.go:625); `Nearest` indexes `bucketTab[dt]` past its
  length; the bootstrap timer's id is never stored in `bpTid`; and
  `rutMgrNotifeeReg` has no caller.
* **DHT shell.** Each handler forwards a message, pushes it onto evChan
  or csChan (capacity 64), or drops it. Poweroff closes both channels in
  the task itself, so no later send can reach them. What could go wrong
  is a consumer falling 64 events behind, which blocks the task
  (dhtshell.go:169). That consumer is not in the repository, and nothing
  under `src/` creates the shell.
* **`core/block.go`.** The Block and header encoding (NewBlock, Seal,
  ToBytes, setBytes, ParseBlock, toSignedProto): data conversion with no
  shared state. The lifecycle is in BlockChain.tla. Its owner (Core) is
  not in this snapshot of the repository, so two caller goroutines making
  up to four calls stand for it.
* **Legacy `unnamed/part_003`.** It duplicates an older peer manager.

## 7. Plan

1. **PeerMgr.tla**, **RouteAlgo.tla**, **QryMgr.tla**: done (above).
2. **PeerSession.tla** and its refinement by PeerMgr: done, and violated
   (`PeerMgr_closeorphan.cfg`).
3. **Power-off** of the manager and its instances: done (`pem_static`,
   `PeerMgr_poweroff.cfg`).
4. **Data path** (TX side and RX payload path): done (`PiDataPath`, `pem_send_race`).
5. **Static sub-network mode**: done (`pem_static`, `PeerMgr_staticdup.cfg`).
6. **DHT shell**: NewDhtShellMgr has no caller under `src/`, and the shell
   only forwards events between bounded channels; it stays unmodelled unless
   a caller appears.
