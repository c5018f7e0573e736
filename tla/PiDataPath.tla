----------------------------- MODULE PiDataPath -----------------------------
(* The data path of one activated peer instance (src/p2p/peer/peer.go):   *)
(* the PEM task handling EvPeTxDataReq (peMgrDataReq), EvPeCloseReq and    *)
(* EvPeCloseCfm, the PI task handling EvPeCloseReq (piCloseReq), and the   *)
(* instance's TX goroutine (piTx). The three run as separate goroutines    *)
(* and share inst.state, inst.txChan and inst.txDone without a lock, so    *)
(* every read or write of a shared field is a step of its own.             *)
(*                                                                         *)
(* The instance starts as piEstablishedInd leaves it: Activated, a worker  *)
(* of the PEM, txChan and rxChan open, the TX and RX goroutines started.  *)
(* The RX goroutine (piRx) is modelled on its payload path: PID_EXT        *)
(* packages go to rxChan, which the application drains, and a failed read  *)
(* sends EvPeCloseReq. Its PID_P2P path (ping and pong) is in PeerMgr.     *)
(* txPendNum is bookkeeping nothing reads, and is left out.                *)
EXTENDS Naturals, Sequences

CONSTANTS
    MaxData,       \* packages the application hands to SendPackage
    MaxCloses,     \* close requests from outside (ClosePeer, pingpong)
    TxCap,         \* cap(inst.txChan), PeInstMaxP2packages
    MaxRx,         \* PID_EXT packages the peer sends
    RxCap          \* cap(inst.rxChan), PeInstMaxP2packages

Pkgs == 1..MaxData

\* inst.state values used here
Activated == "activated"
Killing   == "killing"
Killed    == "killed"

VARIABLES
    pemMb,     \* PEM mailbox: "DataReq" records and close messages
    piMb,      \* PI mailbox: EvPeCloseReq from the PEM
    state,     \* inst.state
    worker,    \* the instance is in peMgr.workers
    task,      \* the PI task is not stopped
    conn,      \* inst.conn open
    txChan,    \* "open", "closed", or "nil" (the field cleared after the close)
    txq,       \* packages buffered in the channel object
    txDone,    \* the buffered (1) txDone channel: "empty", "full", "closed"
    txEno,     \* inst.txEno # PeMgrEnoNone
    pemPc,     \* where the PEM is in peMgrDataReq
    pemPkg,    \* the package peMgrDataReq is handling
    piPc,      \* where the PI is in piCloseReq
    txPc,      \* where the TX goroutine is in piTx
    txPkg,     \* the package piTx took from txChan
    sent,      \* packages written to the connection, in order
    nextPkg,   \* packages handed to SendPackage so far
    closes,    \* external close requests so far
    rxChan,    \* inst.rxChan: "open", "closed" or "nil", as txChan
    rxq,       \* payloads buffered in the rxChan object
    rxDone,    \* the buffered (1) rxDone channel: "empty", "full", "closed"
    rxEno,     \* inst.rxEno # PeMgrEnoNone
    rxPc,      \* where the RX goroutine is in piRx
    rxIn       \* PID_EXT packages read from the connection so far

rxVars == <<rxChan, rxq, rxDone, rxEno, rxPc, rxIn>>

vars == <<pemMb, piMb, state, worker, task, conn, txChan, txq, txDone, txEno,
          pemPc, pemPkg, piPc, txPc, txPkg, sent, nextPkg, closes, rxVars>>

Init ==
    /\ pemMb = <<>>
    /\ piMb = <<>>
    /\ state = Activated
    /\ worker = TRUE /\ task = TRUE /\ conn = TRUE
    /\ txChan = "open" /\ txq = <<>>
    /\ txDone = "empty"
    /\ txEno = FALSE
    /\ pemPc = "idle" /\ pemPkg = 0
    /\ piPc = "idle"
    /\ txPc = "chk" /\ txPkg = 0
    /\ sent = <<>>
    /\ nextPkg = 0 /\ closes = 0
    /\ rxChan = "open" /\ rxq = 0 /\ rxDone = "empty" /\ rxEno = FALSE
    /\ rxPc = "chk" /\ rxIn = 0

\* The PEM is between handlers and its mailbox has this message first
PemHead(t) == pemMb # <<>> /\ pemMb[1].type = t /\ pemPc = "idle"

\* The channel object is closed (the field may already be nil)
ObjClosed == txChan # "open"

-----------------------------------------------------------------------------
(* Environment                                                             *)

\* SendPackage: the application asks the PEM to send a package to the peer
SendPackage ==
    /\ nextPkg < MaxData
    /\ nextPkg' = nextPkg + 1
    /\ pemMb' = Append(pemMb, [type |-> "DataReq", pkg |-> nextPkg + 1])
    /\ UNCHANGED <<piMb, state, worker, task, conn, txChan, txq, txDone, txEno,
                   pemPc, pemPkg, piPc, txPc, txPkg, sent, closes, rxVars>>

\* ClosePeer or a pingpong failure: an EvPeCloseReq reaches the PEM
CloseFromOutside ==
    /\ closes < MaxCloses
    /\ closes' = closes + 1
    /\ pemMb' = Append(pemMb, [type |-> "CloseReq", pkg |-> 0])
    /\ UNCHANGED <<piMb, state, worker, task, conn, txChan, txq, txDone, txEno,
                   pemPc, pemPkg, piPc, txPc, txPkg, sent, nextPkg, rxVars>>

-----------------------------------------------------------------------------
(* PEM task                                                                *)

\* peMgrDataReq up to the state check: the worker is looked up in the PEM's
\* own table, then inst.state, written by the PI task, is read.
DataReqState ==
    /\ PemHead("DataReq")
    /\ pemMb' = Tail(pemMb)
    /\ pemPkg' = pemMb[1].pkg
    /\ pemPc' = IF worker /\ state = Activated THEN "len" ELSE "idle"
    /\ UNCHANGED <<piMb, state, worker, task, conn, txChan, txq, txDone, txEno,
                   piPc, txPc, txPkg, sent, nextPkg, closes, rxVars>>

\* len(inst.txChan) >= cap(inst.txChan): both are 0 for a nil channel, so
\* the request is refused as a full queue
DataReqLen ==
    /\ pemPc = "len"
    /\ pemPc' = IF txChan = "nil" \/ Len(txq) >= TxCap THEN "idle" ELSE "send"
    /\ UNCHANGED <<pemMb, piMb, state, worker, task, conn, txChan, txq, txDone,
                   txEno, pemPkg, piPc, txPc, txPkg, sent, nextPkg, closes, rxVars>>

\* inst.txChan <- _pkg: txChan is read again. A send on a closed channel
\* panics, one on a nil channel blocks the PEM task for ever.
DataReqSend ==
    /\ pemPc = "send"
    /\ CASE txChan = "open"   -> /\ Len(txq) < TxCap
                                 /\ txq' = Append(txq, pemPkg)
                                 /\ pemPc' = "idle"
         [] txChan = "closed" -> pemPc' = "panic" /\ UNCHANGED txq
         [] txChan = "nil"    -> pemPc' = "blocked" /\ UNCHANGED txq
    /\ UNCHANGED <<pemMb, piMb, state, worker, task, conn, txChan, txDone,
                   txEno, pemPkg, piPc, txPc, txPkg, sent, nextPkg, closes, rxVars>>

\* peMgrCloseReq: forward EvPeCloseReq to a worker not already killing
PemCloseReq ==
    /\ PemHead("CloseReq")
    /\ pemMb' = Tail(pemMb)
    /\ piMb' = IF worker /\ state # Killing /\ task
               THEN Append(piMb, "CloseReq") ELSE piMb
    /\ UNCHANGED <<state, worker, task, conn, txChan, txq, txDone, txEno,
                   pemPc, pemPkg, piPc, txPc, txPkg, sent, nextPkg, closes, rxVars>>

\* peMgrConnCloseCfm with peMgrKillInst: the socket is closed, the worker
\* removed, the state set Killed and the PI task stopped (its mailbox is
\* dropped). The TX goroutine is not stopped by this.
PemCloseCfm ==
    /\ PemHead("CloseCfm")
    /\ pemMb' = Tail(pemMb)
    /\ conn' = FALSE
    /\ worker' = FALSE
    /\ state' = Killed
    /\ task' = FALSE
    /\ piMb' = <<>>
    /\ UNCHANGED <<txChan, txq, txDone, txEno, pemPc, pemPkg, piPc, txPc,
                   txPkg, sent, nextPkg, closes, rxVars>>

-----------------------------------------------------------------------------
(* PI task: piCloseReq, one step per write the other goroutines can see    *)

\* A duplicate returns at once; otherwise the state becomes Killing
PiCloseReq ==
    /\ task /\ piPc = "idle" /\ piMb # <<>>
    /\ piMb' = Tail(piMb)
    /\ IF state = Killing
       THEN UNCHANGED <<state, piPc>>
       ELSE state' = Killing /\ piPc' = "close"
    /\ UNCHANGED <<pemMb, worker, task, conn, txChan, txq, txDone, txEno,
                   pemPc, pemPkg, txPc, txPkg, sent, nextPkg, closes, rxVars>>

\* if inst.txChan != nil { close(inst.txChan) ...
PiCloseTxChan ==
    /\ task /\ piPc = "close"
    /\ txChan' = IF txChan = "open" THEN "closed" ELSE txChan
    /\ piPc' = "nil"
    /\ UNCHANGED <<pemMb, piMb, state, worker, task, conn, txq, txDone, txEno,
                   pemPc, pemPkg, txPc, txPkg, sent, nextPkg, closes, rxVars>>

\* ... inst.txChan = nil }: only the field; the object keeps its buffer
PiNilTxChan ==
    /\ task /\ piPc = "nil"
    /\ txChan' = "nil"
    /\ piPc' = "signal"
    /\ UNCHANGED <<pemMb, piMb, state, worker, task, conn, txq, txDone, txEno,
                   pemPc, pemPkg, txPc, txPkg, sent, nextPkg, closes, rxVars>>

\* inst.rxDone <- PeMgrEnoNone: the buffer (1) is free, only this handler
\* sends and it runs once per instance
PiSignalRxDone ==
    /\ task /\ piPc = "signal"
    /\ rxDone' = "full"
    /\ piPc' = "txsig"
    /\ UNCHANGED <<pemMb, piMb, state, worker, task, conn, txChan, txq, txDone,
                   txEno, pemPc, pemPkg, txPc, txPkg, sent, nextPkg, closes,
                   rxChan, rxq, rxEno, rxPc, rxIn>>

\* inst.txDone <- PeMgrEnoNone, on a free buffer as well
PiSignalTxDone ==
    /\ task /\ piPc = "txsig"
    /\ txDone' = "full"
    /\ piPc' = "rxclose"
    /\ UNCHANGED <<pemMb, piMb, state, worker, task, conn, txChan, txq, txEno,
                   pemPc, pemPkg, txPc, txPkg, sent, nextPkg, closes, rxVars>>

\* if inst.rxChan != nil { close(inst.rxChan) ...
PiCloseRxChan ==
    /\ task /\ piPc = "rxclose"
    /\ rxChan' = IF rxChan = "open" THEN "closed" ELSE rxChan
    /\ piPc' = "rxnil"
    /\ UNCHANGED <<pemMb, piMb, state, worker, task, conn, txChan, txq, txDone,
                   txEno, pemPc, pemPkg, txPc, txPkg, sent, nextPkg, closes,
                   rxq, rxDone, rxEno, rxPc, rxIn>>

\* ... inst.rxChan = nil }, rxtxRuning cleared, EvPeCloseCfm sent to the PEM
PiNilRxChan ==
    /\ task /\ piPc = "rxnil"
    /\ rxChan' = "nil"
    /\ pemMb' = Append(pemMb, [type |-> "CloseCfm", pkg |-> 0])
    /\ piPc' = "done"
    /\ UNCHANGED <<piMb, state, worker, task, conn, txChan, txq, txDone, txEno,
                   pemPc, pemPkg, txPc, txPkg, sent, nextPkg, closes,
                   rxq, rxDone, rxEno, rxPc, rxIn>>

-----------------------------------------------------------------------------
(* TX goroutine: piTx                                                      *)

\* chkDone: a value on txDone ends the goroutine (txDone is closed); with
\* txEno set it sleeps and checks again; otherwise it goes to receive
TxChkDone ==
    /\ txPc = "chk"
    /\ txDone = "full" \/ ~txEno
    /\ IF txDone = "full"
       THEN txDone' = "closed" /\ txPc' = "exit"
       ELSE UNCHANGED txDone /\ txPc' = "recv"
    /\ UNCHANGED <<pemMb, piMb, state, worker, task, conn, txChan, txq, txEno,
                   pemPc, pemPkg, piPc, txPkg, sent, nextPkg, closes, rxVars>>

\* upkg, ok := <-(inst.txChan), first half: the field is read. A nil
\* channel blocks the goroutine for ever.
TxRecv ==
    /\ txPc = "recv"
    /\ txPc' = IF txChan = "nil" THEN "blocked" ELSE "wait"
    /\ UNCHANGED <<pemMb, piMb, state, worker, task, conn, txChan, txq, txDone,
                   txEno, pemPc, pemPkg, piPc, txPkg, sent, nextPkg, closes, rxVars>>

\* second half, on the object read: a buffered package is taken (a closed
\* channel still delivers them); a closed drained one returns !ok and goes
\* back to chkDone; an open empty one blocks until a send or the close
TxWait ==
    /\ txPc = "wait"
    /\ ObjClosed \/ txq # <<>>
    /\ IF txq # <<>>
       THEN txPkg' = Head(txq) /\ txq' = Tail(txq) /\ txPc' = "send"
       ELSE txPc' = "chk" /\ UNCHANGED <<txq, txPkg>>
    /\ UNCHANGED <<pemMb, piMb, state, worker, task, conn, txChan, txDone, txEno,
                   pemPc, pemPkg, piPc, sent, nextPkg, closes, rxVars>>

\* upkg.SendPackage(inst): a write on an open connection succeeds or fails;
\* on a closed one it fails. A failure sets txEno and sends EvPeCloseReq
\* to the PEM.
TxSend ==
    /\ txPc = "send"
    /\ txPc' = "chk"
    /\ \/ /\ conn
          /\ sent' = Append(sent, txPkg)
          /\ UNCHANGED <<pemMb, txEno>>
       \/ /\ txEno' = TRUE
          /\ pemMb' = Append(pemMb, [type |-> "CloseReq", pkg |-> 0])
          /\ UNCHANGED sent
    /\ UNCHANGED <<piMb, state, worker, task, conn, txChan, txq, txDone,
                   pemPc, pemPkg, piPc, txPkg, nextPkg, closes, rxVars>>

-----------------------------------------------------------------------------
(* RX goroutine: piRx, and the application draining rxChan                 *)

txVars == <<pemMb, piMb, state, worker, task, conn, txChan, txq, txDone, txEno,
            pemPc, pemPkg, piPc, txPc, txPkg, sent, nextPkg, closes>>

\* The select on rxDone: a value ends the goroutine (rxDone is closed);
\* with rxEno set it sleeps and checks again; otherwise it reads the peer
RxChkDone ==
    /\ rxPc = "chk"
    /\ rxDone = "full" \/ ~rxEno
    /\ IF rxDone = "full"
       THEN rxDone' = "closed" /\ rxPc' = "exit"
       ELSE UNCHANGED rxDone /\ rxPc' = "recv"
    /\ UNCHANGED <<txVars, rxChan, rxq, rxEno, rxIn>>

\* upkg.RecvPackage(inst): a PID_EXT package from an open connection, or a
\* failure (always, on a closed one), which sets rxEno and sends
\* EvPeCloseReq to the PEM
RxRecv ==
    /\ rxPc = "recv"
    /\ \/ /\ conn /\ rxIn < MaxRx
          /\ rxIn' = rxIn + 1
          /\ rxPc' = "len"
          /\ UNCHANGED <<pemMb, rxEno>>
       \/ /\ rxEno' = TRUE
          /\ pemMb' = Append(pemMb, [type |-> "CloseReq", pkg |-> 0])
          /\ rxPc' = "chk"
          /\ UNCHANGED rxIn
    /\ UNCHANGED <<piMb, state, worker, task, conn, txChan, txq, txDone, txEno,
                   pemPc, pemPkg, piPc, txPc, txPkg, sent, nextPkg, closes,
                   rxChan, rxq, rxDone>>

\* len(inst.rxChan) >= cap(inst.rxChan): the package is dropped as a full
\* queue; both are 0 for a nil channel
RxLen ==
    /\ rxPc = "len"
    /\ rxPc' = IF rxChan = "nil" \/ rxq >= RxCap THEN "chk" ELSE "send"
    /\ UNCHANGED <<txVars, rxChan, rxq, rxDone, rxEno, rxIn>>

\* inst.rxChan <- &pkgCb: the field is read again. Only this goroutine
\* sends, so an open channel has room; a closed one panics, a nil one
\* blocks the goroutine for ever.
RxSend ==
    /\ rxPc = "send"
    /\ CASE rxChan = "open"   -> rxq' = rxq + 1 /\ rxPc' = "chk"
         [] rxChan = "closed" -> rxPc' = "panic" /\ UNCHANGED rxq
         [] rxChan = "nil"    -> rxPc' = "blocked" /\ UNCHANGED rxq
    /\ UNCHANGED <<txVars, rxChan, rxDone, rxEno, rxIn>>

\* The application receives from the RxChan of its PeerActivated
\* indication: the channel object, which still delivers after the close
AppRecv ==
    /\ rxq > 0
    /\ rxq' = rxq - 1
    /\ UNCHANGED <<txVars, rxChan, rxDone, rxEno, rxPc, rxIn>>

-----------------------------------------------------------------------------

PemStep == DataReqState \/ DataReqLen \/ DataReqSend \/ PemCloseReq \/ PemCloseCfm
PiStep == PiCloseReq \/ PiCloseTxChan \/ PiNilTxChan \/ PiSignalRxDone
          \/ PiSignalTxDone \/ PiCloseRxChan \/ PiNilRxChan
TxStep == TxChkDone \/ TxRecv \/ TxWait \/ TxSend
RxStep == RxChkDone \/ RxLen \/ RxSend
Env == SendPackage \/ CloseFromOutside \/ RxRecv \/ AppRecv

Next == PemStep \/ PiStep \/ TxStep \/ RxStep \/ Env

\* The scheduler runs every task with a queued message, and the goroutines
\* are scheduled by the Go runtime
Fairness == WF_vars(PemStep) /\ WF_vars(PiStep) /\ WF_vars(TxStep)
            /\ WF_vars(RxStep)

Spec == Init /\ [][Next]_vars /\ Fairness

-----------------------------------------------------------------------------

TypeOK ==
    /\ state \in {Activated, Killing, Killed}
    /\ {worker, task, conn, txEno} \subseteq BOOLEAN
    /\ txChan \in {"open", "closed", "nil"}
    /\ txq \in Seq(Pkgs) /\ Len(txq) <= TxCap
    /\ txDone \in {"empty", "full", "closed"}
    /\ pemPc \in {"idle", "len", "send", "panic", "blocked"}
    /\ piPc \in {"idle", "close", "nil", "signal", "txsig", "rxclose", "rxnil",
                 "done"}
    /\ txPc \in {"chk", "recv", "wait", "send", "exit", "blocked"}
    /\ sent \in Seq(Pkgs)
    /\ rxChan \in {"open", "closed", "nil"}
    /\ rxq \in 0..RxCap /\ rxIn \in 0..MaxRx
    /\ rxDone \in {"empty", "full", "closed"}
    /\ rxEno \in BOOLEAN
    /\ rxPc \in {"chk", "recv", "len", "send", "exit", "panic", "blocked"}

\* peMgrDataReq never sends on a closed txChan (a panic of the whole
\* process) or on a nil one (the PEM task blocked for ever): its check of
\* inst.state is meant to discard requests for an instance being killed.
DataReqSendSafe == pemPc \notin {"panic", "blocked"}

\* piRx never sends a PID_EXT payload on a closed rxChan (a panic) or on a
\* nil one (the RX goroutine blocked for ever, never seeing rxDone): its
\* len(inst.rxChan) check is meant to be the only guard it needs.
RxSendSafe == rxPc \notin {"panic", "blocked"}

\* Neither writer of a channel that piCloseReq tears down, peMgrDataReq on
\* txChan in the PEM goroutine nor piRx on rxChan in the RX goroutine,
\* sends on it once piCloseReq has closed it or cleared the field.
TeardownSendsSafe == DataReqSendSafe /\ RxSendSafe

\* Once piCloseReq has signalled txDone, the TX goroutine eventually exits
TxGoroutineExits == piPc = "done" ~> txPc = "exit"
====
