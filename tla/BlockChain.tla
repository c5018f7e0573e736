----------------------------- MODULE BlockChain -----------------------------
(* The lifecycle of a BlockChain (src/core/block.go): Start, Stop, Wait     *)
(* and AddBlock called by goroutines of its owner, and the loop goroutine   *)
(* Start spawns. The methods share bc.lock (a sync.RWMutex), bc.quitCh and  *)
(* bc.wg. Start, Wait and AddBlock never block while they hold the lock,   *)
(* so each is one step that needs the lock free; Stop holds it across      *)
(* close(bc.quitCh) and bc.wg.Wait(), so its steps are separate. The owner  *)
(* that calls these methods is not under src/; a bounded number of calls   *)
(* from a set of caller goroutines stands for it. Storage contents and     *)
(* block encoding are abstracted to whether each write succeeds.           *)
EXTENDS Naturals, Sequences, FiniteSets

CONSTANTS
    Callers,    \* goroutines of the owner calling BlockChain methods
    NoOwner,    \* bc.lock has no writer
    Heights,    \* block numbers AddBlock may be given
    MaxCalls    \* bound on the method calls of all callers together

VARIABLES
    writer,     \* the goroutine holding bc.lock for writing, or NoOwner
    running,    \* bc.running
    quitCh,     \* bc.quitCh: "open" or "closed"
    wg,         \* the counter of bc.wg
    loops,      \* one entry per loop goroutine Start spawned: its pc
    lastBlockHeight,  \* bc.lastBlockHeight
    pc,         \* per caller: "idle", or the step of Stop or Wait it is at
    calls       \* method calls made so far

vars == <<writer, running, quitCh, wg, loops, lastBlockHeight, pc, calls>>

LoopPcs == {"add", "select", "exited"}

\* The state NewBlockChain returns: quitCh made, running and the wait
\* group at their zero values, no loop yet.
Init ==
    /\ writer = NoOwner
    /\ running = FALSE
    /\ quitCh = "open"
    /\ wg = 0
    /\ loops = <<>>
    /\ lastBlockHeight = 0
    /\ pc = [c \in Callers |-> "idle"]
    /\ calls = 0

LockFree == writer = NoOwner

\* A caller enters one of the methods.
Call(c) == pc[c] = "idle" /\ calls < MaxCalls /\ calls' = calls + 1

-----------------------------------------------------------------------------
(* Start: under the lock, refuse if running, else spawn loop; running is   *)
(* never assigned.                                                          *)
Start(c) ==
    /\ Call(c)
    /\ LockFree
    /\ loops' = IF running THEN loops ELSE Append(loops, "add")
    /\ UNCHANGED <<writer, running, quitCh, wg, lastBlockHeight, pc>>

(* Stop: take the lock, close quitCh (a panic if it is closed already),    *)
(* wait for the wait group, and release the lock on return.                *)
StopCall(c) ==
    /\ Call(c)
    /\ pc' = [pc EXCEPT ![c] = "lock"]
    /\ UNCHANGED <<writer, running, quitCh, wg, loops, lastBlockHeight>>

StopLock(c) ==
    /\ pc[c] = "lock"
    /\ LockFree
    /\ writer' = c
    /\ pc' = [pc EXCEPT ![c] = "close"]
    /\ UNCHANGED <<running, quitCh, wg, loops, lastBlockHeight, calls>>

StopClose(c) ==
    /\ pc[c] = "close"
    /\ quitCh' = "closed"
    /\ pc' = [pc EXCEPT ![c] = IF quitCh = "closed" THEN "panic" ELSE "wait"]
    /\ UNCHANGED <<writer, running, wg, loops, lastBlockHeight, calls>>

StopWait(c) ==
    /\ pc[c] = "wait"
    /\ wg = 0
    /\ writer' = NoOwner
    /\ pc' = [pc EXCEPT ![c] = "idle"]
    /\ UNCHANGED <<running, quitCh, wg, loops, lastBlockHeight, calls>>

(* Wait: under the read lock, return at once if not running, else take    *)
(* quitCh, release the lock and block until it is closed.                  *)
WaitCall(c) ==
    /\ Call(c)
    /\ pc' = [pc EXCEPT ![c] = "rlock"]
    /\ UNCHANGED <<writer, running, quitCh, wg, loops, lastBlockHeight>>

WaitRLock(c) ==
    /\ pc[c] = "rlock"
    /\ LockFree
    /\ pc' = [pc EXCEPT ![c] = IF running THEN "recv" ELSE "idle"]
    /\ UNCHANGED <<writer, running, quitCh, wg, loops, lastBlockHeight, calls>>

WaitRecv(c) ==
    /\ pc[c] = "recv"
    /\ quitCh = "closed"
    /\ pc' = [pc EXCEPT ![c] = "idle"]
    /\ UNCHANGED <<writer, running, quitCh, wg, loops, lastBlockHeight, calls>>

(* AddBlock: under the lock, write the block's transactions and header in *)
(* one batch; any failing step returns before the last block is updated.  *)
AddBlock(c) ==
    /\ Call(c)
    /\ LockFree
    /\ \/ UNCHANGED lastBlockHeight
       \/ \E h \in Heights : lastBlockHeight' = h
    /\ UNCHANGED <<writer, running, quitCh, wg, loops, pc>>

-----------------------------------------------------------------------------
(* The loop goroutine: wg.Add(1) is its first statement, then it waits on *)
(* quitCh and leaves through the deferred wg.Done().                       *)
LoopAdd(i) ==
    /\ loops[i] = "add"
    /\ wg' = wg + 1
    /\ loops' = [loops EXCEPT ![i] = "select"]
    /\ UNCHANGED <<writer, running, quitCh, lastBlockHeight, pc, calls>>

LoopQuit(i) ==
    /\ loops[i] = "select"
    /\ quitCh = "closed"
    /\ wg' = wg - 1
    /\ loops' = [loops EXCEPT ![i] = "exited"]
    /\ UNCHANGED <<writer, running, quitCh, lastBlockHeight, pc, calls>>

Next ==
    \/ \E c \in Callers :
          \/ Start(c) \/ StopCall(c) \/ StopLock(c) \/ StopClose(c)
          \/ StopWait(c) \/ WaitCall(c) \/ WaitRLock(c) \/ WaitRecv(c)
          \/ AddBlock(c)
    \/ \E i \in DOMAIN loops : LoopAdd(i) \/ LoopQuit(i)

\* The loop goroutines and the goroutines inside Stop and Wait are
\* scheduled by the Go runtime; the callers' new calls are not fair.
Fairness ==
    /\ \A c \in Callers :
          WF_vars(StopLock(c) \/ StopClose(c) \/ StopWait(c)
                  \/ WaitRLock(c) \/ WaitRecv(c))
    /\ WF_vars(\E i \in DOMAIN loops : LoopAdd(i) \/ LoopQuit(i))

Spec == Init /\ [][Next]_vars /\ Fairness

-----------------------------------------------------------------------------
TypeOK ==
    /\ writer \in Callers \cup {NoOwner}
    /\ running \in BOOLEAN
    /\ quitCh \in {"open", "closed"}
    /\ wg \in Nat
    /\ loops \in Seq(LoopPcs)
    /\ lastBlockHeight \in Heights \cup {0}
    /\ pc \in [Callers -> {"idle", "lock", "close", "wait", "rlock", "recv",
                           "panic"}]
    /\ calls \in 0..MaxCalls

LiveLoops == {i \in DOMAIN loops : loops[i] # "exited"}

\* Stop returns only once every loop goroutine has left: the type's comment
\* says it will "notify sub routines to stop, while wait for them to stop",
\* but loop calls wg.Add(1) itself, so a Stop that runs first sees a zero
\* counter and returns while the loop is still to start.
StopWaitsForLoops ==
    [][\A c \in Callers :
          (pc[c] = "wait" /\ pc'[c] = "idle") => LiveLoops = {}]_vars

\* At most one loop goroutine is alive: Start refuses with "block chain
\* already started" when bc.running is set, but nothing ever sets it.
AtMostOneLoop == Cardinality(LiveLoops) <= 1

\* No Stop closes quitCh a second time: Stop does not look at bc.running,
\* and a second close of a channel panics.
StopNeverPanics == \A c \in Callers : pc[c] # "panic"

\* A Wait called while a loop runs returns only after quitCh is closed, as
\* its "wait for close" comment says; with bc.running never set it returns
\* at once.
WaitBlocksWhileRunning ==
    [][\A c \in Callers :
          (pc[c] = "rlock" /\ pc'[c] = "idle" /\ LiveLoops # {})
             => quitCh = "closed"]_vars
=============================================================================
