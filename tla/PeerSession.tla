---------------------------- MODULE PeerSession ----------------------------
(* What the peer manager promises the application about peer sessions     *)
(* (spec 4.6, 7 and 8): a session begins with PeerActivated and ends with  *)
(* PeerClosed, and the application learns of its end in the step that      *)
(* ends it. A session is activated once and ends at most once; the open    *)
(* sessions are at most MaxPeers and concern distinct remote nodes (spec   *)
(* 8.2, scenario S4: one survivor per node). Sessions are named by the     *)
(* instance identities of PeerMgr.                                         *)
EXTENDS Naturals, FiniteSets

CONSTANTS Ptns, Nodes, NoNode, MaxPeers

VARIABLES
    sess,     \* sess[p]: "none" before activation, "open", then "ended"
    snode,    \* snode[p]: the remote node of session p, NoNode before
    told      \* the sessions a PeerClosed indication was issued for

vars == <<sess, snode, told>>

Open == {p \in Ptns : sess[p] = "open"}

Init ==
    /\ sess = [p \in Ptns |-> "none"]
    /\ snode = [p \in Ptns |-> NoNode]
    /\ told = {}

\* PeerActivated for a new session with node n: there is room and no open
\* session with n
Activate(p, n) ==
    /\ sess[p] = "none"
    /\ Cardinality(Open) < MaxPeers
    /\ \A q \in Open : snode[q] # n
    /\ sess' = [sess EXCEPT ![p] = "open"]
    /\ snode' = [snode EXCEPT ![p] = n]
    /\ UNCHANGED told

\* An open session ends and PeerClosed is issued for it
Close(p) ==
    /\ sess[p] = "open"
    /\ sess' = [sess EXCEPT ![p] = "ended"]
    /\ told' = told \cup {p}
    /\ UNCHANGED snode

Next == \E p \in Ptns : Close(p) \/ \E n \in Nodes : Activate(p, n)

Spec == Init /\ [][Next]_vars

TypeOK ==
    /\ sess \in [Ptns -> {"none", "open", "ended"}]
    /\ snode \in [Ptns -> Nodes \cup {NoNode}]
    /\ told \subseteq Ptns
====
