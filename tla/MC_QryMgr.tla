------------------------------ MODULE MC_QryMgr ------------------------------
(***************************************************************************)
(* Model-checking instance of QryMgr: two peers at different distances,   *)
(* so that pending and result lists have an order to keep.                *)
(***************************************************************************)
EXTENDS QryMgr

CONSTANTS p1, p2

MCPeers == {p1, p2}

\* p1 is nearer to the targets than p2.
MCPeerDist == (p1 :> 1) @@ (p2 :> 2)

=============================================================================
