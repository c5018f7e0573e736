---------------------------- MODULE MC_PeerMgr ----------------------------
(* Model-checking instance of PeerMgr: one remote node or two, a few task  *)
(* identities, small caps. The constants are given in the .cfg files.      *)
EXTENDS PeerMgr

\* Instance identities are interchangeable names handed out by the scheduler
\* (allocation uses CHOOSE, so no symmetry set is declared).
====
