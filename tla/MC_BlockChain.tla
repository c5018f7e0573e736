---------------------------- MODULE MC_BlockChain ----------------------------
EXTENDS BlockChain, TLC

CONSTANTS b1, b2

MCCallers == {b1, b2}
====
