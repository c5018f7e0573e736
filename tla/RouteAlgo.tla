----------------------------- MODULE RouteAlgo -----------------------------
(***************************************************************************)
(* The pure algorithms of the DHT route manager (src/p2p/dht/route.go):    *)
(* the log2-distance lookup table, the log2 distance of two hashes and the *)
(* sort of a nearest-peer answer by distance.                               *)
(*                                                                         *)
(* A hash is a sequence of bytes (naturals below 256). The code's hashes   *)
(* are 32 bytes long, and the model checks shorter ones. Nothing in the    *)
(* algorithms depends on the length. Slices are 1-based sequences here,    *)
(* where the code indexes from 0.                                          *)
(***************************************************************************)
EXTENDS Integers, Sequences, SequencesExt, Bitwise

Bytes == 0..255

(***************************************************************************)
(* rutMgrSetupLog2DistLKT: lkt[0] = 8, and lkt[b] = 8-n-1 for every b in   *)
(* [2^n, 2^(n+1)). The mutant variant below forgets the "-1".             *)
(***************************************************************************)
SetupLog2DistLKTOffByOne ==
    [b \in Bytes |-> IF b = 0 THEN 8
                     ELSE 8 - (CHOOSE n \in 0..7 : 2^n <= b /\ b < 2^(n+1))]

SetupLog2DistLKT ==
    [b \in Bytes |-> IF b = 0 THEN 8
                     ELSE 8 - (CHOOSE n \in 0..7 : 2^n <= b /\ b < 2^(n+1)) - 1]

(***************************************************************************)
(* rutMgrLog2Dist: walk h2 byte by byte, add lkt[h1[i] ^ h2[i]], and stop *)
(* after the first byte whose delta is not 8. A larger result means a     *)
(* closer peer.                                                           *)
(***************************************************************************)
RECURSIVE Log2DistFrom(_, _, _, _)
Log2DistFrom(h1, h2, i, d) ==
    IF i > Len(h2) THEN d
    ELSE LET delta == SetupLog2DistLKT[h1[i] ^^ h2[i]]
         IN  IF delta # 8 THEN d + delta
                          ELSE Log2DistFrom(h1, h2, i + 1, d + delta)

Log2Dist(h1, h2) == Log2DistFrom(h1, h2, 1, 0)

(***************************************************************************)
(* rutMgrSortPeer, first loop: build the list li of indices of ds. Index  *)
(* i is inserted before the first element el with ds[i] < ds[el], or at   *)
(* the back. The strict "<" keeps equal distances in their original       *)
(* order. The mutant variant compares with "<=".                          *)
(***************************************************************************)
InsertIdxNonStrict(li, i, ds) ==
    LET before == {k \in 1..Len(li) : ds[i] <= ds[li[k]]}
    IN  IF before = {} THEN Append(li, i)
        ELSE InsertAt(li, Min(before), i)

InsertIdx(li, i, ds) ==
    LET before == {k \in 1..Len(li) : ds[i] < ds[li[k]]}
    IN  IF before = {} THEN Append(li, i)
        ELSE InsertAt(li, Min(before), i)

SortIndex(ds) ==
    FoldLeft(LAMBDA li, i : InsertIdx(li, i, ds), <<>>,
             [k \in 1..Len(ds) |-> k])

(***************************************************************************)
(* rutMgrSortPeer, second loop: for the i-th element pi of li, swap       *)
(* positions i and pi, in place, in both ps and ds.                        *)
(***************************************************************************)
SwapAt(s, a, b) == [s EXCEPT ![a] = s[b], ![b] = s[a]]

RECURSIVE ApplyIdx(_, _, _)
ApplyIdx(s, li, i) ==
    IF i > Len(li) THEN s ELSE ApplyIdx(SwapAt(s, i, li[i]), li, i + 1)

(***************************************************************************)
(* rutMgrSortPeer as a whole: both slices are left alone when either is   *)
(* empty. The result holds both slices after the call.                    *)
(***************************************************************************)
SortPeer(ps, ds) ==
    IF Len(ps) = 0 \/ Len(ds) = 0 THEN [ps |-> ps, ds |-> ds]
    ELSE LET li == SortIndex(ds)
         IN  [ps |-> ApplyIdx(ps, li, 1), ds |-> ApplyIdx(ds, li, 1)]

-----------------------------------------------------------------------------
(***************************************************************************)
(* Reference definitions, written from what the results mean rather than  *)
(* from the code.                                                          *)
(***************************************************************************)

\* Bit k (0 = most significant bit of the first byte) of hash h.
Bit(h, k) == (h[(k \div 8) + 1] \div 2^(7 - (k % 8))) % 2

\* The number of leading bits two equally long hashes share.
CommonPrefixLen(h1, h2) ==
    LET n == 8 * Len(h1)
    IN  CHOOSE k \in 0..n :
            /\ \A j \in 0..(k - 1) : Bit(h1, j) = Bit(h2, j)
            /\ k < n => Bit(h1, k) # Bit(h2, k)

\* The position index i takes when ds is sorted ascending and equal
\* distances keep their original order.
StableRank(ds, i) ==
    1 + Cardinality({j \in 1..Len(ds) :
                        ds[j] < ds[i] \/ (ds[j] = ds[i] /\ j < i)})

\* The stable ascending order of ds, as the list of original indices.
StableOrder(ds) ==
    [r \in 1..Len(ds) |-> CHOOSE i \in 1..Len(ds) : StableRank(ds, i) = r]

=============================================================================
