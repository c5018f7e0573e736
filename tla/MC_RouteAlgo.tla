---------------------------- MODULE MC_RouteAlgo ----------------------------
(***************************************************************************)
(* Checks the route manager algorithms of RouteAlgo on bounded inputs:     *)
(*  - rutMgrSetupLog2DistLKT and rutMgrLog2Dist over every pair of hashes  *)
(*    h1, h2 of HashLen bytes drawn from HashBytes. HashBytes is chosen so *)
(*    that the XOR of two of its members reaches every lookup-table class  *)
(*    (0, 1, 2-3, 4-7, ..., 128-255);                                      *)
(*  - rutMgrSortPeer over every distance slice ds of length 0..MaxLen with *)
(*    values in Dists. The peer slice ps is the list of original           *)
(*    positions, so the sorted ps shows where each peer went.              *)
(* The harness holds one input (a hash pair or a distance slice) at a     *)
(* time and may move to any other.                                         *)
(***************************************************************************)
EXTENDS RouteAlgo

CONSTANTS HashLen, HashBytes, Dists, MaxLen

ASSUME /\ HashLen \in Nat \ {0} /\ HashBytes \subseteq Bytes
       /\ Dists \subseteq Nat /\ MaxLen \in Nat

Hashes == [1..HashLen -> HashBytes]

Inputs == UNION {[1..n -> Dists] : n \in 0..MaxLen}

\* The hash pairs, and the distance slices, the algorithms are run on.
HashPairs == [kind : {"log2dist"}, h1 : Hashes, h2 : Hashes]
SortInputs == [kind : {"sort"}, ds : Inputs]

VARIABLE input

Init == input \in HashPairs \cup SortInputs

NextPair == \E x \in HashPairs : input' = x
NextSort == \E x \in SortInputs : input' = x

Next == NextPair \/ NextSort

Spec == Init /\ [][Next]_input

h1 == input.h1
h2 == input.h2
ds == input.ds

ps == [k \in 1..Len(ds) |-> k]

\* Every byte value's lookup-table entry is its number of leading zero
\* bits. This is evaluated once, since it depends on no variable.
LktIsLeadingZeros ==
    \A b \in Bytes : SetupLog2DistLKT[b] = CommonPrefixLen(<<b>>, <<0>>)

(***************************************************************************)
(* rutMgrLog2Dist (with the table of rutMgrSetupLog2DistLKT) returns the  *)
(* number of leading bits the two hashes share. That is why "a larger d   *)
(* is closer" (route.go comment), and why a peer's bucket index is its    *)
(* log2 distance to the local hash (spec 3, route table invariant).       *)
(***************************************************************************)
Log2DistIsCommonPrefix ==
    input.kind = "log2dist" =>
        /\ LktIsLeadingZeros
        /\ Log2Dist(h1, h2) = CommonPrefixLen(h1, h2)

(***************************************************************************)
(* Spec 8.6: the log distance of equal hashes is 0. rutMgrLog2Dist adds 8 *)
(* for every equal byte, and so returns 8 * length for equal hashes.      *)
(***************************************************************************)
Log2DistEqualIsZero ==
    input.kind = "log2dist" /\ h1 = h2 => Log2Dist(h1, h2) = 0

(***************************************************************************)
(* The first loop of rutMgrSortPeer (list insertion with a strict "<")    *)
(* yields the indices of ds in ascending order of distance, with equal     *)
(* distances kept in their original order.                                 *)
(***************************************************************************)
SortIndexIsStableOrder ==
    input.kind = "sort" => SortIndex(ds) = StableOrder(ds)

(***************************************************************************)
(* Spec 4.1 (Nearest): the answer is sorted ascending by log2 distance,   *)
(* ties in original order. rutMgrSortPeer applies the index list with     *)
(* in-place swaps ps[i], ps[pi] = ps[pi], ps[i], which does not apply a   *)
(* permutation once an earlier swap has moved the element at pi.           *)
(***************************************************************************)
SortPeerIsStableOrder ==
    input.kind = "sort" /\ Len(ds) > 0 =>
        LET r == SortPeer(ps, ds)
        IN  /\ r.ps = StableOrder(ds)
            /\ r.ds = [k \in 1..Len(ds) |-> ds[StableOrder(ds)[k]]]

=============================================================================
