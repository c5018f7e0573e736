\* rutMgrLog2Dist against the common-prefix length (two-byte hashes), and
\* the index list of rutMgrSortPeer (slices of up to four distances).
CONSTANTS
    HashLen = 2
    HashBytes = {0, 1, 3, 6, 12, 24, 48, 96, 255}
    Dists = {0, 1, 2}
    MaxLen = 4
SPECIFICATION Spec
INVARIANT Log2DistIsCommonPrefix
INVARIANT SortIndexIsStableOrder
