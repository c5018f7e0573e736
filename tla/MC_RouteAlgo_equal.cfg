\* Spec 8.6: rutMgrLog2Dist of two equal hashes is 0.
CONSTANTS
    HashLen = 2
    HashBytes = {0, 1, 3, 6, 12, 24, 48, 96, 255}
    Dists = {0, 1, 2}
    MaxLen = 4
SPECIFICATION Spec
INVARIANT Log2DistEqualIsZero
