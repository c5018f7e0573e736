\* Spec 4.1: rutMgrSortPeer leaves peers in stable ascending order.
CONSTANTS
    HashLen = 2
    HashBytes = {0, 1, 3, 6, 12, 24, 48, 96, 255}
    Dists = {0, 1, 2}
    MaxLen = 4
SPECIFICATION Spec
INVARIANT SortPeerIsStableOrder
