SPECIFICATION Spec
CONSTANTS
    h1 = h1
    h2 = h2
    h3 = h3
    h4 = h4
    near = near
    far = far
    Hosts <- FourHosts
    Services <- OnePort
    Sources = {near, far}
    NewBuckets = {1, 2}
    TriedBuckets = {1}
    NewBucketOf <- NewBucketsFour
    TriedBucketOf <- TriedOnePort
    NEW_BUCKET_SIZE = 1
    TRIED_BUCKET_SIZE = 2
    NEW_BUCKETS_PER_ADDRESS = 2
    TRIED_ENTRIES_INSPECT_ON_EVICT = 2
    GETADDR_MAX_PCT = 25
    Times = {1}
    MaxIds = 4
SYMMETRY SymmetryFour
INVARIANTS
    Consistent
    BucketsBounded
    SavedExactly
PROPERTIES
    TriedKept
