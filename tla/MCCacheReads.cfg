CONSTANTS
    Policies = {"s3-fifo", "sieve", "lru", "clock"}
    Capacity = 2
    SmallTarget = 1
    GhostCapacity = 2
    MaxRef = 127
    k1 = k1
    k2 = k2
    k3 = k3
    k4 = k4
    c1 = c1
    c2 = c2
    Keys = {k1, k2, k3}
    NoKey = NoKey
    Clients = {c1, c2}
    NoClient = NoClient
    Calls = {"query_and_replace"}
    MaxBatch = 2
    MaxVersion = 0
SPECIFICATION Spec
SYMMETRY Symmetry
INVARIANTS
    TypeOK
    IndexConsistent
    RowsUnique
    NoEvictionInUse
    ReadersSeeTheirRow
    RefCountsUse
    GhostsConsistent
