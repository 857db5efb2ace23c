CONSTANTS
    Policies = {"s3-fifo", "sieve", "lru", "clock"}
    Capacity = 1
    SmallTarget = 1
    GhostCapacity = 1
    MaxRef = 1
    k1 = k1
    k2 = k2
    k3 = k3
    k4 = k4
    c1 = c1
    c2 = c2
    Keys = {k1, k2}
    NoKey = NoKey
    Clients = {c1, c2}
    NoClient = NoClient
    Calls = {"query", "query_and_replace", "replace", "update"}
    MaxBatch = 2
    MaxVersion = 1
SPECIFICATION Spec
SYMMETRY Symmetry
INVARIANTS
    NoEvictionInUse
