CONSTANTS
    Policies = {"sieve"}
    Capacity = 2
    SmallTarget = 1
    GhostCapacity = 1
    MaxRef = 127
    k1 = k1
    k2 = k2
    k3 = k3
    k4 = k4
    c1 = c1
    c2 = c2
    Keys = {k1, k2}
    NoKey = NoKey
    Clients = {c1}
    NoClient = NoClient
    Calls = {"query_and_replace", "update"}
    MaxBatch = 1
    MaxVersion = 1
SPECIFICATION Spec
SYMMETRY Symmetry
INVARIANTS
    UpdatesVisible
