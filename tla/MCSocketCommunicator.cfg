CONSTANTS
    num_sender = 2
    Configs <- PerSocketAndShared
    WireSize = 2
    MaxRpc = 2
    MaxArrays = 1
    ArraysOf <- OneOfTwo
SPECIFICATION FairSpec
INVARIANTS
    TypeOK
    MessagesIntact
    SemaphoreCounts
PROPERTIES
    DataFollowsMeta
    AllFinish
CHECK_DEADLOCK FALSE
