CONSTANTS
    train = train
    valid = valid
    Loaders = {train, valid}
    num_workers = 2
    queue_size <- MCQueueSize
    dataset <- MCDataset
    batch_size = 2
    DropLast = {valid}
    MayBreak = {train}
    PipeSize = 1
    MaxEpochs <- MCEpochs
    MaxBroadcasts = 1
SPECIFICATION FairSpec
INVARIANTS
    TypeOK
    EpochExact
    OnlyLeftLoopsFail
    PendingAccounted
PROPERTIES
    NextReturns
    PoolCloses
