CONSTANTS
    p1 = p1
    p2 = p2
    c1 = c1
    c2 = c2
    Producers <- TwoProducers
    Consumers <- TwoConsumers
    num_producers = 2
    queue_size = 3
    MsgSizes <- EdgeSizes
    MaxAdds = 2
    OwnSignal = TRUE
SPECIFICATION FairSpec
INVARIANTS
    TypeOK
    Accounting
    NoStrandedProducer
    NoStrandedConsumer
    DrainedAtClose
PROPERTIES
    BlockedCallsReturn
    ImplementsClosableQueue
