CONSTANTS
    p1 = p1
    p2 = p2
    c1 = c1
    c2 = c2
    Producers <- OneProducer
    Consumers <- OneConsumer
    num_producers = 1
    queue_size = 3
    MsgSizes <- EdgeSizes
    MaxAdds = 2
    OwnSignal = FALSE
SPECIFICATION FinalizeSpec
PROPERTIES
    NoAddAfterClose
