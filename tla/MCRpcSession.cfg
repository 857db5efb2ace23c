CONSTANTS
    num_clients = 3
    num_servers = 2
    Role <- MCRole
    Machine <- MCMachine
    MaxBarriers = 2
    MaxRounds = 2
    MaxWork <- MCWork
SPECIFICATION FairSpec
INVARIANTS
    TypeOK
    IdsAgree
    AnswersMatch
    RanksAgree
    BarrierFlushesServer0
PROPERTIES
    ImplementsClientBarrier
    ImplementsRoleBarriers
    AllExit
