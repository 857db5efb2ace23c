CONSTANTS
    num_clients = 3
    machine_count = 2
    group_count = 2
    machine_id <- MCMachine
    Script <- Life
    MaxWork <- OneWorks
SPECIFICATION FairSpec
INVARIANTS
    TypeOK
    OnlyOvertakenPushesFail
    HandlerNotOutdated
PROPERTIES
    AllApplied
