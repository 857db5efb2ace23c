CONSTANTS
    num_clients = 2
    machine_count = 2
    group_count = 2
    machine_id <- MCMachine
    Script <- WriteBarrierRead
    MaxWork <- TwoWorks
SPECIFICATION Spec
PROPERTIES
    PullsSeePushes
