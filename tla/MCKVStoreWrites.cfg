CONSTANTS
    num_clients = 2
    machine_count = 1
    group_count = 1
    machine_id <- MCMachine
    Script <- AddAndBarrier
    MaxWork <- AllWork
SPECIFICATION Spec
INVARIANTS
    AddsKept
