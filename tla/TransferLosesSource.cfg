SPECIFICATION Spec
CONSTANTS
    leader = leader
    first = first
    second = second
    Leader = leader
    Followers <- Pair
    MaxJobs = 1
    MaxFaults = 1
    MaxWrites = 0
INVARIANTS FailedTransferKeepsSource
CHECK_DEADLOCK FALSE
