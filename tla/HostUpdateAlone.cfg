SPECIFICATION Spec
CONSTANTS
    timer = timer
    update = update
    poller = poller
    NoOne = NoOne
    Cleaner = Cleaner
    Ops <- Pair
    ServerOps <- Admin
    UpdateOps <- Updates
    Deferring <- Timer
    Pollers <- Status
    DbErrors = FALSE
    MaxAttempts = 1
    MaxRestarts = 0
    MaxRuns = 1
    LookupAttempts = 1
    MaxFaults = 0
INVARIANTS UpdateRunsAlone
CHECK_DEADLOCK FALSE
