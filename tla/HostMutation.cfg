SPECIFICATION FairSpec
CONSTANTS
    backup = backup
    apply = apply
    timer = timer
    NoOne = NoOne
    Cleaner = Cleaner
    Ops <- Requests
    ServerOps <- Server
    UiOps <- Backup
    UpdateOps <- None
    Deferring <- Timer
    DeferredOps <- Backup
    BackupOps <- Backup
    CallerOps <- Timer
    AutoSizeOps <- Timer
    DbErrors = FALSE
    LateProgress = TRUE
    MaxAttempts = 1
    MaxRestarts = 1
INVARIANTS IInv HostExclusion
PROPERTIES OutcomeStands CommittedWorkIsRecovered SectionSpec InterruptedIsSettled
CHECK_DEADLOCK FALSE
