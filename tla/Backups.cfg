SPECIFICATION ScenesSpec
CONSTANTS
    request = request
    cli = cli
    backup = backup
    timer = timer
    NoOne = NoOne
    Sweeper = Sweeper
    Cleaner = Cleaner
    Leader = leader
    first = first
    second = second
    Workers <- People
    Server <- Service
    Retention = 1
    MaxBackups = 2
    MaxFaults = 2
    MaxMounts = 2
    MaxJobs = 2
    MaxRestoreFaults = 3
    Followers <- Taken
    MaxTransfers = 2
    MaxTransferFaults = 2
    MaxWrites = 1
SYMMETRY Alike
INVARIANTS BackupsTypeOK SuccessHasBundle NoLitter DataSurvivesOneRestore AllOrNothing DataSurvivesTransfer FailedTransferIsUndone PlacedIsThere
CHECK_DEADLOCK FALSE
