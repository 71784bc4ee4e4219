SPECIFICATION Spec
CONSTANTS
    poller = poller
    launcher = launcher
    Observers <- Tasks
    Launchers <- Launching
    MaxRuns = 2
    LookupAttempts = 1
    MaxFaults = 2
ACTION_CONSTRAINT OneKindOfMishap
INVARIANTS SuccessIsTrue OneInstaller
CHECK_DEADLOCK FALSE
