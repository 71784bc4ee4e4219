SPECIFICATION ScenesSpec
CONSTANTS
    request = request
    tick = tick
    cli = cli
    Mixed = Mixed
    None = None
    Sessions <- All
    Deferred <- Callers
    Ticks <- Tick
    Slices <- Three
    Values <- Options
    Edits <- Changes
    MaxFaults = 2
    MaxStops = 1
    MaxUpgrades = 1
    Admins = {request}
    MaxRuns = 3
    MaxWatches = 1
    MaxSettings = 2
    Unsafe = {1}
    MaxTries = 1
    MaxCrashes = 1
    MaxHitches = 1
INVARIANTS MarkerIsTrue SuccessConverges FailureKeepsIngress VerdictsAreTested ClonesAreRemoved
CHECK_DEADLOCK FALSE
