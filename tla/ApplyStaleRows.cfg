SPECIFICATION Spec
CONSTANTS
    request = request
    tick = tick
    cli = cli
    Mixed = Mixed
    None = None
    Sessions <- All
    Deferred <- Callers
    Ticks <- Tick
    Slices <- Two
    Values <- Options
    Edits <- Changes
    MaxFaults = 0
    MaxStops = 0
    MaxUpgrades = 0
INVARIANTS SuccessIsTheDatabase
CHECK_DEADLOCK FALSE
