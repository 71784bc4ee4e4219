SPECIFICATION Spec
CONSTANTS
    agent = agent
    operator = operator
    first = first
    second = second
    NoClient = NoClient
    NoKey = NoKey
    Clients <- Two
    Keys <- Keys2
    MaxJobs = 2
    MaxStops = 1
    MaxDeaths = 1
    Glitches = TRUE
SYMMETRY Alike
CONSTRAINT CalmWithSecond
INVARIANTS OneCommandAtATime OutcomeIsTrue
PROPERTIES ObserversKeepOutcomes
CHECK_DEADLOCK FALSE
