SPECIFICATION ScenesSpec
CONSTANTS
    server = server
    timer = timer
    periodic = periodic
    admin = admin
    web = web
    dispatcher = dispatcher
    notice = notice
    emergency = emergency
    NoOne = NoOne
    Workers <- Both
    Dispatcher = dispatcher
    Homes <- Machines
    Subjects <- Kinds
    Emergencies <- Alarms
    MaxIntents = 2
    Limit = 1
    MaxFaults = 1
SYMMETRY Alike
INVARIANTS HandedOnce StaysCancellable
PROPERTIES DeliverySpec RecoveredIsEarned
CHECK_DEADLOCK FALSE
