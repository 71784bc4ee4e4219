SPECIFICATION ScenesSpec
CONSTANTS
    periodic = periodic
    web = web
    NoOne = NoOne
    poller = poller
    launcher = launcher
    agent = agent
    first = first
    NoClient = NoClient
    NoKey = NoKey
    timer = timer
    dispatcher = dispatcher
    notice = notice
    emergency = emergency
    user = user
    build = build
    lint = lint
    ExecIds <- Both
    MaxExecs = 2
    MaxShells = 2
CONSTRAINT ServesThree
INVARIANTS ScenesTypeOK GuardCoversProcess AnsweredOnce
PROPERTIES PendingIsSettled ResultIsRecorded CancelSettles IntentsSettle OutageIsAnnounced HangsUp RunsSettle
CHECK_DEADLOCK FALSE
