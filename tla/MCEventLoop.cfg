SPECIFICATION Spec
CONSTANTS
    c1 = c1
    c2 = c2
    Clients <- TwoClients
    Commands <- Requests
    Signals = {"poweroff"}
    Targets <- MCTargets
    Available <- MCAvailable
    BootTarget = "multi"
    Periodic <- Sometimes
    MaxChildren = 1
    MaxSignals = 1
    MaxReady = 1
    MaxDeaths = 1
INVARIANTS TypeOK FreshStatus
PROPERTIES EveryClientAnswered RequestsHonoured
CHECK_DEADLOCK FALSE
