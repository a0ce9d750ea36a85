SPECIFICATION Spec
CONSTANTS
    c1 = c1
    c2 = c2
    Clients <- OneClient
    Commands <- ReloadOnly
    Signals = {}
    Targets <- MCTargets
    Available <- MCAvailable
    BootTarget = "multi"
    Periodic <- Never
    MaxChildren = 1
    MaxSignals = 0
    MaxReady = 0
    MaxDeaths = 0
PROPERTY SocketReloadHonoured
CHECK_DEADLOCK FALSE
