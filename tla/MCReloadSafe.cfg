SPECIFICATION Spec
CONSTANTS
    Names <- MCNames
    Targets <- MCTargets
    Inits <- MCInits
    UnitDirs <- MCUnitDirs
    TimerDirs <- MCTimerDirs
    WatchWindow = 2
    MaxTime = 4
    MaxReloads = 2
    MaxIsolates = 1
INVARIANTS RunningIsConfigured
PROPERTIES LastReloadReverts ReloadSeesDisk WatchResolves TransactionSpec
CHECK_DEADLOCK FALSE
