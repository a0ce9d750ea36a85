SPECIFICATION Spec
CONSTANTS
    Names <- MCNames
    TimerSets <- MCTimerSets
    Services <- MCServices
    Pids = {1, 2}
    MaxTime = 3
    MaxReloads = 2
    MaxRuns = 2
INVARIANTS NoOverlap BootTimerFiresOnce
PROPERTY FinishedRunReleases
CHECK_DEADLOCK FALSE
