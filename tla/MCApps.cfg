SPECIFICATION Spec
CONSTANTS
    Pids = {1, 2, 3}
    Daemon <- AnyDaemon
    Backlog = 1
    MaxLaunches = 2
    MaxServices = 1
    MaxTimers = 1
    MaxForks = 1
INVARIANTS ExitReachesOwner RunningAppsListed AppsSwept
PROPERTY LaunchAnswered
CHECK_DEADLOCK FALSE
