SPECIFICATION Spec
CONSTANTS
    Names <- MCNames
    Shell <- MCShell
    Defs <- MCDefs
    Pids = {p1, p2, p3}
    BootDefs <- DogAndCore
    Reloads <- NoReloads
    MaxRestarts = 2
    Window = 3
    MaxTime = 5
    MaxForks = 0
    MaxReloads = 0
INVARIANTS TypeOK RestartBudget
PROPERTY WatchdogEnforced
CHECK_DEADLOCK FALSE
