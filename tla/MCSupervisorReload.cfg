SPECIFICATION Spec
CONSTANTS
    Names <- MCNames
    Shell <- MCShell
    Defs <- MCDefs
    Pids = {p1, p2, p3, p4}
    BootDefs <- WebAndCore
    Reloads <- SomeReloads
    MaxRestarts = 1
    Window = 1
    MaxTime = 0
    MaxForks = 1
    MaxReloads = 2
INVARIANTS TrackedAreOurs NoStrays OneInstance NoFriendlyFire ReloadExact
SYMMETRY PidSymmetry
CHECK_DEADLOCK FALSE
