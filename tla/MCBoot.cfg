SPECIFICATION Spec
CONSTANTS
    Names <- MCNames
    Shell <- MCShell
    Configs <- MCConfigs
INVARIANTS NothingLost OrderRespected RequiresExact DrainsOnlyTheCycle
PROPERTY BootCompletes
CHECK_DEADLOCK FALSE
