SPECIFICATION Spec
CONSTANTS
    Threads <- MCThreads
    Main = "main"
    Monitor = "monitor"
    Levels <- MCLevels
    MAX_LINES = 2
    Readings <- MCReadings
    WARN_THRESHOLD = 60
    MaxLogged = 4
    MaxTime = 1
INVARIANTS JournalIsTail EveryLineOut
CHECK_DEADLOCK FALSE
