SPECIFICATION NotifySpec
CONSTANTS
    MaxInstances = 3
    MaxSends = 4
INVARIANTS RecordIsCurrent
PROPERTY ReadyNotLost 
CHECK_DEADLOCK FALSE
