SPECIFICATION Spec
CONSTANTS
    Defs <- MCDefs
    Passwd <- MCPasswd
    Group <- MCGroup
    Blocked <- MCBlocked
    Syscalls <- MCSyscalls
    Width = 4
    MaxLaunches = 2
INVARIANTS Isolated PrivilegeSuffices IdentityAsResolved LimitInForce MainHears FilterExact
CHECK_DEADLOCK FALSE
