SPECIFICATION Spec
CONSTANTS
    Defs <- MCDefs
    Passwd <- MCPasswd
    Group <- MCGroup
    Blocked <- MCBlocked
    Syscalls <- MCSyscalls
    Width = 4
    MaxLaunches = 2
INVARIANT SocketWritable
CHECK_DEADLOCK FALSE
