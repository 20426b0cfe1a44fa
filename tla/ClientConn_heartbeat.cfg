SPECIFICATION Spec
CONSTANTS
    Nsp = {root}
    Root = root
    Own = root
    Caller = {}
    AutoReconnect = TRUE
    MaxAttempts = 1
    MaxDials = 2
    MaxHb = 2
    MaxTimers = 2
    MaxPings = 1
INVARIANTS
    TypeOK
    OneHeartbeat
    NoDoubleClose
    OneArmedTimer
PROPERTIES
    LinkPromiseIsKept
CHECK_DEADLOCK FALSE
