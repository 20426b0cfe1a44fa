SPECIFICATION FairSpec
CONSTANTS
    Nsp = {root, chat, news}
    Root = root
    Own = root
    Caller = {w1}
    AutoReconnect = TRUE
    MaxAttempts = 1
    MaxDials = 2
    MaxHb = 2
    MaxTimers = 1
    MaxPings = 0
INVARIANTS
    ClientInv
    NamespacesAreAsked
PROPERTIES
    CloseWhileConnectedIsFinal
    CloseWhileConnectedEnds
    LossIsFollowedUp
CHECK_DEADLOCK FALSE
