SPECIFICATION Spec
CONSTANTS
    Nsp = {root, chat, news}
    Root = root
    Own = chat
    Caller = {w1}
    AutoReconnect = TRUE
    MaxAttempts = 1
    MaxDials = 2
    MaxHb = 2
    MaxTimers = 2
    MaxPings = 1
INVARIANTS
    TimeoutMeansSilence
CHECK_DEADLOCK FALSE
