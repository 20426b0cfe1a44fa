SPECIFICATION FairSpec
CONSTANTS
    c1 = c1
    c2 = c2
    chat = chat
    Conn = {c1, c2}
    Nsp = {root}
    Root = root
    Room = {lobby}
    Bcast = {b1}
    Targets <- MCAllTargets
    MaxJoins <- MCMaxJoins
    MaxOut = 0
    AsyncNsp = {}
    NoSock = NoSock
    NoCall = NoCall
    Everyone = Everyone
INVARIANTS
    TypeOK
    AudienceIsStable
    BroadcastReachesAudience
    BroadcastInv
PROPERTIES
    BroadcastPromiseIsKept
    LostConnectionsAreCleaned
CHECK_DEADLOCK FALSE
