SPECIFICATION Spec
CONSTANTS
    c1 = c1
    c2 = c2
    chat = chat
    Conn = {c1}
    Nsp = {root}
    Root = root
    Room = {}
    Bcast = {}
    Targets <- MCEveryone
    MaxJoins <- MCMaxJoins
    MaxOut = 0
    AsyncNsp = {}
    NoSock = NoSock
    NoCall = NoCall
    Everyone = Everyone
INVARIANT
    MembersAreConnected
CHECK_DEADLOCK FALSE
