SPECIFICATION FairSpec
CONSTANTS
    c1 = c1
    c2 = c2
    chat = chat
    Conn = {c1}
    Nsp = {root, chat, news}
    Root = root
    Room = {}
    Bcast = {}
    Targets <- MCEveryone
    MaxJoins <- MCMaxJoins
    MaxOut = 1
    AsyncNsp = {news}
    NoSock = NoSock
    NoCall = NoCall
    Everyone = Everyone
INVARIANTS
    HubInv
    RegisteredIsMember
    AnnouncedIsRouted
    CleanupFindsMembers
    OnlyRacedOrSupersededLeak
    RejectedStaysOut
    InlineNeverRaced
    InlineEventsAreHeard
PROPERTIES
    RoutesAreKept
    RejectionEvicts
    LostConnectionsAreCleaned
CHECK_DEADLOCK FALSE
