SPECIFICATION FairSpec
CONSTANTS
    root = root
    chat = chat
    Nsp = {root,chat}
    Root = root
    Own = root
    Served = {root,chat}
    AsyncNsp = {}
    Event = {move}
    move = move
    Pair <- MCChatPair
    Version = {v1,v2}
    Default = Default
    MaxCalls = 0
    AckMod = 2
    MaxQueue = 1
    MaxEmitting = 1
    MaxPushing = 1
    NoCall = NoCall
    NoNumber = NoNumber
INVARIANTS
    SettledEventsAreRead
    SchemasInv

    
