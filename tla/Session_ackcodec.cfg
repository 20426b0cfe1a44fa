SPECIFICATION Spec
CONSTANTS
    root = root
    chat = chat
    Nsp = {root,chat}
    Root = root
    Own = root
    Served = {root}
    AsyncNsp = {}
    Event = {move}
    move = move
    Pair <- MCRootPair
    Version = {v1}
    Default = Default
    MaxCalls = 3
    AckMod = 2
    MaxQueue = 1
    MaxEmitting = 1
    MaxPushing = 0
    NoCall = NoCall
    NoNumber = NoNumber
INVARIANT
    AcksDecode
