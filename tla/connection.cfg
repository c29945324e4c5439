SPECIFICATION ConnectionSpec
CONSTANTS
    Clients = {"c1", "c2"}
    Rsync = {"c2"}
    NumFiles = 2
    Metas = {1}
    Datas = {0, 1}
    MaxWrites = 2
    Chunks = 3
    Replies = 2
    MaxMsgs = 2
    PerSecond = 2
    Limits = {0, 1, 2, 7}
    Sizes = {1, 2, 9}
    MaxTime = 6
    MaxWritten = 14
INVARIANTS
    ConnectionTypeOK
    ListedAgrees
    Handover
    LimitHeld
PROPERTIES
    EveryoneServed
    BothGoOn
CHECK_DEADLOCK FALSE
