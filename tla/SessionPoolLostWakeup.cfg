SPECIFICATION FloorSpec
CONSTANTS
    Threads = {t1, t2}
    MaxSize = 1
    MinSize = 0
    NumSessions = 3
    Databases = {d1}
    InitDb = NoDb
    NoDb = NoDb
    NoThread = NoThread
    NoSession = NoSession
INVARIANT BlocksOnlyAtCapacity
