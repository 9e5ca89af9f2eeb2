SPECIFICATION LiveSpec
CONSTANTS
    Threads = {t1, t2, t3}
    MaxSize = 1
    MinSize = 0
    NumSessions = 4
    Databases = {}
    InitDb = NoDb
    NoDb = NoDb
    NoThread = NoThread
    NoSession = NoSession
    MaxCalls = 2
INVARIANT CloseWakesAll
PROPERTIES AcquireReturns DrainsAfterClose
CHECK_DEADLOCK FALSE
