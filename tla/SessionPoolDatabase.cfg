SPECIFICATION DbSpec
CONSTANTS
    Threads = {t1, t2}
    MaxSize = 2
    MinSize = 0
    NumSessions = 6
    Databases = {d1, d2}
    InitDb = d1
    NoDb = NoDb
    NoThread = NoThread
    NoSession = NoSession
INVARIANT TracksMostRecentUse
