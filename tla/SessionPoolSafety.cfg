SPECIFICATION FloorSpec
CONSTANTS
    Threads = {t1, t2, t3}
    MaxSize = 2
    MinSize = 1
    NumSessions = 8
    Databases = {d1, d2}
    InitDb = NoDb
    NoDb = NoDb
    NoThread = NoThread
    NoSession = NoSession
SYMMETRY Symmetry
INVARIANTS Accounting Capacity NoUnderflow IdleUsable FloorKept
