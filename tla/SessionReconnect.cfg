SPECIFICATION Spec
CONSTANTS
    N = 3
    MaxAttempts = 2
    AutoReconnect = TRUE
    Databases = {d1, d2}
    NoDb = NoDb
    InitDb = NoDb
    Sids = {s1, s2, s3}
    NoSid = NoSid
INVARIANTS IdsCurrent RequestCurrent DatabaseTracked RetryOnce EveryEndpointTried CursorPinned
PROPERTY CallReturns
