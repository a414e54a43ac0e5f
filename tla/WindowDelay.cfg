SPECIFICATION Spec
CONSTANTS
    Own = {1}
    Foreign = {}
    s1 = s1
    s3 = s3
    Secrets = {s1}
    Home <- MCHome
    Threads = {t1}
    None = None
    Delays = {0, 5}
    DefaultDelay = 5
    MaxSessions = 1
    MaxChanges = 2
INVARIANT DelayInForce
CHECK_DEADLOCK FALSE
