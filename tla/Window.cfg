SPECIFICATION Spec
CONSTANTS
    Own = {1, 2}
    Foreign = {3}
    s1 = s1
    s3 = s3
    Secrets = {s1, s3}
    Home <- MCHome
    Threads = {t1, t2}
    None = None
    Delays = {0, 5, 15}
    DefaultDelay = 5
    MaxSessions = 2
    MaxChanges = 1
SYMMETRY Symmetry
INVARIANTS CardsOfActiveVault TimerInForce OneDefaultVault ListIsCurrent LoadingIsAnswered
CHECK_DEADLOCK FALSE
