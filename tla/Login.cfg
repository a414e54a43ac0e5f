SPECIFICATION Spec
CONSTANTS
    Users = {u1}
    Threads = {th1, th2}
    None = None
    MaxFailed = 2
    LockWindow = 3
    BackoffMax = 1
    Step = 1
    Skew = 1
    ReplayTTL = 3
    MaxDelay = 1
    Horizon = 3
    TypedSteps = {1}
    MaxHash = 2
    MaxSecret = 1
SYMMETRY Symmetry
INVARIANTS TypeOK ReplaySpaced GuessBudget
