SPECIFICATION MCSpec
CONSTANTS
    Names = {n1, n2}
    MaxUsers = 3
    MaxHashes = 5
    Threads = {th1, th2}
    None = None
    Crashes = TRUE
    Failures = TRUE
SYMMETRY Symmetry
INVARIANTS TypeOK EnvelopesDistinct AdminKeptAlone MemoryMatchesAlone
