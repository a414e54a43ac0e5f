SPECIFICATION Spec
CONSTANTS
    Restores = {r1, r2}
    None = None
    Absent = Absent
    Torn = Torn
    Empty = Empty
    MaxVersion = 2
    MaxPhrases = 1
    MaxStops = 1
    Faults = 1
SYMMETRY Symmetry
INVARIANTS TypeOK RestoredAsAsked
PROPERTIES RestoreIsAtomic PromisedBackupRestores
CHECK_DEADLOCK FALSE
