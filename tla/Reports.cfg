SPECIFICATION MCSpec
CONSTANTS
    Reporters = {r1, r2}
    UI = UI
    Periods = {1}
    Seeds = {k1, k2, k3}
    OwnKey = OwnKey
    BadKey = BadKey
    Empty = Empty
    Absent = Absent
    MaxDay = 2
    MaxRows = 2
    MaxStarts = 2
SYMMETRY Symmetry
INVARIANTS TypeOK KeyInForce ReportCovers
CHECK_DEADLOCK FALSE
