SPECIFICATION MCSpec
CONSTANTS
    Users = {u1, u2, u3}
    Vaults = {v1}
    Teams = {t1, t2}
    Threads = {th1, th2}
    None = None
    MaxGen = 2
    Crashes = TRUE
SYMMETRY Symmetry
INVARIANTS TypeOK TeamShareAlone HoldersOpenAlone RowsNeverDangle EnvelopesBelongToHolder
