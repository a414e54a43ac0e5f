SPECIFICATION Spec
CONSTANTS
    Users = {1, 2}
    Me = 2
    Teams = {t1, t2}
    Vaults = {1}
    Secrets = {s1, s2}
    First = {s1}
    Threads = {th1, th2}
    None = None
SYMMETRY Symmetry
INVARIANTS VaultForEachUser NothingHidden PickIsTaken TrashShown MainListFollows
