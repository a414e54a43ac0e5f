SPECIFICATION FairSpec
CONSTANTS
    Users = {u1, u2}
    Vaults = {v1}
    Teams = {t1}
    Threads = {th1, th2}
    None = None
    MaxGen = 2
    Crashes = FALSE
INVARIANT LiveVaultHasKey
PROPERTIES CreatedVaultGetsKey RemovalPurges
