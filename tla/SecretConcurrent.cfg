SPECIFICATION Spec
CONSTANTS
    u1 = u1
    u2 = u2
    v1 = v1
    v2 = v2
    v3 = v3
    Users = {u1, u2}
    Vaults = {v1, v3}
    Secrets = {s1, s2}
    Threads = {th1, th2}
    None = None
    Owner <- MCOwner
    Recipients <- MCRecipients
    Name <- MCName
    MaxSaves = 2
    Crashes = TRUE
SYMMETRY Symmetry
INVARIANTS TypeOK BlobNeverAhead
PROPERTIES StoredNeverHidden PurgeOnlyFromTrash
