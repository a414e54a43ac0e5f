----------------------------- MODULE SecretProofs ----------------------------
(***************************************************************************)
(* Theorems about SecretLifecycle, for any number of users, vaults, secrets*)
(* and threads, and about the tools of UserTools: the CSV import, for files*)
(* of any length; the password generator, for passwords of any length and  *)
(* random words of any width; and the search, for texts of any length.     *)
(***************************************************************************)
EXTENDS SecretLifecycle, UserTools, FiniteSetTheorems, WellFoundedInduction,
        SequenceTheorems, TLAPS

-----------------------------------------------------------------------------
(* The life of a secret.                                                    *)

\* A stored secret names its vault: what the operators that look up
\* Owner[secret[s].vault] rely on.
VaultKnown ==
    \A s \in Secrets : secret[s].state # "unused" => secret[s].vault \in Vaults

\* The inductive invariant of the first two theorems: types, known vaults, and
\* a pending blob never newer than the metadata of its secret.
SaveInv ==
    /\ TypeOK
    /\ VaultKnown
    /\ BlobNeverAhead
    /\ \A th \in Threads : op[th].kind = "update" =>
          op[th].save <= secret[op[th].secret].saved /\ secret[op[th].secret].state # "unused"

\* What each kind of pending operation carries.
LEMMA OpFields ==
    ASSUME NEW o \in Op
    PROVE  /\ o.kind \in {"create", "empty"} => o.vault \in Vaults
           /\ o.kind = "update" => o.secret \in Secrets /\ o.save \in 0..MaxSaves
  BY DEF Op, Idle

LEMMA OpTypes ==
    /\ Idle \in Op
    /\ \A v \in Vaults : CreateOp(v) \in Op
    /\ \A s \in Secrets, n \in 0..MaxSaves : UpdateOp(s, n) \in Op
    /\ \A v \in Vaults, S \in SUBSET Secrets : EmptyOp(v, S) \in Op
  BY DEF Op, CreateOp, UpdateOp, EmptyOp

\* A step that writes no metadata, takes no ciphertext and starts no save.
LEMMA QuietStep ==
    ASSUME SaveInv, deleted' \in [Vaults -> BOOLEAN], op' \in [Threads -> Op],
           secret' \in [Secrets -> Row],
           \A s \in Secrets : /\ secret'[s].saved = secret[s].saved
                              /\ secret'[s].blob = secret[s].blob
                              /\ secret'[s].vault = secret[s].vault
                              /\ (secret'[s].state = "unused") <=> (secret[s].state = "unused"),
           \A th \in Threads : op'[th].kind = "update" => op'[th] = op[th]
    PROVE  SaveInv'
<1>1. \A th \in Threads : op[th].kind = "update" => op[th].secret \in Secrets
  BY OpFields DEF SaveInv, TypeOK
<1> QED BY <1>1 DEF SaveInv, TypeOK, VaultKnown, BlobNeverAhead

\* SaveInv is inductive.  Types are kept, and the stored ciphertext of a secret is never newer than
\* its metadata, whatever saves, deletions, restores and crashes interleave.
LEMMA SaveInvariant == Spec => []SaveInv
<1>1. Init => SaveInv
  BY SavesAssumption, OpTypes
  DEF Init, SaveInv, TypeOK, VaultKnown, BlobNeverAhead, Row, Idle
<1>2. SaveInv /\ [Next]_vars => SaveInv'
  <2> SUFFICES ASSUME SaveInv, [Next]_vars PROVE SaveInv'
    OBVIOUS
  <2>0. TypeOK /\ VaultKnown
    BY DEF SaveInv
  <2>1. CASE Crash
    BY <2>1, <2>0, QuietStep, OpTypes DEF Crash, TypeOK, Idle
  <2>2. ASSUME NEW th \in Threads, NEW u \in Users, NEW v \in Vaults,
               CreateSecret_Open(th, u, v)
        PROVE  SaveInv'
    <3>1. op' \in [Threads -> Op] /\ \A x \in Threads : op'[x].kind = "update" => op'[x] = op[x]
      BY <2>2, <2>0, OpTypes DEF CreateSecret_Open, TypeOK, CreateOp
    <3> QED BY <2>2, <2>0, <3>1, QuietStep DEF CreateSecret_Open, TypeOK
  <2>3. ASSUME NEW th \in Threads, NEW u \in Users, NEW v \in Vaults,
               EmptyTrash_Resolve(th, u, v)
        PROVE  SaveInv'
    <3>1. TrashList(u) \in SUBSET Secrets
      BY DEF TrashList
    <3>2. op' \in [Threads -> Op] /\ \A x \in Threads : op'[x].kind = "update" => op'[x] = op[x]
      BY <2>3, <2>0, <3>1, OpTypes DEF EmptyTrash_Resolve, TypeOK, EmptyOp
    <3> QED BY <2>3, <2>0, <3>2, QuietStep DEF EmptyTrash_Resolve, TypeOK
  <2>4. ASSUME NEW th \in Threads, NEW u \in Users, NEW s \in Secrets,
               NEW full \in BOOLEAN, UpdateSecret_Metadata(th, u, s, full)
        PROVE  SaveInv'
    <3>1. secret[s].saved + 1 \in 0..MaxSaves /\ secret[s].state = "live"
      BY <2>4, <2>0, SavesAssumption
      DEF UpdateSecret_Metadata, TypeOK, Row, MainList, Live
    <3>2. /\ secret' \in [Secrets -> Row]
          /\ secret'[s].saved = secret[s].saved + 1
          /\ \A x \in Secrets : /\ secret'[x].blob = secret[x].blob
                                /\ secret'[x].state = secret[x].state
                                /\ secret'[x].vault = secret[x].vault
                                /\ x # s => secret'[x].saved = secret[x].saved
      BY <2>4, <2>0, <3>1 DEF UpdateSecret_Metadata, update_secret_metadata, TypeOK, Row
    <3>3. op' \in [Threads -> Op]
      BY <2>4, <2>0, <3>1, OpTypes DEF UpdateSecret_Metadata, TypeOK
    <3>4. ASSUME NEW x \in Threads, op'[x].kind = "update"
          PROVE  /\ op'[x].save <= secret'[op'[x].secret].saved
                 /\ secret'[op'[x].secret].state # "unused"
      <4>1. CASE op'[x] = op[x]
        <5>1. op[x].secret \in Secrets /\ op[x].save \in 0..MaxSaves
          BY <3>4, <4>1, <2>0, OpFields DEF TypeOK
        <5>2. op[x].save <= secret[op[x].secret].saved
              /\ secret[op[x].secret].state # "unused"
          BY <3>4, <4>1 DEF SaveInv
        <5>3. secret[op[x].secret].saved \in 0..MaxSaves
              /\ secret[op[x].secret].saved <= secret'[op[x].secret].saved
          BY <3>1, <3>2, <5>1, <2>0, SavesAssumption DEF TypeOK, Row
        <5>4. secret'[op[x].secret].saved \in 0..MaxSaves
          BY <3>2, <5>1 DEF Row
        <5> QED BY <3>2, <4>1, <5>1, <5>2, <5>3, <5>4, SavesAssumption
      <4>2. CASE op'[x] # op[x]
        <5>1. op'[x] = UpdateOp(s, secret[s].saved + 1)
          BY <2>4, <2>0, <4>2 DEF UpdateSecret_Metadata, TypeOK
        <5> QED BY <5>1, <3>1, <3>2, SavesAssumption DEF UpdateOp
      <4> QED BY <4>1, <4>2
    <3>5. BlobNeverAhead'
      BY <3>1, <3>2, SavesAssumption DEF SaveInv, BlobNeverAhead, TypeOK, Row
    <3> QED BY <2>4, <3>2, <3>3, <3>4, <3>5 DEF UpdateSecret_Metadata, SaveInv, TypeOK, VaultKnown
  <2>5. ASSUME NEW th \in Threads, NEW s \in Secrets, CreateSecret_Insert(th, s)
        PROVE  SaveInv'
    <3>1. op[th].vault \in Vaults
      BY <2>5, <2>0, OpFields DEF CreateSecret_Insert, TypeOK
    <3>2. /\ secret' \in [Secrets -> Row]
          /\ secret'[s] = [state |-> "live", vault |-> op[th].vault, saved |-> 0, blob |-> 0]
          /\ \A x \in Secrets : x # s => secret'[x] = secret[x]
      BY <2>5, <2>0, <3>1, SavesAssumption
      DEF CreateSecret_Insert, insert_secret_blob, TypeOK, Row
    <3>3. op' \in [Threads -> Op] /\ \A x \in Threads : op'[x].kind = "update" => op'[x] = op[x]
      BY <2>5, <2>0, OpTypes DEF CreateSecret_Insert, TypeOK, Idle
    <3>4. \A x \in Threads : op[x].kind = "update" => op[x].secret \in Secrets \ {s}
      BY <2>5, <2>0, OpFields DEF CreateSecret_Insert, SaveInv, TypeOK
    <3> QED BY <2>5, <3>1, <3>2, <3>3, <3>4
            DEF CreateSecret_Insert, SaveInv, TypeOK, VaultKnown, BlobNeverAhead
  <2>6. ASSUME NEW th \in Threads, NEW s \in Secrets, SoftDelete(th, s) PROVE SaveInv'
    BY <2>6, <2>0, QuietStep DEF SoftDelete, soft_delete, Live, TypeOK, Row
  <2>7. ASSUME NEW th \in Threads, NEW s \in Secrets, RestoreSecret(th, s) PROVE SaveInv'
    BY <2>7, <2>0, QuietStep DEF RestoreSecret, Trash, TypeOK, Row
  <2>8. ASSUME NEW th \in Threads, NEW s \in Secrets, PermanentDelete(th, s) PROVE SaveInv'
    BY <2>8, <2>0, QuietStep DEF PermanentDelete, permanent_delete, Trash, TypeOK, Row
  <2>9. ASSUME NEW th \in Threads, UpdateSecret_Blob(th) PROVE SaveInv'
    <3>1. /\ op[th].secret \in Secrets /\ op[th].save \in 0..MaxSaves
          /\ op[th].save <= secret[op[th].secret].saved
      BY <2>9, <2>0, OpFields DEF UpdateSecret_Blob, TypeOK, SaveInv
    <3>2. op' \in [Threads -> Op] /\ \A x \in Threads : op'[x].kind = "update" => op'[x] = op[x]
      BY <2>9, <2>0, OpTypes DEF UpdateSecret_Blob, TypeOK, Idle
    <3>3. CASE secret' = secret
      BY <2>9, <2>0, <3>2, <3>3, QuietStep DEF UpdateSecret_Blob, TypeOK
    <3>4. CASE secret' = update_secret_blob(op[th].secret, op[th].save)
      <4>1. /\ secret' \in [Secrets -> Row]
            /\ \A x \in Secrets : /\ secret'[x].saved = secret[x].saved
                                  /\ secret'[x].state = secret[x].state
                                  /\ secret'[x].vault = secret[x].vault
                                  /\ \/ secret'[x].blob = secret[x].blob
                                     \/ x = op[th].secret /\ secret'[x].blob = op[th].save
        BY <3>1, <3>4, <2>0 DEF update_secret_blob, TypeOK, Row
      <4>2. \A x \in Threads : op[x].kind = "update" => op[x].secret \in Secrets
        BY <2>0, OpFields DEF TypeOK
      <4>3. BlobNeverAhead'
        BY <3>1, <4>1 DEF SaveInv, BlobNeverAhead
      <4> QED BY <2>9, <3>2, <4>1, <4>2, <4>3
              DEF UpdateSecret_Blob, SaveInv, TypeOK, VaultKnown
    <3> QED BY <2>9, <3>3, <3>4 DEF UpdateSecret_Blob
  <2>10. ASSUME NEW th \in Threads, EmptyTrash_Delete(th) PROVE SaveInv'
    <3>1. op' \in [Threads -> Op] /\ \A x \in Threads : op'[x].kind = "update" => op'[x] = op[x]
      BY <2>10, <2>0, OpTypes DEF EmptyTrash_Delete, TypeOK, Idle
    <3>2. secret' \in [Secrets -> Row]
          /\ \A x \in Secrets : /\ secret'[x].saved = secret[x].saved
                                /\ secret'[x].blob = secret[x].blob
                                /\ secret'[x].vault = secret[x].vault
                                /\ (secret'[x].state = "unused") <=> (secret[x].state = "unused")
      BY <2>10, <2>0 DEF EmptyTrash_Delete, empty_trash, Trash, TypeOK, Row
    <3> QED BY <2>10, <2>0, <3>1, <3>2, QuietStep DEF EmptyTrash_Delete, TypeOK
  <2>11. ASSUME NEW th \in Threads, NEW v \in Vaults, DeleteVault(th, v) PROVE SaveInv'
    <3>1. secret' \in [Secrets -> Row]
          /\ \A x \in Secrets : /\ secret'[x].saved = secret[x].saved
                                /\ secret'[x].blob = secret[x].blob
                                /\ secret'[x].vault = secret[x].vault
                                /\ (secret'[x].state = "unused") <=> (secret[x].state = "unused")
      BY <2>11, <2>0 DEF DeleteVault, delete_vault, Live, TypeOK, Row
    <3> QED BY <2>11, <2>0, <3>1, QuietStep DEF DeleteVault, TypeOK
  <2>12. CASE UNCHANGED vars
    BY <2>12, <2>0, QuietStep DEF vars, TypeOK
  <2> QED BY <2>1, <2>2, <2>3, <2>4, <2>5, <2>6, <2>7, <2>8, <2>9, <2>10, <2>11, <2>12
          DEF Next
<1> QED BY <1>1, <1>2, PTL DEF Spec

\* Types are kept, and the stored ciphertext of a secret is never newer than
\* its metadata.
THEOREM SavesInOrder == Spec => [](TypeOK /\ BlobNeverAhead)
<1>1. SaveInv => TypeOK /\ BlobNeverAhead
  BY DEF SaveInv
<1> QED BY <1>1, SaveInvariant, PTL

\* The vaults' deletion flags, the secret rows and the pending operations keep
\* their types, for any interleaving and any crash.
THEOREM TypeCorrect == Spec => []TypeOK
BY SavesInOrder, PTL

-----------------------------------------------------------------------------

\* No step of any thread destroys a secret that is not in the trash.
THEOREM OnlyTrashIsPurged == Spec => PurgeOnlyFromTrash
<1> DEFINE A == \A s \in Secrets : secret'[s].state = "purged" =>
                   secret[s].state \in {"trash", "purged"}
<1>1. SaveInv /\ [Next]_vars => [A]_vars
  <2> SUFFICES ASSUME SaveInv, Next PROVE A
    OBVIOUS
  <2>0. secret \in [Secrets -> Row]
    BY DEF SaveInv, TypeOK
  <2>1. ASSUME secret' = secret PROVE A
    BY <2>0, <2>1 DEF Row
  <2>2. ASSUME NEW th \in Threads, NEW u \in Users, NEW s \in Secrets,
               NEW full \in BOOLEAN, UpdateSecret_Metadata(th, u, s, full)
        PROVE  A
    BY <2>0, <2>2 DEF UpdateSecret_Metadata, update_secret_metadata, Row
  <2>3. ASSUME NEW th \in Threads, NEW s \in Secrets, CreateSecret_Insert(th, s) PROVE A
    BY <2>0, <2>3 DEF CreateSecret_Insert, insert_secret_blob
  <2>4. ASSUME NEW th \in Threads, NEW s \in Secrets, SoftDelete(th, s) PROVE A
    BY <2>0, <2>4 DEF SoftDelete, soft_delete
  <2>5. ASSUME NEW th \in Threads, NEW s \in Secrets, RestoreSecret(th, s) PROVE A
    BY <2>0, <2>5 DEF RestoreSecret
  <2>6. ASSUME NEW th \in Threads, NEW s \in Secrets, PermanentDelete(th, s) PROVE A
    BY <2>0, <2>6 DEF PermanentDelete, permanent_delete, Trash
  <2>7. ASSUME NEW th \in Threads, UpdateSecret_Blob(th) PROVE A
    <3>1. op[th].secret \in Secrets
      BY <2>7, OpFields DEF UpdateSecret_Blob, SaveInv, TypeOK
    <3> QED BY <2>0, <2>7, <3>1 DEF UpdateSecret_Blob, update_secret_blob, Row
  <2>8. ASSUME NEW th \in Threads, EmptyTrash_Delete(th) PROVE A
    BY <2>0, <2>8 DEF EmptyTrash_Delete, empty_trash, Trash, Row
  <2>9. ASSUME NEW th \in Threads, NEW v \in Vaults, DeleteVault(th, v) PROVE A
    BY <2>0, <2>9 DEF DeleteVault, delete_vault, Live, Row
  <2> QED BY <2>1, <2>2, <2>3, <2>4, <2>5, <2>6, <2>7, <2>8, <2>9
          DEF Next, Crash, CreateSecret_Open, EmptyTrash_Resolve
<1> QED BY <1>1, SaveInvariant, PTL DEF Spec, PurgeOnlyFromTrash

-----------------------------------------------------------------------------

\* No step of any thread makes a stored secret invisible: delete_vault moves the
\* secrets of the vault to the trash in the same transaction, and restore_secret
\* takes the vault back with the secret.
THEOREM StoredStaysVisible == Spec => StoredNeverHidden
<1> DEFINE A == \A s \in Secrets : secret[s].state # "unused" /\ Hidden(s)' => Hidden(s)
<1>1. SaveInv /\ [Next]_vars => [A]_vars
  <2> SUFFICES ASSUME SaveInv, Next PROVE A
    OBVIOUS
  <2>0. /\ secret \in [Secrets -> Row] /\ deleted \in [Vaults -> BOOLEAN]
        /\ op \in [Threads -> Op] /\ VaultKnown
    BY DEF SaveInv, TypeOK
  <2>1. ASSUME deleted' = deleted,
               \A s \in Secrets : secret[s].state # "unused" /\ secret'[s].state = "live" =>
                  secret[s].state = "live" /\ secret'[s].vault = secret[s].vault
        PROVE  A
    BY <2>1 DEF Hidden, Live
  <2>2. ASSUME NEW th \in Threads, NEW u \in Users, NEW s \in Secrets,
               NEW full \in BOOLEAN, UpdateSecret_Metadata(th, u, s, full)
        PROVE  A
    BY <2>0, <2>1, <2>2 DEF UpdateSecret_Metadata, update_secret_metadata, Row
  <2>3. ASSUME NEW th \in Threads, NEW s \in Secrets, CreateSecret_Insert(th, s) PROVE A
    BY <2>0, <2>1, <2>3 DEF CreateSecret_Insert, insert_secret_blob
  <2>4. ASSUME NEW th \in Threads, NEW s \in Secrets,
               SoftDelete(th, s) \/ PermanentDelete(th, s)
        PROVE  A
    BY <2>0, <2>1, <2>4 DEF SoftDelete, PermanentDelete, soft_delete, permanent_delete, Row
  <2>5. ASSUME NEW th \in Threads, NEW s \in Secrets, RestoreSecret(th, s) PROVE A
    <3>1. secret[s].vault \in Vaults
      BY <2>0, <2>5 DEF RestoreSecret, Trash, VaultKnown
    <3>2. \A w \in Vaults : deleted'[w] => deleted[w] /\ w # secret[s].vault
      BY <2>0, <2>5, <3>1 DEF RestoreSecret
    <3>3. \A x \in Secrets : /\ secret'[x].vault = secret[x].vault
                             /\ secret'[x].state = "live" => secret[x].state = "live" \/ x = s
      BY <2>0, <2>5 DEF RestoreSecret, Row
    <3>4. \A x \in Secrets : secret[x].state # "unused" => secret[x].vault \in Vaults
      BY <2>0 DEF VaultKnown
    <3> QED BY <3>2, <3>3, <3>4 DEF Hidden, Live
  <2>6. ASSUME NEW th \in Threads, UpdateSecret_Blob(th) PROVE A
    <3>1. op[th].secret \in Secrets
      BY <2>0, <2>6, OpFields DEF UpdateSecret_Blob
    <3> QED BY <2>0, <2>1, <2>6, <3>1 DEF UpdateSecret_Blob, update_secret_blob, Row
  <2>7. ASSUME NEW th \in Threads, EmptyTrash_Delete(th) PROVE A
    BY <2>0, <2>1, <2>7 DEF EmptyTrash_Delete, empty_trash, Trash, Row
  <2>8. ASSUME NEW th \in Threads, NEW v \in Vaults, DeleteVault(th, v) PROVE A
    <3>1. \A x \in Secrets : secret'[x].state = "live" =>
             secret'[x] = secret[x] /\ secret[x].vault # v
      BY <2>0, <2>8 DEF DeleteVault, delete_vault, Live, Row
    <3>2. \A w \in Vaults : deleted'[w] => deleted[w] \/ w = v
      BY <2>0, <2>8 DEF DeleteVault
    <3>3. \A x \in Secrets : secret[x].state # "unused" => secret[x].vault \in Vaults
      BY <2>0 DEF VaultKnown
    <3> QED BY <3>1, <3>2, <3>3 DEF Hidden, Live
  <2> QED BY <2>1, <2>2, <2>3, <2>4, <2>5, <2>6, <2>7, <2>8
          DEF Next, Crash, CreateSecret_Open, EmptyTrash_Resolve
<1> QED BY <1>1, SaveInvariant, PTL DEF Spec, StoredNeverHidden

-----------------------------------------------------------------------------

\* While only one thread runs at a time, no secret is invisible: the pending
\* create_secret of that thread still finds its vault undeleted.  With two
\* threads a vault can be deleted in between.
VisibleInv ==
    /\ \A s \in Secrets : Live(s) => ~deleted[secret[s].vault]
    /\ \A th \in Threads : op[th].kind = "create" => ~deleted[op[th].vault]

\* Every stored secret is somewhere its owner can find it: in the list of a
\* vault the main window offers, or in the trash.  A live secret of a deleted
\* vault would be in neither ("invisible secret" state, CHANGELOG 189).
NoInvisibleSecret ==
    \A s \in Secrets : secret[s].state \in {"live", "trash"} =>
        LET u == Owner[secret[s].vault] IN s \in MainList(u) \cup TrashList(u)

\* One thread at a time: every stored secret is in its owner's list or trash.
THEOREM SequentialSecretsVisible ==
    (\A x, y \in Threads : x = y) => (Spec => []NoInvisibleSecret)
<1> SUFFICES ASSUME \A x, y \in Threads : x = y PROVE Spec => []NoInvisibleSecret
  OBVIOUS
<1>1. Init => VisibleInv
  BY DEF Init, VisibleInv, Live, Idle
<1>2. SaveInv /\ VisibleInv /\ [Next]_vars => VisibleInv'
  <2> SUFFICES ASSUME SaveInv, VisibleInv, [Next]_vars PROVE VisibleInv'
    OBVIOUS
  <2>0. /\ deleted \in [Vaults -> BOOLEAN] /\ secret \in [Secrets -> Row]
        /\ op \in [Threads -> Op] /\ VaultKnown
    BY DEF SaveInv, TypeOK
  <2>1. CASE Crash
    BY <2>1 DEF Crash, VisibleInv, Live, Idle
  <2>2. ASSUME NEW th \in Threads, NEW u \in Users, NEW v \in Vaults,
               CreateSecret_Open(th, u, v)
        PROVE  VisibleInv'
    BY <2>0, <2>2 DEF CreateSecret_Open, CreateOp, Accessible, VisibleInv, Live
  <2>3. ASSUME NEW th \in Threads, NEW u \in Users, NEW v \in Vaults,
               EmptyTrash_Resolve(th, u, v)
        PROVE  VisibleInv'
    BY <2>0, <2>3 DEF EmptyTrash_Resolve, EmptyOp, VisibleInv, Live
  <2>4. ASSUME NEW th \in Threads, NEW u \in Users, NEW s \in Secrets,
               NEW full \in BOOLEAN, UpdateSecret_Metadata(th, u, s, full)
        PROVE  VisibleInv'
    <3>1. \A x \in Secrets : secret'[x].state = secret[x].state /\ secret'[x].vault = secret[x].vault
      BY <2>0, <2>4 DEF UpdateSecret_Metadata, update_secret_metadata, Row
    <3>2. \A x \in Threads : op'[x].kind = "create" => op'[x] = op[x]
      BY <2>0, <2>4 DEF UpdateSecret_Metadata, UpdateOp
    <3> QED BY <2>4, <3>1, <3>2 DEF UpdateSecret_Metadata, VisibleInv, Live
  <2>5. ASSUME NEW th \in Threads, NEW s \in Secrets, CreateSecret_Insert(th, s)
        PROVE  VisibleInv'
    BY <2>0, <2>5 DEF CreateSecret_Insert, insert_secret_blob, VisibleInv, Live, Idle
  <2>6. ASSUME NEW th \in Threads, NEW s \in Secrets,
               SoftDelete(th, s) \/ PermanentDelete(th, s)
        PROVE  VisibleInv'
    BY <2>0, <2>6 DEF SoftDelete, PermanentDelete, soft_delete, permanent_delete,
                      VisibleInv, Live, Row
  <2>7. ASSUME NEW th \in Threads, NEW s \in Secrets, RestoreSecret(th, s)
        PROVE  VisibleInv'
    <3>1. secret[s].vault \in Vaults
      BY <2>0, <2>7 DEF RestoreSecret, Trash, VaultKnown
    <3>2. \A w \in Vaults : deleted'[w] => deleted[w] /\ w # secret[s].vault
      BY <2>0, <2>7, <3>1 DEF RestoreSecret
    <3>3. \A x \in Secrets : /\ secret'[x].vault = secret[x].vault
                             /\ secret'[x].state = "live" => secret[x].state = "live" \/ x = s
      BY <2>0, <2>7 DEF RestoreSecret, Row
    <3>4. \A x \in Secrets : secret'[x].state = "live" => secret[x].vault \in Vaults
      BY <2>0, <3>1, <3>3 DEF VaultKnown
    <3>5. \A x \in Threads : op[x].kind = "create" => op[x].vault \in Vaults
      BY <2>0, OpFields
    <3> QED BY <2>7, <3>2, <3>3, <3>4, <3>5 DEF RestoreSecret, VisibleInv, Live
  <2>8. ASSUME NEW th \in Threads, UpdateSecret_Blob(th) PROVE VisibleInv'
    <3>1. op[th].secret \in Secrets
      BY <2>0, <2>8, OpFields DEF UpdateSecret_Blob
    <3>2. \A x \in Secrets : secret'[x].state = secret[x].state /\ secret'[x].vault = secret[x].vault
      BY <2>0, <2>8, <3>1 DEF UpdateSecret_Blob, update_secret_blob, Row
    <3> QED BY <2>0, <2>8, <3>2 DEF UpdateSecret_Blob, VisibleInv, Live, Idle
  <2>9. ASSUME NEW th \in Threads, EmptyTrash_Delete(th) PROVE VisibleInv'
    BY <2>0, <2>9 DEF EmptyTrash_Delete, empty_trash, VisibleInv, Live, Row, Idle, Trash
  <2>10. ASSUME NEW th \in Threads, NEW v \in Vaults, DeleteVault(th, v) PROVE VisibleInv'
    <3>1. \A x \in Threads : op[x] = Idle
      BY <2>10 DEF DeleteVault
    <3>2. \A x \in Secrets : secret'[x].state = "live" =>
             secret'[x] = secret[x] /\ secret[x].vault # v
      BY <2>0, <2>10 DEF DeleteVault, delete_vault, Live, Row
    <3>3. \A w \in Vaults : deleted'[w] => deleted[w] \/ w = v
      BY <2>0, <2>10 DEF DeleteVault
    <3>4. \A x \in Secrets : secret[x].state = "live" => secret[x].vault \in Vaults
      BY <2>0 DEF VaultKnown
    <3> QED BY <2>10, <3>1, <3>2, <3>3, <3>4 DEF DeleteVault, VisibleInv, Live, Idle
  <2>11. CASE UNCHANGED vars
    BY <2>11 DEF vars, VisibleInv, Live
  <2> QED BY <2>1, <2>2, <2>3, <2>4, <2>5, <2>6, <2>7, <2>8, <2>9, <2>10, <2>11 DEF Next
<1>3. SaveInv /\ VisibleInv => NoInvisibleSecret
  BY OwnerAssumption
  DEF SaveInv, VaultKnown, VisibleInv, NoInvisibleSecret, MainList, TrashList, Accessible,
      Live, Trash
<1> QED BY <1>1, <1>2, <1>3, SaveInvariant, PTL DEF Spec

-----------------------------------------------------------------------------
(* Induction over numbers.                                                  *)

\* Induction over numbers, as the least counterexample.
LEMMA LeastNumber ==
    ASSUME NEW T \in SUBSET Nat, T # {}
    PROVE  \E x \in T : \A y \in T : x <= y
<1> DEFINE R == {ss \in Nat \X Nat : ss[1] < ss[2]}
<1>1. IsWellFoundedOn(R, Nat)
  BY NatLessThanWellFounded DEF OpToRel
<1>2. PICK x \in T : \A y \in T : ~(<<y, x>> \in R)
  <2> HIDE DEF R
  <2> QED BY <1>1, WFMin
<1>3. ASSUME NEW y \in T PROVE x <= y
  <2>1. ~(<<y, x>> \in R)
    BY <1>2
  <2> QED BY <2>1
<1> QED BY <1>3

\* A set of numbers that has 0 and is closed under successors up to n.
LEMMA UpTo ==
    ASSUME NEW n \in Nat, NEW G, 0 \in G, \A k \in 1..n : k - 1 \in G => k \in G
    PROVE  \A k \in 0..n : k \in G
<1> DEFINE T == {k \in 0..n : k \notin G}
<1> SUFFICES ASSUME T # {} PROVE FALSE
  OBVIOUS
<1>1. T \in SUBSET Nat
  OBVIOUS
<1>2. PICK k \in T : \A y \in T : k <= y
  <2> HIDE DEF T
  <2> QED BY <1>1, LeastNumber
<1>3. k \in 1..n
  BY <1>2
<1>4. k - 1 \notin T
  BY <1>2, <1>3
<1> QED BY <1>2, <1>3, <1>4

\* The function that a recursion over 0..n defines exists.
Steps(S, n) == [S \X (1..n) -> S]
Runs(S, n, base, step) ==
    {f \in [0..n -> S] : f[0] = base /\ \A i \in 1..n : f[i] = step[<<f[i - 1], i>>]}

LEMMA RecursionExists ==
    ASSUME NEW n \in Nat, NEW S, NEW base \in S, NEW step \in Steps(S, n)
    PROVE  Runs(S, n, base, step) # {}
<1> DEFINE Good(k, f) == /\ f \in [0..k -> S] /\ f[0] = base
                         /\ \A i \in 1..k : f[i] = step[<<f[i - 1], i>>]
           G == {k \in 0..n : \E f : Good(k, f)}
<1>1. 0 \in G
  <2> DEFINE z == [i \in 0..0 |-> base]
  <2>1. Good(0, z)
    OBVIOUS
  <2> HIDE DEF z, Good
  <2> QED BY <2>1
<1>2. ASSUME NEW k \in 1..n, k - 1 \in G PROVE k \in G
  <2>1. PICK f : Good(k - 1, f)
    BY <1>2
  <2> DEFINE last_ == step[<<f[k - 1], k>>]
             g == [i \in 0..k |-> IF i < k THEN f[i] ELSE last_]
  <2>2. f[k - 1] \in S
    BY <2>1
  <2>3. last_ \in S
    BY <2>2 DEF Steps
  <2>4. g \in [0..k -> S] /\ g[0] = base
    <3> HIDE DEF last_
    <3> QED BY <2>1, <2>3
  <2>5. ASSUME NEW i \in 1..k PROVE g[i] = step[<<g[i - 1], i>>]
    <3>1. CASE i = k
      <4>1. g[i] = last_ /\ g[i - 1] = f[k - 1]
        BY <3>1
      <4> QED BY <3>1, <4>1
    <3>2. CASE i < k
      <4>1. g[i] = f[i] /\ g[i - 1] = f[i - 1] /\ i \in 1..(k - 1)
        BY <3>2
      <4> QED BY <2>1, <4>1
    <3> QED BY <3>1, <3>2
  <2>6. Good(k, g)
    BY <2>4, <2>5
  <2> HIDE DEF g, Good
  <2> QED BY <2>6
<1>3. n \in G
  <2>1. \A k \in 1..n : k - 1 \in G => k \in G
    BY <1>2
  <2> HIDE DEF G
  <2>2. \A k \in 0..n : k \in G
    BY <1>1, <2>1, UpTo
  <2> QED BY <2>2
<1> QED BY <1>3 DEF Runs

-----------------------------------------------------------------------------
(* The import.                                                              *)

Parsed == [error : BOOLEAN, kept : Seq(Nat)]
AnyFile == [head : BOOLEAN, rows : Seq(CsvRow)]

LEMMA ParseRow ==
    ASSUME NEW acc \in Parsed, NEW row \in CsvRow, NEW i \in Nat
    PROVE  /\ parse_row(acc, row, i) \in Parsed
           /\ ~parse_row(acc, row, i).error =>
                /\ ~acc.error /\ row.valid /\ ~(Len(acc.kept) >= MaxRows)
                /\ parse_row(acc, row, i).kept =
                     (IF row.password THEN Append(acc.kept, i) ELSE acc.kept)
<1>1. PICK e \in BOOLEAN, k \in Seq(Nat) : acc = [error |-> e, kept |-> k]
  BY DEF Parsed
<1>2. CASE e \/ Len(k) >= MaxRows \/ ~row.valid
  <2>1. parse_row(acc, row, i) = [error |-> TRUE, kept |-> k]
    BY <1>1, <1>2 DEF parse_row
  <2> QED BY <2>1 DEF Parsed
<1>3. CASE ~(e \/ Len(k) >= MaxRows \/ ~row.valid) /\ row.password
  <2>1. parse_row(acc, row, i) = [error |-> e, kept |-> Append(k, i)]
    BY <1>1, <1>3 DEF parse_row
  <2>2. Append(k, i) \in Seq(Nat) /\ acc.error = e /\ acc.kept = k
    BY <1>1
  <2> QED BY <1>3, <2>1, <2>2 DEF Parsed
<1>4. CASE ~(e \/ Len(k) >= MaxRows \/ ~row.valid) /\ ~row.password
  <2>1. parse_row(acc, row, i) = acc
    BY <1>1, <1>4 DEF parse_row
  <2> QED BY <1>1, <1>4, <2>1 DEF Parsed
<1> QED BY <1>2, <1>3, <1>4

\* The loop of parse_csv_rows: what is known after each row.
LEMMA ParseSteps ==
    ASSUME NEW f \in AnyFile
    PROVE  \E u \in [0..Len(f.rows) -> Parsed] :
             /\ parse_csv_rows(f) = u[Len(f.rows)]
             /\ u[0] = [error |-> ~f.head, kept |-> <<>>]
             /\ \A i \in 1..Len(f.rows) : u[i] = parse_row(u[i - 1], f.rows[i], i)
<1> DEFINE n == Len(f.rows)
           base == [error |-> ~f.head, kept |-> <<>>]
           step == [x \in Parsed \X (1..n) |-> parse_row(x[1], f.rows[x[2]], x[2])]
           rec(v) == [i \in 0..n |-> IF i = 0 THEN base ELSE parse_row(v[i - 1], f.rows[i], i)]
           u == CHOOSE v : v = rec(v)
<1>1. n \in Nat /\ \A i \in 1..n : f.rows[i] \in CsvRow
  BY DEF AnyFile
<1>2. base \in Parsed
  BY DEF AnyFile, Parsed
<1>3. \A x \in Parsed, i \in 1..n : parse_row(x, f.rows[i], i) \in Parsed
  BY <1>1, ParseRow
<1>4. step \in Steps(Parsed, n)
  BY <1>3 DEF Steps
<1>5. PICK a : a \in Runs(Parsed, n, base, step)
  <2>1. n \in Nat
    BY <1>1
  <2> HIDE DEF n, base, step, u, rec
  <2> QED BY <1>2, <1>4, <2>1, RecursionExists
<1>6. ASSUME NEW i \in 1..n PROVE a[i] = parse_row(a[i - 1], f.rows[i], i)
  <2>1. a[i - 1] \in Parsed
    BY <1>1, <1>5 DEF Runs
  <2> HIDE DEF n
  <2> QED BY <1>5, <2>1 DEF Runs
<1>7. a = rec(a)
  BY <1>1, <1>5, <1>6 DEF Runs
<1>8. u = rec(u)
  BY <1>7
<1>9. parse_csv_rows(f) = u[n]
  BY DEF parse_csv_rows
<1> HIDE DEF u, n, base
<1>10. u[0] = base /\ \A i \in 1..n : u[i] = parse_row(u[i - 1], f.rows[i], i)
  BY <1>1, <1>8
<1>11. u \in [0..n -> Parsed]
  <2> DEFINE G == {i \in 0..n : u[i] \in Parsed}
  <2>1. 0 \in G /\ \A i \in 1..n : i - 1 \in G => i \in G
    BY <1>1, <1>2, <1>3, <1>10
  <2> HIDE DEF G
  <2>2. \A i \in 0..n : i \in G
    BY <1>1, <2>1, UpTo
  <2>3. \A i \in 0..n : u[i] \in Parsed
    BY <2>2 DEF G
  <2> QED BY <1>8, <2>3
<1> QED BY <1>9, <1>10, <1>11 DEF n, base

\* The sequence k lists the numbers of S in ascending order.
Enumerates(k, S) ==
    /\ \A i, j \in 1..Len(k) : i < j => k[i] < k[j]
    /\ \A i \in 1..Len(k) : k[i] \in S
    /\ \A r \in S : \E i \in 1..Len(k) : k[i] = r

LEMMA EnumeratesAppend ==
    ASSUME NEW k \in Seq(Nat), NEW S, Enumerates(k, S), NEW i \in Nat, \A r \in S : r < i
    PROVE  Enumerates(Append(k, i), S \cup {i})
<1> DEFINE a == Append(k, i)
           n == Len(k)
<1>1. n \in Nat /\ Len(a) = n + 1 /\ a[n + 1] = i /\ \A j \in 1..n : a[j] = k[j]
  OBVIOUS
<1> HIDE DEF a, n
<1>2. /\ \A x, y \in 1..n : x < y => k[x] < k[y]
      /\ \A x \in 1..n : k[x] \in S
      /\ \A r \in S : \E x \in 1..n : k[x] = r
  BY DEF Enumerates, n
<1>3. ASSUME NEW x \in 1..(n + 1), NEW y \in 1..(n + 1), x < y PROVE a[x] < a[y]
  <2>1. x \in 1..n
    BY <1>1, <1>3
  <2>2. CASE y = n + 1
    BY <1>1, <1>2, <2>1, <2>2
  <2>3. CASE y \in 1..n
    BY <1>1, <1>2, <1>3, <2>1, <2>3
  <2> QED BY <1>1, <2>2, <2>3
<1>4. ASSUME NEW x \in 1..(n + 1) PROVE a[x] \in S \cup {i}
  <2>1. CASE x = n + 1
    BY <1>1, <2>1
  <2>2. CASE x \in 1..n
    BY <1>1, <1>2, <2>2
  <2> QED BY <1>1, <2>1, <2>2
<1>5. ASSUME NEW r \in S \cup {i} PROVE \E x \in 1..(n + 1) : a[x] = r
  <2>1. CASE r = i
    BY <1>1, <2>1
  <2>2. CASE r \in S
    <3>1. PICK x \in 1..n : k[x] = r
      BY <1>2, <2>2
    <3>2. x \in 1..(n + 1) /\ a[x] = r
      BY <1>1, <3>1
    <3> QED BY <3>2
  <2> QED BY <2>1, <2>2
<1> QED BY <1>1, <1>3, <1>4, <1>5 DEF Enumerates, a

LEMMA EnumeratesCount ==
    ASSUME NEW k \in Seq(Nat), NEW S, Enumerates(k, S)
    PROVE  IsFiniteSet(S) /\ Cardinality(S) = Len(k)
<1>1. Len(k) \in Nat /\ \A x \in 1..Len(k) : k[x] \in Nat
  OBVIOUS
<1>2. k \in [1..Len(k) -> S]
  <2>1. k \in [1..Len(k) -> Nat]
    BY LenProperties
  <2>2. \A x \in 1..Len(k) : k[x] \in S
    BY DEF Enumerates
  <2> QED BY <2>1, <2>2
<1>3. ASSUME NEW x \in 1..Len(k), NEW y \in 1..Len(k), k[x] = k[y] PROVE x = y
  <2>1. ~(x < y) /\ ~(y < x)
    BY <1>1, <1>3 DEF Enumerates
  <2> QED BY <1>1, <2>1
<1>4. \A r \in S : \E x \in 1..Len(k) : k[x] = r
  BY DEF Enumerates
<1>5. k \in Bijection(1..Len(k), S)
  BY <1>2, <1>3, <1>4 DEF Bijection, Injection, Surjection, IsInjective
<1>6. ExistsBijection(1..Len(k), S)
  BY <1>5 DEF ExistsBijection
<1>7. IsFiniteSet(1..Len(k)) /\ Cardinality(1..Len(k)) = Len(k)
  <2>1. /\ IsFiniteSet(1..Len(k))
        /\ Cardinality(1..Len(k)) = IF 1 > Len(k) THEN 0 ELSE Len(k) - 1 + 1
    BY <1>1, FS_Interval
  <2> QED BY <1>1, <2>1
<1> QED BY <1>6, <1>7, FS_Bijection

\* A file that passes is in order as a whole, and what is kept of it is its rows
\* with a password, in their order.
LEMMA ParseCorrect ==
    ASSUME NEW f \in AnyFile, ~parse_csv_rows(f).error
    PROVE  /\ f.head /\ \A i \in 1..Len(f.rows) : f.rows[i].valid
           /\ parse_csv_rows(f).kept \in Seq(Nat)
           /\ Enumerates(parse_csv_rows(f).kept, WithPassword(f))
           /\ Len(parse_csv_rows(f).kept) <= MaxRows
<1>1. PICK u \in [0..Len(f.rows) -> Parsed] :
             /\ parse_csv_rows(f) = u[Len(f.rows)]
             /\ u[0] = [error |-> ~f.head, kept |-> <<>>]
             /\ \A i \in 1..Len(f.rows) : u[i] = parse_row(u[i - 1], f.rows[i], i)
  BY ParseSteps
<1> DEFINE n == Len(f.rows)
           Upto(i) == {j \in 1..i : f.rows[j].password}
           Good(i) == ~u[i].error =>
                        /\ f.head /\ \A j \in 1..i : f.rows[j].valid
                        /\ Enumerates(u[i].kept, Upto(i))
                        /\ Len(u[i].kept) <= MaxRows
           G == {i \in 0..n : Good(i)}
<1>2. n \in Nat /\ DOMAIN f.rows = 1..n /\ \A i \in 1..n : f.rows[i] \in CsvRow
  BY DEF AnyFile
<1>3. \A i \in 0..n : u[i].error \in BOOLEAN /\ u[i].kept \in Seq(Nat)
  BY DEF Parsed
<1>4. 0 \in G
  <2>1. u[0].kept = <<>> /\ u[0].error = ~f.head
    BY <1>1
  <2>2. Enumerates(u[0].kept, Upto(0))
    BY <2>1 DEF Enumerates
  <2>3. Len(u[0].kept) <= MaxRows
    BY <2>1, ImportAssumption
  <2> QED BY <1>2, <2>1, <2>2, <2>3 DEF AnyFile
<1>5. ASSUME NEW i \in 1..n, i - 1 \in G PROVE i \in G
  <2> DEFINE acc == u[i - 1]
             row == f.rows[i]
  <2>1. i - 1 \in 0..n /\ i \in 0..n /\ i \in Nat /\ Good(i - 1)
    BY <1>2, <1>5
  <2>2. acc \in Parsed /\ row \in CsvRow /\ u[i] = parse_row(acc, row, i)
    BY <1>1, <1>2, <2>1
  <2> SUFFICES ASSUME ~u[i].error
               PROVE  /\ f.head /\ \A j \in 1..i : f.rows[j].valid
                      /\ Enumerates(u[i].kept, Upto(i))
                      /\ Len(u[i].kept) <= MaxRows
    BY <2>1
  <2>3. /\ ~acc.error /\ row.valid /\ ~(Len(acc.kept) >= MaxRows)
        /\ u[i].kept = (IF row.password THEN Append(acc.kept, i) ELSE acc.kept)
    <3> HIDE DEF acc, row
    <3> QED BY <2>1, <2>2, ParseRow
  <2>4. /\ f.head /\ \A j \in 1..(i - 1) : f.rows[j].valid
        /\ Enumerates(acc.kept, Upto(i - 1)) /\ acc.kept \in Seq(Nat)
    BY <1>3, <2>1, <2>3
  <2>5. \A j \in 1..i : f.rows[j].valid
    BY <2>1, <2>3, <2>4
  <2>6. Upto(i) = IF row.password THEN Upto(i - 1) \cup {i} ELSE Upto(i - 1)
    BY <2>1
  <2>7. \A r \in Upto(i - 1) : r < i
    BY <2>1
  <2> HIDE DEF Upto, acc, row
  <2>8. Enumerates(u[i].kept, Upto(i))
    BY <2>1, <2>3, <2>4, <2>6, <2>7, EnumeratesAppend
  <2>9. Len(u[i].kept) <= MaxRows
    BY <2>3, <2>4, ImportAssumption
  <2> QED BY <2>4, <2>5, <2>8, <2>9
<1>6. n \in G
  <2>1. \A i \in 1..n : i - 1 \in G => i \in G
    BY <1>5
  <2> HIDE DEF G
  <2>2. \A i \in 0..n : i \in G
    BY <1>2, <1>4, <2>1, UpTo
  <2> QED BY <1>2, <2>2
<1>7. Upto(n) = WithPassword(f)
  BY <1>2 DEF WithPassword
<1> QED BY <1>1, <1>2, <1>3, <1>6, <1>7

\* The rows written and the rows to be written are those the file was parsed into,
\* all in the vault that came first when the import began.
ImportInv ==
    LET parsed == parse_csv_rows(csv)
    IN  /\ csv \in AnyFile
        /\ stored \in Seq([vault : ImportVaults, row : Nat]) /\ pending \in Seq(Nat)
        /\ first \in ImportVaults \cup {NoVault}
        /\ stored # <<>> \/ at = "rows" \/ answer.ok =>
             ~parsed.error /\ Len(stored) <= Len(parsed.kept)
        /\ \A i \in 1..Len(stored) : stored[i].row = parsed.kept[i] /\ stored[i].vault = target
        /\ at = "rows" =>
             /\ ~answer.ok /\ pending # <<>> /\ target \in ImportVaults
             /\ Len(stored) + Len(pending) = Len(parsed.kept)
             /\ \A i \in 1..Len(pending) : pending[i] = parsed.kept[Len(stored) + i]
        /\ answer.ok => Len(stored) = Len(parsed.kept) /\ answer.count = Len(stored)

LEMMA FileTypes == CsvFile \subseteq AnyFile
<1> SUFFICES ASSUME NEW f \in CsvFile PROVE f \in AnyFile
  OBVIOUS
<1>1. PICK m \in 0..MaxFileRows : f.rows \in [1..m -> CsvRow]
  BY DEF CsvFile, BoundedSeq, SeqOf
<1>2. m \in Nat
  BY ImportAssumption
<1>3. f.rows \in Seq(CsvRow)
  BY <1>1, <1>2
<1> QED BY <1>3 DEF CsvFile, AnyFile

LEMMA ImportStarts == ImportInit => ImportInv
<1> SUFFICES ASSUME ImportInit PROVE ImportInv
  OBVIOUS
<1>1. csv \in AnyFile
  BY DEF ImportInit, AnyFile
<1> QED BY <1>1 DEF ImportInit, ImportInv, NoReply

\* Import_Start: the database is empty-handed but for the rows it is about to get.
LEMMA ImportBegins ==
    ASSUME ImportInv, Import_Start
    PROVE  ImportInv'
<1> DEFINE parsed == parse_csv_rows(csv')
<1>1. csv' \in AnyFile /\ stored' = <<>> /\ first' = first /\ at # "rows"
  BY FileTypes DEF Import_Start
<1>2. ~parsed.error => parsed.kept \in Seq(Nat)
  BY <1>1, ParseCorrect
<1>3. pending \in Seq(Nat) /\ first \in ImportVaults \cup {NoVault}
  BY DEF ImportInv
<1>4. CASE /\ parsed.error \/ (parsed.kept # <<>> /\ first = NoVault)
           /\ answer' = Err /\ UNCHANGED <<at, target, pending>>
  BY <1>1, <1>3, <1>4 DEF ImportInv, Err
<1>5. CASE /\ ~parsed.error /\ parsed.kept = <<>>
           /\ answer' = Ok(0) /\ UNCHANGED <<at, target, pending>>
  BY <1>1, <1>3, <1>5 DEF ImportInv, Ok
<1>6. CASE /\ ~parsed.error /\ parsed.kept # <<>> /\ first # NoVault
           /\ at' = "rows" /\ target' = first /\ pending' = parsed.kept
           /\ answer' = NoReply
  <2> HIDE DEF parsed
  <2>1. target' \in ImportVaults /\ pending' \in Seq(Nat) /\ Len(pending') \in Nat
    BY <1>2, <1>3, <1>6
  <2>2. \A i \in 1..Len(pending') : pending'[i] = parsed.kept[0 + i]
    BY <1>6, <2>1
  <2> QED BY <1>1, <1>3, <1>6, <2>1, <2>2 DEF ImportInv, NoReply, parsed
<1> QED BY <1>4, <1>5, <1>6 DEF Import_Start

\* Import_Row moves the first pending row behind the stored ones.
LEMMA ImportStores ==
    ASSUME ImportInv, Import_Row
    PROVE  ImportInv'
<1> DEFINE parsed == parse_csv_rows(csv)
           n == Len(stored)
           new == [vault |-> target, row |-> Head(pending)]
<1>1. /\ csv \in AnyFile /\ pending \in Seq(Nat) /\ pending # <<>>
      /\ stored \in Seq([vault : ImportVaults, row : Nat])
      /\ first \in ImportVaults \cup {NoVault} /\ target \in ImportVaults
      /\ ~answer.ok /\ ~parsed.error /\ n + Len(pending) = Len(parsed.kept)
      /\ \A i \in 1..Len(pending) : pending[i] = parsed.kept[n + i]
      /\ \A i \in 1..n : stored[i].row = parsed.kept[i] /\ stored[i].vault = target
  BY DEF ImportInv, Import_Row
<1>2. /\ csv' = csv /\ first' = first /\ target' = target
      /\ stored' = Append(stored, new) /\ pending' = Tail(pending)
  BY DEF Import_Row
<1>3. parsed.kept \in Seq(Nat)
  BY <1>1, ParseCorrect
<1>4. /\ n \in Nat /\ Len(pending) \in Nat /\ Len(pending) >= 1
      /\ Head(pending) = pending[1] /\ Head(pending) \in Nat
      /\ Tail(pending) \in Seq(Nat) /\ Len(Tail(pending)) = Len(pending) - 1
      /\ \A i \in 1..(Len(pending) - 1) : Tail(pending)[i] = pending[i + 1]
  BY <1>1
<1>5. new \in [vault : ImportVaults, row : Nat] /\ new.vault = target
      /\ new.row = parsed.kept[n + 1]
  <2> HIDE DEF parsed, n
  <2> QED BY <1>1, <1>4
<1> HIDE DEF new
<1>6. /\ stored' \in Seq([vault : ImportVaults, row : Nat]) /\ Len(stored') = n + 1
      /\ \A i \in 1..n : stored'[i] = stored[i]
      /\ stored'[n + 1] = new /\ stored' # <<>>
  BY <1>1, <1>2, <1>5
<1> HIDE DEF n, parsed
<1>7. ASSUME NEW i \in 1..(n + 1)
      PROVE  stored'[i].row = parsed.kept[i] /\ stored'[i].vault = target
  <2>1. CASE i = n + 1
    BY <1>5, <1>6, <2>1
  <2>2. CASE i \in 1..n
    BY <1>1, <1>6, <2>2
  <2> QED BY <1>4, <2>1, <2>2
<1>8. Len(stored') <= Len(parsed.kept) /\ Len(stored') + Len(pending') = Len(parsed.kept)
  <2>1. Len(parsed.kept) \in Nat
    BY <1>3
  <2>2. Len(pending') = Len(pending) - 1
    BY <1>2, <1>4
  <2>3. n + Len(pending) = Len(parsed.kept)
    BY <1>1
  <2>4. Len(stored') = n + 1 /\ n \in Nat /\ Len(pending) \in Nat /\ Len(pending) >= 1
    BY <1>4, <1>6
  <2> QED BY <2>1, <2>2, <2>3, <2>4
<1>9. ASSUME NEW i \in 1..Len(pending') PROVE pending'[i] = parsed.kept[Len(stored') + i]
  <2>1. i \in Nat /\ i + 1 \in 1..Len(pending) /\ pending'[i] = pending[i + 1]
    BY <1>2, <1>4
  <2>2. n + (i + 1) = (n + 1) + i
    BY <1>4, <2>1
  <2> QED BY <1>1, <1>6, <2>1, <2>2
<1>10. CASE pending' = <<>> /\ at' = "idle" /\ answer' = Ok(Len(stored'))
  <2>1. Len(stored') = Len(parsed.kept)
    BY <1>4, <1>6, <1>8, <1>10
  <2>2. answer'.ok /\ answer'.count = Len(stored')
    BY <1>10 DEF Ok
  <2> QED BY <1>1, <1>2, <1>4, <1>6, <1>7, <1>8, <1>10, <2>1, <2>2 DEF ImportInv, parsed
<1>11. CASE pending' # <<>> /\ at' = at /\ answer' = answer
  BY <1>1, <1>2, <1>4, <1>6, <1>7, <1>8, <1>9, <1>11 DEF ImportInv, parsed
<1> QED BY <1>10, <1>11 DEF Import_Row

LEMMA ImportNextInv == ImportInv /\ [ImportNext]_importVars => ImportInv'
<1> SUFFICES ASSUME ImportInv, [ImportNext]_importVars PROVE ImportInv'
  OBVIOUS
<1>1. CASE Import_OpenFails \/ Import_RowFails
  <2>1. /\ csv' = csv /\ first' = first /\ target' = target /\ stored' = stored
        /\ at' = "idle" /\ pending' = <<>> /\ answer' = Err
    BY <1>1 DEF Import_OpenFails, Import_RowFails
  <2> QED BY <2>1 DEF ImportInv, Err
<1>2. CASE VaultsChange
  BY <1>2 DEF VaultsChange, ImportInv
<1>3. CASE UNCHANGED importVars
  BY <1>3 DEF importVars, ImportInv
<1> QED BY <1>1, <1>2, <1>3, ImportBegins, ImportStores DEF ImportNext

LEMMA ImportEnough == ImportInv => ImportIsWhole
<1> SUFFICES ASSUME ImportInv PROVE ImportIsWhole
  OBVIOUS
<1> DEFINE parsed == parse_csv_rows(csv)
           k == parsed.kept
           got == {stored[i].row : i \in DOMAIN stored}
           all == WithPassword(csv)
<1>1. /\ csv \in AnyFile /\ stored \in Seq([vault : ImportVaults, row : Nat])
      /\ stored # <<>> \/ answer.ok => ~parsed.error /\ Len(stored) <= Len(k)
      /\ \A i \in 1..Len(stored) : stored[i].row = k[i] /\ stored[i].vault = target
      /\ answer.ok => Len(stored) = Len(k) /\ answer.count = Len(stored)
  BY DEF ImportInv
<1>2. DOMAIN stored = 1..Len(stored) /\ Len(stored) \in Nat
  BY <1>1, LenProperties
<1>3. DOMAIN csv.rows = 1..Len(csv.rows)
  BY <1>1, LenProperties DEF AnyFile
<1>4. CASE stored = <<>> /\ ~answer.ok
  <2>1. DOMAIN stored = {} /\ got = {}
    BY <1>2, <1>4
  <2> QED BY <1>4, <2>1 DEF ImportIsWhole
<1>5. CASE stored # <<>> \/ answer.ok
  <2>1. /\ csv.head /\ \A i \in DOMAIN csv.rows : csv.rows[i].valid
        /\ k \in Seq(Nat) /\ Enumerates(k, all) /\ Len(k) <= MaxRows
    BY <1>1, <1>3, <1>5, ParseCorrect
  <2>2. Cardinality(all) = Len(k)
    <3> HIDE DEF k, all
    <3> QED BY <2>1, EnumeratesCount
  <2>3. /\ \A i, j \in 1..Len(k) : i < j => k[i] < k[j]
        /\ \A i \in 1..Len(k) : k[i] \in all
        /\ \A r \in all : \E i \in 1..Len(k) : k[i] = r
    BY <2>1 DEF Enumerates
  <2>4. Len(stored) <= Len(k) /\ Len(k) \in Nat /\ \A i \in 1..Len(k) : k[i] \in Nat
    BY <1>1, <1>5, <2>1
  <2>5. \A i \in 1..Len(stored) : i \in 1..Len(k) /\ stored[i].row = k[i]
    BY <1>1, <1>2, <2>4
  <2>6. \A i, j \in DOMAIN stored : /\ i < j => stored[i].row < stored[j].row
                                    /\ stored[i].vault = stored[j].vault
    BY <1>1, <1>2, <2>3, <2>5
  <2>7. got \subseteq all
    BY <1>2, <2>3, <2>5
  <2>8. ASSUME NEW r \in got, NEW q \in all, q < r PROVE q \in got
    <3>1. PICK i \in 1..Len(stored) : r = k[i]
      BY <1>2, <2>5
    <3>2. PICK j \in 1..Len(k) : k[j] = q
      BY <2>3
    <3>3. ~(i <= j)
      <4>1. CASE i = j
        BY <2>4, <2>5, <2>8, <3>1, <3>2, <4>1
      <4>2. CASE i < j
        <5>1. k[i] < k[j] /\ k[i] \in Nat /\ k[j] \in Nat
          BY <2>3, <2>4, <2>5, <3>1, <3>2, <4>2
        <5> QED BY <2>8, <3>1, <3>2, <5>1
      <4> QED BY <2>4, <3>1, <3>2, <4>1, <4>2
    <3>4. j \in 1..Len(stored) /\ stored[j].row = q
      BY <1>2, <2>4, <2>5, <3>2, <3>3
    <3> QED BY <1>2, <3>4
  <2>9. answer.ok => got = all /\ answer.count = Cardinality(all)
    <3> SUFFICES ASSUME answer.ok PROVE all \subseteq got /\ answer.count = Cardinality(all)
      BY <2>7
    <3>1. Len(stored) = Len(k) /\ answer.count = Len(k)
      BY <1>1
    <3>2. ASSUME NEW r \in all PROVE r \in got
      <4>1. PICK i \in 1..Len(k) : k[i] = r
        BY <2>3
      <4>2. i \in DOMAIN stored /\ stored[i].row = r
        BY <1>2, <2>5, <3>1, <4>1
      <4> QED BY <4>2
    <3> QED BY <2>2, <3>1, <3>2
  <2>10. Cardinality(all) <= MaxRows
    BY <2>1, <2>2
  <2> HIDE DEF k, parsed
  <2> QED BY <2>1, <2>6, <2>7, <2>8, <2>9, <2>10 DEF ImportIsWhole
<1> QED BY <1>4, <1>5

\* However many rows the file has and whatever fails or changes meanwhile, what
\* import_csv stores is the first of its rows with a password, in order, and all of
\* them when it returns a count.
THEOREM ImportsAreWhole == ToolsSpec => []ImportIsWhole
<1>1. ToolsInit => ImportInv
  BY ImportStarts DEF ToolsInit
<1>2. ImportInv /\ [ToolsNext]_toolVars => ImportInv'
  <2> SUFFICES ASSUME ImportInv, [ToolsNext]_toolVars PROVE ImportInv'
    OBVIOUS
  <2>1. [ImportNext]_importVars
    BY DEF ToolsNext, toolVars
  <2> QED BY <2>1, ImportNextInv
<1> QED BY <1>1, <1>2, ImportEnough, PTL DEF ToolsSpec

-----------------------------------------------------------------------------
(* The generator: the draw.                                                 *)

LEMMA WordType == MAX \in Nat /\ MAX > 0
  BY WordAssumption DEF MAX

LEMMA DivMod ==
    ASSUME NEW a \in Nat, NEW b \in Nat, b > 0
    PROVE  /\ a \div b \in Nat /\ a % b \in 0..(b - 1)
           /\ a = b * (a \div b) + (a % b)
<1>1. a \div b \in Nat /\ a % b \in 0..(b - 1)
  BY Z3
<1>2. a = b * (a \div b) + (a % b)
  BY Z3
<1> QED BY <1>1, <1>2

LEMMA ModUnique ==
    ASSUME NEW q \in Nat, NEW b \in Nat, b > 0, NEW r \in 0..(b - 1)
    PROVE  (b * q + r) % b = r
  BY Z3

LEMMA NextMultiple ==
    ASSUME NEW b \in Nat, NEW p \in Nat, NEW q \in Nat, b * p < b * q
    PROVE  b * p + b <= b * q
<1>1. p + 1 <= q
  BY Z3
<1> QED BY <1>1, Z3

\* zone is a multiple of the bound, and not 0.
LEMMA ZoneMultiple ==
    ASSUME NEW b \in 1..MAX
    PROVE  \E q \in Nat : zone(b) = b * q /\ b <= zone(b) /\ zone(b) <= MAX
<1>1. b \in Nat /\ b > 0 /\ MAX \in Nat /\ b <= MAX
  BY WordType
<1> DEFINE q == MAX \div b
           r == MAX % b
<1>2. q \in Nat /\ r \in 0..(b - 1) /\ MAX = b * q + r
  BY <1>1, DivMod
<1>3. zone(b) = MAX - r
  BY DEF zone
<1> HIDE DEF q, r
<1>4. b * q \in Nat /\ zone(b) = b * q
  BY <1>1, <1>2, <1>3
<1>5. q # 0
  BY <1>1, <1>2
<1>6. b <= b * q
  BY <1>1, <1>2, <1>5, Z3
<1>7. zone(b) <= MAX
  BY <1>1, <1>2, <1>3
<1> QED BY <1>2, <1>4, <1>6, <1>7

\* random_index returns every index with the same number of words, and at least one.
LEMMA DrawIsFair ==
    ASSUME NEW b \in 1..MAX, NEW i \in 0..(b - 1)
    PROVE  /\ words_for(b, i) # {}
           /\ Cardinality(words_for(b, i)) = Cardinality(words_for(b, 0))
<1>1. b \in Nat /\ b > 0 /\ i \in Nat /\ i < b /\ MAX \in Nat
  BY WordType
<1>2. PICK q \in Nat : zone(b) = b * q /\ b <= zone(b) /\ zone(b) <= MAX
  BY ZoneMultiple
<1>3. zone(b) \in Nat
  BY <1>1, <1>2
<1>4. ASSUME NEW w \in words_for(b, 0)
      PROVE  w \in Nat /\ w + i \in words_for(b, i)
  <2>1. w \in Nat /\ w < zone(b) /\ w % b = 0
    BY <1>1 DEF words_for
  <2>2. PICK p \in Nat : w = b * p
    BY <1>1, <2>1, DivMod
  <2>3. w + b <= zone(b)
    BY <1>1, <1>2, <2>1, <2>2, NextMultiple
  <2>4. (w + i) % b = i
    BY <1>1, <2>2, ModUnique
  <2>5. w + i < zone(b) /\ w + i \in 0..MAX
    BY <1>1, <1>2, <1>3, <2>1, <2>3
  <2> QED BY <2>1, <2>4, <2>5 DEF words_for
<1>5. ASSUME NEW v \in words_for(b, i)
      PROVE  \E w \in words_for(b, 0) : w + i = v
  <2>1. v \in Nat /\ v < zone(b) /\ v % b = i
    BY <1>1 DEF words_for
  <2>2. PICK p \in Nat : v = b * p + i
    BY <1>1, <2>1, DivMod
  <2> DEFINE w == b * p
  <2>3. w \in Nat
    BY <1>1
  <2>4. w % b = 0
    <3>1. (b * p + 0) % b = 0
      BY <1>1, ModUnique
    <3> QED BY <2>3, <3>1
  <2>5. v = w + i
    BY <2>2
  <2> HIDE DEF w
  <2>6. w < zone(b) /\ w \in 0..MAX
    BY <1>1, <1>2, <1>3, <2>1, <2>3, <2>5
  <2>7. w \in words_for(b, 0)
    BY <2>4, <2>6 DEF words_for
  <2> QED BY <2>5, <2>7
<1>6. words_for(b, i) # {}
  <2>1. (b * 0 + i) % b = i
    BY <1>1, ModUnique
  <2>2. b * 0 + i = i
    BY <1>1
  <2>3. i \in words_for(b, i)
    BY <1>1, <1>2, <1>3, <2>1, <2>2 DEF words_for
  <2> QED BY <2>3
<1>7. IsFiniteSet(words_for(b, 0))
  <2>1. IsFiniteSet(0..MAX)
    BY <1>1, FS_Interval
  <2> QED BY <2>1, FS_Subset DEF words_for
<1> DEFINE h == [w \in words_for(b, 0) |-> w + i]
<1>8. h \in Bijection(words_for(b, 0), words_for(b, i))
  <2>1. h \in [words_for(b, 0) -> words_for(b, i)]
    BY <1>4
  <2>2. \A v, w \in words_for(b, 0) : h[v] = h[w] => v = w
    BY <1>1, <1>4
  <2>3. \A v \in words_for(b, i) : \E w \in words_for(b, 0) : h[w] = v
    BY <1>5
  <2> HIDE DEF h
  <2> QED BY <2>1, <2>2, <2>3 DEF Bijection, Injection, Surjection, IsInjective
<1>9. ExistsBijection(words_for(b, 0), words_for(b, i))
  BY <1>8 DEF ExistsBijection
<1> QED BY <1>6, <1>7, <1>9, FS_Bijection

-----------------------------------------------------------------------------
(* The generator: the shuffle.                                              *)

LEMMA SwapValues ==
    ASSUME NEW n \in Nat, NEW s \in Arrangements(n),
           NEW i \in 0..(n - 1), NEW j \in 0..(n - 1)
    PROVE  /\ swap(s, i, j) \in [1..n -> 1..n]
           /\ swap(s, i, j)[i + 1] = s[j + 1] /\ swap(s, i, j)[j + 1] = s[i + 1]
           /\ \A x \in 1..n : x # i + 1 /\ x # j + 1 => swap(s, i, j)[x] = s[x]
<1>1. i + 1 \in 1..n /\ j + 1 \in 1..n
  OBVIOUS
<1>2. s \in [1..n -> 1..n]
  BY DEF Arrangements
<1> QED BY <1>1, <1>2 DEF swap

LEMMA SwapArranges ==
    ASSUME NEW n \in Nat, NEW s \in Arrangements(n),
           NEW i \in 0..(n - 1), NEW j \in 0..(n - 1)
    PROVE  swap(s, i, j) \in Arrangements(n)
<1> DEFINE t == swap(s, i, j)
<1>0. i + 1 \in 1..n /\ j + 1 \in 1..n
  OBVIOUS
<1>1. s \in [1..n -> 1..n] /\ \A x, y \in 1..n : s[x] = s[y] => x = y
  BY DEF Arrangements
<1>2. /\ t \in [1..n -> 1..n] /\ t[i + 1] = s[j + 1] /\ t[j + 1] = s[i + 1]
      /\ \A x \in 1..n : x # i + 1 /\ x # j + 1 => t[x] = s[x]
  BY SwapValues
<1> HIDE DEF t
<1>3. ASSUME NEW x \in 1..n, NEW y \in 1..n, t[x] = t[y] PROVE x = y
  <2> DEFINE src(z) == IF z = i + 1 THEN j + 1 ELSE IF z = j + 1 THEN i + 1 ELSE z
  <2>1. \A z \in 1..n : src(z) \in 1..n /\ t[z] = s[src(z)]
    BY <1>0, <1>2
  <2>2. src(x) = src(y)
    <3> HIDE DEF src
    <3> QED BY <1>1, <1>3, <2>1
  <2> QED BY <2>2
<1> QED BY <1>2, <1>3 DEF Arrangements, t

\* An arrangement has every value.
LEMMA ArrangesAll ==
    ASSUME NEW n \in Nat, NEW s \in Arrangements(n), NEW v \in 1..n
    PROVE  \E x \in 1..n : s[x] = v
<1>1. s \in Injection(1..n, 1..n)
  BY DEF Arrangements, Injection, IsInjective
<1>2. IsFiniteSet(1..n)
  BY FS_Interval
<1>3. s \in Surjection(1..n, 1..n)
  BY <1>1, <1>2, FS_Injection
<1> QED BY <1>3 DEF Surjection

Identity(n) == [i \in 1..n |-> i]

LEMMA IdentityArranges ==
    ASSUME NEW n \in Nat
    PROVE  Identity(n) \in Arrangements(n) /\ Len(Identity(n)) = n
<1>1. Identity(n) \in [1..n -> 1..n] /\ \A i \in 1..n : Identity(n)[i] = i
  BY DEF Identity
<1>2. Len(Identity(n)) = n
  BY DEF Identity
<1> QED BY <1>1, <1>2 DEF Arrangements

\* u is the course of the shuffle of 1..n with the partners p.
Course(n, p, u) ==
    /\ u \in [0..(n - 1) -> Arrangements(n)]
    /\ u[0] = Identity(n)
    /\ \A k \in 1..(n - 1) : u[k] = swap(u[k - 1], n - k, p[n - k])

LEMMA PartnerType ==
    ASSUME NEW n \in Nat, n > 1, NEW p \in partners(n), NEW k \in 1..(n - 1)
    PROVE  /\ n - k \in 1..(n - 1) /\ n - k \in 0..(n - 1)
           /\ p[n - k] \in 0..(n - 1) /\ p[n - k] <= n - k
<1>1. n - k \in 1..(n - 1)
  OBVIOUS
<1>2. p[n - k] \in 0..(n - 1) /\ p[n - k] < swap_bound(n - k)
  BY <1>1 DEF partners
<1> QED BY <1>1, <1>2 DEF swap_bound

LEMMA CourseExists ==
    ASSUME NEW n \in Nat, n > 1, NEW p \in partners(n)
    PROVE  \E u : Course(n, p, u) /\ shuffled(Identity(n), p) = u[n - 1]
<1> DEFINE S == Arrangements(n)
           m == n - 1
           base == Identity(n)
           step == [x \in S \X (1..m) |-> swap(x[1], n - x[2], p[n - x[2]])]
           rec(v) == [k \in 0..(n - 1) |->
                        IF k = 0 THEN base ELSE swap(v[k - 1], n - k, p[n - k])]
           u == CHOOSE v : v = rec(v)
<1>1. m \in Nat /\ base \in S
  BY IdentityArranges
<1>2. \A s \in S, k \in 1..m : swap(s, n - k, p[n - k]) \in S
  BY PartnerType, SwapArranges
<1>3. step \in Steps(S, m)
  BY <1>2 DEF Steps
<1>4. PICK a : a \in Runs(S, m, base, step)
  <2> HIDE DEF S, m, base, step, rec, u
  <2> QED BY <1>1, <1>3, RecursionExists
<1>5. ASSUME NEW k \in 1..m PROVE a[k] = swap(a[k - 1], n - k, p[n - k])
  <2>1. a[k - 1] \in S
    BY <1>1, <1>4 DEF Runs
  <2> HIDE DEF S, m
  <2> QED BY <1>4, <2>1 DEF Runs
<1>6. a = rec(a)
  BY <1>4, <1>5 DEF Runs
<1>7. u = rec(u)
  BY <1>6
<1>8. shuffled(base, p) = u[n - 1]
  <2>1. Len(base) = n
    BY IdentityArranges
  <2> HIDE DEF base
  <2> QED BY <2>1 DEF shuffled
<1> HIDE DEF u, base, S
<1>9. u[0] = base /\ \A k \in 1..m : u[k] = swap(u[k - 1], n - k, p[n - k])
  BY <1>1, <1>7
<1>10. u \in [0..m -> S]
  <2> DEFINE G == {k \in 0..m : u[k] \in S}
  <2>1. 0 \in G /\ \A k \in 1..m : k - 1 \in G => k \in G
    BY <1>1, <1>2, <1>9
  <2> HIDE DEF G, m
  <2>2. \A k \in 0..m : k \in G
    BY <1>1, <2>1, UpTo
  <2>3. \A k \in 0..m : u[k] \in S
    BY <2>2 DEF G
  <2> QED BY <1>7, <2>3 DEF m
<1>11. Course(n, p, u)
  BY <1>9, <1>10 DEF Course, S, base
<1> QED BY <1>8, <1>11 DEF base

\* What step k puts in its place stays there: later steps work below it.
LEMMA Settled ==
    ASSUME NEW n \in Nat, n > 1, NEW p \in partners(n), NEW u, Course(n, p, u),
           NEW k \in 1..(n - 1), NEW m \in k..(n - 1)
    PROVE  u[m][n - k + 1] = u[k][n - k + 1]
<1> DEFINE G == {d \in 0..(n - 1 - k) : u[k + d][n - k + 1] = u[k][n - k + 1]}
<1>1. 0 \in G
  OBVIOUS
<1>2. ASSUME NEW d \in 1..(n - 1 - k), d - 1 \in G PROVE d \in G
  <2>1. k + d \in 1..(n - 1) /\ k + d - 1 \in 0..(n - 1) /\ k + (d - 1) = k + d - 1
    OBVIOUS
  <2> DEFINE l == k + d
  <2>2. u[l] = swap(u[l - 1], n - l, p[n - l]) /\ u[l - 1] \in Arrangements(n)
    BY <2>1 DEF Course
  <2>3. n - l \in 0..(n - 1) /\ p[n - l] \in 0..(n - 1) /\ p[n - l] <= n - l
    BY <2>1, PartnerType
  <2>4. \A x \in 1..n : x # n - l + 1 /\ x # p[n - l] + 1 => u[l][x] = u[l - 1][x]
    <3> DEFINE i == n - l
               j == p[n - l]
               a == u[l - 1]
    <3>1. i \in 0..(n - 1) /\ j \in 0..(n - 1) /\ a \in Arrangements(n)
      BY <2>2, <2>3
    <3> HIDE DEF i, j, a
    <3>2. \A x \in 1..n : x # i + 1 /\ x # j + 1 => swap(a, i, j)[x] = a[x]
      BY <3>1, SwapValues
    <3> QED BY <2>2, <3>2 DEF i, j, a
  <2>5. n - k + 1 \in 1..n /\ n - k + 1 # n - l + 1 /\ n - k + 1 # p[n - l] + 1
    BY <2>3
  <2>6. u[l][n - k + 1] = u[l - 1][n - k + 1]
    BY <2>4, <2>5
  <2>7. u[l - 1][n - k + 1] = u[k][n - k + 1]
    BY <1>2, <2>1
  <2> QED BY <2>6, <2>7
<1>3. n - 1 - k \in Nat /\ m - k \in 0..(n - 1 - k) /\ k + (m - k) = m
  OBVIOUS
<1>4. \A d \in 0..(n - 1 - k) : d \in G
  <2>1. \A d \in 1..(n - 1 - k) : d - 1 \in G => d \in G
    BY <1>2
  <2> HIDE DEF G
  <2> QED BY <1>1, <1>3, <2>1, UpTo
<1>5. m - k \in G
  BY <1>3, <1>4
<1> QED BY <1>3, <1>5

\* Step k puts in place what lies where its partner points.
LEMMA Places ==
    ASSUME NEW n \in Nat, n > 1, NEW p \in partners(n), NEW u, Course(n, p, u),
           NEW k \in 1..(n - 1)
    PROVE  /\ u[k - 1] \in Arrangements(n) /\ p[n - k] + 1 \in 1..n /\ n - k + 1 \in 1..n
           /\ u[k][n - k + 1] = u[k - 1][p[n - k] + 1]
           /\ u[n - 1][n - k + 1] = u[k - 1][p[n - k] + 1]
<1>1. n - k \in 0..(n - 1) /\ p[n - k] \in 0..(n - 1) /\ p[n - k] + 1 \in 1..n
      /\ n - k + 1 \in 1..n
  BY PartnerType
<1>2. k - 1 \in 0..(n - 1) /\ n - 1 \in k..(n - 1)
  OBVIOUS
<1>3. u[k - 1] \in Arrangements(n) /\ u[k] = swap(u[k - 1], n - k, p[n - k])
  BY <1>2 DEF Course
<1>4. u[k][n - k + 1] = u[k - 1][p[n - k] + 1]
  <2> DEFINE i == n - k
             j == p[n - k]
             a == u[k - 1]
  <2>1. i \in 0..(n - 1) /\ j \in 0..(n - 1) /\ a \in Arrangements(n)
    BY <1>1, <1>3
  <2> HIDE DEF i, j, a
  <2>2. swap(a, i, j)[i + 1] = a[j + 1]
    BY <2>1, SwapValues
  <2> QED BY <1>3, <2>2 DEF i, j, a
<1>5. u[n - 1][n - k + 1] = u[k][n - k + 1]
  BY <1>2, Settled
<1> QED BY <1>1, <1>3, <1>4, <1>5

\* Courses agree as long as their partners do.
LEMMA SameCourse ==
    ASSUME NEW n \in Nat, n > 1, NEW p, NEW q, NEW u, NEW v,
           Course(n, p, u), Course(n, q, v),
           NEW m \in 0..(n - 1), \A k \in 1..m : p[n - k] = q[n - k]
    PROVE  \A k \in 0..m : u[k] = v[k]
<1> DEFINE G == {k \in 0..m : u[k] = v[k]}
<1>1. 0 \in G
  BY DEF Course
<1>2. \A k \in 1..m : k - 1 \in G => k \in G
  <2> SUFFICES ASSUME NEW k \in 1..m, u[k - 1] = v[k - 1] PROVE u[k] = v[k]
    OBVIOUS
  <2>1. k \in 1..(n - 1)
    OBVIOUS
  <2> QED BY <2>1 DEF Course
<1>3. m \in Nat
  OBVIOUS
<1>4. \A k \in 0..m : k \in G
  <2> HIDE DEF G
  <2> QED BY <1>1, <1>2, <1>3, UpTo
<1> QED BY <1>4

\* Different draws give different arrangements.
LEMMA ShuffleInjective ==
    ASSUME NEW n \in Nat, n > 1, NEW p \in partners(n), NEW q \in partners(n),
           shuffled(Identity(n), p) = shuffled(Identity(n), q)
    PROVE  p = q
<1>1. PICK u : Course(n, p, u) /\ shuffled(Identity(n), p) = u[n - 1]
  BY CourseExists
<1>2. PICK v : Course(n, q, v) /\ shuffled(Identity(n), q) = v[n - 1]
  BY CourseExists
<1> DEFINE G == {m \in 0..(n - 1) : \A k \in 1..m : p[n - k] = q[n - k]}
<1>3. 0 \in G
  OBVIOUS
<1>4. ASSUME NEW m \in 1..(n - 1), m - 1 \in G PROVE m \in G
  <2>1. m - 1 \in 0..(n - 1) /\ \A k \in 1..(m - 1) : p[n - k] = q[n - k]
    BY <1>4
  <2>2. u[m - 1] = v[m - 1]
    <3>1. \A k \in 0..(m - 1) : u[k] = v[k]
      BY <1>1, <1>2, <2>1, SameCourse
    <3> QED BY <2>1, <3>1
  <2>3. /\ u[m - 1] \in Arrangements(n) /\ p[n - m] + 1 \in 1..n
        /\ u[n - 1][n - m + 1] = u[m - 1][p[n - m] + 1]
    BY <1>1, Places
  <2>4. q[n - m] + 1 \in 1..n /\ v[n - 1][n - m + 1] = v[m - 1][q[n - m] + 1]
    BY <1>2, Places
  <2>5. u[m - 1][p[n - m] + 1] = u[m - 1][q[n - m] + 1]
    BY <1>1, <1>2, <2>2, <2>3, <2>4
  <2>6. p[n - m] + 1 = q[n - m] + 1
    BY <2>3, <2>4, <2>5 DEF Arrangements
  <2>7. p[n - m] = q[n - m]
    <3>1. p[n - m] \in 0..(n - 1) /\ q[n - m] \in 0..(n - 1)
      BY PartnerType
    <3> QED BY <2>6, <3>1
  <2>8. \A k \in 1..m : p[n - k] = q[n - k]
    BY <2>1, <2>7
  <2> QED BY <2>8
<1>5. \A m \in 0..(n - 1) : m \in G
  <2>1. \A m \in 1..(n - 1) : m - 1 \in G => m \in G
    BY <1>4
  <2>2. n - 1 \in Nat
    OBVIOUS
  <2> HIDE DEF G
  <2> QED BY <1>3, <2>1, <2>2, UpTo
<1>6. \A k \in 1..(n - 1) : p[n - k] = q[n - k]
  BY <1>5
<1>7. ASSUME NEW i \in 1..(n - 1) PROVE p[i] = q[i]
  <2>1. n - i \in 1..(n - 1) /\ n - (n - i) = i
    OBVIOUS
  <2> QED BY <1>6, <2>1
<1>8. p \in [1..(n - 1) -> 0..(n - 1)] /\ q \in [1..(n - 1) -> 0..(n - 1)]
  BY DEF partners
<1> QED BY <1>7, <1>8

\* Some draws put the last m values of t in their places.
Reached(n, t, m) ==
    \E p \in partners(n) : \E u : /\ Course(n, p, u)
                                  /\ \A k \in 1..m : u[k][n - k + 1] = t[n - k + 1]

LEMMA ReachedStart ==
    ASSUME NEW n \in Nat, n > 1, NEW t
    PROVE  Reached(n, t, 0)
<1> DEFINE p == [i \in 1..(n - 1) |-> 0]
<1>1. p \in partners(n)
  BY DEF partners, swap_bound
<1> HIDE DEF p
<1>2. PICK u : Course(n, p, u)
  BY <1>1, CourseExists
<1>3. \A k \in 1..0 : u[k][n - k + 1] = t[n - k + 1]
  OBVIOUS
<1> QED BY <1>1, <1>2, <1>3 DEF Reached

\* The next value lies among those not yet in place, so a partner points to it.
LEMMA ReachedStep ==
    ASSUME NEW n \in Nat, n > 1, NEW t \in Arrangements(n), NEW m \in 1..(n - 1),
           Reached(n, t, m - 1)
    PROVE  Reached(n, t, m)
<1>1a. PICK p \in partners(n) : \E u : /\ Course(n, p, u)
                                       /\ \A k \in 1..(m - 1) : u[k][n - k + 1] = t[n - k + 1]
  BY DEF Reached
<1>1. PICK u : Course(n, p, u) /\ \A k \in 1..(m - 1) : u[k][n - k + 1] = t[n - k + 1]
  BY <1>1a
<1> DEFINE a == u[m - 1]
<1>2. a \in Arrangements(n) /\ m - 1 \in 0..(n - 1)
  BY <1>1 DEF Course
<1>3. t \in [1..n -> 1..n] /\ \A x, y \in 1..n : t[x] = t[y] => x = y
  BY DEF Arrangements
<1>4. n - m + 1 \in 1..n
  OBVIOUS
<1>5. PICK x \in 1..n : a[x] = t[n - m + 1]
  <2> DEFINE w == t[n - m + 1]
  <2>1. w \in 1..n
    BY <1>3, <1>4
  <2> HIDE DEF a, w
  <2>2. \E x \in 1..n : a[x] = w
    BY <1>2, <2>1, ArrangesAll
  <2> QED BY <2>2 DEF w
<1>6. x <= n - m + 1
  <2> SUFFICES ASSUME x > n - m + 1 PROVE FALSE
    OBVIOUS
  <2> DEFINE k == n - x + 1
  <2>1. k \in 1..(m - 1) /\ k \in 1..(n - 1) /\ n - k + 1 = x /\ m - 1 \in k..(n - 1)
    OBVIOUS
  <2>2. u[m - 1][n - k + 1] = u[k][n - k + 1]
    <3> HIDE DEF k, a
    <3> QED BY <1>1, <2>1, Settled
  <2>3. u[k][n - k + 1] = t[n - k + 1]
    BY <1>1, <2>1
  <2>4. a[x] = t[x]
    BY <2>1, <2>2, <2>3
  <2> HIDE DEF a, k
  <2>5. t[x] = t[n - m + 1]
    BY <1>5, <2>4
  <2>6. x = n - m + 1
    BY <1>3, <1>4, <2>5
  <2> QED BY <2>6
<1> DEFINE j == x - 1
           q == [p EXCEPT ![n - m] = j]
<1>7. j \in 0..(n - 1) /\ j <= n - m /\ j + 1 = x /\ n - m \in 1..(n - 1)
  BY <1>6
<1> HIDE DEF j
<1>8. /\ p \in [1..(n - 1) -> 0..(n - 1)]
      /\ \A i \in 1..(n - 1) : p[i] < swap_bound(i)
  BY DEF partners
<1>9. /\ q \in [1..(n - 1) -> 0..(n - 1)] /\ q[n - m] = j
      /\ \A i \in 1..(n - 1) : i # n - m => q[i] = p[i]
  BY <1>7, <1>8
<1> HIDE DEF q
<1>10. q \in partners(n)
  <2>1. j < swap_bound(n - m)
    BY <1>7 DEF swap_bound
  <2>2. \A i \in 1..(n - 1) : q[i] < swap_bound(i)
    BY <1>8, <1>9, <2>1
  <2> QED BY <1>9, <2>2 DEF partners
<1>11. PICK v : Course(n, q, v)
  BY <1>10, CourseExists
<1>12. \A k \in 0..(m - 1) : v[k] = u[k]
  <2>1. ASSUME NEW k \in 1..(m - 1) PROVE q[n - k] = p[n - k]
    <3>1. n - k \in 1..(n - 1) /\ n - k # n - m
      OBVIOUS
    <3> QED BY <1>9, <3>1
  <2>2. \A k \in 1..(m - 1) : q[n - k] = p[n - k]
    BY <2>1
  <2> QED BY <1>1, <1>2, <1>11, <2>2, SameCourse
<1>13. v[m][n - m + 1] = t[n - m + 1]
  <2>1. v[m][n - m + 1] = v[m - 1][q[n - m] + 1]
    BY <1>10, <1>11, Places
  <2>2. v[m - 1] = a
    BY <1>2, <1>12
  <2> HIDE DEF a
  <2> QED BY <1>5, <1>7, <1>9, <2>1, <2>2
<1>14. ASSUME NEW k \in 1..m PROVE v[k][n - k + 1] = t[n - k + 1]
  <2>1. CASE k = m
    BY <1>13, <2>1
  <2>2. CASE k \in 1..(m - 1)
    BY <1>1, <1>12, <2>2
  <2> QED BY <2>1, <2>2
<1> QED BY <1>10, <1>11, <1>14 DEF Reached

\* Every arrangement is reached.
LEMMA ShuffleSurjective ==
    ASSUME NEW n \in Nat, n > 1, NEW t \in Arrangements(n)
    PROVE  \E p \in partners(n) : shuffled(Identity(n), p) = t
<1> DEFINE G == {m \in 0..(n - 1) : Reached(n, t, m)}
<1>1. 0 \in G
  BY ReachedStart
<1>2. \A m \in 1..(n - 1) : m - 1 \in G => m \in G
  BY ReachedStep
<1>3. n - 1 \in Nat
  OBVIOUS
<1>4. \A m \in 0..(n - 1) : m \in G
  <2> HIDE DEF G
  <2> QED BY <1>1, <1>2, <1>3, UpTo
<1>5. Reached(n, t, n - 1)
  BY <1>3, <1>4
<1>6a. PICK p \in partners(n) : \E u : /\ Course(n, p, u)
                                       /\ \A k \in 1..(n - 1) : u[k][n - k + 1] = t[n - k + 1]
  BY <1>5 DEF Reached
<1>6. PICK u : Course(n, p, u) /\ \A k \in 1..(n - 1) : u[k][n - k + 1] = t[n - k + 1]
  BY <1>6a
<1> DEFINE a == u[n - 1]
<1>7. a \in Arrangements(n)
  BY <1>6 DEF Course
<1>8. /\ a \in [1..n -> 1..n] /\ t \in [1..n -> 1..n]
      /\ \A x, y \in 1..n : t[x] = t[y] => x = y
  BY <1>7 DEF Arrangements
<1>9. ASSUME NEW x \in 2..n PROVE a[x] = t[x]
  <2> DEFINE k == n - x + 1
  <2>1. k \in 1..(n - 1) /\ n - k + 1 = x /\ n - 1 \in k..(n - 1)
    OBVIOUS
  <2>2. u[n - 1][n - k + 1] = u[k][n - k + 1]
    <3> HIDE DEF k
    <3> QED BY <1>6, <2>1, Settled
  <2> QED BY <1>6, <2>1, <2>2
<1>10. a[1] = t[1]
  <2> DEFINE w == t[1]
  <2>1. w \in 1..n
    BY <1>8
  <2>2. PICK y \in 1..n : a[y] = w
    <3> HIDE DEF a, w
    <3> QED BY <1>7, <2>1, ArrangesAll
  <2>3. CASE y \in 2..n
    BY <1>8, <1>9, <2>2, <2>3
  <2>4. CASE y = 1
    BY <2>2, <2>4
  <2> QED BY <2>3, <2>4
<1>11. a = t
  <2>1. \A x \in 1..n : a[x] = t[x]
    BY <1>9, <1>10
  <2> HIDE DEF a
  <2> QED BY <1>8, <2>1
<1>12. shuffled(Identity(n), p) = a
  <2>1. PICK v : Course(n, p, v) /\ shuffled(Identity(n), p) = v[n - 1]
    BY CourseExists
  <2>2. \A k \in 0..(n - 1) : v[k] = u[k]
    <3>1. n - 1 \in 0..(n - 1)
      OBVIOUS
    <3> QED BY <1>6, <2>1, <3>1, SameCourse
  <2> QED BY <2>1, <2>2
<1> QED BY <1>11, <1>12

\* Functions between finite sets are finitely many.
LEMMA FiniteFunctions ==
    ASSUME NEW S, NEW T, IsFiniteSet(S), IsFiniteSet(T)
    PROVE  IsFiniteSet([S -> T])
<1> DEFINE graph(f) == {<<x, f[x]>> : x \in S}
           h == [f \in [S -> T] |-> graph(f)]
<1>1. IsFiniteSet(S \X T)
  BY FS_Product
<1>2. IsFiniteSet(SUBSET (S \X T))
  BY <1>1, FS_SUBSET
<1>3. \A f \in [S -> T] : graph(f) \in SUBSET (S \X T)
  OBVIOUS
<1>4. h \in [[S -> T] -> SUBSET (S \X T)]
  BY <1>3
<1>5. ASSUME NEW f \in [S -> T], NEW g \in [S -> T], h[f] = h[g] PROVE f = g
  <2>1. graph(f) = graph(g)
    BY <1>5
  <2>2. ASSUME NEW x \in S PROVE f[x] = g[x]
    <3>1. <<x, f[x]>> \in graph(g)
      BY <2>1
    <3>2. PICK y \in S : <<x, f[x]>> = <<y, g[y]>>
      BY <3>1
    <3> QED BY <3>2
  <2> QED BY <2>2
<1>6. h \in Injection([S -> T], SUBSET (S \X T))
  <2> HIDE DEF h
  <2> QED BY <1>4, <1>5 DEF Injection, IsInjective
<1> HIDE DEF h
<1> QED BY <1>2, <1>6, FS_Injection

\* The shuffle reaches each arrangement with exactly one series of draws.
LEMMA ShuffleIsFair ==
    ASSUME NEW n \in Nat, n > 1
    PROVE  /\ {shuffled([i \in 1..n |-> i], p) : p \in partners(n)} = Arrangements(n)
           /\ Cardinality(partners(n)) = Cardinality(Arrangements(n))
<1> DEFINE h == [p \in partners(n) |-> shuffled(Identity(n), p)]
<1>1. ASSUME NEW p \in partners(n) PROVE shuffled(Identity(n), p) \in Arrangements(n)
  <2>1. PICK u : Course(n, p, u) /\ shuffled(Identity(n), p) = u[n - 1]
    BY CourseExists
  <2> QED BY <2>1 DEF Course
<1>2. \A t \in Arrangements(n) : \E p \in partners(n) : shuffled(Identity(n), p) = t
  BY ShuffleSurjective
<1>3. \A p, q \in partners(n) : shuffled(Identity(n), p) = shuffled(Identity(n), q) => p = q
  BY ShuffleInjective
<1>4. h \in Bijection(partners(n), Arrangements(n))
  <2>1. /\ h \in [partners(n) -> Arrangements(n)]
        /\ \A p \in partners(n) : h[p] = shuffled(Identity(n), p)
    BY <1>1
  <2> HIDE DEF h
  <2> QED BY <1>2, <1>3, <2>1 DEF Bijection, Injection, Surjection, IsInjective
<1>5. IsFiniteSet(partners(n))
  <2>1. n - 1 \in Int /\ IsFiniteSet(1..(n - 1)) /\ IsFiniteSet(0..(n - 1))
    BY FS_Interval
  <2>2. IsFiniteSet([1..(n - 1) -> 0..(n - 1)])
    BY <2>1, FiniteFunctions
  <2> QED BY <2>2, FS_Subset DEF partners
<1>6. Cardinality(partners(n)) = Cardinality(Arrangements(n))
  <2>1. ExistsBijection(partners(n), Arrangements(n))
    BY <1>4 DEF ExistsBijection
  <2> QED BY <1>5, <2>1, FS_Bijection
<1>7. {shuffled(Identity(n), p) : p \in partners(n)} = Arrangements(n)
  BY <1>1, <1>2
<1> QED BY <1>6, <1>7 DEF Identity

-----------------------------------------------------------------------------
(* The generator keeps one byte of each class, so its policy accepts.       *)

Bytes == Seq(Classes)

\* What generate_password has in hand.
GeneratorInv ==
    /\ outcome \in {"none", "running", "ok", "invalid length", "no randomness"}
    /\ outcome = "running" =>
         /\ wanted \in Nat /\ validate_length(wanted)
         /\ password \in Bytes /\ ToSet(password) = Classes
         /\ \/ index = 0 /\ Len(password) < wanted
            \/ index \in 1..(wanted - 1) /\ Len(password) = wanted

\* Exchanging two bytes keeps the length and the set of classes.
LEMMA SwapKeepsClasses ==
    ASSUME NEW s \in Bytes, NEW i \in 0..(Len(s) - 1), NEW j \in 0..(Len(s) - 1)
    PROVE  /\ swap(s, i, j) \in Bytes /\ Len(swap(s, i, j)) = Len(s)
           /\ ToSet(swap(s, i, j)) = ToSet(s)
<1> DEFINE r == swap(s, i, j)
<1>1. i + 1 \in 1..Len(s) /\ j + 1 \in 1..Len(s) /\ Len(s) \in Nat
  BY DEF Bytes
<1>2. r \in Bytes /\ Len(r) = Len(s)
  BY <1>1 DEF swap, Bytes
<1>3. \A x \in 1..Len(s) : r[x] = IF x = j + 1 THEN s[i + 1]
                                  ELSE IF x = i + 1 THEN s[j + 1] ELSE s[x]
  BY <1>1 DEF swap, Bytes
<1> HIDE DEF r
<1>4. \A x \in 1..Len(s) : \E y \in 1..Len(s) : r[x] = s[y]
  BY <1>1, <1>3
<1>5. \A x \in 1..Len(s) : \E y \in 1..Len(s) : s[x] = r[y]
  <2> SUFFICES ASSUME NEW x \in 1..Len(s) PROVE \E y \in 1..Len(s) : s[x] = r[y]
    OBVIOUS
  <2>1. CASE x = i + 1
    <3>1. r[j + 1] = s[x]
      BY <1>1, <1>3, <2>1
    <3> QED BY <1>1, <3>1
  <2>2. CASE x = j + 1
    <3>1. r[i + 1] = s[x]
      BY <1>1, <1>3, <2>2
    <3> QED BY <1>1, <3>1
  <2>3. CASE x # i + 1 /\ x # j + 1
    <3>1. r[x] = s[x]
      BY <1>3, <2>3
    <3> QED BY <3>1
  <2> QED BY <2>1, <2>2, <2>3
<1>6. ToSet(r) = ToSet(s)
  <2>1. DOMAIN r = 1..Len(s) /\ DOMAIN s = 1..Len(s)
    BY <1>2 DEF Bytes
  <2>2. ToSet(r) \subseteq ToSet(s)
    BY <1>4, <2>1 DEF ToSet
  <2>3. ToSet(s) \subseteq ToSet(r)
    BY <1>5, <2>1 DEF ToSet
  <2> QED BY <2>2, <2>3
<1> QED BY <1>2, <1>6 DEF r

LEMMA GeneratorStart ==
    ASSUME Generate_Start PROVE GeneratorInv'
<1>1. PICK length \in 0..(MaxLength + 1) :
         /\ wanted' = IF length = 0 THEN DefaultLength ELSE length
         /\ IF validate_length(wanted')
              THEN /\ password' = <<"lower", "upper", "digit", "symbol">>
                   /\ outcome' = "running"
              ELSE password' = <<>> /\ outcome' = "invalid length"
  BY DEF Generate_Start
<1>2. wanted' \in Nat /\ index' = 0
  <2>1. wanted' = IF length = 0 THEN DefaultLength ELSE length
    BY <1>1
  <2>2. length \in Nat /\ DefaultLength \in Nat
    BY LengthsAssumption
  <2>3. index' = 0
    BY DEF Generate_Start
  <2> QED BY <2>1, <2>2, <2>3
<1>3. CASE ~validate_length(wanted')
  BY <1>1, <1>3 DEF GeneratorInv
<1>4. CASE validate_length(wanted')
  <2> DEFINE p == <<"lower", "upper", "digit", "symbol">>
  <2>1. p \in Bytes /\ Len(p) = 4
    BY DEF Bytes, Classes
  <2>2. ToSet(p) = Classes
    <3>1. ToSet(p) = {p[k] : k \in 1..4}
      BY <2>1 DEF ToSet
    <3>2. p[1] = "lower" /\ p[2] = "upper" /\ p[3] = "digit" /\ p[4] = "symbol"
      OBVIOUS
    <3>3. 1..4 = {1, 2, 3, 4}
      OBVIOUS
    <3> HIDE DEF p
    <3>4. {p[k] : k \in {1, 2, 3, 4}} = {p[1], p[2], p[3], p[4]}
      OBVIOUS
    <3> QED BY <3>1, <3>2, <3>3, <3>4 DEF Classes
  <2>3. password' = p /\ outcome' = "running"
    BY <1>1, <1>4
  <2>4. 4 < wanted'
    BY <1>2, <1>4, LengthsAssumption DEF validate_length
  <2> HIDE DEF p
  <2>5. /\ password' \in Bytes /\ ToSet(password') = Classes
        /\ Len(password') < wanted'
    BY <2>1, <2>2, <2>3, <2>4
  <2> QED BY <1>2, <1>4, <2>3, <2>5 DEF GeneratorInv
<1> QED BY <1>3, <1>4

LEMMA GeneratorFill ==
    ASSUME GeneratorInv, Generate_Fill PROVE GeneratorInv'
<1>1. /\ wanted \in Nat /\ validate_length(wanted)
      /\ password \in Bytes /\ ToSet(password) = Classes
      /\ outcome = "running" /\ Len(password) < wanted /\ Len(password) \in Nat
  BY DEF GeneratorInv, Generate_Fill, Bytes
<1>2. PICK c \in Classes : password' = Append(password, c)
  BY DEF Generate_Fill
<1>3. /\ wanted' = wanted /\ outcome' = outcome
      /\ index' = IF Len(password') = wanted THEN wanted - 1 ELSE 0
  BY DEF Generate_Fill
<1>4. password' \in Bytes /\ Len(password') = Len(password) + 1
  BY <1>1, <1>2 DEF Bytes
<1>5. ToSet(password') = Classes
  <2>1. \A x \in 1..Len(password) : password'[x] = password[x]
    BY <1>1, <1>2 DEF Bytes
  <2>2. \A x \in 1..Len(password') : password'[x] \in Classes
    BY <1>4 DEF Bytes
  <2>3. ToSet(password') \subseteq Classes
    BY <2>2 DEF ToSet
  <2>4. \A d \in Classes : \E x \in 1..Len(password) : password[x] = d
    BY <1>1 DEF ToSet
  <2>5. \A d \in Classes : \E x \in 1..Len(password') : password'[x] = d
    <3> SUFFICES ASSUME NEW d \in Classes
                 PROVE  \E x \in 1..Len(password') : password'[x] = d
      OBVIOUS
    <3>1. PICK x \in 1..Len(password) : password[x] = d
      BY <2>4
    <3>2. x \in 1..Len(password')
      BY <1>1, <1>4
    <3> QED BY <2>1, <3>1, <3>2
  <2>6. Classes \subseteq ToSet(password')
    BY <2>5 DEF ToSet
  <2> QED BY <2>3, <2>6
<1>6. validate_length(wanted')
  BY <1>1, <1>3
<1>7. 1 <= wanted - 1
  BY <1>1, LengthsAssumption DEF validate_length
<1>8. \/ index' = 0 /\ Len(password') < wanted'
      \/ index' \in 1..(wanted' - 1) /\ Len(password') = wanted'
  BY <1>1, <1>3, <1>4, <1>7
<1> QED BY <1>1, <1>3, <1>4, <1>5, <1>6, <1>8 DEF GeneratorInv

LEMMA GeneratorShuffle ==
    ASSUME GeneratorInv, Generate_Shuffle PROVE GeneratorInv'
<1>1. /\ wanted \in Nat /\ validate_length(wanted)
      /\ password \in Bytes /\ ToSet(password) = Classes
      /\ outcome = "running" /\ index \in 1..(wanted - 1) /\ Len(password) = wanted
  BY DEF GeneratorInv, Generate_Shuffle
<1>2. PICK j \in 0..(swap_bound(index) - 1) : password' = swap(password, index, j)
  BY DEF Generate_Shuffle
<1>3. index \in 0..(Len(password) - 1) /\ j \in 0..(Len(password) - 1)
  BY <1>1, <1>2 DEF swap_bound
<1>4. /\ password' \in Bytes /\ Len(password') = wanted
      /\ ToSet(password') = Classes
  BY <1>1, <1>2, <1>3, SwapKeepsClasses
<1>5. validate_password_policy(password')
  BY <1>1, <1>4 DEF validate_password_policy
<1>6. /\ wanted' = wanted /\ index' = index - 1
      /\ outcome' = IF index' > 0 THEN "running" ELSE "ok"
  BY <1>5 DEF Generate_Shuffle
<1>7. validate_length(wanted')
  BY <1>1, <1>6
<1>8. CASE index' > 0
  <2>1. outcome' = "running" /\ index' \in 1..(wanted' - 1)
    BY <1>1, <1>6, <1>8
  <2> QED BY <1>1, <1>4, <1>6, <1>7, <2>1 DEF GeneratorInv
<1>9. CASE ~(index' > 0)
  BY <1>6, <1>9 DEF GeneratorInv
<1> QED BY <1>8, <1>9

LEMMA GeneratorFails ==
    ASSUME Generate_Fails PROVE GeneratorInv'
  BY DEF GeneratorInv, Generate_Fails

LEMMA GeneratorNext ==
    ASSUME GeneratorInv, [ToolsNext]_toolVars PROVE GeneratorInv'
<1>1. CASE UNCHANGED passwordVars
  BY <1>1 DEF GeneratorInv, passwordVars, validate_length
<1>2. CASE PasswordNext
  BY <1>2, GeneratorStart, GeneratorFill, GeneratorShuffle, GeneratorFails
     DEF PasswordNext
<1>3. UNCHANGED passwordVars \/ PasswordNext
  BY DEF ToolsNext, toolVars
<1> QED BY <1>1, <1>2, <1>3

LEMMA GeneratorInit ==
    ToolsInit => GeneratorInv
BY DEF ToolsInit, PasswordInit, GeneratorInv

\* A generated password is never refused by the policy that generate_password
\* checks it against, random_index draws every index with the same number of
\* words, and the shuffle reaches every arrangement by one series of draws: for
\* every length, every width of the word and every bound.
THEOREM GeneratorUnbiased == ToolsSpec => []GeneratorIsFair
<1>1. \A b \in 1..MAX : \A i \in 0..(b - 1) :
         /\ words_for(b, i) # {}
         /\ Cardinality(words_for(b, i)) = Cardinality(words_for(b, 0))
  BY DrawIsFair
<1>2. \A n \in 2..MaxShuffled :
         /\ {shuffled([i \in 1..n |-> i], p) : p \in partners(n)} = Arrangements(n)
         /\ Cardinality(partners(n)) = Cardinality(Arrangements(n))
  <2> SUFFICES ASSUME NEW n \in 2..MaxShuffled
               PROVE  /\ {shuffled([i \in 1..n |-> i], p) : p \in partners(n)} = Arrangements(n)
                      /\ Cardinality(partners(n)) = Cardinality(Arrangements(n))
    OBVIOUS
  <2>1. n \in Nat /\ n > 1
    BY LengthsAssumption
  <2> QED BY <2>1, ShuffleIsFair
<1>3. GeneratorInv => GeneratorIsFair
  BY <1>1, <1>2, Zenon DEF GeneratorInv, GeneratorIsFair
<1>4. ToolsSpec => []GeneratorInv
  BY GeneratorInit, GeneratorNext, PTL DEF ToolsSpec
<1> QED BY <1>3, <1>4, PTL

-----------------------------------------------------------------------------
(* The search: within_one_edit.                                             *)

\* Where the words first differ, read from i and j on.
Differ(l, r, i, j) ==
    {x \in i..Len(l) : /\ x - i + j <= Len(r) /\ l[x] # r[x - i + j]
                       /\ \A y \in i..(x - 1) : l[y] = r[y - i + j]}

\* The words are the same from i and j to their ends.
Same(l, r, i, j) == Len(l) - i = Len(r) - j /\ \A x \in i..Len(l) : l[x] = r[x - i + j]

SameAfter(l, r, i, j) ==
    Same(l, r, IF Len(l) >= Len(r) THEN i + 1 ELSE i, IF Len(r) >= Len(l) THEN j + 1 ELSE j)

\* What the walk counts from i and j on.
Edits(l, r, i, j, e) ==
    IF e = 1 THEN IF Same(l, r, i, j) THEN 1 ELSE 2
    ELSE IF Differ(l, r, i, j) = {} THEN IF Len(l) - i = Len(r) - j THEN 0 ELSE 1
    ELSE IF \A x \in Differ(l, r, i, j) : SameAfter(l, r, x, x - i + j) THEN 1 ELSE 2

LEMMA EditsAtEnd ==
    ASSUME NEW l, NEW r, Len(l) \in Nat, Len(r) \in Nat,
           NEW i \in 1..(Len(l) + 1), NEW j \in 1..(Len(r) + 1), NEW e \in 0..1,
           i > Len(l) \/ j > Len(r)
    PROVE  Edits(l, r, i, j, e) = IF i <= Len(l) \/ j <= Len(r) THEN e + 1 ELSE e
<1>1. Differ(l, r, i, j) = {}
  BY DEF Differ
<1>2. Same(l, r, i, j) <=> Len(l) - i = Len(r) - j
  BY DEF Same
<1>3. Len(l) - i = Len(r) - j <=> i > Len(l) /\ j > Len(r)
  OBVIOUS
<1> QED BY <1>1, <1>2, <1>3 DEF Edits

LEMMA EditsEqual ==
    ASSUME NEW l, NEW r, Len(l) \in Nat, Len(r) \in Nat,
           NEW i \in 1..Len(l), NEW j \in 1..Len(r), NEW e \in 0..1, l[i] = r[j]
    PROVE  Edits(l, r, i, j, e) = Edits(l, r, i + 1, j + 1, e)
<1>1. \A x \in Int : x - (i + 1) + (j + 1) = x - i + j
  OBVIOUS
<1>2. ASSUME NEW x \in (i + 1)..Len(l)
      PROVE  (\A y \in i..(x - 1) : l[y] = r[y - i + j])
               <=> \A y \in (i + 1)..(x - 1) : l[y] = r[y - (i + 1) + (j + 1)]
  <2>1. ASSUME \A y \in i..(x - 1) : l[y] = r[y - i + j],
               NEW y \in (i + 1)..(x - 1)
        PROVE  l[y] = r[y - (i + 1) + (j + 1)]
    <3>1. y \in i..(x - 1) /\ y - (i + 1) + (j + 1) = y - i + j
      OBVIOUS
    <3> QED BY <2>1, <3>1
  <2>2. ASSUME \A y \in (i + 1)..(x - 1) : l[y] = r[y - (i + 1) + (j + 1)],
               NEW y \in i..(x - 1)
        PROVE  l[y] = r[y - i + j]
    <3>1. CASE y = i
      <4>1. y - i + j = j
        BY <3>1
      <4> QED BY <3>1, <4>1
    <3>2. CASE y # i
      <4>1. y \in (i + 1)..(x - 1) /\ y - (i + 1) + (j + 1) = y - i + j
        BY <3>2
      <4> QED BY <2>2, <4>1
    <3> QED BY <3>1, <3>2
  <2> QED BY <2>1, <2>2
<1>3. Differ(l, r, i, j) = Differ(l, r, i + 1, j + 1)
  <2>1. ASSUME NEW x \in Differ(l, r, i, j) PROVE x \in Differ(l, r, i + 1, j + 1)
    <3>1. /\ x \in i..Len(l) /\ x - i + j <= Len(r) /\ l[x] # r[x - i + j]
          /\ \A y \in i..(x - 1) : l[y] = r[y - i + j]
      BY DEF Differ
    <3>2. i - i + j = j
      OBVIOUS
    <3>3. x # i
      BY <3>1, <3>2
    <3>4. x \in (i + 1)..Len(l) /\ x - (i + 1) + (j + 1) = x - i + j
      BY <3>1, <3>3
    <3> QED BY <1>2, <3>1, <3>4 DEF Differ
  <2>2. ASSUME NEW x \in Differ(l, r, i + 1, j + 1) PROVE x \in Differ(l, r, i, j)
    <3>1. /\ x \in (i + 1)..Len(l) /\ x - (i + 1) + (j + 1) <= Len(r)
          /\ l[x] # r[x - (i + 1) + (j + 1)]
          /\ \A y \in (i + 1)..(x - 1) : l[y] = r[y - (i + 1) + (j + 1)]
      BY DEF Differ
    <3>2. x \in i..Len(l) /\ x - (i + 1) + (j + 1) = x - i + j
      <4>1. x \in (i + 1)..Len(l)
        BY <3>1
      <4> QED BY <4>1
    <3> QED BY <1>2, <3>1, <3>2 DEF Differ
  <2> QED BY <2>1, <2>2
<1>4. Same(l, r, i, j) <=> Same(l, r, i + 1, j + 1)
  <2>1. \A x \in i..Len(l) : x = i \/ x \in (i + 1)..Len(l)
    OBVIOUS
  <2>2. \A x \in (i + 1)..Len(l) : x \in i..Len(l)
    OBVIOUS
  <2>3. i - i + j = j /\ (Len(l) - i = Len(r) - j <=> Len(l) - (i + 1) = Len(r) - (j + 1))
    OBVIOUS
  <2> QED BY <1>1, <2>1, <2>2, <2>3 DEF Same
<1>5. \A x \in Differ(l, r, i, j) : x - i + j = x - (i + 1) + (j + 1)
  BY DEF Differ
<1>6. Len(l) - i = Len(r) - j <=> Len(l) - (i + 1) = Len(r) - (j + 1)
  OBVIOUS
<1> QED BY <1>3, <1>4, <1>5, <1>6 DEF Edits

LEMMA EditsSkip ==
    ASSUME NEW l, NEW r, Len(l) \in Nat, Len(r) \in Nat,
           NEW i \in 1..Len(l), NEW j \in 1..Len(r), l[i] # r[j]
    PROVE  /\ Edits(l, r, i, j, 1) = 2
           /\ Edits(l, r, i, j, 0) = IF SameAfter(l, r, i, j) THEN 1 ELSE 2
<1>1. i - i + j = j
  OBVIOUS
<1>2. ~Same(l, r, i, j)
  BY <1>1 DEF Same
<1>3. Differ(l, r, i, j) = {i}
  <2>1. i \in Differ(l, r, i, j)
    BY <1>1 DEF Differ
  <2>2. ASSUME NEW x \in Differ(l, r, i, j) PROVE x = i
    <3>1. x \in i..Len(l) /\ \A y \in i..(x - 1) : l[y] = r[y - i + j]
      BY DEF Differ
    <3>2. x > i => i \in i..(x - 1)
      BY <3>1
    <3> QED BY <1>1, <3>1, <3>2
  <2> QED BY <2>1, <2>2
<1> QED BY <1>1, <1>2, <1>3 DEF Edits

\* One step of the walk of within_one_edit, and the walk.
Counted(l, r, f, p) ==
    IF p[1] > Len(l) \/ p[2] > Len(r)
      THEN IF p[1] <= Len(l) \/ p[2] <= Len(r) THEN p[3] + 1 ELSE p[3]
    ELSE IF l[p[1]] = r[p[2]] THEN f[<<p[1] + 1, p[2] + 1, p[3]>>]
    ELSE IF p[3] = 1 THEN 2
    ELSE f[skip(l, r, p[1], p[2])]
IsWalk(l, r, f) == f = [p \in pointers(l, r) |-> Counted(l, r, f, p)]

\* Edits is such a walk.
LEMMA EditsWalk ==
    ASSUME NEW l, NEW r, Len(l) \in Nat, Len(r) \in Nat
    PROVE  IsWalk(l, r, [p \in pointers(l, r) |-> Edits(l, r, p[1], p[2], p[3])])
<1> DEFINE f == [p \in pointers(l, r) |-> Edits(l, r, p[1], p[2], p[3])]
<1>2. \A i \in 1..(Len(l) + 1), j \in 1..(Len(r) + 1), e \in 0..1 :
         <<i, j, e>> \in pointers(l, r) /\ f[<<i, j, e>>] = Edits(l, r, i, j, e)
  BY DEF pointers
<1>3. ASSUME NEW p \in pointers(l, r) PROVE f[p] = Counted(l, r, f, p)
  <2>1. PICK i \in 1..(Len(l) + 1), j \in 1..(Len(r) + 1), e \in 0..1 : p = <<i, j, e>>
    BY DEF pointers
  <2>2. p[1] = i /\ p[2] = j /\ p[3] = e
    BY <2>1
  <2>3. f[p] = Edits(l, r, i, j, e)
    BY <1>2, <2>1
  <2> HIDE DEF f
  <2>4. CASE i > Len(l) \/ j > Len(r)
    <3>1. Edits(l, r, i, j, e) = IF i <= Len(l) \/ j <= Len(r) THEN e + 1 ELSE e
      BY <2>4, EditsAtEnd
    <3> QED BY <2>2, <2>3, <2>4, <3>1 DEF Counted
  <2>5. CASE i <= Len(l) /\ j <= Len(r) /\ l[i] = r[j]
    <3>1. i \in 1..Len(l) /\ j \in 1..Len(r)
      BY <2>5
    <3>2. Edits(l, r, i, j, e) = Edits(l, r, i + 1, j + 1, e)
      BY <2>5, <3>1, EditsEqual
    <3>3. i + 1 \in 1..(Len(l) + 1) /\ j + 1 \in 1..(Len(r) + 1)
      BY <3>1
    <3>4. f[<<i + 1, j + 1, e>>] = Edits(l, r, i + 1, j + 1, e)
      BY <1>2, <3>3
    <3> QED BY <2>2, <2>3, <2>5, <3>2, <3>4 DEF Counted
  <2>6. CASE i <= Len(l) /\ j <= Len(r) /\ l[i] # r[j]
    <3>1. i \in 1..Len(l) /\ j \in 1..Len(r)
      BY <2>6
    <3>2. /\ Edits(l, r, i, j, 1) = 2
          /\ Edits(l, r, i, j, 0) = IF SameAfter(l, r, i, j) THEN 1 ELSE 2
      BY <2>6, <3>1, EditsSkip
    <3>3. f[skip(l, r, i, j)] = IF SameAfter(l, r, i, j) THEN 1 ELSE 2
      <4> DEFINE x == IF Len(l) >= Len(r) THEN i + 1 ELSE i
                 y == IF Len(r) >= Len(l) THEN j + 1 ELSE j
      <4>1. x \in 1..(Len(l) + 1) /\ y \in 1..(Len(r) + 1)
        BY <3>1
      <4>2. skip(l, r, i, j) = <<x, y, 1>>
        BY DEF skip
      <4>4. SameAfter(l, r, i, j) <=> Same(l, r, x, y)
        BY Zenon DEF SameAfter
      <4> HIDE DEF x, y
      <4>3. f[<<x, y, 1>>] = Edits(l, r, x, y, 1)
        <5>1. 1 \in 0..1
          OBVIOUS
        <5> QED BY <1>2, <4>1, <5>1, Zenon
      <4> QED BY <4>2, <4>3, <4>4 DEF Edits
    <3>4. CASE e = 1
      BY <2>2, <2>3, <2>6, <3>2, <3>4 DEF Counted
    <3>5. CASE e = 0
      BY <2>2, <2>3, <2>6, <3>2, <3>3, <3>5 DEF Counted
    <3> QED BY <3>4, <3>5
  <2> QED BY <2>4, <2>5, <2>6
<1>4. f = [p \in pointers(l, r) |-> Counted(l, r, f, p)]
  BY <1>3
<1> QED BY <1>4 DEF IsWalk

\* There is only one walk: each step moves on.
LEMMA WalksAgree ==
    ASSUME NEW l, NEW r, Len(l) \in Nat, Len(r) \in Nat,
           NEW f, NEW g, IsWalk(l, r, f), IsWalk(l, r, g),
           NEW p \in pointers(l, r)
    PROVE  f[p] = g[p]
<1> DEFINE todo(q) == Len(l) + 1 - q[1] + Len(r) + 1 - q[2]
           wrong == {q \in pointers(l, r) : f[q] # g[q]}
           T == {todo(q) : q \in wrong}
<1> SUFFICES ASSUME p \in wrong PROVE FALSE
  OBVIOUS
<1>1. \A q \in pointers(l, r) : todo(q) \in Nat
  BY DEF pointers
<1>2. T \in SUBSET Nat /\ T # {}
  BY <1>1
<1>3. PICK n \in T : \A m \in T : n <= m
  <2> HIDE DEF T
  <2> QED BY <1>2, LeastNumber
<1>4. PICK q \in wrong : n = todo(q)
  BY <1>3
<1>5. \A x \in pointers(l, r) : todo(x) < todo(q) => f[x] = g[x]
  <2> SUFFICES ASSUME NEW x \in pointers(l, r), todo(x) < todo(q), f[x] # g[x] PROVE FALSE
    OBVIOUS
  <2>1. x \in wrong
    OBVIOUS
  <2>2. todo(x) \in T /\ todo(x) \in Nat /\ todo(q) \in Nat
    BY <1>1, <2>1
  <2> HIDE DEF T, todo
  <2>3. todo(q) <= todo(x)
    BY <1>3, <1>4, <2>2
  <2> QED BY <2>2, <2>3
<1>6. f[q] = Counted(l, r, f, q) /\ g[q] = Counted(l, r, g, q)
  BY <1>4 DEF IsWalk
<1>7. PICK i \in 1..(Len(l) + 1), j \in 1..(Len(r) + 1), e \in 0..1 : q = <<i, j, e>>
  BY <1>4 DEF pointers
<1>8. ASSUME i <= Len(l), j <= Len(r)
      PROVE  /\ f[<<i + 1, j + 1, e>>] = g[<<i + 1, j + 1, e>>]
             /\ f[skip(l, r, i, j)] = g[skip(l, r, i, j)]
  <2>1. ASSUME NEW x \in {i, i + 1}, NEW y \in {j, j + 1}, NEW d \in 0..1, x + y > i + j
        PROVE  f[<<x, y, d>>] = g[<<x, y, d>>]
    <3>3. x \in 1..(Len(l) + 1) /\ y \in 1..(Len(r) + 1)
      BY <1>8
    <3>1. <<x, y, d>> \in pointers(l, r)
      BY <3>3 DEF pointers
    <3>2. todo(<<x, y, d>>) < todo(q)
      BY <1>7, <1>8, <2>1
    <3> HIDE DEF todo
    <3> QED BY <1>5, <3>1, <3>2
  <2>2. f[<<i + 1, j + 1, e>>] = g[<<i + 1, j + 1, e>>]
    <3> DEFINE x == i + 1
               y == j + 1
    <3>1. x \in {i, i + 1} /\ y \in {j, j + 1} /\ x + y > i + j
      OBVIOUS
    <3> HIDE DEF x, y
    <3>2. f[<<x, y, e>>] = g[<<x, y, e>>]
      BY <2>1, <3>1
    <3> QED BY <3>2 DEF x, y
  <2>3. f[skip(l, r, i, j)] = g[skip(l, r, i, j)]
    <3> DEFINE x == IF Len(l) >= Len(r) THEN i + 1 ELSE i
               y == IF Len(r) >= Len(l) THEN j + 1 ELSE j
    <3>1. x \in {i, i + 1} /\ y \in {j, j + 1} /\ x + y > i + j /\ 1 \in 0..1
      OBVIOUS
    <3>2. skip(l, r, i, j) = <<x, y, 1>>
      BY DEF skip
    <3> HIDE DEF x, y
    <3>3. f[<<x, y, 1>>] = g[<<x, y, 1>>]
      BY <2>1, <3>1
    <3> QED BY <3>2, <3>3
  <2> QED BY <2>2, <2>3
<1>9. Counted(l, r, f, q) = Counted(l, r, g, q)
  <2>1. q[1] = i /\ q[2] = j /\ q[3] = e
    BY <1>7
  <2>2. CASE i > Len(l) \/ j > Len(r)
    BY <2>1, <2>2 DEF Counted
  <2>3. CASE i <= Len(l) /\ j <= Len(r)
    BY <1>8, <2>1, <2>3 DEF Counted
  <2> QED BY <2>2, <2>3
<1> QED BY <1>4, <1>6, <1>9

\* within_one_edit is what Edits says it is.
LEMMA WithinCounts ==
    ASSUME NEW l, NEW r, Len(l) \in Nat, Len(r) \in Nat
    PROVE  within_one_edit(l, r) <=> /\ Len(l) <= Len(r) + 1 /\ Len(r) <= Len(l) + 1
                                     /\ Edits(l, r, 1, 1, 0) <= 1
<1> DEFINE rec(f) == [p \in pointers(l, r) |->
                        IF p[1] > Len(l) \/ p[2] > Len(r)
                          THEN IF p[1] <= Len(l) \/ p[2] <= Len(r) THEN p[3] + 1 ELSE p[3]
                        ELSE IF l[p[1]] = r[p[2]] THEN f[<<p[1] + 1, p[2] + 1, p[3]>>]
                        ELSE IF p[3] = 1 THEN 2
                        ELSE f[skip(l, r, p[1], p[2])]]
           u == CHOOSE f : f = rec(f)
           g == [p \in pointers(l, r) |-> Edits(l, r, p[1], p[2], p[3])]
<1>1. IsWalk(l, r, g)
  BY EditsWalk
<1>2. \A f : IsWalk(l, r, f) <=> f = rec(f)
  BY DEF IsWalk, Counted
<1>3. u = rec(u)
  <2> HIDE DEF rec, g
  <2> QED BY <1>1, <1>2
<1>4. within_one_edit(l, r) <=> /\ Len(l) <= Len(r) + 1 /\ Len(r) <= Len(l) + 1
                                /\ u[<<1, 1, 0>>] <= 1
  BY DEF within_one_edit
<1>5. IsWalk(l, r, u)
  <2> HIDE DEF rec, u
  <2> QED BY <1>2, <1>3
<1>6. <<1, 1, 0>> \in pointers(l, r)
  BY DEF pointers
<1>7. g[<<1, 1, 0>>] = Edits(l, r, 1, 1, 0)
  BY <1>6
<1> HIDE DEF u, g, rec
<1>8. u[<<1, 1, 0>>] = g[<<1, 1, 0>>]
  BY <1>1, <1>5, <1>6, WalksAgree
<1> QED BY <1>4, <1>7, <1>8

-----------------------------------------------------------------------------
(* The search: texts.                                                       *)

LEMMA TextBasics ==
    ASSUME NEW s \in Texts
    PROVE  /\ Len(s) \in Nat /\ DOMAIN s = 1..Len(s)
           /\ \A x \in 1..Len(s) : s[x] \in Chars
           /\ s # <<>> <=> Len(s) > 0
BY EmptySeq DEF Texts

LEMMA TextEqual ==
    ASSUME NEW s \in Texts, NEW t \in Texts, Len(s) = Len(t),
           \A x \in 1..Len(s) : s[x] = t[x]
    PROVE  s = t
<1>1. s \in Seq(Chars) /\ t \in Seq(Chars)
  BY DEF Texts
<1> HIDE DEF Chars
<1> QED BY <1>1, SeqEqual

LEMMA TextPart ==
    ASSUME NEW s \in Texts, NEW m \in Nat, NEW n \in Nat, m > 0, n <= Len(s), m <= n + 1
    PROVE  /\ SubSeq(s, m, n) \in Texts /\ Len(SubSeq(s, m, n)) = n - m + 1
           /\ \A x \in 1..(n - m + 1) : SubSeq(s, m, n)[x] = s[m + x - 1]
<1>1. \A x \in m..n : s[x] \in Chars
  BY TextBasics
<1>2. m \in Int /\ n \in Int
  OBVIOUS
<1>3. /\ SubSeq(s, m, n) \in Seq(Chars)
      /\ Len(SubSeq(s, m, n)) = IF m <= n THEN n - m + 1 ELSE 0
      /\ \A x \in 1..(n - m + 1) : SubSeq(s, m, n)[x] = s[m + x - 1]
  BY <1>1, <1>2, SubSeqProperties
<1> QED BY <1>3 DEF Texts

LEMMA TextConcat ==
    ASSUME NEW s \in Texts, NEW t \in Texts
    PROVE  /\ s \o t \in Texts /\ Len(s \o t) = Len(s) + Len(t)
           /\ \A x \in 1..(Len(s) + Len(t)) :
                 (s \o t)[x] = IF x <= Len(s) THEN s[x] ELSE t[x - Len(s)]
<1>1. s \in Seq(Chars) /\ t \in Seq(Chars)
  BY DEF Texts
<1> HIDE DEF Chars
<1>2. /\ s \o t \in Seq(Chars) /\ Len(s \o t) = Len(s) + Len(t)
      /\ \A x \in 1..(Len(s) + Len(t)) :
            (s \o t)[x] = IF x <= Len(s) THEN s[x] ELSE t[x - Len(s)]
  BY <1>1, ConcatProperties
<1> QED BY <1>2 DEF Texts

LEMMA TextAppend ==
    ASSUME NEW s \in Texts, NEW c \in Chars
    PROVE  /\ Append(s, c) \in Texts /\ Len(Append(s, c)) = Len(s) + 1
           /\ \A x \in 1..Len(s) : Append(s, c)[x] = s[x]
           /\ Append(s, c)[Len(s) + 1] = c
<1>1. s \in Seq(Chars)
  BY DEF Texts
<1> HIDE DEF Chars
<1> QED BY <1>1, AppendProperties DEF Texts

LEMMA TextRemove ==
    ASSUME NEW s \in Texts, NEW i \in 1..Len(s)
    PROVE  /\ RemoveAt(s, i) \in Texts /\ Len(RemoveAt(s, i)) = Len(s) - 1
           /\ \A x \in 1..(Len(s) - 1) : RemoveAt(s, i)[x] = IF x < i THEN s[x] ELSE s[x + 1]
<1> DEFINE a == SubSeq(s, 1, i - 1)
           b == SubSeq(s, i + 1, Len(s))
<1>1. Len(s) \in Nat
  BY TextBasics
<1>2. /\ a \in Texts /\ Len(a) = i - 1
      /\ \A x \in 1..(i - 1) : a[x] = s[x]
  <2> DEFINE m == i - 1
  <2>1. m \in Nat /\ m <= Len(s) /\ 1 <= m + 1 /\ m - 1 + 1 = m
    BY <1>1
  <2> HIDE DEF m
  <2>2. /\ SubSeq(s, 1, m) \in Texts /\ Len(SubSeq(s, 1, m)) = m - 1 + 1
        /\ \A x \in 1..(m - 1 + 1) : SubSeq(s, 1, m)[x] = s[1 + x - 1]
    BY <1>1, <2>1, TextPart
  <2>3. \A x \in 1..m : 1 + x - 1 = x
    BY <2>1
  <2>4. /\ SubSeq(s, 1, m) \in Texts /\ Len(SubSeq(s, 1, m)) = m
        /\ \A x \in 1..m : SubSeq(s, 1, m)[x] = s[x]
    BY <2>1, <2>2, <2>3
  <2> QED BY <2>4 DEF m
<1>3. /\ b \in Texts /\ Len(b) = Len(s) - i
      /\ \A x \in 1..(Len(s) - i) : b[x] = s[i + x]
  <2> DEFINE m == i + 1
  <2>1. m \in Nat /\ m > 0 /\ Len(s) <= Len(s) /\ m <= Len(s) + 1 /\ Len(s) - m + 1 = Len(s) - i
    BY <1>1
  <2>2. \A x \in 1..(Len(s) - i) : m + x - 1 = i + x
    BY <1>1
  <2> HIDE DEF m
  <2>3. /\ SubSeq(s, m, Len(s)) \in Texts /\ Len(SubSeq(s, m, Len(s))) = Len(s) - m + 1
        /\ \A x \in 1..(Len(s) - m + 1) : SubSeq(s, m, Len(s))[x] = s[m + x - 1]
    BY <1>1, <2>1, TextPart
  <2>4. /\ SubSeq(s, m, Len(s)) \in Texts /\ Len(SubSeq(s, m, Len(s))) = Len(s) - i
        /\ \A x \in 1..(Len(s) - i) : SubSeq(s, m, Len(s))[x] = s[i + x]
    BY <2>1, <2>2, <2>3
  <2> QED BY <2>4 DEF m
<1>4. RemoveAt(s, i) = a \o b
  BY DEF RemoveAt
<1> HIDE DEF a, b
<1>5. /\ a \o b \in Texts /\ Len(a \o b) = Len(a) + Len(b)
      /\ \A x \in 1..(Len(a) + Len(b)) :
            (a \o b)[x] = IF x <= Len(a) THEN a[x] ELSE b[x - Len(a)]
  BY <1>2, <1>3, TextConcat
<1>6. ASSUME NEW x \in 1..(Len(s) - 1)
      PROVE  (a \o b)[x] = IF x < i THEN s[x] ELSE s[x + 1]
  <2>1. (a \o b)[x] = IF x <= i - 1 THEN a[x] ELSE b[x - (i - 1)]
    BY <1>1, <1>2, <1>3, <1>5
  <2>2. CASE x < i
    BY <1>1, <1>2, <2>1, <2>2
  <2>3. CASE ~(x < i)
    <3>1. x - (i - 1) \in 1..(Len(s) - i) /\ i + (x - (i - 1)) = x + 1
      BY <1>1, <2>3
    <3>2. b[x - (i - 1)] = s[x + 1]
      BY <1>3, <3>1
    <3> QED BY <1>1, <2>1, <2>3, <3>2
  <2> QED BY <2>2, <2>3
<1>7. Len(a \o b) = Len(s) - 1
  BY <1>1, <1>2, <1>3, <1>5
<1> QED BY <1>4, <1>5, <1>6, <1>7

-----------------------------------------------------------------------------
(* The search: within_one_edit and one edit.                                *)

\* The first place where two words differ.
FirstDiff(l, r, x) ==
    /\ x \in 1..Len(l) /\ x <= Len(r) /\ l[x] # r[x]
    /\ \A y \in 1..(x - 1) : l[y] = r[y]

LEMMA DifferFirst ==
    ASSUME NEW l, NEW r, Len(l) \in Nat, Len(r) \in Nat, NEW x
    PROVE  x \in Differ(l, r, 1, 1) <=> FirstDiff(l, r, x)
<1>1. \A y \in 1..Len(l) : y - 1 + 1 = y
  OBVIOUS
<1>2. \A z \in 1..Len(l) : \A y \in 1..(z - 1) : y \in 1..Len(l)
  OBVIOUS
<1> QED BY <1>1, <1>2 DEF Differ, FirstDiff

LEMMA DifferSomewhere ==
    ASSUME NEW l, NEW r, Len(l) \in Nat, Len(r) \in Nat,
           NEW z \in 1..Len(l), z <= Len(r), l[z] # r[z]
    PROVE  \E x \in 1..Len(l) : FirstDiff(l, r, x)
<1> DEFINE T == {x \in 1..Len(l) : x <= Len(r) /\ l[x] # r[x]}
<1>1. T \in SUBSET Nat /\ T # {}
  OBVIOUS
<1>2. PICK x \in T : \A y \in T : x <= y
  <2> HIDE DEF T
  <2> QED BY <1>1, LeastNumber
<1>3. ASSUME NEW y \in 1..(x - 1) PROVE l[y] = r[y]
  <2>1. y \in 1..Len(l) /\ y <= Len(r) /\ ~(x <= y)
    OBVIOUS
  <2> QED BY <1>2, <2>1
<1> QED BY <1>3 DEF FirstDiff

LEMMA EditsFirst ==
    ASSUME NEW l, NEW r, Len(l) \in Nat, Len(r) \in Nat
    PROVE  Edits(l, r, 1, 1, 0) <= 1 <=>
              \A x \in 1..Len(l) : FirstDiff(l, r, x) => SameAfter(l, r, x, x)
<1>1. \A x \in Differ(l, r, 1, 1) : x - 1 + 1 = x /\ x \in 1..Len(l)
  BY DEF Differ
<1>2. \A x : x \in Differ(l, r, 1, 1) <=> FirstDiff(l, r, x)
  BY DifferFirst
<1>3. (\A x \in Differ(l, r, 1, 1) : SameAfter(l, r, x, x - 1 + 1))
         <=> \A x \in 1..Len(l) : FirstDiff(l, r, x) => SameAfter(l, r, x, x)
  BY <1>1, <1>2
<1> QED BY <1>3 DEF Edits

LEMMA AfterEqual ==
    ASSUME NEW l, NEW r, Len(l) \in Nat, Len(r) = Len(l), NEW x \in 1..Len(l)
    PROVE  SameAfter(l, r, x, x) <=> \A y \in (x + 1)..Len(l) : l[y] = r[y]
<1>1. \A y \in (x + 1)..Len(l) : y - (x + 1) + (x + 1) = y
  OBVIOUS
<1>2. SameAfter(l, r, x, x) <=> Same(l, r, x + 1, x + 1)
  BY DEF SameAfter
<1> QED BY <1>1, <1>2 DEF Same

LEMMA AfterLonger ==
    ASSUME NEW l, NEW r, Len(r) \in Nat, Len(l) = Len(r) + 1, NEW x \in 1..Len(l)
    PROVE  SameAfter(l, r, x, x) <=> \A y \in x..Len(r) : l[y + 1] = r[y]
<1>1. SameAfter(l, r, x, x) <=> Same(l, r, x + 1, x)
  BY DEF SameAfter
<1>2. ASSUME Same(l, r, x + 1, x), NEW y \in x..Len(r) PROVE l[y + 1] = r[y]
  <2>1. y + 1 \in (x + 1)..Len(l) /\ (y + 1) - (x + 1) + x = y
    OBVIOUS
  <2> QED BY <1>2, <2>1 DEF Same
<1>3. ASSUME \A y \in x..Len(r) : l[y + 1] = r[y] PROVE Same(l, r, x + 1, x)
  <2>1. ASSUME NEW y \in (x + 1)..Len(l) PROVE l[y] = r[y - (x + 1) + x]
    <3>1. y - 1 \in x..Len(r) /\ (y - 1) + 1 = y /\ y - (x + 1) + x = y - 1
      OBVIOUS
    <3> QED BY <1>3, <3>1
  <2> QED BY <2>1 DEF Same
<1> QED BY <1>1, <1>2, <1>3

LEMMA AfterShorter ==
    ASSUME NEW l, NEW r, Len(l) \in Nat, Len(r) = Len(l) + 1, NEW x \in 1..Len(l)
    PROVE  SameAfter(l, r, x, x) <=> \A y \in x..Len(l) : r[y + 1] = l[y]
<1>1. SameAfter(l, r, x, x) <=> Same(l, r, x, x + 1)
  BY DEF SameAfter
<1>2. \A y \in x..Len(l) : y - x + (x + 1) = y + 1
  OBVIOUS
<1> QED BY <1>1, <1>2 DEF Same

\* A word that is another without its character at i, read character by character.
LEMMA RemovedIs ==
    ASSUME NEW s \in Texts, NEW t \in Texts, NEW i \in 1..Len(s)
    PROVE  RemoveAt(s, i) = t <=>
              /\ Len(s) = Len(t) + 1
              /\ \A y \in 1..(i - 1) : s[y] = t[y]
              /\ \A y \in i..Len(t) : s[y + 1] = t[y]
<1>1. Len(s) \in Nat /\ Len(t) \in Nat
  BY TextBasics
<1>2. /\ RemoveAt(s, i) \in Texts /\ Len(RemoveAt(s, i)) = Len(s) - 1
      /\ \A x \in 1..(Len(s) - 1) : RemoveAt(s, i)[x] = IF x < i THEN s[x] ELSE s[x + 1]
  BY TextRemove
<1>3. ASSUME RemoveAt(s, i) = t
      PROVE  /\ Len(s) = Len(t) + 1
             /\ \A y \in 1..(i - 1) : s[y] = t[y]
             /\ \A y \in i..Len(t) : s[y + 1] = t[y]
  BY <1>1, <1>2, <1>3
<1>4. ASSUME Len(s) = Len(t) + 1, \A y \in 1..(i - 1) : s[y] = t[y],
             \A y \in i..Len(t) : s[y + 1] = t[y]
      PROVE  RemoveAt(s, i) = t
  <2>1. ASSUME NEW x \in 1..Len(RemoveAt(s, i)) PROVE RemoveAt(s, i)[x] = t[x]
    BY <1>1, <1>2, <1>4
  <2>2. Len(RemoveAt(s, i)) = Len(t)
    BY <1>1, <1>2, <1>4
  <2> QED BY <1>2, <2>1, <2>2, TextEqual
<1> QED BY <1>3, <1>4

LEMMA RemovedBoth ==
    ASSUME NEW s \in Texts, NEW t \in Texts, Len(s) = Len(t), NEW i \in 1..Len(s)
    PROVE  RemoveAt(s, i) = RemoveAt(t, i) <=> \A y \in 1..Len(s) : y # i => s[y] = t[y]
<1>1. Len(s) \in Nat /\ Len(t) \in Nat /\ i \in 1..Len(t)
  BY TextBasics
<1>2. /\ RemoveAt(s, i) \in Texts /\ Len(RemoveAt(s, i)) = Len(s) - 1
      /\ \A x \in 1..(Len(s) - 1) : RemoveAt(s, i)[x] = IF x < i THEN s[x] ELSE s[x + 1]
  BY TextRemove
<1>3. /\ RemoveAt(t, i) \in Texts /\ Len(RemoveAt(t, i)) = Len(t) - 1
      /\ \A x \in 1..(Len(t) - 1) : RemoveAt(t, i)[x] = IF x < i THEN t[x] ELSE t[x + 1]
  BY <1>1, TextRemove
<1>4. ASSUME RemoveAt(s, i) = RemoveAt(t, i), NEW y \in 1..Len(s), y # i PROVE s[y] = t[y]
  <2>1. CASE y < i
    <3>1. y \in 1..(Len(s) - 1)
      BY <1>1, <2>1
    <3> QED BY <1>2, <1>3, <1>4, <2>1, <3>1
  <2>2. CASE y > i
    <3>1. y - 1 \in 1..(Len(s) - 1) /\ ~(y - 1 < i) /\ (y - 1) + 1 = y
      BY <1>1, <2>2
    <3> QED BY <1>2, <1>3, <1>4, <3>1
  <2> QED BY <1>4, <2>1, <2>2
<1>5. ASSUME \A y \in 1..Len(s) : y # i => s[y] = t[y] PROVE RemoveAt(s, i) = RemoveAt(t, i)
  <2>1. ASSUME NEW x \in 1..(Len(s) - 1) PROVE RemoveAt(s, i)[x] = RemoveAt(t, i)[x]
    <3>1. x \in 1..Len(s) /\ x + 1 \in 1..Len(s)
      BY <1>1
    <3> QED BY <1>2, <1>3, <1>5, <3>1
  <2>2. \A x \in 1..Len(RemoveAt(s, i)) : RemoveAt(s, i)[x] = RemoveAt(t, i)[x]
    BY <1>2, <2>1
  <2>3. Len(RemoveAt(s, i)) = Len(RemoveAt(t, i))
    BY <1>2, <1>3
  <2> QED BY <1>2, <1>3, <2>2, <2>3, TextEqual
<1> QED BY <1>4, <1>5

LEMMA WithinIsOneEdit ==
    ASSUME NEW l \in Texts, NEW r \in Texts, within_one_edit(l, r)
    PROVE  OneEdit(l, r)
<1>1. Len(l) \in Nat /\ Len(r) \in Nat /\ DOMAIN l = 1..Len(l) /\ DOMAIN r = 1..Len(r)
  BY TextBasics
<1>2. /\ Len(l) <= Len(r) + 1 /\ Len(r) <= Len(l) + 1
      /\ \A x \in 1..Len(l) : FirstDiff(l, r, x) => SameAfter(l, r, x, x)
  BY <1>1, WithinCounts, EditsFirst
<1>5. Len(l) = Len(r) \/ Len(l) = Len(r) + 1 \/ Len(r) = Len(l) + 1
  <2>1. Len(l) <= Len(r) + 1 /\ Len(r) <= Len(l) + 1
    BY <1>2
  <2>2. Len(l) \in Nat /\ Len(r) \in Nat
    BY <1>1
  <2> QED BY <2>1, <2>2
<1>3. CASE \E x \in 1..Len(l) : FirstDiff(l, r, x)
  <2>1. PICK x \in 1..Len(l) : FirstDiff(l, r, x)
    BY <1>3
  <2>2. SameAfter(l, r, x, x) /\ x <= Len(r) /\ \A y \in 1..(x - 1) : l[y] = r[y]
    BY <1>2, <2>1 DEF FirstDiff
  <2>3. CASE Len(l) = Len(r)
    <3>1. \A y \in (x + 1)..Len(l) : l[y] = r[y]
      BY <1>1, <2>2, <2>3, AfterEqual
    <3>2. \A y \in 1..Len(l) : y # x => l[y] = r[y]
      BY <1>1, <2>2, <3>1
    <3>3. RemoveAt(l, x) = RemoveAt(r, x)
      BY <2>3, <3>2, RemovedBoth
    <3> QED BY <1>1, <2>3, <3>3 DEF OneEdit
  <2>4. CASE Len(l) = Len(r) + 1
    <3>1. \A y \in x..Len(r) : l[y + 1] = r[y]
      BY <1>1, <2>2, <2>4, AfterLonger
    <3>2. RemoveAt(l, x) = r
      BY <2>2, <2>4, <3>1, RemovedIs
    <3> QED BY <1>1, <3>2 DEF OneEdit
  <2>5. CASE Len(r) = Len(l) + 1
    <3>1. \A y \in x..Len(l) : r[y + 1] = l[y]
      BY <1>1, <2>2, <2>5, AfterShorter
    <3>2. \A y \in 1..(x - 1) : r[y] = l[y]
      BY <2>2
    <3>3. x \in 1..Len(r)
      BY <1>1, <2>2
    <3>4. RemoveAt(r, x) = l
      BY <2>5, <3>1, <3>2, <3>3, RemovedIs
    <3> QED BY <1>1, <3>3, <3>4 DEF OneEdit
  <2> QED BY <1>5, <2>3, <2>4, <2>5
<1>4. CASE ~\E x \in 1..Len(l) : FirstDiff(l, r, x)
  <2>1. \A x \in 1..Len(l) : x <= Len(r) => l[x] = r[x]
    BY <1>1, <1>4, DifferSomewhere
  <2>2. CASE Len(l) = Len(r)
    <3>1. \A x \in 1..Len(l) : l[x] = r[x]
      BY <1>1, <2>1, <2>2
    <3> QED BY <2>2, <3>1, TextEqual DEF OneEdit
  <2>3. CASE Len(l) = Len(r) + 1
    <3> DEFINE i == Len(l)
    <3>1. /\ i \in 1..Len(l) /\ \A y \in 1..(i - 1) : l[y] = r[y]
          /\ \A y \in i..Len(r) : l[y + 1] = r[y]
      BY <1>1, <2>1, <2>3
    <3> HIDE DEF i
    <3>2. RemoveAt(l, i) = r
      BY <2>3, <3>1, RemovedIs
    <3> QED BY <1>1, <3>1, <3>2 DEF OneEdit
  <2>4. CASE Len(r) = Len(l) + 1
    <3> DEFINE i == Len(r)
    <3>1. /\ i \in 1..Len(r) /\ \A y \in 1..(i - 1) : r[y] = l[y]
          /\ \A y \in i..Len(l) : r[y + 1] = l[y]
      BY <1>1, <2>1, <2>4
    <3> HIDE DEF i
    <3>2. RemoveAt(r, i) = l
      BY <2>4, <3>1, RemovedIs
    <3> QED BY <1>1, <3>1, <3>2 DEF OneEdit
  <2> QED BY <1>5, <2>2, <2>3, <2>4
<1> QED BY <1>3, <1>4

LEMMA OneEditIsWithin ==
    ASSUME NEW l \in Texts, NEW r \in Texts, OneEdit(l, r)
    PROVE  within_one_edit(l, r)
<1>1. Len(l) \in Nat /\ Len(r) \in Nat /\ DOMAIN l = 1..Len(l) /\ DOMAIN r = 1..Len(r)
  BY TextBasics
<1> SUFFICES /\ Len(l) <= Len(r) + 1 /\ Len(r) <= Len(l) + 1
             /\ \A x \in 1..Len(l) : FirstDiff(l, r, x) => SameAfter(l, r, x, x)
  BY <1>1, WithinCounts, EditsFirst
<1>2. CASE l = r
  BY <1>1, <1>2 DEF FirstDiff
<1>3. CASE \E i \in DOMAIN l : RemoveAt(l, i) = r
  <2>1. PICK i \in 1..Len(l) : RemoveAt(l, i) = r
    BY <1>1, <1>3
  <2>2. /\ Len(l) = Len(r) + 1
        /\ \A y \in 1..(i - 1) : l[y] = r[y]
        /\ \A y \in i..Len(r) : l[y + 1] = r[y]
    BY <2>1, RemovedIs
  <2>3. ASSUME NEW x \in 1..Len(l), FirstDiff(l, r, x) PROVE SameAfter(l, r, x, x)
    <3>1. x >= i
      BY <2>2, <2>3 DEF FirstDiff
    <3>2. \A y \in x..Len(r) : l[y + 1] = r[y]
      BY <1>1, <2>2, <3>1
    <3> QED BY <1>1, <2>2, <3>2, AfterLonger
  <2> QED BY <1>1, <2>2, <2>3
<1>4. CASE \E i \in DOMAIN r : RemoveAt(r, i) = l
  <2>1. PICK i \in 1..Len(r) : RemoveAt(r, i) = l
    BY <1>1, <1>4
  <2>2. /\ Len(r) = Len(l) + 1
        /\ \A y \in 1..(i - 1) : r[y] = l[y]
        /\ \A y \in i..Len(l) : r[y + 1] = l[y]
    BY <2>1, RemovedIs
  <2>3. ASSUME NEW x \in 1..Len(l), FirstDiff(l, r, x) PROVE SameAfter(l, r, x, x)
    <3>1. x >= i
      BY <2>2, <2>3 DEF FirstDiff
    <3>2. \A y \in x..Len(l) : r[y + 1] = l[y]
      BY <1>1, <2>2, <3>1
    <3> QED BY <1>1, <2>2, <3>2, AfterShorter
  <2> QED BY <1>1, <2>2, <2>3
<1>5. CASE Len(l) = Len(r) /\ \E i \in DOMAIN l : RemoveAt(l, i) = RemoveAt(r, i)
  <2>1. PICK i \in 1..Len(l) : RemoveAt(l, i) = RemoveAt(r, i)
    BY <1>1, <1>5
  <2>2. \A y \in 1..Len(l) : y # i => l[y] = r[y]
    BY <1>5, <2>1, RemovedBoth
  <2>3. ASSUME NEW x \in 1..Len(l), FirstDiff(l, r, x) PROVE SameAfter(l, r, x, x)
    <3>1. x = i
      BY <2>2, <2>3 DEF FirstDiff
    <3>2. \A y \in (x + 1)..Len(l) : l[y] = r[y]
      BY <1>1, <2>2, <3>1
    <3> QED BY <1>1, <1>5, <3>2, AfterEqual
  <2> QED BY <1>1, <1>5, <2>3
<1> QED BY <1>2, <1>3, <1>4, <1>5 DEF OneEdit

-----------------------------------------------------------------------------
(* The search: normalize_search_text.                                       *)

Mapped == {"a", "b", " ", ""}

EndsBlank(s) == s = <<>> \/ s[Len(s)] = " "

LEMMA NoText == <<>> \in Texts /\ Len(<<>>) = 0
BY EmptySeq DEF Texts

LEMMA MappedType ==
    ASSUME NEW c \in Chars
    PROVE  mapped(c) \in Mapped /\ (c = " " => mapped(c) = " ") /\ (c \in {"a", "b"} => mapped(c) = c)
BY DEF Chars, mapped, Mapped

LEMMA MappedChars ==
    ASSUME NEW c \in Mapped, c # "" PROVE c \in Chars
BY DEF Mapped, Chars

LEMMA PushType ==
    ASSUME NEW s \in Texts, NEW c \in Mapped
    PROVE  /\ push(s, c) \in Texts
           /\ Len(s) <= Len(push(s, c))
           /\ \A x \in 1..Len(s) : push(s, c)[x] = s[x]
           /\ c = " " => EndsBlank(push(s, c))
<1> DEFINE stays == c = "" \/ (c = " " /\ EndsBlank(s))
<1>1. Len(s) \in Nat
  BY TextBasics
<1>2. CASE stays
  <2>1. push(s, c) = s
    BY <1>2 DEF push, EndsBlank
  <2>2. c = " " => EndsBlank(s)
    BY <1>2
  <2>3. Len(s) <= Len(s)
    BY <1>1
  <2> QED BY <2>1, <2>2, <2>3
<1>3. CASE ~stays
  <2> DEFINE r == Append(s, c)
  <2>1. push(s, c) = r
    BY <1>3 DEF push, EndsBlank
  <2>2. c \in Chars
    BY <1>3, MappedChars
  <2>3. /\ r \in Texts /\ Len(r) = Len(s) + 1
        /\ \A x \in 1..Len(s) : r[x] = s[x]
        /\ r[Len(s) + 1] = c
    BY <2>2, TextAppend
  <2> HIDE DEF r
  <2>4. Len(s) <= Len(r)
    BY <1>1, <2>3
  <2>5. c = " " => EndsBlank(r)
    BY <2>3 DEF EndsBlank
  <2> QED BY <2>1, <2>3, <2>4, <2>5
<1> QED BY <1>2, <1>3

\* What normalize_search_text has after each character of s.
Normalizing(s, u) ==
    /\ u \in [0..Len(s) -> Texts] /\ u[0] = <<>>
    /\ \A k \in 1..Len(s) : u[k] = push(u[k - 1], mapped(s[k]))

LEMMA NormalizingExists ==
    ASSUME NEW s \in Texts
    PROVE  \E u : Normalizing(s, u) /\ normalize_search_text(s) = trim(u[Len(s)])
<1> DEFINE n == Len(s)
           base == <<>>
           step == [x \in Texts \X (1..n) |-> push(x[1], mapped(s[x[2]]))]
           rec(v) == [i \in 0..Len(s) |->
                        IF i = 0 THEN <<>> ELSE push(v[i - 1], mapped(s[i]))]
           u == CHOOSE v : v = rec(v)
<1>1. n \in Nat /\ base \in Texts
  BY TextBasics, NoText
<1>2. \A t \in Texts, k \in 1..n : push(t, mapped(s[k])) \in Texts
  <2> SUFFICES ASSUME NEW t \in Texts, NEW k \in 1..n PROVE push(t, mapped(s[k])) \in Texts
    OBVIOUS
  <2>1. s[k] \in Chars
    BY TextBasics
  <2> DEFINE c == mapped(s[k])
  <2>2. c \in Mapped
    BY <2>1, MappedType
  <2> HIDE DEF c
  <2>3. push(t, c) \in Texts
    BY <2>2, PushType
  <2> QED BY <2>3 DEF c
<1>3. step \in Steps(Texts, n)
  BY <1>2 DEF Steps
<1>4. PICK a : a \in Runs(Texts, n, base, step)
  <2> HIDE DEF n, base, step, rec, u
  <2> QED BY <1>1, <1>3, RecursionExists
<1>5. ASSUME NEW k \in 1..n PROVE a[k] = push(a[k - 1], mapped(s[k]))
  <2>1. a[k - 1] \in Texts
    BY <1>1, <1>4 DEF Runs
  <2> HIDE DEF n
  <2> QED BY <1>4, <2>1 DEF Runs
<1>6. a = rec(a)
  BY <1>4, <1>5 DEF Runs
<1>7. u = rec(u)
  BY <1>6
<1>8. normalize_search_text(s) = trim(u[Len(s)])
  BY DEF normalize_search_text
<1> HIDE DEF u
<1>9. u[0] = base /\ \A k \in 1..n : u[k] = push(u[k - 1], mapped(s[k]))
  BY <1>1, <1>7
<1>10. u \in [0..n -> Texts]
  <2> DEFINE G == {k \in 0..n : u[k] \in Texts}
  <2>1. 0 \in G /\ \A k \in 1..n : k - 1 \in G => k \in G
    BY <1>1, <1>2, <1>9
  <2> HIDE DEF G, n
  <2>2. \A k \in 0..n : k \in G
    BY <1>1, <2>1, UpTo
  <2>3. \A k \in 0..n : u[k] \in Texts
    BY <2>2 DEF G
  <2> QED BY <1>7, <2>3 DEF n
<1>11. Normalizing(s, u)
  BY <1>9, <1>10 DEF Normalizing
<1> QED BY <1>8, <1>11

\* What has been written stays.
LEMMA NormalizingGrows ==
    ASSUME NEW s \in Texts, NEW u, Normalizing(s, u), NEW i \in 0..Len(s)
    PROVE  /\ Len(u[i]) <= Len(u[Len(s)])
           /\ \A x \in 1..Len(u[i]) : u[Len(s)][x] = u[i][x]
<1> DEFINE Kept(k) == /\ Len(u[i]) <= Len(u[k])
                    /\ \A x \in 1..Len(u[i]) : u[k][x] = u[i][x]
           n == Len(s) - i
           G == {d \in 0..n : Kept(i + d)}
<1>1. Len(s) \in Nat /\ n \in Nat
  BY TextBasics
<1>2. \A k \in 0..Len(s) : u[k] \in Texts /\ Len(u[k]) \in Nat
  BY TextBasics DEF Normalizing
<1>3. 0 \in G
  BY <1>1, <1>2
<1>4. ASSUME NEW d \in 1..n, d - 1 \in G PROVE d \in G
  <2> DEFINE k == i + d
             t == u[k - 1]
             c == mapped(s[k])
  <2>1. k \in 1..Len(s) /\ k - 1 \in 0..Len(s) /\ k - 1 = i + (d - 1)
    BY <1>1
  <2>2. Kept(k - 1)
    BY <1>4, <2>1
  <2>3. u[k] = push(t, c)
    BY <2>1 DEF Normalizing
  <2>4. t \in Texts /\ c \in Mapped
    BY <1>2, <2>1, TextBasics, MappedType
  <2>5. u[k - 1] = t
    OBVIOUS
  <2> HIDE DEF t, c, k
  <2>6. Len(t) <= Len(push(t, c)) /\ \A x \in 1..Len(t) : push(t, c)[x] = t[x]
    BY <2>4, PushType
  <2>7. Len(t) \in Nat /\ Len(u[k]) \in Nat /\ Len(u[i]) \in Nat
    BY <1>2, <2>1, <2>5
  <2>8. Kept(k)
    BY <2>2, <2>3, <2>5, <2>6, <2>7
  <2> QED BY <2>8 DEF k
<1>5. \A d \in 0..n : d \in G
  <2>1. \A d \in 1..n : d - 1 \in G => d \in G
    BY <1>4
  <2> HIDE DEF G, n
  <2> QED BY <1>1, <1>3, <2>1, UpTo
<1>6. n \in 0..n /\ i + n = Len(s)
  BY <1>1
<1>7. Kept(i + n)
  BY <1>5, <1>6
<1> QED BY <1>6, <1>7

\* Where a word may begin, a text goes on as it would from nothing.
LEMMA PushAfter ==
    ASSUME NEW s \in Texts, NEW t \in Texts, EndsBlank(s), NEW c \in Mapped
    PROVE  push(s \o t, c) = s \o push(t, c)
<1> DEFINE st == s \o t
<1>1. Len(s) \in Nat /\ Len(t) \in Nat
  BY TextBasics
<1>2. /\ st \in Texts /\ Len(st) = Len(s) + Len(t)
      /\ \A x \in 1..(Len(s) + Len(t)) : st[x] = IF x <= Len(s) THEN s[x] ELSE t[x - Len(s)]
  BY TextConcat
<1>3. EndsBlank(st) <=> EndsBlank(t)
  <2>1. CASE Len(t) = 0
    <3>1. t = <<>>
      BY <2>1, TextBasics
    <3>2. CASE Len(s) = 0
      <4>1. Len(st) = 0
        BY <1>2, <2>1, <3>2
      <4>2. st = <<>>
        BY <1>2, <4>1, TextBasics
      <4> QED BY <3>1, <4>2 DEF EndsBlank
    <3>3. CASE Len(s) > 0
      <4>1. s[Len(s)] = " "
        BY <1>1, <3>3, TextBasics DEF EndsBlank
      <4>2. st[Len(st)] = s[Len(s)]
        BY <1>1, <1>2, <2>1, <3>3
      <4> QED BY <3>1, <4>1, <4>2 DEF EndsBlank
    <3> QED BY <1>1, <3>2, <3>3
  <2>2. CASE Len(t) > 0
    <3>1. t # <<>> /\ st # <<>>
      BY <1>1, <1>2, <2>2, TextBasics
    <3>2. st[Len(st)] = t[Len(t)]
      <4>1. Len(st) \in 1..(Len(s) + Len(t)) /\ ~(Len(st) <= Len(s)) /\ Len(st) - Len(s) = Len(t)
        BY <1>1, <1>2, <2>2
      <4> QED BY <1>2, <4>1
    <3> QED BY <3>1, <3>2 DEF EndsBlank
  <2> QED BY <1>1, <2>1, <2>2
<1> HIDE DEF st
<1>4. CASE c = "" \/ (c = " " /\ EndsBlank(t))
  <2>1. push(st, c) = st /\ push(t, c) = t
    BY <1>3, <1>4 DEF push, EndsBlank
  <2> QED BY <2>1 DEF st
<1>5. CASE ~(c = "" \/ (c = " " /\ EndsBlank(t)))
  <2> DEFINE a == Append(st, c)
             b == Append(t, c)
             sb == s \o b
  <2>1. push(st, c) = a /\ push(t, c) = b
    BY <1>3, <1>5 DEF push, EndsBlank
  <2>2. c \in Chars
    BY <1>5, MappedChars
  <2>3. /\ a \in Texts /\ Len(a) = Len(st) + 1
        /\ \A x \in 1..Len(st) : a[x] = st[x]
        /\ a[Len(st) + 1] = c
    BY <1>2, <2>2, TextAppend
  <2>4. /\ b \in Texts /\ Len(b) = Len(t) + 1
        /\ \A x \in 1..Len(t) : b[x] = t[x]
        /\ b[Len(t) + 1] = c
    BY <2>2, TextAppend
  <2> HIDE DEF a, b
  <2>5. /\ sb \in Texts /\ Len(sb) = Len(s) + Len(b)
        /\ \A x \in 1..(Len(s) + Len(b)) : sb[x] = IF x <= Len(s) THEN s[x] ELSE b[x - Len(s)]
    BY <2>4, TextConcat
  <2> HIDE DEF sb
  <2>6. Len(a) = Len(sb)
    BY <1>1, <1>2, <2>3, <2>4, <2>5
  <2>7. ASSUME NEW x \in 1..Len(a) PROVE a[x] = sb[x]
    <3>1. x \in 1..(Len(s) + Len(t) + 1) /\ x \in 1..(Len(s) + Len(b))
      BY <1>1, <1>2, <2>3, <2>4
    <3>2. CASE x <= Len(s)
      BY <1>1, <1>2, <2>3, <2>5, <3>1, <3>2
    <3>3. CASE x > Len(s) /\ x <= Len(s) + Len(t)
      <4>1. x - Len(s) \in 1..Len(t)
        BY <1>1, <3>1, <3>3
      <4>2. a[x] = t[x - Len(s)]
        BY <1>1, <1>2, <2>3, <3>1, <3>3
      <4>3. sb[x] = b[x - Len(s)]
        BY <1>1, <2>5, <3>1, <3>3
      <4> QED BY <2>4, <4>1, <4>2, <4>3
    <3>4. CASE x = Len(s) + Len(t) + 1
      <4>1. x - Len(s) = Len(t) + 1 /\ x = Len(st) + 1 /\ ~(x <= Len(s))
        BY <1>1, <1>2, <3>4
      <4> QED BY <2>3, <2>4, <2>5, <3>1, <4>1
    <3> QED BY <1>1, <3>1, <3>2, <3>3, <3>4
  <2>8. a = sb
    BY <2>3, <2>5, <2>6, <2>7, TextEqual
  <2> QED BY <2>1, <2>8 DEF st, sb
<1> QED BY <1>4, <1>5

\* w stands in s after the first m characters.
PartOf(w, s, m) ==
    m \in Nat /\ m + Len(w) <= Len(s) /\ \A x \in 1..Len(w) : w[x] = s[m + x]

LEMMA OneLess ==
    ASSUME NEW n \in Nat, NEW m \in 1..n PROVE m - 1 \in 0..n
OBVIOUS

LEMMA BlankBefore ==
    ASSUME NEW s \in Texts, NEW m \in 1..Len(s), s[m] = " ", NEW u, Normalizing(s, u)
    PROVE  EndsBlank(u[m])
<1> DEFINE t == u[m - 1]
           c == mapped(s[m])
<1>1. Len(s) \in Nat /\ s[m] \in Chars
  BY TextBasics
<1>2. m - 1 \in 0..Len(s)
  <2>1. Len(s) \in Nat
    BY <1>1
  <2> QED BY <2>1, OneLess, Zenon
<1>3. t \in Texts /\ u[m] = push(t, c)
  BY <1>2 DEF Normalizing
<1>4. c = " " /\ c \in Mapped
  <2> DEFINE d == s[m]
  <2>1. d \in Chars /\ d = " " /\ c = mapped(d)
    BY <1>1
  <2> HIDE DEF d, c
  <2> QED BY <2>1, MappedType
<1> HIDE DEF t, c
<1>5. EndsBlank(push(t, c))
  BY <1>3, <1>4, PushType
<1> QED BY <1>3, <1>5

\* From m on, u is v after what it was at m.
Continues(u, v, m, n) == \A k \in 0..n : u[m + k] = u[m] \o v[k]

\* A word is normalized inside a text as it is alone.
LEMMA WordNormalizing ==
    ASSUME NEW s \in Texts, NEW w \in Texts, NEW m \in Nat, PartOf(w, s, m),
           NEW u, Normalizing(s, u), NEW v, Normalizing(w, v), EndsBlank(u[m])
    PROVE  Continues(u, v, m, Len(w))
<1> DEFINE X == u[m]
           n == Len(w)
           G == {k \in 0..n : u[m + k] = X \o v[k]}
<1>1. Len(s) \in Nat /\ n \in Nat
  BY TextBasics
<1>2. m + n <= Len(s)
  BY DEF PartOf
<1>3. \A k \in 0..Len(s) : u[k] \in Texts
  BY DEF Normalizing
<1>4. \A k \in 0..n : v[k] \in Texts
  BY DEF Normalizing
<1>5. X \in Texts
  <2>1. m \in 0..Len(s)
    BY <1>1, <1>2
  <2> QED BY <1>3, <2>1
<1>6. 0 \in G
  <2>1. v[0] = <<>>
    BY DEF Normalizing
  <2>2. m + 0 = m /\ 0 \in 0..n
    BY <1>1
  <2>3. X \in Seq(Chars)
    BY <1>5 DEF Texts
  <2>4. X \o <<>> = X
    <3> HIDE DEF X, Chars
    <3> QED BY <2>3, ConcatEmptySeq
  <2>5. u[m + 0] = X \o v[0]
    BY <2>1, <2>2, <2>4
  <2> QED BY <2>2, <2>5
<1>7. ASSUME NEW k \in 1..n, k - 1 \in G PROVE k \in G
  <2> DEFINE j == m + k
             t == v[k - 1]
             c == mapped(w[k])
  <2>1. j \in 1..Len(s) /\ j - 1 = m + (k - 1) /\ k - 1 \in 0..n
    BY <1>1, <1>2
  <2>2. u[j] = push(u[j - 1], mapped(s[j]))
    BY <2>1 DEF Normalizing
  <2>3. v[k] = push(t, c)
    BY DEF Normalizing
  <2>4. s[j] = w[k]
    BY DEF PartOf
  <2>5. u[m + (k - 1)] = X \o t
    BY <1>7
  <2>6. t \in Texts
    BY <1>4, <2>1
  <2>7. c \in Mapped
    BY TextBasics, MappedType
  <2>8. c = mapped(s[j])
    BY <2>4
  <2> HIDE DEF X, t, c
  <2>9. push(X \o t, c) = X \o push(t, c)
    BY <1>5, <2>6, <2>7, PushAfter DEF X
  <2> HIDE DEF j
  <2>10. u[j] = X \o v[k]
    BY <2>1, <2>2, <2>3, <2>5, <2>8, <2>9
  <2>11. k \in 0..n
    OBVIOUS
  <2> QED BY <2>10, <2>11 DEF j
<1>8. \A k \in 0..n : k \in G
  <2>1. \A k \in 1..n : k - 1 \in G => k \in G
    BY <1>7
  <2> HIDE DEF G, n
  <2> QED BY <1>1, <1>6, <2>1, UpTo
<1> QED BY <1>8 DEF Continues

LEMMA TrimType ==
    ASSUME NEW t \in Texts
    PROVE  /\ trim(t) \in Texts
           /\ Len(trim(t)) = IF Len(t) > 0 /\ t[Len(t)] = " " THEN Len(t) - 1 ELSE Len(t)
           /\ \A x \in 1..Len(trim(t)) : trim(t)[x] = t[x]
<1>1. Len(t) \in Nat /\ (t # <<>> <=> Len(t) > 0)
  BY TextBasics
<1>2. CASE Len(t) > 0 /\ t[Len(t)] = " "
  <2> DEFINE n == Len(t) - 1
             r == SubSeq(t, 1, n)
  <2>1. trim(t) = r
    BY <1>1, <1>2 DEF trim
  <2>2. n \in Nat /\ n <= Len(t) /\ 1 <= n + 1 /\ n - 1 + 1 = n
    <3>1. Len(t) \in Nat
      BY <1>1
    <3>2. Len(t) > 0
      BY <1>2
    <3> QED BY <3>1, <3>2
  <2>3. n = Len(t) - 1
    OBVIOUS
  <2> HIDE DEF n
  <2>4. /\ r \in Texts /\ Len(r) = n - 1 + 1
        /\ \A x \in 1..(n - 1 + 1) : r[x] = t[1 + x - 1]
    BY <2>2, TextPart
  <2>5. \A x \in 1..n : 1 + x - 1 = x
    BY <2>2
  <2> HIDE DEF r
  <2>6. Len(r) = n /\ \A x \in 1..n : r[x] = t[x]
    BY <2>2, <2>4, <2>5
  <2> QED BY <1>2, <2>1, <2>3, <2>4, <2>6
<1>3. CASE ~(Len(t) > 0 /\ t[Len(t)] = " ")
  <2>1. trim(t) = t
    BY <1>1, <1>3 DEF trim
  <2> QED BY <1>3, <2>1
<1> QED BY <1>2, <1>3

LEMMA ContainsAt ==
    ASSUME NEW h \in Texts, NEW t \in Texts, NEW k \in Nat, PartOf(t, h, k)
    PROVE  contains(h, t)
<1> DEFINE a == k + 1
           b == k + Len(t)
           r == SubSeq(h, a, b)
<1>1. Len(h) \in Nat /\ Len(t) \in Nat
  BY TextBasics
<1>2. k + Len(t) <= Len(h)
  BY DEF PartOf
<1>3. a \in Nat /\ b \in Nat /\ a > 0 /\ b <= Len(h) /\ a <= b + 1 /\ b - a + 1 = Len(t)
  BY <1>1, <1>2
<1>4. \A x \in 1..Len(t) : a + x - 1 = k + x
  BY <1>1
<1> HIDE DEF a, b
<1>5. /\ r \in Texts /\ Len(r) = b - a + 1
      /\ \A x \in 1..(b - a + 1) : r[x] = h[a + x - 1]
  BY <1>3, TextPart
<1> HIDE DEF r
<1>6. Len(r) = Len(t) /\ \A x \in 1..Len(r) : r[x] = t[x]
  BY <1>3, <1>4, <1>5 DEF PartOf
<1>7. r = t
  BY <1>5, <1>6, TextEqual
<1>8. k \in 0..(Len(h) - Len(t))
  BY <1>1, <1>2
<1> QED BY <1>7, <1>8 DEF contains, r, a, b

\* A part of a text, trimmed, is in the trimmed text.
LEMMA TrimContains ==
    ASSUME NEW t \in Texts, NEW h \in Texts, NEW k \in Nat, PartOf(t, h, k), trim(t) # <<>>
    PROVE  contains(trim(h), trim(t))
<1> DEFINE r == trim(t)
           g == trim(h)
           blank(s) == Len(s) > 0 /\ s[Len(s)] = " "
<1>1. Len(t) \in Nat /\ Len(h) \in Nat
  BY TextBasics
<1>2. k + Len(t) <= Len(h) /\ \A x \in 1..Len(t) : h[k + x] = t[x]
  BY DEF PartOf
<1>3. r \in Texts /\ Len(r) = (IF blank(t) THEN Len(t) - 1 ELSE Len(t))
  BY TrimType
<1>4. g \in Texts /\ Len(g) = (IF blank(h) THEN Len(h) - 1 ELSE Len(h))
  BY TrimType
<1>5. \A x \in 1..Len(r) : r[x] = t[x]
  BY TrimType
<1>6. \A x \in 1..Len(g) : g[x] = h[x]
  BY TrimType
<1>7. r # <<>>
  OBVIOUS
<1> HIDE DEF r, g
<1>8. Len(r) \in Nat /\ Len(r) > 0 /\ Len(g) \in Nat
  BY <1>3, <1>4, <1>7, TextBasics
<1>9. k + Len(t) = Len(h) => (blank(t) <=> blank(h))
  <2> SUFFICES ASSUME k + Len(t) = Len(h) PROVE blank(t) <=> blank(h)
    OBVIOUS
  <2>1. Len(t) > 0
    <3> HIDE DEF blank
    <3> QED BY <1>1, <1>3, <1>8
  <2>2. Len(t) \in 1..Len(t) /\ Len(h) > 0
    BY <1>1, <2>1
  <2>3. h[Len(h)] = t[Len(t)]
    BY <1>2, <2>2
  <2> QED BY <2>1, <2>2, <2>3
<1>10. k + Len(r) <= Len(g)
  <2> HIDE DEF blank
  <2>1. k + Len(t) <= Len(h)
    BY <1>2
  <2> QED BY <1>1, <1>3, <1>4, <1>9, <2>1
<1>11. Len(r) <= Len(t)
  <2> HIDE DEF blank
  <2> QED BY <1>1, <1>3
<1>12. ASSUME NEW x \in 1..Len(r) PROVE r[x] = g[k + x]
  <2>1. x \in 1..Len(t) /\ k + x \in 1..Len(g)
    BY <1>1, <1>8, <1>10, <1>11
  <2> QED BY <1>2, <1>5, <1>6, <2>1
<1>13. PartOf(r, g, k)
  BY <1>10, <1>12 DEF PartOf
<1>14. contains(g, r)
  BY <1>3, <1>4, <1>13, ContainsAt
<1> QED BY <1>14 DEF g, r

-----------------------------------------------------------------------------
(* The search: words.                                                       *)

NoBlank(w) == \A x \in 1..Len(w) : w[x] # " "

\* A word is a part of its text that begins it or follows a blank.
LEMMA WordsOf ==
    ASSUME NEW s \in Texts, NEW w \in split_whitespace(s)
    PROVE  /\ w \in Texts /\ Len(w) > 0 /\ NoBlank(w)
           /\ \E m \in Nat : PartOf(w, s, m) /\ (m = 0 \/ (m \in 1..Len(s) /\ s[m] = " "))
<1>1. Len(s) \in Nat /\ DOMAIN s = 1..Len(s)
  BY TextBasics
<1>2. PICK i \in 1..Len(s), j \in 1..Len(s) : is_word(s, i, j) /\ w = SubSeq(s, i, j)
  BY <1>1 DEF split_whitespace
<1>3. i <= j
  BY <1>2 DEF is_word
<1>4. \A k \in i..j : s[k] # " "
  BY <1>2 DEF is_word
<1>5. i = 1 \/ s[i - 1] = " "
  BY <1>2 DEF is_word
<1>6. i \in Nat /\ j \in Nat /\ i > 0 /\ j <= Len(s) /\ i <= j + 1
  BY <1>1, <1>3
<1>7. /\ w \in Texts /\ Len(w) = j - i + 1
      /\ \A x \in 1..(j - i + 1) : w[x] = s[i + x - 1]
  BY <1>2, <1>6, TextPart
<1> DEFINE m == i - 1
<1>8. m \in Nat /\ m + (j - i + 1) <= Len(s) /\ j - i + 1 > 0 /\ (i = 1 <=> m = 0)
  BY <1>3, <1>6
<1>9. \A x \in 1..(j - i + 1) : i + x - 1 = m + x /\ i + x - 1 \in i..j
  BY <1>3, <1>6
<1>10. m # 0 => m \in 1..Len(s)
  BY <1>6, <1>8
<1>11. m = 0 \/ (m \in 1..Len(s) /\ s[m] = " ")
  BY <1>5, <1>8, <1>10
<1> HIDE DEF m
<1>12. PartOf(w, s, m)
  BY <1>7, <1>8, <1>9 DEF PartOf
<1>13. NoBlank(w)
  BY <1>4, <1>7, <1>9 DEF NoBlank
<1>14. Len(w) > 0
  BY <1>7, <1>8
<1> QED BY <1>7, <1>8, <1>11, <1>12, <1>13, <1>14

\* A text without blanks is its only word.
LEMMA OneWord ==
    ASSUME NEW w \in Texts, Len(w) > 0, NoBlank(w)
    PROVE  split_whitespace(w) = {w}
<1>1. Len(w) \in Nat /\ DOMAIN w = 1..Len(w)
  BY TextBasics
<1>2. SubSeq(w, 1, Len(w)) = w
  <2>1. w \in Seq(Chars)
    BY DEF Texts
  <2> HIDE DEF Chars
  <2> QED BY <2>1, SubSeqFull
<1>3. 1 \in 1..Len(w) /\ Len(w) \in 1..Len(w) /\ 1 <= Len(w)
  BY <1>1
<1>4. is_word(w, 1, Len(w))
  BY <1>3 DEF is_word, NoBlank
<1>5. w \in split_whitespace(w)
  <2>1. <<1, Len(w)>> \in {q \in (DOMAIN w) \X (DOMAIN w) : is_word(w, q[1], q[2])}
    BY <1>1, <1>3, <1>4
  <2> QED BY <1>2, <2>1 DEF split_whitespace
<1>6. ASSUME NEW x \in split_whitespace(w) PROVE x = w
  <2>1. PICK i \in 1..Len(w), j \in 1..Len(w) : is_word(w, i, j) /\ x = SubSeq(w, i, j)
    BY <1>1 DEF split_whitespace
  <2>2. i = 1
    <3>1. i = 1 \/ w[i - 1] = " "
      BY <2>1 DEF is_word
    <3>2. i # 1 => i - 1 \in 1..Len(w)
      BY <1>1
    <3> QED BY <3>1, <3>2 DEF NoBlank
  <2>3. j = Len(w)
    <3>1. j = Len(w) \/ w[j + 1] = " "
      BY <2>1 DEF is_word
    <3>2. j # Len(w) => j + 1 \in 1..Len(w)
      <4>1. Len(w) \in Nat
        BY <1>1
      <4> QED BY <4>1
    <3> QED BY <3>1, <3>2 DEF NoBlank
  <2> QED BY <1>2, <2>1, <2>2, <2>3
<1> QED BY <1>5, <1>6

LEMMA NormalizedType ==
    ASSUME NEW s \in Texts PROVE normalize_search_text(s) \in Texts
<1>1. PICK u : Normalizing(s, u) /\ normalize_search_text(s) = trim(u[Len(s)])
  BY NormalizingExists
<1>2. Len(s) \in 0..Len(s)
  BY TextBasics
<1>3. u[Len(s)] \in Texts
  BY <1>1, <1>2 DEF Normalizing
<1> QED BY <1>1, <1>3, TrimType

\* A word of a text, normalized, is in the normalized text.
LEMMA WordFound ==
    ASSUME NEW s \in Texts, NEW w \in split_whitespace(s), normalize_search_text(w) # <<>>
    PROVE  contains(normalize_search_text(s), normalize_search_text(w))
<1>1. w \in Texts
  BY WordsOf
<1>2. PICK m \in Nat : PartOf(w, s, m) /\ (m = 0 \/ (m \in 1..Len(s) /\ s[m] = " "))
  BY WordsOf
<1>3. PICK u : Normalizing(s, u) /\ normalize_search_text(s) = trim(u[Len(s)])
  BY NormalizingExists
<1>4. PICK v : Normalizing(w, v) /\ normalize_search_text(w) = trim(v[Len(w)])
  BY <1>1, NormalizingExists
<1>5. EndsBlank(u[m])
  <2>1. CASE m = 0
    BY <1>3, <2>1 DEF Normalizing, EndsBlank
  <2>2. CASE m \in 1..Len(s) /\ s[m] = " "
    BY <1>3, <2>2, BlankBefore
  <2> QED BY <1>2, <2>1, <2>2
<1>6. Continues(u, v, m, Len(w))
  <2>1. PartOf(w, s, m) /\ Normalizing(s, u) /\ Normalizing(w, v)
    BY <1>2, <1>3, <1>4
  <2> QED BY <1>1, <1>5, <2>1, WordNormalizing
<1> DEFINE n == Len(w)
           b == m + n
           X == u[m]
           t == v[n]
           h == u[Len(s)]
<1>7. Len(s) \in Nat /\ n \in Nat
  BY <1>1, TextBasics
<1>8. m + n <= Len(s)
  BY <1>2 DEF PartOf
<1>9. m \in 0..Len(s) /\ b \in 0..Len(s) /\ n \in 0..n /\ Len(s) \in 0..Len(s)
  BY <1>7, <1>8
<1>10. X \in Texts /\ h \in Texts /\ t \in Texts
  BY <1>3, <1>4, <1>9 DEF Normalizing
<1>11. u[b] = X \o t
  BY <1>6, <1>9 DEF Continues
<1>12. Len(u[b]) <= Len(h) /\ \A x \in 1..Len(u[b]) : h[x] = u[b][x]
  BY <1>3, <1>9, NormalizingGrows
<1>13. trim(t) # <<>>
  BY <1>4
<1> HIDE DEF X, t, h, b, n
<1>14. /\ Len(X \o t) = Len(X) + Len(t)
       /\ \A x \in 1..(Len(X) + Len(t)) : (X \o t)[x] = IF x <= Len(X) THEN X[x] ELSE t[x - Len(X)]
  BY <1>10, TextConcat
<1>15. Len(X) \in Nat /\ Len(t) \in Nat
  BY <1>10, TextBasics
<1>16. Len(X) + Len(t) <= Len(h)
  BY <1>11, <1>12, <1>14
<1>17. ASSUME NEW x \in 1..Len(t) PROVE t[x] = h[Len(X) + x]
  <2> DEFINE y == Len(X) + x
  <2>1. y \in 1..(Len(X) + Len(t)) /\ ~(y <= Len(X)) /\ y - Len(X) = x
    BY <1>15
  <2> HIDE DEF y
  <2>2. (X \o t)[y] = t[x]
    BY <1>14, <2>1
  <2>3. h[y] = (X \o t)[y]
    BY <1>11, <1>12, <1>14, <2>1
  <2> QED BY <2>2, <2>3 DEF y
<1>18. PartOf(t, h, Len(X))
  BY <1>15, <1>16, <1>17 DEF PartOf
<1>19. contains(trim(h), trim(t))
  BY <1>10, <1>13, <1>15, <1>18, TrimContains
<1> QED BY <1>3, <1>4, <1>19 DEF h, t, n

\* A plain word is left as it is.
LEMMA PlainNormalized ==
    ASSUME NEW w \in Texts, Plain(w)
    PROVE  normalize_search_text(w) = w /\ NoBlank(w)
<1> DEFINE n == Len(w)
<1>1. n \in Nat /\ DOMAIN w = 1..n /\ \A x \in 1..n : w[x] \in Chars
  BY TextBasics
<1>2. \A x \in 1..n : w[x] \in {"a", "b"}
  BY <1>1 DEF Plain, ToSet
<1>3. \A x \in 1..n : mapped(w[x]) = w[x] /\ w[x] # " " /\ w[x] # ""
  BY <1>2 DEF mapped
<1>4. PICK v : Normalizing(w, v) /\ normalize_search_text(w) = trim(v[Len(w)])
  BY NormalizingExists
<1> DEFINE Kept(k) == Len(v[k]) = k /\ \A x \in 1..k : v[k][x] = w[x]
           G == {k \in 0..n : Kept(k)}
<1>5. \A k \in 0..n : v[k] \in Texts
  BY <1>4 DEF Normalizing
<1>6. 0 \in G
  <2>1. v[0] = <<>>
    BY <1>4 DEF Normalizing
  <2> QED BY <1>1, <2>1, NoText
<1>7. ASSUME NEW k \in 1..n, k - 1 \in G PROVE k \in G
  <2> DEFINE t == v[k - 1]
             c == w[k]
             r == Append(t, c)
  <2>1. k - 1 \in 0..n /\ (k - 1) + 1 = k /\ k \in 0..n
    BY <1>1
  <2>2. v[k] = push(t, mapped(c))
    BY <1>4 DEF Normalizing
  <2>3. mapped(c) = c /\ c # " " /\ c # "" /\ c \in Chars
    BY <1>1, <1>3
  <2>4. t \in Texts /\ Len(t) = k - 1 /\ \A x \in 1..(k - 1) : t[x] = w[x]
    BY <1>5, <1>7, <2>1
  <2>5. v[k] = r
    <3> HIDE DEF t, c
    <3> QED BY <2>2, <2>3 DEF push
  <2>6. /\ Len(r) = Len(t) + 1 /\ \A x \in 1..Len(t) : r[x] = t[x]
        /\ r[Len(t) + 1] = c
    <3> HIDE DEF t, c
    <3> QED BY <2>3, <2>4, TextAppend
  <2>7. w[k] = c
    OBVIOUS
  <2> HIDE DEF t, c, r
  <2>8. Len(r) = k /\ \A x \in 1..k : r[x] = w[x]
    <3>1. Len(r) = k
      BY <2>1, <2>4, <2>6
    <3>2. ASSUME NEW x \in 1..k PROVE r[x] = w[x]
      <4>1. CASE x = k
        BY <2>1, <2>4, <2>6, <2>7, <4>1
      <4>2. CASE x # k
        <5>1. x \in 1..(k - 1)
          BY <2>1, <4>2
        <5> QED BY <2>4, <2>6, <5>1
      <4> QED BY <4>1, <4>2
    <3> QED BY <3>1, <3>2
  <2> QED BY <2>1, <2>5, <2>8
<1>8. \A k \in 0..n : k \in G
  <2>1. \A k \in 1..n : k - 1 \in G => k \in G
    BY <1>7
  <2> HIDE DEF G, n
  <2> QED BY <1>1, <1>6, <2>1, UpTo
<1>9. n \in 0..n
  BY <1>1
<1>10. Len(v[n]) = Len(w) /\ \A x \in 1..Len(w) : v[n][x] = w[x]
  BY <1>8, <1>9
<1>11. v[n] \in Texts
  BY <1>5, <1>9
<1>12. v[n] = w
  <2> DEFINE t == v[n]
  <2>1. t \in Texts /\ Len(t) = Len(w) /\ \A x \in 1..Len(t) : t[x] = w[x]
    BY <1>10, <1>11
  <2> HIDE DEF t
  <2>2. t = w
    BY <2>1, TextEqual
  <2> QED BY <2>2 DEF t
<1>13. trim(w) = w
  <2>1. CASE w = <<>>
    BY <2>1 DEF trim
  <2>2. CASE w # <<>>
    <3>1. Len(w) \in 1..n
      BY <1>1, <2>2, TextBasics
    <3>2. w[Len(w)] # " "
      BY <1>3, <3>1
    <3> QED BY <3>2 DEF trim
  <2> QED BY <2>1, <2>2
<1>14. NoBlank(w)
  BY <1>3 DEF NoBlank
<1> QED BY <1>4, <1>12, <1>13, <1>14

-----------------------------------------------------------------------------
(* The search: queries.                                                     *)

\* A term without a known prefix is looked for as a whole, or not at all.
LEMMA ParseWhole ==
    ASSUME NEW q, parse_term(q).field = AnyField
    PROVE  parse_term(q).value \in {<<>>, normalize_search_text(q)}
<1> DEFINE colon == SelectInSeq(q, LAMBDA ch : ch = ":")
           key   == normalize_search_text(SubSeq(q, 1, colon - 1))
           value == normalize_search_text(SubSeq(q, colon + 1, Len(q)))
           whole == normalize_search_text(q)
<1>1. parse_term(q) =
        IF colon \in {0, 1, Len(q)} THEN [field |-> AnyField, value |-> whole]
        ELSE IF value = <<>> THEN [field |-> AnyField, value |-> <<>>]
        ELSE IF key \in DOMAIN KeyNames THEN [field |-> KeyNames[key], value |-> value]
        ELSE [field |-> AnyField, value |-> whole]
  BY DEF parse_term
<1> HIDE DEF colon, key, value, whole
<1>2. key \in DOMAIN KeyNames => KeyNames[key] # AnyField
  BY SearchAssumption DEF Fields, AnyField
<1> QED BY <1>1, <1>2 DEF whole

LEMMA ParsePlain ==
    ASSUME NEW q \in Texts, Plain(q)
    PROVE  parse_term(q) = [field |-> AnyField, value |-> normalize_search_text(q)]
<1>1. \A x \in 1..Len(q) : q[x] # ":"
  BY TextBasics DEF Plain, ToSet
<1>2. {x \in 1..Len(q) : q[x] = ":"} = {}
  BY <1>1
<1>3. SelectInSeq(q, LAMBDA ch : ch = ":") = 0
  BY <1>2 DEF SelectInSeq
<1> QED BY <1>3 DEF parse_term

\* A query of one word has one term.
LEMMA OneTerm ==
    ASSUME NEW c, NEW q \in Texts, Len(q) > 0, NoBlank(q)
    PROVE  matches_query(c, q) <=>
              parse_term(q).value = <<>> \/ matches_search_term(c, parse_term(q))
<1>1. split_whitespace(q) = {q}
  BY OneWord
<1>2. parse_search_terms(q) = {t \in {parse_term(q)} : t.value # <<>>}
  BY <1>1 DEF parse_search_terms
<1> QED BY <1>2 DEF matches_query

LEMMA JoinedText ==
    ASSUME NEW c \in Cards PROVE fields_joined(c) \in Texts
<1>1. c.title \in Texts /\ c.url \in Texts
  BY SearchAssumption
<1>2. <<" ">> \in Texts
  BY DEF Texts, Chars
<1>3. c.title \o <<" ">> \in Texts
  BY <1>1, <1>2, TextConcat
<1>4. (c.title \o <<" ">>) \o c.url \in Texts
  BY <1>1, <1>3, TextConcat
<1> QED BY <1>4 DEF fields_joined

\* A word copied from the card finds it.
LEMMA CopiedWordFinds ==
    ASSUME NEW c \in Cards, NEW q \in split_whitespace(fields_joined(c)), ~HasKnownKey(q)
    PROVE  matches_query(c, q)
<1>1. fields_joined(c) \in Texts
  BY JoinedText
<1>2. q \in Texts /\ Len(q) > 0 /\ NoBlank(q)
  BY <1>1, WordsOf
<1>3. parse_term(q).field = AnyField
  BY DEF HasKnownKey
<1>4. parse_term(q).value \in {<<>>, normalize_search_text(q)}
  BY <1>3, ParseWhole
<1>5. CASE parse_term(q).value = <<>>
  BY <1>2, <1>5, OneTerm
<1>6. CASE parse_term(q).value # <<>>
  <2>1. parse_term(q).value = normalize_search_text(q) /\ normalize_search_text(q) # <<>>
    BY <1>4, <1>6
  <2>2. contains(normalize_search_text(fields_joined(c)), normalize_search_text(q))
    BY <1>1, <2>1, WordFound
  <2>3. matches_search_term(c, parse_term(q))
    BY <1>3, <2>1, <2>2 DEF matches_search_term, token_matches_haystack
  <2> QED BY <1>2, <2>3, OneTerm
<1> QED BY <1>5, <1>6

\* A plain word of four letters finds what has it, or a word one edit away.
LEMMA PlainWordFinds ==
    ASSUME NEW c \in Cards, NEW q \in Texts, Plain(q), Len(q) >= 4
    PROVE  matches_query(c, q) <=>
              \/ contains(normalize_search_text(fields_joined(c)), q)
              \/ \E w \in split_whitespace(normalize_search_text(fields_joined(c))) : OneEdit(q, w)
<1> DEFINE hay == normalize_search_text(fields_joined(c))
           term == [field |-> AnyField, value |-> q]
<1>1. hay \in Texts
  BY JoinedText, NormalizedType
<1>2. Len(q) \in Nat /\ Len(q) > 0 /\ q # <<>>
  <2>1. Len(q) \in Nat /\ (q # <<>> <=> Len(q) > 0)
    BY TextBasics
  <2> QED BY <2>1
<1>3. parse_term(q) = term /\ NoBlank(q)
  BY PlainNormalized, ParsePlain
<1>4. matches_query(c, q) <=> matches_search_term(c, term)
  BY <1>2, <1>3, OneTerm
<1>5. matches_search_term(c, term) <=> token_matches_haystack(q, hay)
  BY DEF matches_search_term
<1> HIDE DEF hay
<1>6. token_matches_haystack(q, hay) <=>
         contains(hay, q) \/ \E w \in split_whitespace(hay) : within_one_edit(q, w)
  BY <1>2 DEF token_matches_haystack
<1>7. \A w \in split_whitespace(hay) : within_one_edit(q, w) <=> OneEdit(q, w)
  <2> SUFFICES ASSUME NEW w \in split_whitespace(hay)
               PROVE  within_one_edit(q, w) <=> OneEdit(q, w)
    OBVIOUS
  <2>1. w \in Texts
    BY <1>1, WordsOf
  <2> QED BY <2>1, WithinIsOneEdit, OneEditIsWithin
<1> QED BY <1>4, <1>5, <1>6, <1>7 DEF hay

\* The card, the query and what is shown of them.
SearchInv ==
    /\ card \in Cards /\ query \in Texts
    /\ visible = flow_filter(card, query, category, audit)

LEMMA SearchInvInit == ToolsInit => SearchInv
<1> SUFFICES ASSUME ToolsInit PROVE SearchInv
  OBVIOUS
<1>1. card \in Cards /\ query = <<>> /\ category = "All" /\ audit = "All" /\ visible = TRUE
  BY DEF ToolsInit, SearchInit
<1>2. split_whitespace(<<>>) = {}
  <2>1. <<>> \in Texts /\ Len(<<>>) = 0
    BY NoText
  <2>2. DOMAIN <<>> = {}
    BY <2>1, TextBasics
  <2> QED BY <2>2 DEF split_whitespace
<1>3. matches_query(card, query)
  BY <1>1, <1>2 DEF matches_query, parse_search_terms
<1>4. matches_category(card, category) /\ matches_audit(card, audit)
  BY <1>1 DEF matches_category, matches_audit
<1>5. flow_filter(card, query, category, audit) = TRUE
  BY <1>3, <1>4 DEF flow_filter
<1> QED BY <1>1, <1>5, NoText DEF SearchInv

LEMMA SearchInvNext == SearchInv /\ [ToolsNext]_toolVars => SearchInv'
<1> SUFFICES ASSUME SearchInv, [ToolsNext]_toolVars PROVE SearchInv'
  OBVIOUS
<1>1. CASE UNCHANGED searchVars
  BY <1>1 DEF SearchInv, searchVars, flow_filter, matches_query, matches_category, matches_audit
<1>2. CASE SearchNext
  <2>1. card' = card /\ apply_filters
    BY <1>2 DEF SearchNext, SearchChanged, CategorySelected, AuditSelected
  <2>2. query' \in Texts
    <3>1. CASE query' = query
      BY <3>1 DEF SearchInv
    <3>2. CASE query' = <<>>
      BY <3>2, NoText
    <3>3. CASE \E ch \in TypedChars : query' = Append(query, ch)
      <4>1. PICK ch \in TypedChars : query' = Append(query, ch)
        BY <3>3
      <4>2. ch \in Chars /\ query \in Texts
        BY SearchAssumption DEF SearchInv
      <4>3. Append(query, ch) \in Texts
        BY <4>2, TextAppend
      <4> QED BY <4>1, <4>3
    <3> QED BY <1>2, <3>1, <3>2, <3>3 DEF SearchNext, SearchChanged, CategorySelected, AuditSelected
  <2>3. visible' = flow_filter(card', query', category', audit')
    BY <2>1 DEF apply_filters
  <2>4. card' \in Cards
    BY <2>1 DEF SearchInv
  <2> QED BY <2>2, <2>3, <2>4 DEF SearchInv
<1>3. UNCHANGED searchVars \/ SearchNext
  BY DEF ToolsNext, toolVars
<1> QED BY <1>1, <1>2, <1>3

\* The page shows the card exactly when it passes query, category and audit;
\* a word copied from a card finds it through the capitals, accents and
\* punctuation that normalize_search_text folds; and the typos that
\* within_one_edit forgives are exactly the single ones: for cards and queries of
\* any length.
THEOREM SearchIsFaithful == ToolsSpec => []SearchFinds
<1>1. SearchInv => SearchFinds
  <2> SUFFICES ASSUME SearchInv PROVE SearchFinds
    OBVIOUS
  <2>1. card \in Cards /\ query \in Texts
    BY DEF SearchInv
  <2>2. visible = (/\ matches_query(card, query)
                   /\ matches_category(card, category) /\ matches_audit(card, audit))
    BY DEF SearchInv, flow_filter
  <2>3. query \in split_whitespace(fields_joined(card)) /\ ~HasKnownKey(query)
           => matches_query(card, query)
    BY <2>1, CopiedWordFinds
  <2>4. Plain(query) /\ Len(query) >= 4 =>
           (matches_query(card, query) <=>
              \/ contains(normalize_search_text(fields_joined(card)), query)
              \/ \E w \in split_whitespace(normalize_search_text(fields_joined(card))) :
                    OneEdit(query, w))
    BY <2>1, PlainWordFinds
  <2> QED BY <2>2, <2>3, <2>4, Zenon DEF SearchFinds
<1>2. ToolsSpec => []SearchInv
  BY SearchInvInit, SearchInvNext, PTL DEF ToolsSpec
<1> QED BY <1>1, <1>2, PTL
=============================================================================
