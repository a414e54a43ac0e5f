--------------------------- MODULE SecretLifecycle ---------------------------
(***************************************************************************)
(* The secrets of the vaults and their way through the trash:              *)
(* services/secret_service.rs over repositories/secret_repository.rs,      *)
(* vault_repository::delete_vault, and the dialogs that call them.         *)
(*                                                                         *)
(* As in VaultSharing a thread commits one writing statement (or one       *)
(* transaction) per step.  A dialog that first resolves or opens a vault   *)
(* and then writes into it takes two steps, because the vault it resolved  *)
(* may be deleted in between.  Any user may act at any time; who owns a    *)
(* vault and who else has access to it is fixed here.                      *)
(*                                                                         *)
(* Of a secret's content only its versions matter: `saved` counts the      *)
(* saves whose metadata UPDATE was committed, `blob` is the save the       *)
(* stored ciphertext comes from.  Titles, tags, types, timestamps and the  *)
(* usage counter are left out.                                             *)
(***************************************************************************)
EXTENDS Naturals

CONSTANTS
    Users,
    Vaults,
    Secrets,     \* secret ids (Uuid::new_v4: an id is used for one secret only)
    Threads,
    None,
    Owner,       \* Owner[v]: owner_user_id
    Recipients,  \* Recipients[v]: the users v is shared with
    Name,        \* Name[v]: the vault's rank in ORDER BY name
    MaxSaves,    \* bound on the saves of one secret
    Crashes      \* BOOLEAN: may the process stop between two statements?

ASSUME OwnerAssumption == Owner \in [Vaults -> Users]
ASSUME RecipientsAssumption == Recipients \in [Vaults -> SUBSET Users]
ASSUME NameAssumption == Name \in [Vaults -> Nat]
ASSUME SavesAssumption == MaxSaves \in Nat /\ Crashes \in BOOLEAN

VARIABLES
    deleted,   \* vaults.deleted_at IS NOT NULL
    secret,    \* the secret_items table
    op         \* what each thread still has to do

vars == <<deleted, secret, op>>

Row == [state: {"unused", "live", "trash", "purged"},
        vault: Vaults \cup {None},
        saved: 0..MaxSaves,
        blob:  0..MaxSaves]

Idle == [kind |-> "idle"]
CreateOp(v)   == [kind |-> "create", vault |-> v]
UpdateOp(s, n) == [kind |-> "update", secret |-> s, save |-> n]
EmptyOp(v, S) == [kind |-> "empty", vault |-> v, listed |-> S]
Op == {Idle}
      \cup [kind: {"create"}, vault: Vaults]
      \cup [kind: {"update"}, secret: Secrets, save: 0..MaxSaves]
      \cup [kind: {"empty"}, vault: Vaults, listed: SUBSET Secrets]

TypeOK ==
    /\ deleted \in [Vaults -> BOOLEAN]
    /\ secret  \in [Secrets -> Row]
    /\ op      \in [Threads -> Op]

Live(s)  == secret[s].state = "live"
Trash(s) == secret[s].state = "trash"

\* accessible_vaults, and the first of them in ORDER BY name.
Accessible(u)  == {v \in Vaults : ~deleted[v] /\ (Owner[v] = u \/ u \in Recipients[v])}
IsFirst(u, v)  == v \in Accessible(u) /\ \A w \in Accessible(u) : Name[v] <= Name[w]

\* list_all_trash_by_owner_id: the trash dialog's rows, over all vaults of u,
\* the deleted ones included.
TrashList(u) == {s \in Secrets : Trash(s) /\ Owner[secret[s].vault] = u}

\* list_by_vault_id for the vaults the main window offers to u.
MainList(u)  == {s \in Secrets : Live(s) /\ secret[s].vault \in Accessible(u)}

Init ==
    /\ deleted = [v \in Vaults |-> FALSE]
    /\ secret = [s \in Secrets |-> [state |-> "unused", vault |-> None,
                                    saved |-> 0, blob |-> 0]]
    /\ op = [th \in Threads |-> Idle]

-----------------------------------------------------------------------------
(* The statements of the repositories: what each leaves in secret_items.    *)

\* Mutant: neither of the two blob columns is filled.
insert_secret_blob_NoBlob(s, v) ==
    [secret EXCEPT ![s] = [state |-> "live", vault |-> v, saved |-> 0, blob |-> None]]

insert_secret_blob(s, v) ==
    [secret EXCEPT ![s] = [state |-> "live", vault |-> v, saved |-> 0, blob |-> 0]]

update_secret_metadata(s) == [secret EXCEPT ![s].saved = @ + 1]
update_secret_blob(s, n)  == [secret EXCEPT ![s].blob = n]
soft_delete(s)            == [secret EXCEPT ![s].state = "trash"]
permanent_delete(s)       == [secret EXCEPT ![s].state = "purged"]

\* Mutant: the DELETE forgets "AND deleted_at IS NOT NULL".
empty_trash_All(v) ==
    [s \in Secrets |-> IF secret[s].vault = v
                         THEN [secret[s] EXCEPT !.state = "purged"]
                         ELSE secret[s]]

empty_trash(v) ==
    [s \in Secrets |-> IF Trash(s) /\ secret[s].vault = v
                         THEN [secret[s] EXCEPT !.state = "purged"]
                         ELSE secret[s]]

\* The second statement of vault_repository::delete_vault.
delete_vault(v) ==
    [s \in Secrets |-> IF Live(s) /\ secret[s].vault = v
                         THEN [secret[s] EXCEPT !.state = "trash"]
                         ELSE secret[s]]

-----------------------------------------------------------------------------
(* Creating and editing.                                                    *)

\* The editor opens the target vault.  A vault shared with the user is refused
\* unless the share has the admin role, which no sharing operation gives.
CreateSecret_Open(th, u, v) ==
    /\ op[th] = Idle
    /\ v \in Accessible(u) /\ Owner[v] = u
    /\ op' = [op EXCEPT ![th] = CreateOp(v)]
    /\ UNCHANGED <<deleted, secret>>

\* create_secret inserts the row; deleted_at of the vault is not looked at.
CreateSecret_Insert(th, s) ==
    /\ op[th].kind = "create"
    /\ secret[s].state = "unused"
    /\ secret' = insert_secret_blob(s, op[th].vault)
    /\ op' = [op EXCEPT ![th] = Idle]
    /\ UNCHANGED deleted

\* Mutant: the blob is written first, then the metadata.
UpdateSecret_Metadata_Last(th, u, s, full) ==
    /\ op[th] = Idle
    /\ s \in MainList(u)
    /\ secret[s].saved < MaxSaves
    /\ IF full
         THEN /\ secret' = update_secret_blob(s, secret[s].saved + 1)
              /\ op' = [op EXCEPT ![th] = UpdateOp(s, secret[s].saved + 1)]
         ELSE /\ secret' = update_secret_metadata(s)
              /\ UNCHANGED op
    /\ UNCHANGED deleted

\* update_secret: the metadata first; the blob only when a new value was typed.
UpdateSecret_Metadata(th, u, s, full) ==
    /\ op[th] = Idle
    /\ s \in MainList(u)
    /\ secret[s].saved < MaxSaves
    /\ secret' = update_secret_metadata(s)
    /\ op' = IF full THEN [op EXCEPT ![th] = UpdateOp(s, secret[s].saved + 1)] ELSE op
    /\ UNCHANGED deleted

\* The blob of a secret that has gone to the trash meanwhile is refused.
UpdateSecret_Blob(th) ==
    /\ op[th].kind = "update"
    /\ secret' = IF Live(op[th].secret)
                   THEN update_secret_blob(op[th].secret, op[th].save)
                   ELSE secret
    /\ op' = [op EXCEPT ![th] = Idle]
    /\ UNCHANGED deleted

-----------------------------------------------------------------------------
(* Trash.  The rows the dialogs show may be stale, so each statement        *)
(* carries its own condition; when it does not hold nothing is changed.     *)

SoftDelete(th, s) ==
    /\ op[th] = Idle
    /\ Live(s)
    /\ secret' = soft_delete(s)
    /\ UNCHANGED <<deleted, op>>

\* Mutant: the vault is left as it is.
RestoreSecret_SecretOnly(th, s) ==
    /\ op[th] = Idle
    /\ Trash(s)
    /\ secret' = [secret EXCEPT ![s].state = "live"]
    /\ UNCHANGED <<deleted, op>>

\* restore_secret: one transaction, the vault comes back with its secret.
RestoreSecret(th, s) ==
    /\ op[th] = Idle
    /\ Trash(s)
    /\ deleted' = [deleted EXCEPT ![secret[s].vault] = FALSE]
    /\ secret' = [secret EXCEPT ![s].state = "live"]
    /\ UNCHANGED op

PermanentDelete(th, s) ==
    /\ op[th] = Idle
    /\ Trash(s)
    /\ secret' = permanent_delete(s)
    /\ UNCHANGED <<deleted, op>>

\* "Empty trash": resolve_current_vault takes the first accessible vault and
\* opens it as its owner with the user's master key, which fails for a vault
\* of somebody else ...
EmptyTrash_Resolve(th, u, v) ==
    /\ op[th] = Idle
    /\ IsFirst(u, v) /\ Owner[v] = u
    /\ op' = [op EXCEPT ![th] = EmptyOp(v, TrashList(u))]
    /\ UNCHANGED <<deleted, secret>>

\* ... and then empties the trash of that one vault.
EmptyTrash_Delete(th) ==
    /\ op[th].kind = "empty"
    /\ secret' = empty_trash(op[th].vault)
    /\ op' = [op EXCEPT ![th] = Idle]
    /\ UNCHANGED deleted

\* delete_vault: one transaction.
DeleteVault(th, v) ==
    /\ op[th] = Idle
    /\ ~deleted[v]
    /\ deleted' = [deleted EXCEPT ![v] = TRUE]
    /\ secret' = delete_vault(v)
    /\ UNCHANGED op

-----------------------------------------------------------------------------

Crash ==
    /\ Crashes
    /\ op' = [th \in Threads |-> Idle]
    /\ UNCHANGED <<deleted, secret>>

Next ==
    \/ \E th \in Threads :
         \/ \E u \in Users, v \in Vaults : \/ CreateSecret_Open(th, u, v)
                                           \/ EmptyTrash_Resolve(th, u, v)
         \/ \E u \in Users, s \in Secrets, full \in BOOLEAN :
               UpdateSecret_Metadata(th, u, s, full)
         \/ \E s \in Secrets : \/ CreateSecret_Insert(th, s)
                               \/ SoftDelete(th, s)
                               \/ RestoreSecret(th, s)
                               \/ PermanentDelete(th, s)
         \/ UpdateSecret_Blob(th)
         \/ EmptyTrash_Delete(th)
         \/ \E v \in Vaults : DeleteVault(th, v)
    \/ Crash

Spec == Init /\ [][Next]_vars

-----------------------------------------------------------------------------
(* Properties.                                                              *)

\* A live secret of a deleted vault is in no list and in no trash.
Hidden(s) == Live(s) /\ deleted[secret[s].vault]

\* Whatever edits, deletions, restores and vault deletions race, a secret that
\* is stored never becomes invisible.  (A new one can be born so: create_secret
\* may insert into a vault deleted after the editor opened it.)
StoredNeverHidden ==
    [][\A s \in Secrets : secret[s].state # "unused" /\ Hidden(s)' => Hidden(s)]_vars

\* Nothing is destroyed that was not in the trash, even when the dialog that
\* asked for it showed a row that has been restored since.
PurgeOnlyFromTrash ==
    [][\A s \in Secrets : secret'[s].state = "purged" =>
          secret[s].state \in {"trash", "purged"}]_vars

\* The stored ciphertext never comes from a save whose metadata was refused:
\* update_secret writes the metadata first.  (The converse does not hold: a
\* crash, or a deletion in between, leaves new metadata over the old value.)
BlobNeverAhead ==
    \A s \in Secrets : secret[s].blob <= secret[s].saved

\* "This action will permanently delete every secret in the trash"
\* (trash-confirm-empty): when the emptying ends well, no secret that the
\* dialog listed is left in the trash.
EmptyTrashEmptiesAll ==
    [][\A th \in Threads : EmptyTrash_Delete(th) =>
          \A s \in op[th].listed : secret'[s].state # "trash"]_vars
=============================================================================
