------------------------------ MODULE Accounts -------------------------------
(***************************************************************************)
(* User accounts: services/admin_service.rs and the password part of       *)
(* services/user_service.rs over repositories/user_repository.rs, the      *)
(* credentials map of services/auth_service.rs, and what main.rs makes of  *)
(* both when the process starts.                                           *)
(*                                                                         *)
(* An account is kept twice: as a row of `users`, and as an entry of the   *)
(* in-memory map the login verifies passwords against.  Every operation    *)
(* works on the two in several steps, one thread per operation: a step is  *)
(* the reads of a check, one critical section of the map's mutex, or one   *)
(* writing statement.  The process may stop between any two steps, and a   *)
(* statement may return an error, which ends the operation where it is.    *)
(*                                                                         *)
(* An envelope (salt and hash) is a number: every hashing draws a new salt *)
(* and so a new number; 0 stands for NULL and for "no entry".  Row numbers *)
(* of `users` grow with each INSERT, so an id stands for its rowid too.    *)
(* Profile fields, login history and the audit entries are left out.       *)
(***************************************************************************)
EXTENDS Naturals, FiniteSets

CONSTANTS
    Names,       \* usernames
    MaxUsers,    \* bound on the rows ever inserted
    MaxHashes,   \* bound on the passwords ever hashed
    Threads,
    None,
    Crashes,     \* BOOLEAN: may the process stop during an operation?
    Failures     \* BOOLEAN: may a writing statement return an error?

ASSUME NoneAssumption == None \notin Names
ASSUME BoundsAssumption == MaxUsers \in Nat /\ MaxHashes \in Nat
ASSUME FaultsAssumption == Crashes \in BOOLEAN /\ Failures \in BOOLEAN

VARIABLES
    user,    \* the users table
    creds,   \* AuthServiceImpl.credentials
    hashed,  \* the passwords hashed so far
    mode,    \* "bootstrap": the wizard is shown; "ready": the login form
    op       \* what each thread still has to do

vars == <<user, creds, hashed, mode, op>>

Ids       == 1..MaxUsers
Envelopes == 0..MaxHashes
Roles     == {"admin", "user"}

Unused == [state |-> "unused", name |-> None, role |-> None, env |-> 0]
LiveRow(n, r, e) == [state |-> "live", name |-> n, role |-> r, env |-> e]
Gone   == [state |-> "gone", name |-> None, role |-> None, env |-> 0]
Row    == {Unused, Gone}
          \cup [state: {"live"}, name: Names, role: Roles, env: Envelopes]

Idle == [at |-> "idle"]
\* A creation, from the check of the map to the UPDATE of the envelope.
CreateOp(s, n, r, b, e) == [at |-> s, name |-> n, role |-> r, boot |-> b, env |-> e]
\* An envelope on its way into the row of an account.
StoreOp(s, i, n, b, e)  == [at |-> s, id |-> i, name |-> n, boot |-> b, env |-> e]
DeleteOp(i)             == [at |-> "delete", id |-> i]
RoleOp(i, r)            == [at |-> "role", id |-> i, role |-> r]
Op == {Idle}
      \cup [at: {"register", "derive", "export", "insert"}, name: Names,
            role: Roles, boot: BOOLEAN, env: Envelopes]
      \cup [at: {"rehash", "fetch", "store"}, id: Ids, name: Names,
            boot: BOOLEAN, env: Envelopes]
      \cup [at: {"delete"}, id: Ids]
      \cup [at: {"role"}, id: Ids, role: Roles]

\* Types of the table, the map, the startup mode and the running operations.
TypeOK ==
    /\ user   \in [Ids -> Row]
    /\ creds  \in [Names -> Envelopes]
    /\ hashed \in Envelopes
    /\ mode   \in {"bootstrap", "ready"}
    /\ op     \in [Threads -> Op]

Live(i)  == user[i].state = "live"
LiveIds  == {i \in Ids : Live(i)}
Admins   == {i \in LiveIds : user[i].role = "admin"}
InUse(n) == \E i \in LiveIds : user[i].name = n
AllIdle  == \A th \in Threads : op[th] = Idle

\* The next INSERT gets the smallest id no row ever had.
IsNextId(i) == user[i] = Unused /\ \A j \in Ids : j < i => user[j] # Unused

\* Someone is logged in as user a: the form verified the password against the
\* map.  The session outlives a later change of the account.
LoggedIn(a) == mode = "ready" /\ Live(a) /\ creds[user[a].name] # 0

require_admin(a) == LoggedIn(a) /\ a \in Admins

\* Mutant: "no admin left" instead of "the last one".
admin_count_ok_Off(i) == i \in Admins => Cardinality(Admins) > 0

\* The refusal of "the last admin account" in delete_user and update_user_role.
admin_count_ok(i) == i \in Admins => Cardinality(Admins) > 1

\* The bounds: an operation starts only when it can be finished.
CanHash   == hashed < MaxHashes
CanCreate == CanHash /\ \E i \in Ids : user[i] = Unused

Init ==
    /\ user   = [i \in Ids |-> Unused]
    /\ creds  = [n \in Names |-> 0]
    /\ hashed = 0
    /\ mode   = "bootstrap"
    /\ op     = [th \in Threads |-> Idle]

-----------------------------------------------------------------------------
(* Creating an account: the wizard's first admin, or a user by an admin.    *)

Start(th, o) ==
    /\ op[th] = Idle
    /\ op' = [op EXCEPT ![th] = o]
    /\ UNCHANGED <<user, creds, hashed, mode>>

\* The wizard runs one creation at a time.  list_all must be empty and the
\* map must not know the name.
Bootstrap_Check(th, n) ==
    /\ mode = "bootstrap" /\ AllIdle
    /\ LiveIds = {} /\ creds[n] = 0
    /\ CanCreate
    /\ Start(th, CreateOp("register", n, "admin", TRUE, 0))

\* Only the map is asked whether the name is taken.
CreateUser_Check(th, a, n, r) ==
    /\ require_admin(a)
    /\ creds[n] = 0
    /\ CanCreate
    /\ Start(th, CreateOp("register", n, r, FALSE, 0))

\* auth_service::create_user hashes without the lock, then inserts: an entry
\* another thread put there meanwhile is replaced.
Create_Register(th) ==
    /\ op[th].at = "register"
    /\ CanHash
    /\ hashed' = hashed + 1
    /\ creds' = [creds EXCEPT ![op[th].name] = hashed']
    /\ op' = [op EXCEPT ![th] = CreateOp("derive", op[th].name, op[th].role,
                                         op[th].boot, hashed')]
    /\ UNCHANGED <<user, mode>>

\* derive_key_if_valid: the password must still match the entry.
Create_Derive(th) ==
    /\ op[th].at = "derive"
    /\ op' = [op EXCEPT ![th] =
                IF creds[op[th].name] = op[th].env
                  THEN CreateOp("export", op[th].name, op[th].role, op[th].boot, 0)
                  ELSE Idle]
    /\ UNCHANGED <<user, creds, hashed, mode>>

\* get_password_envelope, a later look at the entry.
Create_Export(th) ==
    /\ op[th].at = "export"
    /\ op' = [op EXCEPT ![th] = CreateOp("insert", op[th].name, op[th].role,
                                         op[th].boot, creds[op[th].name])]
    /\ UNCHANGED <<user, creds, hashed, mode>>

\* create_user_db: username is UNIQUE; the row starts without an envelope.
Create_Insert(th, i) ==
    /\ op[th].at = "insert"
    /\ IsNextId(i)
    /\ IF InUse(op[th].name)
         THEN /\ op' = [op EXCEPT ![th] = Idle]
              /\ UNCHANGED user
         ELSE /\ user' = [user EXCEPT ![i] = LiveRow(op[th].name, op[th].role, 0)]
              /\ op' = [op EXCEPT ![th] = StoreOp("store", i, op[th].name,
                                                  op[th].boot, op[th].env)]
    /\ UNCHANGED <<creds, hashed, mode>>

-----------------------------------------------------------------------------
(* Changing and resetting a password: the map first, then the row.          *)

\* Mutant: the reset re-hashes for the admin's name instead of the target's.
ResetPassword_Check_Actor(th, a, i) ==
    /\ require_admin(a) /\ Live(i) /\ CanHash
    /\ Start(th, StoreOp("rehash", i, user[a].name, FALSE, 0))

ResetPassword_Check(th, a, i) ==
    /\ require_admin(a) /\ Live(i) /\ CanHash
    /\ Start(th, StoreOp("rehash", i, user[i].name, FALSE, 0))

\* change_password verifies the current password against the entry and hashes
\* the new one without the lock.
ChangePassword_Check(th, a) ==
    /\ LoggedIn(a) /\ CanHash
    /\ Start(th, StoreOp("rehash", a, user[a].name, FALSE, 0))

\* upsert_password_envelope, or the end of change_password.
Password_Rehash(th) ==
    /\ op[th].at = "rehash"
    /\ CanHash
    /\ hashed' = hashed + 1
    /\ creds' = [creds EXCEPT ![op[th].name] = hashed']
    /\ op' = [op EXCEPT ![th] = StoreOp("fetch", op[th].id, op[th].name, FALSE, 0)]
    /\ UNCHANGED <<user, mode>>

\* get_password_envelope.
Password_Fetch(th) ==
    /\ op[th].at = "fetch"
    /\ op' = [op EXCEPT ![th] = StoreOp("store", op[th].id, op[th].name, FALSE,
                                        creds[op[th].name])]
    /\ UNCHANGED <<user, creds, hashed, mode>>

\* Mutant: an upsert, which writes for a row that is gone too.
StoreEnvelope_Upsert(th) ==
    /\ op[th].at = "store"
    /\ user' = [user EXCEPT ![op[th].id].env = op[th].env]
    /\ mode' = IF op[th].boot THEN "ready" ELSE mode
    /\ op' = [op EXCEPT ![th] = Idle]
    /\ UNCHANGED <<creds, hashed>>

\* update_password_envelope, if the row is still there.  After the wizard's
\* account is stored the user is in, and the login form replaces the wizard.
StoreEnvelope(th) ==
    /\ op[th].at = "store"
    /\ IF Live(op[th].id)
         THEN /\ user' = [user EXCEPT ![op[th].id] =
                             LiveRow(user[op[th].id].name, user[op[th].id].role, op[th].env)]
              /\ mode' = IF op[th].boot THEN "ready" ELSE mode
         ELSE UNCHANGED <<user, mode>>
    /\ op' = [op EXCEPT ![th] = Idle]
    /\ UNCHANGED <<creds, hashed>>

-----------------------------------------------------------------------------
(* Deleting accounts and changing roles: checked first, written later.      *)

DeleteUser_Check(th, a, i) ==
    /\ require_admin(a) /\ Live(i)
    /\ admin_count_ok(i)
    /\ Start(th, DeleteOp(i))

\* user_repository::delete_user.  The map keeps its entry.
DeleteUser_Delete(th) ==
    /\ op[th].at = "delete"
    /\ user' = IF Live(op[th].id) THEN [user EXCEPT ![op[th].id] = Gone] ELSE user
    /\ op' = [op EXCEPT ![th] = Idle]
    /\ UNCHANGED <<creds, hashed, mode>>

UpdateRole_Check(th, a, i, r) ==
    /\ require_admin(a) /\ Live(i)
    /\ r = "user" => admin_count_ok(i)
    /\ Start(th, RoleOp(i, r))

UpdateRole_Update(th) ==
    /\ op[th].at = "role"
    /\ user' = IF Live(op[th].id)
                 THEN [user EXCEPT ![op[th].id] =
                         LiveRow(user[op[th].id].name, op[th].role, user[op[th].id].env)]
                 ELSE user
    /\ op' = [op EXCEPT ![th] = Idle]
    /\ UNCHANGED <<creds, hashed, mode>>

-----------------------------------------------------------------------------
(* Faults and startup.                                                      *)

\* A writing statement returns an error; what was done before it stays.
StatementFails(th) ==
    /\ Failures
    /\ op[th].at \in {"insert", "store", "delete", "role"}
    /\ op' = [op EXCEPT ![th] = Idle]
    /\ UNCHANGED <<user, creds, hashed, mode>>

\* ensure_privileged_account_context_initialized: the admin with the smallest
\* rowid, and that one only, must have an envelope.
Startable == \E i \in Admins : user[i].env # 0 /\ \A j \in Admins : i <= j

\* Mutant: only the privileged account is loaded.
load_password_envelopes_Admin ==
    [n \in Names |-> IF \E i \in Admins : user[i].name = n
                       THEN LET i == CHOOSE i \in Admins : user[i].name = n
                            IN  user[i].env
                       ELSE 0]

\* load_password_envelopes_from_db into the empty map of the new process.
load_password_envelopes ==
    [n \in Names |-> IF InUse(n)
                       THEN LET i == CHOOSE i \in LiveIds : user[i].name = n
                            IN  user[i].env
                       ELSE 0]

\* The process ends, in the middle of its operations if it crashes, and is
\* started again.
Restart ==
    /\ Crashes \/ AllIdle
    /\ op' = [th \in Threads |-> Idle]
    /\ mode' = IF Startable THEN "ready" ELSE "bootstrap"
    /\ creds' = IF Startable THEN load_password_envelopes ELSE [n \in Names |-> 0]
    /\ UNCHANGED <<user, hashed>>

Continue(th) ==
    \/ Create_Register(th) \/ Create_Derive(th) \/ Create_Export(th)
    \/ \E i \in Ids : Create_Insert(th, i)
    \/ Password_Rehash(th) \/ Password_Fetch(th)
    \/ StoreEnvelope(th)
    \/ DeleteUser_Delete(th)
    \/ UpdateRole_Update(th)

Begin(th) ==
    \/ \E n \in Names : Bootstrap_Check(th, n)
    \/ \E a \in Ids, n \in Names, r \in Roles : CreateUser_Check(th, a, n, r)
    \/ \E a \in Ids, i \in Ids : ResetPassword_Check(th, a, i)
    \/ \E a \in Ids : ChangePassword_Check(th, a)
    \/ \E a \in Ids, i \in Ids : DeleteUser_Check(th, a, i)
    \/ \E a \in Ids, i \in Ids, r \in Roles : UpdateRole_Check(th, a, i, r)

Next ==
    \/ \E th \in Threads : Begin(th) \/ Continue(th) \/ StatementFails(th)
    \/ Restart

Spec == Init /\ [][Next]_vars

-----------------------------------------------------------------------------
(* Properties.                                                              *)

\* Once an account was created there is an admin, whatever delete_user and
\* update_user_role do: the check of admin_count keeps the last one.
AtLeastOneAdmin == (\E i \in Ids : user[i] # Unused) => Admins # {}

\* While no operation runs, a stored password is the one the login form
\* accepts: the map and the row have not diverged, crashes included.  (A row a
\* crash left without an envelope is exempt: creating that name again fails at
\* the INSERT, after the map got the new password.)
MemoryMatchesTable ==
    mode = "ready" /\ AllIdle =>
        \A i \in LiveIds : user[i].env # 0 => creds[user[i].name] = user[i].env

\* While no operation runs the application can be used: the wizard can create
\* the first account, or the next start will load the credentials.
NeverLockedOut == AllIdle => LiveIds = {} \/ Startable

\* No two accounts are ever stored with the same envelope (the hash in it is
\* the master key): no race of creations, resets and changes gives one user
\* the key of another.
EnvelopesDistinct ==
    \A i, j \in LiveIds : user[i].env # 0 /\ user[i].env = user[j].env => i = j
=============================================================================
