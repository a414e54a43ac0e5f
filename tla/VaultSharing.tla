---------------------------- MODULE VaultSharing ----------------------------
(***************************************************************************)
(* Vaults, the envelopes that carry their keys, and the teams through      *)
(* which they are shared: services/vault_service.rs, team_service.rs,      *)
(* the password operations of user_service.rs and admin_service.rs, and    *)
(* the tables those services write through the repositories.               *)
(*                                                                         *)
(* Every operation the interface starts runs in a thread of its own        *)
(* (std::thread::spawn + block_on) and issues its SQL statements one by    *)
(* one on a connection pool, without a transaction around them.  A thread  *)
(* of the model therefore commits ONE writing statement per step, and the  *)
(* steps of different threads interleave.  The reads that precede an       *)
(* operation's first write are taken in the same step as that write.       *)
(*                                                                         *)
(* Cryptography is symbolic: an envelope [user, gen] is the vault key      *)
(* sealed under the gen-th master key of user, and opens with that master  *)
(* key only.  A user's master key IS the password hash stored in           *)
(* users.password_envelope (auth_service::derive_key_if_valid,             *)
(* team_service::derive_master_key_from_password_envelope), so hash[u]     *)
(* numbers both, and each new password yields a new one.  No dialog calls  *)
(* rotate_vault_key, so a vault has one key for life, which is why the key *)
(* itself is not a field of the envelope.                                  *)
(*                                                                         *)
(* Left out: audit entries, names, timestamps, granted_by, and the         *)
(* read-only listings.                                                     *)
(***************************************************************************)
EXTENDS AccessControl, Naturals, FiniteSets

CONSTANTS
    Users,      \* user ids
    Vaults,     \* vault ids (Uuid::new_v4: an id is used for one vault only)
    Teams,      \* team ids
    Threads,    \* threads the interface may have running at the same time
    None,       \* Option::None / SQL NULL
    MaxGen,     \* bound on the number of master keys a user goes through
    Crashes     \* BOOLEAN: may the process stop between two statements?

ASSUME NoneAssumption == None \notin Users \cup Vaults \cup Teams
ASSUME BoundAssumption == MaxGen \in Nat \ {0} /\ Crashes \in BOOLEAN

VARIABLES
    role,      \* users.role, "absent" when there is no such row
    hash,      \* users.password_envelope: the number of the current master key
    vault,     \* the vaults table
    share,     \* the vault_key_shares table, keyed by (vault_id, user_id)
    team,      \* the teams table: "unused", "live" or "deleted"
    member,    \* the team_members table, "none" when there is no row
    session,   \* the logged-in user and the master key the windows hold
    op         \* what each thread still has to do

vars == <<role, hash, vault, share, team, member, session, op>>

-----------------------------------------------------------------------------

Envelope == [user: Users, gen: 1..MaxGen]
ASSUME NoEnvelopeAssumption == None \notin Envelope
Share    == [env: Envelope, via: Teams \cup {None}, role: VaultShareRole]

\* deleted_at is set in state "deleted"; in state "purged" the row is gone.
VaultRow == [state: {"unused", "live", "deleted", "purged"},
             owner: Users \cup {None},
             env:   Envelope \cup {None}]

\* The rest of an operation: which one, for which rows, sealed how.
Idle == [kind |-> "idle"]
CreateVaultOp(v, e)      == [kind |-> "create_vault", vault |-> v, env |-> e]
CreateTeamOp(t, u)       == [kind |-> "create_team", team |-> t, user |-> u]
RemoveMemberOp(t, u)     == [kind |-> "remove_member", team |-> t, user |-> u]
ShareWithTeamOp(v, t, S) == [kind |-> "share_with_team", vault |-> v, team |-> t,
                             todo |-> S]
Op ==
    {Idle}
    \cup [kind: {"create_vault"}, vault: Vaults, env: Envelope]
    \cup [kind: {"create_team", "remove_member"}, team: Teams, user: Users]
    \cup [kind: {"share_with_team"}, vault: Vaults, team: Teams, todo: SUBSET Users]

Session == [user: Users, gen: 1..MaxGen]

TypeOK ==
    /\ role    \in [Users -> UserRole \cup {"absent"}]
    /\ hash    \in [Users -> 1..MaxGen]
    /\ vault   \in [Vaults -> VaultRow]
    /\ share   \in [Vaults -> [Users -> Share \cup {None}]]
    /\ team    \in [Teams -> {"unused", "live", "deleted"}]
    /\ member  \in [Teams -> [Users -> TeamMemberRole]]
    /\ session \in Session \cup {None}
    /\ op      \in [Threads -> Op]

-----------------------------------------------------------------------------

Exists(u) == role[u] # "absent"

\* users.password_envelope, as derive_master_key_from_password_envelope reads it.
MasterKey(u) == [user |-> u, gen |-> hash[u]]

\* One row of the accessible_vaults view for (u, v), or none.
HasAccessRow(u, v) ==
    /\ vault[v].state = "live"
    /\ vault[v].owner = u \/ share[v][u] # None

\* What get_vault_with_permission reports of that row, as check_permission
\* receives it.  An owner's row hides the owner's share, if there is one.
Permission(u, v) ==
    IF vault[v].owner = u
      THEN VaultResource(TRUE, FALSE, FALSE, "admin")
      ELSE VaultResource(FALSE, share[v][u].via = None, share[v][u].via # None,
                         share[v][u].role)

\* The envelope open_vault_for_user decrypts for u.
EnvelopeFor(u, v) ==
    IF vault[v].owner = u THEN vault[v].env ELSE share[v][u].env

\* open_vault_for_user(u, v, master_key) returns the vault key.
Opens(u, v, masterKey) ==
    /\ Exists(u)
    /\ HasAccessRow(u, v)
    /\ check_permission(role[u], "VaultOpen", Permission(u, v))
    /\ EnvelopeFor(u, v) = masterKey

\* require_team_permission(u, t, TeamManageMembers)
ManagesTeam(u, t) ==
    /\ Exists(u)
    /\ check_permission(role[u], "TeamManageMembers", TeamResource(member[t][u]))

LoggedIn == session # None
Me       == session.user

-----------------------------------------------------------------------------

\* The state after bootstrap: some users, at least one administrator, nobody
\* logged in, no vault and no team yet.
Init ==
    /\ role \in [Users -> UserRole]
    /\ \E u \in Users : role[u] = "admin"
    /\ hash = [u \in Users |-> 1]
    /\ vault = [v \in Vaults |-> [state |-> "unused", owner |-> None, env |-> None]]
    /\ share = [v \in Vaults |-> [u \in Users |-> None]]
    /\ team = [t \in Teams |-> "unused"]
    /\ member = [t \in Teams |-> [u \in Users |-> "none"]]
    /\ session = None
    /\ op = [th \in Threads |-> Idle]

-----------------------------------------------------------------------------
(* Sessions.  Logging out closes the windows but does not join the threads. *)

\* derive_key_if_valid hands the stored hash over as the session's master key.
Login(u) ==
    /\ ~LoggedIn
    /\ Exists(u)
    /\ session' = MasterKey(u)
    /\ UNCHANGED <<role, hash, vault, share, team, member, op>>

Logout ==
    /\ LoggedIn
    /\ session' = None
    /\ UNCHANGED <<role, hash, vault, share, team, member, op>>

-----------------------------------------------------------------------------
(* Vaults.                                                                  *)

\* create_vault: INSERT the row with a NULL envelope, then UPDATE it with the
\* vault key sealed under the master key the session holds.
CreateVault_Insert(th, v) ==
    /\ op[th] = Idle
    /\ LoggedIn /\ Exists(Me)
    /\ check_permission(role[Me], "VaultCreate", GlobalResource)
    /\ vault[v].state = "unused"
    /\ vault' = [vault EXCEPT ![v] = [state |-> "live", owner |-> Me, env |-> None]]
    /\ op' = [op EXCEPT ![th] = CreateVaultOp(v, session)]
    /\ UNCHANGED <<role, hash, share, team, member, session>>

\* Mutant: the envelope is sealed when it is stored, under whoever is logged in.
CreateVault_Envelope_Late(th) ==
    /\ op[th].kind = "create_vault"
    /\ LET v == op[th].vault IN
         vault' = IF vault[v].state = "live" /\ LoggedIn
                    THEN [vault EXCEPT ![v].env = session]
                    ELSE vault
    /\ op' = [op EXCEPT ![th] = Idle]
    /\ UNCHANGED <<role, hash, share, team, member, session>>

\* Mutant: the second statement is forgotten.
CreateVault_Envelope_Never(th) ==
    /\ op[th].kind = "create_vault"
    /\ op' = [op EXCEPT ![th] = Idle]
    /\ UNCHANGED <<role, hash, vault, share, team, member, session>>

\* update_vault_key_envelope touches live rows only and fails otherwise.
CreateVault_Envelope(th) ==
    /\ op[th].kind = "create_vault"
    /\ LET v == op[th].vault IN
         vault' = IF vault[v].state = "live"
                    THEN [vault EXCEPT ![v].env = op[th].env]
                    ELSE vault
    /\ op' = [op EXCEPT ![th] = Idle]
    /\ UNCHANGED <<role, hash, share, team, member, session>>

\* delete_vault: one transaction, a soft delete.  Shares stay in their table.
DeleteVault(th, v) ==
    /\ op[th] = Idle
    /\ LoggedIn /\ Exists(Me)
    /\ HasAccessRow(Me, v)
    /\ check_permission(role[Me], "VaultDelete", Permission(Me, v))
    /\ vault' = [vault EXCEPT ![v].state = "deleted"]
    /\ UNCHANGED <<role, hash, share, team, member, session, op>>

\* Mutant: any deleted vault can be restored, the ones without a key too.
RestoreVault_Keyless(th, v) ==
    /\ op[th] = Idle
    /\ LoggedIn
    /\ vault[v].state = "deleted" /\ vault[v].owner = Me
    /\ vault' = [vault EXCEPT ![v].state = "live"]
    /\ UNCHANGED <<role, hash, share, team, member, session, op>>

\* restore_secret: restoring a trashed secret of a deleted vault brings the
\* vault back.  Only an opened vault can have got a secret, so one that never
\* received its envelope has none to restore.  The trash lists a user's own
\* vaults.
RestoreVault(th, v) ==
    /\ op[th] = Idle
    /\ LoggedIn
    /\ vault[v].state = "deleted" /\ vault[v].owner = Me /\ vault[v].env # None
    /\ vault' = [vault EXCEPT ![v].state = "live"]
    /\ UNCHANGED <<role, hash, share, team, member, session, op>>

-----------------------------------------------------------------------------
(* Shares.                                                                  *)

\* Mutant: the share is sealed under the owner's master key.
PutShare_OwnersKey(v, u, via, r) ==
    share' = [share EXCEPT ![v][u] =
                [env |-> MasterKey(vault[v].owner), via |-> via, role |-> r]]

\* insert_key_share: INSERT ... ON CONFLICT(vault_id, user_id) DO UPDATE.
\* Whatever row was there is replaced whole.
PutShare(v, u, via, r) ==
    share' = [share EXCEPT ![v][u] = [env |-> MasterKey(u), via |-> via, role |-> r]]

\* The foreign keys of vault_key_shares hold for the new row.
ShareForeignKeys(v, u, via) ==
    /\ vault[v].state \in {"live", "deleted"}
    /\ Exists(u)
    /\ via # None => team[via] = "live"

\* grant_vault_access, called by a user who has just opened the vault, with
\* another user's current master key.
GrantVaultAccess(th, v, u) ==
    /\ op[th] = Idle
    /\ LoggedIn /\ Opens(Me, v, session)
    /\ u # vault[v].owner
    /\ ShareForeignKeys(v, u, None)
    /\ PutShare(v, u, None, "write")
    /\ UNCHANGED <<role, hash, vault, team, member, session, op>>

\* revoke_vault_access; the service itself checks nothing.  Modelled for the
\* callers that own the vault.
RevokeVaultAccess(th, v, u) ==
    /\ op[th] = Idle
    /\ LoggedIn /\ vault[v].owner = Me
    /\ share[v][u] # None
    /\ share' = [share EXCEPT ![v][u] = None]
    /\ UNCHANGED <<role, hash, vault, team, member, session, op>>

\* The share dialog offers the user's own vaults: it opens the chosen one and
\* share_vault_with_team reads the member list ...
ShareWithTeam_Read(th, v, t) ==
    /\ op[th] = Idle
    /\ LoggedIn /\ vault[v].owner = Me
    /\ Opens(Me, v, session)
    /\ team[t] = "live"
    /\ LET members == {u \in Users : member[t][u] # "none"} IN
         /\ members # {}
         /\ op' = [op EXCEPT ![th] = ShareWithTeamOp(v, t, members)]
    /\ UNCHANGED <<role, hash, vault, share, team, member, session>>

\* ... and then, member by member, seals the vault key under the master key it
\* finds in the member's password envelope and upserts the share.  A member
\* without an envelope (the row has gone) is skipped; an INSERT that breaks a
\* foreign key ends the loop with the error.
ShareWithTeam_Member(th, u) ==
    /\ op[th].kind = "share_with_team"
    /\ u \in op[th].todo
    /\ LET v == op[th].vault
           t == op[th].team
           rest == op[th].todo \ {u}
           next == IF rest = {} THEN Idle ELSE ShareWithTeamOp(v, t, rest)
       IN  \/ /\ Exists(u) /\ ShareForeignKeys(v, u, t)
              /\ PutShare(v, u, t, "read")
              /\ op' = [op EXCEPT ![th] = next]
           \/ /\ ~Exists(u)
              /\ op' = [op EXCEPT ![th] = next]
              /\ UNCHANGED share
           \/ /\ Exists(u) /\ ~ShareForeignKeys(v, u, t)
              /\ op' = [op EXCEPT ![th] = Idle]
              /\ UNCHANGED share
    /\ UNCHANGED <<role, hash, vault, team, member, session>>

-----------------------------------------------------------------------------
(* Teams.                                                                   *)

\* create_team: INSERT the team, then INSERT its creator as leader.
CreateTeam_Insert(th, t) ==
    /\ op[th] = Idle
    /\ LoggedIn /\ Exists(Me)
    /\ team[t] = "unused"
    /\ team' = [team EXCEPT ![t] = "live"]
    /\ op' = [op EXCEPT ![th] = CreateTeamOp(t, Me)]
    /\ UNCHANGED <<role, hash, vault, share, member, session>>

\* Mutant: team_members has no foreign keys.
CreateTeam_Leader_NoForeignKeys(th) ==
    /\ op[th].kind = "create_team"
    /\ member' = [member EXCEPT ![op[th].team][op[th].user] = "leader"]
    /\ op' = [op EXCEPT ![th] = Idle]
    /\ UNCHANGED <<role, hash, vault, share, team, session>>

\* The INSERT fails when the team or the creator has been deleted meanwhile.
CreateTeam_Leader(th) ==
    /\ op[th].kind = "create_team"
    /\ LET t == op[th].team
           u == op[th].user
       IN  member' = IF team[t] = "live" /\ Exists(u)
                       THEN [member EXCEPT ![t][u] = "leader"]
                       ELSE member
    /\ op' = [op EXCEPT ![th] = Idle]
    /\ UNCHANGED <<role, hash, vault, share, team, session>>

\* Mutant: ON DELETE SET NULL clears the role instead of the provenance.
DeleteTeam_WrongColumn(th, t) ==
    /\ op[th] = Idle
    /\ LoggedIn /\ ManagesTeam(Me, t)
    /\ team[t] = "live"
    /\ team' = [team EXCEPT ![t] = "deleted"]
    /\ member' = [member EXCEPT ![t] = [u \in Users |-> "none"]]
    /\ share' = [v \in Vaults |-> [u \in Users |->
                   IF share[v][u] # None /\ share[v][u].via = t
                     THEN [share[v][u] EXCEPT !.role = None]
                     ELSE share[v][u]]]
    /\ UNCHANGED <<role, hash, vault, session, op>>

\* delete_team: the rows of team_members go with the team (ON DELETE CASCADE),
\* the shares it produced lose their provenance (ON DELETE SET NULL).
DeleteTeam(th, t) ==
    /\ op[th] = Idle
    /\ LoggedIn /\ ManagesTeam(Me, t)
    /\ team[t] = "live"
    /\ team' = [team EXCEPT ![t] = "deleted"]
    /\ member' = [member EXCEPT ![t] = [u \in Users |-> "none"]]
    /\ share' = [v \in Vaults |-> [u \in Users |->
                   IF share[v][u] # None /\ share[v][u].via = t
                     THEN [share[v][u] EXCEPT !.via = None]
                     ELSE share[v][u]]]
    /\ UNCHANGED <<role, hash, vault, session, op>>

\* add_member: an upsert of the role.
AddMember(th, t, u, r) ==
    /\ op[th] = Idle
    /\ LoggedIn /\ ManagesTeam(Me, t)
    /\ Exists(u) /\ team[t] = "live"
    /\ member' = [member EXCEPT ![t][u] = r]
    /\ UNCHANGED <<role, hash, vault, share, team, session, op>>

\* remove_member: DELETE the membership (an error if there is none) ...
RemoveMember_Delete(th, t, u) ==
    /\ op[th] = Idle
    /\ LoggedIn /\ ManagesTeam(Me, t)
    /\ member[t][u] # "none"
    /\ member' = [member EXCEPT ![t][u] = "none"]
    /\ op' = [op EXCEPT ![th] = RemoveMemberOp(t, u)]
    /\ UNCHANGED <<role, hash, vault, share, team, session>>

\* Mutant: the purge is forgotten.
RemoveMember_Purge_Never(th) ==
    /\ op[th].kind = "remove_member"
    /\ op' = [op EXCEPT ![th] = Idle]
    /\ UNCHANGED <<role, hash, vault, share, team, member, session>>

\* ... then DELETE the user's shares whose provenance is this team
\* (delete_key_shares_for_user_via_team), whatever the vault.
RemoveMember_Purge(th) ==
    /\ op[th].kind = "remove_member"
    /\ share' = [v \in Vaults |-> [u \in Users |->
                   IF /\ u = op[th].user
                      /\ share[v][u] # None
                      /\ share[v][u].via = op[th].team
                     THEN None
                     ELSE share[v][u]]]
    /\ op' = [op EXCEPT ![th] = Idle]
    /\ UNCHANGED <<role, hash, vault, team, member, session>>

-----------------------------------------------------------------------------
(* Accounts, as far as they touch vaults (module Accounts has the rest).    *)

\* change_master_password: a new hash, and nothing else.  The windows keep the
\* master key they were given at login.
ChangePassword(th) ==
    /\ op[th] = Idle
    /\ LoggedIn /\ Exists(Me)
    /\ hash[Me] < MaxGen
    /\ hash' = [hash EXCEPT ![Me] = @ + 1]
    /\ UNCHANGED <<role, vault, share, team, member, session, op>>

\* reset_user_password by an administrator; the dialog drops the new master
\* key that the service returns.
ResetPassword(th, u) ==
    /\ op[th] = Idle
    /\ LoggedIn /\ Exists(Me)
    /\ check_permission(role[Me], "AdminManageUsers", GlobalResource)
    /\ Exists(u) /\ hash[u] < MaxGen
    /\ hash' = [hash EXCEPT ![u] = @ + 1]
    /\ UNCHANGED <<role, vault, share, team, member, session, op>>

\* delete_user: the user's vaults (with all their shares), shares and
\* memberships go by ON DELETE CASCADE.  The last administrator stays.
DeleteUser(th, u) ==
    /\ op[th] = Idle
    /\ LoggedIn /\ Exists(Me)
    /\ check_permission(role[Me], "AdminManageUsers", GlobalResource)
    /\ Exists(u)
    /\ role[u] = "admin" => \E w \in Users \ {u} : role[w] = "admin"
    /\ role' = [role EXCEPT ![u] = "absent"]
    /\ vault' = [v \in Vaults |-> IF vault[v].owner = u
                                    THEN [vault[v] EXCEPT !.state = "purged"]
                                    ELSE vault[v]]
    /\ share' = [v \in Vaults |-> [w \in Users |->
                   IF w = u \/ vault[v].owner = u THEN None ELSE share[v][w]]]
    /\ member' = [t \in Teams |-> [member[t] EXCEPT ![u] = "none"]]
    /\ UNCHANGED <<hash, team, session, op>>

-----------------------------------------------------------------------------

\* The process stops: what was committed stays, every thread is gone.
Crash ==
    /\ Crashes
    /\ session' = None
    /\ op' = [th \in Threads |-> Idle]
    /\ UNCHANGED <<role, hash, vault, share, team, member>>

\* The steps of an operation that has begun.
Continue(th) ==
    \/ CreateVault_Envelope(th)
    \/ \E u \in Users : ShareWithTeam_Member(th, u)
    \/ CreateTeam_Leader(th)
    \/ RemoveMember_Purge(th)

\* The clicks that begin one.
Start(th) ==
    \/ \E v \in Vaults : \/ CreateVault_Insert(th, v)
                         \/ DeleteVault(th, v)
                         \/ RestoreVault(th, v)
    \/ \E v \in Vaults, u \in Users : \/ GrantVaultAccess(th, v, u)
                                      \/ RevokeVaultAccess(th, v, u)
    \/ \E v \in Vaults, t \in Teams : ShareWithTeam_Read(th, v, t)
    \/ \E t \in Teams : \/ CreateTeam_Insert(th, t)
                        \/ DeleteTeam(th, t)
    \/ \E t \in Teams, u \in Users :
          \/ \E r \in {"member", "leader"} : AddMember(th, t, u, r)
          \/ RemoveMember_Delete(th, t, u)
    \/ ChangePassword(th)
    \/ \E u \in Users : ResetPassword(th, u) \/ DeleteUser(th, u)

Next ==
    \/ \E u \in Users : Login(u)
    \/ Logout
    \/ \E th \in Threads : Start(th) \/ Continue(th)
    \/ Crash

Spec == Init /\ [][Next]_vars

\* As long as the process is not stopped, a spawned thread runs to its end by
\* itself; users need not click anything.
Uninterrupted ==
    \/ \E u \in Users : Login(u)
    \/ Logout
    \/ \E th \in Threads : Start(th) \/ Continue(th)

FairSpec ==
    /\ Init /\ [][Uninterrupted]_vars
    /\ \A th \in Threads : WF_vars(Continue(th))
-----------------------------------------------------------------------------
(* Properties.                                                              *)

\* The rows the sharing code writes in separate statements never dangle,
\* whatever is deleted between two of them: a share needs its vault row, its
\* user and, if a team produced it, that team; a membership needs its team and
\* its user; a vault row needs its owner.
ShareRowsHold ==
    \A v \in Vaults, u \in Users :
        share[v][u] # None => ShareForeignKeys(v, u, share[v][u].via)
MemberRowsHold ==
    \A t \in Teams, u \in Users :
        member[t][u] # "none" => team[t] = "live" /\ Exists(u)
VaultRowsHold ==
    \A v \in Vaults : vault[v].state \in {"live", "deleted"} =>
        vault[v].owner \in Users /\ Exists(vault[v].owner)
RowsNeverDangle == ShareRowsHold /\ MemberRowsHold /\ VaultRowsHold

\* No envelope is ever stored where somebody else's master key would open it:
\* the owner's column holds the owner's envelope, the share row of u holds one
\* sealed under a master key that u has, or had before a password change.
\* (create_vault seals under the session's key, share_vault_with_members
\* under the member's: the two must not be confused.)
EnvelopesBelongToHolder ==
    /\ \A v \in Vaults : vault[v].env # None =>
          /\ vault[v].env.user = vault[v].owner
          /\ vault[v].env.gen <= hash[vault[v].owner]
    /\ \A v \in Vaults, u \in Users : share[v][u] # None =>
          /\ share[v][u].env.user = u
          /\ share[v][u].env.gen <= hash[u]

\* Whoever the accessible_vaults view lists for a vault that has its key can
\* open it with the current password: owner, direct and team recipients.
HoldersCanOpen ==
    \A v \in Vaults, u \in Users :
        HasAccessRow(u, v) /\ EnvelopeFor(u, v) # None => Opens(u, v, MasterKey(u))

\* A live vault without its key is one whose create_vault is still running.
\* (The row is inserted with a NULL envelope before the key is stored.)
LiveVaultHasKey ==
    \A v \in Vaults : vault[v].state = "live" /\ vault[v].env = None =>
        \E th \in Threads : op[th].kind = "create_vault" /\ op[th].vault = v

\* Nobody but the owner keeps a share that came from a team they do not belong to, except
\* until the second statement of the remove_member that expelled them.
TeamShareHasMember ==
    \A v \in Vaults, u \in Users :
        share[v][u] # None /\ share[v][u].via # None /\ u # vault[v].owner =>
            \/ member[share[v][u].via][u] # "none"
            \/ \E th \in Threads : /\ op[th].kind = "remove_member"
                                   /\ op[th].team = share[v][u].via
                                   /\ op[th].user = u

\* Deleting a team revokes the shares it produced: migration 0012 keeps
\* granted_via_team "so it can be bulk-revoked when a team is deleted".
DeletedTeamIsRevoked ==
    [][\A t \in Teams, v \in Vaults, u \in Users :
         /\ team[t] = "live" /\ team'[t] = "deleted"
         /\ share[v][u] # None /\ share[v][u].via = t /\ u # vault[v].owner
         => share'[v][u] = None]_vars

\* A vault whose row was inserted gets its key, unless it is deleted first.
CreatedVaultGetsKey ==
    \A v \in Vaults : (vault[v].state = "live" /\ vault[v].env = None)
                        ~> (vault[v].env # None \/ vault[v].state # "live")

\* Once remove_member has taken a membership away it also takes away every
\* share the user had through that team.
RemovalPurges ==
    \A t \in Teams, u \in Users :
        (\E th \in Threads : op[th].kind = "remove_member"
                              /\ op[th].team = t /\ op[th].user = u)
        ~> (\A v \in Vaults : share[v][u] # None => share[v][u].via # t)
=============================================================================
