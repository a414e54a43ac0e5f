--------------------------- MODULE AccessControl ---------------------------
(***************************************************************************)
(* The authorisation decision of services/access_control.rs:               *)
(* check_permission(user, action, resource), a pure function that every    *)
(* service calls with the requester's row and a description of what the    *)
(* requester already holds on the resource.                                *)
(*                                                                         *)
(* A Result<(), AppError> is abstracted to "allowed or not": which         *)
(* AccessDeniedReason accompanies a refusal is not modelled.               *)
(***************************************************************************)

\* UserRole, TeamMemberRole (with "none" for Option::None) and
\* VaultShareRole (Read, Write, Admin).
UserRole       == {"user", "admin"}
TeamMemberRole == {"none", "member", "leader"}
VaultShareRole == {"read", "write", "admin"}

Action ==
    {"AdminManageUsers", "TeamManageMembers", "TeamReadMembers",
     "VaultCreate", "VaultOpen", "VaultWrite", "VaultList", "VaultDelete",
     "VaultShare", "VaultRevoke", "VaultRotate",
     "AuditRead", "AuditWrite", "BackupExport", "BackupRestore"}

\* The three variants of the Resource enum.
GlobalResource == [kind |-> "global"]
TeamResource(requesterRole) == [kind |-> "team", requesterRole |-> requesterRole]
VaultResource(isOwner, direct, team, shareRole) ==
    [kind |-> "vault", isOwner |-> isOwner, hasDirectShare |-> direct,
     hasTeamShare |-> team, shareRole |-> shareRole]

\* share_role is an Option<VaultShareRole>; "none" stands for None.
VaultResources ==
    {VaultResource(o, d, t, r) : o \in BOOLEAN, d \in BOOLEAN, t \in BOOLEAN,
                                 r \in VaultShareRole \cup {"none"}}

can_write(role) == role \in {"write", "admin"}
can_admin(role) == role = "admin"

HasAccess(r) == r.isOwner \/ r.hasDirectShare \/ r.hasTeamShare

\* The match arms for Resource::Vault.
VaultPermission(action, r) ==
    CASE action = "VaultOpen"   -> HasAccess(r)
      [] action = "VaultDelete" -> r.isOwner \/ can_admin(r.shareRole)
      [] action = "VaultWrite"  -> HasAccess(r) /\ (r.isOwner \/ can_write(r.shareRole))
      [] action \in {"VaultShare", "VaultRevoke", "VaultRotate"} ->
                                   HasAccess(r) /\ (r.isOwner \/ can_admin(r.shareRole))
      [] OTHER                  -> FALSE

\* The match arms for Resource::Team.
TeamPermission(action, r) ==
    \/ action = "TeamManageMembers" /\ r.requesterRole = "leader"
    \/ action = "TeamReadMembers"   /\ r.requesterRole # "none"

\* A system administrator passes every check; AuditWrite is open to all; the
\* administrative actions are refused to everybody else; any (action,
\* resource) pair without an arm is refused.
check_permission(userRole, action, r) ==
    \/ userRole = "admin"
    \/ action = "AuditWrite"
    \/ r.kind = "global" /\ action \in {"VaultCreate", "VaultList"}
    \/ r.kind = "team"   /\ TeamPermission(action, r)
    \/ r.kind = "vault"  /\ VaultPermission(action, r)
=============================================================================
