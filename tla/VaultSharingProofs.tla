------------------------- MODULE VaultSharingProofs -------------------------
(***************************************************************************)
(* Theorems about VaultSharing for any number of users, vaults, teams and  *)
(* threads, with crashes and password changes unless a theorem says so,    *)
(* and about the behaviours MCSharing keeps apart.                         *)
(***************************************************************************)
EXTENDS MCSharing, FiniteSetTheorems, TLAPS

\* What each kind of pending operation carries.
LEMMA OpFields ==
    ASSUME NEW o \in Op
    PROVE  /\ o.kind = "create_vault" => o.vault \in Vaults /\ o.env \in Envelope
           /\ o.kind \in {"create_team", "remove_member"} =>
                 o.team \in Teams /\ o.user \in Users
           /\ o.kind = "share_with_team" =>
                 o.vault \in Vaults /\ o.team \in Teams /\ o.todo \subseteq Users
  BY DEF Op, Idle

\* An operation's record is well formed when it is started.
LEMMA OpTypes ==
    /\ Idle \in Op
    /\ \A v \in Vaults, e \in Envelope : CreateVaultOp(v, e) \in Op
    /\ \A t \in Teams, u \in Users :
          CreateTeamOp(t, u) \in Op /\ RemoveMemberOp(t, u) \in Op
    /\ \A v \in Vaults, t \in Teams, S \in SUBSET Users :
          ShareWithTeamOp(v, t, S) \in Op
  BY DEF Op, CreateVaultOp, CreateTeamOp, RemoveMemberOp, ShareWithTeamOp

LEMMA MasterKeyType ==
    ASSUME TypeOK, NEW u \in Users
    PROVE  MasterKey(u) \in Envelope
  BY DEF TypeOK, MasterKey, Envelope

\* One step of share_vault_with_members: the thread's record is replaced by a
\* well formed one, with fewer members to do, and at most one share is written.
LEMMA MemberStepEffect ==
    ASSUME TypeOK, NEW th \in Threads, NEW u \in Users, ShareWithTeam_Member(th, u)
    PROVE  /\ \E o \in Op :
                 /\ op' = [op EXCEPT ![th] = o]
                 /\ \/ o = Idle
                    \/ o = ShareWithTeamOp(op[th].vault, op[th].team, op[th].todo \ {u})
           /\ \/ share' = share
              \/ /\ ShareForeignKeys(op[th].vault, u, op[th].team)
                 /\ share' = [share EXCEPT ![op[th].vault][u] =
                                [env |-> MasterKey(u), via |-> op[th].team,
                                 role |-> "read"]]
<1> DEFINE rest == op[th].todo \ {u}
           more == ShareWithTeamOp(op[th].vault, op[th].team, rest)
<1>1. more \in Op /\ Idle \in Op
  <2>1. op[th] \in Op /\ op[th].kind = "share_with_team"
    BY DEF TypeOK, ShareWithTeam_Member
  <2>2. op[th].vault \in Vaults /\ op[th].team \in Teams /\ rest \in SUBSET Users
    BY <2>1, OpFields
  <2> QED BY <2>2, OpTypes
<1>2. \/ op' = [op EXCEPT ![th] = Idle]
      \/ op' = [op EXCEPT ![th] = IF rest = {} THEN Idle ELSE more]
  BY DEF ShareWithTeam_Member
<1>3. \E o \in {Idle, more} : op' = [op EXCEPT ![th] = o]
  <2> HIDE DEF more, rest
  <2> QED BY <1>2
<1>4. \/ share' = share
      \/ /\ ShareForeignKeys(op[th].vault, u, op[th].team)
         /\ share' = [share EXCEPT ![op[th].vault][u] =
                        [env |-> MasterKey(u), via |-> op[th].team, role |-> "read"]]
  BY DEF ShareWithTeam_Member, PutShare
<1> QED BY <1>1, <1>3, <1>4

\* Every step keeps the types.
LEMMA TypeStep ==
    ASSUME TypeOK, [Next]_vars
    PROVE  TypeOK'
<1>1. ASSUME NEW u \in Users, Login(u) PROVE TypeOK'
  BY <1>1, MasterKeyType DEF TypeOK, Login, Session, Envelope
<1>2. CASE Logout
  BY <1>2 DEF TypeOK, Logout
<1>3. CASE Crash
  BY <1>3, OpTypes DEF TypeOK, Crash
<1>4. ASSUME NEW th \in Threads, Start(th) PROVE TypeOK'
  <2>1. ASSUME NEW v \in Vaults, CreateVault_Insert(th, v) PROVE TypeOK'
    <3>1. session \in Envelope /\ Me \in Users
      BY <2>1 DEF CreateVault_Insert, LoggedIn, TypeOK, Session, Envelope, Me
    <3>2. vault' \in [Vaults -> VaultRow]
      BY <2>1, <3>1 DEF CreateVault_Insert, TypeOK, VaultRow
    <3>3. op' \in [Threads -> Op]
      BY <2>1, <3>1, OpTypes DEF CreateVault_Insert, TypeOK
    <3> QED BY <2>1, <3>2, <3>3 DEF CreateVault_Insert, TypeOK
  <2>2. ASSUME NEW v \in Vaults, DeleteVault(th, v) PROVE TypeOK'
    BY <2>2 DEF DeleteVault, TypeOK, VaultRow
  <2>3. ASSUME NEW v \in Vaults, RestoreVault(th, v) PROVE TypeOK'
    BY <2>3 DEF RestoreVault, TypeOK, VaultRow
  <2>4. ASSUME NEW v \in Vaults, NEW u \in Users, GrantVaultAccess(th, v, u)
        PROVE  TypeOK'
    <3>1. [env |-> MasterKey(u), via |-> None, role |-> "write"] \in Share
      BY MasterKeyType DEF Share, VaultShareRole
    <3> QED BY <2>4, <3>1 DEF GrantVaultAccess, PutShare, TypeOK
  <2>5. ASSUME NEW v \in Vaults, NEW u \in Users, RevokeVaultAccess(th, v, u)
        PROVE  TypeOK'
    BY <2>5 DEF RevokeVaultAccess, TypeOK
  <2>6. ASSUME NEW v \in Vaults, NEW t \in Teams, ShareWithTeam_Read(th, v, t)
        PROVE  TypeOK'
    <3>1. op' \in [Threads -> Op]
      BY <2>6, OpTypes DEF ShareWithTeam_Read, TypeOK
    <3> QED BY <2>6, <3>1 DEF ShareWithTeam_Read, TypeOK
  <2>7. ASSUME NEW t \in Teams, CreateTeam_Insert(th, t) PROVE TypeOK'
    <3>1. Me \in Users
      BY <2>7 DEF CreateTeam_Insert, LoggedIn, TypeOK, Session, Me
    <3>2. op' \in [Threads -> Op]
      BY <2>7, <3>1, OpTypes DEF CreateTeam_Insert, TypeOK
    <3> QED BY <2>7, <3>2 DEF CreateTeam_Insert, TypeOK
  <2>8. ASSUME NEW t \in Teams, DeleteTeam(th, t) PROVE TypeOK'
    <3>1. share' \in [Vaults -> [Users -> Share \cup {None}]]
      <4>1. ASSUME NEW v \in Vaults, NEW u \in Users, share[v][u] # None
            PROVE  [share[v][u] EXCEPT !.via = None] \in Share
        BY <4>1 DEF TypeOK, Share
      <4> QED BY <2>8, <4>1 DEF DeleteTeam, TypeOK
    <3> QED BY <2>8, <3>1 DEF DeleteTeam, TypeOK, TeamMemberRole
  <2>9. ASSUME NEW t \in Teams, NEW u \in Users, NEW r \in {"member", "leader"},
               AddMember(th, t, u, r)
        PROVE  TypeOK'
    BY <2>9 DEF AddMember, TypeOK, TeamMemberRole
  <2>10. ASSUME NEW t \in Teams, NEW u \in Users, RemoveMember_Delete(th, t, u)
         PROVE  TypeOK'
    <3>1. op' \in [Threads -> Op]
      BY <2>10, OpTypes DEF RemoveMember_Delete, TypeOK
    <3> QED BY <2>10, <3>1 DEF RemoveMember_Delete, TypeOK, TeamMemberRole
  <2>11. CASE ChangePassword(th)
    <3>1. Me \in Users
      BY <2>11 DEF ChangePassword, LoggedIn, TypeOK, Session, Me
    <3> QED BY <2>11, <3>1, BoundAssumption DEF ChangePassword, TypeOK
  <2>12. ASSUME NEW u \in Users, ResetPassword(th, u) PROVE TypeOK'
    BY <2>12, BoundAssumption DEF ResetPassword, TypeOK
  <2>13. ASSUME NEW u \in Users, DeleteUser(th, u) PROVE TypeOK'
    BY <2>13 DEF DeleteUser, TypeOK, VaultRow, TeamMemberRole
  <2> QED BY <1>4, <2>1, <2>2, <2>3, <2>4, <2>5, <2>6, <2>7, <2>8, <2>9, <2>10,
             <2>11, <2>12, <2>13 DEF Start
<1>5. ASSUME NEW th \in Threads, Continue(th) PROVE TypeOK'
  <2>0. op[th] \in Op
    BY DEF TypeOK
  <2>1. CASE CreateVault_Envelope(th)
    <3>1. op[th].vault \in Vaults /\ op[th].env \in Envelope
      BY <2>0, <2>1, OpFields DEF CreateVault_Envelope
    <3>2. vault' \in [Vaults -> VaultRow]
      BY <2>1, <3>1 DEF CreateVault_Envelope, TypeOK, VaultRow
    <3> QED BY <2>1, <3>2, OpTypes DEF CreateVault_Envelope, TypeOK
  <2>2. ASSUME NEW u \in Users, ShareWithTeam_Member(th, u) PROVE TypeOK'
    <3>0. op[th].vault \in Vaults /\ op[th].team \in Teams /\ op[th].todo \subseteq Users
      BY <2>0, <2>2, OpFields DEF ShareWithTeam_Member
    <3>1. op' \in [Threads -> Op]
      BY <2>2, MemberStepEffect, OpTypes DEF TypeOK
    <3>2. [env |-> MasterKey(u), via |-> op[th].team, role |-> "read"] \in Share
      BY <3>0, MasterKeyType DEF Share, VaultShareRole
    <3>3. share' \in [Vaults -> [Users -> Share \cup {None}]]
      <4>1. CASE share' = share
        BY <4>1 DEF TypeOK
      <4>2. CASE share' = [share EXCEPT ![op[th].vault][u] =
                             [env |-> MasterKey(u), via |-> op[th].team, role |-> "read"]]
        BY <4>2, <3>0, <3>2 DEF TypeOK
      <4> QED BY <2>2, <4>1, <4>2, MemberStepEffect
    <3> QED BY <2>2, <3>1, <3>3 DEF ShareWithTeam_Member, TypeOK
  <2>3. CASE CreateTeam_Leader(th)
    BY <2>3, <2>0, OpTypes, OpFields DEF CreateTeam_Leader, TypeOK, TeamMemberRole
  <2>4. CASE RemoveMember_Purge(th)
    BY <2>4, OpTypes DEF RemoveMember_Purge, TypeOK
  <2> QED BY <1>5, <2>1, <2>2, <2>3, <2>4 DEF Continue
<1>6. CASE UNCHANGED vars
  BY <1>6 DEF vars, TypeOK
<1> QED BY <1>1, <1>2, <1>3, <1>4, <1>5, <1>6 DEF Next

\* Every variable keeps its type: the rows of all six tables, the session and
\* what each thread has left to do.
THEOREM TypeCorrect == Spec => []TypeOK
<1>1. Init => TypeOK
  <2> SUFFICES ASSUME Init PROVE TypeOK
    OBVIOUS
  <2>1. vault \in [Vaults -> VaultRow]
    BY DEF Init, VaultRow
  <2>2. op \in [Threads -> Op]
    BY OpTypes DEF Init
  <2>3. role \in [Users -> UserRole \cup {"absent"}] /\ hash \in [Users -> 1..MaxGen]
    BY BoundAssumption DEF Init
  <2> QED BY <2>1, <2>2, <2>3 DEF Init, TypeOK, TeamMemberRole
<1>2. TypeOK /\ [Next]_vars => TypeOK'
  BY TypeStep
<1> QED BY <1>1, <1>2, PTL DEF Spec

-----------------------------------------------------------------------------

\* Every step keeps the rows whole.
LEMMA RowsStep ==
    ASSUME TypeOK, RowsNeverDangle, [Next]_vars
    PROVE  RowsNeverDangle'
<1> USE DEF RowsNeverDangle, ShareRowsHold, MemberRowsHold, VaultRowsHold,
            ShareForeignKeys, Exists
<1>0. ASSUME UNCHANGED <<role, vault, share, team, member>> PROVE RowsNeverDangle'
  BY <1>0
<1>1. ASSUME NEW u \in Users, Login(u) PROVE RowsNeverDangle'
  BY <1>0, <1>1 DEF Login
<1>2. CASE Logout
  BY <1>0, <1>2 DEF Logout
<1>3. CASE Crash
  BY <1>0, <1>3 DEF Crash
<1>4. ASSUME NEW th \in Threads, Start(th) PROVE RowsNeverDangle'
  <2>1. ASSUME NEW v \in Vaults, CreateVault_Insert(th, v) PROVE RowsNeverDangle'
    <3>1. Me \in Users
      BY <2>1 DEF CreateVault_Insert, LoggedIn, TypeOK, Session, Me
    <3> QED BY <2>1, <3>1 DEF CreateVault_Insert, TypeOK, VaultRow
  <2>2. ASSUME NEW v \in Vaults, DeleteVault(th, v) PROVE RowsNeverDangle'
    BY <2>2 DEF DeleteVault, HasAccessRow, TypeOK, VaultRow
  <2>3. ASSUME NEW v \in Vaults, RestoreVault(th, v) PROVE RowsNeverDangle'
    BY <2>3 DEF RestoreVault, TypeOK, VaultRow
  <2>4. ASSUME NEW v \in Vaults, NEW u \in Users, GrantVaultAccess(th, v, u)
        PROVE  RowsNeverDangle'
    BY <2>4 DEF GrantVaultAccess, PutShare, TypeOK
  <2>5. ASSUME NEW v \in Vaults, NEW u \in Users, RevokeVaultAccess(th, v, u)
        PROVE  RowsNeverDangle'
    BY <2>5 DEF RevokeVaultAccess, TypeOK
  <2>6. ASSUME NEW v \in Vaults, NEW t \in Teams, ShareWithTeam_Read(th, v, t)
        PROVE  RowsNeverDangle'
    BY <1>0, <2>6 DEF ShareWithTeam_Read
  <2>7. ASSUME NEW t \in Teams, CreateTeam_Insert(th, t) PROVE RowsNeverDangle'
    BY <2>7 DEF CreateTeam_Insert, TypeOK, Share
  <2>8. ASSUME NEW t \in Teams, DeleteTeam(th, t) PROVE RowsNeverDangle'
    <3>1. ASSUME NEW v \in Vaults, NEW w \in Users, share'[v][w] # None
          PROVE  ShareForeignKeys(v, w, share[v][w].via)'
      BY <2>8, <3>1 DEF DeleteTeam, TypeOK, Share
    <3> QED BY <2>8, <3>1 DEF DeleteTeam, TypeOK
  <2>9. ASSUME NEW t \in Teams, NEW u \in Users, NEW r \in {"member", "leader"},
               AddMember(th, t, u, r)
        PROVE  RowsNeverDangle'
    BY <2>9 DEF AddMember, TypeOK
  <2>10. ASSUME NEW t \in Teams, NEW u \in Users, RemoveMember_Delete(th, t, u)
         PROVE  RowsNeverDangle'
    BY <2>10 DEF RemoveMember_Delete, TypeOK
  <2>11. CASE ChangePassword(th)
    BY <1>0, <2>11 DEF ChangePassword
  <2>12. ASSUME NEW u \in Users, ResetPassword(th, u) PROVE RowsNeverDangle'
    BY <1>0, <2>12 DEF ResetPassword
  <2>13. ASSUME NEW u \in Users, DeleteUser(th, u) PROVE RowsNeverDangle'
    <3>1. ShareRowsHold'
      BY <2>13 DEF DeleteUser, TypeOK, VaultRow
    <3>2. MemberRowsHold'
      BY <2>13 DEF DeleteUser, TypeOK
    <3>3. VaultRowsHold'
      BY <2>13 DEF DeleteUser, TypeOK, VaultRow
    <3> QED BY <3>1, <3>2, <3>3
  <2> QED BY <1>4, <2>1, <2>2, <2>3, <2>4, <2>5, <2>6, <2>7, <2>8, <2>9, <2>10,
             <2>11, <2>12, <2>13 DEF Start
<1>5. ASSUME NEW th \in Threads, Continue(th) PROVE RowsNeverDangle'
  <2>0. op[th] \in Op
    BY DEF TypeOK
  <2>1. CASE CreateVault_Envelope(th)
    <3>1. op[th].vault \in Vaults
      BY <2>0, <2>1, OpFields DEF CreateVault_Envelope
    <3> QED BY <2>1, <3>1 DEF CreateVault_Envelope, TypeOK, VaultRow
  <2>2. ASSUME NEW u \in Users, ShareWithTeam_Member(th, u) PROVE RowsNeverDangle'
    <3>1. op[th].vault \in Vaults /\ op[th].team \in Teams
      BY <2>0, <2>2, OpFields DEF ShareWithTeam_Member
    <3>2. UNCHANGED <<role, vault, team, member>>
      BY <2>2 DEF ShareWithTeam_Member
    <3>3. CASE share' = share
      BY <1>0, <3>2, <3>3
    <3>4. CASE share' # share
      <4>1. /\ ShareForeignKeys(op[th].vault, u, op[th].team)
            /\ share' = [share EXCEPT ![op[th].vault][u] =
                           [env |-> MasterKey(u), via |-> op[th].team, role |-> "read"]]
        BY <2>2, <3>4, MemberStepEffect
      <4> QED BY <3>1, <3>2, <4>1 DEF TypeOK
    <3> QED BY <3>3, <3>4
  <2>3. CASE CreateTeam_Leader(th)
    <3>1. op[th].team \in Teams /\ op[th].user \in Users
      BY <2>0, <2>3, OpFields DEF CreateTeam_Leader
    <3> QED BY <2>3, <3>1 DEF CreateTeam_Leader, TypeOK
  <2>4. CASE RemoveMember_Purge(th)
    BY <2>4 DEF RemoveMember_Purge, TypeOK
  <2> QED BY <1>5, <2>1, <2>2, <2>3, <2>4 DEF Continue
<1>6. CASE UNCHANGED vars
  BY <1>0, <1>6 DEF vars
<1> QED BY <1>1, <1>2, <1>3, <1>4, <1>5, <1>6 DEF Next

\* No interleaving of two-statement operations, deletions and crashes leaves a
\* dangling row: a share whose vault, user or team has gone, a membership of
\* a deleted team or user, or a vault without its owner.
THEOREM RowsHold == Spec => []RowsNeverDangle
<1>1. Init => RowsNeverDangle
  BY DEF Init, RowsNeverDangle, ShareRowsHold, MemberRowsHold, VaultRowsHold
<1>2. TypeOK /\ RowsNeverDangle /\ [Next]_vars => RowsNeverDangle'
  BY RowsStep
<1> QED BY <1>1, <1>2, TypeCorrect, PTL DEF Spec

-----------------------------------------------------------------------------

\* What is on its way into those rows: the master key the windows hold is one
\* its user has or had, and a create_vault that still has to store its envelope
\* has sealed it for the owner of that vault.  It says nothing a reader would
\* ask for; the stored envelopes are not inductive without it.
KeysInFlight ==
    /\ session # None => session.gen <= hash[session.user]
    /\ \A th \in Threads : op[th].kind = "create_vault" =>
          /\ vault[op[th].vault].state # "unused"
          /\ op[th].env.user = vault[op[th].vault].owner
          /\ op[th].env.gen <= hash[op[th].env.user]

\* The inductive invariant of the next theorem.
EnvelopeInv == EnvelopesBelongToHolder /\ KeysInFlight

\* Every step keeps the envelopes with their holders.
LEMMA EnvelopeStep ==
    ASSUME TypeOK, EnvelopeInv, [Next]_vars
    PROVE  EnvelopeInv'
<1> USE DEF EnvelopeInv, EnvelopesBelongToHolder, KeysInFlight
<1>0. ASSUME UNCHANGED <<hash, vault, share, session, op>> PROVE EnvelopeInv'
  BY <1>0
<1>1. ASSUME NEW u \in Users, Login(u) PROVE EnvelopeInv'
  BY <1>1 DEF Login, MasterKey, TypeOK
<1>2. CASE Logout
  BY <1>2 DEF Logout
<1>3. CASE Crash
  BY <1>3 DEF Crash, Idle
<1>4. ASSUME NEW th \in Threads, Start(th) PROVE EnvelopeInv'
  <2>1. ASSUME NEW v \in Vaults, CreateVault_Insert(th, v) PROVE EnvelopeInv'
    <3>1. session \in Envelope
      BY <2>1 DEF CreateVault_Insert, LoggedIn, TypeOK, Session, Envelope
    <3>2. \A x \in Threads : op[x].kind = "create_vault" => op[x].vault # v
      BY <2>1 DEF CreateVault_Insert
    <3>3. KeysInFlight'
      <4>1. ASSUME NEW x \in Threads, op'[x].kind = "create_vault"
            PROVE  /\ vault'[op'[x].vault].state # "unused"
                   /\ op'[x].env.user = vault'[op'[x].vault].owner
                   /\ op'[x].env.gen <= hash'[op'[x].env.user]
        <5>1. CASE x = th
          BY <2>1, <3>1, <5>1 DEF CreateVault_Insert, CreateVaultOp, Me, LoggedIn, TypeOK
        <5>2. CASE x # th
          <6>1. op'[x] = op[x] /\ op[x] \in Op /\ op[x].vault # v
            BY <2>1, <3>2, <4>1, <5>2 DEF CreateVault_Insert, TypeOK
          <6>2. op[x].vault \in Vaults
            BY <4>1, <6>1, OpFields
          <6> QED BY <2>1, <4>1, <6>1, <6>2 DEF CreateVault_Insert, TypeOK
        <5> QED BY <5>1, <5>2
      <4> QED BY <2>1, <4>1 DEF CreateVault_Insert
    <3>4. EnvelopesBelongToHolder'
      BY <2>1 DEF CreateVault_Insert, TypeOK
    <3> QED BY <3>3, <3>4
  <2>2. ASSUME NEW v \in Vaults, DeleteVault(th, v) PROVE EnvelopeInv'
    BY <2>2 DEF DeleteVault, TypeOK, VaultRow
  <2>3. ASSUME NEW v \in Vaults, RestoreVault(th, v) PROVE EnvelopeInv'
    BY <2>3 DEF RestoreVault, TypeOK, VaultRow
  <2>4. ASSUME NEW v \in Vaults, NEW u \in Users, GrantVaultAccess(th, v, u)
        PROVE  EnvelopeInv'
    BY <2>4 DEF GrantVaultAccess, PutShare, MasterKey, TypeOK
  <2>5. ASSUME NEW v \in Vaults, NEW u \in Users, RevokeVaultAccess(th, v, u)
        PROVE  EnvelopeInv'
    BY <2>5 DEF RevokeVaultAccess, TypeOK
  <2>6. ASSUME NEW v \in Vaults, NEW t \in Teams, ShareWithTeam_Read(th, v, t)
        PROVE  EnvelopeInv'
    BY <2>6 DEF ShareWithTeam_Read, ShareWithTeamOp, TypeOK
  <2>7. ASSUME NEW t \in Teams, CreateTeam_Insert(th, t) PROVE EnvelopeInv'
    BY <2>7 DEF CreateTeam_Insert, CreateTeamOp, TypeOK
  <2>8. ASSUME NEW t \in Teams, DeleteTeam(th, t) PROVE EnvelopeInv'
    <3>1. ASSUME NEW v \in Vaults, NEW w \in Users, share'[v][w] # None
          PROVE  share'[v][w].env = share[v][w].env /\ share[v][w] # None
      BY <2>8, <3>1 DEF DeleteTeam, TypeOK, Share
    <3> QED BY <2>8, <3>1 DEF DeleteTeam, TypeOK
  <2>9. ASSUME NEW t \in Teams, NEW u \in Users, NEW r \in {"member", "leader"},
               AddMember(th, t, u, r)
        PROVE  EnvelopeInv'
    BY <1>0, <2>9 DEF AddMember
  <2>10. ASSUME NEW t \in Teams, NEW u \in Users, RemoveMember_Delete(th, t, u)
         PROVE  EnvelopeInv'
    BY <2>10 DEF RemoveMember_Delete, RemoveMemberOp, TypeOK
  <2>11. ASSUME NEW u \in Users, hash' = [hash EXCEPT ![u] = @ + 1],
                UNCHANGED <<vault, share, session, op>>
         PROVE  EnvelopeInv'
    <3>1. ASSUME NEW w \in Users, NEW g \in 1..MaxGen, g <= hash[w]
          PROVE  g <= hash'[w]
      BY <2>11, <3>1, BoundAssumption DEF TypeOK
    <3>2. session # None => session \in Envelope
      BY DEF TypeOK, Session, Envelope
    <3>3. ASSUME NEW x \in Threads, op[x].kind = "create_vault"
          PROVE  op[x].env \in Envelope
      BY <3>3, OpFields DEF TypeOK
    <3>4. \A v \in Vaults : vault[v].env # None => vault[v].env \in Envelope
      BY DEF TypeOK, VaultRow
    <3>5. \A v \in Vaults, w \in Users : share[v][w] # None => share[v][w].env \in Envelope
      BY DEF TypeOK, Share
    <3> QED BY <2>11, <3>1, <3>2, <3>3, <3>4, <3>5 DEF Envelope
  <2>12. CASE ChangePassword(th)
    <3>1. Me \in Users
      BY <2>12 DEF ChangePassword, LoggedIn, TypeOK, Session, Me
    <3> QED BY <2>11, <2>12, <3>1 DEF ChangePassword
  <2>13. ASSUME NEW u \in Users, ResetPassword(th, u) PROVE EnvelopeInv'
    BY <2>11, <2>13 DEF ResetPassword
  <2>14. ASSUME NEW u \in Users, DeleteUser(th, u) PROVE EnvelopeInv'
    <3>1. \A v \in Vaults : vault'[v].owner = vault[v].owner /\ vault'[v].env = vault[v].env
                            /\ (vault'[v].state = "unused" => vault[v].state = "unused")
      BY <2>14 DEF DeleteUser, TypeOK, VaultRow
    <3>2. \A v \in Vaults, w \in Users : share'[v][w] # None => share'[v][w] = share[v][w]
      BY <2>14 DEF DeleteUser
    <3>3. ASSUME NEW x \in Threads, op[x].kind = "create_vault"
          PROVE  op[x].vault \in Vaults
      BY <3>3, OpFields DEF TypeOK
    <3> QED BY <2>14, <3>1, <3>2, <3>3 DEF DeleteUser
  <2> QED BY <1>4, <2>1, <2>2, <2>3, <2>4, <2>5, <2>6, <2>7, <2>8, <2>9, <2>10,
             <2>12, <2>13, <2>14 DEF Start
<1>5. ASSUME NEW th \in Threads, Continue(th) PROVE EnvelopeInv'
  <2>0. op[th] \in Op
    BY DEF TypeOK
  <2>1. CASE CreateVault_Envelope(th)
    <3>1. op[th].vault \in Vaults /\ op[th].env \in Envelope
      BY <2>0, <2>1, OpFields DEF CreateVault_Envelope
    <3> QED BY <2>1, <3>1 DEF CreateVault_Envelope, TypeOK, VaultRow, Envelope, Idle
  <2>2. ASSUME NEW u \in Users, ShareWithTeam_Member(th, u) PROVE EnvelopeInv'
    <3>1. op[th].vault \in Vaults /\ op[th].team \in Teams
      BY <2>0, <2>2, OpFields DEF ShareWithTeam_Member
    <3>2. UNCHANGED <<hash, vault, session>>
      BY <2>2 DEF ShareWithTeam_Member
    <3>3. \A v \in Vaults, w \in Users : share'[v][w] # None =>
              \/ share'[v][w] = share[v][w]
              \/ share'[v][w].env = MasterKey(w)
      <4>1. \/ share' = share
            \/ share' = [share EXCEPT ![op[th].vault][u] =
                           [env |-> MasterKey(u), via |-> op[th].team, role |-> "read"]]
        BY <2>2, MemberStepEffect
      <4>2. CASE share' = share
        BY <4>2
      <4>3. CASE share' = [share EXCEPT ![op[th].vault][u] =
                             [env |-> MasterKey(u), via |-> op[th].team, role |-> "read"]]
        BY <3>1, <4>3 DEF TypeOK
      <4> QED BY <4>1, <4>2, <4>3
    <3>4. \A x \in Threads : op'[x].kind = "create_vault" => op'[x] = op[x]
      <4>1. PICK o \in Op : op' = [op EXCEPT ![th] = o] /\ o.kind # "create_vault"
        <5>1. PICK o \in Op : /\ op' = [op EXCEPT ![th] = o]
                              /\ \/ o = Idle
                                 \/ o = ShareWithTeamOp(op[th].vault, op[th].team,
                                                       op[th].todo \ {u})
          BY <2>2, MemberStepEffect
        <5>2. o.kind # "create_vault"
          BY <5>1 DEF Idle, ShareWithTeamOp
        <5> QED BY <5>1, <5>2
      <4> QED BY <4>1 DEF TypeOK
    <3>5. EnvelopesBelongToHolder'
      <4>1. ASSUME NEW v \in Vaults, NEW w \in Users, share'[v][w] # None
            PROVE  share'[v][w].env.user = w /\ share'[v][w].env.gen <= hash[w]
        <5>1. MasterKey(w).user = w /\ MasterKey(w).gen <= hash[w]
          BY DEF MasterKey, TypeOK
        <5> QED BY <3>3, <4>1, <5>1
      <4> QED BY <3>2, <4>1
    <3>6. KeysInFlight'
      BY <3>2, <3>4
    <3> QED BY <3>5, <3>6
  <2>3. CASE CreateTeam_Leader(th)
    BY <2>3 DEF CreateTeam_Leader, TypeOK, Idle
  <2>4. CASE RemoveMember_Purge(th)
    BY <2>4 DEF RemoveMember_Purge, TypeOK, Idle
  <2> QED BY <1>5, <2>1, <2>2, <2>3, <2>4 DEF Continue
<1>6. CASE UNCHANGED vars
  BY <1>0, <1>6 DEF vars
<1> QED BY <1>1, <1>2, <1>3, <1>4, <1>5, <1>6 DEF Next

\* Every stored envelope can be opened by its holder's present or past master
\* key, and nobody else's.  The property alone is not inductive: an envelope
\* is sealed in one statement and stored in the next, when the session may
\* have changed, so the keys in flight are part of the invariant.
THEOREM EnvelopesCorrect == Spec => []EnvelopesBelongToHolder
<1>1. Init => EnvelopeInv
  BY DEF Init, EnvelopeInv, EnvelopesBelongToHolder, KeysInFlight, Idle
<1>2. TypeOK /\ EnvelopeInv /\ [Next]_vars => EnvelopeInv'
  BY EnvelopeStep
<1>3. EnvelopeInv => EnvelopesBelongToHolder
  BY DEF EnvelopeInv
<1> QED BY <1>1, <1>2, <1>3, TypeCorrect, PTL DEF Spec

-----------------------------------------------------------------------------

\* Between the two statements of create_vault the vault has no key; without a
\* crash that is the only time a live vault has none, however many threads
\* create, delete and restore vaults meanwhile.
THEOREM LiveVaultsHaveKeys == Crashes = FALSE => (Spec => []LiveVaultHasKey)
<1> SUFFICES ASSUME Crashes = FALSE PROVE Spec => []LiveVaultHasKey
  OBVIOUS
<1>1. Init => LiveVaultHasKey
  BY DEF Init, LiveVaultHasKey
<1>2. TypeOK /\ LiveVaultHasKey /\ [Next]_vars => LiveVaultHasKey'
  <2> SUFFICES ASSUME TypeOK, LiveVaultHasKey, [Next]_vars PROVE LiveVaultHasKey'
    OBVIOUS
  <2> DEFINE Keyless(v) == vault[v].state = "live" /\ vault[v].env = None
             Creating(v) == \E x \in Threads : op[x].kind = "create_vault" /\ op[x].vault = v
  \* Enough: no vault becomes keyless and no create_vault disappears.
  <2>0. ASSUME \A v \in Vaults : Keyless(v)' => Keyless(v),
               \A x \in Threads : op[x].kind = "create_vault" => op'[x] = op[x]
        PROVE  LiveVaultHasKey'
    BY <2>0 DEF LiveVaultHasKey
  <2>1. ASSUME NEW u \in Users, Login(u) PROVE LiveVaultHasKey'
    BY <2>0, <2>1 DEF Login
  <2>2. CASE Logout
    BY <2>0, <2>2 DEF Logout
  <2>3. CASE Crash
    BY <2>3 DEF Crash
  <2>4. ASSUME NEW th \in Threads, Start(th) PROVE LiveVaultHasKey'
    <3>0. ASSUME op[th] = Idle, NEW o, op' = [op EXCEPT ![th] = o]
          PROVE  \A x \in Threads : op[x].kind = "create_vault" => op'[x] = op[x]
      BY <3>0 DEF TypeOK, Idle
    <3>1. ASSUME NEW v \in Vaults, CreateVault_Insert(th, v) PROVE LiveVaultHasKey'
      <4>1. op'[th].kind = "create_vault" /\ op'[th].vault = v
        BY <3>1 DEF CreateVault_Insert, CreateVaultOp, TypeOK
      <4>2. \A w \in Vaults \ {v} : vault'[w] = vault[w]
        BY <3>1 DEF CreateVault_Insert, TypeOK
      <4>3. \A x \in Threads : op[x].kind = "create_vault" => op'[x] = op[x]
        BY <3>0, <3>1 DEF CreateVault_Insert
      <4> QED BY <4>1, <4>2, <4>3 DEF LiveVaultHasKey
    <3>2. ASSUME NEW v \in Vaults, DeleteVault(th, v) PROVE LiveVaultHasKey'
      BY <2>0, <3>2 DEF DeleteVault, TypeOK, VaultRow
    <3>3. ASSUME NEW v \in Vaults, RestoreVault(th, v) PROVE LiveVaultHasKey'
      BY <2>0, <3>3 DEF RestoreVault, TypeOK, VaultRow
    <3>4. ASSUME NEW v \in Vaults, NEW u \in Users,
                 GrantVaultAccess(th, v, u) \/ RevokeVaultAccess(th, v, u)
          PROVE  LiveVaultHasKey'
      BY <2>0, <3>4 DEF GrantVaultAccess, RevokeVaultAccess
    <3>5. ASSUME NEW v \in Vaults, NEW t \in Teams, ShareWithTeam_Read(th, v, t)
          PROVE  LiveVaultHasKey'
      BY <2>0, <3>0, <3>5 DEF ShareWithTeam_Read
    <3>6. ASSUME NEW t \in Teams, CreateTeam_Insert(th, t) PROVE LiveVaultHasKey'
      BY <2>0, <3>0, <3>6 DEF CreateTeam_Insert
    <3>7. ASSUME NEW t \in Teams, DeleteTeam(th, t) PROVE LiveVaultHasKey'
      BY <2>0, <3>7 DEF DeleteTeam
    <3>8. ASSUME NEW t \in Teams, NEW u \in Users, NEW r \in {"member", "leader"},
                 AddMember(th, t, u, r)
          PROVE  LiveVaultHasKey'
      BY <2>0, <3>8 DEF AddMember
    <3>9. ASSUME NEW t \in Teams, NEW u \in Users, RemoveMember_Delete(th, t, u)
          PROVE  LiveVaultHasKey'
      BY <2>0, <3>0, <3>9 DEF RemoveMember_Delete
    <3>10. CASE ChangePassword(th)
      BY <2>0, <3>10 DEF ChangePassword
    <3>11. ASSUME NEW u \in Users, ResetPassword(th, u) PROVE LiveVaultHasKey'
      BY <2>0, <3>11 DEF ResetPassword
    <3>12. ASSUME NEW u \in Users, DeleteUser(th, u) PROVE LiveVaultHasKey'
      BY <2>0, <3>12 DEF DeleteUser, TypeOK, VaultRow
    <3> QED BY <2>4, <3>1, <3>2, <3>3, <3>4, <3>5, <3>6, <3>7, <3>8, <3>9, <3>10,
               <3>11, <3>12 DEF Start
  <2>5. ASSUME NEW th \in Threads, Continue(th) PROVE LiveVaultHasKey'
    <3>0. ASSUME op[th].kind # "create_vault", NEW o, op' = [op EXCEPT ![th] = o],
                 vault' = vault
          PROVE  LiveVaultHasKey'
      BY <2>0, <3>0 DEF TypeOK
    <3>1. CASE CreateVault_Envelope(th)
      <4>1. op[th].vault \in Vaults /\ op[th].env \in Envelope
        BY <3>1, OpFields DEF CreateVault_Envelope, TypeOK
      <4>2. ~(vault'[op[th].vault].state = "live" /\ vault'[op[th].vault].env = None)
        BY <3>1, <4>1, NoEnvelopeAssumption DEF CreateVault_Envelope, TypeOK, VaultRow
      <4>3. \A w \in Vaults : w # op[th].vault => vault'[w] = vault[w]
        BY <3>1, <4>1 DEF CreateVault_Envelope, TypeOK
      <4>4. \A x \in Threads : x # th => op'[x] = op[x]
        BY <3>1 DEF CreateVault_Envelope, TypeOK
      <4> QED BY <4>2, <4>3, <4>4 DEF LiveVaultHasKey
    <3>2. ASSUME NEW u \in Users, ShareWithTeam_Member(th, u) PROVE LiveVaultHasKey'
      <4>1. PICK o \in Op : op' = [op EXCEPT ![th] = o]
        BY <3>2, MemberStepEffect
      <4>2. op[th].kind # "create_vault" /\ vault' = vault
        BY <3>2 DEF ShareWithTeam_Member
      <4> QED BY <3>0, <4>1, <4>2
    <3>3. CASE CreateTeam_Leader(th)
      BY <3>0, <3>3 DEF CreateTeam_Leader
    <3>4. CASE RemoveMember_Purge(th)
      BY <3>0, <3>4 DEF RemoveMember_Purge
    <3> QED BY <2>5, <3>1, <3>2, <3>3, <3>4 DEF Continue
  <2>6. CASE UNCHANGED vars
    BY <2>0, <2>6 DEF vars
  <2> QED BY <2>1, <2>2, <2>3, <2>4, <2>5, <2>6 DEF Next
<1> QED BY <1>1, <1>2, TypeCorrect, PTL DEF Spec
-----------------------------------------------------------------------------
(* MCSharing: no password changes any more, one operation at a time.        *)

\* What holds of all behaviours holds of those of MCSharing, which begin later.
CommonInv == TypeOK /\ RowsNeverDangle /\ EnvelopeInv

LEMMA MCStep == [MCNext]_vars => [Next]_vars
  BY DEF MCNext, Next

LEMMA CommonInit == MCInit => CommonInv
<1> SUFFICES ASSUME MCInit PROVE CommonInv
  OBVIOUS
<1>1. /\ role \in [Users -> UserRole \cup {"absent"}] /\ hash \in [Users -> 1..MaxGen]
      /\ team \in [Teams -> {"unused", "live", "deleted"}]
  BY BoundAssumption DEF MCInit, AfterPasswordChanges, AfterDeletions
<1>2. vault \in [Vaults -> VaultRow] /\ op \in [Threads -> Op]
  BY OpTypes DEF MCInit, NoVaultYet, VaultRow
<1>3. TypeOK
  BY <1>1, <1>2 DEF MCInit, NoVaultYet, TypeOK, TeamMemberRole
<1>4. RowsNeverDangle
  BY DEF MCInit, NoVaultYet, RowsNeverDangle, ShareRowsHold, MemberRowsHold, VaultRowsHold
<1>5. EnvelopeInv
  BY DEF MCInit, NoVaultYet, EnvelopeInv, EnvelopesBelongToHolder, KeysInFlight, Idle
<1> QED BY <1>3, <1>4, <1>5 DEF CommonInv

LEMMA CommonStep == CommonInv /\ [MCNext]_vars => CommonInv'
  BY MCStep, TypeStep, RowsStep, EnvelopeStep DEF CommonInv

\* A deleted account keeps its last password, which is not the last number.
Marked == \E u \in Users : ~Exists(u) /\ hash[u] # MaxGen

\* A password at the last number stays, and so does that of a deleted account.
LEMMA PasswordsStay ==
    ASSUME TypeOK, [Next]_vars
    PROVE  \A u \in Users :
              /\ hash[u] = MaxGen \/ ~Exists(u) => hash'[u] = hash[u]
              /\ ~Exists(u) => ~Exists(u)'
<1>0. ASSUME UNCHANGED <<role, hash>>
      PROVE  \A u \in Users : hash'[u] = hash[u] /\ (~Exists(u) => ~Exists(u)')
  BY <1>0 DEF Exists
<1>1. ASSUME NEW th \in Threads, ChangePassword(th)
      PROVE  \A u \in Users : /\ hash[u] = MaxGen \/ ~Exists(u) => hash'[u] = hash[u]
                              /\ ~Exists(u) => ~Exists(u)'
  BY <1>1 DEF ChangePassword, TypeOK, Exists
<1>2. ASSUME NEW th \in Threads, NEW w \in Users, ResetPassword(th, w)
      PROVE  \A u \in Users : /\ hash[u] = MaxGen \/ ~Exists(u) => hash'[u] = hash[u]
                              /\ ~Exists(u) => ~Exists(u)'
  BY <1>2 DEF ResetPassword, TypeOK, Exists
<1>3. ASSUME NEW th \in Threads, NEW w \in Users, DeleteUser(th, w)
      PROVE  \A u \in Users : hash'[u] = hash[u] /\ (~Exists(u) => ~Exists(u)')
  BY <1>3 DEF DeleteUser, TypeOK, Exists
<1>4. ASSUME NEW th \in Threads, Start(th)
      PROVE  \/ UNCHANGED <<role, hash>> \/ ChangePassword(th)
             \/ \E u \in Users : ResetPassword(th, u) \/ DeleteUser(th, u)
  BY <1>4 DEF Start, CreateVault_Insert, DeleteVault, RestoreVault, GrantVaultAccess,
     RevokeVaultAccess, ShareWithTeam_Read, CreateTeam_Insert, DeleteTeam, AddMember,
     RemoveMember_Delete
<1>5. ASSUME NEW th \in Threads, Continue(th) PROVE UNCHANGED <<role, hash>>
  BY <1>5 DEF Continue, CreateVault_Envelope, ShareWithTeam_Member, CreateTeam_Leader,
     RemoveMember_Purge
<1>6. ASSUME NEW u \in Users, Login(u) PROVE UNCHANGED <<role, hash>>
  BY <1>6 DEF Login
<1>7. ASSUME Logout \/ Crash \/ UNCHANGED vars PROVE UNCHANGED <<role, hash>>
  BY <1>7 DEF Logout, Crash, vars
<1> QED BY <1>0, <1>1, <1>2, <1>3, <1>4, <1>5, <1>6, <1>7 DEF Next

\* The two kinds of behaviours stay apart.
LEMMA KindStays ==
    ASSUME TypeOK, alone \/ Marked, [Next]_vars
    PROVE  /\ alone => alone' /\ hash' = hash
           /\ Marked => Marked'
           /\ alone' => alone
<1>1. ASSUME Marked PROVE Marked' /\ ~alone'
  BY <1>1, PasswordsStay DEF Marked, alone
<1>2. ASSUME alone PROVE alone' /\ hash' = hash
  <2>1. TypeOK'
    BY TypeStep
  <2>2. \A u \in Users : hash'[u] = hash[u]
    BY <1>2, PasswordsStay DEF alone
  <2> QED BY <1>2, <2>1, <2>2 DEF alone, TypeOK
<1> QED BY <1>1, <1>2

\* Every key, stored or on its way, is sealed under the last password.
KeysCurrent ==
    /\ session # None => session.gen = MaxGen
    /\ \A th \in Threads : op[th].kind = "create_vault" => op[th].env.gen = MaxGen
    /\ \A v \in Vaults : vault[v].env # None => vault[v].env.gen = MaxGen
    /\ \A v \in Vaults, u \in Users : share[v][u] # None => share[v][u].env.gen = MaxGen
\* Deleting or restoring a vault changes neither its owner nor its envelope.
LEMMA StateOnly ==
    ASSUME TypeOK, NEW v \in Vaults, NEW s, vault' = [vault EXCEPT ![v].state = s],
           NEW w \in Vaults
    PROVE  vault'[w].owner = vault[w].owner /\ vault'[w].env = vault[w].env
<1>1. /\ vault[w] \in VaultRow
      /\ vault'[w] = IF w = v THEN [vault[w] EXCEPT !.state = s] ELSE vault[w]
  BY DEF TypeOK
<1>2. \A x \in VaultRow : /\ [x EXCEPT !.state = s].owner = x.owner
                           /\ [x EXCEPT !.state = s].env = x.env
  BY DEF VaultRow
<1> QED BY <1>1, <1>2

\* While every password is at its last number no step seals under an older one,
\* whatever runs at the same time.
LEMMA KeysStep ==
    ASSUME TypeOK, alone, KeysCurrent, [Next]_vars
    PROVE  KeysCurrent'
<1>0. ASSUME \A x \in Threads : op'[x].kind = "create_vault" => op'[x] = op[x],
             \A v \in Vaults : vault'[v].env = vault[v].env,
             \A v \in Vaults, u \in Users :
                share'[v][u] # None => /\ share[v][u] # None
                                       /\ share'[v][u].env = share[v][u].env,
             session' \in {session, None}
      PROVE  KeysCurrent'
  BY <1>0 DEF KeysCurrent
<1>a. \A u \in Users : MasterKey(u).gen = MaxGen
  BY DEF MasterKey, alone
<1>b. ASSUME NEW v \in Vaults, NEW u \in Users, NEW t, NEW r, PutShare(v, u, t, r)
      PROVE  \A w \in Vaults, x \in Users : share'[w][x] # None =>
                \/ share'[w][x].env.gen = MaxGen
                \/ share'[w][x] = share[w][x]
  BY <1>a, <1>b DEF PutShare, TypeOK
<1>1. ASSUME NEW u \in Users, Login(u) PROVE KeysCurrent'
  BY <1>1, <1>a DEF Login, KeysCurrent
<1>2. CASE Logout
  BY <1>0, <1>2 DEF Logout
<1>3. CASE Crash
  BY <1>0, <1>3 DEF Crash, Idle
<1>4. ASSUME NEW th \in Threads, Start(th) PROVE KeysCurrent'
  <2>1. ASSUME NEW v \in Vaults, CreateVault_Insert(th, v) PROVE KeysCurrent'
    <3>1. \A x \in Threads : op'[x] = IF x = th THEN CreateVaultOp(v, session) ELSE op[x]
      BY <2>1 DEF CreateVault_Insert, TypeOK
    <3>2. \A w \in Vaults : vault'[w].env = IF w = v THEN None ELSE vault[w].env
      BY <2>1 DEF CreateVault_Insert, TypeOK
    <3>3. session # None /\ UNCHANGED <<share, session>>
      BY <2>1 DEF CreateVault_Insert, LoggedIn
    <3> QED BY <3>1, <3>2, <3>3 DEF KeysCurrent, CreateVaultOp
  <2>2. ASSUME NEW v \in Vaults, DeleteVault(th, v) \/ RestoreVault(th, v) PROVE KeysCurrent'
    <3>0. \E s : vault' = [vault EXCEPT ![v].state = s]
      BY <2>2 DEF DeleteVault, RestoreVault
    <3>1. \A w \in Vaults : vault'[w].env = vault[w].env
      BY <3>0, StateOnly
    <3> QED BY <1>0, <2>2, <3>1 DEF DeleteVault, RestoreVault
  <2>3. ASSUME NEW v \in Vaults, NEW u \in Users, GrantVaultAccess(th, v, u)
        PROVE  KeysCurrent'
    BY <1>b, <2>3 DEF GrantVaultAccess, KeysCurrent
  <2>4. ASSUME NEW v \in Vaults, NEW u \in Users, RevokeVaultAccess(th, v, u)
        PROVE  KeysCurrent'
    BY <1>0, <2>4 DEF RevokeVaultAccess, TypeOK
  <2>5. ASSUME NEW v \in Vaults, NEW t \in Teams, ShareWithTeam_Read(th, v, t)
        PROVE  KeysCurrent'
    BY <1>0, <2>5 DEF ShareWithTeam_Read, ShareWithTeamOp, TypeOK
  <2>6. ASSUME NEW t \in Teams, CreateTeam_Insert(th, t) PROVE KeysCurrent'
    BY <1>0, <2>6 DEF CreateTeam_Insert, CreateTeamOp, TypeOK
  <2>7. ASSUME NEW t \in Teams, DeleteTeam(th, t) PROVE KeysCurrent'
    <3>1. ASSUME NEW v \in Vaults, NEW u \in Users, share'[v][u] # None
          PROVE  share[v][u] # None /\ share'[v][u].env = share[v][u].env
      BY <2>7, <3>1 DEF DeleteTeam, TypeOK, Share
    <3> QED BY <1>0, <2>7, <3>1 DEF DeleteTeam
  <2>8. ASSUME NEW t \in Teams, NEW u \in Users,
               RemoveMember_Delete(th, t, u) \/ \E r \in {"member", "leader"} : AddMember(th, t, u, r)
        PROVE  KeysCurrent'
    BY <1>0, <2>8 DEF RemoveMember_Delete, RemoveMemberOp, AddMember, TypeOK
  <2>9. ASSUME NEW u \in Users, ResetPassword(th, u) PROVE KeysCurrent'
    BY <1>0, <2>9 DEF ResetPassword
  <2>10. CASE ChangePassword(th)
    BY <1>0, <2>10 DEF ChangePassword
  <2>11. ASSUME NEW u \in Users, DeleteUser(th, u) PROVE KeysCurrent'
    <3>1. \A w \in Vaults : vault'[w].env = vault[w].env
      BY <2>11 DEF DeleteUser, TypeOK, VaultRow
    <3>2. ASSUME NEW v \in Vaults, NEW w \in Users, share'[v][w] # None
          PROVE  share[v][w] # None /\ share'[v][w].env = share[v][w].env
      BY <2>11, <3>2 DEF DeleteUser
    <3> QED BY <1>0, <2>11, <3>1, <3>2 DEF DeleteUser
  <2> QED BY <1>4, <2>1, <2>2, <2>3, <2>4, <2>5, <2>6, <2>7, <2>8, <2>9, <2>10, <2>11
          DEF Start
<1>5. ASSUME NEW th \in Threads, Continue(th) PROVE KeysCurrent'
  <2>0. op[th] \in Op
    BY DEF TypeOK
  <2>1. CASE CreateVault_Envelope(th)
    <3>1. op[th].vault \in Vaults /\ op[th].kind = "create_vault"
      BY <2>0, <2>1, OpFields DEF CreateVault_Envelope
    <3>2. \A v \in Vaults : vault'[v].env = vault[v].env \/ vault'[v].env = op[th].env
      BY <2>1, <3>1 DEF CreateVault_Envelope, TypeOK, VaultRow
    <3>3. \A x \in Threads : op'[x] = op[x] \/ op'[x] = Idle
      BY <2>1 DEF CreateVault_Envelope, TypeOK
    <3> QED BY <2>1, <3>1, <3>2, <3>3 DEF CreateVault_Envelope, KeysCurrent, Idle
  <2>2. ASSUME NEW u \in Users, ShareWithTeam_Member(th, u) PROVE KeysCurrent'
    <3>1. op[th].vault \in Vaults /\ op[th].team \in Teams
      BY <2>0, <2>2, OpFields DEF ShareWithTeam_Member
    <3>2. UNCHANGED <<vault, session>>
      BY <2>2 DEF ShareWithTeam_Member
    <3>3. ASSUME NEW x \in Threads, op'[x].kind = "create_vault" PROVE op'[x] = op[x]
      <4>1. PICK o \in Op : /\ op' = [op EXCEPT ![th] = o]
                            /\ \/ o = Idle
                               \/ o = ShareWithTeamOp(op[th].vault, op[th].team, op[th].todo \ {u})
        BY <2>2, MemberStepEffect
      <4>2. o.kind # "create_vault"
        BY <4>1 DEF Idle, ShareWithTeamOp
      <4> QED BY <3>3, <4>1, <4>2 DEF TypeOK
    <3>4. share' = share \/ PutShare(op[th].vault, u, op[th].team, "read")
      BY <2>2 DEF ShareWithTeam_Member
    <3> QED BY <1>b, <3>1, <3>2, <3>3, <3>4 DEF KeysCurrent
  <2>3. CASE CreateTeam_Leader(th)
    BY <1>0, <2>3 DEF CreateTeam_Leader, TypeOK, Idle
  <2>4. CASE RemoveMember_Purge(th)
    BY <1>0, <2>4 DEF RemoveMember_Purge, TypeOK, Idle
  <2> QED BY <1>5, <2>1, <2>2, <2>3, <2>4 DEF Continue
<1>6. CASE UNCHANGED vars
  BY <1>0, <1>6 DEF vars
<1> QED BY <1>1, <1>2, <1>3, <1>4, <1>5, <1>6 DEF Next

LEMMA KindsApart == MCInit => alone \/ Marked
<1> SUFFICES ASSUME MCInit PROVE alone \/ Marked
  OBVIOUS
<1>1. CASE AfterPasswordChanges
  BY <1>1 DEF AfterPasswordChanges, alone
<1>2. CASE AfterDeletions
  <2>1. {u \in Users : role[u] = "absent"} # {}
    BY <1>2, FS_EmptySet DEF AfterDeletions
  <2> QED BY <1>2, <2>1 DEF AfterDeletions, alone, Marked, Exists
<1> QED BY <1>1, <1>2 DEF MCInit

\* With the last passwords in force everybody the accessible_vaults view lists
\* opens the vault with the key in their row: HoldersOpenAlone for all
\* constants.  HoldersCanOpen speaks of the stored envelopes only; KeysCurrent
\* adds the session's key and the envelope a create_vault still has to store.
THEOREM HoldersOpen == MCSpec => []HoldersOpenAlone
<1> DEFINE Inv == CommonInv /\ (alone \/ Marked) /\ (alone => KeysCurrent)
<1>1. MCInit => Inv
  BY CommonInit, KindsApart DEF MCInit, NoVaultYet, KeysCurrent, Idle
<1>2. Inv /\ [MCNext]_vars => Inv'
  BY MCStep, CommonStep, KindStays, KeysStep DEF CommonInv
<1>3. Inv => HoldersOpenAlone
  <2> SUFFICES ASSUME Inv, alone, NEW v \in Vaults, NEW u \in Users,
                      HasAccessRow(u, v), EnvelopeFor(u, v) # None
               PROVE  Opens(u, v, MasterKey(u))
    BY DEF HoldersOpenAlone, HoldersCanOpen
  <2>1. TypeOK /\ RowsNeverDangle /\ EnvelopesBelongToHolder /\ KeysCurrent
    BY DEF CommonInv, EnvelopeInv
  <2>2. Exists(u)
    BY <2>1 DEF RowsNeverDangle, ShareRowsHold, VaultRowsHold, ShareForeignKeys, HasAccessRow
  <2>3. EnvelopeFor(u, v) \in Envelope /\ EnvelopeFor(u, v).user = u /\ EnvelopeFor(u, v).gen = MaxGen
    <3>1. CASE vault[v].owner = u
      BY <2>1, <3>1 DEF EnvelopeFor, EnvelopesBelongToHolder, KeysCurrent, TypeOK, VaultRow
    <3>2. CASE vault[v].owner # u
      BY <2>1, <3>2 DEF EnvelopeFor, EnvelopesBelongToHolder, KeysCurrent, TypeOK, Share,
                        HasAccessRow
    <3> QED BY <3>1, <3>2
  <2>4. EnvelopeFor(u, v) = MasterKey(u)
    BY <2>3 DEF Envelope, MasterKey, alone
  <2>5. check_permission(role[u], "VaultOpen", Permission(u, v))
    <3>1. Permission(u, v).kind = "vault" /\ HasAccess(Permission(u, v))
      BY DEF Permission, VaultResource, HasAccess
    <3> QED BY <3>1 DEF check_permission, VaultPermission
  <2> QED BY <2>2, <2>4, <2>5 DEF Opens
<1> QED BY <1>1, <1>2, <1>3, PTL DEF MCSpec
-----------------------------------------------------------------------------
(* TeamShareHasMember, for one operation at a time.                         *)

\* At most one thread is in the middle of an operation.
OneBusy == \A x, y \in Threads : op[x] # Idle /\ op[y] # Idle => x = y

\* The members share_vault_with_team has read are still members: nobody is
\* removed between the reading and the last share.
TodoAreMembers ==
    \A th \in Threads : op[th].kind = "share_with_team" =>
        \A u \in op[th].todo : member[op[th].team][u] # "none"

TeamInv == OneBusy /\ TodoAreMembers /\ TeamShareHasMember

\* The share of u on v came from a team u belongs to, if it came from a team.
FromOwnTeam(v, u) ==
    share[v][u] # None /\ share[v][u].via # None /\ u # vault[v].owner
        => member[share[v][u].via][u] # "none"

\* The removal under way that explains the exception.
Expelled(th, v, u) ==
    /\ op[th].kind = "remove_member"
    /\ op[th].team = share[v][u].via /\ op[th].user = u

\* A step after which only th may be busy.
LEMMA TeamOf ==
    ASSUME NEW th \in Threads, \A x \in Threads : x # th => op'[x] = Idle,
           op'[th].kind = "share_with_team" =>
              \A u \in op'[th].todo : member'[op'[th].team][u] # "none",
           \A v \in Vaults, u \in Users : FromOwnTeam(v, u)' \/ Expelled(th, v, u)'
    PROVE  TeamInv'
<1>1. OneBusy'
  BY DEF OneBusy
<1>2. TodoAreMembers'
  BY DEF TodoAreMembers, Idle
<1>3. TeamShareHasMember'
  BY DEF TeamShareHasMember, FromOwnTeam, Expelled
<1> QED BY <1>1, <1>2, <1>3 DEF TeamInv

\* A step that touches neither shares nor memberships, and the owner of no
\* vault that has a share.
LEMMA TeamQuiet ==
    ASSUME NEW v \in Vaults, NEW u \in Users, FromOwnTeam(v, u),
           UNCHANGED <<share, member>>,
           share[v][u] # None => vault'[v].owner = vault[v].owner
    PROVE  FromOwnTeam(v, u)'
  BY DEF FromOwnTeam

\* The steps that begin an operation, when none is under way.
LEMMA TeamStart ==
    ASSUME CommonInv, TeamInv, NEW th \in Threads, AllIdle, Start(th)
    PROVE  TeamInv'
<1>0. TypeOK /\ ShareRowsHold /\ \A x \in Threads : op[x] = Idle
  BY DEF CommonInv, RowsNeverDangle, AllIdle
<1>1. \A v \in Vaults, u \in Users : FromOwnTeam(v, u)
  BY <1>0 DEF TeamInv, TeamShareHasMember, FromOwnTeam, Idle
<1>a. ASSUME op' = op, \A v \in Vaults, u \in Users : FromOwnTeam(v, u)'
      PROVE  TeamInv'
  BY <1>0, <1>a, TeamOf DEF Idle
<1>b. ASSUME NEW o \in Op, op' = [op EXCEPT ![th] = o], o.kind # "share_with_team",
             \A v \in Vaults, u \in Users : FromOwnTeam(v, u)' \/ Expelled(th, v, u)'
      PROVE  TeamInv'
  <2>1. op'[th] = o /\ \A x \in Threads : x # th => op'[x] = Idle
    BY <1>0, <1>b DEF TypeOK
  <2> QED BY <1>b, <2>1, TeamOf
<1>2. ASSUME NEW v \in Vaults, CreateVault_Insert(th, v) PROVE TeamInv'
  <2>1. session \in Envelope
    BY <1>0, <1>2 DEF CreateVault_Insert, LoggedIn, TypeOK, Session, Envelope
  <2>2. CreateVaultOp(v, session) \in Op /\ CreateVaultOp(v, session).kind # "share_with_team"
    BY <2>1, OpTypes DEF CreateVaultOp
  <2>3. ASSUME NEW w \in Vaults, NEW u \in Users PROVE FromOwnTeam(w, u)'
    <3>1. share[w][u] # None => w # v
      BY <1>0, <1>2 DEF CreateVault_Insert, ShareRowsHold, ShareForeignKeys
    <3>2. share[w][u] # None => vault'[w].owner = vault[w].owner
      BY <1>0, <1>2, <3>1 DEF CreateVault_Insert, TypeOK
    <3> QED BY <1>1, <1>2, <3>2, TeamQuiet DEF CreateVault_Insert
  <2> QED BY <1>2, <1>b, <2>2, <2>3 DEF CreateVault_Insert
<1>3. ASSUME NEW v \in Vaults, DeleteVault(th, v) \/ RestoreVault(th, v) PROVE TeamInv'
  <2>1. \E s : vault' = [vault EXCEPT ![v].state = s]
    BY <1>3 DEF DeleteVault, RestoreVault
  <2>2. \A w \in Vaults : vault'[w].owner = vault[w].owner
    BY <1>0, <2>1, StateOnly
  <2>3. UNCHANGED <<share, member, op>>
    BY <1>3 DEF DeleteVault, RestoreVault
  <2>4. \A w \in Vaults, u \in Users : FromOwnTeam(w, u)'
    BY <1>1, <2>2, <2>3, TeamQuiet
  <2> QED BY <1>a, <2>3, <2>4
<1>4. ASSUME NEW v \in Vaults, NEW u \in Users,
             GrantVaultAccess(th, v, u) \/ RevokeVaultAccess(th, v, u)
      PROVE  TeamInv'
  <2>1. /\ UNCHANGED <<vault, member, op>>
        /\ \/ share' = [share EXCEPT ![v][u] = None]
           \/ share' = [share EXCEPT ![v][u] = [env |-> MasterKey(u), via |-> None,
                                                role |-> "write"]]
    BY <1>4 DEF GrantVaultAccess, RevokeVaultAccess, PutShare
  <2>2. ASSUME NEW w \in Vaults, NEW x \in Users PROVE FromOwnTeam(w, x)'
    <3>1. share'[w][x] = share[w][x] \/ share'[w][x] = None \/ share'[w][x].via = None
      BY <1>0, <2>1 DEF TypeOK
    <3> QED BY <1>1, <2>1, <3>1 DEF FromOwnTeam
  <2> QED BY <1>a, <2>1, <2>2
<1>5. ASSUME NEW v \in Vaults, NEW t \in Teams, ShareWithTeam_Read(th, v, t)
      PROVE  TeamInv'
  <2> DEFINE members == {u \in Users : member[t][u] # "none"}
  <2>1. /\ op'[th] = ShareWithTeamOp(v, t, members)
        /\ \A x \in Threads : x # th => op'[x] = Idle
        /\ UNCHANGED <<vault, share, member>>
    BY <1>0, <1>5 DEF ShareWithTeam_Read, TypeOK
  <2>2. \A u \in op'[th].todo : member'[op'[th].team][u] # "none"
    BY <2>1 DEF ShareWithTeamOp
  <2>3. \A w \in Vaults, u \in Users : FromOwnTeam(w, u)'
    BY <1>1, <2>1, TeamQuiet
  <2> QED BY <2>1, <2>2, <2>3, TeamOf
<1>6. ASSUME NEW t \in Teams, CreateTeam_Insert(th, t) PROVE TeamInv'
  <2>1. Me \in Users
    BY <1>0, <1>6 DEF CreateTeam_Insert, LoggedIn, TypeOK, Session, Me
  <2>2. CreateTeamOp(t, Me) \in Op /\ CreateTeamOp(t, Me).kind # "share_with_team"
    BY <2>1, OpTypes DEF CreateTeamOp
  <2>3. \A w \in Vaults, u \in Users : FromOwnTeam(w, u)'
    BY <1>1, <1>6, TeamQuiet DEF CreateTeam_Insert
  <2> QED BY <1>6, <1>b, <2>2, <2>3 DEF CreateTeam_Insert
<1>7. ASSUME NEW t \in Teams, DeleteTeam(th, t) PROVE TeamInv'
  <2>1. ASSUME NEW v \in Vaults, NEW u \in Users PROVE FromOwnTeam(v, u)'
    <3>1. UNCHANGED <<vault, op>> /\ \A s \in Teams : s # t => member'[s] = member[s]
      BY <1>0, <1>7 DEF DeleteTeam, TypeOK
    <3>2. CASE share[v][u] # None /\ share[v][u].via = t
      <4>1. share'[v][u] = [share[v][u] EXCEPT !.via = None] /\ share[v][u] \in Share
        BY <1>0, <1>7, <3>2 DEF DeleteTeam, TypeOK
      <4>2. share'[v][u].via = None
        BY <4>1 DEF Share
      <4> QED BY <4>2 DEF FromOwnTeam
    <3>3. CASE ~(share[v][u] # None /\ share[v][u].via = t)
      <4>1. share'[v][u] = share[v][u]
        BY <1>7, <3>3 DEF DeleteTeam
      <4>2. share[v][u] # None => share[v][u].via \in Teams \cup {None}
        BY <1>0 DEF TypeOK, Share
      <4> QED BY <1>1, <3>1, <3>3, <4>1, <4>2 DEF FromOwnTeam
    <3> QED BY <3>2, <3>3
  <2> QED BY <1>7, <1>a, <2>1 DEF DeleteTeam
<1>8. ASSUME NEW t \in Teams, NEW u \in Users, NEW r \in {"member", "leader"},
             AddMember(th, t, u, r)
      PROVE  TeamInv'
  <2>1. /\ UNCHANGED <<vault, share, op>>
        /\ \A s \in Teams, x \in Users : member[s][x] # "none" => member'[s][x] # "none"
    BY <1>0, <1>8 DEF AddMember, TypeOK
  <2>2. ASSUME NEW v \in Vaults, NEW x \in Users PROVE FromOwnTeam(v, x)'
    <3>1. share[v][x] # None => share[v][x].via \in Teams \cup {None}
      BY <1>0 DEF TypeOK, Share
    <3> QED BY <1>1, <2>1, <3>1 DEF FromOwnTeam
  <2> QED BY <1>a, <2>1, <2>2
<1>9. ASSUME NEW t \in Teams, NEW u \in Users, RemoveMember_Delete(th, t, u)
      PROVE  TeamInv'
  <2>1. RemoveMemberOp(t, u) \in Op /\ RemoveMemberOp(t, u).kind # "share_with_team"
    BY OpTypes DEF RemoveMemberOp
  <2>2. /\ UNCHANGED <<vault, share>> /\ op'[th] = RemoveMemberOp(t, u)
        /\ op' = [op EXCEPT ![th] = RemoveMemberOp(t, u)]
        /\ \A s \in Teams, x \in Users : s # t \/ x # u => member'[s][x] = member[s][x]
    BY <1>0, <1>9 DEF RemoveMember_Delete, TypeOK
  <2>3. ASSUME NEW v \in Vaults, NEW x \in Users
        PROVE  FromOwnTeam(v, x)' \/ Expelled(th, v, x)'
    <3>1. share[v][x] # None => share[v][x].via \in Teams \cup {None}
      BY <1>0 DEF TypeOK, Share
    <3>2. CASE share[v][x].via = t /\ x = u
      BY <2>2, <3>2 DEF Expelled, RemoveMemberOp
    <3>3. CASE ~(share[v][x].via = t /\ x = u)
      BY <1>1, <2>2, <3>1, <3>3 DEF FromOwnTeam
    <3> QED BY <3>2, <3>3
  <2> QED BY <1>b, <2>1, <2>2, <2>3
<1>10. ASSUME UNCHANGED <<vault, share, member, op>> PROVE TeamInv'
  <2>1. \A w \in Vaults, u \in Users : FromOwnTeam(w, u)'
    BY <1>1, <1>10, TeamQuiet
  <2> QED BY <1>a, <1>10, <2>1
<1>11. ASSUME NEW u \in Users, DeleteUser(th, u) PROVE TeamInv'
  <2>1. \A v \in Vaults : vault'[v].owner = vault[v].owner
    BY <1>0, <1>11 DEF DeleteUser, TypeOK, VaultRow
  <2>2. ASSUME NEW v \in Vaults, NEW x \in Users PROVE FromOwnTeam(v, x)'
    <3>1. share'[v][x] # None => x # u /\ share'[v][x] = share[v][x]
      BY <1>11 DEF DeleteUser
    <3>2. \A s \in Teams : x # u => member'[s][x] = member[s][x]
      BY <1>0, <1>11 DEF DeleteUser, TypeOK
    <3>3. share[v][x] # None => share[v][x].via \in Teams \cup {None}
      BY <1>0 DEF TypeOK, Share
    <3> QED BY <1>1, <2>1, <3>1, <3>2, <3>3 DEF FromOwnTeam
  <2> QED BY <1>11, <1>a, <2>2 DEF DeleteUser
<1>12. ASSUME NEW u \in Users, ResetPassword(th, u) PROVE TeamInv'
  BY <1>10, <1>12 DEF ResetPassword
<1>13. CASE ChangePassword(th)
  BY <1>10, <1>13 DEF ChangePassword
<1> QED BY <1>2, <1>3, <1>4, <1>5, <1>6, <1>7, <1>8, <1>9, <1>11, <1>12, <1>13 DEF Start

\* The steps of the operation under way.
LEMMA TeamContinue ==
    ASSUME CommonInv, TeamInv, NEW th \in Threads, Continue(th)
    PROVE  TeamInv'
<1>0. TypeOK /\ op[th] \in Op /\ op[th] # Idle
  <2>1. op[th].kind \in {"create_vault", "share_with_team", "create_team", "remove_member"}
    BY DEF Continue, CreateVault_Envelope, ShareWithTeam_Member, CreateTeam_Leader,
           RemoveMember_Purge
  <2> QED BY <2>1 DEF CommonInv, TypeOK, Idle
<1>1. \A x \in Threads : x # th => op[x] = Idle
  BY <1>0 DEF TeamInv, OneBusy
<1>2. ASSUME NEW v \in Vaults, NEW u \in Users
      PROVE  FromOwnTeam(v, u) \/ Expelled(th, v, u)
  BY <1>1 DEF TeamInv, TeamShareHasMember, FromOwnTeam, Expelled, Idle
<1>a. ASSUME op' = [op EXCEPT ![th] = Idle],
             \A v \in Vaults, u \in Users : FromOwnTeam(v, u)'
      PROVE  TeamInv'
  <2>1. \A x \in Threads : op'[x] = Idle
    BY <1>0, <1>1, <1>a DEF TypeOK
  <2> QED BY <1>a, <2>1, TeamOf DEF Idle
<1>b. \A v \in Vaults, u \in Users : share[v][u] # None => share[v][u].via \in Teams \cup {None}
  BY <1>0 DEF TypeOK, Share
<1>3. CASE CreateVault_Envelope(th)
  <2>0. op[th].kind = "create_vault" /\ op[th].vault \in Vaults
    BY <1>0, <1>3, OpFields DEF CreateVault_Envelope
  <2>1. \A v \in Vaults : vault'[v].owner = vault[v].owner
    BY <1>0, <1>3, <2>0 DEF CreateVault_Envelope, TypeOK, VaultRow
  <2>2. \A v \in Vaults, u \in Users : FromOwnTeam(v, u)
    BY <1>2, <2>0 DEF Expelled
  <2>3. \A v \in Vaults, u \in Users : FromOwnTeam(v, u)'
    BY <1>3, <2>1, <2>2, TeamQuiet DEF CreateVault_Envelope
  <2> QED BY <1>3, <1>a, <2>3 DEF CreateVault_Envelope
<1>4. ASSUME NEW u \in Users, ShareWithTeam_Member(th, u) PROVE TeamInv'
  <2>0. /\ op[th].kind = "share_with_team" /\ u \in op[th].todo
        /\ op[th].vault \in Vaults /\ op[th].team \in Teams
        /\ UNCHANGED <<vault, member>>
    BY <1>0, <1>4, OpFields DEF ShareWithTeam_Member
  <2>1. \A x \in op[th].todo : member[op[th].team][x] # "none"
    BY <2>0 DEF TeamInv, TodoAreMembers
  <2>2. PICK o \in Op : /\ op' = [op EXCEPT ![th] = o]
                        /\ \/ o = Idle
                           \/ o = ShareWithTeamOp(op[th].vault, op[th].team, op[th].todo \ {u})
    BY <1>0, <1>4, MemberStepEffect
  <2>3. op'[th] = o /\ \A x \in Threads : x # th => op'[x] = Idle
    BY <1>0, <1>1, <2>2 DEF TypeOK
  <2>4. o.kind = "share_with_team" => \A x \in o.todo : member'[o.team][x] # "none"
    BY <2>0, <2>1, <2>2 DEF Idle, ShareWithTeamOp
  <2>5. ASSUME NEW v \in Vaults, NEW x \in Users PROVE FromOwnTeam(v, x)'
    <3>1. FromOwnTeam(v, x)
      BY <1>2, <2>0 DEF Expelled
    <3>2. CASE share'[v][x] = share[v][x]
      BY <2>0, <3>1, <3>2 DEF FromOwnTeam
    <3>3. CASE share'[v][x] # share[v][x]
      <4>1. share' = [share EXCEPT ![op[th].vault][u] =
                        [env |-> MasterKey(u), via |-> op[th].team, role |-> "read"]]
        BY <1>0, <1>4, <3>3, MemberStepEffect
      <4>2. x = u /\ share'[v][x].via = op[th].team
        BY <1>0, <2>0, <3>3, <4>1 DEF TypeOK
      <4> QED BY <2>0, <2>1, <4>2 DEF FromOwnTeam
    <3> QED BY <3>2, <3>3
  <2> QED BY <2>3, <2>4, <2>5, TeamOf
<1>5. CASE CreateTeam_Leader(th)
  <2>0. op[th].kind = "create_team" /\ op[th].team \in Teams /\ op[th].user \in Users
    BY <1>0, <1>5, OpFields DEF CreateTeam_Leader
  <2>1. /\ UNCHANGED <<vault, share>>
        /\ \A s \in Teams, x \in Users : member[s][x] # "none" => member'[s][x] # "none"
    BY <1>0, <1>5, <2>0 DEF CreateTeam_Leader, TypeOK
  <2>2. ASSUME NEW v \in Vaults, NEW u \in Users PROVE FromOwnTeam(v, u)'
    BY <1>2, <1>b, <2>0, <2>1 DEF Expelled, FromOwnTeam
  <2> QED BY <1>5, <1>a, <2>2 DEF CreateTeam_Leader
<1>6. CASE RemoveMember_Purge(th)
  <2>1. ASSUME NEW v \in Vaults, NEW u \in Users PROVE FromOwnTeam(v, u)'
    <3>1. UNCHANGED <<vault, member>>
      BY <1>6 DEF RemoveMember_Purge
    <3>2. share'[v][u] # None => share'[v][u] = share[v][u] /\ ~Expelled(th, v, u)
      BY <1>6 DEF RemoveMember_Purge, Expelled
    <3> QED BY <1>2, <3>1, <3>2 DEF FromOwnTeam
  <2> QED BY <1>6, <1>a, <2>1 DEF RemoveMember_Purge
<1> QED BY <1>3, <1>4, <1>5, <1>6 DEF Continue

\* With one operation at a time nobody but the owner keeps a share of a team
\* they left, whatever shares replaced one another and whichever of two
\* overlapping teams was deleted: TeamShareAlone for all constants.
THEOREM TeamShares == MCSpec => []TeamShareAlone
<1> DEFINE Inv == CommonInv /\ (alone \/ Marked) /\ (alone => TeamInv)
<1>1. MCInit => Inv
  <2>1. MCInit => TeamInv
    BY DEF MCInit, NoVaultYet, TeamInv, OneBusy, TodoAreMembers, TeamShareHasMember, Idle
  <2> QED BY <2>1, CommonInit, KindsApart
<1>2. Inv /\ [MCNext]_vars => Inv'
  <2> SUFFICES ASSUME Inv, [MCNext]_vars PROVE Inv'
    OBVIOUS
  <2>1. CommonInv' /\ (alone \/ Marked)' /\ (alone' => alone)
    BY MCStep, CommonStep, KindStays DEF CommonInv
  <2>2. ASSUME alone PROVE TeamInv'
    <3>0. ASSUME UNCHANGED <<vault, share, member, op>> PROVE TeamInv'
      BY <2>2, <3>0 DEF TeamInv, OneBusy, TodoAreMembers, TeamShareHasMember
    <3>1. ASSUME NEW u \in Users, Login(u) PROVE TeamInv'
      BY <3>0, <3>1 DEF Login
    <3>2. CASE Logout \/ UNCHANGED vars
      BY <3>0, <3>2 DEF Logout, vars
    <3>3. ASSUME NEW th \in Threads, Continue(th) PROVE TeamInv'
      BY <2>2, <3>3, TeamContinue
    <3>4. ASSUME NEW th \in Threads, AllIdle, Start(th) PROVE TeamInv'
      BY <2>2, <3>4, TeamStart
    <3> QED BY <2>2, <3>1, <3>2, <3>3, <3>4 DEF MCNext
  <2> QED BY <2>1, <2>2
<1>3. Inv => TeamShareAlone
  BY DEF TeamShareAlone, TeamInv
<1> QED BY <1>1, <1>2, <1>3, PTL DEF MCSpec
=============================================================================
