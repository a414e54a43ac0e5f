---------------------------- MODULE DialogsProofs ----------------------------
(***************************************************************************)
(* Theorems about Dialogs for any number of users, teams, vaults, secrets  *)
(* and threads.                                                            *)
(*                                                                         *)
(* DialogTypes is what every argument rests on.  It is TypeOK, except that *)
(* the entries of a picker are only known to come from a list that Sorted  *)
(* made: that sorting a set keeps its members needs an induction.          *)
(***************************************************************************)
EXTENDS Dialogs, FiniteSetTheorems, TLAPS

Shown == Users \cup Teams \cup Vaults \cup Secrets
Lists == {<<>>} \cup {Sorted(S) : S \in SUBSET Shown}
Names == Users \cup Vaults \cup {None} \cup {l[i] : l \in Lists, i \in Nat}

UsersKinds == {"list", "relist", "toggle", "delete", "reset", "create"}
TeamsKinds == {"teams", "newteam", "dropteam", "members", "add", "remove", "vaults", "share"}
TrashKinds == {"trash", "restore", "purge", "empty"}

Thread == [kind: UsersKinds \cup TeamsKinds \cup TrashKinds \cup {"idle"},
           pc: {"run", "vault", "ok", "err"}, mine: BOOLEAN,
           on: Teams \cup Secrets \cup {None}, who: Names, role: Roles,
           rows: SUBSET Row, found: SUBSET Shown, picks: SUBSET Users]

MembersWindow == [team: Teams \cup {None}, rows: SUBSET Users, ids: Lists, sel: Nat,
                  picked: Names, err: BOOLEAN]
ShareWindow   == [team: Teams \cup {None}, ids: Lists, apply: BOOLEAN, sel: Nat,
                  picked: Names]
TrashDialog   == [open: BOOLEAN, rows: SUBSET Secrets,
                  panel: {"loading", "list", "empty", "unavailable"}]
UsersPanel    == [rows: SUBSET Row, last: {"list", "relist"}, err: BOOLEAN]
TeamsPanel    == [rows: SUBSET Teams, err: BOOLEAN]

\* What the fields of a thread hold depends on what it does.
Carries(k) ==
    /\ k.kind = "teams" => k.found \subseteq Teams
    /\ k.kind = "members" => k.found \subseteq Users
    /\ k.kind = "trash" => k.found \subseteq Secrets
    /\ k.kind \in OfMembers => k.on \in Teams
    /\ k.kind = "create" => k.who \in Users
    /\ k.pc = "vault" => k.kind = "create"

TableTypes ==
    /\ user \in [Users -> Roles \cup {"unused", "gone"}]
    /\ perso \subseteq Users
    /\ team \in [Teams -> {"unused", "live", "gone"}]
    /\ member \in [Teams -> SUBSET Users]
    /\ own \subseteq Vaults
    /\ secret \in [Secrets -> {"live", "trash", "gone"}]

PanelTypes ==
    /\ up \in UsersPanel
    /\ tp \in TeamsPanel
    /\ mwin \in MembersWindow
    /\ swin \in ShareWindow
    /\ trash \in TrashDialog

HistoryTypes ==
    /\ halfmade \subseteq Users
    /\ mainStale \in BOOLEAN
    /\ calm \in BOOLEAN

ThreadTypes ==
    /\ th \in [Threads -> Thread]
    /\ \A t \in Threads : Carries(th[t])

DialogTypes == TableTypes /\ PanelTypes /\ HistoryTypes /\ ThreadTypes

-----------------------------------------------------------------------------
(* The pieces of a step.                                                   *)

LEMMA KindSets ==
    /\ Kinds.users = UsersKinds /\ Kinds.teams = TeamsKinds /\ Kinds.trash = TrashKinds
    /\ DOMAIN Kinds = {"users", "teams", "trash"}
  BY DEF Kinds, UsersKinds, TeamsKinds, TrashKinds

LEMMA IdleThread == Idle \in Thread /\ Carries(Idle)
  BY DEF Idle, Thread, Carries, Names, Roles, OfMembers

\* A thread that starts with a call.
LEMMA CallThread ==
    ASSUME NEW kind \in UsersKinds \cup TeamsKinds \cup TrashKinds,
           NEW on \in Teams \cup Secrets \cup {None}, NEW who \in Names, NEW role \in Roles,
           kind \in OfMembers => on \in Teams, kind = "create" => who \in Users
    PROVE  /\ Call(kind, on, who, role) \in Thread
           /\ Carries(Call(kind, on, who, role))
           /\ Call(kind, on, who, role).kind = kind
           /\ Call(kind, on, who, role).pc = "run"
           /\ Call(kind, on, who, role).mine
           /\ Call(kind, on, who, role).on = on
           /\ Call(kind, on, who, role).who = who
<1> DEFINE k == Call(kind, on, who, role)
<1>1. k \in Thread
  BY IdleThread DEF Call, Thread
<1>2. /\ k.kind = kind /\ k.pc = "run" /\ k.mine = Idle.mine /\ k.on = on /\ k.who = who
      /\ k.found = Idle.found
  BY IdleThread DEF Call, Thread
<1>3. Idle.found = {} /\ Idle.mine
  BY DEF Idle
<1> HIDE DEF k
<1>4. Carries(k)
  BY <1>2, <1>3 DEF Carries
<1> QED BY <1>1, <1>2, <1>3, <1>4 DEF k

LEMMA ReadThread ==
    ASSUME NEW kind \in UsersKinds \cup TeamsKinds \cup TrashKinds, kind # "create",
           NEW on \in Teams \cup Secrets \cup {None}, kind \in OfMembers => on \in Teams
    PROVE  /\ Read(kind, on) \in Thread /\ Carries(Read(kind, on))
           /\ Read(kind, on).kind = kind /\ Read(kind, on).pc = "run"
           /\ Read(kind, on).mine /\ Read(kind, on).on = on
<1>1. None \in Names /\ "user" \in Roles
  BY DEF Names, Roles
<1> DEFINE k == Call(kind, on, None, "user")
<1>2. k \in Thread /\ Carries(k) /\ k.kind = kind /\ k.pc = "run" /\ k.mine /\ k.on = on
  BY <1>1, CallThread
<1> HIDE DEF k
<1>3. Read(kind, on) = k
  BY DEF Read, k
<1> QED BY <1>2, <1>3

\* One thread changes.
LEMMA OneThread ==
    ASSUME ThreadTypes, NEW t \in Threads, NEW k, th' = [th EXCEPT ![t] = k]
    PROVE  th'[t] = k /\ \A x \in Threads : x # t => th'[x] = th[x]
  BY DEF ThreadTypes

LEMMA ThreadStep ==
    ASSUME ThreadTypes, NEW t \in Threads, NEW k \in Thread, Carries(k),
           th' = [th EXCEPT ![t] = k]
    PROVE  ThreadTypes'
<1>1. th' \in [Threads -> Thread]
  BY DEF ThreadTypes
<1>2. \A x \in Threads : Carries(th[x])'
  BY OneThread DEF ThreadTypes, Carries
<1> QED BY <1>1, <1>2 DEF ThreadTypes

\* A call is answered: its thread keeps what it was asked, the others do not move.
Replies(t, pc) ==
    /\ \A x \in Threads : x # t => th'[x] = th[x]
    /\ th'[t].kind = th[t].kind /\ th'[t].mine = th[t].mine
    /\ th'[t].on = th[t].on /\ th'[t].who = th[t].who
    /\ th'[t].pc = pc

LEMMA ReplyTypes ==
    ASSUME ThreadTypes, NEW t \in Threads, NEW pc, Replies(t, pc),
           th' \in [Threads -> Thread],
           pc = "vault" => th[t].kind = "create",
           th[t].kind = "teams" => th'[t].found \subseteq Teams,
           th[t].kind = "members" => th'[t].found \subseteq Users,
           th[t].kind = "trash" => th'[t].found \subseteq Secrets
    PROVE  ThreadTypes'
<1>1. Carries(th'[t])
  BY DEF ThreadTypes, Carries, Replies
<1>2. \A x \in Threads : Carries(th'[x])
  BY <1>1 DEF ThreadTypes, Replies
<1> QED BY <1>2 DEF ThreadTypes, Carries

LEMMA EndsReplies ==
    ASSUME ThreadTypes, NEW t \in Threads, NEW pc \in {"run", "vault", "ok", "err"},
           pc = "vault" => th[t].kind = "create", th' = [th EXCEPT ![t].pc = pc]
    PROVE  /\ ThreadTypes' /\ Replies(t, pc)
           /\ th'[t].rows = th[t].rows /\ th'[t].found = th[t].found
<1>1. th \in [Threads -> Thread] /\ th[t] \in Thread /\ Carries(th[t])
  BY DEF ThreadTypes
<1>2. th' \in [Threads -> Thread]
  BY <1>1 DEF Thread
<1>3. Replies(t, pc)
  BY <1>1 DEF Thread, Replies
<1>4. th'[t].rows = th[t].rows /\ th'[t].found = th[t].found
  BY <1>1 DEF Thread
<1> QED BY <1>1, <1>2, <1>3, <1>4, ReplyTypes DEF Carries

LEMMA RowsReplies ==
    ASSUME ThreadTypes, NEW t \in Threads, NEW rows \in SUBSET Row, th[t].kind \in UsersKinds,
           th' = [th EXCEPT ![t].pc = "ok", ![t].rows = rows]
    PROVE  ThreadTypes' /\ Replies(t, "ok") /\ th'[t].rows = rows
<1>1. th \in [Threads -> Thread] /\ th[t] \in Thread
  BY DEF ThreadTypes
<1>2. th' \in [Threads -> Thread]
  BY <1>1 DEF Thread
<1>3. Replies(t, "ok")
  BY <1>1 DEF Thread, Replies
<1>4. th'[t].rows = rows
  BY <1>1 DEF Thread
<1> QED BY <1>2, <1>3, <1>4, ReplyTypes DEF UsersKinds

LEMMA FindsReplies ==
    ASSUME ThreadTypes, NEW t \in Threads, NEW found \in SUBSET Shown, NEW picks \in SUBSET Users,
           th[t].kind = "teams" => found \subseteq Teams,
           th[t].kind = "members" => found \subseteq Users,
           th[t].kind = "trash" => found \subseteq Secrets,
           th' = [th EXCEPT ![t].pc = "ok", ![t].found = found, ![t].picks = picks]
    PROVE  ThreadTypes' /\ Replies(t, "ok") /\ th'[t].found = found
<1>1. th \in [Threads -> Thread] /\ th[t] \in Thread
  BY DEF ThreadTypes
<1>2. th' \in [Threads -> Thread]
  BY <1>1 DEF Thread
<1>3. Replies(t, "ok")
  BY <1>1 DEF Thread, Replies
<1>4. th'[t].found = found
  BY <1>1 DEF Thread
<1> QED BY <1>2, <1>3, <1>4, ReplyTypes

LEMMA TrashReplies ==
    ASSUME ThreadTypes, NEW t \in Threads, NEW found \in SUBSET Secrets, th[t].kind = "trash",
           th' = [th EXCEPT ![t].pc = "ok", ![t].found = found]
    PROVE  ThreadTypes' /\ Replies(t, "ok") /\ th'[t].found = found
<1>1. th \in [Threads -> Thread] /\ th[t] \in Thread
  BY DEF ThreadTypes
<1>2. th' \in [Threads -> Thread]
  BY <1>1 DEF Thread, Shown
<1>3. Replies(t, "ok")
  BY <1>1 DEF Thread, Replies
<1>4. th'[t].found = found
  BY <1>1 DEF Thread
<1> QED BY <1>2, <1>3, <1>4, ReplyTypes

\* A window closes: its threads are no longer its own, and do the same work.
Goes(kinds) ==
    \A x \in Threads :
       /\ th'[x].kind = th[x].kind /\ th'[x].pc = th[x].pc /\ th'[x].on = th[x].on
       /\ th'[x].who = th[x].who /\ th'[x].rows = th[x].rows /\ th'[x].found = th[x].found
       /\ th[x].kind \notin kinds => th'[x] = th[x]
       /\ th[x].kind \in kinds => ~th'[x].mine

LEMMA OrphanedThreads ==
    ASSUME ThreadTypes, NEW kinds, th' = Orphaned(kinds)
    PROVE  ThreadTypes' /\ Goes(kinds)
<1>1. \A x \in Threads : th[x] \in Thread /\ Carries(th[x])
  BY DEF ThreadTypes
<1>2. \A k \in Thread : [k EXCEPT !.mine = FALSE] \in Thread
  BY DEF Thread
<1>3. th' \in [Threads -> Thread]
  BY <1>1, <1>2 DEF Orphaned
<1>4. Goes(kinds)
  BY <1>1 DEF Thread, Orphaned, Goes
<1>5. \A x \in Threads : Carries(th'[x])
  BY <1>1, <1>4 DEF Goes, Carries
<1> QED BY <1>3, <1>4, <1>5 DEF ThreadTypes, Carries

-----------------------------------------------------------------------------
(* The steps of each panel.                                                *)

ClickInUsers(t) ==
    \/ \E row \in Row : ClickToggle(t, row) \/ ConfirmDelete(t, row) \/ ApplyReset(t, row)
    \/ \E u \in Users, r \in Roles : ClickCreateUser(t, u, r)

ClickInTeams(t) ==
    \/ \E tm \in Teams : ClickCreateTeam(t, tm) \/ ConfirmDropTeam(t, tm)
    \/ ClickAdd(t)
    \/ \E u \in Users : ClickRemove(t, u)
    \/ ClickShare(t)

ClickInTrash(t) ==
    \/ \E s \in Secrets : ClickRestore(t, s) \/ ConfirmPurge(t, s)
    \/ ConfirmEmpty(t)

UsersStep(t) == ClickInUsers(t) \/ ServeUsers(t) \/ CreatePerso(t) \/ UsersAnswer(t)

TeamsStep(t) ==
    \/ ClickInTeams(t) \/ (\E tm \in Teams : OpenMembers(t, tm) \/ OpenShare(t, tm))
    \/ ServeTeams(t) \/ TeamsAnswer(t) \/ MembersAnswer(t) \/ ShareAnswer(t)

TrashStep(t) ==
    ClickInTrash(t) \/ OpenTrash(t) \/ ServeTrash(t) \/ TrashAnswer(t) \/ TrashChanged(t)

OtherStep ==
    \/ \E i \in 1 .. Cardinality(Users) : PickUser(i)
    \/ \E i \in 1 .. Cardinality(Vaults) : PickVault(i)
    \/ CloseWindow \/ CloseTrash \/ Elsewhere
    \/ \E s \in Secrets : MoveToTrash(s)

LEMMA NextCases ==
    Next => \/ \E t \in Threads : UsersStep(t) \/ TeamsStep(t) \/ TrashStep(t) \/ LostAnswer(t)
            \/ OtherStep
  BY DEF Next, Click, Service, Answer, UsersStep, TeamsStep, TrashStep, OtherStep,
         ClickInUsers, ClickInTeams, ClickInTrash

\* A click that opens no window only starts its thread.
Begins(t, kinds) ==
    /\ th[t].kind = "idle" /\ ThreadTypes'
    /\ \A x \in Threads : x # t => th'[x] = th[x]
    /\ th'[t].kind \in kinds /\ th'[t].pc = "run" /\ th'[t].mine
    /\ UNCHANGED <<desk, tables, panels, history>>

LEMMA BeginsCall ==
    ASSUME ThreadTypes, NEW t \in Threads, Free(t), NEW kinds \in SUBSET (UsersKinds \cup TeamsKinds \cup TrashKinds),
           NEW kind \in kinds, NEW on \in Teams \cup Secrets \cup {None}, NEW who \in Names,
           NEW role \in Roles,
           kind \in OfMembers => on \in Teams, kind = "create" => who \in Users,
           Start(t, Call(kind, on, who, role)), UNCHANGED <<desk, tables, panels, history>>
    PROVE  Begins(t, kinds) /\ th'[t].kind = kind /\ th'[t].on = on /\ th'[t].who = who
<1> DEFINE k == Call(kind, on, who, role)
<1>1. k \in Thread /\ Carries(k) /\ k.kind = kind /\ k.pc = "run" /\ k.mine /\ k.on = on /\ k.who = who
  BY CallThread
<1>2. th' = [th EXCEPT ![t] = k]
  BY DEF Start
<1> HIDE DEF k
<1>3. ThreadTypes' /\ th'[t] = k /\ \A x \in Threads : x # t => th'[x] = th[x]
  BY <1>1, <1>2, ThreadStep, OneThread
<1> QED BY <1>1, <1>3 DEF Begins, Free

LEMMA UsersClicks ==
    ASSUME DialogTypes, NEW t \in Threads, ClickInUsers(t)
    PROVE  Begins(t, UsersKinds) /\ desk = "users"
<1>1. ThreadTypes /\ PanelTypes
  BY DEF DialogTypes
<1>2. ASSUME NEW u \in Users, NEW r \in Roles, NEW kind \in UsersKinds, desk = "users",
             Free(t), Start(t, Call(kind, None, u, r)), UNCHANGED <<desk, tables, panels, history>>
      PROVE  Begins(t, UsersKinds) /\ desk = "users"
  BY <1>1, <1>2, BeginsCall DEF Names, OfMembers, UsersKinds
<1>3. ASSUME NEW row \in Row, NEW r \in Roles, NEW kind \in UsersKinds, OnRow(t, kind, row, r)
      PROVE  Begins(t, UsersKinds) /\ desk = "users"
  <2>1. row.id \in Users
    BY DEF Row
  <2> QED BY <1>2, <1>3, <2>1 DEF OnRow
<1>4. \A row \in Row : (CHOOSE r \in Roles : r # row.role) \in Roles
  BY DEF Roles, Row
<1>5. ASSUME NEW row \in Row, ClickToggle(t, row) \/ ConfirmDelete(t, row) \/ ApplyReset(t, row)
      PROVE  Begins(t, UsersKinds) /\ desk = "users"
  BY <1>3, <1>4, <1>5 DEF ClickToggle, ConfirmDelete, ApplyReset, UsersKinds, Roles
<1>6. ASSUME NEW u \in Users, NEW r \in Roles, ClickCreateUser(t, u, r)
      PROVE  Begins(t, UsersKinds) /\ desk = "users"
  BY <1>2, <1>6 DEF ClickCreateUser, UsersKinds
<1> QED BY <1>5, <1>6 DEF ClickInUsers

\* What a click in the teams panel asks for is about the team of its window.
LEMMA TeamsClicks ==
    ASSUME DialogTypes, NEW t \in Threads, ClickInTeams(t)
    PROVE  /\ Begins(t, TeamsKinds \ {"teams", "members"})
           /\ th'[t].kind \in OfMembers => th'[t].on = mwin.team /\ mwin.team # None
<1>1. ThreadTypes /\ PanelTypes
  BY DEF DialogTypes
<1>2. /\ mwin.team \in Teams \cup {None} /\ mwin.rows \in SUBSET Users /\ mwin.ids \in Lists
      /\ mwin.sel \in Nat
      /\ swin.team \in Teams \cup {None} /\ swin.ids \in Lists /\ swin.sel \in Nat
  BY <1>1 DEF PanelTypes, MembersWindow, ShareWindow
<1>3. mwin.ids[mwin.sel] \in Names /\ swin.ids[swin.sel] \in Names /\ None \in Names
  BY <1>2 DEF Names
<1> DEFINE Asked == TeamsKinds \ {"teams", "members"}
<1>4. Asked \in SUBSET (UsersKinds \cup TeamsKinds \cup TrashKinds)
  OBVIOUS
<1>5. ASSUME NEW tm \in Teams, NEW who \in Names, NEW kind \in Asked, Free(t),
             Start(t, Call(kind, tm, who, "user")), UNCHANGED <<desk, tables, panels, history>>
      PROVE  Begins(t, Asked) /\ th'[t].kind = kind /\ th'[t].on = tm
  <2>1. "user" \in Roles /\ kind # "create" /\ tm \in Teams \cup Secrets \cup {None}
    BY DEF Roles, TeamsKinds
  <2> QED BY <1>1, <1>4, <1>5, <2>1, BeginsCall
<1>6. ASSUME NEW tm \in Teams, ClickCreateTeam(t, tm) \/ ConfirmDropTeam(t, tm)
      PROVE  Begins(t, Asked) /\ th'[t].kind \notin OfMembers
  BY <1>3, <1>5, <1>6 DEF ClickCreateTeam, ConfirmDropTeam, Read, TeamsKinds, OfMembers
<1>7. CASE ClickAdd(t)
  BY <1>2, <1>3, <1>5, <1>7 DEF ClickAdd, TeamsKinds
<1>8. ASSUME NEW u \in Users, ClickRemove(t, u)
      PROVE  Begins(t, Asked) /\ th'[t].on = mwin.team /\ mwin.team # None
  BY <1>2, <1>5, <1>8 DEF ClickRemove, TeamsKinds, Names
<1>9. CASE ClickShare(t)
  BY <1>2, <1>3, <1>5, <1>9 DEF ClickShare, TeamsKinds, OfMembers
<1> QED BY <1>6, <1>7, <1>8, <1>9 DEF ClickInTeams

LEMMA TrashClicks ==
    ASSUME DialogTypes, NEW t \in Threads, ClickInTrash(t)
    PROVE  Begins(t, TrashKinds \ {"trash"}) /\ trash.open
<1>1. ThreadTypes
  BY DEF DialogTypes
<1> DEFINE Asked == TrashKinds \ {"trash"}
<1>2. Asked \in SUBSET (UsersKinds \cup TeamsKinds \cup TrashKinds)
  OBVIOUS
<1>3. ASSUME NEW s \in Secrets \cup {None}, NEW kind \in Asked, OnTrash(t, kind, s)
      PROVE  Begins(t, Asked) /\ trash.open
  <2>1. "user" \in Roles /\ kind # "create" /\ kind \notin OfMembers
    BY DEF Roles, TrashKinds, OfMembers
  <2>2. None \in Names
    BY DEF Names
  <2>3. Start(t, Call(kind, s, None, "user")) /\ Free(t) /\ trash.open
        /\ UNCHANGED <<desk, tables, panels, history>>
    BY <1>3 DEF OnTrash, Read
  <2> QED BY <1>1, <1>2, <2>1, <2>2, <2>3, BeginsCall
<1> QED BY <1>3 DEF ClickInTrash, ClickRestore, ConfirmPurge, ConfirmEmpty, TrashKinds

-----------------------------------------------------------------------------
(* Types are kept.                                                         *)

LEMMA BeginsTypes ==
    ASSUME DialogTypes, NEW t \in Threads, NEW kinds, Begins(t, kinds)
    PROVE  DialogTypes'
  BY DEF DialogTypes, Begins, TableTypes, PanelTypes, HistoryTypes, tables, panels, history

LEMMA PresentTypes ==
    ASSUME TableTypes
    PROVE  /\ Present \subseteq Users /\ Trashed \subseteq Secrets
           /\ {[id |-> u, role |-> user[u]] : u \in Present} \in SUBSET Row
<1>1. \A u \in Present : u \in Users /\ user[u] \in Roles
  BY DEF Present
<1> QED BY <1>1 DEF Present, Trashed, Row

LEMMA ServeUsersTypes ==
    ASSUME DialogTypes, NEW t \in Threads, ServeUsers(t)
    PROVE  TableTypes' /\ ThreadTypes' /\ \E pc \in {"ok", "err", "vault"} : Replies(t, pc)
<1>1. ThreadTypes /\ TableTypes
  BY DEF DialogTypes
<1> DEFINE k == th[t]
<1>2. k \in Thread /\ Carries(k) /\ k.kind \in UsersKinds /\ k.role \in Roles
  BY <1>1, KindSets DEF ThreadTypes, Thread, ServeUsers
<1>3. CASE /\ k.kind \in {"list", "relist"} /\ Me \in Admins
           /\ th' = [th EXCEPT ![t].pc = "ok",
                               ![t].rows = {[id |-> u, role |-> user[u]] : u \in Present}]
           /\ UNCHANGED <<user, perso, member>>
  <2>1. ThreadTypes' /\ Replies(t, "ok")
    BY <1>1, <1>2, <1>3, RowsReplies, PresentTypes
  <2>2. TableTypes'
    BY <1>1, <1>3 DEF TableTypes, ServeUsers
  <2> QED BY <2>1, <2>2
<1>4. ASSUME NEW pc \in {"ok", "err", "vault"}, th' = [th EXCEPT ![t].pc = pc],
             pc = "vault" => k.kind = "create"
      PROVE  ThreadTypes' /\ Replies(t, pc)
  BY <1>1, <1>4, EndsReplies
<1>5. CASE /\ k.kind = "toggle" /\ Me \in Admins /\ k.who \in Present
           /\ ~(k.role = "user" /\ LastAdmin(k.who))
           /\ user' = [user EXCEPT ![k.who] = k.role]
           /\ th' = [th EXCEPT ![t].pc = "ok"]
           /\ UNCHANGED <<perso, member>>
  <2>1. TableTypes'
    BY <1>1, <1>2, <1>5 DEF TableTypes, ServeUsers
  <2> QED BY <1>4, <1>5, <2>1
<1>6. CASE /\ k.kind = "delete" /\ Me \in Admins /\ k.who \in Present /\ ~LastAdmin(k.who)
           /\ user' = [user EXCEPT ![k.who] = "gone"]
           /\ perso' = perso \ {k.who}
           /\ member' = [tm \in Teams |-> member[tm] \ {k.who}]
           /\ th' = [th EXCEPT ![t].pc = IF k.who = Me THEN "err" ELSE "ok"]
  <2>1. TableTypes'
    <3>1. user' \in [Users -> Roles \cup {"unused", "gone"}] /\ perso' \subseteq Users
      BY <1>1, <1>6 DEF TableTypes
    <3>2. \A tm \in Teams : member[tm] \ {k.who} \in SUBSET Users
      BY <1>1 DEF TableTypes
    <3>3. member' \in [Teams -> SUBSET Users]
      BY <1>6, <3>2
    <3> QED BY <1>1, <3>1, <3>3 DEF TableTypes, ServeUsers
  <2>2. CASE k.who = Me
    BY <1>4, <1>6, <2>1, <2>2
  <2>3. CASE k.who # Me
    BY <1>4, <1>6, <2>1, <2>3
  <2> QED BY <2>2, <2>3
<1>7. CASE /\ k.kind = "reset" /\ th' = [th EXCEPT ![t].pc = "ok"]
           /\ UNCHANGED <<user, perso, member>>
  <2>1. TableTypes'
    BY <1>1, <1>7 DEF TableTypes, ServeUsers
  <2> QED BY <1>4, <1>7, <2>1
<1>8. CASE /\ k.kind = "create" /\ Me \in Admins /\ user[k.who] = "unused"
           /\ user' = [user EXCEPT ![k.who] = k.role]
           /\ th' = [th EXCEPT ![t].pc = "vault"]
           /\ UNCHANGED <<perso, member>>
  <2>1. TableTypes'
    BY <1>1, <1>2, <1>8 DEF TableTypes, ServeUsers
  <2> QED BY <1>4, <1>8, <2>1
<1>9. CASE th' = [th EXCEPT ![t].pc = "err"] /\ UNCHANGED <<user, perso, member>>
  <2>1. TableTypes'
    BY <1>1, <1>9 DEF TableTypes, ServeUsers
  <2> QED BY <1>4, <1>9, <2>1
<1> QED BY <1>3, <1>5, <1>6, <1>7, <1>8, <1>9 DEF ServeUsers

LEMMA CreatePersoTypes ==
    ASSUME DialogTypes, NEW t \in Threads, CreatePerso(t)
    PROVE  /\ TableTypes' /\ HistoryTypes' /\ ThreadTypes'
           /\ th[t].kind = "create" /\ th[t].who \in Users
           /\ \E pc \in {"ok", "err"} : Replies(t, pc)
<1>1. ThreadTypes /\ TableTypes /\ HistoryTypes
  BY DEF DialogTypes
<1>2. th[t].kind = "create" /\ th[t].who \in Users
  BY <1>1 DEF ThreadTypes, Carries, CreatePerso
<1>3. \A pc \in {"ok", "err"} : th' = [th EXCEPT ![t].pc = pc] => ThreadTypes' /\ Replies(t, pc)
  BY <1>1, EndsReplies
<1>4. ThreadTypes' /\ \E pc \in {"ok", "err"} : Replies(t, pc)
  BY <1>3 DEF CreatePerso
<1>5. TableTypes' /\ HistoryTypes'
  BY <1>1, <1>2 DEF TableTypes, HistoryTypes, CreatePerso
<1> QED BY <1>2, <1>4, <1>5

\* A thread ends or begins a reading of its own panel.
Turns(t, kinds) ==
    /\ ThreadTypes'
    /\ \A x \in Threads : x # t => th'[x] = th[x]
    /\ \/ th'[t] = Idle
       \/ th'[t].kind \in kinds /\ th'[t].pc = "run" /\ th'[t].mine /\ th'[t].kind # "create"

LEMMA TurnsIdle ==
    ASSUME ThreadTypes, NEW t \in Threads, NEW kinds, Start(t, Idle)
    PROVE  Turns(t, kinds) /\ th'[t] = Idle
  BY IdleThread, ThreadStep, OneThread DEF Start, Turns

LEMMA TurnsRead ==
    ASSUME ThreadTypes, NEW t \in Threads,
           NEW kind \in UsersKinds \cup TeamsKinds \cup TrashKinds, kind # "create",
           NEW on \in Teams \cup Secrets \cup {None}, kind \in OfMembers => on \in Teams,
           Start(t, Read(kind, on))
    PROVE  /\ Turns(t, {kind}) /\ th'[t].on = on
           /\ th'[t].kind = kind /\ th'[t].pc = "run" /\ th'[t].mine
<1>1. Read(kind, on) \in Thread /\ Carries(Read(kind, on))
      /\ Read(kind, on).kind = kind /\ Read(kind, on).pc = "run"
      /\ Read(kind, on).mine /\ Read(kind, on).on = on
  BY ReadThread
<1>2. th' = [th EXCEPT ![t] = Read(kind, on)]
  BY DEF Start
<1>3. ThreadTypes' /\ th'[t] = Read(kind, on) /\ \A x \in Threads : x # t => th'[x] = th[x]
  BY <1>1, <1>2, ThreadStep, OneThread
<1> QED BY <1>1, <1>3 DEF Turns

LEMMA UsersAnswerTypes ==
    ASSUME DialogTypes, NEW t \in Threads, UsersAnswer(t)
    PROVE  up' \in UsersPanel /\ calm' \in BOOLEAN /\ (calm' => calm) /\ Turns(t, UsersKinds)
<1>1. ThreadTypes /\ up \in UsersPanel /\ calm \in BOOLEAN /\ th[t] \in Thread
  BY DEF DialogTypes, PanelTypes, HistoryTypes, ThreadTypes
<1>2. th[t].rows \in SUBSET Row
  BY <1>1 DEF Thread
<1>3. CASE Start(t, Idle)
  <2>1. Turns(t, UsersKinds)
    BY <1>1, <1>3, TurnsIdle
  <2>2. up' \in UsersPanel /\ calm' \in BOOLEAN /\ (calm' => calm)
    <3>1. CASE up' = [up EXCEPT !.rows = @ \cup th[t].rows] /\ UNCHANGED calm
      BY <1>1, <1>2, <3>1 DEF UsersPanel
    <3>2. CASE up' = [up EXCEPT !.err = TRUE] /\ UNCHANGED calm
      BY <1>1, <3>2 DEF UsersPanel
    <3>3. CASE UNCHANGED <<up, calm>>
      BY <1>1, <3>3
    <3>4. CASE refresh_toggle(t)
      BY <1>1, <3>4 DEF refresh_toggle, UsersPanel
    <3>5. CASE refresh_users(t)
      BY <1>1, <3>5 DEF refresh_users, UsersPanel, Calm
    <3> QED BY <3>1, <3>2, <3>3, <3>4, <3>5 DEF UsersAnswer
  <2> QED BY <2>1, <2>2
<1>4. CASE refresh_toggle(t)
  <2>1. Turns(t, UsersKinds)
    BY <1>1, <1>4, TurnsRead DEF refresh_toggle, UsersKinds, OfMembers, Turns
  <2> QED BY <1>1, <1>4, <2>1 DEF refresh_toggle, UsersPanel
<1>5. CASE refresh_users(t)
  <2>1. Turns(t, UsersKinds)
    BY <1>1, <1>5, TurnsRead DEF refresh_users, UsersKinds, OfMembers, Turns
  <2> QED BY <1>1, <1>5, <2>1 DEF refresh_users, UsersPanel, Calm
<1> QED BY <1>3, <1>4, <1>5 DEF UsersAnswer

LEMMA UsersTypes ==
    ASSUME DialogTypes, NEW t \in Threads, UsersStep(t)
    PROVE  DialogTypes'
<1>1. CASE ClickInUsers(t)
  BY <1>1, UsersClicks, BeginsTypes
<1>2. CASE ServeUsers(t)
  <2>1. TableTypes' /\ ThreadTypes'
    BY <1>2, ServeUsersTypes
  <2>2. PanelTypes' /\ HistoryTypes'
    BY <1>2 DEF DialogTypes, PanelTypes, HistoryTypes, ServeUsers, panels, history
  <2> QED BY <2>1, <2>2 DEF DialogTypes
<1>3. CASE CreatePerso(t)
  <2>1. TableTypes' /\ ThreadTypes' /\ HistoryTypes'
    BY <1>3, CreatePersoTypes
  <2>2. PanelTypes'
    BY <1>3 DEF DialogTypes, PanelTypes, CreatePerso, panels
  <2> QED BY <2>1, <2>2 DEF DialogTypes
<1>4. CASE UsersAnswer(t)
  <2>1. up' \in UsersPanel /\ calm' \in BOOLEAN /\ ThreadTypes'
    BY <1>4, UsersAnswerTypes DEF Turns
  <2>2. TableTypes'
    BY <1>4 DEF DialogTypes, TableTypes, UsersAnswer, tables
  <2>3. PanelTypes' /\ HistoryTypes'
    BY <1>4, <2>1 DEF DialogTypes, PanelTypes, HistoryTypes, UsersAnswer
  <2> QED BY <2>1, <2>2, <2>3 DEF DialogTypes
<1> QED BY <1>1, <1>2, <1>3, <1>4 DEF UsersStep

LEMMA WindowTypes ==
    ASSUME NEW tm \in Teams \cup {None}
    PROVE  MWin(tm) \in MembersWindow /\ SWin(tm) \in ShareWindow
<1>1. <<>> \in Lists /\ None \in Names
  BY DEF Lists, Names
<1> QED BY <1>1 DEF MWin, SWin, MembersWindow, ShareWindow

LEMMA SortedList ==
    ASSUME NEW S \in SUBSET Shown
    PROVE  Sorted(S) \in Lists
  BY DEF Lists

LEMMA ServeTeamsTypes ==
    ASSUME DialogTypes, NEW t \in Threads, ServeTeams(t)
    PROVE  TableTypes' /\ ThreadTypes' /\ \E pc \in {"ok", "err"} : Replies(t, pc)
<1>1. ThreadTypes /\ TableTypes
  BY DEF DialogTypes
<1> DEFINE k == th[t]
<1>2. k \in Thread /\ Carries(k)
  BY <1>1 DEF ThreadTypes
<1>3. ASSUME NEW found \in SUBSET Shown, NEW picks \in SUBSET Users,
             k.kind = "teams" => found \subseteq Teams,
             k.kind = "members" => found \subseteq Users, k.kind # "trash",
             th' = [th EXCEPT ![t].pc = "ok", ![t].found = found, ![t].picks = picks],
             UNCHANGED <<team, member>>
      PROVE  TableTypes' /\ ThreadTypes' /\ Replies(t, "ok")
  <2>1. ThreadTypes' /\ Replies(t, "ok")
    BY <1>1, <1>3, FindsReplies
  <2>2. TableTypes'
    BY <1>1, <1>3 DEF TableTypes, ServeTeams
  <2> QED BY <2>1, <2>2
<1>4. ASSUME NEW pc \in {"ok", "err"}, th' = [th EXCEPT ![t].pc = pc]
      PROVE  ThreadTypes' /\ Replies(t, pc)
  BY <1>1, <1>4, EndsReplies
<1> DEFINE Live == {tm \in Teams : team[tm] = "live"}
<1>5. CASE /\ k.kind = "teams"
           /\ th' = [th EXCEPT ![t].pc = "ok", ![t].found = Live, ![t].picks = {}]
           /\ UNCHANGED <<team, member>>
  <2>1. Live \in SUBSET Shown /\ Live \subseteq Teams /\ {} \in SUBSET Users
    BY DEF Shown
  <2> QED BY <1>3, <1>5, <2>1
<1>6. CASE /\ k.kind = "members"
           /\ th' = [th EXCEPT ![t].pc = "ok", ![t].found = member[k.on], ![t].picks = Present]
           /\ UNCHANGED <<team, member>>
  <2>1. k.on \in Teams
    BY <1>2, <1>6 DEF Carries, OfMembers
  <2>2. member[k.on] \in SUBSET Shown /\ member[k.on] \subseteq Users /\ Present \in SUBSET Users
    BY <1>1, <2>1, PresentTypes DEF TableTypes, Shown
  <2> QED BY <1>3, <1>6, <2>2
<1>7. CASE /\ k.kind = "vaults"
           /\ th' = [th EXCEPT ![t].pc = "ok", ![t].found = own, ![t].picks = {}]
           /\ UNCHANGED <<team, member>>
  <2>1. own \in SUBSET Shown /\ {} \in SUBSET Users
    BY <1>1 DEF TableTypes, Shown
  <2> QED BY <1>3, <1>7, <2>1
<1>8. ASSUME NEW pc \in {"ok", "err"}, th' = [th EXCEPT ![t].pc = pc],
             team' \in [Teams -> {"unused", "live", "gone"}], member' \in [Teams -> SUBSET Users]
      PROVE  TableTypes' /\ ThreadTypes' /\ Replies(t, pc)
  BY <1>1, <1>4, <1>8 DEF TableTypes, ServeTeams
<1>9. Me \in Users
  BY DialogConstants
<1>10. CASE /\ k.kind = "newteam" /\ team[k.on] = "unused"
            /\ team' = [team EXCEPT ![k.on] = "live"]
            /\ member' = [member EXCEPT ![k.on] = {Me}]
            /\ th' = [th EXCEPT ![t].pc = "ok"]
  BY <1>1, <1>8, <1>9, <1>10 DEF TableTypes
<1>11. CASE /\ k.kind = "dropteam" /\ team[k.on] = "live"
            /\ team' = [team EXCEPT ![k.on] = "gone"]
            /\ member' = [member EXCEPT ![k.on] = {}]
            /\ th' = [th EXCEPT ![t].pc = "ok"]
  BY <1>1, <1>8, <1>11 DEF TableTypes
<1>12. CASE /\ k.kind = "add" /\ k.who \in Present
            /\ member' = [member EXCEPT ![k.on] = @ \cup {k.who}]
            /\ th' = [th EXCEPT ![t].pc = "ok"] /\ UNCHANGED team
  <2>1. k.on \in Teams /\ k.who \in Users
    BY <1>1, <1>2, <1>12, PresentTypes DEF Carries, OfMembers
  <2>2. member' \in [Teams -> SUBSET Users]
    BY <1>1, <1>12, <2>1 DEF TableTypes
  <2> QED BY <1>1, <1>8, <1>12, <2>2 DEF TableTypes
<1>13. CASE /\ k.kind = "remove"
            /\ member' = [member EXCEPT ![k.on] = @ \ {k.who}]
            /\ th' = [th EXCEPT ![t].pc = "ok"] /\ UNCHANGED team
  <2>1. k.on \in Teams
    BY <1>2, <1>13 DEF Carries, OfMembers
  <2>2. member' \in [Teams -> SUBSET Users]
    BY <1>1, <1>13, <2>1 DEF TableTypes
  <2> QED BY <1>1, <1>8, <1>13, <2>2 DEF TableTypes
<1>14. CASE th' = [th EXCEPT ![t].pc = "ok"] /\ UNCHANGED <<team, member>>
  BY <1>1, <1>8, <1>14 DEF TableTypes
<1>15. CASE th' = [th EXCEPT ![t].pc = "err"] /\ UNCHANGED <<team, member>>
  BY <1>1, <1>8, <1>15 DEF TableTypes
<1> QED BY <1>5, <1>6, <1>7, <1>10, <1>11, <1>12, <1>13, <1>14, <1>15 DEF ServeTeams

LEMMA TeamsAnswerTypes ==
    ASSUME DialogTypes, NEW t \in Threads, TeamsAnswer(t)
    PROVE  tp' \in TeamsPanel /\ calm' \in BOOLEAN /\ (calm' => calm) /\ Turns(t, {"teams"})
<1>1. /\ ThreadTypes /\ tp \in TeamsPanel /\ calm \in BOOLEAN
      /\ th[t].kind = "teams" => th[t].found \subseteq Teams
  BY DEF DialogTypes, PanelTypes, HistoryTypes, ThreadTypes, Carries
<1>2. CASE /\ th[t].kind = "teams"
           /\ tp' = IF th[t].pc = "ok" THEN [tp EXCEPT !.rows = @ \cup th[t].found]
                                      ELSE [tp EXCEPT !.err = TRUE]
           /\ Start(t, Idle) /\ UNCHANGED calm
  BY <1>1, <1>2, TurnsIdle DEF TeamsPanel
<1>3. CASE refresh_teams(t)
  <2>1. Turns(t, {"teams"})
    BY <1>1, <1>3, TurnsRead DEF refresh_teams, TeamsKinds, OfMembers
  <2> QED BY <1>1, <1>3, <2>1 DEF refresh_teams, TeamsPanel, Calm
<1>4. CASE Start(t, Idle) /\ UNCHANGED <<tp, calm>>
  BY <1>1, <1>4, TurnsIdle
<1> QED BY <1>2, <1>3, <1>4 DEF TeamsAnswer

LEMMA MembersShowType ==
    ASSUME NEW w \in MembersWindow, NEW k \in Thread, k.found \subseteq Users
    PROVE  MembersShow(w, k) \in MembersWindow
<1>1. Sorted(k.picks) \in Lists /\ None \in Names
  BY SortedList DEF Thread, Shown, Names
<1> QED BY <1>1 DEF MembersShow, MembersWindow

LEMMA MembersAnswerTypes ==
    ASSUME DialogTypes, NEW t \in Threads, MembersAnswer(t)
    PROVE  mwin' \in MembersWindow /\ calm' \in BOOLEAN /\ (calm' => calm) /\ Turns(t, {"members"})
<1>1. /\ ThreadTypes /\ mwin \in MembersWindow /\ calm \in BOOLEAN /\ th[t] \in Thread
      /\ th[t].kind = "members" => th[t].found \subseteq Users
  BY DEF DialogTypes, PanelTypes, HistoryTypes, ThreadTypes, Carries
<1>2. CASE th[t].kind = "members" /\ mwin' = MembersShow(mwin, th[t]) /\ Start(t, Idle) /\ UNCHANGED calm
  BY <1>1, <1>2, MembersShowType, TurnsIdle
<1>3. CASE mwin' = [mwin EXCEPT !.err = TRUE] /\ Start(t, Idle) /\ UNCHANGED calm
  <2>1. mwin' \in MembersWindow
    BY <1>1, <1>3 DEF MembersWindow
  <2> QED BY <1>1, <1>3, <2>1, TurnsIdle
<1>4. CASE refresh_members(t, th[t].on)
  <2>1. th[t].on \in Teams
    BY <1>1 DEF ThreadTypes, Carries, MembersAnswer
  <2>2. Turns(t, {"members"})
    BY <1>1, <1>4, <2>1, TurnsRead DEF refresh_members, TeamsKinds
  <2>3. mwin' \in MembersWindow
    BY <1>1, <1>4 DEF refresh_members, MembersWindow
  <2> QED BY <1>1, <1>4, <2>2, <2>3 DEF refresh_members, Calm
<1>5. CASE Start(t, Idle) /\ UNCHANGED <<mwin, calm>>
  BY <1>1, <1>5, TurnsIdle
<1> QED BY <1>2, <1>3, <1>4, <1>5 DEF MembersAnswer

\* A thread whose window has been closed.
LEMMA OrphanThread ==
    ASSUME NEW k \in Thread, Carries(k)
    PROVE  LET o == [k EXCEPT !.mine = FALSE] IN o \in Thread /\ Carries(o) /\ o.kind = k.kind
<1> DEFINE o == [k EXCEPT !.mine = FALSE]
<1>1. o \in Thread
  BY DEF Thread
<1>2. o.kind = k.kind /\ o.pc = k.pc /\ o.on = k.on /\ o.who = k.who /\ o.found = k.found
  BY DEF Thread
<1> HIDE DEF o
<1>3. Carries(o)
  BY <1>2 DEF Carries
<1> QED BY <1>1, <1>2, <1>3 DEF o

\* The thread ends; when the window closes, the other threads of it are orphans.
LEMMA ShareAnswerTypes ==
    ASSUME DialogTypes, NEW t \in Threads, ShareAnswer(t)
    PROVE  /\ swin' \in ShareWindow /\ ThreadTypes' /\ th'[t] = Idle
           /\ \A x \in Threads : x # t =>
                 \/ th'[x] = th[x]
                 \/ th[x].kind \in OfShare /\ th'[x].kind = th[x].kind
<1>1. ThreadTypes /\ swin \in ShareWindow /\ th[t] \in Thread
  BY DEF DialogTypes, PanelTypes, ThreadTypes
<1>2. swin' \in ShareWindow
  <2>1. CASE swin' = [swin EXCEPT !.ids = Sorted(th[t].found), !.sel = 0, !.picked = None]
    <3>1. Sorted(th[t].found) \in Lists /\ None \in Names
      BY <1>1, SortedList DEF Thread, Names
    <3> QED BY <1>1, <2>1, <3>1 DEF ShareWindow
  <2>2. CASE swin' = [swin EXCEPT !.apply = FALSE]
    BY <1>1, <2>2 DEF ShareWindow
  <2>3. CASE swin' = SWin(None)
    BY <2>3, WindowTypes
  <2>4. CASE UNCHANGED swin
    BY <1>1, <2>4
  <2> QED BY <2>1, <2>2, <2>3, <2>4 DEF ShareAnswer
<1>3. CASE th' = [th EXCEPT ![t] = Idle]
  BY <1>1, <1>2, <1>3, IdleThread, ThreadStep, OneThread
<1>4. CASE th' = [Orphaned(OfShare) EXCEPT ![t] = Idle]
  <2>1. \A k \in Thread : Carries(k) =>
           LET o == [k EXCEPT !.mine = FALSE] IN o \in Thread /\ Carries(o) /\ o.kind = k.kind
    BY OrphanThread
  <2>2. \A x \in Threads : x # t => th'[x] = IF th[x].kind \in OfShare
                                                THEN [th[x] EXCEPT !.mine = FALSE] ELSE th[x]
    BY <1>4 DEF Orphaned
  <2>3. th'[t] = Idle /\ DOMAIN th' = Threads /\ th' = [x \in Threads |-> th'[x]]
    BY <1>4 DEF Orphaned
  <2>4. \A x \in Threads : th'[x] \in Thread /\ Carries(th'[x])
    BY <1>1, <2>1, <2>2, <2>3, IdleThread DEF ThreadTypes
  <2>5. th' \in [Threads -> Thread]
    BY <2>3, <2>4
  <2>6. ThreadTypes'
    BY <2>4, <2>5 DEF ThreadTypes, Carries
  <2>7. \A x \in Threads : th[x].kind \in OfShare => [th[x] EXCEPT !.mine = FALSE].kind = th[x].kind
    BY <1>1, <2>1 DEF ThreadTypes
  <2> QED BY <1>2, <2>2, <2>3, <2>6, <2>7
<1> QED BY <1>3, <1>4 DEF ShareAnswer

LEMMA TeamsTypes ==
    ASSUME DialogTypes, NEW t \in Threads, TeamsStep(t)
    PROVE  DialogTypes'
<1>1. CASE ClickInTeams(t)
  BY <1>1, TeamsClicks, BeginsTypes
<1>2. ASSUME NEW tm \in Teams, OpenMembers(t, tm)
      PROVE  DialogTypes'
  <2>1. ThreadTypes'
    BY <1>2, TurnsRead DEF DialogTypes, OpenMembers, TeamsKinds, Turns
  <2>2. mwin' \in MembersWindow
    BY <1>2, WindowTypes DEF OpenMembers
  <2> QED BY <1>2, <2>1, <2>2
          DEF DialogTypes, TableTypes, PanelTypes, HistoryTypes, OpenMembers, tables, history
<1>3. ASSUME NEW tm \in Teams, OpenShare(t, tm)
      PROVE  DialogTypes'
  <2>1. ThreadTypes'
    BY <1>3, TurnsRead DEF DialogTypes, OpenShare, TeamsKinds, Turns
  <2>2. swin' \in ShareWindow
    BY <1>3, WindowTypes DEF OpenShare
  <2> QED BY <1>3, <2>1, <2>2
          DEF DialogTypes, TableTypes, PanelTypes, HistoryTypes, OpenShare, tables, history
<1>4. CASE ServeTeams(t)
  <2>1. TableTypes' /\ ThreadTypes'
    BY <1>4, ServeTeamsTypes
  <2>2. PanelTypes' /\ HistoryTypes'
    BY <1>4 DEF DialogTypes, PanelTypes, HistoryTypes, ServeTeams, panels, history
  <2> QED BY <2>1, <2>2 DEF DialogTypes
<1>5. CASE TeamsAnswer(t)
  <2>1. tp' \in TeamsPanel /\ calm' \in BOOLEAN /\ ThreadTypes'
    BY <1>5, TeamsAnswerTypes DEF Turns
  <2> QED BY <1>5, <2>1
          DEF DialogTypes, TableTypes, PanelTypes, HistoryTypes, TeamsAnswer, tables
<1>6. CASE MembersAnswer(t)
  <2>1. mwin' \in MembersWindow /\ calm' \in BOOLEAN /\ ThreadTypes'
    BY <1>6, MembersAnswerTypes DEF Turns
  <2> QED BY <1>6, <2>1
          DEF DialogTypes, TableTypes, PanelTypes, HistoryTypes, MembersAnswer, tables
<1>7. CASE ShareAnswer(t)
  <2>1. swin' \in ShareWindow /\ ThreadTypes'
    BY <1>7, ShareAnswerTypes
  <2> QED BY <1>7, <2>1
          DEF DialogTypes, TableTypes, PanelTypes, HistoryTypes, ShareAnswer, tables, history
<1> QED BY <1>1, <1>2, <1>3, <1>4, <1>5, <1>6, <1>7 DEF TeamsStep

LEMMA ServeTrashTypes ==
    ASSUME DialogTypes, NEW t \in Threads, ServeTrash(t)
    PROVE  /\ TableTypes' /\ ThreadTypes' /\ mainStale' \in BOOLEAN
           /\ \E pc \in {"ok", "err"} : Replies(t, pc)
<1>1. ThreadTypes /\ TableTypes /\ mainStale \in BOOLEAN /\ Trashed \in SUBSET Secrets
  BY PresentTypes DEF DialogTypes, HistoryTypes
<1> DEFINE k == th[t]
<1>2. CASE /\ k.kind = "trash"
           /\ th' = [th EXCEPT ![t].pc = "ok", ![t].found = Trashed]
           /\ UNCHANGED <<secret, mainStale>>
  <2>1. ThreadTypes' /\ Replies(t, "ok")
    BY <1>1, <1>2, TrashReplies
  <2>2. TableTypes' /\ mainStale' \in BOOLEAN
    BY <1>1, <1>2 DEF TableTypes, ServeTrash
  <2> QED BY <2>1, <2>2
<1>3. ASSUME NEW pc \in {"ok", "err"}, th' = [th EXCEPT ![t].pc = pc],
             secret' \in [Secrets -> {"live", "trash", "gone"}], mainStale' \in BOOLEAN
      PROVE  TableTypes' /\ ThreadTypes' /\ mainStale' \in BOOLEAN /\ Replies(t, pc)
  <2>1. ThreadTypes' /\ Replies(t, pc)
    BY <1>1, <1>3, EndsReplies
  <2> QED BY <1>1, <1>3, <2>1 DEF TableTypes, ServeTrash
<1>4. CASE /\ k.on \in Trashed /\ secret' = [secret EXCEPT ![k.on] = "live"]
           /\ mainStale' = TRUE /\ th' = [th EXCEPT ![t].pc = "ok"]
  BY <1>1, <1>3, <1>4 DEF TableTypes
<1>5. CASE /\ k.on \in Trashed /\ secret' = [secret EXCEPT ![k.on] = "gone"]
           /\ th' = [th EXCEPT ![t].pc = "ok"] /\ UNCHANGED mainStale
  BY <1>1, <1>3, <1>5 DEF TableTypes
<1>6. CASE /\ secret' = [s \in Secrets |-> IF s \in First \cap Trashed THEN "gone" ELSE secret[s]]
           /\ th' = [th EXCEPT ![t].pc = "ok"] /\ UNCHANGED mainStale
  BY <1>1, <1>3, <1>6 DEF TableTypes
<1>7. CASE th' = [th EXCEPT ![t].pc = "err"] /\ UNCHANGED <<secret, mainStale>>
  BY <1>1, <1>3, <1>7 DEF TableTypes
<1> QED BY <1>2, <1>4, <1>5, <1>6, <1>7 DEF ServeTrash

LEMMA TrashAnswerTypes ==
    ASSUME DialogTypes, NEW t \in Threads, TrashAnswer(t)
    PROVE  trash' \in TrashDialog /\ Turns(t, {"trash"}) /\ th'[t] = Idle
<1>1. ThreadTypes /\ trash \in TrashDialog /\ th[t].found \subseteq Secrets
  BY DEF DialogTypes, PanelTypes, ThreadTypes, Carries, TrashAnswer
<1>2. Turns(t, {"trash"}) /\ th'[t] = Idle
  BY <1>1, TurnsIdle DEF TrashAnswer
<1>3. CASE trash' = [trash EXCEPT !.panel = "unavailable"]
  BY <1>1, <1>2, <1>3 DEF TrashDialog
<1>4. CASE trash' = [trash EXCEPT !.rows = th[t].found,
                                  !.panel = IF th[t].found = {} THEN "empty" ELSE "list"]
  BY <1>1, <1>2, <1>4 DEF TrashDialog
<1> QED BY <1>3, <1>4 DEF TrashAnswer

LEMMA TrashChangedTypes ==
    ASSUME DialogTypes, NEW t \in Threads, TrashChanged(t)
    PROVE  /\ trash' \in TrashDialog /\ calm' \in BOOLEAN /\ (calm' => calm)
           /\ mainStale' \in BOOLEAN /\ Turns(t, {"trash"})
<1>1. ThreadTypes /\ trash \in TrashDialog /\ calm \in BOOLEAN /\ mainStale \in BOOLEAN
  BY DEF DialogTypes, PanelTypes, HistoryTypes
<1>2. mainStale' \in BOOLEAN
  BY <1>1 DEF TrashChanged
<1>3. CASE refresh_trash_list(t)
  <2>1. Turns(t, {"trash"})
    BY <1>1, <1>3, TurnsRead DEF refresh_trash_list, TrashKinds, OfMembers
  <2>2. trash' \in TrashDialog
    BY <1>1, <1>3 DEF refresh_trash_list, TrashDialog
  <2> QED BY <1>1, <1>2, <1>3, <2>1, <2>2 DEF refresh_trash_list, Calm
<1>4. CASE Start(t, Idle) /\ UNCHANGED <<trash, calm>>
  BY <1>1, <1>2, <1>4, TurnsIdle
<1> QED BY <1>3, <1>4 DEF TrashChanged

LEMMA TrashTypes ==
    ASSUME DialogTypes, NEW t \in Threads, TrashStep(t)
    PROVE  DialogTypes'
<1>1. CASE ClickInTrash(t)
  BY <1>1, TrashClicks, BeginsTypes
<1>2. CASE OpenTrash(t)
  <2>1. ThreadTypes'
    BY <1>2, TurnsRead DEF DialogTypes, OpenTrash, TrashKinds, OfMembers, Turns
  <2>2. trash' \in TrashDialog
    BY <1>2 DEF OpenTrash, TrashDialog
  <2> QED BY <1>2, <2>1, <2>2
          DEF DialogTypes, TableTypes, PanelTypes, HistoryTypes, OpenTrash, tables, history
<1>3. CASE ServeTrash(t)
  <2>1. TableTypes' /\ ThreadTypes' /\ mainStale' \in BOOLEAN
    BY <1>3, ServeTrashTypes
  <2> QED BY <1>3, <2>1 DEF DialogTypes, PanelTypes, HistoryTypes, ServeTrash, panels
<1>4. CASE TrashAnswer(t)
  <2>1. trash' \in TrashDialog /\ ThreadTypes'
    BY <1>4, TrashAnswerTypes DEF Turns
  <2> QED BY <1>4, <2>1
          DEF DialogTypes, TableTypes, PanelTypes, HistoryTypes, TrashAnswer, tables, history
<1>5. CASE TrashChanged(t)
  <2>1. trash' \in TrashDialog /\ ThreadTypes' /\ calm' \in BOOLEAN /\ mainStale' \in BOOLEAN
    BY <1>5, TrashChangedTypes DEF Turns
  <2> QED BY <1>5, <2>1
          DEF DialogTypes, TableTypes, PanelTypes, HistoryTypes, TrashChanged, tables
<1> QED BY <1>1, <1>2, <1>3, <1>4, <1>5 DEF TrashStep

LEMMA LostAnswerTypes ==
    ASSUME DialogTypes, NEW t \in Threads, LostAnswer(t)
    PROVE  DialogTypes' /\ Turns(t, {}) /\ th'[t] = Idle
<1>1. Turns(t, {}) /\ th'[t] = Idle
  BY TurnsIdle DEF LostAnswer, DialogTypes
<1> QED BY <1>1 DEF DialogTypes, TableTypes, PanelTypes, HistoryTypes, LostAnswer, Turns,
                    tables, panels, history

LEMMA OtherTypes ==
    ASSUME DialogTypes, OtherStep
    PROVE  DialogTypes'
<1>1. ThreadTypes /\ TableTypes /\ PanelTypes /\ HistoryTypes
  BY DEF DialogTypes
<1>2. UNCHANGED th => ThreadTypes'
  BY <1>1 DEF ThreadTypes, Carries
<1>3. Cardinality(Users) \in Nat /\ Cardinality(Vaults) \in Nat
  BY DialogConstants, FS_CardinalityType
<1>4. ASSUME NEW i \in 1 .. Cardinality(Users), PickUser(i)
      PROVE  DialogTypes'
  <2>1. mwin.ids[i] \in Names /\ i \in Nat
    BY <1>1, <1>3 DEF PanelTypes, MembersWindow, Names
  <2>2. mwin' \in MembersWindow
    BY <1>1, <1>4, <2>1 DEF PickUser, PanelTypes, MembersWindow
  <2> QED BY <1>1, <1>2, <1>4, <2>2
          DEF DialogTypes, TableTypes, PanelTypes, HistoryTypes, PickUser, tables, history
<1>5. ASSUME NEW i \in 1 .. Cardinality(Vaults), PickVault(i)
      PROVE  DialogTypes'
  <2>1. swin.ids[i] \in Names /\ i \in Nat
    BY <1>1, <1>3 DEF PanelTypes, ShareWindow, Names
  <2>2. swin' \in ShareWindow
    BY <1>1, <1>5, <2>1 DEF PickVault, PanelTypes, ShareWindow
  <2> QED BY <1>1, <1>2, <1>5, <2>2
          DEF DialogTypes, TableTypes, PanelTypes, HistoryTypes, PickVault, tables, history
<1>6. CASE CloseWindow
  <2>1. ThreadTypes'
    BY <1>1, <1>6, OrphanedThreads DEF CloseWindow
  <2>2. mwin' \in MembersWindow /\ swin' \in ShareWindow /\ calm' \in BOOLEAN
    BY <1>1, <1>6, WindowTypes DEF CloseWindow
  <2> QED BY <1>1, <1>6, <2>1, <2>2
          DEF DialogTypes, TableTypes, PanelTypes, HistoryTypes, CloseWindow, tables
<1>7. CASE CloseTrash
  <2>1. ThreadTypes'
    BY <1>1, <1>7, OrphanedThreads DEF CloseTrash
  <2>2. trash' \in TrashDialog /\ calm' \in BOOLEAN
    BY <1>1, <1>7 DEF CloseTrash, PanelTypes, TrashDialog
  <2> QED BY <1>1, <1>7, <2>1, <2>2
          DEF DialogTypes, TableTypes, PanelTypes, HistoryTypes, CloseTrash, tables
<1>8. CASE Elsewhere
  <2>1. TableTypes'
    <3>1. ASSUME NEW u \in Present \ {Me}, user' = [user EXCEPT ![u] = "gone"],
                 perso' = perso \ {u}, member' = [tm \in Teams |-> member[tm] \ {u}],
                 UNCHANGED own
          PROVE  TableTypes'
      <4>1. user' \in [Users -> Roles \cup {"unused", "gone"}] /\ perso' \subseteq Users
        BY <1>1, <3>1 DEF TableTypes
      <4>2. \A tm \in Teams : member[tm] \ {u} \in SUBSET Users
        BY <1>1 DEF TableTypes
      <4>3. member' \in [Teams -> SUBSET Users]
        BY <3>1, <4>2
      <4> QED BY <1>1, <1>8, <3>1, <4>1, <4>3 DEF TableTypes, Elsewhere
    <3>2. CASE (\E v \in own : own' = own \ {v}) /\ UNCHANGED <<user, perso, member>>
      BY <1>1, <1>8, <3>2 DEF TableTypes, Elsewhere
    <3> QED BY <1>8, <3>1, <3>2 DEF Elsewhere
  <2> QED BY <1>1, <1>2, <1>8, <2>1
          DEF DialogTypes, PanelTypes, HistoryTypes, Elsewhere, panels, history
<1>9. ASSUME NEW s \in Secrets, MoveToTrash(s)
      PROVE  DialogTypes'
  <2>1. TableTypes'
    BY <1>1, <1>9 DEF TableTypes, MoveToTrash
  <2> QED BY <1>1, <1>2, <1>9, <2>1
          DEF DialogTypes, PanelTypes, HistoryTypes, MoveToTrash, panels, history
<1> QED BY <1>4, <1>5, <1>6, <1>7, <1>8, <1>9 DEF OtherStep

\* A behaviour begins with the first reading of the panel under way.
FirstReading(t) ==
    /\ \A x \in Threads : x # t => th[x] = Idle
    /\ th[t].pc = "run" /\ th[t].mine
    /\ th[t].kind \in {"list", "teams", "trash"}
    /\ desk = "users" => th[t].kind = "list"
    /\ desk = "teams" => th[t].kind = "teams"
    /\ th[t].kind = "trash" <=> trash.open

LEMMA InitParts ==
    ASSUME Init
    PROVE  /\ DialogTypes
           /\ \E t \in Threads : FirstReading(t)
           /\ perso = Present /\ ~mainStale
           /\ mwin = MWin(None) /\ swin = SWin(None) /\ tp.rows = {}
<1>1. PICK d \in DOMAIN Kinds, t \in Threads, r \in [Users \ {Me} -> {"unused", "user", "admin"}],
           tms \in SUBSET Teams, vs \in SUBSET Vaults, sec \in [Secrets -> {"live", "trash"}] :
        /\ d # "teams" => tms = {} /\ vs = {}
        /\ d = "trash" => r = [u \in Users \ {Me} |-> "unused"]
        /\ d # "trash" => sec = [s \in Secrets |-> "live"]
        /\ desk = d
        /\ user = [u \in Users |-> IF u = Me THEN "admin" ELSE r[u]]
        /\ perso = Present
        /\ team = [tm \in Teams |-> IF tm \in tms THEN "live" ELSE "unused"]
        /\ member = [tm \in Teams |-> IF tm \in tms THEN {Me} ELSE {}]
        /\ own = vs
        /\ secret = sec
        /\ up = [rows |-> {}, last |-> "list", err |-> FALSE]
        /\ tp = [rows |-> {}, err |-> FALSE]
        /\ mwin = MWin(None)
        /\ swin = SWin(None)
        /\ trash = [open |-> d = "trash", rows |-> {}, panel |-> "loading"]
        /\ th = [x \in Threads |->
                   IF x # t THEN Idle
                   ELSE Read(CASE d = "users" -> "list" [] d = "teams" -> "teams" [] OTHER -> "trash", None)]
        /\ halfmade = {} /\ mainStale = FALSE /\ calm = TRUE
  BY DEF Init
<1>2. Me \in Users
  BY DialogConstants
<1>3. TableTypes
  BY <1>1, <1>2 DEF TableTypes, Present, Roles
<1>4. PanelTypes
  BY <1>1, WindowTypes DEF PanelTypes, UsersPanel, TeamsPanel, TrashDialog
<1>5. HistoryTypes
  BY <1>1 DEF HistoryTypes
<1> DEFINE kind == CASE d = "users" -> "list" [] d = "teams" -> "teams" [] OTHER -> "trash"
<1>6. kind \in {"list", "teams", "trash"}
  OBVIOUS
<1>7. /\ d = "users" => kind = "list"
      /\ d = "teams" => kind = "teams"
      /\ kind = "trash" <=> d = "trash"
  BY KindSets
<1>8. th = [x \in Threads |-> IF x # t THEN Idle ELSE Read(kind, None)]
  BY <1>1
<1> HIDE DEF kind
<1>9. /\ Read(kind, None) \in Thread /\ Carries(Read(kind, None))
      /\ Read(kind, None).kind = kind /\ Read(kind, None).pc = "run" /\ Read(kind, None).mine
  BY <1>6, ReadThread DEF UsersKinds, TeamsKinds, TrashKinds, OfMembers
<1>10. ThreadTypes
  <2>1. \A x \in Threads : th[x] \in Thread /\ Carries(th[x])
    BY <1>8, <1>9, IdleThread
  <2> QED BY <1>8, <2>1 DEF ThreadTypes
<1>11. trash.open <=> d = "trash"
  BY <1>1
<1>12. FirstReading(t)
  BY <1>1, <1>6, <1>7, <1>8, <1>9, <1>11 DEF FirstReading
<1>13. perso = Present /\ ~mainStale /\ mwin = MWin(None) /\ swin = SWin(None) /\ tp.rows = {}
  BY <1>1
<1> QED BY <1>3, <1>4, <1>5, <1>10, <1>12, <1>13 DEF DialogTypes

LEMMA TypesStep == DialogTypes /\ [Next]_vars => DialogTypes'
<1>1. ASSUME DialogTypes, UNCHANGED vars
      PROVE  DialogTypes'
  BY <1>1 DEF DialogTypes, TableTypes, PanelTypes, HistoryTypes, ThreadTypes, Carries, Present,
              vars, tables, panels, history
<1>2. ASSUME DialogTypes, Next
      PROVE  DialogTypes'
  BY <1>2, NextCases, UsersTypes, TeamsTypes, TrashTypes, LostAnswerTypes, OtherTypes
<1> QED BY <1>1, <1>2

-----------------------------------------------------------------------------
(* What the steps of a panel leave alone.                                  *)

Aside(kinds) ==
    \A x \in Threads : th'[x] = th[x] \/ (th[x].kind \in kinds /\ th'[x].kind \in kinds)

LEMMA UsersFrame ==
    ASSUME DialogTypes, NEW t \in Threads, UsersStep(t)
    PROVE  /\ Aside(UsersKinds \cup {"idle"})
           /\ UNCHANGED <<desk, tp, mwin, swin, trash, team, own, secret, mainStale>>
           /\ calm' => calm
           /\ \A tm \in Teams : member'[tm] \subseteq member[tm]
<1>1. CASE ClickInUsers(t)
  BY <1>1, UsersClicks DEF Begins, Aside, tables, panels, history
<1>2. CASE ServeUsers(t)
  <2>1. Aside(UsersKinds \cup {"idle"})
    BY <1>2, ServeUsersTypes, KindSets DEF Replies, Aside, ServeUsers
  <2>2. \A tm \in Teams : member'[tm] \subseteq member[tm]
    <3>1. CASE member' = [tm \in Teams |-> member[tm] \ {th[t].who}]
      BY <3>1
    <3>2. CASE UNCHANGED member
      BY <3>2
    <3> QED BY <1>2, <3>1, <3>2 DEF ServeUsers
  <2> QED BY <1>2, <2>1, <2>2 DEF ServeUsers, panels, history
<1>3. CASE CreatePerso(t)
  BY <1>3, CreatePersoTypes DEF Replies, Aside, CreatePerso, panels, UsersKinds
<1>4. CASE UsersAnswer(t)
  <2>1. Turns(t, UsersKinds) /\ (calm' => calm)
    BY <1>4, UsersAnswerTypes
  <2>2. th[t].kind \in UsersKinds /\ Idle.kind = "idle"
    BY <1>4, KindSets DEF UsersAnswer, Idle
  <2>3. Aside(UsersKinds \cup {"idle"})
    BY <2>1, <2>2 DEF Turns, Aside
  <2> QED BY <1>4, <2>1, <2>3 DEF UsersAnswer, tables
<1> QED BY <1>1, <1>2, <1>3, <1>4 DEF UsersStep

LEMMA TeamsFrame ==
    ASSUME DialogTypes, NEW t \in Threads, TeamsStep(t)
    PROVE  /\ Aside(TeamsKinds \cup {"idle"})
           /\ UNCHANGED <<desk, up, trash, user, perso, own, secret, halfmade, mainStale>>
           /\ calm' => calm
<1>1. CASE ClickInTeams(t)
  BY <1>1, TeamsClicks DEF Begins, Aside, tables, panels, history
<1>2. ThreadTypes
  BY DEF DialogTypes
<1>3. ASSUME NEW tm \in Teams, OpenMembers(t, tm)
      PROVE  Aside(TeamsKinds \cup {"idle"})
  <2>1. Turns(t, {"members"}) /\ th'[t].kind = "members"
    BY <1>2, <1>3, TurnsRead DEF OpenMembers, TeamsKinds
  <2> QED BY <1>3, <2>1 DEF OpenMembers, Free, Turns, Aside, TeamsKinds
<1>4. ASSUME NEW tm \in Teams, OpenShare(t, tm)
      PROVE  Aside(TeamsKinds \cup {"idle"})
  <2>1. Turns(t, {"vaults"}) /\ th'[t].kind = "vaults"
    BY <1>2, <1>4, TurnsRead DEF OpenShare, TeamsKinds
  <2> QED BY <1>4, <2>1 DEF OpenShare, Free, Turns, Aside, TeamsKinds
<1>5. ASSUME NEW tm \in Teams, OpenMembers(t, tm) \/ OpenShare(t, tm)
      PROVE  /\ UNCHANGED <<desk, up, trash, user, perso, own, secret, halfmade, mainStale>>
             /\ calm' => calm
  BY <1>5 DEF OpenMembers, OpenShare, tables, history
<1>6. CASE ServeTeams(t)
  <2>1. Aside(TeamsKinds \cup {"idle"})
    BY <1>6, ServeTeamsTypes, KindSets DEF Replies, Aside, ServeTeams
  <2> QED BY <1>6, <2>1 DEF ServeTeams, panels, history
<1>7. Idle.kind = "idle"
  BY DEF Idle
<1>8. CASE TeamsAnswer(t)
  <2>1. Turns(t, {"teams"}) /\ (calm' => calm)
    BY <1>8, TeamsAnswerTypes
  <2>2. Aside(TeamsKinds \cup {"idle"})
    BY <1>7, <1>8, <2>1 DEF Turns, Aside, TeamsAnswer, TeamsKinds
  <2> QED BY <1>8, <2>1, <2>2 DEF TeamsAnswer, tables
<1>9. CASE MembersAnswer(t)
  <2>1. Turns(t, {"members"}) /\ (calm' => calm)
    BY <1>9, MembersAnswerTypes
  <2>2. Aside(TeamsKinds \cup {"idle"})
    BY <1>7, <1>9, <2>1 DEF Turns, Aside, MembersAnswer, TeamsKinds, OfMembers
  <2> QED BY <1>9, <2>1, <2>2 DEF MembersAnswer, tables
<1>10. CASE ShareAnswer(t)
  <2>1. Aside(TeamsKinds \cup {"idle"})
    BY <1>7, <1>10, ShareAnswerTypes DEF Aside, ShareAnswer, TeamsKinds, OfShare
  <2> QED BY <1>10, <2>1 DEF ShareAnswer, tables, history
<1> QED BY <1>1, <1>3, <1>4, <1>5, <1>6, <1>8, <1>9, <1>10 DEF TeamsStep

LEMMA TrashFrame ==
    ASSUME DialogTypes, NEW t \in Threads, TrashStep(t)
    PROVE  /\ Aside(TrashKinds \cup {"idle"})
           /\ UNCHANGED <<desk, up, tp, mwin, swin, user, perso, team, member, own, halfmade>>
           /\ calm' => calm
<1>1. CASE ClickInTrash(t)
  BY <1>1, TrashClicks DEF Begins, Aside, tables, panels, history
<1>2. CASE OpenTrash(t)
  <2>1. Turns(t, {"trash"}) /\ th'[t].kind = "trash"
    BY <1>2, TurnsRead DEF OpenTrash, TrashKinds, OfMembers, DialogTypes
  <2>2. Aside(TrashKinds \cup {"idle"})
    BY <1>2, <2>1 DEF OpenTrash, Free, Turns, Aside, TrashKinds
  <2> QED BY <1>2, <2>2 DEF OpenTrash, tables, history
<1>3. CASE ServeTrash(t)
  <2>1. Aside(TrashKinds \cup {"idle"})
    BY <1>3, ServeTrashTypes, KindSets DEF Replies, Aside, ServeTrash
  <2> QED BY <1>3, <2>1 DEF ServeTrash, panels
<1>4. Idle.kind = "idle"
  BY DEF Idle
<1>5. CASE TrashAnswer(t)
  <2>1. Aside(TrashKinds \cup {"idle"})
    BY <1>4, <1>5, TrashAnswerTypes DEF Turns, Aside, TrashAnswer, TrashKinds
  <2> QED BY <1>5, <2>1 DEF TrashAnswer, tables, history
<1>6. CASE TrashChanged(t)
  <2>1. Turns(t, {"trash"}) /\ (calm' => calm)
    BY <1>6, TrashChangedTypes
  <2>2. Aside(TrashKinds \cup {"idle"})
    BY <1>4, <1>6, <2>1 DEF Turns, Aside, TrashChanged, TrashKinds
  <2> QED BY <1>6, <2>1, <2>2 DEF TrashChanged, tables
<1> QED BY <1>1, <1>2, <1>3, <1>5, <1>6 DEF TrashStep

LEMMA LostFrame ==
    ASSUME DialogTypes, NEW t \in Threads, LostAnswer(t)
    PROVE  /\ \A x \in Threads : x # t => th'[x] = th[x]
           /\ th[t].kind \in OfMembers \cup OfShare \cup {"trash"} /\ ~th[t].mine
           /\ th'[t].kind = "idle"
           /\ UNCHANGED <<desk, tables, panels, history>>
<1>1. Turns(t, {}) /\ th'[t] = Idle
  BY LostAnswerTypes
<1>2. Idle.kind = "idle"
  BY DEF Idle
<1>3. \A x \in Threads : x # t => th'[x] = th[x]
  BY <1>1 DEF Turns
<1>4. /\ th[t].kind \in OfMembers \cup OfShare \cup {"trash"} /\ ~th[t].mine
      /\ UNCHANGED <<desk, tables, panels, history>>
  BY DEF LostAnswer
<1> QED BY <1>1, <1>2, <1>3, <1>4

-----------------------------------------------------------------------------
(* Pickers                                                                 *)

\* What a window points at is what its user picked.
Fits(w) == w.sel # 0 => w.sel <= Len(w.ids) /\ w.ids[w.sel] = w.picked

LEMMA NewWindowFits ==
    ASSUME NEW tm
    PROVE  Fits(MWin(tm)) /\ Fits(SWin(tm))
  BY DEF Fits, MWin, SWin

LEMMA MembersWindowFits ==
    ASSUME NEW w \in MembersWindow, Fits(w)
    PROVE  /\ Fits([w EXCEPT !.err = TRUE])
           /\ Fits([w EXCEPT !.rows = {}, !.err = FALSE])
           /\ \A k : Fits(MembersShow(w, k))
           /\ \A i \in 1 .. Len(w.ids) : Fits([w EXCEPT !.sel = i, !.picked = w.ids[i]])
<1>1. Fits([w EXCEPT !.err = TRUE]) /\ Fits([w EXCEPT !.rows = {}, !.err = FALSE])
  BY DEF Fits, MembersWindow
<1>2. ASSUME NEW k PROVE Fits(MembersShow(w, k))
  BY DEF Fits, MembersWindow, MembersShow
<1>3. ASSUME NEW i \in 1 .. Len(w.ids)
      PROVE  Fits([w EXCEPT !.sel = i, !.picked = w.ids[i]])
  BY DEF Fits, MembersWindow
<1> QED BY <1>1, <1>2, <1>3

LEMMA ShareWindowFits ==
    ASSUME NEW w \in ShareWindow, Fits(w)
    PROVE  /\ Fits([w EXCEPT !.apply = FALSE])
           /\ \A ids : Fits([w EXCEPT !.ids = ids, !.sel = 0, !.picked = None])
           /\ \A i \in 1 .. Len(w.ids) : Fits([w EXCEPT !.sel = i, !.picked = w.ids[i]])
<1>1. Fits([w EXCEPT !.apply = FALSE])
  BY DEF Fits, ShareWindow
<1>2. ASSUME NEW ids PROVE Fits([w EXCEPT !.ids = ids, !.sel = 0, !.picked = None])
  BY DEF Fits, ShareWindow
<1>3. ASSUME NEW i \in 1 .. Len(w.ids)
      PROVE  Fits([w EXCEPT !.sel = i, !.picked = w.ids[i]])
  BY DEF Fits, ShareWindow
<1> QED BY <1>1, <1>2, <1>3

LEMMA PickStep ==
    ASSUME DialogTypes, Fits(mwin), Fits(swin), [Next]_vars
    PROVE  Fits(mwin') /\ Fits(swin')
<1>1. mwin \in MembersWindow /\ swin \in ShareWindow
  BY DEF DialogTypes, PanelTypes
<1>2. CASE UNCHANGED <<mwin, swin>>
  BY <1>2
<1>3. ASSUME NEW t \in Threads, TeamsStep(t)
      PROVE  Fits(mwin') /\ Fits(swin')
  <2>1. CASE ClickInTeams(t) \/ ServeTeams(t) \/ TeamsAnswer(t)
    BY <1>2, <2>1, TeamsClicks DEF Begins, ServeTeams, TeamsAnswer, panels
  <2>2. ASSUME NEW tm \in Teams, OpenMembers(t, tm) \/ OpenShare(t, tm)
        PROVE  Fits(mwin') /\ Fits(swin')
    BY <2>2, NewWindowFits DEF OpenMembers, OpenShare
  <2>3. CASE MembersAnswer(t)
    BY <1>1, <2>3, MembersWindowFits DEF MembersAnswer, refresh_members
  <2>4. CASE ShareAnswer(t)
    BY <1>1, <2>4, NewWindowFits, ShareWindowFits DEF ShareAnswer
  <2> QED BY <1>3, <2>1, <2>2, <2>3, <2>4 DEF TeamsStep
<1>4. CASE OtherStep
  <2>1. ASSUME NEW i, PickUser(i)
        PROVE  Fits(mwin') /\ Fits(swin')
    BY <1>1, <2>1, MembersWindowFits DEF PickUser
  <2>2. ASSUME NEW i, PickVault(i)
        PROVE  Fits(mwin') /\ Fits(swin')
    BY <1>1, <2>2, ShareWindowFits DEF PickVault
  <2>3. CASE CloseWindow
    BY <2>3, NewWindowFits DEF CloseWindow
  <2>4. CASE CloseTrash \/ Elsewhere \/ \E s \in Secrets : MoveToTrash(s)
    BY <1>2, <2>4 DEF CloseTrash, Elsewhere, MoveToTrash, panels
  <2> QED BY <1>4, <2>1, <2>2, <2>3, <2>4 DEF OtherStep
<1>5. ASSUME NEW t \in Threads, UsersStep(t) \/ TrashStep(t) \/ LostAnswer(t)
      PROVE  UNCHANGED <<mwin, swin>>
  BY <1>5, UsersFrame, TrashFrame, LostFrame DEF panels
<1> QED BY <1>2, <1>3, <1>4, <1>5, NextCases DEF vars, panels

\* manage_teams_dialog.rs: a picker is a position in one list and the identifier
\* comes from another; both are replaced by answers that come late.  What is
\* added to the team or shared with it is always what the user saw selected.
THEOREM PickKept == Spec => []PickIsTaken
<1> DEFINE Inv == DialogTypes /\ Fits(mwin) /\ Fits(swin)
<1>1. Init => Inv
  BY InitParts, NewWindowFits
<1>2. Inv /\ [Next]_vars => Inv'
  BY TypesStep, PickStep DEF Fits
<1>3. Inv => PickIsTaken
  BY DEF PickIsTaken, Fits
<1> QED BY <1>1, <1>2, <1>3, PTL DEF Spec

-----------------------------------------------------------------------------
(* Restored secrets                                                        *)

\* The main list is behind only while a restore that succeeded waits for its answer.
RestoreOwed == mainStale => \E t \in Threads : th[t].kind = "restore" /\ th[t].pc = "ok"

LEMMA OwedStep ==
    ASSUME DialogTypes, RestoreOwed, [Next]_vars
    PROVE  RestoreOwed'
<1>1. ASSUME UNCHANGED mainStale,
             \A x \in Threads : th[x].kind = "restore" /\ th[x].pc = "ok"
                                   => th'[x].kind = "restore" /\ th'[x].pc = "ok"
      PROVE  RestoreOwed'
  BY <1>1 DEF RestoreOwed
<1>2. ASSUME NEW t \in Threads, UsersStep(t) \/ TeamsStep(t)
      PROVE  RestoreOwed'
  BY <1>1, <1>2, UsersFrame, TeamsFrame DEF Aside, UsersKinds, TeamsKinds
<1>3. ASSUME NEW t \in Threads, LostAnswer(t)
      PROVE  RestoreOwed'
  BY <1>1, <1>3, LostFrame DEF OfMembers, OfShare, history
<1>4. ASSUME NEW t \in Threads, TrashStep(t)
      PROVE  RestoreOwed'
  <2>1. CASE ClickInTrash(t)
    BY <1>1, <2>1, TrashClicks DEF Begins, history
  <2>2. CASE OpenTrash(t)
    <3>1. Turns(t, {"trash"})
      BY <2>2, TurnsRead DEF OpenTrash, TrashKinds, OfMembers, DialogTypes
    <3> QED BY <1>1, <2>2, <3>1 DEF OpenTrash, Free, Turns, history
  <2>3. CASE ServeTrash(t)
    <3>1. PICK pc \in {"ok", "err"} : Replies(t, pc)
      BY <2>3, ServeTrashTypes
    <3>2. CASE UNCHANGED mainStale
      BY <1>1, <2>3, <3>1, <3>2 DEF Replies, ServeTrash
    <3>3. CASE th[t].kind = "restore" /\ th' = [th EXCEPT ![t].pc = "ok"]
      <4>1. th'[t].kind = "restore" /\ th'[t].pc = "ok"
        BY <3>3, EndsReplies DEF DialogTypes, Replies
      <4> QED BY <4>1 DEF RestoreOwed
    <3> QED BY <2>3, <3>2, <3>3 DEF ServeTrash
  <2>4. CASE TrashAnswer(t)
    BY <1>1, <2>4, TrashAnswerTypes DEF TrashAnswer, Turns, history
  <2>5. CASE TrashChanged(t)
    <3>1. CASE th[t].pc = "ok" /\ mainStale' = FALSE
      BY <3>1 DEF RestoreOwed
    <3>2. CASE th[t].pc = "err" /\ UNCHANGED mainStale
      BY <1>1, <2>5, <3>2, TrashChangedTypes DEF Turns
    <3> QED BY <2>5, <3>1, <3>2 DEF TrashChanged
  <2> QED BY <1>4, <2>1, <2>2, <2>3, <2>4, <2>5 DEF TrashStep
<1>5. CASE OtherStep
  <2>1. CASE CloseWindow
    BY <1>1, <2>1, OrphanedThreads DEF CloseWindow, DialogTypes, Goes
  <2>2. CASE CloseTrash
    BY <1>1, <2>2, OrphanedThreads DEF CloseTrash, DialogTypes, Goes
  <2>3. CASE UNCHANGED <<th, mainStale>>
    BY <1>1, <2>3
  <2> QED BY <1>5, <2>1, <2>2, <2>3
          DEF OtherStep, PickUser, PickVault, Elsewhere, MoveToTrash, history
<1>6. CASE UNCHANGED vars
  BY <1>1, <1>6 DEF vars, history
<1> QED BY <1>2, <1>3, <1>4, <1>5, <1>6, NextCases

\* trash_dialog.rs: a restore is answered while the dialog may be closed, opened
\* again or busy with other calls.  When no call is under way, the main list has
\* been told of every restored secret.
THEOREM MainListKept == Spec => []MainListFollows
<1> DEFINE Inv == DialogTypes /\ RestoreOwed
<1>1. Init => Inv
  BY InitParts DEF RestoreOwed
<1>2. Inv /\ [Next]_vars => Inv'
  BY TypesStep, OwedStep
<1>3. Inv => MainListFollows
  BY DEF MainListFollows, RestoreOwed, Settled, Free
<1> QED BY <1>1, <1>2, <1>3, PTL DEF Spec

-----------------------------------------------------------------------------
(* A vault for each user                                                   *)

Creating(x) == th[x].kind = "create" /\ th[x].pc = "vault"

\* Accounts may go, their vault with them; creations under way go on.
LEMMA VaultQuiet ==
    ASSUME VaultForEachUser, Present' \subseteq Present, UNCHANGED halfmade,
           perso' = perso \cap Present',
           \A x \in Threads : Creating(x) => Creating(x)' /\ th'[x].who = th[x].who
    PROVE  VaultForEachUser'
  BY DEF VaultForEachUser, Creating

LEMMA SamePresent ==
    ASSUME UNCHANGED user
    PROVE  Present' = Present
  BY DEF Present

\* The database deletes a user with its vault.
LEMMA DeletedUser ==
    ASSUME TableTypes, VaultForEachUser, NEW u, user' = [user EXCEPT ![u] = "gone"],
           perso' = perso \ {u}
    PROVE  Present' \subseteq Present /\ perso' = perso \cap Present'
<1>1. Present' = Present \ {u}
  BY DEF TableTypes, Present, Roles
<1> QED BY <1>1 DEF VaultForEachUser

LEMMA VaultServe ==
    ASSUME DialogTypes, VaultForEachUser, NEW t \in Threads, ServeUsers(t)
    PROVE  VaultForEachUser'
<1>1. TableTypes /\ ThreadTypes /\ th[t].role \in Roles /\ th[t].pc = "run"
  BY DEF DialogTypes, ThreadTypes, Thread, ServeUsers
<1>2. PICK pc \in {"ok", "err", "vault"} : Replies(t, pc)
  BY ServeUsersTypes
<1>3. \A x \in Threads : Creating(x) => Creating(x)' /\ th'[x].who = th[x].who
  BY <1>1, <1>2 DEF Replies, Creating
<1>4. UNCHANGED halfmade
  BY DEF ServeUsers, history
<1>5. CASE UNCHANGED <<user, perso>>
  BY <1>3, <1>4, <1>5, SamePresent, VaultQuiet DEF VaultForEachUser
<1>6. CASE /\ th[t].who \in Present /\ user' = [user EXCEPT ![th[t].who] = th[t].role]
           /\ UNCHANGED perso
  <2>1. Present' = Present
    BY <1>1, <1>6 DEF TableTypes, Present
  <2> QED BY <1>3, <1>4, <1>6, <2>1, VaultQuiet DEF VaultForEachUser
<1>7. CASE user' = [user EXCEPT ![th[t].who] = "gone"] /\ perso' = perso \ {th[t].who}
  BY <1>1, <1>3, <1>4, <1>7, DeletedUser, VaultQuiet
<1>8. CASE /\ th[t].kind = "create" /\ user[th[t].who] = "unused"
           /\ user' = [user EXCEPT ![th[t].who] = th[t].role]
           /\ th' = [th EXCEPT ![t].pc = "vault"]
           /\ UNCHANGED perso
  <2>1. th'[t].kind = "create" /\ th'[t].pc = "vault" /\ th'[t].who = th[t].who
    BY <1>1, <1>8, EndsReplies DEF Replies
  <2>2. Present' = Present \cup {th[t].who}
    <3>1. th[t].who \in Users
      BY <1>1, <1>8 DEF ThreadTypes, Carries
    <3> QED BY <1>1, <1>8, <3>1 DEF TableTypes, Present
  <2>3. ASSUME NEW u \in Present' \ (perso' \cup halfmade')
        PROVE  \E x \in Threads : th'[x].kind = "create" /\ th'[x].who = u /\ th'[x].pc = "vault"
    <3>1. CASE u = th[t].who
      BY <2>1, <3>1
    <3>2. CASE u # th[t].who
      <4>1. PICK x \in Threads : th[x].kind = "create" /\ th[x].who = u /\ th[x].pc = "vault"
        BY <1>4, <1>8, <2>2, <3>2 DEF VaultForEachUser
      <4> QED BY <1>3, <4>1 DEF Creating
    <3> QED BY <3>1, <3>2
  <2> QED BY <1>8, <2>2, <2>3 DEF VaultForEachUser
<1> QED BY <1>5, <1>6, <1>7, <1>8 DEF ServeUsers

LEMMA VaultCreated ==
    ASSUME DialogTypes, VaultForEachUser, NEW t \in Threads, CreatePerso(t)
    PROVE  VaultForEachUser'
<1>1. Present' = Present
  BY SamePresent DEF CreatePerso
<1>2. \A x \in Threads : x # t => th'[x] = th[x]
  BY CreatePersoTypes DEF Replies
<1>3. /\ perso \cup halfmade \cup {th[t].who} = perso' \cup halfmade'
      /\ perso' \subseteq Present'
  BY <1>1 DEF CreatePerso, VaultForEachUser
<1>4. ASSUME NEW u \in Present' \ (perso' \cup halfmade')
      PROVE  \E x \in Threads : th'[x].kind = "create" /\ th'[x].who = u /\ th'[x].pc = "vault"
  <2>1. u \in Present \ (perso \cup halfmade) /\ u # th[t].who
    BY <1>1, <1>3
  <2>2. PICK x \in Threads : th[x].kind = "create" /\ th[x].who = u /\ th[x].pc = "vault"
    BY <2>1 DEF VaultForEachUser
  <2> QED BY <1>2, <2>1, <2>2
<1> QED BY <1>3, <1>4 DEF VaultForEachUser

LEMMA VaultStep ==
    ASSUME DialogTypes, VaultForEachUser, [Next]_vars
    PROVE  VaultForEachUser'
<1>1. ASSUME UNCHANGED <<user, perso, halfmade>>,
             \A x \in Threads : Creating(x) => Creating(x)' /\ th'[x].who = th[x].who
      PROVE  VaultForEachUser'
  BY <1>1, SamePresent, VaultQuiet DEF VaultForEachUser
<1>2. ASSUME NEW t \in Threads, UsersStep(t)
      PROVE  VaultForEachUser'
  <2>1. CASE ClickInUsers(t)
    BY <1>1, <2>1, UsersClicks DEF Begins, Creating, tables, history
  <2>2. CASE UsersAnswer(t)
    BY <1>1, <2>2, UsersAnswerTypes DEF Turns, Creating, UsersAnswer, Done, tables
  <2> QED BY <1>2, <2>1, <2>2, VaultServe, VaultCreated DEF UsersStep
<1>3. ASSUME NEW t \in Threads, TeamsStep(t) \/ TrashStep(t)
      PROVE  VaultForEachUser'
  BY <1>1, <1>3, TeamsFrame, TrashFrame DEF Aside, Creating, TeamsKinds, TrashKinds
<1>4. ASSUME NEW t \in Threads, LostAnswer(t)
      PROVE  VaultForEachUser'
  BY <1>1, <1>4, LostFrame DEF Creating, OfMembers, OfShare, tables, history
<1>5. CASE OtherStep
  <2>1. CASE CloseWindow
    BY <1>1, <2>1, OrphanedThreads DEF CloseWindow, DialogTypes, Goes, Creating, tables
  <2>2. CASE CloseTrash
    BY <1>1, <2>2, OrphanedThreads DEF CloseTrash, DialogTypes, Goes, Creating, tables
  <2>3. CASE Elsewhere
    <3>1. UNCHANGED <<th, halfmade>>
      BY <2>3 DEF Elsewhere, history
    <3>2. CASE UNCHANGED <<user, perso>>
      BY <1>1, <3>1, <3>2 DEF Creating
    <3>3. ASSUME NEW u, user' = [user EXCEPT ![u] = "gone"], perso' = perso \ {u}
          PROVE  VaultForEachUser'
      BY <3>1, <3>3, DeletedUser, VaultQuiet DEF Creating, DialogTypes
    <3> QED BY <2>3, <3>2, <3>3 DEF Elsewhere
  <2>4. CASE UNCHANGED <<th, user, perso, halfmade>>
    BY <1>1, <2>4 DEF Creating
  <2> QED BY <1>5, <2>1, <2>2, <2>3, <2>4
          DEF OtherStep, PickUser, PickVault, MoveToTrash, tables, history
<1>6. CASE UNCHANGED vars
  BY <1>1, <1>6 DEF vars, tables, history, Creating
<1> QED BY <1>2, <1>3, <1>4, <1>5, <1>6, NextCases

\* manage_users_dialog.rs: an account is created by one service and its vault by
\* another, and the account may be deleted between the two.  No vault is left
\* without its owner, and a user without a vault has a creation under way or one
\* that reported an error.
THEOREM VaultKept == Spec => []VaultForEachUser
<1> DEFINE Inv == DialogTypes /\ VaultForEachUser
<1>1. Init => Inv
  BY InitParts DEF VaultForEachUser
<1>2. Inv /\ [Next]_vars => Inv'
  BY TypesStep, VaultStep
<1> QED BY <1>1, <1>2, PTL DEF Spec

-----------------------------------------------------------------------------
(* Users panel                                                             *)

\* A thread that will show a user, or report that it cannot.
OwesUser(k, u) ==
    \/ k.kind = "create" /\ k.who = u /\ k.pc \in {"vault", "ok"}
    \/ k.kind = "list" /\ (k.pc \in {"run", "err"} \/ \E row \in k.rows : row.id = u)

UserListed(u) ==
    (\E row \in up.rows : row.id = u) \/ (\E t \in Threads : OwesUser(th[t], u))

\* After a full refresh every user is on the list or on the way to it.
UsersListed ==
    desk = "users" /\ up.last = "list" /\ ~up.err => \A u \in Present \ halfmade : UserListed(u)

LEMMA UsersQuiet ==
    ASSUME UsersListed, UNCHANGED <<desk, up>>, Present' \ halfmade' \subseteq Present \ halfmade,
           \A x \in Threads : \A u \in Present' \ halfmade' :
              OwesUser(th[x], u) => OwesUser(th'[x], u)
    PROVE  UsersListed'
  BY DEF UsersListed, UserListed, OwesUser

LEMMA UsersServed ==
    ASSUME DialogTypes, UsersListed, NEW t \in Threads, ServeUsers(t)
    PROVE  UsersListed'
<1>1. TableTypes /\ ThreadTypes /\ th[t].role \in Roles /\ th[t].pc = "run"
  BY DEF DialogTypes, ThreadTypes, Thread, ServeUsers
<1>2. PICK pc \in {"ok", "err", "vault"} : Replies(t, pc)
  BY ServeUsersTypes
<1>3. UNCHANGED <<desk, up, halfmade>>
  BY DEF ServeUsers, panels, history
<1>4. CASE th[t].kind = "list" /\ th'[t].pc = "ok"
  <2>1. /\ th' = [th EXCEPT ![t].pc = "ok",
                            ![t].rows = {[id |-> u, role |-> user[u]] : u \in Present}]
        /\ UNCHANGED user
    <3>1. CASE th' = [th EXCEPT ![t].pc = "err"]
      BY <1>1, <1>4, <3>1, EndsReplies DEF Replies
    <3> QED BY <1>4, <3>1 DEF ServeUsers
  <2>2. th'[t].rows = {[id |-> u, role |-> user[u]] : u \in Present}
    BY <1>1, <1>4, <2>1, PresentTypes, RowsReplies DEF UsersKinds
  <2>3. ASSUME NEW u \in Present
        PROVE  \E row \in th'[t].rows : row.id = u
    <3>1. [id |-> u, role |-> user[u]] \in th'[t].rows
      BY <2>2
    <3>2. [id |-> u, role |-> user[u]].id = u
      OBVIOUS
    <3> QED BY <3>1, <3>2
  <2>4. th'[t].kind = "list" /\ Present' = Present
    BY <1>2, <1>4, <2>1, SamePresent DEF Replies
  <2>5. \A u \in Present' : OwesUser(th'[t], u)
    BY <2>3, <2>4 DEF OwesUser
  <2> QED BY <2>5 DEF UsersListed, UserListed, OwesUser
<1>5. CASE th'[t].pc = "err" \/ th[t].kind \notin {"list", "create"}
  <2>1. \A x \in Threads : \A u : OwesUser(th[x], u) => OwesUser(th'[x], u)
    BY <1>1, <1>2, <1>5 DEF Replies, OwesUser
  <2>2. Present' \subseteq Present
    <3>1. CASE UNCHANGED user
      BY <3>1, SamePresent
    <3>2. CASE th[t].who \in Present /\ user' = [user EXCEPT ![th[t].who] = th[t].role]
      BY <1>1, <3>2 DEF TableTypes, Present
    <3>3. CASE user' = [user EXCEPT ![th[t].who] = "gone"]
      BY <1>1, <3>3 DEF TableTypes, Present, Roles
    <3>4. CASE th[t].kind = "create" /\ th' = [th EXCEPT ![t].pc = "vault"]
      BY <1>1, <1>5, <3>4, EndsReplies DEF Replies
    <3> QED BY <3>1, <3>2, <3>3, <3>4 DEF ServeUsers
  <2> QED BY <1>3, <2>1, <2>2, UsersQuiet
<1>6. CASE th[t].kind = "create" /\ th'[t].pc # "err"
  <2>1. /\ user[th[t].who] = "unused" /\ user' = [user EXCEPT ![th[t].who] = th[t].role]
        /\ th' = [th EXCEPT ![t].pc = "vault"]
    <3>1. CASE th' = [th EXCEPT ![t].pc = "err"]
      BY <1>1, <1>6, <3>1, EndsReplies DEF Replies
    <3> QED BY <1>6, <3>1 DEF ServeUsers
  <2>2. th'[t].kind = "create" /\ th'[t].pc = "vault" /\ th'[t].who = th[t].who
    BY <1>1, <1>6, <2>1, EndsReplies DEF Replies
  <2>3. Present' = Present \cup {th[t].who}
    <3>1. th[t].who \in Users
      BY <1>1, <1>6 DEF ThreadTypes, Carries
    <3> QED BY <1>1, <2>1, <3>1 DEF TableTypes, Present
  <2>4. \A x \in Threads : \A u : OwesUser(th[x], u) => OwesUser(th'[x], u)
    BY <1>1, <1>2, <1>6 DEF Replies, OwesUser
  <2>5. OwesUser(th'[t], th[t].who)
    BY <2>2 DEF OwesUser
  <2> QED BY <1>3, <2>3, <2>4, <2>5 DEF UsersListed, UserListed, OwesUser
<1>7. th[t].kind = "list" => th'[t].pc \in {"ok", "err"}
  <2>1. Carries(th'[t]) /\ th'[t].kind = th[t].kind
    BY <1>2, ServeUsersTypes DEF ThreadTypes, Replies, Carries
  <2> QED BY <1>2, <2>1 DEF Carries, Replies
<1> QED BY <1>4, <1>5, <1>6, <1>7

LEMMA UsersAnswered ==
    ASSUME DialogTypes, UsersListed, NEW t \in Threads, UsersAnswer(t)
    PROVE  UsersListed'
<1>1. ThreadTypes /\ up \in UsersPanel
  BY DEF DialogTypes, PanelTypes
<1>2. Present' = Present /\ UNCHANGED <<desk, halfmade>>
  BY SamePresent DEF UsersAnswer, tables
<1>3. \A x \in Threads : x # t => th'[x] = th[x]
  BY UsersAnswerTypes DEF Turns
<1>4. CASE th[t].kind = "list" /\ th[t].pc = "ok" /\ up' = [up EXCEPT !.rows = @ \cup th[t].rows]
  <2>1. up'.rows = up.rows \cup th[t].rows /\ up'.last = up.last /\ up'.err = up.err
    BY <1>1, <1>4 DEF UsersPanel
  <2>2. ASSUME NEW u, UserListed(u)
        PROVE  UserListed(u)'
    <3>1. CASE \E row \in up.rows : row.id = u
      BY <2>1, <3>1 DEF UserListed
    <3>2. CASE OwesUser(th[t], u)
      BY <1>4, <2>1, <3>2 DEF UserListed, OwesUser
    <3>3. ASSUME NEW x \in Threads, x # t, OwesUser(th[x], u)
          PROVE  UserListed(u)'
      BY <1>3, <3>3 DEF UserListed, OwesUser
    <3> QED BY <2>2, <3>1, <3>2, <3>3 DEF UserListed
  <2> QED BY <1>2, <2>1, <2>2 DEF UsersListed
<1>5. CASE up' = [up EXCEPT !.err = TRUE]
  <2>1. up'.err
    BY <1>1, <1>5 DEF UsersPanel
  <2> QED BY <2>1 DEF UsersListed
<1>6. CASE refresh_toggle(t)
  BY <1>6 DEF refresh_toggle, UsersListed
<1>7. CASE refresh_users(t)
  <2>1. th'[t].kind = "list" /\ th'[t].pc = "run"
    BY <1>1, <1>7, TurnsRead DEF refresh_users, UsersKinds, OfMembers
  <2>2. \A u : OwesUser(th'[t], u)
    BY <2>1 DEF OwesUser
  <2> QED BY <2>2 DEF UsersListed, UserListed, OwesUser
<1>8. CASE /\ \/ th[t].kind \in {"relist", "reset"} /\ th[t].pc = "ok"
              \/ th[t].kind \in {"toggle", "delete", "reset", "create"} /\ th[t].pc = "err"
           /\ UNCHANGED up
  <2>1. \A u : ~OwesUser(th[t], u)
    BY <1>8 DEF OwesUser
  <2> QED BY <1>2, <1>3, <1>8, <2>1, UsersQuiet
<1> QED BY <1>4, <1>5, <1>6, <1>7, <1>8 DEF UsersAnswer

LEMMA UsersListStep ==
    ASSUME DialogTypes, UsersListed, [Next]_vars
    PROVE  UsersListed'
<1>1. ASSUME UNCHANGED <<desk, up, user, halfmade>>,
             \A x \in Threads : \A u : OwesUser(th[x], u) => OwesUser(th'[x], u)
      PROVE  UsersListed'
  BY <1>1, SamePresent, UsersQuiet
<1>2. ASSUME NEW t \in Threads, UsersStep(t)
      PROVE  UsersListed'
  <2>1. CASE ClickInUsers(t)
    BY <1>1, <2>1, UsersClicks DEF Begins, OwesUser, tables, panels, history
  <2>2. CASE CreatePerso(t)
    <3>1. PICK pc \in {"ok", "err"} : Replies(t, pc)
      BY <2>2, CreatePersoTypes
    <3>2. th[t].kind = "create" /\ th[t].pc = "vault"
      BY <2>2, CreatePersoTypes DEF CreatePerso
    <3>3. pc = "ok" \/ th[t].who \in halfmade'
      <4>1. CASE th' = [th EXCEPT ![t].pc = "ok"]
        BY <3>1, <4>1, EndsReplies DEF DialogTypes, Replies
      <4>2. CASE halfmade' = halfmade \cup {th[t].who}
        BY <4>2
      <4> QED BY <2>2, <4>1, <4>2 DEF CreatePerso
    <3>4. \A x \in Threads : \A u \in Present' \ halfmade' :
             OwesUser(th[x], u) => OwesUser(th'[x], u)
      BY <3>1, <3>2, <3>3 DEF Replies, OwesUser
    <3>5. Present' = Present /\ UNCHANGED <<desk, up>> /\ halfmade \subseteq halfmade'
      BY <2>2, SamePresent DEF CreatePerso, panels
    <3> QED BY <3>4, <3>5, UsersQuiet
  <2> QED BY <1>2, <2>1, <2>2, UsersServed, UsersAnswered DEF UsersStep
<1>3. ASSUME NEW t \in Threads, TeamsStep(t) \/ TrashStep(t)
      PROVE  UsersListed'
  BY <1>1, <1>3, TeamsFrame, TrashFrame DEF Aside, OwesUser, TeamsKinds, TrashKinds
<1>4. ASSUME NEW t \in Threads, LostAnswer(t)
      PROVE  UsersListed'
  BY <1>1, <1>4, LostFrame DEF OwesUser, OfMembers, OfShare, tables, panels, history
<1>5. CASE OtherStep
  <2>1. CASE CloseWindow
    BY <1>1, <2>1, OrphanedThreads DEF CloseWindow, DialogTypes, Goes, OwesUser, tables
  <2>2. CASE CloseTrash
    BY <1>1, <2>2, OrphanedThreads DEF CloseTrash, DialogTypes, Goes, OwesUser, tables
  <2>3. CASE Elsewhere
    BY <2>3 DEF Elsewhere, UsersListed
  <2>4. CASE UNCHANGED <<th, desk, up, user, halfmade>>
    BY <1>1, <2>4
  <2> QED BY <1>5, <2>1, <2>2, <2>3, <2>4
          DEF OtherStep, PickUser, PickVault, MoveToTrash, tables, panels, history
<1>6. CASE UNCHANGED vars
  BY <1>1, <1>6 DEF vars, tables, panels, history
<1> QED BY <1>2, <1>3, <1>4, <1>5, <1>6, NextCases

-----------------------------------------------------------------------------
(* Teams panel                                                             *)

Used(tm) == team[tm] # "unused"
Live == {tm \in Teams : team[tm] = "live"}

\* Only teams that exist or existed are listed, or have a window.
TeamsKnown ==
    /\ \A tm \in tp.rows : Used(tm)
    /\ \A t \in Threads : th[t].kind = "teams" => \A tm \in th[t].found : Used(tm)
    /\ mwin.team # None => Used(mwin.team)

\* A name of a team is used once.
LEMMA TeamsStayUsed ==
    ASSUME DialogTypes, NEW t \in Threads, TeamsStep(t)
    PROVE  \A tm \in Teams : Used(tm) => Used(tm)'
<1>1. CASE UNCHANGED team
  BY <1>1 DEF Used
<1>2. CASE ServeTeams(t)
  <2>1. team \in [Teams -> {"unused", "live", "gone"}]
    BY DEF DialogTypes, TableTypes
  <2>2. CASE team' = [team EXCEPT ![th[t].on] = "live"]
    BY <2>1, <2>2 DEF Used
  <2>3. CASE team' = [team EXCEPT ![th[t].on] = "gone"]
    BY <2>1, <2>3 DEF Used
  <2> QED BY <1>1, <1>2, <2>2, <2>3 DEF ServeTeams
<1>3. CASE ClickInTeams(t)
  BY <1>1, <1>3, TeamsClicks DEF Begins, tables
<1> QED BY <1>1, <1>2, <1>3 DEF TeamsStep, OpenMembers, OpenShare, TeamsAnswer, MembersAnswer,
                                ShareAnswer, tables

LEMMA KnownStep ==
    ASSUME DialogTypes, TeamsKnown, [Next]_vars
    PROVE  TeamsKnown'
<1>1. /\ tp \in TeamsPanel /\ tp.rows \subseteq Teams /\ mwin \in MembersWindow
      /\ mwin.team \in Teams \cup {None} /\ ThreadTypes
      /\ \A x \in Threads : th[x].kind = "teams" => th[x].found \subseteq Teams
  BY DEF DialogTypes, PanelTypes, ThreadTypes, Carries, TeamsPanel, MembersWindow
<1>2. ASSUME \A tm \in Teams : Used(tm) => Used(tm)',
             \A tm \in tp'.rows : tm \in tp.rows \/ Used(tm)',
             mwin'.team \in {None, mwin.team} \cup tp.rows,
             \A x \in Threads : th'[x].kind = "teams" =>
                \/ th[x].kind = "teams" /\ th'[x].found = th[x].found
                \/ \A tm \in th'[x].found : Used(tm)'
      PROVE  TeamsKnown'
  BY <1>1, <1>2 DEF TeamsKnown
<1>3. ASSUME UNCHANGED <<team, tp, mwin>>,
             \A x \in Threads : th'[x].kind = "teams" =>
                th[x].kind = "teams" /\ th'[x].found = th[x].found
      PROVE  TeamsKnown'
  BY <1>2, <1>3 DEF Used
<1>4. ASSUME NEW t \in Threads, TeamsStep(t)
      PROVE  TeamsKnown'
  <2>1. \A tm \in Teams : Used(tm) => Used(tm)'
    BY <1>4, TeamsStayUsed
  <2>2. CASE ClickInTeams(t)
    BY <1>3, <2>2, TeamsClicks DEF Begins, tables, panels
  <2>3. ASSUME NEW tm \in Teams, OpenMembers(t, tm)
        PROVE  TeamsKnown'
    <3>1. Turns(t, {"members"}) /\ th'[t].kind = "members"
      BY <1>1, <2>3, TurnsRead DEF OpenMembers, TeamsKinds
    <3>2. mwin'.team = tm /\ tm \in tp.rows
      BY <2>3 DEF OpenMembers, MWin
    <3> QED BY <1>2, <2>1, <2>3, <3>1, <3>2 DEF OpenMembers, Turns
  <2>4. ASSUME NEW tm \in Teams, OpenShare(t, tm)
        PROVE  TeamsKnown'
    <3>1. Turns(t, {"vaults"}) /\ th'[t].kind = "vaults"
      BY <1>1, <2>4, TurnsRead DEF OpenShare, TeamsKinds
    <3> QED BY <1>3, <2>4, <3>1 DEF OpenShare, Turns, tables
  <2>5. CASE ServeTeams(t)
    <3>1. UNCHANGED <<tp, mwin>>
      BY <2>5 DEF ServeTeams, panels
    <3>2. PICK pc \in {"ok", "err"} : Replies(t, pc)
      BY <2>5, ServeTeamsTypes
    <3>3. \/ th[t].kind # "teams"
          \/ th'[t].found = th[t].found
          \/ th'[t].found = Live /\ UNCHANGED team
      <4>1. CASE th' = [th EXCEPT ![t].pc = "ok", ![t].found = Live, ![t].picks = {}]
                 /\ UNCHANGED team
        <5>1. Live \in SUBSET Shown /\ Live \subseteq Teams /\ {} \in SUBSET Users
          BY DEF Live, Shown
        <5>2. CASE th[t].kind = "teams"
          BY <1>1, <4>1, <5>1, <5>2, FindsReplies
        <5> QED BY <4>1, <5>2
      <4>2. CASE th' = [th EXCEPT ![t].pc = "err"]
        BY <1>1, <4>2, EndsReplies
      <4> QED BY <2>5, <4>1, <4>2 DEF ServeTeams, Live
    <3>4. UNCHANGED team => \A tm \in Live : Used(tm)'
      BY DEF Live, Used
    <3>5. \A x \in Threads : th'[x].kind = "teams" =>
                \/ th[x].kind = "teams" /\ th'[x].found = th[x].found
                \/ \A tm \in th'[x].found : Used(tm)'
      BY <3>2, <3>3, <3>4 DEF Replies
    <3> QED BY <1>2, <2>1, <3>1, <3>5
  <2>6. CASE TeamsAnswer(t)
    <3>1. Turns(t, {"teams"}) /\ (th'[t] = Idle \/ th'[t].found = {})
      <4>1. CASE Start(t, Idle)
        BY <1>1, <4>1, TurnsIdle
      <4>2. CASE Start(t, Read("teams", None))
        <5>1. th'[t] = Read("teams", None)
          BY <1>1, <4>2, OneThread DEF Start
        <5>2. Read("teams", None).found = {}
          BY DEF Read, Call, Idle
        <5> QED BY <2>6, <5>1, <5>2, TeamsAnswerTypes
      <4> QED BY <2>6, <4>1, <4>2 DEF TeamsAnswer, refresh_teams
    <3>2. \A x \in Threads : th'[x].kind = "teams" =>
                \/ th[x].kind = "teams" /\ th'[x].found = th[x].found
                \/ \A tm \in th'[x].found : Used(tm)'
      BY <3>1 DEF Turns, Idle
    <3>3. tp'.rows \subseteq tp.rows \cup (IF th[t].kind = "teams" THEN th[t].found ELSE {})
      <4>1. CASE th[t].kind = "teams" /\ tp' = [tp EXCEPT !.rows = @ \cup th[t].found]
        BY <1>1, <4>1 DEF TeamsPanel
      <4>2. CASE tp' = [tp EXCEPT !.err = TRUE]
        BY <1>1, <4>2 DEF TeamsPanel
      <4>3. CASE tp' = [rows |-> {}, err |-> FALSE] \/ UNCHANGED tp
        BY <4>3
      <4> QED BY <2>6, <4>1, <4>2, <4>3 DEF TeamsAnswer, refresh_teams
    <3>4. \A tm \in tp'.rows : tm \in tp.rows \/ Used(tm)'
      BY <1>1, <2>1, <3>3 DEF TeamsKnown
    <3>5. UNCHANGED mwin
      BY <2>6 DEF TeamsAnswer
    <3> QED BY <1>2, <2>1, <3>2, <3>4, <3>5
  <2>7. CASE MembersAnswer(t)
    <3>1. Turns(t, {"members"})
      BY <2>7, MembersAnswerTypes
    <3>2. mwin'.team = mwin.team
      BY <1>1, <2>7 DEF MembersAnswer, refresh_members, MembersShow, MembersWindow
    <3> QED BY <1>2, <2>1, <2>7, <3>1, <3>2 DEF MembersAnswer, Turns, Idle
  <2>8. CASE ShareAnswer(t)
    <3>1. Idle.kind = "idle" /\ UNCHANGED <<team, tp, mwin>>
      BY <2>8 DEF ShareAnswer, Idle, tables
    <3>2. \A x \in Threads : th'[x].kind = "teams" => th'[x] = th[x]
      BY <2>8, <3>1, ShareAnswerTypes DEF OfShare
    <3> QED BY <1>3, <3>1, <3>2
  <2> QED BY <1>4, <2>2, <2>3, <2>4, <2>5, <2>6, <2>7, <2>8 DEF TeamsStep
<1>5. ASSUME NEW t \in Threads, UsersStep(t) \/ TrashStep(t) \/ LostAnswer(t)
      PROVE  TeamsKnown'
  <2>1. UNCHANGED <<team, tp, mwin>>
    BY <1>5, UsersFrame, TrashFrame, LostFrame DEF tables, panels
  <2>2. \A x \in Threads : th'[x].kind = "teams" => th'[x] = th[x]
    <3>1. CASE UsersStep(t)
      BY <3>1, UsersFrame DEF Aside, UsersKinds
    <3>2. CASE TrashStep(t)
      BY <3>2, TrashFrame DEF Aside, TrashKinds
    <3>3. CASE LostAnswer(t)
      BY <3>3, LostFrame
    <3> QED BY <1>5, <3>1, <3>2, <3>3
  <2> QED BY <1>3, <2>1, <2>2
<1>6. CASE OtherStep
  <2>1. CASE CloseWindow
    <3>1. Goes(OfMembers \cup OfShare)
      BY <1>1, <2>1, OrphanedThreads DEF CloseWindow
    <3>2. mwin'.team = None /\ UNCHANGED <<team, tp>>
      BY <2>1 DEF CloseWindow, MWin, tables
    <3> QED BY <1>2, <3>1, <3>2 DEF Goes, Used
  <2>2. CASE CloseTrash
    BY <1>1, <1>3, <2>2, OrphanedThreads DEF CloseTrash, Goes, tables
  <2>3. ASSUME NEW i, PickUser(i)
        PROVE  TeamsKnown'
    <3>1. mwin'.team = mwin.team
      BY <1>1, <2>3 DEF PickUser, MembersWindow
    <3> QED BY <1>2, <2>3, <3>1 DEF PickUser, Used, tables
  <2>4. CASE UNCHANGED <<th, team, tp, mwin>>
    BY <1>3, <2>4
  <2> QED BY <1>6, <2>1, <2>2, <2>3, <2>4
          DEF OtherStep, PickVault, Elsewhere, MoveToTrash, tables, panels
<1>7. CASE UNCHANGED vars
  BY <1>3, <1>7 DEF vars, tables, panels
<1> QED BY <1>4, <1>5, <1>6, <1>7, NextCases

\* A thread that will show a team, or report that it cannot.
OwesTeam(k, tm) ==
    \/ k.kind = "newteam" /\ k.on = tm /\ k.pc = "ok"
    \/ k.kind = "teams" /\ (k.pc \in {"run", "err"} \/ tm \in k.found)

TeamListed(tm) == tm \in tp.rows \/ \E t \in Threads : OwesTeam(th[t], tm)

\* Every team is on the list or on the way to it.
TeamsListed == desk = "teams" /\ ~tp.err => \A tm \in Live : TeamListed(tm)

LEMMA TeamsQuiet ==
    ASSUME TeamsListed, UNCHANGED <<desk, tp>>, Live' \subseteq Live,
           \A x \in Threads : \A tm : OwesTeam(th[x], tm) => OwesTeam(th'[x], tm)
    PROVE  TeamsListed'
  BY DEF TeamsListed, TeamListed, OwesTeam

LEMMA SameLive ==
    ASSUME UNCHANGED team
    PROVE  Live' = Live
  BY DEF Live

LEMMA TeamsServed ==
    ASSUME DialogTypes, TeamsListed, NEW t \in Threads, ServeTeams(t)
    PROVE  TeamsListed'
<1>1. ThreadTypes /\ team \in [Teams -> {"unused", "live", "gone"}] /\ th[t].pc = "run"
  BY DEF DialogTypes, TableTypes, ServeTeams
<1>2. PICK pc \in {"ok", "err"} : Replies(t, pc)
  BY ServeTeamsTypes
<1>3. UNCHANGED <<desk, tp>>
  BY DEF ServeTeams, panels
<1>4. CASE th[t].kind = "teams" /\ pc = "ok"
  <2>1. /\ th' = [th EXCEPT ![t].pc = "ok", ![t].found = Live, ![t].picks = {}]
        /\ UNCHANGED team
    <3>1. CASE th' = [th EXCEPT ![t].pc = "err"]
      BY <1>1, <1>2, <1>4, <3>1, EndsReplies DEF Replies
    <3> QED BY <1>4, <3>1 DEF ServeTeams, Live
  <2>2. Live \in SUBSET Shown /\ Live \subseteq Teams /\ {} \in SUBSET Users
    BY DEF Live, Shown
  <2>3. th'[t].found = Live /\ th'[t].kind = "teams"
    BY <1>1, <1>4, <2>1, <2>2, FindsReplies DEF Replies
  <2>4. \A tm \in Live' : OwesTeam(th'[t], tm)
    BY <2>1, <2>3, SameLive DEF OwesTeam
  <2> QED BY <2>4 DEF TeamsListed, TeamListed, OwesTeam
<1>5. CASE ~(th[t].kind = "teams" /\ pc = "ok")
  <2>1. \A x \in Threads : \A tm : OwesTeam(th[x], tm) => OwesTeam(th'[x], tm)
    BY <1>1, <1>2, <1>5 DEF Replies, OwesTeam
  <2>2. CASE UNCHANGED team
    BY <1>3, <2>1, <2>2, SameLive, TeamsQuiet
  <2>3. CASE team' = [team EXCEPT ![th[t].on] = "gone"]
    <3>1. Live' \subseteq Live
      BY <1>1, <2>3 DEF Live
    <3> QED BY <1>3, <2>1, <3>1, TeamsQuiet
  <2>4. CASE /\ th[t].kind = "newteam" /\ team' = [team EXCEPT ![th[t].on] = "live"]
             /\ th' = [th EXCEPT ![t].pc = "ok"]
    <3>1. th'[t].kind = "newteam" /\ th'[t].on = th[t].on /\ th'[t].pc = "ok"
      BY <1>1, <2>4, EndsReplies DEF Replies
    <3>2. OwesTeam(th'[t], th[t].on)
      BY <3>1 DEF OwesTeam
    <3>3. \A tm \in Live' : tm \in Live \/ tm = th[t].on
      BY <1>1, <2>4 DEF Live
    <3> QED BY <1>3, <2>1, <3>2, <3>3 DEF TeamsListed, TeamListed, OwesTeam
  <2> QED BY <2>2, <2>3, <2>4 DEF ServeTeams
<1> QED BY <1>4, <1>5

LEMMA TeamsAnswered ==
    ASSUME DialogTypes, TeamsListed, NEW t \in Threads, TeamsAnswer(t)
    PROVE  TeamsListed'
<1>1. ThreadTypes /\ tp \in TeamsPanel /\ th[t].pc \in {"ok", "err"}
  BY DEF DialogTypes, PanelTypes, TeamsAnswer, Done
<1>2. Live' = Live /\ UNCHANGED desk
  BY SameLive DEF TeamsAnswer, tables
<1>3. \A x \in Threads : x # t => th'[x] = th[x]
  BY TeamsAnswerTypes DEF Turns
<1>4. CASE th[t].kind = "teams" /\ th[t].pc = "ok" /\ tp' = [tp EXCEPT !.rows = @ \cup th[t].found]
  <2>1. tp'.rows = tp.rows \cup th[t].found /\ tp'.err = tp.err
    BY <1>1, <1>4 DEF TeamsPanel
  <2>2. ASSUME NEW tm, TeamListed(tm)
        PROVE  TeamListed(tm)'
    <3>1. CASE tm \in tp.rows \/ OwesTeam(th[t], tm)
      BY <1>4, <2>1, <3>1 DEF TeamListed, OwesTeam
    <3>2. ASSUME NEW x \in Threads, x # t, OwesTeam(th[x], tm)
          PROVE  TeamListed(tm)'
      BY <1>3, <3>2 DEF TeamListed, OwesTeam
    <3> QED BY <2>2, <3>1, <3>2 DEF TeamListed
  <2> QED BY <1>2, <2>1, <2>2 DEF TeamsListed
<1>5. CASE tp' = [tp EXCEPT !.err = TRUE]
  <2>1. tp'.err
    BY <1>1, <1>5 DEF TeamsPanel
  <2> QED BY <2>1 DEF TeamsListed
<1>6. CASE refresh_teams(t)
  <2>1. th'[t].kind = "teams" /\ th'[t].pc = "run"
    BY <1>1, <1>6, TurnsRead DEF refresh_teams, TeamsKinds, OfMembers
  <2>2. \A tm : OwesTeam(th'[t], tm)
    BY <2>1 DEF OwesTeam
  <2> QED BY <2>2 DEF TeamsListed, TeamListed, OwesTeam
<1>7. CASE th[t].kind # "teams" /\ th[t].pc = "err" /\ UNCHANGED tp
  <2>1. \A tm : ~OwesTeam(th[t], tm)
    BY <1>7 DEF OwesTeam
  <2> QED BY <1>2, <1>3, <1>7, <2>1, TeamsQuiet
<1> QED BY <1>1, <1>4, <1>5, <1>6, <1>7 DEF TeamsAnswer

LEMMA TeamsListStep ==
    ASSUME DialogTypes, TeamsListed, [Next]_vars
    PROVE  TeamsListed'
<1>1. ASSUME UNCHANGED <<desk, tp, team>>,
             \A x \in Threads : \A tm : OwesTeam(th[x], tm) => OwesTeam(th'[x], tm)
      PROVE  TeamsListed'
  BY <1>1, SameLive, TeamsQuiet
<1>2. Idle.kind = "idle" /\ ThreadTypes
  BY DEF Idle, DialogTypes
<1>3. ASSUME NEW t \in Threads, TeamsStep(t)
      PROVE  TeamsListed'
  <2>1. CASE ClickInTeams(t)
    BY <1>1, <2>1, TeamsClicks DEF Begins, OwesTeam, tables, panels
  <2>2. ASSUME NEW tm \in Teams, OpenMembers(t, tm) \/ OpenShare(t, tm)
        PROVE  TeamsListed'
    <3>1. /\ th[t].kind = "idle" /\ UNCHANGED <<desk, tp, team>>
          /\ th' = [th EXCEPT ![t] = Read("members", tm)] \/ th' = [th EXCEPT ![t] = Read("vaults", tm)]
      BY <2>2 DEF OpenMembers, OpenShare, Free, Start, tables
    <3>2. \A x \in Threads : x # t => th'[x] = th[x]
      BY <1>2, <3>1, OneThread
    <3> QED BY <1>1, <3>1, <3>2 DEF OwesTeam
  <2>3. CASE MembersAnswer(t)
    <3>1. /\ th[t].kind \in OfMembers /\ UNCHANGED <<desk, tp, team>>
          /\ \A x \in Threads : x # t => th'[x] = th[x]
      BY <2>3, MembersAnswerTypes DEF MembersAnswer, Turns, tables
    <3> QED BY <1>1, <3>1 DEF OwesTeam, OfMembers
  <2>4. CASE ShareAnswer(t)
    <3>1. /\ th[t].kind \in OfShare /\ UNCHANGED <<desk, tp, team>>
          /\ \A x \in Threads : x # t => th'[x] = th[x] \/ th[x].kind \in OfShare
      BY <2>4, ShareAnswerTypes DEF ShareAnswer, tables
    <3> QED BY <1>1, <3>1 DEF OwesTeam, OfShare
  <2> QED BY <1>3, <2>1, <2>2, <2>3, <2>4, TeamsServed, TeamsAnswered DEF TeamsStep
<1>4. ASSUME NEW t \in Threads, UsersStep(t) \/ TrashStep(t) \/ LostAnswer(t)
      PROVE  TeamsListed'
  <2>1. UNCHANGED <<desk, tp, team>>
    BY <1>4, UsersFrame, TrashFrame, LostFrame DEF tables, panels
  <2>2. CASE UsersStep(t)
    BY <1>1, <2>1, <2>2, UsersFrame DEF Aside, UsersKinds, OwesTeam
  <2>3. CASE TrashStep(t)
    BY <1>1, <2>1, <2>3, TrashFrame DEF Aside, TrashKinds, OwesTeam
  <2>4. CASE LostAnswer(t)
    BY <1>1, <2>1, <2>4, LostFrame DEF OwesTeam, OfMembers, OfShare
  <2> QED BY <1>4, <2>2, <2>3, <2>4
<1>5. CASE OtherStep
  <2>1. CASE CloseWindow
    BY <1>1, <1>2, <2>1, OrphanedThreads DEF CloseWindow, Goes, OwesTeam, tables
  <2>2. CASE CloseTrash
    BY <1>1, <1>2, <2>2, OrphanedThreads DEF CloseTrash, Goes, OwesTeam, tables
  <2>3. CASE UNCHANGED <<th, desk, tp, team>>
    BY <1>1, <2>3
  <2> QED BY <1>5, <2>1, <2>2, <2>3
          DEF OtherStep, PickUser, PickVault, Elsewhere, MoveToTrash, tables, panels
<1>6. CASE UNCHANGED vars
  BY <1>1, <1>6 DEF vars, tables, panels
<1> QED BY <1>3, <1>4, <1>5, <1>6, NextCases

-----------------------------------------------------------------------------
(* Members window                                                          *)

\* While it is calm, the threads of the members window are about its team.
OfWindow(k, w) == k.kind \in OfMembers => k.mine /\ k.on = w.team /\ w.team # None
MembersOwned == calm => \A t \in Threads : OfWindow(th[t], mwin)

LEMMA OwnedStep ==
    ASSUME DialogTypes, MembersOwned, [Next]_vars
    PROVE  MembersOwned'
<1>1. ThreadTypes /\ mwin \in MembersWindow /\ Idle.kind = "idle"
  BY DEF DialogTypes, PanelTypes, Idle
<1>2. ASSUME mwin'.team = mwin.team, calm' => calm,
             \A x \in Threads : th'[x].kind \in OfMembers =>
                \/ th'[x].mine /\ th'[x].on = mwin.team /\ mwin.team # None
                \/ /\ th[x].kind \in OfMembers /\ th'[x].on = th[x].on
                   /\ th'[x].mine = th[x].mine
      PROVE  MembersOwned'
  BY <1>2 DEF MembersOwned, OfWindow
<1>3. ASSUME NEW t \in Threads, TeamsStep(t)
      PROVE  MembersOwned'
  <2>1. calm' => calm
    BY <1>3, TeamsFrame
  <2>2. CASE ClickInTeams(t)
    <3>1. UNCHANGED mwin
      BY <2>2, TeamsClicks DEF Begins, panels
    <3> QED BY <1>2, <2>1, <2>2, <3>1, TeamsClicks DEF Begins
  <2>3. ASSUME NEW tm \in Teams, OpenMembers(t, tm)
        PROVE  MembersOwned'
    <3>1. mwin.team = None /\ mwin'.team = tm /\ tm # None
      BY <2>3, DialogConstants DEF OpenMembers, NoWindow, MWin
    <3>2. Turns(t, {"members"}) /\ th'[t].mine /\ th'[t].on = tm
      BY <1>1, <2>3, TurnsRead DEF OpenMembers, TeamsKinds
    <3>3. calm => \A x \in Threads : th[x].kind \notin OfMembers
      BY <3>1 DEF MembersOwned, OfWindow
    <3> QED BY <2>1, <3>1, <3>2, <3>3 DEF MembersOwned, OfWindow, Turns
  <2>4. ASSUME NEW tm \in Teams, OpenShare(t, tm)
        PROVE  MembersOwned'
    <3>1. Turns(t, {"vaults"}) /\ th'[t].kind = "vaults"
      BY <1>1, <2>4, TurnsRead DEF OpenShare, TeamsKinds
    <3>2. UNCHANGED mwin
      BY <2>4 DEF OpenShare
    <3> QED BY <1>2, <2>1, <3>1, <3>2 DEF Turns, OfMembers
  <2>5. CASE ServeTeams(t)
    <3>1. UNCHANGED mwin
      BY <2>5 DEF ServeTeams, panels
    <3> QED BY <1>2, <2>1, <2>5, <3>1, ServeTeamsTypes DEF Replies
  <2>6. CASE TeamsAnswer(t)
    <3>1. UNCHANGED mwin
      BY <2>6 DEF TeamsAnswer
    <3> QED BY <1>1, <1>2, <2>1, <2>6, <3>1, TeamsAnswerTypes DEF Turns, OfMembers
  <2>7. CASE MembersAnswer(t)
    <3>1. mwin'.team = mwin.team
      BY <1>1, <2>7 DEF MembersAnswer, refresh_members, MembersShow, MembersWindow
    <3>2. th[t].kind \in OfMembers /\ th[t].mine /\ th[t].on \in Teams
      BY <1>1, <2>7 DEF MembersAnswer, ThreadTypes, Carries
    <3>3. \A x \in Threads : x # t => th'[x] = th[x]
      BY <2>7, MembersAnswerTypes DEF Turns
    <3>4. th'[t] = Idle \/ (th'[t].mine /\ th'[t].on = th[t].on)
      <4>1. CASE Start(t, Idle)
        BY <1>1, <4>1, OneThread DEF Start
      <4>2. CASE Start(t, Read("members", th[t].on))
        BY <1>1, <3>2, <4>2, TurnsRead DEF TeamsKinds
      <4> QED BY <2>7, <4>1, <4>2 DEF MembersAnswer, refresh_members
    <3>5. calm => th[t].on = mwin.team /\ mwin.team # None
      BY <3>2 DEF MembersOwned, OfWindow
    <3>6. Idle.kind \notin OfMembers
      BY <1>1 DEF OfMembers
    <3> QED BY <2>1, <3>1, <3>3, <3>4, <3>5, <3>6 DEF MembersOwned, OfWindow
  <2>8. CASE ShareAnswer(t)
    <3>1. UNCHANGED mwin
      BY <2>8 DEF ShareAnswer
    <3>2. \A x \in Threads : th'[x].kind \in OfMembers => th'[x] = th[x]
      BY <1>1, <2>8, ShareAnswerTypes DEF OfMembers, OfShare
    <3> QED BY <1>2, <2>1, <3>1, <3>2
  <2> QED BY <1>3, <2>2, <2>3, <2>4, <2>5, <2>6, <2>7, <2>8 DEF TeamsStep
<1>4. ASSUME NEW t \in Threads, UsersStep(t) \/ TrashStep(t) \/ LostAnswer(t)
      PROVE  MembersOwned'
  <2>1. UNCHANGED mwin /\ (calm' => calm)
    BY <1>4, UsersFrame, TrashFrame, LostFrame DEF panels, history
  <2>2. CASE UsersStep(t)
    BY <1>2, <2>1, <2>2, UsersFrame DEF Aside, UsersKinds, OfMembers
  <2>3. CASE TrashStep(t)
    BY <1>2, <2>1, <2>3, TrashFrame DEF Aside, TrashKinds, OfMembers
  <2>4. CASE LostAnswer(t)
    BY <1>2, <2>1, <2>4, LostFrame DEF OfMembers
  <2> QED BY <1>4, <2>2, <2>3, <2>4
<1>5. CASE OtherStep
  <2>1. CASE CloseWindow
    <3>1. Goes(OfMembers \cup OfShare)
      BY <1>1, <2>1, OrphanedThreads DEF CloseWindow
    <3>2. calm' => calm /\ th' = th
      BY <2>1 DEF CloseWindow
    <3>3. calm' => \A x \in Threads : th'[x].kind \notin OfMembers
      BY <3>1, <3>2 DEF Goes, MembersOwned, OfWindow
    <3> QED BY <3>3 DEF MembersOwned, OfWindow
  <2>2. CASE CloseTrash
    <3>1. Goes(OfTrash) /\ UNCHANGED mwin /\ (calm' => calm)
      BY <1>1, <2>2, OrphanedThreads DEF CloseTrash
    <3>2. \A x \in Threads : th'[x].kind \in OfMembers => th'[x] = th[x]
      BY <3>1, KindSets DEF Goes, OfMembers, OfTrash, TrashKinds
    <3> QED BY <1>2, <3>1, <3>2
  <2>3. ASSUME NEW i, PickUser(i)
        PROVE  MembersOwned'
    <3>1. mwin'.team = mwin.team
      BY <1>1, <2>3 DEF PickUser, MembersWindow
    <3> QED BY <1>2, <2>3, <3>1 DEF PickUser, history
  <2>4. CASE UNCHANGED <<th, mwin, calm>>
    BY <1>2, <2>4
  <2> QED BY <1>5, <2>1, <2>2, <2>3, <2>4
          DEF OtherStep, PickVault, Elsewhere, MoveToTrash, panels, history
<1>6. CASE UNCHANGED vars
  BY <1>2, <1>6 DEF vars, panels, history
<1> QED BY <1>3, <1>4, <1>5, <1>6, NextCases

\* A thread that will show a member, or report that it cannot.
OwesMember(k, u) ==
    \/ k.kind = "add" /\ k.who = u /\ k.pc = "ok"
    \/ k.kind = "members" /\ (k.pc \in {"run", "err"} \/ u \in k.found)

MemberListed(u) == u \in mwin.rows \/ \E t \in Threads : OwesMember(th[t], u)

\* Every member is in the window or on the way to it.
MembersListed ==
    calm /\ mwin.team # None /\ ~mwin.err => \A u \in member[mwin.team] : MemberListed(u)

LEMMA MembersQuiet ==
    ASSUME MembersListed, calm' => calm,
           mwin'.team = mwin.team /\ mwin'.rows = mwin.rows /\ mwin'.err = mwin.err,
           calm /\ mwin.team # None => member'[mwin.team] \subseteq member[mwin.team],
           \A x \in Threads : \A u : OwesMember(th[x], u) => OwesMember(th'[x], u)
    PROVE  MembersListed'
  BY DEF MembersListed, MemberListed, OwesMember

LEMMA MembersServed ==
    ASSUME DialogTypes, TeamsKnown, MembersOwned, MembersListed, NEW t \in Threads, ServeTeams(t)
    PROVE  MembersListed'
<1>1. /\ ThreadTypes /\ team \in [Teams -> {"unused", "live", "gone"}]
      /\ member \in [Teams -> SUBSET Users] /\ mwin.team \in Teams \cup {None}
      /\ th[t].pc = "run" /\ Carries(th[t])
  BY DEF DialogTypes, TableTypes, PanelTypes, ThreadTypes, MembersWindow, ServeTeams
<1>2. PICK pc \in {"ok", "err"} : Replies(t, pc)
  BY ServeTeamsTypes
<1>3. UNCHANGED <<mwin, calm>>
  BY DEF ServeTeams, panels, history
<1>4. CASE th[t].kind = "members" /\ pc = "ok"
  <2>1. /\ th' = [th EXCEPT ![t].pc = "ok", ![t].found = member[th[t].on], ![t].picks = Present]
        /\ UNCHANGED member
    <3>1. CASE th' = [th EXCEPT ![t].pc = "err"]
      BY <1>1, <1>2, <1>4, <3>1, EndsReplies DEF Replies
    <3> QED BY <1>4, <3>1 DEF ServeTeams
  <2>2. th[t].on \in Teams
    BY <1>1, <1>4 DEF Carries, OfMembers
  <2>3. /\ member[th[t].on] \in SUBSET Shown /\ member[th[t].on] \subseteq Users
        /\ Present \in SUBSET Users
    BY <1>1, <2>2 DEF Shown, Present
  <2>4. th'[t].found = member[th[t].on] /\ th'[t].kind = "members"
    <3>1. ASSUME NEW found \in SUBSET Shown, NEW picks \in SUBSET Users, found \subseteq Users,
                 th' = [th EXCEPT ![t].pc = "ok", ![t].found = found, ![t].picks = picks]
          PROVE  th'[t].found = found
      BY <1>1, <1>4, <3>1, FindsReplies
    <3>2. th'[t].kind = "members"
      BY <1>2, <1>4 DEF Replies
    <3> QED BY <2>1, <2>3, <3>1, <3>2
  <2>5. calm => th[t].on = mwin.team
    BY <1>4 DEF MembersOwned, OfWindow, OfMembers
  <2>6. calm => \A u \in member'[mwin.team] : OwesMember(th'[t], u)
    BY <2>1, <2>4, <2>5 DEF OwesMember
  <2> QED BY <1>3, <2>6 DEF MembersListed, MemberListed, OwesMember
<1>5. CASE ~(th[t].kind = "members" /\ pc = "ok")
  <2>1. \A x \in Threads : \A u : OwesMember(th[x], u) => OwesMember(th'[x], u)
    BY <1>1, <1>2, <1>5 DEF Replies, OwesMember
  <2>2. ASSUME calm /\ mwin.team # None => member'[mwin.team] \subseteq member[mwin.team]
        PROVE  MembersListed'
    BY <1>3, <2>1, <2>2, MembersQuiet
  <2>3. CASE UNCHANGED member
    BY <2>2, <2>3
  <2>4. CASE team[th[t].on] = "unused" /\ member' = [member EXCEPT ![th[t].on] = {Me}]
    <3>1. mwin.team # None => mwin.team # th[t].on /\ mwin.team \in Teams
      BY <1>1, <2>4 DEF TeamsKnown, Used
    <3>2. mwin.team # None => member'[mwin.team] = member[mwin.team]
      BY <1>1, <2>4, <3>1
    <3> QED BY <2>2, <3>2
  <2>5. CASE \/ member' = [member EXCEPT ![th[t].on] = {}]
             \/ member' = [member EXCEPT ![th[t].on] = @ \ {th[t].who}]
    <3>1. mwin.team # None => member'[mwin.team] \subseteq member[mwin.team]
      BY <1>1, <2>5
    <3> QED BY <2>2, <3>1
  <2>6. CASE /\ th[t].kind = "add" /\ member' = [member EXCEPT ![th[t].on] = @ \cup {th[t].who}]
             /\ th' = [th EXCEPT ![t].pc = "ok"]
    <3>1. th'[t].kind = "add" /\ th'[t].who = th[t].who /\ th'[t].pc = "ok"
      BY <1>1, <2>6, EndsReplies DEF Replies
    <3>2. OwesMember(th'[t], th[t].who)
      BY <3>1 DEF OwesMember
    <3>3. mwin.team # None =>
            \A u \in member'[mwin.team] : u \in member[mwin.team] \/ u = th[t].who
      BY <1>1, <2>6
    <3> QED BY <1>3, <2>1, <3>2, <3>3 DEF MembersListed, MemberListed, OwesMember
  <2> QED BY <2>3, <2>4, <2>5, <2>6 DEF ServeTeams
<1> QED BY <1>4, <1>5

LEMMA MembersAnswered ==
    ASSUME DialogTypes, MembersListed, NEW t \in Threads, MembersAnswer(t)
    PROVE  MembersListed'
<1>1. /\ ThreadTypes /\ mwin \in MembersWindow /\ th[t].pc \in {"ok", "err"}
      /\ th[t].kind \in OfMembers
  BY DEF DialogTypes, PanelTypes, MembersAnswer, Done
<1>2. UNCHANGED member
  BY DEF MembersAnswer, tables
<1>3. (\A x \in Threads : x # t => th'[x] = th[x]) /\ (calm' => calm)
  BY MembersAnswerTypes DEF Turns
<1>4. CASE th[t].kind = "members" /\ th[t].pc = "ok" /\ mwin' = MembersShow(mwin, th[t])
  <2>1. /\ mwin'.rows = mwin.rows \cup th[t].found
        /\ mwin'.err = mwin.err /\ mwin'.team = mwin.team
    BY <1>1, <1>4 DEF MembersShow, MembersWindow
  <2>2. ASSUME NEW u, MemberListed(u)
        PROVE  MemberListed(u)'
    <3>1. CASE u \in mwin.rows \/ OwesMember(th[t], u)
      BY <1>4, <2>1, <3>1 DEF MemberListed, OwesMember
    <3>2. ASSUME NEW x \in Threads, x # t, OwesMember(th[x], u)
          PROVE  MemberListed(u)'
      BY <1>3, <3>2 DEF MemberListed, OwesMember
    <3> QED BY <2>2, <3>1, <3>2 DEF MemberListed
  <2> QED BY <1>2, <1>3, <2>1, <2>2 DEF MembersListed
<1>5. CASE mwin' = [mwin EXCEPT !.err = TRUE]
  <2>1. mwin'.err
    BY <1>1, <1>5 DEF MembersWindow
  <2> QED BY <2>1 DEF MembersListed
<1>6. CASE refresh_members(t, th[t].on)
  <2>1. th[t].on \in Teams
    BY <1>1 DEF ThreadTypes, Carries
  <2>2. th'[t].kind = "members" /\ th'[t].pc = "run"
    BY <1>1, <1>6, <2>1, TurnsRead DEF refresh_members, TeamsKinds
  <2>3. \A u : OwesMember(th'[t], u)
    BY <2>2 DEF OwesMember
  <2> QED BY <2>3 DEF MembersListed, MemberListed, OwesMember
<1>7. CASE th[t].kind # "members" /\ th[t].pc = "err" /\ UNCHANGED mwin
  <2>1. \A u : ~OwesMember(th[t], u)
    BY <1>7 DEF OwesMember
  <2> QED BY <1>2, <1>3, <1>7, <2>1, MembersQuiet
<1> QED BY <1>1, <1>4, <1>5, <1>6, <1>7 DEF MembersAnswer

LEMMA MembersListStep ==
    ASSUME DialogTypes, TeamsKnown, MembersOwned, MembersListed, [Next]_vars
    PROVE  MembersListed'
<1>1. ASSUME UNCHANGED <<mwin, member>>, calm' => calm,
             \A x \in Threads : \A u : OwesMember(th[x], u) => OwesMember(th'[x], u)
      PROVE  MembersListed'
  BY <1>1, MembersQuiet
<1>2. ThreadTypes /\ mwin \in MembersWindow /\ mwin.team \in Teams \cup {None}
  BY DEF DialogTypes, PanelTypes, MembersWindow
<1>3. ASSUME NEW t \in Threads, TeamsStep(t)
      PROVE  MembersListed'
  <2>1. calm' => calm
    BY <1>3, TeamsFrame
  <2>2. CASE ClickInTeams(t)
    BY <1>1, <2>1, <2>2, TeamsClicks DEF Begins, OwesMember, tables, panels
  <2>3. ASSUME NEW tm \in Teams, OpenMembers(t, tm)
        PROVE  MembersListed'
    <3>1. th'[t].kind = "members" /\ th'[t].pc = "run"
      BY <1>2, <2>3, TurnsRead DEF OpenMembers, TeamsKinds
    <3>2. \A u : OwesMember(th'[t], u)
      BY <3>1 DEF OwesMember
    <3> QED BY <3>2 DEF MembersListed, MemberListed, OwesMember
  <2>4. ASSUME NEW tm \in Teams, OpenShare(t, tm)
        PROVE  MembersListed'
    <3>1. th[t].kind = "idle" /\ UNCHANGED <<mwin, member>>
          /\ \A x \in Threads : x # t => th'[x] = th[x]
      BY <1>2, <2>4, OneThread DEF OpenShare, Free, Start, tables
    <3> QED BY <1>1, <2>1, <3>1 DEF OwesMember
  <2>5. CASE TeamsAnswer(t)
    <3>1. /\ th[t].kind \in {"teams", "newteam", "dropteam"} /\ UNCHANGED <<mwin, member>>
          /\ \A x \in Threads : x # t => th'[x] = th[x]
      BY <2>5, TeamsAnswerTypes DEF TeamsAnswer, Turns, tables
    <3> QED BY <1>1, <2>1, <3>1 DEF OwesMember
  <2>6. CASE ShareAnswer(t)
    <3>1. /\ th[t].kind \in OfShare /\ UNCHANGED <<mwin, member>>
          /\ \A x \in Threads : x # t => th'[x] = th[x] \/ th[x].kind \in OfShare
      BY <2>6, ShareAnswerTypes DEF ShareAnswer, tables
    <3> QED BY <1>1, <2>1, <3>1 DEF OwesMember, OfShare
  <2> QED BY <1>3, <2>2, <2>3, <2>4, <2>5, <2>6, MembersServed, MembersAnswered DEF TeamsStep
<1>4. ASSUME NEW t \in Threads, UsersStep(t)
      PROVE  MembersListed'
  <2>1. /\ UNCHANGED mwin /\ (calm' => calm)
        /\ \A tm \in Teams : member'[tm] \subseteq member[tm]
    BY <1>4, UsersFrame
  <2>2. \A x \in Threads : \A u : OwesMember(th[x], u) => OwesMember(th'[x], u)
    BY <1>4, UsersFrame DEF Aside, UsersKinds, OwesMember
  <2>3. mwin.team # None => member'[mwin.team] \subseteq member[mwin.team]
    BY <1>2, <2>1
  <2> QED BY <2>1, <2>2, <2>3, MembersQuiet
<1>5. ASSUME NEW t \in Threads, TrashStep(t) \/ LostAnswer(t)
      PROVE  MembersListed'
  <2>1. CASE TrashStep(t)
    BY <1>1, <2>1, TrashFrame DEF Aside, TrashKinds, OwesMember
  <2>2. CASE LostAnswer(t)
    <3>1. /\ UNCHANGED <<mwin, member, calm>> /\ ~th[t].mine
          /\ \A x \in Threads : x # t => th'[x] = th[x]
      BY <2>2, LostFrame DEF tables, panels, history
    <3>2. calm => th[t].kind \notin OfMembers
      BY <3>1 DEF MembersOwned, OfWindow
    <3>3. calm => \A u : ~OwesMember(th[t], u)
      BY <3>2 DEF OwesMember, OfMembers
    <3> QED BY <3>1, <3>3 DEF MembersListed, MemberListed, OwesMember
  <2> QED BY <1>5, <2>1, <2>2
<1>6. CASE OtherStep
  <2>1. CASE CloseWindow
    BY <2>1 DEF CloseWindow, MWin, MembersListed
  <2>2. CASE CloseTrash
    BY <1>1, <1>2, <2>2, OrphanedThreads DEF CloseTrash, Goes, OwesMember, tables
  <2>3. ASSUME NEW i, PickUser(i)
        PROVE  MembersListed'
    <3>1. mwin'.team = mwin.team /\ mwin'.rows = mwin.rows /\ mwin'.err = mwin.err
      BY <1>2, <2>3 DEF PickUser, MembersWindow
    <3>2. UNCHANGED <<th, member, calm>>
      BY <2>3 DEF PickUser, tables, history
    <3> QED BY <3>1, <3>2, MembersQuiet
  <2>4. CASE Elsewhere
    <3>1. UNCHANGED <<th, mwin, calm>>
      BY <2>4 DEF Elsewhere, panels, history
    <3>2. \A tm \in Teams : member'[tm] \subseteq member[tm]
      <4>1. ASSUME NEW u, member' = [tm \in Teams |-> member[tm] \ {u}]
            PROVE  \A tm \in Teams : member'[tm] \subseteq member[tm]
        BY <4>1
      <4> QED BY <2>4, <4>1 DEF Elsewhere
    <3>3. mwin.team # None => member'[mwin.team] \subseteq member[mwin.team]
      BY <1>2, <3>2
    <3> QED BY <3>1, <3>3, MembersQuiet
  <2>5. CASE UNCHANGED <<th, mwin, member, calm>>
    BY <1>1, <2>5
  <2> QED BY <1>6, <2>1, <2>2, <2>3, <2>4, <2>5
          DEF OtherStep, PickVault, MoveToTrash, tables, panels, history
<1>7. CASE UNCHANGED vars
  BY <1>1, <1>7 DEF vars, tables, panels, history
<1> QED BY <1>3, <1>4, <1>5, <1>6, <1>7, NextCases

\* manage_users_dialog.rs and manage_teams_dialog.rs: the panels add the rows of an
\* answer to those of earlier answers and never read again by themselves.  Still,
\* when nothing is under way and no reading has failed, no user (after the full
\* refresh), no team and no member of the open window is missing from its list.
THEOREM NothingStaysHidden == Spec => []NothingHidden
<1> DEFINE Inv == /\ DialogTypes /\ UsersListed /\ TeamsKnown /\ TeamsListed
                  /\ MembersOwned /\ MembersListed
<1>1. Init => Inv
  <2> SUFFICES ASSUME Init PROVE Inv
    OBVIOUS
  <2>1. DialogTypes /\ mwin = MWin(None) /\ tp.rows = {} /\ mwin.team = None
    BY InitParts DEF MWin
  <2>2. PICK t \in Threads : FirstReading(t)
    BY InitParts
  <2>3. Idle.kind = "idle" /\ Idle.found = {}
    BY DEF Idle
  <2>4. desk = "users" => \A u : OwesUser(th[t], u)
    BY <2>2 DEF FirstReading, OwesUser
  <2>5. desk = "teams" => \A tm : OwesTeam(th[t], tm)
    BY <2>2 DEF FirstReading, OwesTeam
  <2>6. \A x \in Threads : th[x].kind \notin OfMembers
    BY <2>2, <2>3 DEF FirstReading, OfMembers
  <2>7. \A x \in Threads : th[x].found = {}
    <3>1. \A kind : Read(kind, None).found = {}
      BY DEF Read, Call, Idle
    <3> QED BY <2>3, <3>1 DEF Init
  <2>8. UsersListed
    BY <2>4 DEF UsersListed, UserListed
  <2>9. TeamsListed
    BY <2>5 DEF TeamsListed, TeamListed
  <2>10. TeamsKnown
    BY <2>1, <2>7 DEF TeamsKnown
  <2>11. MembersOwned /\ MembersListed
    BY <2>1, <2>6 DEF MembersOwned, OfWindow, MembersListed
  <2> QED BY <2>1, <2>8, <2>9, <2>10, <2>11
<1>2. Inv /\ [Next]_vars => Inv'
  BY TypesStep, UsersListStep, KnownStep, TeamsListStep, OwnedStep, MembersListStep
<1>3. Inv => NothingHidden
  <2> SUFFICES ASSUME Inv, Settled PROVE NothingHidden
    BY DEF NothingHidden
  <2>1. \A x \in Threads : th[x].kind = "idle"
    BY DEF Settled, Free
  <2>2. \A x \in Threads : \A y :
           ~OwesUser(th[x], y) /\ ~OwesTeam(th[x], y) /\ ~OwesMember(th[x], y)
    BY <2>1 DEF OwesUser, OwesTeam, OwesMember
  <2>3. desk = "users" /\ up.last = "list" /\ ~up.err
           => Present \ halfmade \subseteq {row.id : row \in up.rows}
    BY <2>2 DEF UsersListed, UserListed
  <2>4. desk = "teams" /\ ~tp.err => {tm \in Teams : team[tm] = "live"} \subseteq tp.rows
    BY <2>2 DEF TeamsListed, TeamListed, Live
  <2>5. mwin.team # None /\ ~mwin.err /\ calm => member[mwin.team] \subseteq mwin.rows
    BY <2>2 DEF MembersListed, MemberListed
  <2> QED BY <2>3, <2>4, <2>5 DEF NothingHidden
<1> QED BY <1>1, <1>2, <1>3, PTL DEF Spec

-----------------------------------------------------------------------------
(* Trash dialog                                                            *)

ReadsTrash(k)   == k.kind = "trash"
ChangesTrash(k) == k.kind \in {"restore", "purge", "empty"}

\* While it is calm, the dialog is open as long as a thread of it runs, and at
\* most one thread reads the trash.
TrashOwned ==
    calm => \A t \in Threads :
               ReadsTrash(th[t]) \/ ChangesTrash(th[t]) => th[t].mine /\ trash.open

OneReading == calm => \A t, x \in Threads : ReadsTrash(th[t]) /\ ReadsTrash(th[x]) => t = x

\* A change of the trash whose answer will make the dialog read again.
TrashOwed == \E t \in Threads : ChangesTrash(th[t]) /\ th[t].pc = "ok"

\* Unless it has to be read again: what has been read is the trash, and without
\* a reading under way what is shown is the trash.
FoundFollows ==
    calm /\ trash.open /\ ~TrashOwed =>
      \A t \in Threads : ReadsTrash(th[t]) /\ th[t].pc = "ok" => th[t].found = Trashed

ShowsTrash == trash.rows = Trashed /\ (trash.panel = "list" <=> Trashed # {})

RowsFollow ==
    calm /\ trash.open /\ ~TrashOwed =>
      \/ \E t \in Threads : ReadsTrash(th[t])
      \/ trash.panel = "unavailable"
      \/ ShowsTrash

\* The loading page waits for a reading.
LoadingIsRead ==
    trash.open /\ trash.panel = "loading" => \E t \in Threads : ReadsTrash(th[t]) /\ th[t].mine

TrashInv == TrashOwned /\ OneReading /\ FoundFollows /\ RowsFollow /\ LoadingIsRead

LEMMA SameTrashed ==
    ASSUME UNCHANGED secret
    PROVE  Trashed' = Trashed
  BY DEF Trashed

OfDialog(k) == ReadsTrash(k) \/ ChangesTrash(k)

LEMMA TrashQuiet ==
    ASSUME TrashInv, UNCHANGED <<trash, secret>>, calm' => calm,
           \A x \in Threads : OfDialog(th[x]) \/ OfDialog(th'[x]) => th'[x] = th[x]
    PROVE  TrashInv'
<1>1. Trashed' = Trashed
  BY SameTrashed
<1>2. \A x \in Threads : /\ ReadsTrash(th[x]) \/ ReadsTrash(th'[x]) => th'[x] = th[x]
                         /\ ChangesTrash(th[x]) \/ ChangesTrash(th'[x]) => th'[x] = th[x]
  BY DEF OfDialog
<1>3. TrashOwned' /\ OneReading'
  BY <1>2 DEF TrashInv, TrashOwned, OneReading, ReadsTrash, ChangesTrash
<1>4. TrashOwed => TrashOwed'
  BY <1>2 DEF TrashOwed, ChangesTrash
<1>5. FoundFollows'
  BY <1>1, <1>2, <1>4 DEF TrashInv, FoundFollows, ReadsTrash
<1>6. RowsFollow'
  BY <1>1, <1>2, <1>4 DEF TrashInv, RowsFollow, ShowsTrash, ReadsTrash
<1>7. LoadingIsRead'
  BY <1>2 DEF TrashInv, LoadingIsRead, ReadsTrash
<1> QED BY <1>3, <1>5, <1>6, <1>7 DEF TrashInv

LEMMA TrashClicked ==
    ASSUME DialogTypes, TrashInv, NEW t \in Threads, ClickInTrash(t)
    PROVE  TrashInv'
<1>1. /\ th[t].kind = "idle" /\ UNCHANGED <<trash, secret, calm>> /\ trash.open
      /\ \A x \in Threads : x # t => th'[x] = th[x]
      /\ th'[t].pc = "run" /\ th'[t].mine
      /\ ~ReadsTrash(th'[t]) /\ ~ReadsTrash(th[t]) /\ ~ChangesTrash(th[t])
  BY TrashClicks DEF Begins, ReadsTrash, ChangesTrash, tables, panels, history
<1>2. Trashed' = Trashed
  BY <1>1, SameTrashed
<1>3. TrashOwned' /\ OneReading'
  BY <1>1 DEF TrashInv, TrashOwned, OneReading, ReadsTrash, ChangesTrash
<1>4. TrashOwed => TrashOwed'
  BY <1>1 DEF TrashOwed, ChangesTrash
<1>5. FoundFollows'
  BY <1>1, <1>2, <1>4 DEF TrashInv, FoundFollows, ReadsTrash
<1>6. RowsFollow'
  BY <1>1, <1>2, <1>4 DEF TrashInv, RowsFollow, ShowsTrash, ReadsTrash
<1>7. LoadingIsRead'
  BY <1>1 DEF TrashInv, LoadingIsRead, ReadsTrash
<1> QED BY <1>3, <1>5, <1>6, <1>7 DEF TrashInv

LEMMA TrashOpened ==
    ASSUME DialogTypes, TrashInv, NEW t \in Threads, OpenTrash(t)
    PROVE  TrashInv'
<1>1. /\ \A x \in Threads : x # t => th'[x] = th[x]
      /\ th'[t].kind = "trash" /\ th'[t].pc = "run" /\ th'[t].mine
  BY TurnsRead DEF OpenTrash, TrashKinds, OfMembers, DialogTypes, Turns
<1>2. UNCHANGED calm /\ trash'.open /\ ~trash.open
  BY DEF OpenTrash, history
<1>3. calm => \A x \in Threads : ~ReadsTrash(th[x]) /\ ~ChangesTrash(th[x])
  BY <1>2 DEF TrashInv, TrashOwned
<1>4. TrashOwned' /\ OneReading'
  BY <1>1, <1>2, <1>3 DEF TrashOwned, OneReading, ReadsTrash, ChangesTrash
<1>5. FoundFollows' /\ RowsFollow' /\ LoadingIsRead'
  BY <1>1, <1>2, <1>3 DEF FoundFollows, RowsFollow, LoadingIsRead, ReadsTrash
<1> QED BY <1>4, <1>5 DEF TrashInv

LEMMA TrashServed ==
    ASSUME DialogTypes, TrashInv, NEW t \in Threads, ServeTrash(t)
    PROVE  TrashInv'
<1>1. ThreadTypes /\ TableTypes /\ th[t].pc = "run" /\ UNCHANGED <<trash, calm>>
  BY DEF DialogTypes, ServeTrash, panels
<1>2. PICK pc \in {"ok", "err"} : Replies(t, pc)
  BY ServeTrashTypes
<1>3. \A x \in Threads : /\ ReadsTrash(th'[x]) <=> ReadsTrash(th[x])
                         /\ ChangesTrash(th'[x]) <=> ChangesTrash(th[x])
                         /\ th'[x].mine = th[x].mine
  BY <1>2 DEF Replies, ReadsTrash, ChangesTrash
<1>4. TrashOwned' /\ OneReading' /\ LoadingIsRead'
  BY <1>1, <1>3 DEF TrashInv, TrashOwned, OneReading, LoadingIsRead, ReadsTrash, ChangesTrash
<1>5. TrashOwed => TrashOwed'
  BY <1>1, <1>2 DEF Replies, TrashOwed, ChangesTrash
<1>6. CASE TrashOwed'
  BY <1>4, <1>6 DEF TrashInv, FoundFollows, RowsFollow
<1>7. CASE ~TrashOwed'
  <2>1. ~(ChangesTrash(th[t]) /\ pc = "ok")
    BY <1>2, <1>7 DEF Replies, TrashOwed, ChangesTrash
  <2>2. UNCHANGED secret /\ (ReadsTrash(th[t]) /\ pc = "ok" => th'[t].found = Trashed)
    <3>1. CASE /\ th[t].kind = "trash" /\ UNCHANGED secret
               /\ th' = [th EXCEPT ![t].pc = "ok", ![t].found = Trashed]
      BY <1>1, <3>1, PresentTypes, TrashReplies
    <3>2. CASE th' = [th EXCEPT ![t].pc = "err"] /\ UNCHANGED secret
      <4>1. pc = "err"
        BY <1>1, <1>2, <3>2, EndsReplies DEF Replies
      <4> QED BY <3>2, <4>1
    <3>3. CASE th[t].kind \in {"restore", "purge", "empty"} /\ th' = [th EXCEPT ![t].pc = "ok"]
      <4>1. pc = "ok"
        BY <1>1, <1>2, <3>3, EndsReplies DEF Replies
      <4> QED BY <2>1, <3>3, <4>1 DEF ChangesTrash
    <3> QED BY <3>1, <3>2, <3>3 DEF ServeTrash
  <2>3. Trashed' = Trashed
    BY <2>2, SameTrashed
  <2>4. FoundFollows'
    <3> SUFFICES ASSUME calm, trash.open, NEW x \in Threads, ReadsTrash(th'[x]), th'[x].pc = "ok"
                 PROVE  th'[x].found = Trashed
      BY <1>1, <2>3 DEF FoundFollows, ReadsTrash
    <3>1. CASE x = t
      BY <1>2, <1>3, <2>2, <3>1 DEF Replies
    <3>2. CASE x # t
      BY <1>2, <1>3, <1>5, <1>7, <3>2 DEF TrashInv, FoundFollows, Replies
    <3> QED BY <3>1, <3>2
  <2>5. RowsFollow'
    BY <1>1, <1>3, <1>5, <1>7, <2>3 DEF TrashInv, RowsFollow, ShowsTrash, ReadsTrash
  <2> QED BY <1>4, <2>4, <2>5 DEF TrashInv
<1> QED BY <1>6, <1>7

LEMMA TrashAnswered ==
    ASSUME DialogTypes, TrashInv, NEW t \in Threads, TrashAnswer(t)
    PROVE  TrashInv'
<1>1. /\ trash \in TrashDialog /\ UNCHANGED <<secret, calm>>
      /\ ReadsTrash(th[t]) /\ th[t].pc \in {"ok", "err"}
  BY DEF DialogTypes, PanelTypes, TrashAnswer, Done, ReadsTrash, tables, history
<1>2. th'[t] = Idle /\ \A x \in Threads : x # t => th'[x] = th[x]
  BY TrashAnswerTypes DEF Turns
<1>3. ~ReadsTrash(th'[t]) /\ ~ChangesTrash(th'[t]) /\ ~ChangesTrash(th[t])
  BY <1>1, <1>2 DEF ReadsTrash, ChangesTrash, Idle
<1>4. Trashed' = Trashed
  BY <1>1, SameTrashed
<1>5. calm => \A x \in Threads : ~ReadsTrash(th'[x])
  BY <1>1, <1>2, <1>3 DEF TrashInv, OneReading
<1>6. TrashOwed => TrashOwed'
  BY <1>2, <1>3 DEF TrashOwed, ChangesTrash
<1>7. /\ trash'.open = trash.open /\ trash'.panel # "loading"
      /\ \/ trash'.panel = "unavailable"
         \/ /\ th[t].pc = "ok" /\ trash'.rows = th[t].found
            /\ trash'.panel = "list" <=> th[t].found # {}
  <2>1. CASE th[t].pc = "err"
    BY <1>1, <2>1 DEF TrashAnswer, TrashDialog
  <2>2. CASE th[t].pc # "err"
    <3>1. trash' = [trash EXCEPT !.rows = th[t].found,
                                 !.panel = IF th[t].found = {} THEN "empty" ELSE "list"]
      BY <2>2 DEF TrashAnswer
    <3>2. trash'.open = trash.open /\ trash'.rows = th[t].found
          /\ trash'.panel = IF th[t].found = {} THEN "empty" ELSE "list"
      BY <1>1, <3>1 DEF TrashDialog
    <3> QED BY <1>1, <2>2, <3>2
  <2> QED BY <2>1, <2>2
<1>8. TrashOwned' /\ OneReading'
  BY <1>1, <1>2, <1>3, <1>5, <1>7 DEF TrashInv, TrashOwned, OneReading, ReadsTrash, ChangesTrash
<1>9. FoundFollows'
  BY <1>1, <1>5 DEF FoundFollows, ReadsTrash
<1>10. RowsFollow'
  <2>1. calm /\ trash.open /\ ~TrashOwed /\ th[t].pc = "ok" => th[t].found = Trashed
    BY <1>1 DEF TrashInv, FoundFollows
  <2> QED BY <1>1, <1>4, <1>6, <1>7, <2>1 DEF RowsFollow, ShowsTrash
<1>11. LoadingIsRead'
  BY <1>7 DEF LoadingIsRead
<1> QED BY <1>8, <1>9, <1>10, <1>11 DEF TrashInv

LEMMA TrashRefreshed ==
    ASSUME DialogTypes, TrashInv, NEW t \in Threads, TrashChanged(t)
    PROVE  TrashInv'
<1>1. /\ ThreadTypes /\ trash \in TrashDialog /\ UNCHANGED secret
      /\ ChangesTrash(th[t]) /\ ~ReadsTrash(th[t]) /\ th[t].pc \in {"ok", "err"}
  BY DEF DialogTypes, PanelTypes, TrashChanged, Done, ReadsTrash, ChangesTrash, tables
<1>2. \A x \in Threads : x # t => th'[x] = th[x]
  BY TrashChangedTypes DEF Turns
<1>3. Trashed' = Trashed
  BY <1>1, SameTrashed
<1>4. CASE th[t].pc = "ok" /\ th[t].mine /\ refresh_trash_list(t)
  <2>1. th'[t].kind = "trash" /\ th'[t].pc = "run" /\ th'[t].mine
    BY <1>1, <1>4, TurnsRead DEF refresh_trash_list, TrashKinds, OfMembers
  <2>2. trash'.open = trash.open
    BY <1>1, <1>4 DEF refresh_trash_list, TrashDialog
  <2>3. calm' => calm /\ ~Reading(t, "trash")
    BY <1>4 DEF refresh_trash_list, Calm
  <2>4. calm' => \A x \in Threads : x # t => ~ReadsTrash(th'[x])
    BY <1>2, <2>3 DEF TrashInv, TrashOwned, Reading, ReadsTrash
  <2>5. OneReading'
    BY <2>4 DEF OneReading, ReadsTrash
  <2>6. TrashOwned'
    BY <1>1, <1>2, <2>1, <2>2, <2>3 DEF TrashInv, TrashOwned, ReadsTrash, ChangesTrash
  <2>7. FoundFollows' /\ RowsFollow' /\ LoadingIsRead'
    BY <2>1, <2>4 DEF FoundFollows, RowsFollow, LoadingIsRead, ReadsTrash
  <2> QED BY <2>5, <2>6, <2>7 DEF TrashInv
<1>5. CASE Start(t, Idle) /\ UNCHANGED <<trash, calm>> /\ ~(th[t].pc = "ok" /\ th[t].mine)
  <2>1. th'[t] = Idle
    BY <1>1, <1>5, TurnsIdle
  <2>2. ~ReadsTrash(th'[t]) /\ ~ChangesTrash(th'[t])
    BY <2>1 DEF Idle, ReadsTrash, ChangesTrash
  <2>3. TrashOwned' /\ OneReading'
    BY <1>2, <1>5, <2>2 DEF TrashInv, TrashOwned, OneReading, ReadsTrash, ChangesTrash
  <2>4. LoadingIsRead'
    BY <1>1, <1>2, <1>5 DEF TrashInv, LoadingIsRead, ReadsTrash
  <2>5. calm => th[t].pc = "err"
    BY <1>1, <1>5 DEF TrashInv, TrashOwned
  <2>6. calm /\ TrashOwed => TrashOwed'
    BY <1>2, <2>5 DEF TrashOwed, ChangesTrash
  <2>7. FoundFollows'
    BY <1>2, <1>3, <1>5, <2>2, <2>6 DEF TrashInv, FoundFollows, ReadsTrash
  <2>8. RowsFollow'
    BY <1>1, <1>2, <1>3, <1>5, <2>6 DEF TrashInv, RowsFollow, ShowsTrash, ReadsTrash
  <2> QED BY <2>3, <2>4, <2>7, <2>8 DEF TrashInv
<1> QED BY <1>4, <1>5 DEF TrashChanged

LEMMA TrashInvStep ==
    ASSUME DialogTypes, TrashInv, [Next]_vars
    PROVE  TrashInv'
<1>1. ASSUME NEW t \in Threads, TrashStep(t)
      PROVE  TrashInv'
  BY <1>1, TrashClicked, TrashOpened, TrashServed, TrashAnswered, TrashRefreshed DEF TrashStep
<1>2. ASSUME NEW t \in Threads, UsersStep(t)
      PROVE  TrashInv'
  <2>1. \A x \in Threads : OfDialog(th[x]) \/ OfDialog(th'[x]) => th'[x] = th[x]
    BY <1>2, UsersFrame DEF Aside, UsersKinds, OfDialog, ReadsTrash, ChangesTrash
  <2> QED BY <1>2, <2>1, UsersFrame, TrashQuiet
<1>3. ASSUME NEW t \in Threads, TeamsStep(t)
      PROVE  TrashInv'
  <2>1. \A x \in Threads : OfDialog(th[x]) \/ OfDialog(th'[x]) => th'[x] = th[x]
    BY <1>3, TeamsFrame DEF Aside, TeamsKinds, OfDialog, ReadsTrash, ChangesTrash
  <2> QED BY <1>3, <2>1, TeamsFrame, TrashQuiet
<1>4. ASSUME NEW t \in Threads, LostAnswer(t)
      PROVE  TrashInv'
  <2>1. /\ \A x \in Threads : x # t => th'[x] = th[x]
        /\ UNCHANGED <<trash, secret, calm>> /\ ~th[t].mine
        /\ ~ReadsTrash(th'[t]) /\ ~ChangesTrash(th'[t]) /\ ~ChangesTrash(th[t])
    BY <1>4, LostFrame DEF ReadsTrash, ChangesTrash, OfMembers, OfShare, tables, panels, history
  <2>2. CASE ~calm
    <3>1. LoadingIsRead'
      BY <2>1 DEF TrashInv, LoadingIsRead, ReadsTrash
    <3> QED BY <2>1, <2>2, <3>1
            DEF TrashInv, TrashOwned, OneReading, FoundFollows, RowsFollow
  <2>3. CASE calm
    <3>1. ~ReadsTrash(th[t])
      BY <2>1, <2>3 DEF TrashInv, TrashOwned
    <3>2. \A x \in Threads : OfDialog(th[x]) \/ OfDialog(th'[x]) => th'[x] = th[x]
      BY <2>1, <3>1 DEF OfDialog
    <3> QED BY <2>1, <3>2, TrashQuiet
  <2> QED BY <2>2, <2>3
<1>5. CASE OtherStep
  <2>1. CASE CloseWindow
    <3>1. Goes(OfMembers \cup OfShare)
      BY <2>1, OrphanedThreads DEF CloseWindow, DialogTypes
    <3>2. \A x \in Threads : OfDialog(th[x]) \/ OfDialog(th'[x]) => th'[x] = th[x]
      BY <3>1 DEF Goes, OfDialog, ReadsTrash, ChangesTrash, OfMembers, OfShare
    <3>3. UNCHANGED <<trash, secret>> /\ (calm' => calm)
      BY <2>1 DEF CloseWindow, tables
    <3> QED BY <3>2, <3>3, TrashQuiet
  <2>2. CASE CloseTrash
    <3>1. Goes(OfTrash) /\ trash \in TrashDialog
      BY <2>2, OrphanedThreads DEF CloseTrash, DialogTypes, PanelTypes
    <3>2. ~trash'.open
      BY <2>2, <3>1 DEF CloseTrash, TrashDialog
    <3>3. calm' => calm /\ th' = th
      BY <2>2 DEF CloseTrash
    <3>4. calm' => \A x \in Threads : th[x].kind \notin OfTrash
      BY <3>1, <3>3, KindSets
         DEF Goes, TrashInv, TrashOwned, OfTrash, TrashKinds, ReadsTrash, ChangesTrash
    <3>5. calm' => \A x \in Threads : ~ReadsTrash(th'[x]) /\ ~ChangesTrash(th'[x])
      BY <3>3, <3>4, KindSets DEF OfTrash, TrashKinds, ReadsTrash, ChangesTrash
    <3> QED BY <3>2, <3>5 DEF TrashInv, TrashOwned, OneReading, FoundFollows, RowsFollow,
                             LoadingIsRead, ReadsTrash, ChangesTrash
  <2>3. ASSUME NEW s \in Secrets, MoveToTrash(s)
        PROVE  TrashInv'
    <3>1. UNCHANGED <<th, trash, calm>> /\ ~trash.open
      BY <2>3 DEF MoveToTrash, panels, history
    <3> QED BY <3>1 DEF TrashInv, TrashOwned, OneReading, FoundFollows, RowsFollow,
                       LoadingIsRead, ReadsTrash, ChangesTrash
  <2>4. CASE UNCHANGED <<th, trash, secret, calm>>
    BY <2>4, TrashQuiet
  <2> QED BY <1>5, <2>1, <2>2, <2>3, <2>4
          DEF OtherStep, PickUser, PickVault, Elsewhere, tables, panels, history
<1>6. CASE UNCHANGED vars
  BY <1>6, TrashQuiet DEF vars, tables, panels, history
<1> QED BY <1>1, <1>2, <1>3, <1>4, <1>5, <1>6, NextCases

\* trash_dialog.rs: restore, delete and empty run while the list is being read, and
\* the dialog may be closed and opened again meanwhile.  When nothing is under way
\* an open dialog has left its loading page, and unless two readings overlapped or
\* the last one failed it shows exactly the trash.
THEOREM TrashIsShown == Spec => []TrashShown
<1> DEFINE Inv == DialogTypes /\ TrashInv
<1>1. Init => Inv
  <2> SUFFICES ASSUME Init PROVE Inv
    OBVIOUS
  <2>1. DialogTypes
    BY InitParts
  <2>2. PICK t \in Threads : FirstReading(t)
    BY InitParts
  <2>3. \A x \in Threads : x # t => ~ReadsTrash(th[x]) /\ ~ChangesTrash(th[x])
    BY <2>2 DEF FirstReading, Idle, ReadsTrash, ChangesTrash
  <2>4. /\ th[t].mine /\ th[t].pc = "run" /\ ~ChangesTrash(th[t])
        /\ ReadsTrash(th[t]) <=> trash.open
    BY <2>2 DEF FirstReading, ReadsTrash, ChangesTrash
  <2>5. TrashOwned /\ OneReading
    BY <2>3, <2>4 DEF TrashOwned, OneReading
  <2>6. FoundFollows /\ RowsFollow /\ LoadingIsRead
    BY <2>3, <2>4 DEF FoundFollows, RowsFollow, LoadingIsRead
  <2> QED BY <2>1, <2>5, <2>6 DEF TrashInv
<1>2. Inv /\ [Next]_vars => Inv'
  BY TypesStep, TrashInvStep
<1>3. Inv => TrashShown
  <2> SUFFICES ASSUME Inv, trash.open, Settled
               PROVE  /\ trash.panel # "loading"
                      /\ calm /\ trash.panel # "unavailable"
                           => /\ trash.rows = Trashed
                              /\ trash.panel = "list" <=> Trashed # {}
    BY DEF TrashShown
  <2>1. \A x \in Threads : ~ReadsTrash(th[x]) /\ ~ChangesTrash(th[x])
    BY DEF Settled, Free, ReadsTrash, ChangesTrash
  <2>2. ~TrashOwed
    BY <2>1 DEF TrashOwed
  <2> QED BY <2>1, <2>2 DEF TrashInv, LoadingIsRead, RowsFollow, ShowsTrash
<1> QED BY <1>1, <1>2, <1>3, PTL DEF Spec

==============================================================================
