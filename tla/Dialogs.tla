------------------------------ MODULE Dialogs ------------------------------
(***************************************************************************)
(* The panels in which an administrator works: users                       *)
(* (manage_users_dialog.rs), teams with their members and share windows    *)
(* (manage_teams_dialog.rs), and the trash (trash_dialog.rs).              *)
(*                                                                         *)
(* The users and teams panels are built once for the main window and read  *)
(* their list again only after a change of their own.  A click starts a    *)
(* thread that calls a service; the answer is applied by the main loop     *)
(* when it comes, buttons stay active meanwhile, and a closed window does  *)
(* not stop its threads (mine = FALSE: the answer reaches widgets nobody   *)
(* sees).  A service call is one step here; its interleavings are those of *)
(* Accounts, VaultSharing and SecretLifecycle.  Any call may fail without  *)
(* effect; an audit row that fails after the effect is left out.           *)
(*                                                                         *)
(* Users and vaults are numbered in the order of their names.  Lists are   *)
(* sets: the same row twice is not told from once.  Bound: the             *)
(* administrator stays at one desk during a behaviour.                     *)
(***************************************************************************)
EXTENDS Naturals, Sequences, FiniteSets, SequencesExt

CONSTANTS
    Users, Me,      \* usernames; the administrator at work
    Teams, Vaults,  \* teams; vaults Me owns or may come to own
    Secrets, First, \* secrets of Me; those of the vault resolve_current_vault finds
    Threads, None

ASSUME DialogConstants ==
    /\ Users \subseteq Nat /\ IsFiniteSet(Users) /\ Me \in Users
    /\ Vaults \subseteq Nat /\ IsFiniteSet(Vaults)
    /\ First \subseteq Secrets /\ None \notin Secrets \cup Teams

VARIABLES
    desk,       \* the panel this behaviour is about
    user,       \* table of users; a "gone" one keeps its entry in the credentials map
    perso,      \* users with a vault
    team,       \* table of teams
    member,     \* table of team members
    own,        \* live vaults of Me
    secret,     \* where each secret is
    up,         \* the users panel
    tp,         \* the teams panel
    mwin,       \* the members window
    swin,       \* the share window
    trash,      \* the trash dialog
    th,         \* threads
    halfmade,   \* history: users whose vault could not be created
    mainStale,  \* history: the main list has not been told of a restored secret
    calm        \* history: no two reads of one list were under way together and
                \* no thread outlived its window

tables  == <<user, perso, team, member, own, secret>>
panels  == <<up, tp, mwin, swin, trash>>
history == <<halfmade, mainStale, calm>>
vars    == <<desk, tables, panels, th, history>>

-----------------------------------------------------------------------------

Roles == {"user", "admin"}
Row   == [id: Users, role: Roles]

Kinds == [users |-> {"list", "relist", "toggle", "delete", "reset", "create"},
          teams |-> {"teams", "newteam", "dropteam", "members", "add", "remove",
                     "vaults", "share"},
          trash |-> {"trash", "restore", "purge", "empty"}]

\* The window a thread belongs to.
OfMembers == {"members", "add", "remove"}
OfShare   == {"vaults", "share"}
OfTrash   == Kinds.trash

Task == [kind: UNION {Kinds[d] : d \in DOMAIN Kinds} \cup {"idle"},
         pc: {"run", "vault", "ok", "err"}, mine: BOOLEAN,
         on: Teams \cup Secrets \cup {None},
         who: Users \cup Vaults \cup {None}, role: Roles,
         rows: SUBSET Row, found: SUBSET (Users \cup Teams \cup Vaults \cup Secrets),
         picks: SUBSET Users]

Idle == [kind |-> "idle", pc |-> "ok", mine |-> TRUE, on |-> None, who |-> None,
         role |-> "user", rows |-> {}, found |-> {}, picks |-> {}]

Picker(Ids) == UNION {[1 .. n -> Ids] : n \in 0 .. Cardinality(Ids)}

TypeOK ==
    /\ desk \in DOMAIN Kinds
    /\ user \in [Users -> Roles \cup {"unused", "gone"}]
    /\ perso \subseteq Users
    /\ team \in [Teams -> {"unused", "live", "gone"}]
    /\ member \in [Teams -> SUBSET Users]
    /\ own \subseteq Vaults
    /\ secret \in [Secrets -> {"live", "trash", "gone"}]
    /\ up \in [rows: SUBSET Row, last: {"list", "relist"}, err: BOOLEAN]
    /\ tp \in [rows: SUBSET Teams, err: BOOLEAN]
    /\ mwin \in [team: Teams \cup {None}, rows: SUBSET Users, ids: Picker(Users),
                 sel: 0 .. Cardinality(Users), picked: Users \cup {None}, err: BOOLEAN]
    /\ swin \in [team: Teams \cup {None}, ids: Picker(Vaults), apply: BOOLEAN,
                 sel: 0 .. Cardinality(Vaults), picked: Vaults \cup {None}]
    /\ trash \in [open: BOOLEAN, rows: SUBSET Secrets,
                  panel: {"loading", "list", "empty", "unavailable"}]
    /\ th \in [Threads -> Task]
    /\ halfmade \subseteq Users /\ mainStale \in BOOLEAN /\ calm \in BOOLEAN

Present == {u \in Users : user[u] \in Roles}
Admins  == {u \in Users : user[u] = "admin"}
Trashed == {s \in Secrets : secret[s] = "trash"}
Sorted(S) == SetToSortSeq(S, <)

MWin(tm) == [team |-> tm, rows |-> {}, ids |-> <<>>, sel |-> 0, picked |-> None, err |-> FALSE]
SWin(tm) == [team |-> tm, ids |-> <<>>, apply |-> TRUE, sel |-> 0, picked |-> None]

\* A thread starts; a read that starts while one of the same list is under way
\* ends the calm.
Start(t, task) == th' = [th EXCEPT ![t] = task]
Free(t)        == th[t].kind = "idle"
Done(t)        == th[t].pc \in {"ok", "err"} /\ ~Free(t)
Call(kind, on, who, role) ==
    [Idle EXCEPT !.kind = kind, !.pc = "run", !.on = on, !.who = who, !.role = role]
Read(kind, on) == Call(kind, on, None, "user")
Reading(t, kind) == \E x \in Threads \ {t} : th[x].kind = kind /\ th[x].mine
Calm(t, kind)    == calm' = (calm /\ ~Reading(t, kind))

Init ==
    \E d \in DOMAIN Kinds, t \in Threads, r \in [Users \ {Me} -> {"unused", "user", "admin"}],
       tms \in SUBSET Teams, vs \in SUBSET Vaults, sec \in [Secrets -> {"live", "trash"}] :
    /\ d # "teams" => tms = {} /\ vs = {}
    /\ d = "trash" => r = [u \in Users \ {Me} |-> "unused"]
    /\ d # "trash" => sec = [s \in Secrets |-> "live"]
    /\ desk = d
    /\ user = [u \in Users |-> IF u = Me THEN "admin" ELSE r[u]]
    /\ perso = Present
    /\ team = [tm \in Teams |-> IF tm \in tms THEN "live" ELSE "unused"]
    /\ member = [tm \in Teams |-> IF tm \in tms THEN {Me} ELSE {}]
    /\ own = vs
    /\ secret = sec
    /\ up = [rows |-> {}, last |-> "list", err |-> FALSE]
    /\ tp = [rows |-> {}, err |-> FALSE]
    /\ mwin = MWin(None)
    /\ swin = SWin(None)
    /\ trash = [open |-> d = "trash", rows |-> {}, panel |-> "loading"]
    /\ th = [x \in Threads |->
               IF x # t THEN Idle
               ELSE Read(CASE d = "users" -> "list" [] d = "teams" -> "teams" [] OTHER -> "trash", None)]
    /\ halfmade = {} /\ mainStale = FALSE /\ calm = TRUE

-----------------------------------------------------------------------------
(* Users panel: manage_users_dialog.rs                                     *)

\* Mutant: the rows that were read are dropped, as after a toggle.
refresh_users_RowsDropped(t) ==
    /\ Start(t, Read("relist", None))
    /\ up' = [rows |-> {}, last |-> "list", err |-> FALSE]
    /\ Calm(t, "list")

\* refresh: the list is emptied at once, its rows come with the answer.
refresh_users(t) ==
    /\ Start(t, Read("list", None))
    /\ up' = [rows |-> {}, last |-> "list", err |-> FALSE]
    /\ Calm(t, "list")

\* refresh_toggle of a row: the list is emptied and read, the rows read are dropped.
refresh_toggle(t) ==
    /\ Start(t, Read("relist", None))
    /\ up' = [rows |-> {}, last |-> "relist", err |-> FALSE]
    /\ UNCHANGED calm

OnRow(t, kind, row, role) ==
    /\ desk = "users" /\ Free(t) /\ row \in up.rows
    /\ Start(t, Call(kind, None, row.id, role))
    /\ UNCHANGED <<desk, tables, panels, history>>

\* The role the toggle will set is the one its label announced when the row was
\* built; a deletion has been confirmed, a reset has a password that is not blank.
ClickToggle(t, row)   == OnRow(t, "toggle", row, CHOOSE r \in Roles : r # row.role)
ConfirmDelete(t, row) == OnRow(t, "delete", row, "user")
ApplyReset(t, row)    == OnRow(t, "reset", row, "user")

\* The create window: any name may be typed, the button stays active.
ClickCreateUser(t, u, r) ==
    /\ desk = "users" /\ Free(t)
    /\ Start(t, Call("create", None, u, r))
    /\ UNCHANGED <<desk, tables, panels, history>>

\* The last administrator is neither deleted nor demoted.
LastAdmin(u) == Admins = {u}

\* admin_service: every call first checks that Me is still an administrator.
\* Whoever deletes their own account is told it failed: the audit row refers to
\* an actor that no longer exists.
ServeUsers(t) ==
    LET k == th[t]
        ends(pc) == th' = [th EXCEPT ![t].pc = pc]
    IN  /\ k.kind \in Kinds.users /\ k.pc = "run"
        /\ \/ /\ k.kind \in {"list", "relist"} /\ Me \in Admins
              /\ th' = [th EXCEPT ![t].pc = "ok",
                                  ![t].rows = {[id |-> u, role |-> user[u]] : u \in Present}]
              /\ UNCHANGED <<user, perso, member>>
           \/ /\ k.kind = "toggle" /\ Me \in Admins /\ k.who \in Present
              /\ ~(k.role = "user" /\ LastAdmin(k.who))
              /\ user' = [user EXCEPT ![k.who] = k.role]
              /\ ends("ok")
              /\ UNCHANGED <<perso, member>>
           \/ /\ k.kind = "delete" /\ Me \in Admins /\ k.who \in Present /\ ~LastAdmin(k.who)
              /\ user' = [user EXCEPT ![k.who] = "gone"]
              /\ perso' = perso \ {k.who}
              /\ member' = [tm \in Teams |-> member[tm] \ {k.who}]
              /\ ends(IF k.who = Me THEN "err" ELSE "ok")
           \/ /\ k.kind = "reset" /\ Me \in Admins /\ k.who \in Present
              /\ ends("ok")
              /\ UNCHANGED <<user, perso, member>>
           \/ /\ k.kind = "create" /\ Me \in Admins /\ user[k.who] = "unused"
              /\ user' = [user EXCEPT ![k.who] = k.role]
              /\ ends("vault")
              /\ UNCHANGED <<perso, member>>
           \/ /\ ends("err")
              /\ UNCHANGED <<user, perso, member>>
        /\ UNCHANGED <<desk, team, own, secret, panels, history>>

\* Mutant: the owner is not looked up again before the vault is written.
CreatePerso_OwnerAssumed(t) ==
    /\ th[t].pc = "vault"
    /\ perso' = perso \cup {th[t].who}
    /\ th' = [th EXCEPT ![t].pc = "ok"]
    /\ UNCHANGED <<desk, user, team, member, own, secret, panels, history>>

\* The second half of the creation: the vault "perso", for an owner who must
\* still be there.
CreatePerso(t) ==
    /\ th[t].pc = "vault"
    /\ \/ /\ th[t].who \in Present
          /\ perso' = perso \cup {th[t].who}
          /\ th' = [th EXCEPT ![t].pc = "ok"]
          /\ UNCHANGED halfmade
       \/ /\ th' = [th EXCEPT ![t].pc = "err"]
          /\ halfmade' = halfmade \cup {th[t].who}
          /\ UNCHANGED perso
    /\ UNCHANGED <<desk, user, team, member, own, secret, panels, mainStale, calm>>

\* An error opens a message and changes nothing.
UsersAnswer(t) ==
    /\ Done(t) /\ th[t].kind \in Kinds.users
    /\ \/ /\ th[t].kind = "list" /\ th[t].pc = "ok"
          /\ up' = [up EXCEPT !.rows = @ \cup th[t].rows]
          /\ Start(t, Idle) /\ UNCHANGED calm
       \/ /\ th[t].kind \in {"list", "relist"} /\ th[t].pc = "err"
          /\ up' = [up EXCEPT !.err = TRUE]
          /\ Start(t, Idle) /\ UNCHANGED calm
       \/ th[t].kind \in {"toggle", "delete"} /\ th[t].pc = "ok" /\ refresh_toggle(t)
       \/ th[t].kind = "create" /\ th[t].pc = "ok" /\ refresh_users(t)
       \/ /\ \/ th[t].kind \in {"relist", "reset"} /\ th[t].pc = "ok"
             \/ th[t].kind \in {"toggle", "delete", "reset", "create"} /\ th[t].pc = "err"
          /\ Start(t, Idle) /\ UNCHANGED <<up, calm>>
    /\ UNCHANGED <<desk, tables, tp, mwin, swin, trash, halfmade, mainStale>>

-----------------------------------------------------------------------------
(* Teams panel: manage_teams_dialog.rs.  Its windows are modal.            *)

NoWindow == mwin.team = None /\ swin.team = None

refresh_teams(t) ==
    /\ Start(t, Read("teams", None))
    /\ tp' = [rows |-> {}, err |-> FALSE]
    /\ Calm(t, "teams")

refresh_members(t, tm) ==
    /\ Start(t, Read("members", tm))
    /\ mwin' = [mwin EXCEPT !.rows = {}, !.err = FALSE]
    /\ Calm(t, "members")

ClickCreateTeam(t, tm) ==
    /\ desk = "teams" /\ NoWindow /\ Free(t)
    /\ Start(t, Read("newteam", tm))
    /\ UNCHANGED <<desk, tables, panels, history>>

ConfirmDropTeam(t, tm) ==
    /\ desk = "teams" /\ NoWindow /\ Free(t) /\ tm \in tp.rows
    /\ Start(t, Read("dropteam", tm))
    /\ UNCHANGED <<desk, tables, panels, history>>

\* The members window of a row: built, read and shown.
OpenMembers(t, tm) ==
    /\ desk = "teams" /\ NoWindow /\ Free(t) /\ tm \in tp.rows
    /\ mwin' = MWin(tm)
    /\ Start(t, Read("members", tm))
    /\ UNCHANGED <<desk, tables, up, tp, swin, trash, history>>

\* The name shown at the chosen position is what the user asks for.
PickUser(i) ==
    /\ mwin.team # None /\ i \in 1 .. Len(mwin.ids)
    /\ mwin' = [mwin EXCEPT !.sel = i, !.picked = mwin.ids[i]]
    /\ UNCHANGED <<desk, tables, up, tp, swin, trash, th, history>>

ClickAdd(t) ==
    /\ mwin.team # None /\ Free(t)
    /\ mwin.sel # 0 /\ mwin.sel <= Len(mwin.ids)
    /\ Start(t, Call("add", mwin.team, mwin.ids[mwin.sel], "user"))
    /\ UNCHANGED <<desk, tables, panels, history>>

ClickRemove(t, u) ==
    /\ mwin.team # None /\ Free(t) /\ u \in mwin.rows
    /\ Start(t, Call("remove", mwin.team, u, "user"))
    /\ UNCHANGED <<desk, tables, panels, history>>

\* The share window of a row: the vaults are listed once.
OpenShare(t, tm) ==
    /\ desk = "teams" /\ NoWindow /\ Free(t) /\ tm \in tp.rows
    /\ swin' = SWin(tm)
    /\ Start(t, Read("vaults", tm))
    /\ UNCHANGED <<desk, tables, up, tp, mwin, trash, history>>

PickVault(i) ==
    /\ swin.team # None /\ i \in 1 .. Len(swin.ids)
    /\ swin' = [swin EXCEPT !.sel = i, !.picked = swin.ids[i]]
    /\ UNCHANGED <<desk, tables, up, tp, mwin, trash, th, history>>

ClickShare(t) ==
    /\ swin.team # None /\ swin.apply /\ Free(t)
    /\ swin.sel # 0 /\ swin.sel <= Len(swin.ids)
    /\ Start(t, Call("share", swin.team, swin.ids[swin.sel], "user"))
    /\ UNCHANGED <<desk, tables, panels, history>>

\* A window closes; its threads go on without it.
Orphaned(kinds) ==
    [x \in Threads |-> IF th[x].kind \in kinds THEN [th[x] EXCEPT !.mine = FALSE] ELSE th[x]]

CloseWindow ==
    /\ ~NoWindow
    /\ mwin' = MWin(None) /\ swin' = SWin(None)
    /\ th' = Orphaned(OfMembers \cup OfShare)
    /\ calm' = (calm /\ th' = th)
    /\ UNCHANGED <<desk, tables, up, tp, trash, halfmade, mainStale>>

\* team_service, for an administrator: the team is looked up only by delete
\* and share; the members of a deleted team are an empty list.
ServeTeams(t) ==
    LET k == th[t]
        ends(pc) == th' = [th EXCEPT ![t].pc = pc]
        finds(found, picks) ==
            th' = [th EXCEPT ![t].pc = "ok", ![t].found = found, ![t].picks = picks]
    IN  /\ k.kind \in Kinds.teams /\ k.pc = "run"
        /\ \/ k.kind = "teams" /\ finds({tm \in Teams : team[tm] = "live"}, {}) /\ UNCHANGED <<team, member>>
           \/ k.kind = "members" /\ finds(member[k.on], Present) /\ UNCHANGED <<team, member>>
           \/ k.kind = "vaults" /\ finds(own, {}) /\ UNCHANGED <<team, member>>
           \/ /\ k.kind = "newteam" /\ team[k.on] = "unused"
              /\ team' = [team EXCEPT ![k.on] = "live"]
              /\ member' = [member EXCEPT ![k.on] = {Me}]
              /\ ends("ok")
           \/ /\ k.kind = "dropteam" /\ team[k.on] = "live"
              /\ team' = [team EXCEPT ![k.on] = "gone"]
              /\ member' = [member EXCEPT ![k.on] = {}]
              /\ ends("ok")
           \/ /\ k.kind = "add" /\ team[k.on] = "live" /\ k.who \in Present
              /\ member' = [member EXCEPT ![k.on] = @ \cup {k.who}]
              /\ ends("ok") /\ UNCHANGED team
           \/ /\ k.kind = "remove" /\ k.who \in member[k.on]
              /\ member' = [member EXCEPT ![k.on] = @ \ {k.who}]
              /\ ends("ok") /\ UNCHANGED team
           \/ /\ k.kind = "share" /\ k.who \in own /\ team[k.on] = "live" /\ member[k.on] # {}
              /\ ends("ok") /\ UNCHANGED <<team, member>>
           \/ ends("err") /\ UNCHANGED <<team, member>>
        /\ UNCHANGED <<desk, user, perso, own, secret, panels, history>>

TeamsAnswer(t) ==
    /\ Done(t) /\ th[t].kind \in {"teams", "newteam", "dropteam"}
    /\ \/ /\ th[t].kind = "teams"
          /\ tp' = IF th[t].pc = "ok" THEN [tp EXCEPT !.rows = @ \cup th[t].found]
                                     ELSE [tp EXCEPT !.err = TRUE]
          /\ Start(t, Idle) /\ UNCHANGED calm
       \/ th[t].kind # "teams" /\ th[t].pc = "ok" /\ refresh_teams(t)
       \/ th[t].kind # "teams" /\ th[t].pc = "err" /\ Start(t, Idle) /\ UNCHANGED <<tp, calm>>
    /\ UNCHANGED <<desk, tables, up, mwin, swin, trash, halfmade, mainStale>>

\* Mutant: the picker is rebuilt and keeps its position.
MembersShow_SelKept(w, k) ==
    [w EXCEPT !.rows = @ \cup k.found, !.ids = Sorted(k.picks)]

\* Rows are added, the picker is rebuilt and points at its placeholder again.
MembersShow(w, k) ==
    [w EXCEPT !.rows = @ \cup k.found, !.ids = Sorted(k.picks), !.sel = 0, !.picked = None]

MembersAnswer(t) ==
    /\ Done(t) /\ th[t].kind \in OfMembers /\ th[t].mine
    /\ \/ /\ th[t].kind = "members"
          /\ mwin' = IF th[t].pc = "ok" THEN MembersShow(mwin, th[t])
                                       ELSE [mwin EXCEPT !.err = TRUE]
          /\ Start(t, Idle) /\ UNCHANGED calm
       \/ th[t].kind # "members" /\ th[t].pc = "ok" /\ refresh_members(t, th[t].on)
       \/ th[t].kind # "members" /\ th[t].pc = "err" /\ Start(t, Idle) /\ UNCHANGED <<mwin, calm>>
    /\ UNCHANGED <<desk, tables, up, tp, swin, trash, halfmade, mainStale>>

\* Without vaults, or without an answer, the button is disabled; a share closes
\* the window.
ShareAnswer(t) ==
    /\ Done(t) /\ th[t].kind \in OfShare /\ th[t].mine
    /\ \/ /\ th[t].kind = "vaults" /\ th[t].pc = "ok" /\ th[t].found # {}
          /\ swin' = [swin EXCEPT !.ids = Sorted(th[t].found), !.sel = 0, !.picked = None]
       \/ /\ th[t].kind = "vaults" /\ (th[t].pc = "err" \/ th[t].found = {})
          /\ swin' = [swin EXCEPT !.apply = FALSE]
       \/ th[t].kind = "share" /\ th[t].pc = "ok" /\ swin' = SWin(None)
       \/ th[t].kind = "share" /\ th[t].pc = "err" /\ UNCHANGED swin
    /\ th' = IF swin'.team = None
                THEN [Orphaned(OfShare) EXCEPT ![t] = Idle]
                ELSE [th EXCEPT ![t] = Idle]
    /\ UNCHANGED <<desk, tables, up, tp, mwin, trash, history>>

\* A deletion begun in the users panel, a vault deleted or restored: the lists
\* of the windows are not read again.
Elsewhere ==
    /\ desk = "teams"
    /\ \/ \E u \in Present \ {Me} :
             /\ user' = [user EXCEPT ![u] = "gone"]
             /\ perso' = perso \ {u}
             /\ member' = [tm \in Teams |-> member[tm] \ {u}]
             /\ UNCHANGED own
       \/ /\ \E v \in own : own' = own \ {v}
          /\ UNCHANGED <<user, perso, member>>
    /\ UNCHANGED <<desk, team, secret, panels, th, history>>

-----------------------------------------------------------------------------
(* Trash dialog: trash_dialog.rs                                           *)

\* A press of the trash button builds a new dialog.
OpenTrash(t) ==
    /\ desk = "trash" /\ ~trash.open /\ Free(t)
    /\ trash' = [open |-> TRUE, rows |-> {}, panel |-> "loading"]
    /\ Start(t, Read("trash", None))
    /\ UNCHANGED <<desk, tables, up, tp, mwin, swin, history>>

CloseTrash ==
    /\ trash.open
    /\ trash' = [trash EXCEPT !.open = FALSE]
    /\ th' = Orphaned(OfTrash)
    /\ calm' = (calm /\ th' = th)
    /\ UNCHANGED <<desk, tables, up, tp, mwin, swin, halfmade, mainStale>>

OnTrash(t, kind, s) ==
    /\ desk = "trash" /\ trash.open /\ Free(t)
    /\ s # None => trash.panel = "list" /\ s \in trash.rows
    /\ Start(t, Read(kind, s))
    /\ UNCHANGED <<desk, tables, panels, history>>

\* Restore and delete of a row, empty: the two last ones are confirmed first.
ClickRestore(t, s) == OnTrash(t, "restore", s)
ConfirmPurge(t, s) == OnTrash(t, "purge", s)
ConfirmEmpty(t)    == OnTrash(t, "empty", None)

\* A secret goes to the trash from the main list, which the dialog covers.
MoveToTrash(s) ==
    /\ desk = "trash" /\ ~trash.open /\ secret[s] = "live"
    /\ secret' = [secret EXCEPT ![s] = "trash"]
    /\ UNCHANGED <<desk, user, perso, team, member, own, panels, th, history>>

\* secret_service: only rows that are in the trash are changed.  Empty works
\* on the vault resolve_current_vault finds.
ServeTrash(t) ==
    LET k == th[t]
        ends(pc) == th' = [th EXCEPT ![t].pc = pc]
    IN  /\ k.kind \in Kinds.trash /\ k.pc = "run"
        /\ \/ /\ k.kind = "trash"
              /\ th' = [th EXCEPT ![t].pc = "ok", ![t].found = Trashed]
              /\ UNCHANGED <<secret, mainStale>>
           \/ /\ k.kind = "restore" /\ k.on \in Trashed
              /\ secret' = [secret EXCEPT ![k.on] = "live"]
              /\ mainStale' = TRUE /\ ends("ok")
           \/ /\ k.kind = "purge" /\ k.on \in Trashed
              /\ secret' = [secret EXCEPT ![k.on] = "gone"]
              /\ ends("ok") /\ UNCHANGED mainStale
           \/ /\ k.kind = "empty"
              /\ secret' = [s \in Secrets |-> IF s \in First \cap Trashed THEN "gone" ELSE secret[s]]
              /\ ends("ok") /\ UNCHANGED mainStale
           \/ ends("err") /\ UNCHANGED <<secret, mainStale>>
        /\ UNCHANGED <<desk, user, perso, team, member, own, panels, halfmade, calm>>

\* refresh_trash_list: the list stays behind the loading page until the answer.
refresh_trash_list(t) ==
    /\ Start(t, Read("trash", None))
    /\ trash' = [trash EXCEPT !.panel = "loading"]
    /\ Calm(t, "trash")

\* Mutant: an error is left without an answer.
TrashAnswer_ErrorIgnored(t) ==
    /\ Done(t) /\ th[t].kind = "trash" /\ th[t].mine
    /\ IF th[t].pc = "err" THEN UNCHANGED trash
       ELSE trash' = [trash EXCEPT !.rows = th[t].found,
                                   !.panel = IF th[t].found = {} THEN "empty" ELSE "list"]
    /\ Start(t, Idle)
    /\ UNCHANGED <<desk, tables, up, tp, mwin, swin, history>>

\* The rows of the answer replace the former ones; an error keeps them, hidden.
TrashAnswer(t) ==
    /\ Done(t) /\ th[t].kind = "trash" /\ th[t].mine
    /\ trash' = IF th[t].pc = "err" THEN [trash EXCEPT !.panel = "unavailable"]
                ELSE [trash EXCEPT !.rows = th[t].found,
                                   !.panel = IF th[t].found = {} THEN "empty" ELSE "list"]
    /\ Start(t, Idle)
    /\ UNCHANGED <<desk, tables, up, tp, mwin, swin, history>>

\* Mutant: once the dialog is closed nobody is told.
TrashChanged_ClosedIgnored(t) ==
    /\ Done(t) /\ th[t].kind \in {"restore", "purge", "empty"}
    /\ IF th[t].pc = "ok" /\ th[t].mine
         THEN mainStale' = FALSE /\ refresh_trash_list(t)
         ELSE Start(t, Idle) /\ UNCHANGED <<trash, calm, mainStale>>
    /\ UNCHANGED <<desk, tables, up, tp, mwin, swin, halfmade>>

\* A success refreshes the main list and reads the trash again, also when the
\* dialog has been closed; an error is silent.
TrashChanged(t) ==
    /\ Done(t) /\ th[t].kind \in {"restore", "purge", "empty"}
    /\ \/ /\ th[t].pc = "ok"
          /\ mainStale' = FALSE
          /\ IF th[t].mine THEN refresh_trash_list(t)
                            ELSE Start(t, Idle) /\ UNCHANGED <<trash, calm>>
       \/ /\ th[t].pc = "err" /\ Start(t, Idle)
          /\ UNCHANGED <<trash, calm, mainStale>>
    /\ UNCHANGED <<desk, tables, up, tp, mwin, swin, halfmade>>

\* The answer to a thread of a closed window reaches no widget that is shown.
LostAnswer(t) ==
    /\ Done(t) /\ ~th[t].mine /\ th[t].kind \in OfMembers \cup OfShare \cup {"trash"}
    /\ Start(t, Idle)
    /\ UNCHANGED <<desk, tables, panels, history>>

-----------------------------------------------------------------------------

Click(t) ==
    \/ \E row \in Row : ClickToggle(t, row) \/ ConfirmDelete(t, row) \/ ApplyReset(t, row)
    \/ \E u \in Users, r \in Roles : ClickCreateUser(t, u, r)
    \/ \E tm \in Teams : ClickCreateTeam(t, tm) \/ ConfirmDropTeam(t, tm)
    \/ \E tm \in Teams : OpenMembers(t, tm) \/ OpenShare(t, tm)
    \/ ClickAdd(t)
    \/ \E u \in Users : ClickRemove(t, u)
    \/ ClickShare(t)
    \/ OpenTrash(t)
    \/ \E s \in Secrets : ClickRestore(t, s) \/ ConfirmPurge(t, s)
    \/ ConfirmEmpty(t)

Service(t) ==
    \/ ServeUsers(t)
    \/ CreatePerso(t)
    \/ ServeTeams(t)
    \/ ServeTrash(t)

Answer(t) ==
    \/ UsersAnswer(t)
    \/ TeamsAnswer(t)
    \/ MembersAnswer(t)
    \/ ShareAnswer(t)
    \/ TrashAnswer(t)
    \/ TrashChanged(t)
    \/ LostAnswer(t)

Next ==
    \/ \E t \in Threads : Click(t) \/ Service(t) \/ Answer(t)
    \/ \E i \in 1 .. Cardinality(Users) : PickUser(i)
    \/ \E i \in 1 .. Cardinality(Vaults) : PickVault(i)
    \/ CloseWindow
    \/ CloseTrash
    \/ Elsewhere
    \/ \E s \in Secrets : MoveToTrash(s)

Spec == Init /\ [][Next]_vars

-----------------------------------------------------------------------------

Settled == \A t \in Threads : Free(t)

(* Creating a user is two calls, of two services, and the user can be        *)
(* deleted between them.  Once the thread is done, a user has a vault unless *)
(* the second call reported an error, and no vault is left without its owner.*)
VaultForEachUser ==
    /\ perso \subseteq Present
    /\ \A u \in Present \ (perso \cup halfmade) :
          \E t \in Threads : th[t].kind = "create" /\ th[t].who = u /\ th[t].pc = "vault"

(* The users and teams panels add the rows of an answer to what an earlier   *)
(* answer has already added, and never read again by themselves.  Still,     *)
(* when nothing is under way and no read has failed, no user, team or member *)
(* is missing.  Of users this is said after the full refresh only, and but   *)
(* for those whose creation failed half-way; of members, when no two calls   *)
(* overlapped.  It does not say that no row is doubled or out of date.       *)
NothingHidden ==
    Settled =>
      /\ desk = "users" /\ up.last = "list" /\ ~up.err
           => Present \ halfmade \subseteq {row.id : row \in up.rows}
      /\ desk = "teams" /\ ~tp.err
           => {tm \in Teams : team[tm] = "live"} \subseteq tp.rows
      /\ mwin.team # None /\ ~mwin.err /\ calm
           => member[mwin.team] \subseteq mwin.rows

(* A picker is a position in one list, the identifier is taken from another, *)
(* and both are replaced by late answers.  What is added or shared is what   *)
(* the user has seen selected.                                               *)
PickIsTaken ==
    /\ mwin.sel # 0 => mwin.sel <= Len(mwin.ids) /\ mwin.ids[mwin.sel] = mwin.picked
    /\ swin.sel # 0 => swin.sel <= Len(swin.ids) /\ swin.ids[swin.sel] = swin.picked

(* The trash dialog never stays on its loading page, and when no two reads   *)
(* overlapped it shows exactly the trash.                                    *)
TrashShown ==
    desk = "trash" /\ trash.open /\ Settled =>
      /\ trash.panel # "loading"
      /\ calm /\ trash.panel # "unavailable"
           => /\ trash.rows = Trashed
              /\ trash.panel = "list" <=> Trashed # {}

(* A restored secret reaches the main list: it is read again after every     *)
(* restore, whether or not the dialog is still open.                         *)
MainListFollows == Settled => ~mainStale

=============================================================================
