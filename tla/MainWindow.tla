----------------------------- MODULE MainWindow -----------------------------
(***************************************************************************)
(* The main window of a session: the sidebar of vaults, the list of        *)
(* secrets, the automatic lock and the return to the login dialog          *)
(* (ui/windows/main_window, and the success callback of main.rs).          *)
(*                                                                         *)
(* Every list is loaded by a thread whose answer is applied by the main    *)
(* loop.  Nothing cancels a thread and nothing numbers the answers, so     *)
(* they are applied in any order, and after the session has ended too.     *)
(* The tables are those of one user: vaults of their own, vaults others    *)
(* share with them (role admin) and at most one secret of each name.       *)
(* Vaults are numbered in the order of their names.                        *)
(*                                                                         *)
(* Sessions follow each other.  A thread that outlives its window has      *)
(* mine = FALSE: it still writes to the tables, its answer goes to widgets *)
(* nobody sees again, which are not part of the model.  Bounds: one        *)
(* request about the lock delay is under way at a time, and the user waits *)
(* for its answer before using the lists, and the other way; MaxSessions,  *)
(* MaxChanges.                                                             *)
(***************************************************************************)
EXTENDS Naturals, FiniteSets, FiniteSetsExt

CONSTANTS
    Own,          \* ids of vaults the user may own
    Foreign,      \* ids of vaults of other users
    Secrets, Home,\* secrets and the vault each belongs to
    Threads, None,
    Delays,       \* lock delays in minutes; 0 is never
    DefaultDelay,
    MaxSessions, MaxChanges

Vaults == Own \cup Foreign

ASSUME WindowConstants ==
    /\ Vaults \subseteq Nat /\ IsFiniteSet(Vaults) /\ Own \cap Foreign = {}
    /\ Home \in [Secrets -> Vaults]
    /\ None \notin Vaults \cup Secrets
    /\ Delays \subseteq Nat /\ {0, DefaultDelay} \subseteq Delays /\ DefaultDelay # 0
    /\ MaxSessions \in Nat /\ MaxChanges \in Nat

VARIABLES
    vault,      \* table of vaults: unused, live (and accessible) or gone
    live,       \* secrets that are in their vault's list
    stored,     \* lock delay of the user in auth_policy
    win,        \* the window of the session
    th,         \* loading and working threads
    dl,         \* the request about the lock delay
    sessions,   \* sessions begun
    changes,    \* changes of the delay begun
    made,       \* history: default vaults this window has created
    clean       \* history: in this session no two loads of the list were under
                \* way together, nobody else wrote, the sidebar never failed

tables  == <<vault, live, stored>>
history == <<made, clean>>
vars    == <<tables, win, th, dl, sessions, changes, history>>

-----------------------------------------------------------------------------

Window == [open: BOOLEAN,                  \* visible, and the master key is set
           active: Vaults \cup {None},     \* active_vault_id
           rows: SUBSET Vaults,            \* rows of the sidebar
           cards: SUBSET Secrets, shows: Vaults \cup {None},
           page: {"loading", "list", "message"},
           creating: BOOLEAN,              \* default_vault_creation_in_progress
           delay: Delays, armed: BOOLEAN, timer: Delays]

Task == [kind: {"idle", "sidebar", "secrets", "save", "trash", "drop"},
         pc: {"run", "read", "create", "ok", "gone", "none", "err"},
         mine: BOOLEAN, create: BOOLEAN, arg: Vaults \cup Secrets \cup {None},
         found: SUBSET Vaults, cards: SUBSET Secrets]

DelayTask == [pc: {"idle", "read", "write", "ok"}, mine: BOOLEAN, mins: Delays]

TypeOK ==
    /\ vault \in [Vaults -> {"unused", "live", "gone"}]
    /\ live \subseteq Secrets
    /\ stored \in Delays
    /\ win \in Window
    /\ th \in [Threads -> Task]
    /\ dl \in DelayTask
    /\ sessions \in 0..MaxSessions /\ changes \in 0..MaxChanges
    /\ made \subseteq Own
    /\ clean \in BOOLEAN

NoTask   == [kind |-> "idle", pc |-> "run", mine |-> FALSE, create |-> FALSE, arg |-> None,
             found |-> {}, cards |-> {}]
NoDelay  == [pc |-> "idle", mine |-> FALSE, mins |-> 0]
Closed   == [open |-> FALSE, active |-> None, rows |-> {}, cards |-> {}, shows |-> None,
             page |-> "message", creating |-> FALSE, delay |-> DefaultDelay,
             armed |-> FALSE, timer |-> 0]

Accessible == {v \in Vaults : vault[v] = "live"}
First(S)   == IF S = {} THEN None ELSE Min(S)

Idle(t)    == th[t].kind = "idle"
Free(t)    == win.open /\ Idle(t) /\ dl.pc = "idle"

\* Before the first login: an account with or without a vault of its own.
Init ==
    /\ \E first \in {"unused", "live"} :
          vault = [v \in Vaults |-> IF v \in Foreign THEN "live"
                                   ELSE IF v = Min(Own) THEN first ELSE "unused"]
    /\ live = {s \in Secrets : vault[Home[s]] = "live"}
    /\ stored = DefaultDelay
    /\ win = Closed
    /\ th = [t \in Threads |-> NoTask]
    /\ dl = NoDelay
    /\ sessions = 0 /\ changes = 0
    /\ made = {} /\ clean = TRUE

-----------------------------------------------------------------------------
(* The automatic lock: auto_lock.rs.                                       *)

\* A new timer replaces the one that runs; none is started unless armed.
reset_auto_lock_timer(w) ==
    IF ~w.armed \/ ~w.open \/ w.delay = 0 THEN w ELSE [w EXCEPT !.timer = w.delay]

activate_auto_lock(w) ==
    IF w.delay = 0 THEN [w EXCEPT !.armed = FALSE]
    ELSE reset_auto_lock_timer([w EXCEPT !.armed = TRUE])

deactivate_auto_lock(w) == [w EXCEPT !.armed = FALSE, !.timer = 0]

\* Mutant: a running timer is left with the delay it was started with.
set_auto_lock_timeout_NoReset(w, mins) ==
    IF mins = 0 THEN deactivate_auto_lock([w EXCEPT !.delay = 0])
    ELSE [w EXCEPT !.delay = mins]

set_auto_lock_timeout(w, mins) ==
    IF mins = 0 THEN deactivate_auto_lock([w EXCEPT !.delay = 0])
    ELSE reset_auto_lock_timer([w EXCEPT !.delay = mins])

\* The key is wiped and the cards are removed.
clear_sensitive_session(w) ==
    [deactivate_auto_lock(w) EXCEPT !.open = FALSE, !.cards = {}]

-----------------------------------------------------------------------------
(* Threads.                                                                *)

Start(t, kind, arg, create) ==
    [th EXCEPT ![t] = [NoTask EXCEPT !.kind = kind, !.mine = TRUE, !.arg = arg,
                                     !.create = create]]

\* What remains of a thread once the main loop has taken its answer.
Ended(t) == [th EXCEPT ![t] = NoTask]

\* refresh_secret_flow, from the click to the start of the thread.  The cards
\* are only hidden, but nothing shows them again before they are replaced.
refresh_secret_flow(t, w, threads) ==
    /\ win' = [w EXCEPT !.page = "loading", !.cards = {}, !.shows = None]
    /\ th' = [threads EXCEPT ![t] = [NoTask EXCEPT !.kind = "secrets", !.mine = TRUE,
                                                   !.arg = w.active]]
    /\ clean' = (clean /\ \A q \in Threads : threads[q].kind # "secrets")

\* refresh_vault_sections, from the call to the start of the thread.
refresh_vault_sections(t, w, threads) ==
    /\ win' = [w EXCEPT !.rows = {}, !.creating = TRUE]
    /\ th' = [threads EXCEPT ![t] = [NoTask EXCEPT !.kind = "sidebar", !.mine = TRUE,
                                                   !.create = ~w.creating]]

\* The session begins: main.rs, on_success of the login dialog.
LoginSucceeds(t) ==
    /\ ~win.open /\ Idle(t) /\ dl.pc = "idle" /\ sessions < MaxSessions
    /\ sessions' = sessions + 1
    /\ refresh_vault_sections(t, activate_auto_lock([Closed EXCEPT !.open = TRUE]), th)
    /\ dl' = [NoDelay EXCEPT !.pc = "read", !.mine = TRUE]
    /\ made' = {} /\ clean' = TRUE
    /\ UNCHANGED <<tables, changes>>

\* The session ends.  The threads that run are not told; those that will still
\* write to the tables stay in the model, without a window.
Writes(task) ==
    \/ task.kind \in {"save", "trash", "drop"} /\ task.pc = "run"
    \/ task.kind = "sidebar" /\ (task.pc = "create" \/ (task.pc = "run" /\ task.create))

EndSession ==
    /\ win' = LET w == clear_sensitive_session(win) IN
               [Closed EXCEPT !.open = w.open, !.cards = w.cards, !.delay = w.delay,
                              !.armed = w.armed, !.timer = w.timer]
    /\ th' = [t \in Threads |-> IF Writes(th[t]) THEN [th[t] EXCEPT !.mine = FALSE]
                                                 ELSE NoTask]
    /\ dl' = IF dl.pc = "write" THEN [dl EXCEPT !.mine = FALSE] ELSE NoDelay
    /\ UNCHANGED <<tables, sessions, changes, history>>

\* The logout button, or the window is closed.
trigger_logout == win.open /\ EndSession

AutoLockFires == win.timer # 0 /\ win.armed /\ EndSession

-----------------------------------------------------------------------------
(* The lock delay: read once after the login, changed on the profile page. *)

ReadDelay ==
    /\ dl.pc = "read"
    /\ \/ dl' = [dl EXCEPT !.pc = "ok", !.mins = stored]
       \/ dl' = NoDelay
    /\ UNCHANGED <<tables, win, th, sessions, changes, history>>

ChangeDelay(mins) ==
    /\ win.open /\ dl.pc = "idle" /\ changes < MaxChanges
    /\ \A t \in Threads : Idle(t)
    /\ changes' = changes + 1
    /\ dl' = [pc |-> "write", mine |-> TRUE, mins |-> mins]
    /\ UNCHANGED <<tables, win, th, sessions, history>>

update_auto_lock_delay ==
    /\ dl.pc = "write"
    /\ \/ stored' = dl.mins /\ dl' = IF dl.mine THEN [dl EXCEPT !.pc = "ok"] ELSE NoDelay
       \/ dl' = NoDelay /\ UNCHANGED stored
    /\ UNCHANGED <<vault, live, win, th, sessions, changes, history>>

DelayAnswer ==
    /\ dl.pc = "ok"
    /\ dl' = NoDelay
    /\ win' = set_auto_lock_timeout(win, dl.mins)
    /\ UNCHANGED <<tables, th, sessions, changes, history>>

-----------------------------------------------------------------------------
(* The sidebar.                                                            *)

Finished(t, pc) == IF th[t].mine THEN [th EXCEPT ![t].pc = pc] ELSE Ended(t)
Listed(t, found) ==
    IF th[t].mine THEN [th EXCEPT ![t].pc = "ok", ![t].found = found] ELSE Ended(t)

\* The thread lists the user's vaults; without any it creates one, if it may.
\* Mutant: every thread may.
SidebarList_AlwaysCreates(t) ==
    /\ th[t].kind = "sidebar" /\ th[t].pc = "run"
    /\ IF Accessible \cap Own = {}
         THEN th' = [th EXCEPT ![t].pc = "create"]
         ELSE th' = Listed(t, Accessible)
    /\ UNCHANGED <<tables, win, dl, sessions, changes, history>>

SidebarList(t) ==
    /\ th[t].kind = "sidebar" /\ th[t].pc = "run"
    /\ \/ /\ Accessible \cap Own = {} /\ th[t].create
          /\ th' = [th EXCEPT ![t].pc = "create"]
          /\ UNCHANGED clean
       \/ /\ Accessible \cap Own # {} \/ ~th[t].create
          /\ th' = Listed(t, Accessible)
          /\ UNCHANGED clean
       \/ /\ th' = Finished(t, "err")
          /\ clean' = (clean /\ ~th[t].mine)
    /\ UNCHANGED <<tables, win, dl, sessions, changes, made>>

\* create_vault "perso" (an error of it is ignored) and the second listing.
SidebarCreate(t) ==
    /\ th[t].kind = "sidebar" /\ th[t].pc = "create"
    /\ \/ \E v \in Own :
             /\ vault[v] = "unused"
             /\ vault' = [vault EXCEPT ![v] = "live"]
             /\ th' = Listed(t, Accessible \cup {v})
             /\ made' = IF th[t].mine THEN made \cup {v} ELSE made
       \/ /\ th' = Listed(t, Accessible)
          /\ UNCHANGED <<vault, made>>
    /\ UNCHANGED <<live, stored, win, dl, sessions, changes, clean>>

\* The vault that stays or becomes the active one, among those listed.
ActiveAmong(w, found) ==
    IF w.active \in w.rows THEN w.active
    ELSE IF found \cap Own # {} THEN First(found \cap Own) ELSE First(found \cap Foreign)

\* Rows are appended to what the lists hold; the active vault is selected and
\* its secrets are loaded.
SidebarAnswer(t) ==
    /\ th[t].kind = "sidebar" /\ th[t].pc = "ok"
    /\ LET filled == [win EXCEPT
                        !.creating = @ /\ ~th[t].create,
                        !.rows = @ \cup th[t].found]
       IN refresh_secret_flow(t, [filled EXCEPT !.active = ActiveAmong(filled, th[t].found)],
                              Ended(t))
    /\ UNCHANGED <<tables, dl, sessions, changes, made>>

SidebarFailed(t) ==
    /\ th[t].kind = "sidebar" /\ th[t].pc = "err"
    /\ win' = [win EXCEPT !.creating = @ /\ ~th[t].create]
    /\ th' = Ended(t)
    /\ UNCHANGED <<tables, dl, sessions, changes, history>>

\* A row is clicked.  The highlighted row is not kept here: a late answer moves
\* the active vault and leaves the highlight, so that any row may be clicked.
SelectVault(t, v) ==
    /\ Free(t) /\ v \in win.rows
    /\ refresh_secret_flow(t, [win EXCEPT !.active = v], th)
    /\ UNCHANGED <<tables, dl, sessions, changes, made>>

-----------------------------------------------------------------------------
(* The list of secrets.                                                    *)

\* The thread lists the vaults and resolves the one to load.
LoadSecrets_Resolve(t) ==
    /\ th[t].kind = "secrets" /\ th[t].pc = "run"
    /\ LET v == IF th[t].arg # None THEN th[t].arg ELSE First(Accessible) IN
       \/ /\ v = None
          /\ th' = [th EXCEPT ![t].pc = "none"]
       \/ /\ v # None /\ v \notin Accessible
          /\ th' = [th EXCEPT ![t].pc = "gone"]
       \/ /\ v \in Accessible
          /\ th' = [th EXCEPT ![t].pc = "read", ![t].arg = v]
       \/ th' = [th EXCEPT ![t].pc = "err"]
    /\ UNCHANGED <<tables, win, dl, sessions, changes, history>>

\* It asks for the access again and opens the vault, which fails if the vault has
\* gone before, and reads the secrets, which works also if it goes just then.
LoadSecrets_Read(t) ==
    /\ th[t].kind = "secrets" /\ th[t].pc = "read"
    /\ \/ th' = [th EXCEPT ![t].pc = "ok",
                           ![t].cards = {s \in live : Home[s] = th[t].arg}]
       \/ th' = [th EXCEPT ![t].pc = "err"]
    /\ UNCHANGED <<tables, win, dl, sessions, changes, history>>

\* A page with a text instead of cards.
Message(w) == [w EXCEPT !.page = "message", !.cards = {}, !.shows = None]

\* Mutant: the vault that was loaded does not become the active one.
ShowCards_ActiveKept(w, task) ==
    IF task.cards = {} THEN Message(w)
    ELSE [w EXCEPT !.shows = task.arg, !.cards = task.cards, !.page = "list"]

ShowCards(w, task) ==
    IF task.cards = {} THEN Message([w EXCEPT !.active = task.arg])
    ELSE [w EXCEPT !.active = task.arg, !.shows = task.arg, !.cards = task.cards,
                   !.page = "list"]

\* Mutant: without a selection the loading text is left.
SecretsAnswer_NoneIgnored(t) ==
    /\ th[t].kind = "secrets" /\ th[t].pc \notin {"run", "read"}
    /\ th' = Ended(t)
    /\ win' = CASE th[t].pc = "ok"   -> ShowCards(win, th[t])
                [] th[t].pc = "gone" -> Message([win EXCEPT !.active = None])
                [] th[t].pc = "none" -> win
                [] OTHER             -> Message(win)
    /\ UNCHANGED <<tables, dl, sessions, changes, history>>

SecretsAnswer(t) ==
    /\ th[t].kind = "secrets" /\ th[t].pc \notin {"run", "read"}
    /\ th' = Ended(t)
    /\ win' = CASE th[t].pc = "ok"   -> ShowCards(win, th[t])
                [] th[t].pc = "gone" -> Message([win EXCEPT !.active = None])
                [] OTHER             -> Message(win)
    /\ UNCHANGED <<tables, dl, sessions, changes, history>>

-----------------------------------------------------------------------------
(* What the user does with secrets and vaults.                             *)

\* The editor saves a new secret, or one is taken out of the trash; both are
\* described in SecretLifecycle.
SaveSecret(t, s) ==
    /\ Free(t) /\ s \notin live /\ win.active = Home[s]
    /\ th' = Start(t, "save", s, FALSE)
    /\ UNCHANGED <<tables, win, dl, sessions, changes, history>>

\* The bin on a card.
TrashSecret(t, s) ==
    /\ Free(t) /\ win.page = "list" /\ s \in win.cards
    /\ th' = Start(t, "trash", s, FALSE)
    /\ UNCHANGED <<tables, win, dl, sessions, changes, history>>

\* The bin on a row of the sidebar, confirmed.
DeleteVault(t, v) ==
    /\ Free(t) /\ v \in Own \cap win.rows
    /\ th' = Start(t, "drop", v, FALSE)
    /\ UNCHANGED <<tables, win, dl, sessions, changes, history>>

\* Each changes its row if it is there; an error otherwise, or when the
\* statement fails.
DoTask(t) ==
    /\ th[t].kind \in {"save", "trash", "drop"} /\ th[t].pc = "run"
    /\ \/ /\ \/ /\ th[t].kind = "drop" /\ vault[th[t].arg] = "live"
                /\ vault' = [vault EXCEPT ![th[t].arg] = "gone"]
                /\ UNCHANGED live
             \/ /\ th[t].kind = "trash" /\ th[t].arg \in live
                /\ live' = live \ {th[t].arg}
                /\ UNCHANGED vault
             \/ /\ th[t].kind = "save"
                /\ th[t].arg \notin live /\ vault[Home[th[t].arg]] = "live"
                /\ live' = live \cup {th[t].arg}
                /\ UNCHANGED vault
          /\ th' = Finished(t, "ok")
          /\ clean' = (clean /\ th[t].mine)
       \/ /\ th' = Finished(t, "err")
          /\ UNCHANGED <<vault, live, clean>>
    /\ UNCHANGED <<stored, win, dl, sessions, changes, made>>

\* Mutant: the list is not loaded again.
TaskAnswer_NoRefresh(t) ==
    /\ th[t].kind \in {"save", "trash", "drop"} /\ th[t].pc \in {"ok", "err"}
    /\ th' = Ended(t)
    /\ UNCHANGED <<tables, win, dl, sessions, changes, history>>

\* The bin on a card loads the list again, the others the sidebar and then the
\* list; a deleted vault is no longer the active one.
TaskAnswer(t) ==
    /\ th[t].kind \in {"save", "trash", "drop"} /\ th[t].pc \in {"ok", "err"}
    /\ \/ /\ th[t].pc = "err"
          /\ th' = Ended(t)
          /\ UNCHANGED <<win, clean>>
       \/ /\ th[t].pc = "ok" /\ th[t].kind = "trash"
          /\ refresh_secret_flow(t, win, Ended(t))
       \/ /\ th[t].pc = "ok" /\ th[t].kind # "trash"
          /\ refresh_vault_sections(t,
                [win EXCEPT !.active = IF @ = th[t].arg THEN None ELSE @], Ended(t))
          /\ UNCHANGED clean
    /\ UNCHANGED <<tables, dl, sessions, changes, made>>

\* Others: a share is revoked.
OthersRevoke ==
    /\ \E v \in Foreign : /\ vault[v] = "live"
                          /\ vault' = [vault EXCEPT ![v] = "gone"]
    /\ clean' = FALSE
    /\ UNCHANGED <<live, stored, win, th, dl, sessions, changes, made>>

-----------------------------------------------------------------------------

ThreadStep(t) ==
    \/ SidebarList(t)
    \/ SidebarCreate(t)
    \/ LoadSecrets_Resolve(t)
    \/ LoadSecrets_Read(t)
    \/ DoTask(t)

MainLoop(t) ==
    \/ SidebarAnswer(t)
    \/ SidebarFailed(t)
    \/ SecretsAnswer(t)
    \/ TaskAnswer(t)

UserStep(t) ==
    \/ LoginSucceeds(t)
    \/ \E v \in Vaults : SelectVault(t, v) \/ DeleteVault(t, v)
    \/ \E s \in Secrets : SaveSecret(t, s) \/ TrashSecret(t, s)

Next ==
    \/ \E t \in Threads : ThreadStep(t) \/ MainLoop(t) \/ UserStep(t)
    \/ trigger_logout
    \/ AutoLockFires
    \/ ReadDelay
    \/ \E mins \in Delays : ChangeDelay(mins)
    \/ update_auto_lock_delay
    \/ DelayAnswer
    \/ OthersRevoke

Spec == Init /\ [][Next]_vars

-----------------------------------------------------------------------------
(* Properties.                                                             *)

\* The cards on the screen are those of the active vault, the one new secrets
\* go to, whatever the order in which refresh_secret_flow's threads answer; the
\* only other case is that the vault shown has just been deleted and none is
\* active.
CardsOfActiveVault == win.page = "list" /\ win.open => win.active \in {win.shows, None}

\* A session that has ended has no timer that could end the next one, and a
\* timer that runs has the delay that is in force (auto_lock.rs).
TimerInForce == win.timer # 0 => win.open /\ win.armed /\ win.timer = win.delay

\* A window creates the default vault once, however often the sidebar is loaded
\* again before the first thread has answered (default_vault_creation_in_progress).
\* The flag is the window's: a thread left by an earlier window may still create
\* one more.
OneDefaultVault == Cardinality({v \in made : vault[v] = "live"}) <= 1

\* When nothing is under way, the list shows what is in the table: every
\* operation of the window that changes the table ends in a load that began
\* after it.  This is claimed of sessions (`clean`) in which no two loads were
\* under way together (refresh_secret_flow does not order them, so an older one
\* may answer last), no sidebar failed to load (the load of the list that was
\* to follow is then never made) and nobody else wrote.
ListIsCurrent ==
    /\ win.open /\ win.page = "list" /\ clean
    /\ \A t \in Threads : ~th[t].mine
    => win.cards = {s \in live : Home[s] = win.shows}

\* As long as the loading page is shown a thread is loading the list: no answer,
\* failed ones included, ends the last load and leaves the page.
LoadingIsAnswered ==
    win.open /\ win.page = "loading" => \E t \in Threads : th[t].kind = "secrets"

\* A delay other than never that the profile page has reported as saved is in
\* force: the window locks itself after it.
DelayInForce == win.open /\ dl.pc = "idle" /\ win.delay # 0 => win.armed
=============================================================================
