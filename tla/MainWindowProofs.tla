-------------------------- MODULE MainWindowProofs --------------------------
(***************************************************************************)
(* Theorems about MainWindow, for any number of vaults, secrets, threads,  *)
(* sessions and lock delays: the timer, the page, the default vault and    *)
(* the list of secrets.                                                    *)
(*                                                                         *)
(* The inductive invariant says whose a thread is (nothing of a window     *)
(* outlives it but writes), that only one thread at a time may create the  *)
(* default vault, and which answers are still owed to a list that is no    *)
(* longer what the table holds.                                            *)
(***************************************************************************)
EXTENDS MainWindow, FiniteSetTheorems, TLAPS

\* A window that is closed has no threads; a thread that has something to say,
\* or that loads a list, has a window.
Owned ==
    \A t \in Threads :
        /\ th[t].mine => win.open
        /\ th[t].pc \notin {"run", "create"} => th[t].mine
        /\ th[t].kind = "secrets" => th[t].mine

\* default_vault_creation_in_progress: at most one thread of this window may
\* create the default vault, and the flag is up until it has answered.
Creator(t) == th[t].kind = "sidebar" /\ th[t].mine /\ th[t].create
OneCreator ==
    /\ \A t \in Threads : Creator(t) => win.creating
    /\ \A t, u \in Threads : Creator(t) /\ Creator(u) => t = u
    /\ \A t \in Threads : th[t].pc = "create" => th[t].kind = "sidebar" /\ th[t].create

\* The vaults this window has created: never unused again, at most one of them
\* live, and none when a thread of the window has decided to create one.
Live(v) == vault[v] = "live"
MadeOnce ==
    /\ \A v \in made : vault[v] # "unused"
    /\ \A v, w \in made : Live(v) /\ Live(w) => v = w
    /\ \A t \in Threads : th[t].mine /\ th[t].pc = "create" => \A v \in made : ~Live(v)

\* A thread whose answer loads the list again.
Owes(t) ==
    /\ th[t].mine
    /\ \/ th[t].kind \in {"save", "trash", "drop"} /\ th[t].pc = "ok"
       \/ th[t].kind = "sidebar" /\ th[t].pc # "err"
InTable(v) == {s \in live : Home[s] = v}

\* What is shown, and what a loading thread is about to show, is what the table
\* holds, or the list will be loaded again.
ListFollows ==
    clean =>
      /\ win.open /\ win.page = "list"
            => \/ win.cards = InTable(win.shows)
               \/ \E t \in Threads : Owes(t) \/ th[t].kind = "secrets"
      /\ \A t \in Threads : th[t].kind = "secrets" /\ th[t].pc = "ok"
            => \/ th[t].cards = InTable(th[t].arg)
               \/ \E u \in Threads : Owes(u)

\* What a thread was started with.
Arguments ==
    \A t \in Threads :
        /\ th[t].kind = "save" => th[t].arg \in Secrets
        /\ th[t].kind = "secrets" /\ th[t].pc \in {"ok", "read"} => th[t].arg \in Vaults

\* The inductive invariant.
WindowInv ==
    /\ TypeOK /\ Arguments
    /\ TimerInForce /\ CardsOfActiveVault /\ LoadingIsAnswered
    /\ Owned /\ OneCreator /\ MadeOnce /\ ListFollows

-----------------------------------------------------------------------------
(* Windows and tasks.                                                      *)

\* What the operators of MainWindow leave alone in a window: the lock, and what
\* is on the page.
SameLock(w, x) ==
    x.open = w.open /\ x.delay = w.delay /\ x.armed = w.armed /\ x.timer = w.timer
SamePage(w, x) == x.page = w.page /\ x.cards = w.cards /\ x.shows = w.shows

LEMMA WindowFields ==
    ASSUME NEW w \in Window
    PROVE  /\ w.open \in BOOLEAN /\ w.active \in Vaults \cup {None} /\ w.rows \subseteq Vaults
           /\ w.cards \subseteq Secrets /\ w.creating \in BOOLEAN /\ w.delay \in Delays
           /\ w.armed \in BOOLEAN /\ w.timer \in Delays
           /\ w.page \in {"loading", "list", "message"}
  BY DEF Window

LEMMA TaskFields ==
    ASSUME NEW k \in Task
    PROVE  /\ k.kind \in {"idle", "sidebar", "secrets", "save", "trash", "drop"}
           /\ k.pc \in {"run", "read", "create", "ok", "gone", "none", "err"}
           /\ k.mine \in BOOLEAN /\ k.create \in BOOLEAN
           /\ k.arg \in Vaults \cup Secrets \cup {None}
           /\ k.found \subseteq Vaults /\ k.cards \subseteq Secrets
  BY DEF Task

Loading(w) == [w EXCEPT !.page = "loading", !.cards = {}, !.shows = None]
LEMMA LoadingWindow ==
    ASSUME NEW w \in Window
    PROVE  Loading(w) \in Window /\ SameLock(w, Loading(w)) /\ Loading(w).page = "loading"
           /\ Loading(w).creating = w.creating
  BY DEF Window, Loading, SameLock

Cleared(w) == [w EXCEPT !.rows = {}, !.creating = TRUE]
LEMMA ClearedWindow ==
    ASSUME NEW w \in Window
    PROVE  /\ Cleared(w) \in Window /\ SameLock(w, Cleared(w)) /\ SamePage(w, Cleared(w))
           /\ Cleared(w).creating /\ Cleared(w).active = w.active
  BY DEF Window, Cleared, SameLock, SamePage

Filled(w, task) ==
    [w EXCEPT !.creating = @ /\ ~task.create, !.rows = @ \cup task.found]
LEMMA FilledWindow ==
    ASSUME NEW w \in Window, NEW task \in Task
    PROVE  /\ Filled(w, task) \in Window /\ SameLock(w, Filled(w, task))
           /\ Filled(w, task).creating = (w.creating /\ ~task.create)
  BY DEF Window, Task, Filled, SameLock

Failed(w, task) == [w EXCEPT !.creating = @ /\ ~task.create]
LEMMA FailedWindow ==
    ASSUME NEW w \in Window, NEW task \in Task
    PROVE  /\ Failed(w, task) \in Window /\ SameLock(w, Failed(w, task))
           /\ SamePage(w, Failed(w, task)) /\ Failed(w, task).active = w.active
           /\ Failed(w, task).creating = (w.creating /\ ~task.create)
  BY DEF Window, Task, Failed, SameLock, SamePage

Selected(w, v) == [w EXCEPT !.active = v]
LEMMA SelectedWindow ==
    ASSUME NEW w \in Window, NEW v \in Vaults \cup {None}
    PROVE  /\ Selected(w, v) \in Window /\ SameLock(w, Selected(w, v))
           /\ SamePage(w, Selected(w, v)) /\ Selected(w, v).active = v
           /\ Selected(w, v).creating = w.creating
  BY DEF Window, Selected, SameLock, SamePage

LEMMA MessageWindow ==
    ASSUME NEW w \in Window
    PROVE  Message(w) \in Window /\ SameLock(w, Message(w)) /\ Message(w).page = "message"
           /\ Message(w).creating = w.creating
  BY DEF Window, Message, SameLock

LEMMA ListWindow ==
    ASSUME NEW w \in Window, NEW task \in Task, task.arg \in Vaults
    PROVE  /\ ShowCards(w, task) \in Window /\ SameLock(w, ShowCards(w, task))
           /\ ShowCards(w, task).creating = w.creating
           /\ ShowCards(w, task).page # "loading"
           /\ ShowCards(w, task).page = "list"
                 => /\ ShowCards(w, task).active = task.arg
                    /\ ShowCards(w, task).shows = task.arg
                    /\ ShowCards(w, task).cards = task.cards
<1>1. CASE task.cards = {}
  <2>1. ShowCards(w, task) = Message(Selected(w, task.arg))
    BY <1>1 DEF ShowCards, Selected
  <2>2. Selected(w, task.arg) \in Window /\ SameLock(w, Selected(w, task.arg))
        /\ Selected(w, task.arg).creating = w.creating
    BY SelectedWindow
  <2> QED BY <2>1, <2>2, MessageWindow DEF SameLock
<1>2. CASE task.cards # {}
  <2> DEFINE x == [w EXCEPT !.active = task.arg, !.shows = task.arg, !.cards = task.cards,
                            !.page = "list"]
  <2>1. x \in Window /\ SameLock(w, x) /\ x.creating = w.creating
        /\ x.page = "list" /\ x.active = task.arg /\ x.shows = task.arg /\ x.cards = task.cards
    BY DEF Window, Task, SameLock
  <2>2. ShowCards(w, task) = x
    BY <1>2 DEF ShowCards
  <2> HIDE DEF x
  <2> QED BY <2>1, <2>2
<1> QED BY <1>1, <1>2

LEMMA NoTaskType == NoTask \in Task /\ NoTask.kind = "idle" /\ NoTask.pc = "run"
                    /\ ~NoTask.mine
  BY DEF Task, NoTask

LEMMA ClosedType == Closed \in Window /\ Closed.page = "message" /\ ~Closed.open
                    /\ Closed.timer = 0 /\ Closed.delay = DefaultDelay /\ ~Closed.creating
  BY WindowConstants DEF Window, Closed

\* A new thread.
Begun(kind, arg, create) ==
    [NoTask EXCEPT !.kind = kind, !.mine = TRUE, !.arg = arg, !.create = create]
\* A thread at another place.
At(k, pc) == [k EXCEPT !.pc = pc]
LEMMA AtTask ==
    ASSUME NEW k \in Task, NEW pc \in {"run", "read", "create", "ok", "gone", "none", "err"}
    PROVE  /\ At(k, pc) \in Task /\ At(k, pc).pc = pc /\ At(k, pc).kind = k.kind
           /\ At(k, pc).mine = k.mine /\ At(k, pc).create = k.create
           /\ At(k, pc).arg = k.arg /\ At(k, pc).cards = k.cards
  BY DEF Task, At

FoundBy(k, found) == [k EXCEPT !.pc = "ok", !.found = found]
LEMMA FoundTask ==
    ASSUME NEW k \in Task, NEW found \in SUBSET Vaults
    PROVE  /\ FoundBy(k, found) \in Task /\ FoundBy(k, found).pc = "ok"
           /\ FoundBy(k, found).kind = k.kind /\ FoundBy(k, found).mine = k.mine
           /\ FoundBy(k, found).create = k.create
  BY DEF Task, FoundBy

\* One thread changes.
Put(t, k) == th' = [th EXCEPT ![t] = k]
LEMMA PutTask ==
    ASSUME TypeOK, NEW t \in Threads, NEW k \in Task, Put(t, k)
    PROVE  /\ th' \in [Threads -> Task] /\ th'[t] = k
           /\ \A u \in Threads : u # t => th'[u] = th[u]
  BY DEF TypeOK, Put

-----------------------------------------------------------------------------
(* What one thread's step owes to each part of the invariant.              *)

LEMMA ArgumentsStep ==
    ASSUME TypeOK, Arguments, NEW t \in Threads, NEW k \in Task, Put(t, k),
           k.kind = "save" => k.arg \in Secrets,
           k.kind = "secrets" /\ k.pc \in {"ok", "read"} => k.arg \in Vaults
    PROVE  Arguments'
  BY PutTask DEF Arguments

LEMMA OwnedStep ==
    ASSUME TypeOK, Owned, NEW t \in Threads, NEW k \in Task, Put(t, k),
           win'.open = win.open, k.mine => win.open,
           k.pc \notin {"run", "create"} => k.mine,
           k.kind = "secrets" => k.mine
    PROVE  Owned'
<1>1. th'[t] = k /\ \A u \in Threads : u # t => th'[u] = th[u]
  BY PutTask
<1> SUFFICES ASSUME NEW u \in Threads
             PROVE  /\ th'[u].mine => win'.open
                    /\ th'[u].pc \notin {"run", "create"} => th'[u].mine
                    /\ th'[u].kind = "secrets" => th'[u].mine
  BY DEF Owned
<1> QED BY <1>1 DEF Owned

CreatorTask(k) == k.kind = "sidebar" /\ k.mine /\ k.create

\* A creator starts when the flag is down, and only its end takes it down.
LEMMA CreatorStep ==
    ASSUME TypeOK, OneCreator, NEW t \in Threads, NEW k \in Task, Put(t, k),
           CreatorTask(k) => (Creator(t) \/ ~win.creating) /\ win'.creating,
           win.creating /\ ~win'.creating => Creator(t) /\ ~CreatorTask(k),
           k.pc = "create" => k.kind = "sidebar" /\ k.create
    PROVE  OneCreator'
<1>1. th'[t] = k /\ \A u \in Threads : u # t => th'[u] = th[u]
  BY PutTask
<1>2. \A u \in Threads : u # t => (Creator(u)' <=> Creator(u))
  BY <1>1 DEF Creator
<1>3. Creator(t)' <=> CreatorTask(k)
  BY <1>1 DEF Creator, CreatorTask
<1>4. \A u \in Threads : th'[u].pc = "create" => th'[u].kind = "sidebar" /\ th'[u].create
  BY <1>1 DEF OneCreator
<1>5. \A u \in Threads : Creator(u)' => win'.creating
  BY <1>2, <1>3 DEF OneCreator
<1>6. \A u, v \in Threads : Creator(u)' /\ Creator(v)' => u = v
  BY <1>2, <1>3 DEF OneCreator
<1> QED BY <1>4, <1>5, <1>6 DEF OneCreator

\* Vaults only die, and a thread decides to create only when none is live.
LEMMA MadeStep ==
    ASSUME TypeOK, MadeOnce, NEW t \in Threads, NEW k \in Task, Put(t, k),
           made' = made,
           \A v \in made : vault[v] # "unused" => vault'[v] # "unused",
           \A v \in made : vault'[v] = "live" => vault[v] = "live",
           k.mine /\ k.pc = "create"
              => (th[t].mine /\ th[t].pc = "create") \/ \A v \in made : ~Live(v)
    PROVE  MadeOnce'
<1>1. th'[t] = k /\ \A u \in Threads : u # t => th'[u] = th[u]
  BY PutTask
<1>2. \A v \in made : Live(v)' => Live(v)
  BY DEF Live
<1>3. \A u \in Threads : th'[u].mine /\ th'[u].pc = "create" => \A v \in made : ~Live(v)
  BY <1>1 DEF MadeOnce
<1> QED BY <1>2, <1>3 DEF MadeOnce

OwesTask(k) ==
    /\ k.mine
    /\ \/ k.kind \in {"save", "trash", "drop"} /\ k.pc = "ok"
       \/ k.kind = "sidebar" /\ k.pc # "err"

\* The page stays, and so does what is owed to it.
LEMMA ListSame ==
    ASSUME TypeOK, ListFollows, NEW t \in Threads, NEW k \in Task, Put(t, k),
           SamePage(win, win'), win'.open = win.open, live' = live, clean' => clean,
           clean' /\ OwesTask(th[t]) => OwesTask(k),
           th[t].kind = "secrets" => k.kind = "secrets",
           k.kind = "secrets" /\ k.pc = "ok" => k.cards = InTable(k.arg)
    PROVE  ListFollows'
<1>1. th'[t] = k /\ \A u \in Threads : u # t => th'[u] = th[u]
  BY PutTask
<1>2. clean' => \A u \in Threads : Owes(u) => Owes(u)'
  BY <1>1 DEF Owes, OwesTask
<1>3. \A u \in Threads : th[u].kind = "secrets" => th'[u].kind = "secrets"
  BY <1>1
<1>4. \A v : InTable(v)' = InTable(v)
  BY DEF InTable
<1>5. ASSUME clean', win'.open, win'.page = "list"
      PROVE  \/ win'.cards = InTable(win'.shows)
             \/ \E u \in Threads : Owes(u)' \/ th'[u].kind = "secrets"
  BY <1>2, <1>3, <1>5 DEF ListFollows, SamePage
<1>6. ASSUME clean', NEW u \in Threads, th'[u].kind = "secrets", th'[u].pc = "ok"
      PROVE  th'[u].cards = InTable(th'[u].arg) \/ \E x \in Threads : Owes(x)'
  BY <1>1, <1>2, <1>6 DEF ListFollows
<1> QED BY <1>4, <1>5, <1>6 DEF ListFollows

\* The list is loaded again, and by one thread if the session is to stay clean.
LEMMA ListRefresh ==
    ASSUME TypeOK, NEW t \in Threads, NEW k \in Task, Put(t, k),
           win'.page = "loading", k.pc = "run",
           clean' => \A u \in Threads : u # t => th[u].kind # "secrets"
    PROVE  ListFollows'
<1>1. th'[t] = k /\ \A u \in Threads : u # t => th'[u] = th[u]
  BY PutTask
<1> QED BY <1>1 DEF ListFollows

\* The thread owes a load, or the session is no longer clean.
LEMMA ListOwed ==
    ASSUME TypeOK, NEW t \in Threads, NEW k \in Task, Put(t, k), clean' => OwesTask(k)
    PROVE  ListFollows'
<1>1. th'[t] = k
  BY PutTask
<1>2. clean' => Owes(t)'
  BY <1>1 DEF Owes, OwesTask
<1> QED BY <1>2 DEF ListFollows

\* The window keeps its page and its lock, or a load of the list has begun.
LEMMA PageStep ==
    ASSUME WindowInv, NEW t \in Threads, NEW k \in Task, Put(t, k), SameLock(win, win'),
           \/ /\ SamePage(win, win') /\ (win'.active = win.active \/ win'.active = None)
              /\ th[t].kind # "secrets" \/ k.kind = "secrets"
           \/ win'.page = "loading" /\ k.kind = "secrets"
    PROVE  TimerInForce' /\ CardsOfActiveVault' /\ LoadingIsAnswered'
<1>1. th'[t] = k /\ \A u \in Threads : u # t => th'[u] = th[u]
  BY PutTask DEF WindowInv
<1>2. TimerInForce'
  BY DEF WindowInv, TimerInForce, SameLock
<1>3. CardsOfActiveVault'
  BY DEF WindowInv, CardsOfActiveVault, SameLock, SamePage
<1>4. LoadingIsAnswered'
  BY <1>1 DEF WindowInv, LoadingIsAnswered, SameLock, SamePage
<1> QED BY <1>2, <1>3, <1>4

-----------------------------------------------------------------------------
(* The sidebar, one lemma per action.                                      *)

\* A thread finishes: its window takes the answer, or there is none.
LEMMA FinishedTask ==
    ASSUME TypeOK, NEW t \in Threads, NEW pc \in {"ok", "err"}
    PROVE  \E k \in Task :
              /\ th' = Finished(t, pc) => Put(t, k)
              /\ th[t].mine => k = At(th[t], pc)
              /\ ~th[t].mine => k = NoTask
<1>1. th \in [Threads -> Task] /\ th[t] \in Task
  BY DEF TypeOK
<1>2. CASE th[t].mine
  <2>1. At(th[t], pc) \in Task
    BY <1>1, AtTask
  <2>2. Finished(t, pc) = [th EXCEPT ![t] = At(th[t], pc)]
    BY <1>1, <1>2 DEF Finished, At
  <2> QED BY <1>2, <2>1, <2>2 DEF Put
<1>3. CASE ~th[t].mine
  BY <1>3, NoTaskType DEF Finished, Ended, Put
<1> QED BY <1>2, <1>3

LEMMA ListedTask ==
    ASSUME TypeOK, NEW t \in Threads, NEW found \in SUBSET Vaults
    PROVE  \E k \in Task :
              /\ th' = Listed(t, found) => Put(t, k)
              /\ th[t].mine => k = FoundBy(th[t], found)
              /\ ~th[t].mine => k = NoTask
<1>1. th \in [Threads -> Task] /\ th[t] \in Task
  BY DEF TypeOK
<1>2. CASE th[t].mine
  <2>1. FoundBy(th[t], found) \in Task
    BY <1>1, FoundTask
  <2>2. Listed(t, found) = [th EXCEPT ![t] = FoundBy(th[t], found)]
    BY <1>1, <1>2 DEF Listed, FoundBy
  <2> QED BY <1>2, <2>1, <2>2 DEF Put
<1>3. CASE ~th[t].mine
  BY <1>3, NoTaskType DEF Listed, Ended, Put
<1> QED BY <1>2, <1>3

\* The thread is still what it was started as, or it had no window and is gone.
GoesOn(t, k) ==
    \/ k.kind = th[t].kind /\ k.mine = th[t].mine /\ k.create = th[t].create
    \/ k = NoTask /\ ~th[t].mine

\* A thread works on, and the window does not change.
LEMMA WorkStep ==
    ASSUME WindowInv, TypeOK', NEW t \in Threads, NEW k \in Task, Put(t, k), win' = win,
           GoesOn(t, k),
           k.pc \notin {"run", "create"} => k.mine,
           k.kind = "save" => k.arg \in Secrets,
           k.kind = "secrets" /\ k.pc \in {"ok", "read"} => k.arg \in Vaults,
           k.pc = "create" => k.kind = "sidebar" /\ k.create,
           MadeOnce', ListFollows'
    PROVE  WindowInv'
<1>1. TypeOK /\ th[t] \in Task
  BY DEF WindowInv, TypeOK
<1>2. Arguments'
  BY <1>1, ArgumentsStep DEF WindowInv
<1>3. Owned'
  BY <1>1, NoTaskType, OwnedStep DEF WindowInv, Owned, GoesOn
<1>4. OneCreator'
  <2>1. CreatorTask(k) => Creator(t) /\ win.creating
    BY NoTaskType DEF WindowInv, OneCreator, CreatorTask, Creator, GoesOn
  <2> QED BY <1>1, <2>1, CreatorStep DEF WindowInv
<1>5. th[t].kind # "secrets" \/ k.kind = "secrets"
  BY DEF WindowInv, Owned, GoesOn
<1>6. TimerInForce' /\ CardsOfActiveVault' /\ LoadingIsAnswered'
  BY <1>5, PageStep DEF SameLock, SamePage
<1> QED BY <1>2, <1>3, <1>4, <1>6 DEF WindowInv

LEMMA SidebarListKeeps ==
    ASSUME WindowInv, NEW t \in Threads, SidebarList(t)
    PROVE  WindowInv'
<1>1. /\ TypeOK /\ th[t] \in Task /\ th[t].kind = "sidebar" /\ th[t].pc = "run"
      /\ UNCHANGED <<tables, win, dl, sessions, changes, made>>
  BY DEF WindowInv, TypeOK, SidebarList
<1>2. Accessible \in SUBSET Vaults
  BY DEF Accessible
<1> DEFINE Fits(k) ==
             /\ Put(t, k) /\ GoesOn(t, k)
             /\ k.pc \notin {"run", "create"} => k.mine
             /\ k.pc = "create" => k.kind = "sidebar" /\ k.create /\ Accessible \cap Own = {}
             /\ clean' \in BOOLEAN /\ (clean' => clean)
             /\ clean' /\ th[t].mine => k.kind = "sidebar" /\ k.mine /\ k.pc # "err"
<1>3. PICK k \in Task : Fits(k)
  <2>0. clean \in BOOLEAN
    BY <1>1 DEF TypeOK
  <2>1. ASSUME Accessible \cap Own = {}, th[t].create,
               th' = [th EXCEPT ![t].pc = "create"], UNCHANGED clean
        PROVE  \E k \in Task : Fits(k)
    <3> DEFINE k == At(th[t], "create")
    <3>1. Put(t, k)
      BY <1>1, <2>1 DEF Put, At, TypeOK
    <3>2. /\ k \in Task /\ k.pc = "create" /\ k.kind = th[t].kind /\ k.mine = th[t].mine
          /\ k.create = th[t].create
      BY <1>1, AtTask
    <3> HIDE DEF k
    <3>3. Fits(k)
      BY <1>1, <2>0, <2>1, <3>1, <3>2 DEF GoesOn
    <3> QED BY <3>2, <3>3
  <2>2. ASSUME th' = Listed(t, Accessible), UNCHANGED clean
        PROVE  \E k \in Task : Fits(k)
    <3>1. PICK k \in Task : /\ Put(t, k) /\ (th[t].mine => k = FoundBy(th[t], Accessible))
                            /\ (~th[t].mine => k = NoTask)
      BY <1>1, <1>2, <2>2, ListedTask
    <3>2. Fits(k)
      BY <1>1, <1>2, <2>0, <2>2, <3>1, FoundTask, NoTaskType DEF GoesOn
    <3> QED BY <3>2
  <2>3. ASSUME th' = Finished(t, "err"), clean' = (clean /\ ~th[t].mine)
        PROVE  \E k \in Task : Fits(k)
    <3>1. PICK k \in Task : /\ Put(t, k) /\ (th[t].mine => k = At(th[t], "err"))
                            /\ (~th[t].mine => k = NoTask)
      BY <1>1, <2>3, FinishedTask
    <3>2. CASE th[t].mine
      <4>1. /\ k.pc = "err" /\ k.kind = th[t].kind /\ k.mine = th[t].mine
            /\ k.create = th[t].create
        <5>1. k = At(th[t], "err")
          BY <3>1, <3>2
        <5> QED BY <1>1, <5>1 DEF At, Task
      <4> QED BY <2>0, <2>3, <3>1, <3>2, <4>1 DEF GoesOn
    <3>3. CASE ~th[t].mine
      BY <1>1, <2>0, <2>3, <3>1, <3>3, NoTaskType DEF GoesOn
    <3> QED BY <3>2, <3>3
  <2> HIDE DEF Fits
  <2> QED BY <2>1, <2>2, <2>3 DEF SidebarList
<1>4. TypeOK'
  BY <1>1, <1>3, PutTask DEF TypeOK, tables
<1>5. MadeOnce'
  <2>1. Accessible \cap Own = {} => \A v \in made : ~Live(v)
    BY <1>1 DEF TypeOK, Accessible, Live, Vaults
  <2> QED BY <1>1, <1>3, <2>1, MadeStep DEF WindowInv, tables
<1>6. ListFollows'
  BY <1>1, <1>3, NoTaskType, ListSame DEF WindowInv, tables, SamePage, OwesTask, GoesOn
<1>7. k.kind \in {"sidebar", "idle"}
  BY <1>1, <1>3, NoTaskType DEF GoesOn
<1> QED BY <1>1, <1>3, <1>4, <1>5, <1>6, <1>7, WorkStep

LEMMA SidebarCreateKeeps ==
    ASSUME WindowInv, NEW t \in Threads, SidebarCreate(t)
    PROVE  WindowInv'
<1>1. /\ TypeOK /\ th[t] \in Task /\ th[t].kind = "sidebar" /\ th[t].pc = "create"
      /\ th[t].create
      /\ UNCHANGED <<live, stored, win, dl, sessions, changes, clean>>
  BY DEF WindowInv, TypeOK, SidebarCreate, OneCreator
<1>2. PICK found \in SUBSET Vaults :
          /\ th' = Listed(t, found)
          /\ \/ \E v \in Own : /\ vault[v] = "unused"
                               /\ vault' = [vault EXCEPT ![v] = "live"]
                               /\ made' = IF th[t].mine THEN made \cup {v} ELSE made
             \/ UNCHANGED <<vault, made>>
  <2>1. Accessible \in SUBSET Vaults /\ \A v \in Own : Accessible \cup {v} \in SUBSET Vaults
    BY DEF Accessible, Vaults
  <2> HIDE DEF Accessible
  <2> QED BY <2>1 DEF SidebarCreate
<1>3. PICK k \in Task : /\ Put(t, k) /\ (th[t].mine => k = FoundBy(th[t], found))
                        /\ (~th[t].mine => k = NoTask)
  BY <1>1, <1>2, ListedTask
<1>4. /\ th[t].mine => k.kind = "sidebar" /\ k.mine /\ k.create = th[t].create /\ k.pc = "ok"
      /\ k.pc # "create"
      /\ th'[t] = k /\ \A u \in Threads : u # t => th'[u] = th[u]
  <2>1. CASE th[t].mine
    <3>1. /\ k.kind = th[t].kind /\ k.mine = th[t].mine /\ k.create = th[t].create
          /\ k.pc = "ok"
      <4>1. k = FoundBy(th[t], found)
        BY <1>3, <2>1
      <4> QED BY <1>1, <4>1 DEF FoundBy, Task
    <3> QED BY <1>1, <1>3, <2>1, <3>1, PutTask
  <2>2. CASE ~th[t].mine
    BY <1>1, <1>3, <2>2, NoTaskType, PutTask
  <2> QED BY <2>1, <2>2
<1>5. vault' \in [Vaults -> {"unused", "live", "gone"}] /\ made' \subseteq Own
  BY <1>1, <1>2 DEF TypeOK, Vaults
<1>6. TypeOK'
  BY <1>1, <1>3, <1>5, PutTask DEF TypeOK
<1>7. MadeOnce'
  <2>1. CASE UNCHANGED <<vault, made>>
    BY <1>1, <1>3, <1>4, <2>1, MadeStep DEF WindowInv
  <2>2. ASSUME NEW v \in Own, vault[v] = "unused", vault' = [vault EXCEPT ![v] = "live"],
               made' = IF th[t].mine THEN made \cup {v} ELSE made
        PROVE  MadeOnce'
    <3>1. v \notin made /\ made \subseteq Vaults /\ v \in Vaults
      BY <1>1, <2>2 DEF WindowInv, MadeOnce, TypeOK, Vaults
    <3>2. \A w \in made : w # v /\ vault'[w] = vault[w]
      BY <1>1, <2>2, <3>1 DEF TypeOK
    <3>3. CASE ~th[t].mine
      BY <1>1, <1>3, <1>4, <2>2, <3>2, <3>3, MadeStep DEF WindowInv
    <3>4. CASE th[t].mine
      <4>1. \A w \in made : ~Live(w)
        BY <1>1, <3>4 DEF WindowInv, MadeOnce
      <4>2. made' = made \cup {v} /\ vault'[v] = "live"
        BY <1>1, <2>2, <3>1, <3>4 DEF TypeOK
      <4>3. \A w \in made' : vault'[w] # "unused" /\ (Live(w)' => w = v)
        BY <3>2, <4>1, <4>2 DEF WindowInv, MadeOnce, Live
      <4>4. \A u \in Threads : ~(th'[u].mine /\ th'[u].pc = "create")
        <5> SUFFICES ASSUME NEW u \in Threads, u # t, th[u].mine, th[u].pc = "create"
                     PROVE  FALSE
          BY <1>4
        <5>1. Creator(u) /\ Creator(t)
          BY <1>1, <3>4 DEF WindowInv, OneCreator, Creator
        <5> QED BY <5>1 DEF WindowInv, OneCreator
      <4> QED BY <4>3, <4>4 DEF MadeOnce
    <3> QED BY <3>3, <3>4
  <2> QED BY <1>2, <2>1, <2>2
<1>8. ListFollows'
  BY <1>1, <1>3, <1>4, NoTaskType, ListSame DEF WindowInv, SamePage, OwesTask
<1>9. GoesOn(t, k)
  BY <1>1, <1>3, <1>4 DEF GoesOn
<1> QED BY <1>1, <1>3, <1>4, <1>6, <1>7, <1>8, <1>9, NoTaskType, WorkStep

\* The loading thread has found its vault, or has nothing to load.
Resolved(k, v) == [k EXCEPT !.pc = "read", !.arg = v]
LEMMA ResolvedTask ==
    ASSUME NEW k \in Task, NEW v \in Vaults
    PROVE  /\ Resolved(k, v) \in Task /\ Resolved(k, v).pc = "read"
           /\ Resolved(k, v).kind = k.kind /\ Resolved(k, v).mine = k.mine
           /\ Resolved(k, v).create = k.create /\ Resolved(k, v).arg = v
  BY DEF Task, Resolved

LEMMA LoadSecretsResolveKeeps ==
    ASSUME WindowInv, NEW t \in Threads, LoadSecrets_Resolve(t)
    PROVE  WindowInv'
<1>1. /\ TypeOK /\ th[t] \in Task /\ th[t].kind = "secrets" /\ th[t].pc = "run" /\ th[t].mine
      /\ UNCHANGED <<tables, win, dl, sessions, changes, history>>
  BY DEF WindowInv, TypeOK, LoadSecrets_Resolve, Owned
<1> DEFINE Fits(k) ==
             /\ Put(t, k) /\ k.kind = th[t].kind /\ k.mine = th[t].mine
             /\ k.create = th[t].create /\ k.pc \notin {"create", "ok"}
             /\ k.pc = "read" => k.arg \in Vaults
<1>2. PICK k \in Task : Fits(k)
  <2>1. ASSUME NEW v \in Accessible, th' = [th EXCEPT ![t].pc = "read", ![t].arg = v]
        PROVE  \E k \in Task : Fits(k)
    <3>1. v \in Vaults
      BY DEF Accessible
    <3>2. Put(t, Resolved(th[t], v))
      BY <1>1, <2>1 DEF Put, Resolved, TypeOK
    <3> QED BY <1>1, <3>1, <3>2, ResolvedTask
  <2>2. ASSUME NEW pc \in {"none", "gone", "err"}, th' = [th EXCEPT ![t].pc = pc]
        PROVE  \E k \in Task : Fits(k)
    <3>1. Put(t, At(th[t], pc))
      BY <1>1, <2>2 DEF Put, At, TypeOK
    <3>2. pc \in {"run", "read", "create", "ok", "gone", "none", "err"}
      OBVIOUS
    <3> QED BY <1>1, <3>1, <3>2, AtTask
  <2>3. \/ \E v \in Accessible : th' = [th EXCEPT ![t].pc = "read", ![t].arg = v]
        \/ \E pc \in {"none", "gone", "err"} : th' = [th EXCEPT ![t].pc = pc]
    BY DEF LoadSecrets_Resolve
  <2> HIDE DEF Fits
  <2> QED BY <2>1, <2>2, <2>3
<1>3. TypeOK'
  BY <1>1, <1>2, PutTask DEF TypeOK, tables, history
<1>4. MadeOnce'
  BY <1>1, <1>2, MadeStep DEF WindowInv, tables, history
<1>5. ListFollows'
  BY <1>1, <1>2, ListSame DEF WindowInv, tables, history, SamePage, OwesTask
<1>6. GoesOn(t, k)
  BY <1>2 DEF GoesOn
<1> QED BY <1>1, <1>2, <1>3, <1>4, <1>5, <1>6, WorkStep

\* It reads the secrets of the vault it has found.
ReadBy(k, cards) == [k EXCEPT !.pc = "ok", !.cards = cards]
LEMMA ReadTask ==
    ASSUME NEW k \in Task, NEW cards \in SUBSET Secrets
    PROVE  /\ ReadBy(k, cards) \in Task /\ ReadBy(k, cards).pc = "ok"
           /\ ReadBy(k, cards).kind = k.kind /\ ReadBy(k, cards).mine = k.mine
           /\ ReadBy(k, cards).create = k.create /\ ReadBy(k, cards).arg = k.arg
           /\ ReadBy(k, cards).cards = cards
  BY DEF Task, ReadBy

LEMMA LoadSecretsReadKeeps ==
    ASSUME WindowInv, NEW t \in Threads, LoadSecrets_Read(t)
    PROVE  WindowInv'
<1>1. /\ TypeOK /\ th[t] \in Task /\ th[t].kind = "secrets" /\ th[t].pc = "read" /\ th[t].mine
      /\ th[t].arg \in Vaults
      /\ UNCHANGED <<tables, win, dl, sessions, changes, history>>
  BY DEF WindowInv, TypeOK, LoadSecrets_Read, Owned, Arguments
<1> DEFINE Fits(k) ==
             /\ Put(t, k) /\ k.kind = th[t].kind /\ k.mine = th[t].mine
             /\ k.create = th[t].create /\ k.pc \in {"ok", "err"} /\ k.arg = th[t].arg
             /\ k.pc = "ok" => k.cards = InTable(k.arg)
<1>2. PICK k \in Task : Fits(k)
  <2>1. ASSUME th' = [th EXCEPT ![t].pc = "ok",
                                ![t].cards = {s \in live : Home[s] = th[t].arg}]
        PROVE  \E k \in Task : Fits(k)
    <3>1. InTable(th[t].arg) \in SUBSET Secrets
      BY <1>1 DEF InTable, TypeOK
    <3>2. Put(t, ReadBy(th[t], InTable(th[t].arg)))
      BY <1>1, <2>1 DEF Put, ReadBy, InTable, TypeOK
    <3>3. PICK c \in SUBSET Secrets : c = InTable(th[t].arg)
      BY <3>1
    <3>4. PICK k \in Task : k = ReadBy(th[t], c)
      BY <1>1, ReadTask
    <3>5. /\ k.pc = "ok" /\ k.kind = th[t].kind /\ k.mine = th[t].mine
          /\ k.create = th[t].create /\ k.arg = th[t].arg /\ k.cards = c
      BY <1>1, <3>4, ReadTask
    <3>6. Put(t, k)
      BY <3>2, <3>3, <3>4
    <3> QED BY <3>3, <3>5, <3>6
  <2>2. ASSUME th' = [th EXCEPT ![t].pc = "err"]
        PROVE  \E k \in Task : Fits(k)
    <3>1. Put(t, At(th[t], "err"))
      BY <1>1, <2>2 DEF Put, At, TypeOK
    <3> QED BY <1>1, <3>1, AtTask
  <2> HIDE DEF Fits
  <2> QED BY <2>1, <2>2 DEF LoadSecrets_Read
<1>3. TypeOK'
  BY <1>1, <1>2, PutTask DEF TypeOK, tables, history
<1>4. MadeOnce'
  BY <1>1, <1>2, MadeStep DEF WindowInv, tables, history
<1>5. ListFollows'
  BY <1>1, <1>2, ListSame DEF WindowInv, tables, history, SamePage, OwesTask
<1>6. GoesOn(t, k)
  BY <1>2 DEF GoesOn
<1> QED BY <1>1, <1>2, <1>3, <1>4, <1>5, <1>6, WorkStep

BegunLoad(arg) == [NoTask EXCEPT !.kind = "secrets", !.mine = TRUE, !.arg = arg]
LEMMA BegunLoadTask ==
    ASSUME NEW arg \in Vaults \cup {None}
    PROVE  /\ BegunLoad(arg) \in Task /\ BegunLoad(arg).kind = "secrets"
           /\ BegunLoad(arg).mine /\ BegunLoad(arg).pc = "run"
  BY DEF Task, NoTask, BegunLoad

BegunSidebar(create) == [NoTask EXCEPT !.kind = "sidebar", !.mine = TRUE, !.create = create]
LEMMA BegunSidebarTask ==
    ASSUME NEW create \in BOOLEAN
    PROVE  /\ BegunSidebar(create) \in Task /\ BegunSidebar(create).kind = "sidebar"
           /\ BegunSidebar(create).mine /\ BegunSidebar(create).pc = "run"
           /\ BegunSidebar(create).create = create
  BY DEF Task, NoTask, BegunSidebar

\* refresh_secret_flow, whoever calls it.
LEMMA RefreshStep ==
    ASSUME WindowInv, NEW t \in Threads, NEW w \in Window, NEW threads,
           threads = th \/ threads = Ended(t),
           refresh_secret_flow(t, w, threads),
           win.open, SameLock(win, w),
           win.creating /\ ~w.creating => Creator(t),
           UNCHANGED <<tables, dl, sessions, changes, made>>
    PROVE  WindowInv'
<1> DEFINE k == BegunLoad(w.active)
<1>1. TypeOK /\ th[t] \in Task /\ th \in [Threads -> Task]
  BY DEF WindowInv, TypeOK
<1>2. k \in Task /\ k.kind = "secrets" /\ k.mine /\ k.pc = "run"
  BY WindowFields, BegunLoadTask
<1>3. Put(t, k)
  BY <1>1 DEF refresh_secret_flow, Ended, Put, BegunLoad
<1>4. clean' \in BOOLEAN /\ (clean' => \A u \in Threads : u # t => th[u].kind # "secrets")
  BY <1>1 DEF refresh_secret_flow, Ended
<1>5. win' \in Window /\ SameLock(win, win') /\ win'.page = "loading"
      /\ win'.creating = w.creating /\ win'.open = win.open
  BY LoadingWindow DEF refresh_secret_flow, Loading, SameLock
<1> HIDE DEF k
<1>6. TypeOK'
  BY <1>1, <1>2, <1>3, <1>4, <1>5, PutTask DEF TypeOK, tables
<1>7. Arguments' /\ Owned'
  BY <1>1, <1>2, <1>3, <1>5, ArgumentsStep, OwnedStep DEF WindowInv
<1>8. OneCreator'
  <2>1. ~CreatorTask(k) /\ k.pc # "create" /\ (win.creating /\ ~win'.creating => Creator(t))
    BY <1>2, <1>5 DEF CreatorTask
  <2> QED BY <1>1, <1>2, <1>3, <2>1, CreatorStep DEF WindowInv
<1>9. MadeOnce'
  BY <1>1, <1>2, <1>3, MadeStep DEF WindowInv, tables
<1>10. ListFollows'
  BY <1>1, <1>2, <1>3, <1>4, <1>5, ListRefresh
<1>11. TimerInForce' /\ CardsOfActiveVault' /\ LoadingIsAnswered'
  BY <1>2, <1>3, <1>5, PageStep
<1> QED BY <1>6, <1>7, <1>8, <1>9, <1>10, <1>11 DEF WindowInv

\* refresh_vault_sections, called when a task has been done.
LEMMA SidebarStep ==
    ASSUME WindowInv, NEW t \in Threads, NEW w \in Window,
           refresh_vault_sections(t, w, Ended(t)),
           win.open, SameLock(win, w), SamePage(win, w), w.creating = win.creating,
           w.active = win.active \/ w.active = None, th[t].kind # "secrets",
           UNCHANGED <<tables, dl, sessions, changes, history>>
    PROVE  WindowInv'
<1> DEFINE k == BegunSidebar(~w.creating)
<1>1. TypeOK /\ th[t] \in Task /\ th \in [Threads -> Task] /\ win \in Window
  BY DEF WindowInv, TypeOK
<1>2. k \in Task /\ k.kind = "sidebar" /\ k.mine /\ k.pc = "run" /\ k.create = ~w.creating
  BY BegunSidebarTask
<1>3. Put(t, k)
  BY <1>1 DEF refresh_vault_sections, Ended, Put, BegunSidebar
<1>4. /\ win' \in Window /\ SameLock(win, win') /\ SamePage(win, win') /\ win'.creating
      /\ win'.active = w.active /\ win'.open = win.open
  BY ClearedWindow DEF refresh_vault_sections, Cleared, SameLock, SamePage
<1> HIDE DEF k
<1>5. TypeOK'
  BY <1>1, <1>2, <1>3, <1>4, PutTask DEF TypeOK, tables, history
<1>6. Arguments' /\ Owned'
  BY <1>1, <1>2, <1>3, <1>4, ArgumentsStep, OwnedStep DEF WindowInv
<1>7. OneCreator'
  <2>1. CreatorTask(k) => ~win.creating
    BY <1>2 DEF CreatorTask
  <2> QED BY <1>1, <1>2, <1>3, <1>4, <2>1, CreatorStep DEF WindowInv
<1>8. MadeOnce'
  BY <1>1, <1>2, <1>3, MadeStep DEF WindowInv, tables, history
<1>9. ListFollows'
  BY <1>1, <1>2, <1>3, ListOwed DEF OwesTask
<1>10. TimerInForce' /\ CardsOfActiveVault' /\ LoadingIsAnswered'
  BY <1>2, <1>3, <1>4, PageStep
<1> QED BY <1>5, <1>6, <1>7, <1>8, <1>9, <1>10 DEF WindowInv

\* The first of some vaults is one of them.
LEMMA FirstVault ==
    ASSUME NEW S \in SUBSET Vaults
    PROVE  First(S) \in S \cup {None}
<1>1. S \subseteq Nat
  BY WindowConstants
<1>2. ASSUME S # {} PROVE \E x \in S : \A y \in S : x <= y
  <2> DEFINE R == OpToRel(<, Nat)
  <2>1. PICK x \in S : \A y \in S : ~(<<y, x>> \in R)
    <3> HIDE DEF R
    <3>1. IsWellFoundedOn(R, Nat)
      BY NatLessThanWellFounded, Zenon DEF R
    <3> QED BY <1>1, <1>2, <3>1, WFMin
  <2>2. \A y \in S : ~(y < x)
    BY <1>1, <2>1 DEF OpToRel
  <2>3. \A y \in S : x <= y
    BY <1>1, <2>2
  <2> QED BY <2>3
<1> QED BY <1>2 DEF First, Min

LEMMA ActiveVault ==
    ASSUME NEW w \in Window, NEW found \in SUBSET Vaults
    PROVE  ActiveAmong(w, found) \in Vaults \cup {None}
<1>1. First(found \cap Own) \in Vaults \cup {None}
  BY FirstVault
<1>2. First(found \cap Foreign) \in Vaults \cup {None}
  BY FirstVault
<1> HIDE DEF First
<1> QED BY <1>1, <1>2, WindowFields DEF ActiveAmong

LEMMA SidebarAnswerKeeps ==
    ASSUME WindowInv, NEW t \in Threads, SidebarAnswer(t)
    PROVE  WindowInv'
<1> DEFINE f == Filled(win, th[t])
           v == ActiveAmong(f, th[t].found)
           w == Selected(f, v)
<1>1. /\ TypeOK /\ th[t] \in Task /\ win \in Window /\ th[t].kind = "sidebar" /\ th[t].pc = "ok"
      /\ th[t].mine /\ win.open
  BY DEF WindowInv, TypeOK, SidebarAnswer, Owned
<1>2. f \in Window /\ SameLock(win, f) /\ f.creating = (win.creating /\ ~th[t].create)
  BY <1>1, FilledWindow
<1>3. refresh_secret_flow(t, w, Ended(t)) /\ UNCHANGED <<tables, dl, sessions, changes, made>>
  BY DEF SidebarAnswer, Filled, Selected
<1> HIDE DEF f
<1>4. v \in Vaults \cup {None}
  BY <1>1, <1>2, TaskFields, ActiveVault
<1> HIDE DEF v
<1>5. w \in Window /\ SameLock(f, w) /\ w.creating = f.creating
  BY <1>2, <1>4, SelectedWindow
<1> HIDE DEF w
<1>6. SameLock(win, w) /\ (win.creating /\ ~w.creating => Creator(t))
  BY <1>1, <1>2, <1>5 DEF SameLock, Creator
<1> QED BY <1>1, <1>3, <1>5, <1>6, RefreshStep

\* A thread ends, and with it what the window keeps for it, not the page.
LEMMA EndStep ==
    ASSUME WindowInv, TypeOK', NEW t \in Threads, th' = Ended(t),
           SameLock(win, win'), SamePage(win, win'), win'.active = win.active,
           win.creating /\ ~win'.creating => Creator(t),
           th[t].kind # "secrets", ~OwesTask(th[t]),
           UNCHANGED <<tables, history>>
    PROVE  WindowInv'
<1>1. TypeOK /\ Put(t, NoTask)
  BY DEF WindowInv, Ended, Put
<1>2. Arguments' /\ Owned'
  BY <1>1, NoTaskType, ArgumentsStep, OwnedStep DEF WindowInv, SameLock
<1>3. OneCreator'
  <2>1. ~CreatorTask(NoTask)
    BY NoTaskType DEF CreatorTask
  <2> QED BY <1>1, <2>1, NoTaskType, CreatorStep DEF WindowInv
<1>4. MadeOnce'
  BY <1>1, NoTaskType, MadeStep DEF WindowInv, tables, history
<1>5. ListFollows'
  BY <1>1, NoTaskType, ListSame DEF WindowInv, tables, history, SameLock
<1>6. TimerInForce' /\ CardsOfActiveVault' /\ LoadingIsAnswered'
  BY <1>1, NoTaskType, PageStep
<1> QED BY <1>2, <1>3, <1>4, <1>5, <1>6 DEF WindowInv

LEMMA SidebarFailedKeeps ==
    ASSUME WindowInv, NEW t \in Threads, SidebarFailed(t)
    PROVE  WindowInv'
<1>1. /\ TypeOK /\ th[t] \in Task /\ win \in Window /\ th[t].kind = "sidebar" /\ th[t].pc = "err"
      /\ th[t].mine /\ th' = Ended(t) /\ Put(t, NoTask)
      /\ UNCHANGED <<tables, dl, sessions, changes, history>>
  BY DEF WindowInv, TypeOK, SidebarFailed, Owned, Ended, Put
<1>2. /\ win' \in Window /\ SameLock(win, win') /\ SamePage(win, win')
      /\ win'.active = win.active /\ win'.creating = (win.creating /\ ~th[t].create)
  BY <1>1, FailedWindow DEF SidebarFailed, Failed
<1>3. TypeOK'
  BY <1>1, <1>2, NoTaskType, PutTask DEF TypeOK, tables, history
<1>4. (win.creating /\ ~win'.creating => Creator(t)) /\ ~OwesTask(th[t])
  BY <1>1, <1>2 DEF Creator, OwesTask
<1> QED BY <1>1, <1>2, <1>3, <1>4, EndStep

LEMMA SelectVaultKeeps ==
    ASSUME WindowInv, NEW t \in Threads, NEW v \in Vaults, SelectVault(t, v)
    PROVE  WindowInv'
<1> DEFINE w == Selected(win, v)
<1>1. TypeOK /\ win \in Window /\ win.open
  BY DEF WindowInv, TypeOK, SelectVault, Free
<1>2. refresh_secret_flow(t, w, th) /\ UNCHANGED <<tables, dl, sessions, changes, made>>
  BY DEF SelectVault, Selected
<1>3. w \in Window /\ SameLock(win, w) /\ w.creating = win.creating
  BY <1>1, SelectedWindow
<1> HIDE DEF w
<1> QED BY <1>1, <1>2, <1>3, RefreshStep

-----------------------------------------------------------------------------
(* The list of secrets and the tasks.                                      *)

LEMMA SecretsAnswerKeeps ==
    ASSUME WindowInv, NEW t \in Threads, SecretsAnswer(t)
    PROVE  WindowInv'
<1>1. /\ TypeOK /\ th[t] \in Task /\ win \in Window /\ th[t].kind = "secrets"
      /\ th[t].mine /\ Put(t, NoTask)
      /\ UNCHANGED <<tables, dl, sessions, changes, history>>
  BY DEF WindowInv, TypeOK, SecretsAnswer, Owned, Ended, Put
<1>2. th'[t] = NoTask /\ \A u \in Threads : u # t => th'[u] = th[u]
  BY <1>1, NoTaskType, PutTask
<1>3. /\ win' \in Window /\ SameLock(win, win') /\ win'.creating = win.creating
      /\ win'.page # "loading"
      /\ win'.page = "list" => /\ th[t].pc = "ok" /\ win'.active = win'.shows
                               /\ win'.shows = th[t].arg /\ win'.cards = th[t].cards
  <2>1. CASE th[t].pc = "ok"
    <3>1. th[t].arg \in Vaults
      BY <1>1, <2>1 DEF WindowInv, Arguments
    <3>2. win' = ShowCards(win, th[t])
      BY <2>1 DEF SecretsAnswer
    <3> QED BY <1>1, <2>1, <3>1, <3>2, ListWindow
  <2>2. CASE th[t].pc # "ok"
    <3>1. PICK w \in Window : win' = Message(w) /\ SameLock(win, w) /\ w.creating = win.creating
      <4>1. Selected(win, None) \in Window /\ SameLock(win, Selected(win, None))
            /\ Selected(win, None).creating = win.creating
        BY <1>1, SelectedWindow
      <4>2. win' = Message(Selected(win, None)) \/ win' = Message(win)
        BY <2>2 DEF SecretsAnswer, Selected
      <4> QED BY <1>1, <4>1, <4>2 DEF SameLock
    <3> QED BY <3>1, MessageWindow DEF SameLock
  <2> QED BY <2>1, <2>2
<1>4. TypeOK'
  BY <1>1, <1>3, NoTaskType, PutTask DEF TypeOK, tables, history
<1>5. Arguments' /\ Owned'
  BY <1>1, <1>3, NoTaskType, ArgumentsStep, OwnedStep DEF WindowInv, SameLock
<1>6. OneCreator'
  <2>1. ~CreatorTask(NoTask)
    BY NoTaskType DEF CreatorTask
  <2> QED BY <1>1, <1>3, <2>1, NoTaskType, CreatorStep DEF WindowInv
<1>7. MadeOnce'
  BY <1>1, NoTaskType, MadeStep DEF WindowInv, tables, history
<1>8. TimerInForce' /\ CardsOfActiveVault' /\ LoadingIsAnswered'
  BY <1>3 DEF WindowInv, TimerInForce, CardsOfActiveVault, LoadingIsAnswered, SameLock
<1>9. ListFollows'
  <2>1. \A u \in Threads : Owes(u) => Owes(u)'
    BY <1>1, <1>2 DEF Owes
  <2>2. \A v : InTable(v)' = InTable(v)
    BY <1>1 DEF InTable, tables
  <2>3. ASSUME clean', win'.page = "list"
        PROVE  win'.cards = InTable(win'.shows) \/ \E u \in Threads : Owes(u)'
    BY <1>1, <1>3, <2>1, <2>3 DEF WindowInv, ListFollows, history
  <2>4. ASSUME clean', NEW u \in Threads, th'[u].kind = "secrets", th'[u].pc = "ok"
        PROVE  th'[u].cards = InTable(th'[u].arg) \/ \E x \in Threads : Owes(x)'
    BY <1>1, <1>2, <2>1, <2>4, NoTaskType DEF WindowInv, ListFollows, history
  <2> QED BY <2>2, <2>3, <2>4 DEF ListFollows
<1> QED BY <1>4, <1>5, <1>6, <1>7, <1>8, <1>9 DEF WindowInv

\* A task is started; the window does not change.
LEMMA StartStep ==
    ASSUME WindowInv, NEW t \in Threads, NEW kind \in {"save", "trash", "drop"},
           NEW arg \in Vaults \cup Secrets, kind = "save" => arg \in Secrets,
           Free(t), th' = Start(t, kind, arg, FALSE),
           UNCHANGED <<tables, win, dl, sessions, changes, history>>
    PROVE  WindowInv'
<1> DEFINE k == Begun(kind, arg, FALSE)
<1>1. TypeOK /\ th[t] \in Task /\ win.open /\ th[t].kind = "idle"
  BY DEF WindowInv, TypeOK, Free, Idle
<1>2. k \in Task /\ k.kind = kind /\ k.mine /\ k.pc = "run" /\ k.arg = arg
  BY DEF Task, NoTask, Begun
<1>3. Put(t, k)
  BY DEF Start, Put, Begun
<1> HIDE DEF k
<1>4. TypeOK'
  BY <1>1, <1>2, <1>3, PutTask DEF TypeOK, tables, history
<1>5. Arguments' /\ Owned'
  BY <1>1, <1>2, <1>3, ArgumentsStep, OwnedStep DEF WindowInv
<1>6. OneCreator'
  <2>1. ~CreatorTask(k)
    BY <1>2 DEF CreatorTask
  <2> QED BY <1>1, <1>2, <1>3, <2>1, CreatorStep DEF WindowInv
<1>7. MadeOnce'
  BY <1>1, <1>2, <1>3, MadeStep DEF WindowInv, tables, history
<1>8. ListFollows'
  <2>1. ~OwesTask(th[t])
    BY <1>1 DEF OwesTask
  <2> QED BY <1>1, <1>2, <1>3, <2>1, ListSame DEF WindowInv, tables, history, SamePage
<1>9. TimerInForce' /\ CardsOfActiveVault' /\ LoadingIsAnswered'
  BY <1>1, <1>2, <1>3, PageStep DEF SameLock, SamePage
<1> QED BY <1>4, <1>5, <1>6, <1>7, <1>8, <1>9 DEF WindowInv

LEMMA UserTaskKeeps ==
    ASSUME WindowInv, NEW t \in Threads,
           \/ \E v \in Vaults : DeleteVault(t, v)
           \/ \E s \in Secrets : SaveSecret(t, s) \/ TrashSecret(t, s)
    PROVE  WindowInv'
<1>1. ASSUME NEW v \in Vaults, DeleteVault(t, v) PROVE WindowInv'
  BY <1>1, StartStep DEF DeleteVault
<1>2. ASSUME NEW s \in Secrets, SaveSecret(t, s) PROVE WindowInv'
  BY <1>2, StartStep DEF SaveSecret
<1>3. ASSUME NEW s \in Secrets, TrashSecret(t, s) PROVE WindowInv'
  BY <1>3, StartStep DEF TrashSecret
<1> QED BY <1>1, <1>2, <1>3

LEMMA DoTaskKeeps ==
    ASSUME WindowInv, NEW t \in Threads, DoTask(t)
    PROVE  WindowInv'
<1>1. /\ TypeOK /\ th[t] \in Task
      /\ th[t].kind \in {"save", "trash", "drop"} /\ th[t].pc = "run"
      /\ UNCHANGED <<stored, win, dl, sessions, changes, made>>
  BY DEF WindowInv, TypeOK, DoTask
<1>2. PICK pc \in {"ok", "err"} :
          /\ th' = Finished(t, pc)
          /\ \/ pc = "ok" /\ clean' = (clean /\ th[t].mine)
             \/ pc = "err" /\ UNCHANGED <<vault, live, clean>>
  BY DEF DoTask
<1>3. PICK k \in Task : /\ Put(t, k) /\ (th[t].mine => k = At(th[t], pc))
                        /\ (~th[t].mine => k = NoTask)
  BY <1>1, <1>2, FinishedTask
<1>4. /\ GoesOn(t, k) /\ k.pc # "create" /\ k.kind # "secrets"
      /\ k.pc \notin {"run", "create"} => k.mine
      /\ k.kind = "save" => k.arg \in Secrets
      /\ th[t].mine => k.mine /\ k.kind = th[t].kind /\ k.pc = pc
  <2>1. CASE th[t].mine
    <3>0. pc \in {"run", "read", "create", "ok", "gone", "none", "err"} /\ th[t] \in Task
      BY <1>1, <1>2
    <3>1. k = At(th[t], pc)
      BY <1>3, <2>1
    <3>2. k.pc = pc /\ k.kind = th[t].kind /\ k.arg = th[t].arg
      BY <3>0, <3>1 DEF At, Task
    <3>3. k.mine = th[t].mine
      BY <3>0, <3>1 DEF At, Task
    <3>4. k.create = th[t].create
      BY <3>0, <3>1 DEF At, Task
    <3>5. GoesOn(t, k)
      BY <3>2, <3>3, <3>4 DEF GoesOn
    <3> QED BY <1>1, <2>1, <3>2, <3>3, <3>5 DEF WindowInv, Arguments
  <2>2. CASE ~th[t].mine
    BY <1>3, <2>2, NoTaskType DEF GoesOn
  <2> QED BY <2>1, <2>2
<1>5. /\ vault' \in [Vaults -> {"unused", "live", "gone"}]
      /\ \A v \in Vaults : /\ vault[v] # "unused" => vault'[v] # "unused"
                           /\ vault'[v] = "live" => vault[v] = "live"
  BY <1>1 DEF DoTask, TypeOK
<1>6. live' \subseteq Secrets /\ clean' \in BOOLEAN
  <2>1. th[t].kind = "save" => th[t].arg \in Secrets
    BY DEF WindowInv, Arguments
  <2>2. live' \subseteq Secrets
    BY <1>1, <2>1 DEF DoTask, TypeOK
  <2>3. clean' \in BOOLEAN
    BY <1>1, <1>2 DEF TypeOK
  <2> QED BY <2>2, <2>3
<1>7. TypeOK'
  BY <1>1, <1>3, <1>5, <1>6, PutTask DEF TypeOK
<1>8. MadeOnce'
  <2>1. made \subseteq Vaults
    BY <1>1 DEF TypeOK, Vaults
  <2> QED BY <1>1, <1>3, <1>4, <1>5, <2>1, MadeStep DEF WindowInv
<1>9. ListFollows'
  <2>1. CASE pc = "ok"
    <3>1. clean' => OwesTask(k)
      BY <1>1, <1>2, <1>4, <2>1 DEF OwesTask
    <3> QED BY <1>1, <1>3, <3>1, ListOwed
  <2>2. CASE pc = "err"
    <3>1. ~OwesTask(th[t])
      BY <1>1 DEF OwesTask
    <3> QED BY <1>1, <1>2, <1>3, <1>4, <2>2, <3>1, ListSame DEF WindowInv, SamePage
  <2> QED BY <2>1, <2>2
<1> QED BY <1>1, <1>3, <1>4, <1>7, <1>8, <1>9, WorkStep

LEMMA TaskAnswerKeeps ==
    ASSUME WindowInv, NEW t \in Threads, TaskAnswer(t)
    PROVE  WindowInv'
<1>1. /\ TypeOK /\ th[t] \in Task /\ win \in Window
      /\ th[t].kind \in {"save", "trash", "drop"} /\ th[t].pc \in {"ok", "err"}
      /\ th[t].mine /\ win.open
      /\ UNCHANGED <<tables, dl, sessions, changes, made>>
  BY DEF WindowInv, TypeOK, TaskAnswer, Owned
<1>2. CASE th[t].pc = "err" /\ th' = Ended(t) /\ UNCHANGED <<win, clean>>
  <2>1. Put(t, NoTask) /\ ~OwesTask(th[t])
    BY <1>1, <1>2 DEF Ended, Put, OwesTask
  <2>2. TypeOK'
    BY <1>1, <1>2, <2>1, NoTaskType, PutTask DEF TypeOK, tables
  <2> QED BY <1>1, <1>2, <2>1, <2>2, EndStep DEF SameLock, SamePage, history
<1>3. CASE refresh_secret_flow(t, win, Ended(t))
  BY <1>1, <1>3, RefreshStep DEF SameLock
<1>4. CASE /\ refresh_vault_sections(t,
                [win EXCEPT !.active = IF @ = th[t].arg THEN None ELSE @], Ended(t))
           /\ UNCHANGED clean
  <2> DEFINE v == IF win.active = th[t].arg THEN None ELSE win.active
             w == Selected(win, v)
  <2>1. v \in Vaults \cup {None} /\ (v = win.active \/ v = None)
    BY <1>1, WindowFields
  <2>2. refresh_vault_sections(t, w, Ended(t))
    BY <1>4 DEF Selected
  <2> HIDE DEF v
  <2>3. w \in Window /\ SameLock(win, w) /\ SamePage(win, w) /\ w.active = v
        /\ w.creating = win.creating
    BY <1>1, <2>1, SelectedWindow
  <2> HIDE DEF w
  <2> QED BY <1>1, <1>4, <2>1, <2>2, <2>3, SidebarStep DEF history
<1> QED BY <1>2, <1>3, <1>4 DEF TaskAnswer

-----------------------------------------------------------------------------
(* Sessions, the lock delay and the others.                                *)

LockOK(w) == w.timer # 0 => w.open /\ w.armed /\ w.timer = w.delay

LEMMA ResetWindow ==
    ASSUME NEW w \in Window
    PROVE  LET x == reset_auto_lock_timer(w) IN
           /\ x \in Window /\ SamePage(w, x) /\ x.open = w.open /\ x.active = w.active
           /\ x.creating = w.creating /\ x.delay = w.delay /\ x.armed = w.armed
           /\ x.timer = IF ~w.armed \/ ~w.open \/ w.delay = 0 THEN w.timer ELSE w.delay
<1>1. CASE ~w.armed \/ ~w.open \/ w.delay = 0
  BY <1>1 DEF reset_auto_lock_timer, SamePage
<1>2. CASE ~(~w.armed \/ ~w.open \/ w.delay = 0)
  <2> DEFINE x == [w EXCEPT !.timer = w.delay]
  <2>1. reset_auto_lock_timer(w) = x
    BY <1>2 DEF reset_auto_lock_timer
  <2>2. /\ x \in Window /\ SamePage(w, x) /\ x.open = w.open /\ x.active = w.active
        /\ x.creating = w.creating /\ x.delay = w.delay /\ x.armed = w.armed
        /\ x.timer = w.delay
    BY DEF Window, SamePage
  <2> HIDE DEF x
  <2> QED BY <1>2, <2>1, <2>2
<1> QED BY <1>1, <1>2

LEMMA TimeoutWindow ==
    ASSUME NEW w \in Window, NEW mins \in Delays, LockOK(w)
    PROVE  LET x == set_auto_lock_timeout(w, mins) IN
           /\ x \in Window /\ SamePage(w, x) /\ x.open = w.open /\ x.active = w.active
           /\ x.creating = w.creating /\ LockOK(x)
<1>1. CASE mins = 0
  <2> DEFINE o == [w EXCEPT !.delay = 0]
             x == [o EXCEPT !.armed = FALSE, !.timer = 0]
  <2>1. o \in Window /\ SamePage(w, o) /\ o.open = w.open /\ o.active = w.active
        /\ o.creating = w.creating
    BY WindowConstants DEF Window, SamePage
  <2>2. set_auto_lock_timeout(w, mins) = x
    BY <1>1 DEF set_auto_lock_timeout, deactivate_auto_lock
  <2> HIDE DEF o
  <2>3. x \in Window /\ SamePage(o, x) /\ x.open = o.open /\ x.active = o.active
        /\ x.creating = o.creating /\ x.timer = 0
    BY <2>1, WindowConstants DEF Window, SamePage
  <2> HIDE DEF x
  <2> QED BY <2>1, <2>2, <2>3 DEF SamePage, LockOK
<1>2. CASE mins # 0
  <2> DEFINE o == [w EXCEPT !.delay = mins]
             x == reset_auto_lock_timer(o)
  <2>1. /\ o \in Window /\ SamePage(w, o) /\ o.open = w.open /\ o.active = w.active
        /\ o.creating = w.creating /\ o.armed = w.armed /\ o.timer = w.timer /\ o.delay = mins
    BY DEF Window, SamePage
  <2>2. set_auto_lock_timeout(w, mins) = x
    BY <1>2 DEF set_auto_lock_timeout
  <2> HIDE DEF o
  <2>3. /\ x \in Window /\ SamePage(o, x) /\ x.open = o.open /\ x.active = o.active
        /\ x.creating = o.creating /\ x.delay = o.delay /\ x.armed = o.armed
        /\ x.timer = IF ~o.armed \/ ~o.open \/ o.delay = 0 THEN o.timer ELSE o.delay
    BY <2>1, ResetWindow
  <2> HIDE DEF x
  <2>4. LockOK(x)
    BY <1>2, <2>1, <2>3 DEF LockOK
  <2> QED BY <2>1, <2>2, <2>3, <2>4 DEF SamePage
<1> QED BY <1>1, <1>2

\* The window a session begins with.
LEMMA OpenedWindow ==
    LET w == activate_auto_lock([Closed EXCEPT !.open = TRUE]) IN
    w \in Window /\ w.open /\ ~w.creating /\ w.page = "message" /\ LockOK(w)
<1> DEFINE o == [Closed EXCEPT !.open = TRUE]
           p == [o EXCEPT !.armed = TRUE]
           w == reset_auto_lock_timer(p)
<1>1. o \in Window /\ o.open /\ ~o.creating /\ o.page = "message" /\ o.timer = 0
      /\ o.delay = DefaultDelay
  BY WindowConstants DEF Window, Closed
<1>2. activate_auto_lock(o) = w
  BY <1>1, WindowConstants DEF activate_auto_lock
<1> HIDE DEF o
<1>3. p \in Window /\ p.open /\ ~p.creating /\ p.page = "message" /\ p.timer = 0
      /\ p.delay = DefaultDelay /\ p.armed
  BY <1>1 DEF Window
<1> HIDE DEF p
<1>4. w \in Window /\ w.open /\ ~w.creating /\ w.page = "message" /\ w.timer = w.delay /\ w.armed
  BY <1>3, ResetWindow, WindowConstants DEF SamePage
<1> HIDE DEF w
<1> QED BY <1>2, <1>4 DEF LockOK, o

LEMMA LoginKeeps ==
    ASSUME WindowInv, NEW t \in Threads, LoginSucceeds(t)
    PROVE  WindowInv'
<1> DEFINE w == activate_auto_lock([Closed EXCEPT !.open = TRUE])
           k == BegunSidebar(~w.creating)
<1>1. /\ TypeOK /\ th \in [Threads -> Task] /\ ~win.open
      /\ \A u \in Threads : /\ ~th[u].mine /\ th[u].kind # "secrets"
                            /\ th[u].pc \in {"run", "create"}
      /\ UNCHANGED <<tables, changes>> /\ made' = {} /\ clean' = TRUE
  BY DEF WindowInv, TypeOK, LoginSucceeds, Owned
<1>2. w \in Window /\ w.open /\ ~w.creating /\ w.page = "message" /\ LockOK(w)
  BY OpenedWindow
<1>3. refresh_vault_sections(t, w, th)
  BY DEF LoginSucceeds
<1> HIDE DEF w
<1>4. k \in Task /\ k.kind = "sidebar" /\ k.mine /\ k.pc = "run"
  BY BegunSidebarTask
<1>5. Put(t, k)
  BY <1>3 DEF refresh_vault_sections, Put, BegunSidebar
<1>6. /\ win' \in Window /\ win'.open /\ win'.creating /\ win'.page = "message"
      /\ LockOK(win')
  BY <1>2, <1>3, ClearedWindow DEF refresh_vault_sections, Cleared, SameLock, SamePage, LockOK
<1> HIDE DEF k
<1>7. /\ th' \in [Threads -> Task] /\ th'[t] = k
      /\ \A u \in Threads : u # t => th'[u] = th[u]
  BY <1>1, <1>4, <1>5, PutTask
<1>8. TypeOK'
  <2>1. sessions' \in 0..MaxSessions
    BY <1>1, WindowConstants DEF TypeOK, LoginSucceeds
  <2>2. dl' \in DelayTask
    BY WindowConstants DEF LoginSucceeds, NoDelay, DelayTask
  <2> QED BY <1>1, <1>6, <1>7, <2>1, <2>2 DEF TypeOK, tables
<1>9. Arguments' /\ Owned'
  BY <1>1, <1>4, <1>6, <1>7 DEF WindowInv, Arguments, Owned
<1>10. OneCreator'
  BY <1>1, <1>4, <1>6, <1>7 DEF WindowInv, OneCreator, Creator
<1>11. MadeOnce'
  BY <1>1 DEF MadeOnce, Live
<1>12. ListFollows'
  BY <1>1, <1>4, <1>6, <1>7 DEF ListFollows
<1>13. TimerInForce' /\ CardsOfActiveVault' /\ LoadingIsAnswered'
  BY <1>6 DEF TimerInForce, CardsOfActiveVault, LoadingIsAnswered, LockOK
<1> QED BY <1>8, <1>9, <1>10, <1>11, <1>12, <1>13 DEF WindowInv

\* What the end of a session leaves of the window and of a thread.
LEMMA EndedWindow ==
    ASSUME NEW w \in Window
    PROVE  LET c == clear_sensitive_session(w)
               x == [Closed EXCEPT !.open = c.open, !.cards = c.cards, !.delay = c.delay,
                                   !.armed = c.armed, !.timer = c.timer]
           IN  x \in Window /\ ~x.open /\ x.timer = 0
<1> DEFINE o == [w EXCEPT !.armed = FALSE, !.timer = 0]
           c == [o EXCEPT !.open = FALSE, !.cards = {}]
           x == [Closed EXCEPT !.open = c.open, !.cards = c.cards, !.delay = c.delay,
                               !.armed = c.armed, !.timer = c.timer]
<1>1. o \in Window /\ o.timer = 0
  BY WindowConstants DEF Window
<1>2. clear_sensitive_session(w) = c
  BY DEF clear_sensitive_session, deactivate_auto_lock
<1> HIDE DEF o
<1>3. c \in Window /\ ~c.open /\ c.timer = 0
  BY <1>1 DEF Window
<1> HIDE DEF c
<1>4. x \in Window /\ ~x.open /\ x.timer = 0
  BY <1>3, WindowConstants DEF Window, Closed
<1> HIDE DEF x
<1> QED BY <1>2, <1>4 DEF x

Orphan(k) == [k EXCEPT !.mine = FALSE]
LEMMA OrphanTask ==
    ASSUME NEW k \in Task
    PROVE  /\ Orphan(k) \in Task /\ ~Orphan(k).mine /\ Orphan(k).kind = k.kind
           /\ Orphan(k).pc = k.pc /\ Orphan(k).create = k.create /\ Orphan(k).arg = k.arg
  BY DEF Task, Orphan

LEMMA EndSessionKeeps ==
    ASSUME WindowInv, EndSession
    PROVE  WindowInv'
<1>1. /\ TypeOK /\ th \in [Threads -> Task] /\ win \in Window
      /\ UNCHANGED <<tables, sessions, changes, history>>
  BY DEF WindowInv, TypeOK, EndSession
<1>2. win' \in Window /\ ~win'.open /\ win'.timer = 0
  BY <1>1, EndedWindow DEF EndSession
<1>3. th' = [t \in Threads |-> IF Writes(th[t]) THEN Orphan(th[t]) ELSE NoTask]
  BY DEF EndSession, Orphan
<1>4. ASSUME NEW t \in Threads
      PROVE  /\ th'[t] \in Task /\ ~th'[t].mine
             /\ th'[t].pc \in {"run", "create"} /\ th'[t].kind # "secrets"
             /\ th'[t].kind = "save" => th'[t].arg \in Secrets
             /\ th'[t].pc = "create" => th'[t].kind = "sidebar" /\ th'[t].create
  <2>1. CASE Writes(th[t])
    <3>1. th'[t] = Orphan(th[t])
      BY <1>3, <2>1
    <3>2. th[t].pc \in {"run", "create"} /\ th[t].kind # "secrets"
      BY <2>1 DEF Writes
    <3>3. /\ th'[t] \in Task /\ ~th'[t].mine /\ th'[t].kind = th[t].kind
          /\ th'[t].pc = th[t].pc /\ th'[t].create = th[t].create /\ th'[t].arg = th[t].arg
      BY <1>1, <3>1, OrphanTask
    <3> QED BY <3>2, <3>3 DEF WindowInv, Arguments, OneCreator
  <2>2. CASE ~Writes(th[t])
    BY <1>3, <2>2, NoTaskType
  <2> QED BY <2>1, <2>2
<1>5. th' \in [Threads -> Task]
  BY <1>3, <1>4
<1>6. dl' \in DelayTask
  <2>1. NoDelay \in DelayTask
    BY WindowConstants DEF NoDelay, DelayTask
  <2>2. [dl EXCEPT !.mine = FALSE] \in DelayTask
    BY <1>1 DEF TypeOK, DelayTask
  <2> QED BY <2>1, <2>2 DEF EndSession
<1>7. TypeOK'
  BY <1>1, <1>2, <1>5, <1>6 DEF TypeOK, tables, history
<1>8. Arguments' /\ Owned'
  BY <1>2, <1>4 DEF Arguments, Owned
<1>9. OneCreator'
  BY <1>4 DEF OneCreator, Creator
<1>10. MadeOnce'
  BY <1>1, <1>4 DEF WindowInv, MadeOnce, Live, tables, history
<1>11. ListFollows'
  BY <1>2, <1>4 DEF ListFollows
<1>12. TimerInForce' /\ CardsOfActiveVault' /\ LoadingIsAnswered'
  BY <1>2 DEF TimerInForce, CardsOfActiveVault, LoadingIsAnswered
<1> QED BY <1>7, <1>8, <1>9, <1>10, <1>11, <1>12 DEF WindowInv

\* A step that leaves the window, its threads and what they look at alone.
LEMMA SameWindow ==
    ASSUME WindowInv, TypeOK', UNCHANGED <<vault, live, win, th, history>>
    PROVE  WindowInv'
<1>1. Arguments' /\ Owned' /\ OneCreator'
  BY DEF WindowInv, Arguments, Owned, OneCreator, Creator, history
<1>2. MadeOnce'
  BY DEF WindowInv, MadeOnce, Live, history
<1>3. ListFollows'
  BY DEF WindowInv, ListFollows, InTable, Owes, history
<1>4. TimerInForce' /\ CardsOfActiveVault' /\ LoadingIsAnswered'
  BY DEF WindowInv, TimerInForce, CardsOfActiveVault, LoadingIsAnswered
<1> QED BY <1>1, <1>2, <1>3, <1>4 DEF WindowInv

LEMMA DelayKeeps ==
    ASSUME WindowInv,
           \/ ReadDelay \/ update_auto_lock_delay
           \/ \E mins \in Delays : ChangeDelay(mins)
    PROVE  WindowInv'
<1>1. TypeOK /\ dl \in DelayTask /\ NoDelay \in DelayTask
  BY WindowConstants DEF WindowInv, TypeOK, NoDelay, DelayTask
<1>2. dl' \in DelayTask
  <2>1. CASE ReadDelay
    <3>1. [dl EXCEPT !.pc = "ok", !.mins = stored] \in DelayTask
      BY <1>1 DEF TypeOK, DelayTask
    <3> QED BY <1>1, <2>1, <3>1 DEF ReadDelay
  <2>2. CASE update_auto_lock_delay
    <3>1. [dl EXCEPT !.pc = "ok"] \in DelayTask
      BY <1>1 DEF DelayTask
    <3> QED BY <1>1, <2>2, <3>1 DEF update_auto_lock_delay
  <2>3. ASSUME NEW mins \in Delays, ChangeDelay(mins) PROVE dl' \in DelayTask
    BY <2>3 DEF ChangeDelay, DelayTask
  <2> QED BY <2>1, <2>2, <2>3
<1>3. /\ UNCHANGED <<vault, live, win, th, sessions, history>>
      /\ stored' \in Delays /\ changes' \in 0..MaxChanges
  BY <1>1, WindowConstants DEF TypeOK, ReadDelay, update_auto_lock_delay, ChangeDelay,
      tables, DelayTask
<1>4. TypeOK'
  BY <1>1, <1>2, <1>3 DEF TypeOK, history
<1> QED BY <1>3, <1>4, SameWindow

LEMMA DelayAnswerKeeps ==
    ASSUME WindowInv, DelayAnswer
    PROVE  WindowInv'
<1>1. /\ TypeOK /\ win \in Window /\ dl.mins \in Delays /\ LockOK(win)
      /\ UNCHANGED <<tables, th, sessions, changes, history>>
  BY DEF WindowInv, TypeOK, DelayTask, TimerInForce, LockOK, DelayAnswer
<1>2. /\ win' \in Window /\ SamePage(win, win') /\ win'.open = win.open
      /\ win'.active = win.active /\ win'.creating = win.creating /\ LockOK(win')
  BY <1>1, TimeoutWindow DEF DelayAnswer
<1>3. TypeOK'
  <2>1. dl' \in DelayTask
    BY WindowConstants DEF DelayAnswer, NoDelay, DelayTask
  <2> QED BY <1>1, <1>2, <2>1 DEF TypeOK, tables, history
<1>4. Arguments' /\ Owned' /\ OneCreator'
  BY <1>1, <1>2 DEF WindowInv, Arguments, Owned, OneCreator, Creator
<1>5. MadeOnce'
  BY <1>1 DEF WindowInv, MadeOnce, Live, tables, history
<1>6. ListFollows'
  BY <1>1, <1>2 DEF WindowInv, ListFollows, InTable, Owes, tables, history, SamePage
<1>7. TimerInForce' /\ CardsOfActiveVault' /\ LoadingIsAnswered'
  BY <1>1, <1>2 DEF WindowInv, TimerInForce, CardsOfActiveVault, LoadingIsAnswered,
      LockOK, SamePage
<1> QED BY <1>3, <1>4, <1>5, <1>6, <1>7 DEF WindowInv

LEMMA RevokeKeeps ==
    ASSUME WindowInv, OthersRevoke
    PROVE  WindowInv'
<1>1. /\ TypeOK /\ clean' = FALSE
      /\ UNCHANGED <<live, stored, win, th, dl, sessions, changes, made>>
  BY DEF WindowInv, OthersRevoke
<1>2. PICK v \in Foreign : vault' = [vault EXCEPT ![v] = "gone"]
  BY DEF OthersRevoke
<1>3. TypeOK'
  BY <1>1, <1>2 DEF TypeOK
<1>4. Arguments' /\ Owned' /\ OneCreator'
  BY <1>1 DEF WindowInv, Arguments, Owned, OneCreator, Creator
<1>5. MadeOnce'
  <2>1. made \subseteq Vaults
    BY <1>1 DEF TypeOK, Vaults
  <2>2. \A w \in made : vault'[w] = vault[w] \/ vault'[w] = "gone"
    BY <1>1, <1>2, <2>1 DEF TypeOK
  <2> QED BY <1>1, <2>2 DEF WindowInv, MadeOnce, Live
<1>6. ListFollows'
  BY <1>1 DEF ListFollows
<1>7. TimerInForce' /\ CardsOfActiveVault' /\ LoadingIsAnswered'
  BY <1>1 DEF WindowInv, TimerInForce, CardsOfActiveVault, LoadingIsAnswered
<1> QED BY <1>3, <1>4, <1>5, <1>6, <1>7 DEF WindowInv

-----------------------------------------------------------------------------
(* The theorems.                                                           *)

LEMMA InitWindow ==
    ASSUME Init PROVE WindowInv
<1>1. th \in [Threads -> Task] /\ \A t \in Threads : th[t] = NoTask
  BY NoTaskType DEF Init
<1>2. win = Closed /\ win \in Window /\ dl \in DelayTask
  BY ClosedType, WindowConstants DEF Init, NoDelay, DelayTask
<1>3. vault \in [Vaults -> {"unused", "live", "gone"}]
  BY DEF Init
<1>4. live \subseteq Secrets /\ stored \in Delays /\ sessions \in 0..MaxSessions
      /\ changes \in 0..MaxChanges /\ made = {} /\ clean = TRUE
  BY WindowConstants DEF Init
<1>5. TypeOK
  BY <1>1, <1>2, <1>3, <1>4 DEF TypeOK
<1>6. Arguments /\ Owned /\ OneCreator
  BY <1>1, NoTaskType DEF Arguments, Owned, OneCreator, Creator
<1>7. MadeOnce
  BY <1>4 DEF MadeOnce
<1>8. ListFollows
  BY <1>1, <1>2, NoTaskType, ClosedType DEF ListFollows
<1>9. TimerInForce /\ CardsOfActiveVault /\ LoadingIsAnswered
  BY <1>2, ClosedType DEF TimerInForce, CardsOfActiveVault, LoadingIsAnswered
<1> QED BY <1>5, <1>6, <1>7, <1>8, <1>9 DEF WindowInv

LEMMA NextWindow ==
    ASSUME WindowInv, [Next]_vars
    PROVE  WindowInv'
<1>1. CASE UNCHANGED vars
  <2>1. TypeOK'
    BY <1>1 DEF WindowInv, TypeOK, vars, tables, history
  <2> QED BY <1>1, <2>1, SameWindow DEF vars, tables
<1>2. ASSUME NEW t \in Threads, ThreadStep(t) PROVE WindowInv'
  BY <1>2, SidebarListKeeps, SidebarCreateKeeps, LoadSecretsResolveKeeps,
     LoadSecretsReadKeeps, DoTaskKeeps
     DEF ThreadStep
<1>3. ASSUME NEW t \in Threads, MainLoop(t) PROVE WindowInv'
  BY <1>3, SidebarAnswerKeeps, SidebarFailedKeeps, SecretsAnswerKeeps, TaskAnswerKeeps
     DEF MainLoop
<1>4. ASSUME NEW t \in Threads, UserStep(t) PROVE WindowInv'
  BY <1>4, LoginKeeps, SelectVaultKeeps, UserTaskKeeps DEF UserStep
<1>5. CASE trigger_logout \/ AutoLockFires
  BY <1>5, EndSessionKeeps DEF trigger_logout, AutoLockFires
<1> QED BY <1>1, <1>2, <1>3, <1>4, <1>5, DelayKeeps, DelayAnswerKeeps, RevokeKeeps DEF Next

LEMMA WindowKept == Spec => []WindowInv
<1>1. Init => WindowInv
  BY InitWindow
<1>2. WindowInv /\ [Next]_vars => WindowInv'
  BY NextWindow
<1> QED BY <1>1, <1>2, PTL DEF Spec

\* refresh_secret_flow: whatever the order in which the threads of a window
\* answer, and however many there are, the cards shown are those of the active
\* vault.
THEOREM CardsOfActive == Spec => []CardsOfActiveVault
<1>1. WindowInv => CardsOfActiveVault
  BY DEF WindowInv
<1> QED BY <1>1, WindowKept, PTL

\* auto_lock.rs: a timer belongs to an open window and has the delay in force,
\* so none of a session that has ended can end the next one.
THEOREM TimerKept == Spec => []TimerInForce
<1>1. WindowInv => TimerInForce
  BY DEF WindowInv
<1> QED BY <1>1, WindowKept, PTL

\* The loading page always has a thread that will replace it.
THEOREM LoadingEnds == Spec => []LoadingIsAnswered
<1>1. WindowInv => LoadingIsAnswered
  BY DEF WindowInv
<1> QED BY <1>1, WindowKept, PTL

\* default_vault_creation_in_progress: however often the sidebar is loaded
\* before the first answer, the window creates one default vault.
THEOREM DefaultVaultOnce == Spec => []OneDefaultVault
<1>1. WindowInv => OneDefaultVault
  <2> SUFFICES ASSUME WindowInv PROVE OneDefaultVault
    OBVIOUS
  <2> DEFINE S == {v \in made : vault[v] = "live"}
  <2>1. S = {} \/ \E v : S = {v}
    BY DEF WindowInv, MadeOnce, Live
  <2>2. Cardinality(S) <= 1
    <3> HIDE DEF S
    <3>1. CASE S = {}
      <4>1. Cardinality({}) = 0
        BY FS_EmptySet
      <4>2. Cardinality(S) = 0
        BY <3>1, <4>1, Zenon
      <4> QED BY <4>2
    <3>2. ASSUME NEW v, S = {v} PROVE Cardinality(S) <= 1
      <4>1. Cardinality({v}) = 1
        BY FS_Singleton
      <4>2. Cardinality(S) = 1
        BY <3>2, <4>1, Zenon
      <4> QED BY <4>2
    <3> QED BY <2>1, <3>1, <3>2
  <2> QED BY <2>2 DEF OneDefaultVault
<1> QED BY <1>1, WindowKept, PTL

\* Every operation of the window that changes the table ends in a load of the
\* list that began after it, for any number of threads: what is shown when
\* nothing is under way is what the table holds.
THEOREM ListKept == Spec => []ListIsCurrent
<1>1. WindowInv => ListIsCurrent
  BY DEF WindowInv, ListFollows, Owes, Owned, InTable, ListIsCurrent
<1> QED BY <1>1, WindowKept, PTL
=============================================================================
