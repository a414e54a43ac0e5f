-------------------------------- MODULE Login --------------------------------
(***************************************************************************)
(* Logging in: the two steps of ui/dialogs/login_dialog, the failure       *)
(* counters of services/auth_policy_service.rs and the second factor of    *)
(* services/totp_service.rs, with the profile page's actions that change   *)
(* what a login needs.                                                     *)
(*                                                                         *)
(* A submit or an edit of the username spawns a thread.  Its awaits are    *)
(* the steps of the model, so attempts interleave with one another and     *)
(* with the clock: every reading of the time is a step of its own.  The    *)
(* main loop handles a thread's answer in one step.  Enter emits "clicked" *)
(* on the button whether or not it is greyed out, so only the countdown    *)
(* keeps a second attempt from starting.                                   *)
(*                                                                         *)
(* A password is the number of the hash it matches, 0 one that matches     *)
(* none.  A code is the secret it was made with and the number of the time *)
(* step it was made for; MalformedCode is one with a wrong format.  Codes  *)
(* of different steps are different.  A name no user has is answered       *)
(* without any effect and left out.  Greeting, messages and the spinner    *)
(* are left out.                                                           *)
(***************************************************************************)
EXTENDS Integers, FiniteSets

CONSTANTS
    Users,
    Threads,
    None,
    MaxFailed,     \* MAX_FAILED_ATTEMPTS, 5
    LockWindow,    \* LOCK_WINDOW_SECS, 300
    BackoffMax,    \* BACKOFF_MAX_SECS, 30
    Step,          \* TOTP_STEP, 30
    Skew,          \* TOTP_SKEW, 1
    ReplayTTL,     \* TOTP_REPLAY_TTL_SECS, 3 * TOTP_STEP
    MaxDelay,      \* bound on the time from reading the clock to using it
    Horizon,       \* bound on the clock
    TypedSteps,    \* the time steps whose codes are typed
    MaxHash,       \* bound on the passwords a user ever has
    MaxSecret      \* bound on the TOTP secrets a user ever has

ASSUME NoneAssumption == None \notin Users
ASSUME ThreadsAssumption == IsFiniteSet(Threads)
ASSUME PolicyAssumption ==
    MaxFailed \in Nat \ {0} /\ LockWindow \in Nat /\ BackoffMax \in Nat
ASSUME TotpAssumption ==
    Step \in Nat \ {0} /\ Skew \in Nat /\ ReplayTTL \in Nat /\ TypedSteps \subseteq Nat
ASSUME BoundsAssumption ==
    /\ MaxDelay \in Nat /\ Horizon \in Nat
    /\ MaxHash \in Nat \ {0} /\ MaxSecret \in Nat

\* Arithmetic that the provers cannot do and TLC evaluates.
ASSUME PowersAssumption == \A k \in 0..30 : 2 ^ k \in Nat

VARIABLES
    now,       \* the wall clock, in seconds
    failed,    \* auth_policy.failed_attempts
    last,      \* auth_policy.last_attempt_at, Never for NULL
    hash,      \* the user's password hash
    totp,      \* users.totp_secret
    guard,     \* SqliteTotpService.replay_guard: when an entry expires
    dialog,    \* the login dialog on the screen
    windows,   \* how many main windows each user has open
    pc, req, live, stamp, answer,   \* the threads
    accepted,  \* history: the codes the guard let pass
    guesses    \* history: the failures of the last GuessWindow: when, which since a success

table   == <<failed, last, hash, totp>>
screen  == <<dialog, windows>>
history == <<accepted, guesses>>
vars == <<now, failed, last, hash, totp, guard, dialog, windows,
          pc, req, live, stamp, answer, accepted, guesses>>

Never   == -1
Time    == 0..Horizon
Hashes  == 1..MaxHash
Legacy  == -1      \* encrypted with the key of the development builds
NoKey   == 0       \* NULL
\* `key` is the hash the secret is encrypted with, `made` numbers the secrets.
Secrets == [key : {Legacy, NoKey} \cup Hashes, made : 0..MaxSecret]
MalformedCode == [made |-> 0, step |-> 0]
Codes   == {MalformedCode} \cup [made : 1..MaxSecret, step : TypedSteps]
NoReq   == [kind |-> "none", user |-> None, pw |-> 0, code |-> MalformedCode]
Requests == {NoReq} \cup [kind : {"credentials", "totp", "probe"}, user : Users,
                          pw : 0..MaxHash, code : Codes]
PCs == {"idle", "check", "verify", "has_totp", "open", "migrate", "guard_stamp",
        "guard", "derive", "reset", "record", "answer"}
Outcomes == {"none", "locked", "failed", "requires_totp", "success", "error", "clear"}
NoAnswer == [out |-> "none", left |-> 0]

Closed == [open |-> FALSE, step |-> "credentials", name |-> None, left |-> 0]
Fresh  == [open |-> TRUE,  step |-> "credentials", name |-> None, left |-> 0]

\* Types of the tables, the screen, the guard and the threads.
TypeOK ==
    /\ now \in Time
    /\ failed \in [Users -> Nat] /\ last \in [Users -> Time \cup {Never}]
    /\ hash \in [Users -> Hashes] /\ totp \in [Users -> Secrets]
    /\ guard \in [Users -> [Codes -> Nat]]
    /\ dialog \in [open : BOOLEAN, step : {"credentials", "totp"},
                   name : Users \cup {None}, left : Nat]
    /\ windows \in [Users -> Nat]
    /\ pc \in [Threads -> PCs] /\ req \in [Threads -> Requests]
    /\ live \in [Threads -> BOOLEAN] /\ stamp \in [Threads -> Time]
    /\ answer \in [Threads -> [out : Outcomes, left : Nat]]
    /\ accepted \in SUBSET [user : Users, code : Codes, stamp : Time, at : Time]
    /\ guesses \in [Users -> SUBSET (Time \X Nat)]

Init ==
    /\ now = 0
    /\ failed = [u \in Users |-> 0] /\ last = [u \in Users |-> Never]
    /\ hash = [u \in Users |-> 1]
    /\ totp \in [Users -> {[key |-> NoKey, made |-> 0]}
                          \cup {s \in Secrets : s.key = Legacy /\ s.made = 1}]
    /\ guard = [u \in Users |-> [c \in Codes |-> 0]]
    /\ dialog = Fresh
    /\ windows = [u \in Users |-> 0]
    /\ pc = [th \in Threads |-> "idle"] /\ req = [th \in Threads |-> NoReq]
    /\ live = [th \in Threads |-> FALSE]
    /\ stamp = [th \in Threads |-> 0]
    /\ answer = [th \in Threads |-> NoAnswer]
    /\ accepted = {}
    /\ guesses = [u \in Users |-> {}]

User(th) == req[th].user

\* What is left of the lock when last_attempt_at is as old as it can be.
GuessWindow == LockWindow - MaxDelay
Recent(g, n) == {x \in g : x[1] + GuessWindow > n}

-----------------------------------------------------------------------------
(* auth_policy_service.rs                                                   *)

Largest(a, b)  == IF a > b THEN a ELSE b
Smallest(a, b) == IF a < b THEN a ELSE b

\* 1, 2, 4, ... seconds, at most BackoffMax; the shift is clamped to 30.
backoff_delay_secs(n) ==
    IF n <= 0 THEN 0 ELSE Smallest(2 ^ Smallest(n - 1, 30), BackoffMax)

remaining_lock_secs(f, l) ==
    LET elapsed == now - l
        lock    == IF f >= MaxFailed /\ elapsed < LockWindow
                   THEN LockWindow - elapsed ELSE 0
    IN  IF l = Never THEN 0 ELSE Largest(lock, backoff_delay_secs(f) - elapsed)

\* Mutant: the threshold is off by one.
is_locked_Over(u) ==
    failed[u] > MaxFailed /\ remaining_lock_secs(failed[u], last[u]) > 0

is_locked(u) ==
    failed[u] >= MaxFailed /\ remaining_lock_secs(failed[u], last[u]) > 0

-----------------------------------------------------------------------------
(* The threads.                                                             *)

Goto(th, l) == pc' = [pc EXCEPT ![th] = l]

Reply(th, o, l) ==
    /\ Goto(th, "answer")
    /\ answer' = [answer EXCEPT ![th] = [out |-> o, left |-> l]]

\* What was tried is wrong: record_failed_attempt begins by reading the clock.
Fail(th) == Goto(th, "record") /\ stamp' = [stamp EXCEPT ![th] = now]

Spawn(th, r) ==
    /\ pc[th] = "idle"
    /\ Goto(th, "check")
    /\ req'  = [req EXCEPT ![th] = r]
    /\ live' = [live EXCEPT ![th] = TRUE]
    /\ UNCHANGED <<stamp, answer>>

\* get_state.  A locked account ends the attempt; the second step rejects a
\* malformed code before it asks the TOTP service.
Check(th) ==
    LET u == User(th) IN
    /\ pc[th] = "check"
    /\ \/ /\ is_locked(u)
          /\ Reply(th, "locked", remaining_lock_secs(failed[u], last[u]))
          /\ UNCHANGED stamp
       \/ /\ ~is_locked(u) /\ req[th].kind = "probe"
          /\ Reply(th, "clear", 0) /\ UNCHANGED stamp
       \/ /\ ~is_locked(u) /\ req[th].kind = "credentials"
          /\ Goto(th, "verify") /\ UNCHANGED <<stamp, answer>>
       \/ /\ ~is_locked(u) /\ req[th].kind = "totp" /\ req[th].code = MalformedCode
          /\ Fail(th) /\ UNCHANGED answer
       \/ /\ ~is_locked(u) /\ req[th].kind = "totp" /\ req[th].code # MalformedCode
          /\ Goto(th, "open") /\ UNCHANGED <<stamp, answer>>
    /\ UNCHANGED <<now, table, guard, screen, req, live, history>>

verify_password(th) ==
    /\ pc[th] = "verify"
    /\ IF req[th].pw = hash[User(th)]
       THEN Goto(th, "has_totp") /\ UNCHANGED stamp
       ELSE Fail(th)
    /\ UNCHANGED <<now, table, guard, screen, req, live, answer, history>>

is_totp_enabled_for_username(th) ==
    /\ pc[th] = "has_totp"
    /\ IF totp[User(th)].key = NoKey
       THEN Goto(th, "derive") /\ UNCHANGED answer
       ELSE Reply(th, "requires_totp", 0)
    /\ UNCHANGED <<now, table, guard, screen, req, live, stamp, history>>

\* The library's check_current: the code of this time step or one within Skew.
check_current(s, c) ==
    c.made = s.made /\ c.step \in (now \div Step - Skew)..(now \div Step + Skew)

\* verify_login_totp up to the code's check.  Without a secret any code will do;
\* a secret opens with the hash the password matches or with the key of the
\* development builds.
verify_login_totp(th) ==
    LET s == totp[User(th)]
        opens == req[th].pw = hash[User(th)] /\ check_current(s, req[th].code)
    IN  /\ pc[th] = "open"
        /\ \/ s.key = NoKey /\ Goto(th, "derive") /\ UNCHANGED stamp
           \/ s.key # NoKey /\ s.key = req[th].pw /\ opens
              /\ Goto(th, "guard_stamp") /\ UNCHANGED stamp
           \/ s.key = Legacy /\ opens /\ Goto(th, "migrate") /\ UNCHANGED stamp
           \/ s.key # NoKey /\ ~(s.key \in {req[th].pw, Legacy} /\ opens) /\ Fail(th)
        /\ UNCHANGED <<now, table, guard, screen, req, live, answer, history>>

\* A legacy secret is encrypted anew, and the login goes on if that UPDATE fails;
\* its code does not meet the replay guard.
Totp_Migrate(th) ==
    /\ pc[th] = "migrate"
    /\ \/ totp' = [totp EXCEPT ![User(th)] = [key |-> req[th].pw, made |-> req[th].code.made]]
       \/ UNCHANGED totp
    /\ Goto(th, "derive")
    /\ UNCHANGED <<now, failed, last, hash, guard, screen, req, live, stamp, answer, history>>

\* The second reading of the clock, before the mutex of the guard is taken.
Totp_Stamp(th) ==
    /\ pc[th] = "guard_stamp"
    /\ stamp' = [stamp EXCEPT ![th] = now]
    /\ Goto(th, "guard")
    /\ UNCHANGED <<now, table, guard, screen, req, live, answer, history>>

\* guard.retain: what is left of the guard at the time the thread has read.
Retained(th) ==
    [u \in Users |-> [c \in Codes |-> IF guard[u][c] > stamp[th] THEN guard[u][c] ELSE 0]]

\* Mutant: the entry lives for one time step.
ExpiresAt_Step(th) == stamp[th] + Step

ExpiresAt(th) == stamp[th] + ReplayTTL

\* Under the mutex: drop what has expired, reject what is there, add the rest.
reject_replay_and_record(th) ==
    LET u == User(th)
        c == req[th].code
        g == Retained(th)
    IN  /\ pc[th] = "guard"
        /\ IF g[u][c] # 0
           THEN guard' = g /\ Fail(th) /\ UNCHANGED accepted
           ELSE /\ guard' = [g EXCEPT ![u] = [g[u] EXCEPT ![c] = ExpiresAt(th)]]
                /\ accepted' = accepted \cup
                     {[user |-> u, code |-> c, stamp |-> stamp[th], at |-> now]}
                /\ stamp' = [stamp EXCEPT ![th] = 0]
                /\ Goto(th, "derive")
        /\ UNCHANGED <<now, table, screen, req, live, answer, guesses>>

\* derive_key_if_valid once more: if the password has changed meanwhile the
\* first step returns an error that nobody counts, the second a failure.
Derive(th) ==
    LET same == req[th].pw = hash[User(th)] IN
    /\ pc[th] = "derive"
    /\ \/ same /\ Goto(th, "reset") /\ UNCHANGED <<stamp, answer>>
       \/ /\ ~same /\ req[th].kind = "credentials"
          /\ Reply(th, "error", 0) /\ UNCHANGED stamp
       \/ ~same /\ req[th].kind = "totp" /\ Fail(th) /\ UNCHANGED answer
    /\ UNCHANGED <<now, table, guard, screen, req, live, history>>

reset_failed_attempts(th) ==
    /\ pc[th] = "reset"
    /\ failed' = [failed EXCEPT ![User(th)] = 0]
    /\ last'   = [last EXCEPT ![User(th)] = Never]
    /\ guesses' = [guesses EXCEPT ![User(th)] = {}]
    /\ Reply(th, "success", 0)
    /\ UNCHANGED <<now, hash, totp, guard, screen, req, live, stamp, accepted>>

\* record_failed_attempt adds one to the counter in a single UPDATE and reads
\* the row back for the countdown.  One step: only the countdown could differ.
record_failed_attempt(th) ==
    LET u == User(th) IN
    /\ pc[th] = "record"
    /\ failed' = [failed EXCEPT ![u] = @ + 1]
    /\ last'   = [last EXCEPT ![u] = stamp[th]]
    /\ guesses' = [guesses EXCEPT ![u] = Recent(@ \cup {<<stamp[th], failed'[u]>>}, now)]
    /\ stamp' = [stamp EXCEPT ![th] = 0]
    /\ Reply(th, "failed", remaining_lock_secs(failed[u] + 1, stamp[th]))
    /\ UNCHANGED <<now, hash, totp, guard, screen, req, live, accepted>>

-----------------------------------------------------------------------------
(* The dialog and the main window, on the main loop.                        *)

locals == <<stamp, answer>>

\* Every change of the text cancels a countdown and probes the new name.
EditUsername(th, u) ==
    /\ dialog.open /\ dialog.step = "credentials" /\ dialog.name # u
    /\ dialog' = [open |-> TRUE, step |-> "credentials", name |-> u, left |-> 0]
    /\ Spawn(th, [kind |-> "probe", user |-> u, pw |-> 0, code |-> MalformedCode])
    /\ UNCHANGED <<now, table, guard, windows, history>>

\* The text no longer names a user.
ClearUsername ==
    /\ dialog.open /\ dialog.step = "credentials" /\ dialog.name # None
    /\ dialog' = Fresh
    /\ UNCHANGED <<now, table, guard, windows, pc, req, live, locals, history>>

\* A bound: the windows of a double login are closed before the next attempt.
WindowsClosed == \A u \in Users : windows[u] = 0

SubmitCredentials(th, p) ==
    /\ WindowsClosed
    /\ dialog.open /\ dialog.step = "credentials" /\ dialog.left = 0
    /\ dialog.name # None
    /\ Spawn(th, [kind |-> "credentials", user |-> dialog.name, pw |-> p,
                  code |-> MalformedCode])
    /\ UNCHANGED <<now, table, guard, screen, history>>

handle_totp_submit(th, p, c) ==
    /\ WindowsClosed
    /\ dialog.open /\ dialog.step = "totp" /\ dialog.left = 0
    /\ dialog.name # None
    /\ Spawn(th, [kind |-> "totp", user |-> dialog.name, pw |-> p, code |-> c])
    /\ UNCHANGED <<now, table, guard, screen, history>>

TotpBack ==
    /\ dialog.open /\ dialog.step = "totp"
    /\ dialog' = [open |-> TRUE, step |-> "credentials", name |-> dialog.name,
                  left |-> dialog.left]
    /\ UNCHANGED <<now, table, guard, windows, pc, req, live, locals, history>>

\* The thread is gone, and with it all it knew.
Finish(th) ==
    /\ pc[th] = "answer"
    /\ Goto(th, "idle")
    /\ req' = [req EXCEPT ![th] = NoReq]
    /\ stamp' = [stamp EXCEPT ![th] = 0]
    /\ answer' = [answer EXCEPT ![th] = NoAnswer]
    /\ UNCHANGED <<now, table, guard, history>>

\* on_authenticated builds a main window, whether or not the dialog is still
\* there; the dialog that asked closes.
AnswerSuccess(th) ==
    /\ answer[th].out = "success"
    /\ Finish(th)
    /\ windows' = [windows EXCEPT ![User(th)] = @ + 1]
    /\ dialog' = IF live[th] THEN Closed ELSE dialog
    /\ live' = IF live[th] THEN [t \in Threads |-> FALSE] ELSE live

AnswerRequiresTotp(th) ==
    /\ answer[th].out = "requires_totp"
    /\ Finish(th)
    /\ dialog' = IF live[th] THEN [open |-> TRUE, step |-> "totp",
                                   name |-> dialog.name, left |-> dialog.left]
                 ELSE dialog
    /\ live' = [live EXCEPT ![th] = FALSE]
    /\ UNCHANGED windows

\* start_lock_countdown.  Only a probe compares its name with the text; a
\* failure without a delay leaves the dialog as it is.
AnswerRefused(th) ==
    /\ answer[th].out \in {"locked", "failed", "error", "clear"}
    /\ Finish(th)
    /\ dialog' = IF /\ live[th] /\ answer[th].left > 0
                    /\ req[th].kind = "probe" => User(th) = dialog.name
                 THEN [open |-> TRUE, step |-> dialog.step, name |-> dialog.name,
                       left |-> answer[th].left]
                 ELSE dialog
    /\ live' = [live EXCEPT ![th] = FALSE]
    /\ UNCHANGED windows

\* Mutant: the timer is not stopped at zero.
Countdown_Signed(l) == l - 1

Countdown(l) == Largest(l - 1, 0)

\* A second passes, for the countdown too.  No thread stays longer than MaxDelay
\* between reading the clock and the statement or mutex it read it for.
Tick ==
    /\ now < Horizon
    /\ \A th \in Threads : pc[th] \in {"guard", "record"} => now < stamp[th] + MaxDelay
    /\ now' = now + 1
    /\ dialog' = [open |-> dialog.open, step |-> dialog.step, name |-> dialog.name,
                  left |-> Countdown(dialog.left)]
    /\ guesses' = [u \in Users |-> Recent(guesses[u], now')]
    /\ accepted' = {a \in accepted : a.stamp + ReplayTTL > now'}
    /\ UNCHANGED <<table, guard, windows, pc, req, live, locals>>

\* A main window closes, by its user or by the auto-lock; the login is back.
Logout(u) ==
    /\ windows[u] > 0
    /\ windows' = [windows EXCEPT ![u] = @ - 1]
    /\ dialog' = Fresh
    /\ live' = [th \in Threads |-> FALSE]
    /\ UNCHANGED <<now, table, guard, pc, req, locals, history>>

\* Only the hash changes: the secret stays encrypted with the old one.
change_master_password(u) ==
    /\ windows[u] > 0 /\ hash[u] < MaxHash
    /\ hash' = [hash EXCEPT ![u] = @ + 1]
    /\ UNCHANGED <<now, failed, last, totp, guard, screen, pc, req, live, locals, history>>

enable_totp(u) ==
    /\ windows[u] > 0 /\ totp[u].key = NoKey /\ totp[u].made < MaxSecret
    /\ totp' = [totp EXCEPT ![u] = [key |-> hash[u], made |-> totp[u].made + 1]]
    /\ UNCHANGED <<now, failed, last, hash, guard, screen, pc, req, live, locals, history>>

disable_totp(u) ==
    /\ windows[u] > 0 /\ totp[u].key # NoKey
    /\ totp' = [totp EXCEPT ![u] = [key |-> NoKey, made |-> totp[u].made]]
    /\ UNCHANGED <<now, failed, last, hash, guard, screen, pc, req, live, locals, history>>

\* The process ends with its threads and its guard; the tables stay.
Restart ==
    /\ guard' = [u \in Users |-> [c \in Codes |-> 0]]
    /\ dialog' = Fresh
    /\ windows' = [u \in Users |-> 0]
    /\ pc' = [th \in Threads |-> "idle"] /\ req' = [th \in Threads |-> NoReq]
    /\ live' = [th \in Threads |-> FALSE]
    /\ stamp' = [th \in Threads |-> 0]
    /\ answer' = [th \in Threads |-> NoAnswer]
    /\ accepted' = {}
    /\ UNCHANGED <<now, table, guesses>>

-----------------------------------------------------------------------------

Continue(th) ==
    \/ Check(th) \/ verify_password(th) \/ is_totp_enabled_for_username(th)
    \/ verify_login_totp(th) \/ Totp_Migrate(th)
    \/ Totp_Stamp(th) \/ reject_replay_and_record(th)
    \/ Derive(th) \/ reset_failed_attempts(th) \/ record_failed_attempt(th)
    \/ AnswerSuccess(th) \/ AnswerRequiresTotp(th) \/ AnswerRefused(th)

\* The password typed is right or wrong at the time.
Passwords(u) == {0, hash[u]}

Start(th) ==
    \/ \E u \in Users : EditUsername(th, u)
    \/ \E u \in Users : \E p \in Passwords(u) :
         /\ dialog.name = u
         /\ \/ SubmitCredentials(th, p)
            \/ \E c \in Codes : handle_totp_submit(th, p, c)

Session(u) ==
    Logout(u) \/ change_master_password(u) \/ enable_totp(u) \/ disable_totp(u)

Next ==
    \/ \E th \in Threads : Start(th) \/ Continue(th)
    \/ \E u \in Users : Session(u)
    \/ ClearUsername \/ TotpBack \/ Tick \/ Restart

Spec == Init /\ [][Next]_vars

-----------------------------------------------------------------------------
(* Properties.                                                              *)

\* A code the replay guard has let pass is not let pass again, in one run of
\* the process, before ReplayTTL has gone by since the time the first thread
\* had read for it, however long threads wait between reading the clock and
\* taking the mutex of reject_replay_and_record.
ReplaySpaced ==
    \A a, b \in accepted :
        \/ a = b \/ a.user # b.user \/ a.code # b.code
        \/ a.at >= b.stamp + ReplayTTL \/ b.at >= a.stamp + ReplayTTL

\* Attempts of user u that are known to be wrong and not yet recorded.
Unrecorded(u) ==
    {th \in Threads : /\ pc[th] = "record" /\ User(th) = u
                      /\ stamp[th] + GuessWindow > now}

\* The lock bounds guessing: in any GuessWindow without a successful login at
\* most MaxFailed - 1 wrong passwords or codes are recorded before the lock, and
\* one for each attempt that had passed get_state before the lock was written.
\* Neither a restart, nor an edit of the username, nor a last_attempt_at written
\* out of order buys another.
GuessBudget ==
    \A u \in Users :
        Cardinality(guesses[u]) + Cardinality(Unrecorded(u)) <= MaxFailed - 1 + Cardinality(Threads)
=============================================================================
