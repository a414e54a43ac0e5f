---------------------------- MODULE LoginProofs ------------------------------
(***************************************************************************)
(* Theorems about Login for any number of users and threads, any policy    *)
(* constants and any delay between reading the clock and using it.         *)
(***************************************************************************)
EXTENDS Login, FiniteSetTheorems, TLAPS

LEMMA BackoffType == ASSUME NEW n \in Nat PROVE backoff_delay_secs(n) \in Nat
<1>1. CASE n = 0
  BY <1>1 DEF backoff_delay_secs
<1>2. CASE n > 0
  <2>1. Smallest(n - 1, 30) \in 0..30
    BY <1>2 DEF Smallest
  <2>2. 2 ^ Smallest(n - 1, 30) \in Nat
    BY <2>1, PowersAssumption
  <2> QED BY <1>2, <2>2, PolicyAssumption DEF backoff_delay_secs, Smallest
<1> QED BY <1>1, <1>2

\* remaining_lock_secs is never negative.
LEMMA RemainingType ==
    ASSUME NEW f \in Nat, NEW l \in Time \cup {Never}, now \in Time
    PROVE  remaining_lock_secs(f, l) \in Nat
<1>1. CASE l = Never
  BY <1>1 DEF remaining_lock_secs
<1>2. CASE l # Never
  <2> DEFINE elapsed == now - l
             lock == IF f >= MaxFailed /\ elapsed < LockWindow
                     THEN LockWindow - elapsed ELSE 0
  <2>1. l \in Int /\ now \in Int /\ elapsed \in Int
    BY <1>2 DEF Time, Never
  <2>2. lock \in Nat
    BY <2>1, PolicyAssumption
  <2>3. remaining_lock_secs(f, l) = Largest(lock, backoff_delay_secs(f) - elapsed)
    BY <1>2 DEF remaining_lock_secs
  <2> HIDE DEF lock, elapsed
  <2> QED BY <2>1, <2>2, <2>3, BackoffType DEF Largest
<1> QED BY <1>1, <1>2

\* A request names a user unless its thread is idle.
Busy == \A th \in Threads : pc[th] # "idle" => req[th] # NoReq

\* The threads alone: what every step but the main loop's keeps.
LEMMA ReplyTypes ==
    ASSUME TypeOK, NEW th \in Threads, NEW o \in Outcomes, NEW l \in Nat, Reply(th, o, l)
    PROVE  /\ pc' \in [Threads -> PCs]
           /\ answer' \in [Threads -> [out : Outcomes, left : Nat]]
  BY DEF TypeOK, Reply, Goto, PCs

LEMMA GotoTypes ==
    ASSUME TypeOK, NEW th \in Threads, NEW l \in PCs, Goto(th, l)
    PROVE  pc' \in [Threads -> PCs]
  BY DEF TypeOK, Goto

LEMMA FailTypes ==
    ASSUME TypeOK, NEW th \in Threads, Fail(th)
    PROVE  pc' \in [Threads -> PCs] /\ stamp' \in [Threads -> Time]
  BY DEF TypeOK, Fail, Goto, PCs

\* A step of thread th at another place than the start of a request.
LEMMA BusyStep ==
    ASSUME TypeOK, Busy, NEW th \in Threads, pc[th] # "idle",
           NEW l \in PCs, Goto(th, l), req' = req
    PROVE  Busy'
  BY DEF TypeOK, Busy, Goto

LEMMA UserType ==
    ASSUME TypeOK, Busy, NEW th \in Threads, pc[th] # "idle"
    PROVE  /\ User(th) \in Users /\ req[th].code \in Codes /\ req[th].pw \in 0..MaxHash
           /\ req[th].kind \in {"credentials", "totp", "probe"}
  BY DEF TypeOK, Busy, User, Requests

LEMMA RequestType ==
    ASSUME NEW k \in {"credentials", "totp", "probe"}, NEW u \in Users,
           NEW p \in 0..MaxHash, NEW c \in Codes
    PROVE  /\ [kind |-> k, user |-> u, pw |-> p, code |-> c] \in Requests
           /\ [kind |-> k, user |-> u, pw |-> p, code |-> c] # NoReq
  BY NoneAssumption DEF Requests, NoReq

LEMMA InitTypes == Init => TypeOK /\ Busy
<1> SUFFICES ASSUME Init PROVE TypeOK /\ Busy
  OBVIOUS
<1>1. now \in Time /\ 0 \in Time /\ 1 \in Hashes
  BY BoundsAssumption DEF Init, Time, Hashes
<1>2. totp \in [Users -> Secrets]
  BY BoundsAssumption DEF Init, Secrets, NoKey, Legacy
<1>3. dialog \in [open : BOOLEAN, step : {"credentials", "totp"},
                  name : Users \cup {None}, left : Nat]
  BY DEF Init, Fresh
<1>4. answer \in [Threads -> [out : Outcomes, left : Nat]]
  BY DEF Init, NoAnswer, Outcomes
<1>5. pc \in [Threads -> PCs] /\ req \in [Threads -> Requests] /\ Busy
  BY DEF Init, PCs, Requests, Busy
<1> QED BY <1>1, <1>2, <1>3, <1>4, <1>5 DEF Init, TypeOK

\* The steps of a thread keep the types.
LEMMA ThreadTypes ==
    ASSUME TypeOK, Busy, NEW th \in Threads, pc[th] # "idle", Continue(th)
    PROVE  TypeOK' /\ Busy'
<1> DEFINE u == User(th)
<1>0. /\ u \in Users /\ req[th].code \in Codes /\ req[th].pw \in 0..MaxHash
      /\ req[th].kind \in {"credentials", "totp", "probe"}
  BY UserType
<1>p. {"idle", "check", "verify", "has_totp", "open", "migrate", "guard_stamp",
        "guard", "derive", "reset", "record", "answer"} = PCs
  BY DEF PCs
<1>o. {"none", "locked", "failed", "requires_totp", "success", "error", "clear"} = Outcomes
  BY DEF Outcomes
<1>r. remaining_lock_secs(failed[u], last[u]) \in Nat
  BY <1>0, RemainingType DEF TypeOK
<1>z. 0 \in Time
  BY BoundsAssumption DEF Time
<1> HIDE DEF u
<1>1. CASE Check(th)
  <2>1. pc' \in [Threads -> PCs] /\ stamp' \in [Threads -> Time]
        /\ answer' \in [Threads -> [out : Outcomes, left : Nat]]
    BY <1>1, <1>o, <1>p, <1>r, ReplyTypes, GotoTypes, FailTypes DEF Check, u, TypeOK
  <2>2. \E l \in PCs : Goto(th, l)
    BY <1>1, <1>p DEF Check, Reply, Fail
  <2> QED BY <1>1, <2>1, <2>2, BusyStep DEF Check, TypeOK, table, screen, history
<1>2. CASE verify_password(th)
  <2>1. pc' \in [Threads -> PCs] /\ stamp' \in [Threads -> Time]
    BY <1>2, <1>p, GotoTypes, FailTypes DEF verify_password, TypeOK
  <2>2. \E l \in PCs : Goto(th, l)
    BY <1>2, <1>p DEF verify_password, Fail
  <2> QED BY <1>2, <2>1, <2>2, BusyStep DEF verify_password, TypeOK, table, screen, history
<1>3. CASE is_totp_enabled_for_username(th)
  <2>1. pc' \in [Threads -> PCs] /\ answer' \in [Threads -> [out : Outcomes, left : Nat]]
    BY <1>3, <1>p, <1>o, GotoTypes, ReplyTypes DEF is_totp_enabled_for_username, TypeOK
  <2>2. \E l \in PCs : Goto(th, l)
    BY <1>3, <1>p DEF is_totp_enabled_for_username, Reply
  <2> QED BY <1>3, <2>1, <2>2, BusyStep
          DEF is_totp_enabled_for_username, TypeOK, table, screen, history
<1>4. CASE verify_login_totp(th)
  <2>1. pc' \in [Threads -> PCs] /\ stamp' \in [Threads -> Time]
    BY <1>4, <1>p, GotoTypes, FailTypes DEF verify_login_totp, TypeOK
  <2>2. \E l \in PCs : Goto(th, l)
    BY <1>4, <1>p DEF verify_login_totp, Fail
  <2> QED BY <1>4, <2>1, <2>2, BusyStep DEF verify_login_totp, TypeOK, table, screen, history
<1>5. CASE Totp_Migrate(th)
  <2>1. pc' \in [Threads -> PCs]
    BY <1>5, <1>p, GotoTypes DEF Totp_Migrate
  <2>2. \E l \in PCs : Goto(th, l)
    BY <1>5, <1>p DEF Totp_Migrate
  <2>3. [key |-> req[th].pw, made |-> req[th].code.made] \in Secrets
    BY <1>0, BoundsAssumption DEF Secrets, Hashes, NoKey, Codes, MalformedCode
  <2>4. totp' \in [Users -> Secrets]
    BY <1>5, <2>3 DEF Totp_Migrate, TypeOK
  <2> QED BY <1>5, <2>1, <2>2, <2>4, BusyStep DEF Totp_Migrate, TypeOK, screen, history
<1>6. CASE Totp_Stamp(th)
  <2>1. pc' \in [Threads -> PCs] /\ stamp' \in [Threads -> Time]
    BY <1>6, <1>p, GotoTypes DEF Totp_Stamp, TypeOK
  <2>2. \E l \in PCs : Goto(th, l)
    BY <1>6, <1>p DEF Totp_Stamp
  <2> QED BY <1>6, <2>1, <2>2, BusyStep DEF Totp_Stamp, TypeOK, table, screen, history
<1>7. CASE reject_replay_and_record(th)
  <2>1. pc' \in [Threads -> PCs] /\ stamp' \in [Threads -> Time]
    <3>1. \/ Fail(th)
          \/ Goto(th, "derive") /\ stamp' = [stamp EXCEPT ![th] = 0]
      BY <1>7 DEF reject_replay_and_record
    <3> QED BY <3>1, <1>p, <1>z, GotoTypes, FailTypes DEF TypeOK
  <2>2. \E l \in PCs : Goto(th, l)
    BY <1>7, <1>p DEF reject_replay_and_record, Fail
  <2>3. Retained(th) \in [Users -> [Codes -> Nat]]
    BY DEF Retained, TypeOK
  <2>4. ExpiresAt(th) \in Nat
    BY TotpAssumption DEF ExpiresAt, TypeOK, Time
  <2>5. guard' \in [Users -> [Codes -> Nat]]
    <3> DEFINE g == Retained(th)
    <3> HIDE DEF g
    <3>1. guard' = g \/ guard' = [g EXCEPT ![u] = [g[u] EXCEPT ![req[th].code] = ExpiresAt(th)]]
      BY <1>7 DEF reject_replay_and_record, u, g
    <3>2. g \in [Users -> [Codes -> Nat]]
      BY <2>3 DEF g
    <3> QED BY <3>1, <3>2, <2>4, <1>0
  <2>6. [user |-> u, code |-> req[th].code, stamp |-> stamp[th], at |-> now]
          \in [user : Users, code : Codes, stamp : Time, at : Time]
    BY <1>0 DEF TypeOK
  <2>7. accepted' \in SUBSET [user : Users, code : Codes, stamp : Time, at : Time]
    BY <1>7, <2>6 DEF reject_replay_and_record, TypeOK, u
  <2> QED BY <1>7, <2>1, <2>2, <2>5, <2>7, BusyStep
          DEF reject_replay_and_record, TypeOK, table, screen
<1>8. CASE Derive(th)
  <2>1. pc' \in [Threads -> PCs] /\ stamp' \in [Threads -> Time]
        /\ answer' \in [Threads -> [out : Outcomes, left : Nat]]
    BY <1>8, <1>o, <1>p, ReplyTypes, GotoTypes, FailTypes DEF Derive, TypeOK
  <2>2. \E l \in PCs : Goto(th, l)
    BY <1>8, <1>p DEF Derive, Reply, Fail
  <2> QED BY <1>8, <2>1, <2>2, BusyStep DEF Derive, TypeOK, table, screen, history
<1>9. CASE reset_failed_attempts(th)
  <2>1. pc' \in [Threads -> PCs] /\ answer' \in [Threads -> [out : Outcomes, left : Nat]]
    BY <1>9, <1>o, ReplyTypes DEF reset_failed_attempts
  <2>2. \E l \in PCs : Goto(th, l)
    BY <1>9, <1>p DEF reset_failed_attempts, Reply
  <2>3. failed' \in [Users -> Nat] /\ last' \in [Users -> Time \cup {Never}]
        /\ guesses' \in [Users -> SUBSET (Time \X Nat)]
    BY <1>9 DEF reset_failed_attempts, TypeOK
  <2> QED BY <1>9, <2>1, <2>2, <2>3, BusyStep DEF reset_failed_attempts, TypeOK, screen
<1>10. CASE record_failed_attempt(th)
  <2>1. remaining_lock_secs(failed[u] + 1, stamp[th]) \in Nat
    BY <1>0, RemainingType DEF TypeOK
  <2>2. pc' \in [Threads -> PCs] /\ answer' \in [Threads -> [out : Outcomes, left : Nat]]
    BY <1>10, <1>o, <2>1, ReplyTypes DEF record_failed_attempt, u
  <2>3. \E l \in PCs : Goto(th, l)
    BY <1>10, <1>p DEF record_failed_attempt, Reply
  <2>4. failed' \in [Users -> Nat] /\ last' \in [Users -> Time \cup {Never}]
        /\ stamp' \in [Threads -> Time]
    BY <1>10, <1>0, <1>z DEF record_failed_attempt, TypeOK, u
  <2>5. guesses' \in [Users -> SUBSET (Time \X Nat)]
    <3>1. <<stamp[th], failed'[u]>> \in Time \X Nat
      BY <1>0, <2>4 DEF TypeOK
    <3>2. guesses' = [guesses EXCEPT
                        ![u] = Recent(guesses[u] \cup {<<stamp[th], failed'[u]>>}, now)]
      BY <1>10 DEF record_failed_attempt, u
    <3>3. Recent(guesses[u] \cup {<<stamp[th], failed'[u]>>}, now) \in SUBSET (Time \X Nat)
      BY <1>0, <3>1 DEF Recent, TypeOK
    <3> QED BY <3>2, <3>3 DEF TypeOK
  <2> QED BY <1>10, <2>2, <2>3, <2>4, <2>5, BusyStep DEF record_failed_attempt, TypeOK, screen
<1>11. ASSUME AnswerSuccess(th) \/ AnswerRequiresTotp(th) \/ AnswerRefused(th)
       PROVE  TypeOK' /\ Busy'
  <2>1. Finish(th)
    BY <1>11 DEF AnswerSuccess, AnswerRequiresTotp, AnswerRefused
  <2>2. pc' \in [Threads -> PCs]
    BY <2>1, <1>p, GotoTypes DEF Finish
  <2>3. req' \in [Threads -> Requests] /\ Busy'
    BY <2>1 DEF Finish, Goto, Requests, Busy, TypeOK
  <2>4. stamp' \in [Threads -> Time] /\ answer' \in [Threads -> [out : Outcomes, left : Nat]]
    BY <2>1, BoundsAssumption DEF Finish, TypeOK, Time, NoAnswer, Outcomes
  <2>5. live' \in [Threads -> BOOLEAN]
    BY <1>11 DEF AnswerSuccess, AnswerRequiresTotp, AnswerRefused, TypeOK
  <2>6. windows' \in [Users -> Nat]
    <3>1. \/ windows' = windows
          \/ windows' = [windows EXCEPT ![u] = windows[u] + 1]
      BY <1>11 DEF AnswerSuccess, AnswerRequiresTotp, AnswerRefused, u
    <3>2. windows \in [Users -> Nat]
      BY DEF TypeOK
    <3> QED BY <3>1, <3>2, <1>0
  <2>7. dialog' \in [open : BOOLEAN, step : {"credentials", "totp"},
                     name : Users \cup {None}, left : Nat]
    <3>1. CASE AnswerSuccess(th)
      BY <3>1 DEF AnswerSuccess, TypeOK, Closed
    <3>2. CASE AnswerRequiresTotp(th)
      BY <3>2 DEF AnswerRequiresTotp, TypeOK
    <3>3. CASE AnswerRefused(th)
      <4>1. answer[th].left \in Nat
        BY DEF TypeOK
      <4>2. \/ dialog' = dialog
            \/ dialog' = [open |-> TRUE, step |-> dialog.step, name |-> dialog.name,
                          left |-> answer[th].left]
        BY <3>3 DEF AnswerRefused
      <4>3. dialog \in [open : BOOLEAN, step : {"credentials", "totp"},
                        name : Users \cup {None}, left : Nat]
        BY DEF TypeOK
      <4>4. [open |-> TRUE, step |-> dialog.step, name |-> dialog.name,
             left |-> answer[th].left]
              \in [open : BOOLEAN, step : {"credentials", "totp"},
                   name : Users \cup {None}, left : Nat]
        BY <4>1, <4>3
      <4> QED BY <4>2, <4>3, <4>4
    <3> QED BY <1>11, <3>1, <3>2, <3>3
  <2> QED BY <2>1, <2>2, <2>3, <2>4, <2>5, <2>6, <2>7 DEF Finish, TypeOK, table, history
<1> QED BY <1>1, <1>2, <1>3, <1>4, <1>5, <1>6, <1>7, <1>8, <1>9, <1>10, <1>11 DEF Continue

\* The other steps: typing, submitting, the session, the clock and a restart.
LEMMA MainLoopTypes ==
    ASSUME TypeOK, Busy,
           \/ \E th \in Threads : Start(th)
           \/ \E u \in Users : Session(u)
           \/ ClearUsername \/ TotpBack \/ Tick \/ Restart
    PROVE  TypeOK' /\ Busy'
<1>p. "check" \in PCs /\ "idle" \in PCs /\ MalformedCode \in Codes /\ 0 \in 0..MaxHash
  BY BoundsAssumption DEF PCs, Codes
<1>h. \A u \in Users : hash[u] \in 0..MaxHash
  BY BoundsAssumption DEF TypeOK, Hashes
<1>z. 0 \in Time
  BY BoundsAssumption DEF Time
<1>s. ASSUME NEW th \in Threads, NEW r \in Requests, r # NoReq, Spawn(th, r)
      PROVE  /\ pc' \in [Threads -> PCs] /\ req' \in [Threads -> Requests]
             /\ live' \in [Threads -> BOOLEAN] /\ Busy' /\ UNCHANGED <<stamp, answer>>
  BY <1>s, <1>p DEF Spawn, Goto, TypeOK, Busy
<1>1. ASSUME NEW th \in Threads, NEW u \in Users, EditUsername(th, u)
      PROVE  TypeOK' /\ Busy'
  <2> DEFINE r == [kind |-> "probe", user |-> u, pw |-> 0, code |-> MalformedCode]
  <2>1. r \in Requests /\ r # NoReq
    BY <1>p, RequestType
  <2>2. Spawn(th, r)
    BY <1>1 DEF EditUsername
  <2>3. dialog' \in [open : BOOLEAN, step : {"credentials", "totp"},
                     name : Users \cup {None}, left : Nat]
    BY <1>1 DEF EditUsername
  <2> HIDE DEF r
  <2> QED BY <1>1, <1>s, <2>1, <2>2, <2>3 DEF EditUsername, TypeOK, table, history
<1>2. ASSUME NEW th \in Threads, NEW u \in Users, NEW p \in Passwords(u),
             dialog.name = u, SubmitCredentials(th, p)
      PROVE  TypeOK' /\ Busy'
  <2> DEFINE r == [kind |-> "credentials", user |-> dialog.name, pw |-> p,
                   code |-> MalformedCode]
  <2>1. r \in Requests /\ r # NoReq
    BY <1>2, <1>p, <1>h, RequestType DEF Passwords
  <2>2. Spawn(th, r)
    BY <1>2 DEF SubmitCredentials
  <2> HIDE DEF r
  <2> QED BY <1>2, <1>s, <2>1, <2>2 DEF SubmitCredentials, TypeOK, table, screen, history
<1>3. ASSUME NEW th \in Threads, NEW u \in Users, NEW p \in Passwords(u), NEW c \in Codes,
             dialog.name = u, handle_totp_submit(th, p, c)
      PROVE  TypeOK' /\ Busy'
  <2> DEFINE r == [kind |-> "totp", user |-> dialog.name, pw |-> p, code |-> c]
  <2>1. r \in Requests /\ r # NoReq
    BY <1>3, <1>p, <1>h, RequestType DEF Passwords
  <2>2. Spawn(th, r)
    BY <1>3 DEF handle_totp_submit
  <2> HIDE DEF r
  <2> QED BY <1>3, <1>s, <2>1, <2>2 DEF handle_totp_submit, TypeOK, table, screen, history
<1>4. CASE \E u \in Users : Session(u)
  <2>1. PICK u \in Users : Session(u)
    BY <1>4
  <2>2. CASE Logout(u)
    BY <2>2 DEF Logout, TypeOK, Busy, Fresh, table, locals, history
  <2>3. CASE change_master_password(u)
    <3>1. hash' \in [Users -> Hashes]
      BY <2>3, BoundsAssumption DEF change_master_password, TypeOK, Hashes
    <3> QED BY <2>3, <3>1
            DEF change_master_password, TypeOK, Busy, screen, locals, history
  <2>4. CASE enable_totp(u)
    <3>1. [key |-> hash[u], made |-> totp[u].made + 1] \in Secrets
      BY <2>4, BoundsAssumption DEF enable_totp, TypeOK, Secrets
    <3> QED BY <2>4, <3>1 DEF enable_totp, TypeOK, Busy, screen, locals, history
  <2>5. CASE disable_totp(u)
    <3>1. [key |-> NoKey, made |-> totp[u].made] \in Secrets
      BY DEF TypeOK, Secrets
    <3> QED BY <2>5, <3>1 DEF disable_totp, TypeOK, Busy, screen, locals, history
  <2> QED BY <2>1, <2>2, <2>3, <2>4, <2>5 DEF Session
<1>5. CASE ClearUsername
  BY <1>5 DEF ClearUsername, TypeOK, Busy, Fresh, table, locals, history
<1>6. CASE TotpBack
  <2>1. dialog' \in [open : BOOLEAN, step : {"credentials", "totp"},
                     name : Users \cup {None}, left : Nat]
    BY <1>6 DEF TotpBack, TypeOK
  <2> QED BY <1>6, <2>1 DEF TotpBack, TypeOK, Busy, table, locals, history
<1>7. CASE Tick
  <2>1. now' \in Time
    BY <1>7, BoundsAssumption DEF Tick, TypeOK, Time
  <2>2. dialog' \in [open : BOOLEAN, step : {"credentials", "totp"},
                     name : Users \cup {None}, left : Nat]
    <3>1. Countdown(dialog.left) \in Nat
      BY DEF TypeOK, Countdown, Largest
    <3> QED BY <1>7, <3>1 DEF Tick, TypeOK
  <2>3. guesses' \in [Users -> SUBSET (Time \X Nat)]
    BY <1>7 DEF Tick, TypeOK, Recent
  <2>4. accepted' \in SUBSET [user : Users, code : Codes, stamp : Time, at : Time]
    BY <1>7 DEF Tick, TypeOK
  <2> QED BY <1>7, <2>1, <2>2, <2>3, <2>4 DEF Tick, TypeOK, Busy, table, locals
<1>8. CASE Restart
  <2>1. answer' \in [Threads -> [out : Outcomes, left : Nat]]
    BY <1>8 DEF Restart, NoAnswer, Outcomes
  <2>2. req' \in [Threads -> Requests] /\ pc' \in [Threads -> PCs] /\ Busy'
    BY <1>8, <1>p DEF Restart, Requests, Busy
  <2>3. dialog' \in [open : BOOLEAN, step : {"credentials", "totp"},
                     name : Users \cup {None}, left : Nat]
    BY <1>8 DEF Restart, Fresh
  <2> QED BY <1>8, <1>z, <2>1, <2>2, <2>3 DEF Restart, TypeOK, table
<1> QED BY <1>1, <1>2, <1>3, <1>4, <1>5, <1>6, <1>7, <1>8 DEF Start

LEMMA NextTypes == TypeOK /\ Busy /\ [Next]_vars => TypeOK' /\ Busy'
<1> SUFFICES ASSUME TypeOK, Busy, [Next]_vars PROVE TypeOK' /\ Busy'
  OBVIOUS
<1>1. ASSUME NEW th \in Threads, Continue(th) PROVE TypeOK' /\ Busy'
  <2>1. pc[th] # "idle"
    BY <1>1 DEF Continue, Check, verify_password, is_totp_enabled_for_username,
       verify_login_totp, Totp_Migrate, Totp_Stamp, reject_replay_and_record, Derive,
       reset_failed_attempts, record_failed_attempt, AnswerSuccess, AnswerRequiresTotp,
       AnswerRefused, Finish
  <2> QED BY <1>1, <2>1, ThreadTypes
<1>2. CASE UNCHANGED vars
  BY <1>2 DEF vars, TypeOK, Busy
<1> QED BY <1>1, <1>2, MainLoopTypes DEF Next

\* Tables, screen, guard, threads and history keep their types; in particular
\* no countdown is ever negative.
THEOREM TypeCorrect == Spec => []TypeOK
<1> QED BY InitTypes, NextTypes, PTL DEF Spec

\* Times read lie in the past, and a code accepted less than ReplayTTL ago is in
\* the guard, under an entry that has not expired.
GuardInv ==
    /\ \A th \in Threads : stamp[th] <= now
    /\ \A a \in accepted :
          now < a.stamp + ReplayTTL => guard[a.user][a.code] >= a.stamp + ReplayTTL

ReplayInv == TypeOK /\ Busy /\ GuardInv /\ ReplaySpaced

\* Steps that leave the guard alone.
LEMMA GuardAlone ==
    ASSUME TypeOK, TypeOK', GuardInv, ReplaySpaced,
           guard' = guard, accepted' \subseteq accepted, now' >= now,
           \A th \in Threads : stamp'[th] <= now'
    PROVE  GuardInv' /\ ReplaySpaced'
<1>1. now \in Nat /\ now' \in Nat
  BY DEF TypeOK, Time
<1>2. \A a \in accepted' : now' < a.stamp + ReplayTTL =>
         guard'[a.user][a.code] >= a.stamp + ReplayTTL
  <2> SUFFICES ASSUME NEW a \in accepted', now' < a.stamp + ReplayTTL
               PROVE  guard'[a.user][a.code] >= a.stamp + ReplayTTL
    OBVIOUS
  <2>1. a.stamp \in Nat
    BY DEF TypeOK, Time
  <2> QED BY <1>1, <2>1, TotpAssumption DEF GuardInv
<1> QED BY <1>2 DEF GuardInv, ReplaySpaced

\* reject_replay_and_record: an entry that is dropped has expired by the clock,
\* so an acceptance it stood for is ReplayTTL old.
LEMMA GuardStep ==
    ASSUME TypeOK, Busy, GuardInv, ReplaySpaced, NEW th \in Threads,
           reject_replay_and_record(th)
    PROVE  GuardInv' /\ ReplaySpaced'
<1> DEFINE u == User(th)
           c == req[th].code
           g == Retained(th)
           new == [user |-> u, code |-> c, stamp |-> stamp[th], at |-> now]
<1>1. u \in Users /\ c \in Codes
  BY UserType DEF reject_replay_and_record
<1>2. now \in Nat /\ stamp[th] \in Nat /\ stamp[th] <= now /\ now' = now
  BY DEF TypeOK, GuardInv, reject_replay_and_record, Time
<1>3. \A a \in accepted : a.user \in Users /\ a.code \in Codes /\ a.stamp \in Nat
  BY DEF TypeOK, Time
<1>4. \A x \in Users, y \in Codes :
         guard[x][y] \in Nat /\ g[x][y] = (IF guard[x][y] > stamp[th] THEN guard[x][y] ELSE 0)
  BY DEF Retained, TypeOK
<1>5. \A a \in accepted : now < a.stamp + ReplayTTL =>
         g[a.user][a.code] >= a.stamp + ReplayTTL
  <2> SUFFICES ASSUME NEW a \in accepted, now < a.stamp + ReplayTTL
               PROVE  g[a.user][a.code] >= a.stamp + ReplayTTL
    OBVIOUS
  <2>1. guard[a.user][a.code] >= a.stamp + ReplayTTL
    BY DEF GuardInv
  <2> QED BY <1>2, <1>3, <1>4, <2>1, TotpAssumption
<1>6. g \in [Users -> [Codes -> Nat]]
  BY DEF Retained, TypeOK
<1>7. \A t \in Threads : stamp'[t] <= now'
  <2>1. \E x \in {now, 0} : stamp' = [stamp EXCEPT ![th] = x]
    BY DEF reject_replay_and_record, Fail
  <2> QED BY <1>2, <2>1 DEF TypeOK, GuardInv
<1>8. CASE g[u][c] # 0
  <2>1. guard' = g /\ accepted' = accepted
    BY <1>8 DEF reject_replay_and_record
  <2> HIDE DEF g, u, c
  <2> QED BY <1>2, <1>5, <1>7, <2>1 DEF GuardInv, ReplaySpaced
<1>9. CASE g[u][c] = 0
  <2>1. /\ guard' = [g EXCEPT ![u] = [g[u] EXCEPT ![c] = ExpiresAt(th)]]
        /\ accepted' = accepted \cup {new}
    BY <1>9 DEF reject_replay_and_record
  <2>2. new.user = u /\ new.code = c /\ new.stamp = stamp[th] /\ new.at = now
    OBVIOUS
  <2> HIDE DEF g, u, c, new
  <2>3. \A a \in accepted : a.user = u /\ a.code = c => now >= a.stamp + ReplayTTL
    BY <1>2, <1>3, <1>5, <1>9, TotpAssumption
  <2>4. /\ guard'[u][c] = stamp[th] + ReplayTTL
        /\ \A x \in Users, y \in Codes : x # u \/ y # c => guard'[x][y] = g[x][y]
    BY <1>1, <1>6, <2>1 DEF ExpiresAt
  <2>5. GuardInv'
    <3> SUFFICES ASSUME NEW a \in accepted', now < a.stamp + ReplayTTL
                 PROVE  guard'[a.user][a.code] >= a.stamp + ReplayTTL
      BY <1>2, <1>7 DEF GuardInv
    <3>1. CASE a = new
      BY <1>2, <2>2, <2>4, <3>1, TotpAssumption
    <3>2. CASE a \in accepted
      <4>1. a.user # u \/ a.code # c
        BY <1>2, <1>3, <2>3, <3>2, TotpAssumption
      <4> QED BY <1>3, <1>5, <2>4, <3>2, <4>1
    <3> QED BY <2>1, <3>1, <3>2
  <2>6. ReplaySpaced'
    BY <2>1, <2>2, <2>3 DEF ReplaySpaced
  <2> QED BY <2>5, <2>6
<1> QED BY <1>8, <1>9

LEMMA GuardNext == ReplayInv /\ [Next]_vars => ReplayInv'
<1> SUFFICES ASSUME TypeOK, Busy, GuardInv, ReplaySpaced, [Next]_vars PROVE ReplayInv'
  BY DEF ReplayInv
<1>1. TypeOK' /\ Busy'
  BY NextTypes
<1>n. now \in Nat /\ now' \in Nat
  BY <1>1 DEF TypeOK, Time
<1>s. ASSUME guard' = guard, accepted' = accepted, now' = now, NEW th \in Threads,
             NEW x \in {0, now}, stamp' = [stamp EXCEPT ![th] = x] \/ stamp' = stamp
      PROVE  GuardInv' /\ ReplaySpaced'
  <2>0. stamp \in [Threads -> Time] /\ \A t \in Threads : stamp[t] <= now
    BY DEF TypeOK, GuardInv
  <2>1. \A t \in Threads : stamp'[t] <= now'
    BY <1>s, <1>n, <2>0
  <2> QED BY <1>1, <1>n, <1>s, <2>1, GuardAlone
<1>2. ASSUME NEW th \in Threads, Continue(th) PROVE GuardInv' /\ ReplaySpaced'
  <2>1. CASE reject_replay_and_record(th)
    BY <2>1, GuardStep
  <2>2. CASE ~reject_replay_and_record(th)
    <3>1. guard' = guard /\ accepted' = accepted /\ now' = now
      BY <1>2, <2>2 DEF Continue, Check, verify_password, is_totp_enabled_for_username,
         verify_login_totp, Totp_Migrate, Totp_Stamp, Derive, reset_failed_attempts,
         record_failed_attempt, AnswerSuccess, AnswerRequiresTotp, AnswerRefused,
         Finish, history
    <3>2. \E x \in {0, now} : stamp' = [stamp EXCEPT ![th] = x] \/ stamp' = stamp
      BY <1>2, <2>2 DEF Continue, Check, verify_password, is_totp_enabled_for_username,
         verify_login_totp, Totp_Migrate, Totp_Stamp, Derive, reset_failed_attempts,
         record_failed_attempt, AnswerSuccess, AnswerRequiresTotp, AnswerRefused,
         Finish, Fail
    <3> QED BY <1>s, <3>1, <3>2
  <2> QED BY <2>1, <2>2
<1>3. ASSUME NEW th \in Threads, Start(th) PROVE GuardInv' /\ ReplaySpaced'
  <2>1. guard' = guard /\ accepted' = accepted /\ now' = now /\ stamp' = stamp
    BY <1>3 DEF Start, EditUsername, SubmitCredentials, handle_totp_submit, Spawn, history
  <2> QED BY <1>s, <2>1
<1>4. ASSUME \/ \E u \in Users : Session(u)
             \/ ClearUsername \/ TotpBack \/ Tick
      PROVE  GuardInv' /\ ReplaySpaced'
  <2>1. guard' = guard /\ accepted' \subseteq accepted /\ now' >= now /\ stamp' = stamp
    BY <1>4, <1>n DEF Session, Logout, change_master_password, enable_totp, disable_totp,
       ClearUsername, TotpBack, Tick, locals, history
  <2>2. \A th \in Threads : stamp'[th] <= now'
    BY <1>n, <2>1 DEF TypeOK, GuardInv, Time
  <2> QED BY <1>1, <2>1, <2>2, GuardAlone
<1>5. ASSUME Restart PROVE GuardInv' /\ ReplaySpaced'
  BY <1>5, <1>n DEF Restart, GuardInv, ReplaySpaced
<1>6. ASSUME UNCHANGED vars PROVE GuardInv' /\ ReplaySpaced'
  BY <1>6 DEF vars, GuardInv, ReplaySpaced
<1>7. GuardInv' /\ ReplaySpaced'
  BY <1>2, <1>3, <1>4, <1>5, <1>6 DEF Next
<1> QED BY <1>1, <1>7 DEF ReplayInv

\* The replay guard keeps its promise for every number of attempts at a time and
\* every delay between a thread's reading of the clock and its turn at the mutex.
THEOREM ReplayGuardHolds == Spec => []ReplaySpaced
<1>1. Init => ReplayInv
  BY InitTypes DEF Init, ReplayInv, GuardInv, ReplaySpaced
<1>2. ReplayInv => ReplaySpaced
  BY DEF ReplayInv
<1> QED BY <1>1, <1>2, GuardNext, PTL DEF Spec

-----------------------------------------------------------------------------
(* The lock.                                                                *)

\* Attempts of user u that get_state has let pass and that are not over.
Admitted(u) ==
    {th \in Threads : pc[th] \notin {"idle", "check", "answer"} /\ User(th) = u}

\* A failure is recorded at most MaxDelay after the time it is recorded with, so
\* no failure in the window is more than MaxDelay later than last_attempt_at.
TimesInv ==
    /\ \A th \in Threads : pc[th] = "record" => now <= stamp[th] + MaxDelay
    /\ \A u \in Users : failed[u] > 0 => last[u] # Never
    /\ \A u \in Users : \A x \in guesses[u] :
          x[1] <= now /\ now < x[1] + GuessWindow /\ x[1] <= last[u] + MaxDelay

\* The counter has counted every failure of the window under a number of its own;
\* once it has reached MaxFailed, only the attempts already admitted can add one.
CountInv ==
    \A u \in Users :
        /\ IsFiniteSet(guesses[u]) /\ Cardinality(guesses[u]) <= failed[u]
        /\ \A x \in guesses[u] : x[2] <= failed[u]
        /\ failed[u] >= MaxFailed =>
             Cardinality(guesses[u]) + Cardinality(Admitted(u))
               <= MaxFailed - 1 + Cardinality(Threads)

BudgetInv == ReplayInv /\ TimesInv /\ CountInv

\* An account with MaxFailed failures is let pass only LockWindow after the last.
LEMMA UnlockedLate ==
    ASSUME TypeOK, NEW u \in Users, failed[u] >= MaxFailed, last[u] # Never, ~is_locked(u)
    PROVE  now >= last[u] + LockWindow
<1>1. now \in Int /\ last[u] \in Nat /\ failed[u] \in Nat
  BY DEF TypeOK, Time
<1> DEFINE lock == IF failed[u] >= MaxFailed /\ now - last[u] < LockWindow
                   THEN LockWindow - (now - last[u]) ELSE 0
           rest == backoff_delay_secs(failed[u]) - (now - last[u])
<1>2. remaining_lock_secs(failed[u], last[u]) = Largest(lock, rest)
  BY DEF remaining_lock_secs
<1>3. lock \in Int /\ rest \in Int
  BY <1>1, BackoffType, PolicyAssumption
<1>4. ~(Largest(lock, rest) > 0)
  BY <1>2 DEF is_locked
<1>5. lock <= 0
  <2> HIDE DEF lock, rest
  <2> QED BY <1>3, <1>4 DEF Largest
<1> QED BY <1>1, <1>5, PolicyAssumption

\* By then no failure of the window is left.
LEMMA UnlockedEmpty ==
    ASSUME TypeOK, TimesInv, NEW u \in Users, failed[u] >= MaxFailed, ~is_locked(u)
    PROVE  guesses[u] = {}
<1>1. failed[u] > 0 /\ last[u] # Never
  BY PolicyAssumption DEF TypeOK, TimesInv
<1>2. now >= last[u] + LockWindow
  BY <1>1, UnlockedLate
<1>3. now \in Int /\ last[u] \in Nat
  BY <1>1 DEF TypeOK, Time
<1>4. ASSUME NEW x \in guesses[u] PROVE FALSE
  <2>1. x[1] \in Nat
    BY DEF TypeOK, Time
  <2>2. now < x[1] + GuessWindow /\ x[1] <= last[u] + MaxDelay
    BY DEF TimesInv
  <2> QED BY <1>2, <1>3, <2>1, <2>2, PolicyAssumption, BoundsAssumption DEF GuessWindow
<1> QED BY <1>4

LEMMA ThreadSets ==
    ASSUME NEW S \in SUBSET Threads
    PROVE  /\ IsFiniteSet(S) /\ Cardinality(S) \in Nat /\ Cardinality(Threads) \in Nat
           /\ Cardinality(S) <= Cardinality(Threads)
  BY ThreadsAssumption, FS_Subset, FS_CardinalityType

LEMMA AdmittedSet == \A u : Admitted(u) \in SUBSET Threads /\ Admitted(u)' \in SUBSET Threads
  BY DEF Admitted

\* Steps that leave the counter alone, and admit an attempt only below MaxFailed or
\* when the window is empty.
LEMMA BudgetAlone ==
    ASSUME TypeOK, TypeOK', TimesInv, CountInv,
           failed' = failed, last' = last, now' >= now,
           \A u \in Users : /\ guesses'[u] \subseteq guesses[u]
                            /\ \A x \in guesses'[u] : now' < x[1] + GuessWindow
                            /\ \/ Admitted(u)' \subseteq Admitted(u)
                               \/ failed[u] < MaxFailed \/ guesses[u] = {},
           \A th \in Threads : pc'[th] = "record" => now' <= stamp'[th] + MaxDelay
    PROVE  TimesInv' /\ CountInv'
<1>1. TimesInv'
  <2> SUFFICES ASSUME NEW u \in Users, NEW x \in guesses'[u]
               PROVE  x[1] <= now' /\ now' < x[1] + GuessWindow /\ x[1] <= last'[u] + MaxDelay
    BY DEF TimesInv
  <2>1. x \in guesses[u] /\ x[1] \in Int /\ now \in Int /\ now' \in Int
    BY DEF TypeOK, Time
  <2>2. x[1] <= now /\ x[1] <= last[u] + MaxDelay
    BY <2>1 DEF TimesInv
  <2> QED BY <2>1, <2>2
<1>2. CountInv'
  <2> SUFFICES ASSUME NEW u \in Users
               PROVE  /\ IsFiniteSet(guesses'[u]) /\ Cardinality(guesses'[u]) <= failed'[u]
                      /\ \A x \in guesses'[u] : x[2] <= failed'[u]
                      /\ failed'[u] >= MaxFailed =>
                           Cardinality(guesses'[u]) + Cardinality(Admitted(u)')
                             <= MaxFailed - 1 + Cardinality(Threads)
    BY DEF CountInv
  <2>1. /\ IsFiniteSet(guesses[u]) /\ Cardinality(guesses[u]) <= failed[u]
        /\ \A x \in guesses[u] : x[2] <= failed[u]
        /\ failed[u] >= MaxFailed =>
             Cardinality(guesses[u]) + Cardinality(Admitted(u))
               <= MaxFailed - 1 + Cardinality(Threads)
    BY DEF CountInv
  <2>2. /\ IsFiniteSet(guesses'[u]) /\ Cardinality(guesses'[u]) <= Cardinality(guesses[u])
        /\ Cardinality(guesses'[u]) \in Nat /\ Cardinality(guesses[u]) \in Nat
    BY <2>1, FS_Subset, FS_CardinalityType
  <2>3. /\ IsFiniteSet(Admitted(u)) /\ Cardinality(Admitted(u)) \in Nat
        /\ Cardinality(Threads) \in Nat
    BY AdmittedSet, ThreadSets
  <2>4. /\ Cardinality(Admitted(u)') <= Cardinality(Threads)
        /\ Cardinality(Admitted(u)') \in Nat
    BY AdmittedSet, ThreadSets
  <2>5. failed[u] \in Nat /\ failed'[u] = failed[u]
    BY DEF TypeOK
  <2>6. CASE Admitted(u)' \subseteq Admitted(u)
    <3>1. Cardinality(Admitted(u)') <= Cardinality(Admitted(u))
      BY <2>3, <2>6, FS_Subset
    <3> QED BY <2>1, <2>2, <2>3, <2>4, <2>5, <3>1, PolicyAssumption
  <2>7. CASE failed[u] < MaxFailed
    BY <2>1, <2>2, <2>5, <2>7, PolicyAssumption
  <2>8. CASE guesses[u] = {}
    <3>1. Cardinality(guesses'[u]) = 0
      BY <2>2, <2>8, FS_EmptySet
    <3> QED BY <2>1, <2>2, <2>3, <2>4, <2>5, <3>1, PolicyAssumption
  <2> QED BY <2>6, <2>7, <2>8
<1> QED BY <1>1, <1>2

\* A step of one thread at which it stays out of Admitted, or was in it.
LEMMA AdmittedStep ==
    ASSUME TypeOK, NEW th \in Threads, NEW l \in PCs, Goto(th, l),
           \/ req' = req /\ pc[th] \notin {"idle", "check", "answer"}
           \/ /\ l \in {"idle", "check", "answer"}
              /\ \A t \in Threads : t # th => req'[t] = req[t]
    PROVE  \A u : Admitted(u)' \subseteq Admitted(u)
<1>1. pc'[th] = l /\ \A t \in Threads : t # th => pc'[t] = pc[t]
  BY DEF TypeOK, Goto
<1> QED BY <1>1 DEF Admitted, User

\* The same for the attempts that are to be recorded: they are so in time.
LEMMA TimelyStep ==
    ASSUME TypeOK, TimesInv, now' = now, NEW th \in Threads, NEW l \in PCs, Goto(th, l),
           \A t \in Threads : t # th => stamp'[t] = stamp[t],
           l = "record" => stamp'[th] = now
    PROVE  \A t \in Threads : pc'[t] = "record" => now' <= stamp'[t] + MaxDelay
<1>1. pc'[th] = l /\ \A t \in Threads : t # th => pc'[t] = pc[t]
  BY DEF TypeOK, Goto
<1>2. now \in Nat
  BY DEF TypeOK, Time
<1> QED BY <1>1, <1>2, BoundsAssumption DEF TimesInv

\* get_state: an attempt on an account with MaxFailed failures passes only after
\* the window has emptied.
LEMMA BudgetCheck ==
    ASSUME TypeOK, TypeOK', Busy, TimesInv, CountInv, NEW th \in Threads, Check(th)
    PROVE  TimesInv' /\ CountInv'
<1> DEFINE u == User(th)
<1>1. u \in Users
  BY UserType DEF Check
<1>2. /\ failed' = failed /\ last' = last /\ now' = now /\ guesses' = guesses /\ req' = req
      /\ pc[th] = "check"
  BY DEF Check, table, history
<1>3. PICK l \in PCs :
        /\ Goto(th, l) /\ (l = "answer" \/ ~is_locked(u))
        /\ \A t \in Threads : t # th => stamp'[t] = stamp[t]
        /\ l = "record" => stamp'[th] = now
  <2>1. stamp' = stamp \/ stamp' = [stamp EXCEPT ![th] = now]
    BY DEF Check, Fail
  <2>2. \A t \in Threads : t # th => stamp'[t] = stamp[t]
    BY <2>1 DEF TypeOK
  <2>3. \E l \in PCs : /\ Goto(th, l) /\ (l = "answer" \/ ~is_locked(u))
                       /\ l = "record" => stamp' = [stamp EXCEPT ![th] = now]
    BY DEF Check, Reply, Fail, PCs
  <2> QED BY <2>2, <2>3 DEF TypeOK
<1>4. \A t \in Threads : pc'[t] = "record" => now' <= stamp'[t] + MaxDelay
  BY <1>2, <1>3, TimelyStep
<1>5. ASSUME NEW v \in Users
      PROVE  \/ Admitted(v)' \subseteq Admitted(v)
             \/ failed[v] < MaxFailed \/ guesses[v] = {}
  <2>1. CASE l = "answer"
    BY <1>2, <1>3, <2>1, AdmittedStep
  <2>2. CASE v # u
    <3>1. \A t \in Threads : t # th => pc'[t] = pc[t]
      BY <1>3 DEF TypeOK, Goto
    <3> QED BY <1>2, <2>2, <3>1 DEF Admitted, User
  <2>3. CASE v = u /\ ~is_locked(u)
    <3>1. failed[u] \in Nat
      BY <1>1 DEF TypeOK
    <3> HIDE DEF u
    <3> QED BY <2>3, <3>1, UnlockedEmpty, PolicyAssumption
  <2> QED BY <1>3, <2>1, <2>2, <2>3
<1>6. \A v \in Users : \A x \in guesses[v] : now < x[1] + GuessWindow
  BY DEF TimesInv
<1>7. now' >= now
  BY <1>2 DEF TypeOK, Time
<1> HIDE DEF u
<1> QED BY <1>2, <1>4, <1>5, <1>6, <1>7, BudgetAlone

\* The other steps that leave the tables' counters alone.
LEMMA BudgetThread ==
    ASSUME TypeOK, TypeOK', TimesInv, CountInv, NEW th \in Threads,
           \/ verify_password(th) \/ is_totp_enabled_for_username(th)
           \/ verify_login_totp(th) \/ Totp_Migrate(th)
           \/ Totp_Stamp(th) \/ reject_replay_and_record(th) \/ Derive(th)
           \/ AnswerSuccess(th) \/ AnswerRequiresTotp(th) \/ AnswerRefused(th)
    PROVE  TimesInv' /\ CountInv'
<1>1. /\ failed' = failed /\ last' = last /\ now' = now /\ guesses' = guesses
  BY DEF verify_password, is_totp_enabled_for_username, verify_login_totp, Totp_Migrate,
         Totp_Stamp, reject_replay_and_record, Derive, AnswerSuccess, AnswerRequiresTotp,
         AnswerRefused, Finish, table, history
<1>2. \/ req' = req /\ pc[th] \notin {"idle", "check", "answer"}
      \/ Finish(th)
  BY DEF verify_password, is_totp_enabled_for_username, verify_login_totp, Totp_Migrate,
         Totp_Stamp, reject_replay_and_record, Derive, AnswerSuccess, AnswerRequiresTotp,
         AnswerRefused
<1>3. \A t \in Threads : t # th => stamp'[t] = stamp[t]
  <2>1. \E x \in {0, now} : stamp' = [stamp EXCEPT ![th] = x] \/ stamp' = stamp
    BY DEF verify_password, is_totp_enabled_for_username, verify_login_totp, Totp_Migrate,
           Totp_Stamp, reject_replay_and_record, Derive, AnswerSuccess, AnswerRequiresTotp,
           AnswerRefused, Finish, Fail
  <2> QED BY <2>1 DEF TypeOK
<1>4. PICK l \in PCs : /\ Goto(th, l)
                       /\ l = "record" => stamp'[th] = now
                       /\ Finish(th) => l = "idle"
  <2>1. \E l \in PCs : /\ Goto(th, l)
                       /\ l = "record" => stamp' = [stamp EXCEPT ![th] = now]
                       /\ l = "idle" \/ pc[th] # "answer"
    BY DEF verify_password, is_totp_enabled_for_username, verify_login_totp, Totp_Migrate,
           Totp_Stamp, reject_replay_and_record, Derive, AnswerSuccess, AnswerRequiresTotp,
           AnswerRefused, Finish, Fail, Reply, PCs
  <2>2. Finish(th) => pc[th] = "answer"
    BY DEF Finish
  <2> QED BY <2>1, <2>2 DEF TypeOK
<1>5. \A t \in Threads : pc'[t] = "record" => now' <= stamp'[t] + MaxDelay
  BY <1>1, <1>3, <1>4, TimelyStep
<1>6. \A v : Admitted(v)' \subseteq Admitted(v)
  <2>1. Finish(th) => \A t \in Threads : t # th => req'[t] = req[t]
    BY DEF Finish, TypeOK
  <2> QED BY <1>2, <1>4, <2>1, AdmittedStep
<1>7. \A v \in Users : \A x \in guesses[v] : now < x[1] + GuessWindow
  BY DEF TimesInv
<1>8. now' >= now
  BY <1>1 DEF TypeOK, Time
<1> QED BY <1>1, <1>5, <1>6, <1>7, <1>8, BudgetAlone

\* Every failure recorded within the window adds exactly one to what is counted.
LEMMA FailureCounted ==
    ASSUME TypeOK, Busy, CountInv, NEW th \in Threads, record_failed_attempt(th),
           now < stamp[th] + GuessWindow,
           \A x \in guesses[User(th)] : now < x[1] + GuessWindow
    PROVE  Cardinality(guesses'[User(th)]) = Cardinality(guesses[User(th)]) + 1
<1> DEFINE u == User(th)
           g == guesses[u]
           new == <<stamp[th], failed'[u]>>
<1>1. u \in Users
  BY UserType DEF record_failed_attempt
<1>2. failed[u] \in Nat /\ failed'[u] = failed[u] + 1
  BY <1>1 DEF TypeOK, record_failed_attempt
<1>3. IsFiniteSet(g) /\ \A x \in g : x[2] \in Nat /\ x[2] <= failed[u]
  BY <1>1 DEF CountInv, TypeOK
<1>4. new[1] = stamp[th] /\ new[2] = failed[u] + 1
  BY <1>2
<1>5. guesses'[u] = Recent(g \cup {new}, now)
  BY <1>1 DEF record_failed_attempt, TypeOK
<1>6. \A x \in g \cup {new} : now < x[1] + GuessWindow
  BY <1>4
<1>7. now \in Int /\ GuessWindow \in Int /\ \A x \in g \cup {new} : x[1] \in Int
  BY <1>1, <1>4, PolicyAssumption, BoundsAssumption DEF TypeOK, Time, GuessWindow
<1> HIDE DEF u, g, new
<1>8. Recent(g \cup {new}, now) = g \cup {new}
  BY <1>6, <1>7 DEF Recent
<1>9. new \notin g
  BY <1>2, <1>3, <1>4
<1> QED BY <1>3, <1>5, <1>8, <1>9, FS_AddElement DEF g, u

\* record_failed_attempt moves its attempt from the admitted ones to the window.
LEMMA BudgetRecord ==
    ASSUME TypeOK, TypeOK', Busy, GuardInv, TimesInv, CountInv, NEW th \in Threads,
           record_failed_attempt(th)
    PROVE  TimesInv' /\ CountInv'
<1>1. PICK u \in Users : u = User(th)
  BY UserType DEF record_failed_attempt
<1> DEFINE g == guesses[u]
           new == <<stamp[th], failed'[u]>>
<1>2. /\ failed[u] \in Nat /\ failed'[u] = failed[u] + 1
      /\ last'[u] = stamp[th] /\ guesses'[u] = Recent(g \cup {new}, now)
      /\ \A v \in Users : v # u =>
           failed'[v] = failed[v] /\ last'[v] = last[v] /\ guesses'[v] = guesses[v]
  BY <1>1 DEF TypeOK, record_failed_attempt
<1>3. /\ now' = now /\ req' = req /\ pc[th] = "record" /\ Goto(th, "answer")
      /\ stamp' = [stamp EXCEPT ![th] = 0]
  BY DEF record_failed_attempt, Reply
<1>4. /\ now \in Nat /\ stamp[th] \in Nat /\ stamp[th] <= now /\ now <= stamp[th] + MaxDelay
      /\ GuessWindow \in Int
  BY <1>3, PolicyAssumption, BoundsAssumption DEF TypeOK, Time, GuardInv, TimesInv, GuessWindow
<1>5. new[1] = stamp[th] /\ new[2] = failed[u] + 1
  BY <1>2
<1>6. \A x \in g : /\ x[1] \in Nat /\ x[2] \in Nat /\ x[1] <= now /\ x[2] <= failed[u]
  BY <1>1 DEF TypeOK, Time, TimesInv, CountInv
<1>7. \A v : Admitted(v)' \subseteq Admitted(v)
  BY <1>3, AdmittedStep DEF PCs
<1>8. Admitted(u)' \subseteq Admitted(u) \ {th} /\ th \in Admitted(u)
  <2>1. pc'[th] = "answer"
    BY <1>3 DEF Goto, TypeOK
  <2>2. th \notin Admitted(u)'
    BY <2>1 DEF Admitted
  <2>3. th \in Admitted(u)
    BY <1>1, <1>3 DEF Admitted
  <2> QED BY <1>7, <2>2, <2>3
<1>t. \A t \in Threads : pc'[t] = "record" => now' <= stamp'[t] + MaxDelay
  <2>1. \A t \in Threads : t # th => stamp'[t] = stamp[t]
    BY <1>3 DEF TypeOK
  <2> QED BY <1>3, <2>1, TimelyStep DEF PCs
<1>c. \A v \in Users : /\ IsFiniteSet(guesses[v]) /\ Cardinality(guesses[v]) <= failed[v]
                       /\ \A x \in guesses[v] : x[2] <= failed[v]
                       /\ failed[v] >= MaxFailed =>
                            Cardinality(guesses[v]) + Cardinality(Admitted(v))
                              <= MaxFailed - 1 + Cardinality(Threads)
  BY DEF CountInv
<1> HIDE DEF g, new
<1>9. TimesInv'
  <2>1. ASSUME NEW v \in Users PROVE failed'[v] > 0 => last'[v] # Never
    <3>1. CASE v = u
      BY <1>2, <1>4, <3>1 DEF Never
    <3>2. CASE v # u
      BY <1>2, <3>2 DEF TimesInv
    <3> QED BY <3>1, <3>2
  <2>2. ASSUME NEW v \in Users, NEW x \in guesses'[v]
        PROVE  x[1] <= now /\ now < x[1] + GuessWindow /\ x[1] <= last'[v] + MaxDelay
    <3>1. CASE v = u
      <4>1. x \in g \cup {new} /\ x[1] + GuessWindow > now
        BY <1>2, <2>2, <3>1 DEF Recent
      <4>2. x[1] \in Nat /\ x[1] <= now
        BY <1>4, <1>5, <1>6, <4>1
      <4> QED BY <1>2, <1>4, <3>1, <4>1, <4>2, BoundsAssumption
    <3>2. CASE v # u
      BY <1>2, <2>2, <3>2 DEF TimesInv
    <3> QED BY <3>1, <3>2
  <2> QED BY <1>3, <1>t, <2>1, <2>2 DEF TimesInv
<1>10. ASSUME NEW v \in Users, v # u
       PROVE  /\ IsFiniteSet(guesses'[v]) /\ Cardinality(guesses'[v]) <= failed'[v]
              /\ \A x \in guesses'[v] : x[2] <= failed'[v]
              /\ failed'[v] >= MaxFailed =>
                   Cardinality(guesses'[v]) + Cardinality(Admitted(v)')
                     <= MaxFailed - 1 + Cardinality(Threads)
  <2>1. Cardinality(Admitted(v)') <= Cardinality(Admitted(v))
    BY <1>7, AdmittedSet, ThreadSets, FS_Subset
  <2>2. /\ Cardinality(Admitted(v)) \in Nat /\ Cardinality(Admitted(v)') \in Nat
        /\ Cardinality(Threads) \in Nat
    BY AdmittedSet, ThreadSets
  <2>3. Cardinality(guesses[v]) \in Nat
    BY <1>c, FS_CardinalityType
  <2> QED BY <1>2, <1>10, <1>c, <2>1, <2>2, <2>3, PolicyAssumption
<1>11. /\ IsFiniteSet(guesses'[u]) /\ Cardinality(guesses'[u]) <= failed'[u]
       /\ \A x \in guesses'[u] : x[2] <= failed'[u]
       /\ failed'[u] >= MaxFailed =>
            Cardinality(guesses'[u]) + Cardinality(Admitted(u)')
              <= MaxFailed - 1 + Cardinality(Threads)
  <2>1. IsFiniteSet(g) /\ Cardinality(g) <= failed[u] /\ Cardinality(g) \in Nat
    BY <1>1, <1>c, FS_CardinalityType DEF g
  <2>2. /\ IsFiniteSet(g \cup {new}) /\ Cardinality(g \cup {new}) <= Cardinality(g) + 1
        /\ Cardinality(g \cup {new}) \in Nat
    <3>1. /\ IsFiniteSet(g \cup {new})
          /\ Cardinality(g \cup {new}) = IF new \in g THEN Cardinality(g) ELSE Cardinality(g) + 1
      BY <2>1, FS_AddElement
    <3> QED BY <2>1, <3>1
  <2>3. guesses'[u] \subseteq g \cup {new}
    BY <1>2 DEF Recent
  <2>4. /\ IsFiniteSet(guesses'[u]) /\ Cardinality(guesses'[u]) <= Cardinality(g) + 1
        /\ Cardinality(guesses'[u]) \in Nat
    BY <2>1, <2>2, <2>3, FS_Subset, FS_CardinalityType
  <2>5. /\ IsFiniteSet(Admitted(u)) /\ Cardinality(Admitted(u)) \in Nat
        /\ Cardinality(Admitted(u)') \in Nat /\ Cardinality(Threads) \in Nat
        /\ Cardinality(Admitted(u)) <= Cardinality(Threads)
    BY AdmittedSet, ThreadSets
  <2>6. /\ IsFiniteSet(Admitted(u) \ {th})
        /\ Cardinality(Admitted(u) \ {th}) = Cardinality(Admitted(u)) - 1
    BY <1>8, <2>5, FS_RemoveElement
  <2>7. Cardinality(Admitted(u)') <= Cardinality(Admitted(u)) - 1
    BY <1>8, <2>6, FS_Subset
  <2>8. \A x \in guesses'[u] : x[2] <= failed'[u]
    <3> SUFFICES ASSUME NEW x \in guesses'[u] PROVE x[2] <= failed[u] + 1
      BY <1>2
    <3>1. x = new \/ x \in g
      BY <2>3
    <3>2. CASE x = new
      BY <1>2, <1>5, <3>2
    <3>3. CASE x \in g
      BY <1>2, <1>6, <3>3
    <3> QED BY <3>1, <3>2, <3>3
  <2>9. failed[u] >= MaxFailed =>
          Cardinality(g) + Cardinality(Admitted(u)) <= MaxFailed - 1 + Cardinality(Threads)
    BY <1>1, <1>c DEF g
  <2>10. Cardinality(guesses'[u]) <= failed'[u]
    BY <1>2, <2>1, <2>4
  <2>11. ASSUME failed'[u] >= MaxFailed
         PROVE  Cardinality(guesses'[u]) + Cardinality(Admitted(u)')
                  <= MaxFailed - 1 + Cardinality(Threads)
    <3>1. CASE failed[u] >= MaxFailed
      BY <2>1, <2>4, <2>5, <2>7, <2>9, <3>1, PolicyAssumption
    <3>2. CASE failed[u] < MaxFailed
      <4>1. Cardinality(guesses'[u]) <= MaxFailed
        BY <1>2, <2>1, <2>4, <3>2, PolicyAssumption
      <4> QED BY <2>4, <2>5, <2>7, <4>1, PolicyAssumption
    <3> QED BY <1>2, <3>1, <3>2, PolicyAssumption
  <2> QED BY <2>4, <2>8, <2>10, <2>11
<1>12. CountInv'
  <2> SUFFICES ASSUME NEW v \in Users
               PROVE  /\ IsFiniteSet(guesses'[v]) /\ Cardinality(guesses'[v]) <= failed'[v]
                      /\ \A x \in guesses'[v] : x[2] <= failed'[v]
                      /\ failed'[v] >= MaxFailed =>
                           Cardinality(guesses'[v]) + Cardinality(Admitted(v)')
                             <= MaxFailed - 1 + Cardinality(Threads)
    BY DEF CountInv
  <2> QED BY <1>10, <1>11
<1> QED BY <1>9, <1>12

\* A success forgets the failures of its user and of nobody else.
LEMMA BudgetReset ==
    ASSUME TypeOK, TypeOK', Busy, TimesInv, CountInv, NEW th \in Threads,
           reset_failed_attempts(th)
    PROVE  TimesInv' /\ CountInv'
<1>1. PICK u \in Users : u = User(th)
  BY UserType DEF reset_failed_attempts
<1>2. /\ failed'[u] = 0 /\ guesses'[u] = {}
      /\ \A v \in Users : v # u =>
           failed'[v] = failed[v] /\ last'[v] = last[v] /\ guesses'[v] = guesses[v]
  BY <1>1 DEF TypeOK, reset_failed_attempts
<1>3. /\ now' = now /\ stamp' = stamp /\ req' = req /\ pc[th] = "reset" /\ Goto(th, "answer")
  BY DEF reset_failed_attempts, Reply
<1>4. \A v : Admitted(v)' \subseteq Admitted(v)
  BY <1>3, AdmittedStep DEF PCs
<1>5. \A t \in Threads : pc'[t] = "record" => now' <= stamp'[t] + MaxDelay
  BY <1>3, TimelyStep DEF PCs
<1>6. TimesInv'
  <2>1. ASSUME NEW v \in Users
        PROVE  /\ failed'[v] > 0 => last'[v] # Never
               /\ \A x \in guesses'[v] :
                    x[1] <= now /\ now < x[1] + GuessWindow /\ x[1] <= last'[v] + MaxDelay
    <3>1. CASE v = u
      BY <1>2, <3>1
    <3>2. CASE v # u
      BY <1>2, <3>2 DEF TimesInv
    <3> QED BY <3>1, <3>2
  <2> QED BY <1>3, <1>5, <2>1 DEF TimesInv
<1>7. CountInv'
  <2> SUFFICES ASSUME NEW v \in Users
               PROVE  /\ IsFiniteSet(guesses'[v]) /\ Cardinality(guesses'[v]) <= failed'[v]
                      /\ \A x \in guesses'[v] : x[2] <= failed'[v]
                      /\ failed'[v] >= MaxFailed =>
                           Cardinality(guesses'[v]) + Cardinality(Admitted(v)')
                             <= MaxFailed - 1 + Cardinality(Threads)
    BY DEF CountInv
  <2>1. CASE v = u
    BY <1>2, <2>1, FS_EmptySet, PolicyAssumption
  <2>2. CASE v # u
    <3>1. Cardinality(Admitted(v)') <= Cardinality(Admitted(v))
      BY <1>4, AdmittedSet, ThreadSets, FS_Subset
    <3>2. /\ Cardinality(Admitted(v)) \in Nat /\ Cardinality(Admitted(v)') \in Nat
          /\ Cardinality(Threads) \in Nat
      BY AdmittedSet, ThreadSets
    <3>3. /\ IsFiniteSet(guesses[v]) /\ Cardinality(guesses[v]) <= failed[v]
          /\ \A x \in guesses[v] : x[2] <= failed[v]
          /\ failed[v] >= MaxFailed =>
               Cardinality(guesses[v]) + Cardinality(Admitted(v))
                 <= MaxFailed - 1 + Cardinality(Threads)
      BY DEF CountInv
    <3>4. Cardinality(guesses[v]) \in Nat
      BY <3>3, FS_CardinalityType
    <3> QED BY <1>2, <2>2, <3>1, <3>2, <3>3, <3>4, PolicyAssumption
  <2> QED BY <2>1, <2>2
<1> QED BY <1>6, <1>7

\* Typing, submitting, the session, the clock and a restart.
LEMMA BudgetMainLoop ==
    ASSUME TypeOK, TypeOK', TimesInv, CountInv,
           \/ \E th \in Threads : Start(th)
           \/ \E u \in Users : Session(u)
           \/ ClearUsername \/ TotpBack \/ Tick \/ Restart
    PROVE  TimesInv' /\ CountInv'
<1>n. now \in Nat /\ now' \in Nat
  BY DEF TypeOK, Time
<1>g. \A v \in Users : \A x \in guesses[v] : now < x[1] + GuessWindow
  BY DEF TimesInv
<1>1. ASSUME NEW th \in Threads, Start(th) PROVE TimesInv' /\ CountInv'
  <2>1. failed' = failed /\ last' = last /\ now' = now /\ guesses' = guesses /\ stamp' = stamp
    BY <1>1 DEF Start, EditUsername, SubmitCredentials, handle_totp_submit, Spawn,
       table, history
  <2>2. Goto(th, "check") /\ \E r : req' = [req EXCEPT ![th] = r]
    BY <1>1 DEF Start, EditUsername, SubmitCredentials, handle_totp_submit, Spawn
  <2>3. \A t \in Threads : t # th => req'[t] = req[t]
    BY <2>2 DEF TypeOK
  <2>4. \A v : Admitted(v)' \subseteq Admitted(v)
    BY <2>2, <2>3, AdmittedStep DEF PCs
  <2>5. \A t \in Threads : pc'[t] = "record" => now' <= stamp'[t] + MaxDelay
    BY <2>1, <2>2, TimelyStep DEF PCs
  <2> QED BY <1>n, <1>g, <2>1, <2>4, <2>5, BudgetAlone
<1>2. ASSUME (\E u \in Users : Session(u)) \/ ClearUsername \/ TotpBack
      PROVE  TimesInv' /\ CountInv'
  <2>1. /\ failed' = failed /\ last' = last /\ now' = now /\ guesses' = guesses
        /\ pc' = pc /\ req' = req /\ stamp' = stamp
    BY <1>2 DEF Session, Logout, change_master_password, enable_totp, disable_totp,
       ClearUsername, TotpBack, table, locals, history
  <2>2. \A v : Admitted(v)' \subseteq Admitted(v)
    BY <2>1 DEF Admitted, User
  <2>3. \A t \in Threads : pc'[t] = "record" => now' <= stamp'[t] + MaxDelay
    BY <2>1 DEF TimesInv
  <2> QED BY <1>n, <1>g, <2>1, <2>2, <2>3, BudgetAlone
<1>3. CASE Tick
  <2>1. /\ failed' = failed /\ last' = last /\ now' = now + 1
        /\ pc' = pc /\ req' = req /\ stamp' = stamp
        /\ \A v \in Users : guesses'[v] = Recent(guesses[v], now')
    BY <1>3 DEF Tick, table, locals
  <2>2. \A v : Admitted(v)' \subseteq Admitted(v)
    BY <2>1 DEF Admitted, User
  <2>3. \A t \in Threads : pc'[t] = "record" => now' <= stamp'[t] + MaxDelay
    <3> SUFFICES ASSUME NEW t \in Threads, pc[t] = "record"
                 PROVE  now + 1 <= stamp[t] + MaxDelay
      BY <2>1
    <3>1. now < stamp[t] + MaxDelay /\ stamp[t] \in Nat
      BY <1>3 DEF Tick, TypeOK, Time
    <3> QED BY <1>n, <3>1, BoundsAssumption
  <2>4. \A v \in Users : /\ guesses'[v] \subseteq guesses[v]
                         /\ \A x \in guesses'[v] : now' < x[1] + GuessWindow
    <3> SUFFICES ASSUME NEW v \in Users, NEW x \in guesses'[v]
                 PROVE  x \in guesses[v] /\ now' < x[1] + GuessWindow
      OBVIOUS
    <3>1. x \in guesses[v] /\ x[1] + GuessWindow > now'
      BY <2>1 DEF Recent
    <3>2. x[1] \in Nat /\ GuessWindow \in Int
      BY <3>1, PolicyAssumption, BoundsAssumption DEF TypeOK, Time, GuessWindow
    <3> QED BY <1>n, <3>1, <3>2
  <2> QED BY <1>n, <2>1, <2>2, <2>3, <2>4, BudgetAlone
<1>4. CASE Restart
  <2>1. /\ failed' = failed /\ last' = last /\ now' = now /\ guesses' = guesses
        /\ \A t \in Threads : pc'[t] = "idle"
    BY <1>4 DEF Restart, table
  <2>2. \A v : Admitted(v)' \subseteq Admitted(v)
    BY <2>1 DEF Admitted
  <2> QED BY <1>n, <1>g, <2>1, <2>2, BudgetAlone
<1> QED BY <1>1, <1>2, <1>3, <1>4

LEMMA BudgetNext == BudgetInv /\ [Next]_vars => BudgetInv'
<1> SUFFICES ASSUME ReplayInv, TimesInv, CountInv, [Next]_vars PROVE BudgetInv'
  BY DEF BudgetInv
<1>1. ReplayInv'
  BY GuardNext
<1>2. TypeOK /\ Busy /\ GuardInv /\ TypeOK'
  BY <1>1 DEF ReplayInv
<1>3. ASSUME NEW th \in Threads, Continue(th) PROVE TimesInv' /\ CountInv'
  BY <1>2, <1>3, BudgetCheck, BudgetThread, BudgetRecord, BudgetReset DEF Continue
<1>4. ASSUME UNCHANGED vars PROVE TimesInv' /\ CountInv'
  BY <1>4 DEF vars, TimesInv, CountInv, Admitted, User
<1>5. TimesInv' /\ CountInv'
  BY <1>2, <1>3, <1>4, BudgetMainLoop DEF Next
<1> QED BY <1>1, <1>5 DEF BudgetInv

LEMMA BudgetInit == Init => BudgetInv
<1> SUFFICES ASSUME Init PROVE BudgetInv
  OBVIOUS
<1>1. ReplayInv
  BY InitTypes DEF Init, ReplayInv, GuardInv, ReplaySpaced
<1>2. /\ \A u \in Users : failed[u] = 0 /\ guesses[u] = {}
      /\ \A th \in Threads : pc[th] = "idle"
  BY DEF Init
<1>3. TimesInv
  BY <1>2 DEF TimesInv
<1>4. CountInv
  BY <1>2, FS_EmptySet, PolicyAssumption DEF CountInv
<1> QED BY <1>1, <1>3, <1>4 DEF BudgetInv

LEMMA BudgetEnough == BudgetInv => GuessBudget
<1> SUFFICES ASSUME BudgetInv, NEW u \in Users
             PROVE  Cardinality(guesses[u]) + Cardinality(Unrecorded(u))
                      <= MaxFailed - 1 + Cardinality(Threads)
  BY DEF GuessBudget
<1>1. /\ IsFiniteSet(guesses[u]) /\ Cardinality(guesses[u]) <= failed[u]
      /\ failed[u] >= MaxFailed =>
           Cardinality(guesses[u]) + Cardinality(Admitted(u))
             <= MaxFailed - 1 + Cardinality(Threads)
  BY DEF BudgetInv, CountInv
<1>2. failed[u] \in Nat /\ Cardinality(guesses[u]) \in Nat
  BY <1>1, FS_CardinalityType DEF BudgetInv, ReplayInv, TypeOK
<1>3. Unrecorded(u) \subseteq Admitted(u) /\ Admitted(u) \subseteq Threads
  BY DEF Unrecorded, Admitted
<1>4. /\ Cardinality(Unrecorded(u)) <= Cardinality(Admitted(u))
      /\ Cardinality(Unrecorded(u)) <= Cardinality(Threads)
      /\ Cardinality(Unrecorded(u)) \in Nat /\ Cardinality(Admitted(u)) \in Nat
      /\ Cardinality(Threads) \in Nat
  <2>1. IsFiniteSet(Admitted(u))
    BY <1>3, ThreadSets
  <2> QED BY <1>3, <2>1, ThreadSets, FS_Subset
<1>5. CASE failed[u] < MaxFailed
  BY <1>1, <1>2, <1>4, <1>5, PolicyAssumption
<1>6. CASE failed[u] >= MaxFailed
  BY <1>1, <1>2, <1>4, <1>6, PolicyAssumption
<1> QED BY <1>2, <1>5, <1>6, PolicyAssumption

\* For any number of users and of attempts at a time, any policy with MaxFailed
\* positive and any delay between a thread's reading of the clock and its UPDATE,
\* the lock of auth_policy_service.rs bounds the wrong guesses of a GuessWindow.
THEOREM GuessesBounded == Spec => []GuessBudget
<1> QED BY BudgetInit, BudgetNext, BudgetEnough, PTL DEF Spec
=============================================================================
