---------------------------- MODULE AtomicReplace ----------------------------
(***************************************************************************)
(* What restoring a backup promises to the person in front of the login    *)
(* page: the database the application opens (current) is replaced in one   *)
(* step, the step that reports success, by a database in which the chosen  *)
(* password has been set; a restore that reports a failure has changed     *)
(* nothing.  Two things void the promise, and they are part of the         *)
(* specification: a process that stops while a restore is pending may      *)
(* leave no database behind, and restores that overlap disturb each other. *)
(***************************************************************************)
CONSTANTS
    Restores,    \* the restores that can be pending at the same time
    Databases,   \* complete databases
    Empty,       \* the database a start creates where there is none
    Absent       \* no file

VARIABLES
    current,     \* what the application opens, or will open when started
    answer,      \* what each restore has reported
    exclusive    \* no restore began before the last one had ended

vars == <<current, answer, exclusive>>

Answers == {"none", "pending", "ok", "failed"}

\* In a restored database the new password is the one given to restore r.
SetBy(db, r) == db.pw = r

Init ==
    /\ current \in Databases
    /\ answer = [r \in Restores |-> "none"]
    /\ exclusive = TRUE

Begin(r) ==
    /\ answer[r] = "none"
    /\ answer' = [answer EXCEPT ![r] = "pending"]
    /\ exclusive' = (exclusive /\ \A q \in Restores : answer[q] = "none")
    /\ UNCHANGED current

Succeed(r) ==
    /\ answer[r] = "pending"
    /\ answer' = [answer EXCEPT ![r] = "ok"]
    /\ exclusive => current' \in Databases /\ SetBy(current', r)
    /\ UNCHANGED exclusive

Fail(r) ==
    /\ answer[r] = "pending"
    /\ answer' = [answer EXCEPT ![r] = "failed"]
    /\ exclusive => UNCHANGED current
    /\ UNCHANGED exclusive

Acknowledge(r) ==
    /\ answer[r] \in {"ok", "failed"}
    /\ answer' = [answer EXCEPT ![r] = "none"]
    /\ UNCHANGED <<current, exclusive>>

\* Ordinary work on the database; after a start without one, the first user.
Edit ==
    /\ current \in Databases \cup {Empty}
    /\ current' \in Databases
    /\ UNCHANGED <<answer, exclusive>>

Stop ==
    /\ \/ UNCHANGED current
       \/ current' = Absent /\ \E r \in Restores : answer[r] = "pending"
    /\ answer' = [r \in Restores |-> "none"]
    /\ UNCHANGED exclusive

Create ==
    /\ current = Absent
    /\ current' = Empty
    /\ UNCHANGED <<answer, exclusive>>

Disturb ==
    /\ ~exclusive
    /\ UNCHANGED <<answer, exclusive>>

Next ==
    \/ \E r \in Restores : Begin(r) \/ Succeed(r) \/ Fail(r) \/ Acknowledge(r)
    \/ Edit
    \/ Stop
    \/ Create
    \/ Disturb

Spec == Init /\ [][Next]_vars
=============================================================================
