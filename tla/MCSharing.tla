------------------------------ MODULE MCSharing ------------------------------
(***************************************************************************)
(* The safety run of VaultSharing.  Its behaviours are of two kinds:       *)
(*  - alone: every password has reached the last number already, so none   *)
(*    changes any more, and one operation runs at a time and to its end,   *)
(*    with every user and every team;                                      *)
(*  - otherwise: two threads, password changes and crashes, after an       *)
(*    administrator has deleted one account and one team, which keeps the  *)
(*    interleavings of the remaining ones within reach.                    *)
(* Both begin in states that Spec reaches: passwords are changed, accounts *)
(* and teams deleted before the first vault exists.  The deleted account   *)
(* keeps password 1, which tells the two kinds apart for ever.             *)
(***************************************************************************)
EXTENDS VaultSharing, FiniteSets, TLC

alone == \A u \in Users : hash[u] = MaxGen

AllIdle == \A th \in Threads : op[th] = Idle

NoVaultYet ==
    /\ \E u \in Users : role[u] = "admin"
    /\ vault = [v \in Vaults |-> [state |-> "unused", owner |-> None, env |-> None]]
    /\ share = [v \in Vaults |-> [u \in Users |-> None]]
    /\ member = [t \in Teams |-> [u \in Users |-> "none"]]
    /\ session = None
    /\ op = [th \in Threads |-> Idle]

AfterPasswordChanges ==
    /\ role \in [Users -> UserRole]
    /\ hash = [u \in Users |-> MaxGen]
    /\ team = [t \in Teams |-> "unused"]

AfterDeletions ==
    /\ role \in [Users -> UserRole \cup {"absent"}]
    /\ Cardinality({u \in Users : role[u] = "absent"}) = 1
    /\ hash = [u \in Users |-> 1]
    /\ \E gone \in Teams :
          team = [t \in Teams |-> IF t = gone THEN "deleted" ELSE "unused"]

MCInit == (AfterPasswordChanges \/ AfterDeletions) /\ NoVaultYet

\* Alone, an operation that has begun is finished before the next one.
MCNext ==
    \/ \E u \in Users : Login(u)
    \/ Logout
    \/ \E th \in Threads : Continue(th)
    \/ \E th \in Threads : (alone => AllIdle) /\ Start(th)
    \/ ~alone /\ Crash

MCSpec == MCInit /\ [][MCNext]_vars

\* With one operation at a time nobody but the owner keeps a share of a team
\* they left, whatever shares replaced one another in the upsert of
\* insert_key_share and whichever of two overlapping teams was deleted.
TeamShareAlone == alone => TeamShareHasMember

\* With one operation at a time and no password change, everybody the
\* accessible_vaults view lists opens the vault: the owner, direct and team
\* recipients, after every sequence of shares, removals and restores.
HoldersOpenAlone == alone => HoldersCanOpen

Symmetry == Permutations(Users) \cup Permutations(Vaults)
              \cup Permutations(Teams) \cup Permutations(Threads)
==============================================================================
