------------------------------ MODULE MCAccounts -----------------------------
(***************************************************************************)
(* Accounts for TLC.  A behaviour is either any behaviour of Accounts, or  *)
(* one in which an administrator works alone: an operation starts when no  *)
(* other runs and no statement fails, but the process may still stop.      *)
(* Usernames and threads are interchangeable; ids are not (rowid order).   *)
(***************************************************************************)
EXTENDS Accounts, TLC

VARIABLE alone

MCInit == Init /\ alone \in BOOLEAN

AloneNext ==
    \/ \E th \in Threads : (AllIdle /\ Begin(th)) \/ Continue(th)
    \/ Restart

MCNext ==
    /\ UNCHANGED alone
    /\ IF alone THEN AloneNext ELSE Next

MCSpec == MCInit /\ [][MCNext]_<<vars, alone>>

\* The last admin can be neither deleted nor demoted: with one administrator at
\* work the admin_count checks of delete_user and update_user_role are enough,
\* across crashes and restarts.
AdminKeptAlone == alone => AtLeastOneAdmin

\* The credentials map and the users table agree on every stored password
\* whenever nothing runs, across crashes between the two and the reload at the
\* next start, if one operation runs at a time.
MemoryMatchesAlone == alone => MemoryMatchesTable

Symmetry == Permutations(Names) \cup Permutations(Threads)
=============================================================================
