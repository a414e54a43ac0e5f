----------------------------- MODULE MCDialogs -----------------------------
(* Threads and teams are interchangeable; users and vaults are ordered by    *)
(* name, and the secrets of First are not those of other vaults.             *)
EXTENDS Dialogs, TLC

Symmetry == Permutations(Threads) \cup Permutations(Teams)
=============================================================================
