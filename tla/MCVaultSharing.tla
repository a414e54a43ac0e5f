--------------------------- MODULE MCVaultSharing ---------------------------
(* Model values and symmetry for the runs of VaultSharing.                  *)
EXTENDS VaultSharing, TLC

Symmetry == Permutations(Users) \cup Permutations(Vaults)
              \cup Permutations(Teams) \cup Permutations(Threads)
=============================================================================
