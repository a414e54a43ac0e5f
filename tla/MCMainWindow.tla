---------------------------- MODULE MCMainWindow ----------------------------
(* Two vaults of the user's own (1 and 2), one shared with them (3); a secret *)
(* in the first and one in the shared vault.                                  *)
EXTENDS MainWindow, TLC

CONSTANTS s1, s3

MCHome == [s \in Secrets |-> IF s = s1 THEN 1 ELSE 3]

Symmetry == Permutations(Threads)
=============================================================================
