--------------------------- MODULE MCBackupRestore ---------------------------
(* The restore threads are interchangeable.                                  *)
EXTENDS BackupRestore, TLC

Symmetry == Permutations(Restores)
=============================================================================
