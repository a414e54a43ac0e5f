-------------------------- MODULE MCSecretLifecycle --------------------------
(* Two users, three vaults: the first by name belongs to u1, the second too, *)
(* the third belongs to u2 and is shared with u1.                            *)
EXTENDS SecretLifecycle, TLC, FiniteSets

CONSTANTS u1, u2, v1, v2, v3

MCOwner      == [v \in Vaults |-> IF v = v3 THEN u2 ELSE u1]
MCRecipients == [v \in Vaults |-> IF v = v3 THEN {u1} ELSE {}]
MCName       == [v \in Vaults |-> CASE v = v1 -> 1 [] v = v2 -> 2 [] OTHER -> 3]

Symmetry == Permutations(Secrets) \cup Permutations(Threads)
=============================================================================
