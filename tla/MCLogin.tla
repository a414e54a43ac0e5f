------------------------------- MODULE MCLogin -------------------------------
(* The threads are interchangeable.                                           *)
EXTENDS Login, TLC

Symmetry == Permutations(Threads)
=============================================================================
