------------------------- MODULE MCCertifiedReports --------------------------
(* Report threads are interchangeable, and so are the seeds drawn.  What a   *)
(* report lists does not depend on where its key is, and where the key is    *)
(* does not depend on the rows: rows are written in the first run of a       *)
(* process with a professional licence and the key in the environment only.  *)
EXTENDS CertifiedReports, TLC

Symmetry == Permutations(Reporters) \cup Permutations(Seeds)

KeyInEnvironment ==
    envkey = OwnKey /\ ~envpath /\ primary = Absent /\ legacy = Absent
MCNext ==
    /\ Next
    /\ rows' # rows => KeyInEnvironment /\ cached = "professional" /\ starts = 1
    /\ starts' # starts => rows = <<>>

MCSpec == Init /\ [][MCNext]_vars
=============================================================================
