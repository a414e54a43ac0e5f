------------------------ MODULE BackupRestoreProofs -------------------------
(***************************************************************************)
(* Theorems about BackupRestore, for any number of restore threads,        *)
(* versions, recovery phrases and stops: types, what a restore that        *)
(* reports success has put in place, that a backup reported as good can be *)
(* restored, and that the restore implements AtomicReplace.                *)
(*                                                                         *)
(* The inductive invariant says where the two databases are at each step   *)
(* of a restore that runs alone, and that nothing can be written into      *)
(* either while promote_staged_restore moves them: the pool is closed      *)
(* before, and stays closed until the process ends.                        *)
(***************************************************************************)
EXTENDS BackupRestore, TLAPS

\* A transaction is written into a complete file, through the open pool.
Working ==
    writing => pool /\ version < MaxVersion /\ file["db"] \in Database \cup {Empty}

\* Threads, dialogs and the pool live as long as the process.
Running ==
    proc # "up" => /\ ~pool /\ exp.pc = "closed" /\ ~page.open
                   /\ \A r \in Restores : th[r].pc = "idle"

\* An export that is under way has a phrase that was generated.
HasPhrase == exp.pc # "closed" => exp.phrase \in 1..phrases

\* promote_staged_restore runs on a closed pool.
PoolClosed ==
    \A r \in Restores :
        th[r].pc \in {"remove_old", "rotate", "swap", "rollback", "ok"} => ~pool

\* As long as no two restores have overlapped, one thread runs at most.
OneAtATime ==
    exclusive => \A q, r \in Restores : q = r \/ th[q].pc = "idle" \/ th[r].pc = "idle"

\* Where the databases are at a step t of restore r, in the files f: the staged
\* one, before and after the new password is set in it; the former one, which
\* is in .old between the two renames; the one in place when success is
\* reported.  A roll-back is reached through the one failing operation only.
InPlace(r, t, f) ==
    /\ t.pc = "password" => f["tmp"] \in Database /\ f["tmp"].ver = t.ver
    /\ t.pc \in {"close", "remove_old", "rotate", "swap"}
         => f["tmp"] = [ver |-> t.ver, pw |-> r]
    /\ t.pc \in {"swap", "rollback"} /\ t.present => f["db"] = Absent /\ f["old"] # Absent
    /\ t.pc = "rollback" => t.faults = Faults
    /\ t.pc = "ok" => f["db"] = [ver |-> t.ver, pw |-> r]

FilesInPlace == exclusive => \A r \in Restores : InPlace(r, th[r], file)

\* There is a roll-back only where something was moved away.
RollbackHasOld == \A r \in Restores : th[r].pc = "rollback" => th[r].present

\* What export_hvb_with_recovery_key has reported as good is on the disk.
PromiseKept == promised # 0 => hvb \in Backup /\ hvb.key = promised

\* The inductive invariant.
RestoreInv ==
    /\ TypeOK /\ Working /\ Running /\ HasPhrase /\ PoolClosed
    /\ OneAtATime /\ FilesInPlace /\ RollbackHasOld /\ PromiseKept

-----------------------------------------------------------------------------
(* Facts about the types.                                                  *)

LEMMA Distinct ==
    /\ Absent \notin Database /\ Torn \notin Database /\ Empty \notin Database
    /\ Absent # Torn /\ Absent # Empty /\ Torn # Empty
    /\ Absent \notin Backup /\ Torn \notin Backup
  BY FileKinds, BackupKinds

LEMMA Blank ==
    /\ NoThread \in Thread /\ NoExport \in Export /\ Original \in Database
    /\ ClosedPage \in [open: BOOLEAN, busy: BOOLEAN]
  BY RestoreBounds
  DEF NoThread, Thread, NoExport, Export, Original, Database, ClosedPage

\* The answers a thread is left with.
LEMMA FailedThread ==
    ASSUME TypeOK, NEW r \in Restores, NEW n \in 0..Faults
    PROVE  [NoThread EXCEPT !.pc = "failed", !.mine = th[r].mine, !.faults = n] \in Thread
  BY Blank DEF TypeOK, Thread, NoThread

LEMMA FaultCount ==
    ASSUME TypeOK, NEW r \in Restores
    PROVE  /\ th[r].faults \in 0..Faults
           /\ th[r].faults < Faults => th[r].faults + 1 \in 0..Faults
                                       /\ th[r].faults + 1 = Faults
  BY RestoreBounds DEF TypeOK, Thread

\* A step of one restore thread.  It leaves the dialogs and the process alone,
\* may close the pool, and touches the database only while nothing writes.
LEMMA ThreadStepInv ==
    ASSUME RestoreInv, NEW r \in Restores, NEW t \in Thread,
           th[r].pc # "idle", th' = [th EXCEPT ![r] = t],
           file' \in [Path -> Content],
           file'["db"] = file["db"] \/ ~writing,
           pool' = pool \/ (pool' = FALSE /\ ~writing),
           UNCHANGED <<exporting, version, writing, proc, stops, page, exclusive>>,
           t.pc \in {"remove_old", "rotate", "swap", "rollback", "ok"} => ~pool',
           t.pc = "rollback" => t.present,
           exclusive => InPlace(r, t, file')
    PROVE  RestoreInv'
<1>1. proc = "up" /\ TypeOK
  BY DEF RestoreInv, Running
<1>2. /\ th'[r] = t
      /\ \A q \in Restores : q # r => th'[q] = th[q]
      /\ th' \in [Restores -> Thread]
  BY <1>1 DEF TypeOK
<1>3. exclusive => \A q \in Restores : q # r => th[q].pc = "idle"
  BY DEF RestoreInv, OneAtATime
<1>4. TypeOK'
  BY <1>1, <1>2 DEF TypeOK, exporting
<1>5. Working' /\ Running' /\ HasPhrase' /\ PromiseKept'
  BY <1>1, <1>2 DEF RestoreInv, Working, Running, HasPhrase, PromiseKept, exporting, TypeOK
<1>6. PoolClosed' /\ RollbackHasOld'
  BY <1>1, <1>2 DEF RestoreInv, PoolClosed, RollbackHasOld
<1>7. OneAtATime'
  BY <1>2, <1>3 DEF OneAtATime
<1>8. FilesInPlace'
  <2> SUFFICES ASSUME exclusive, NEW q \in Restores PROVE InPlace(q, th'[q], file')
    BY DEF FilesInPlace
  <2>1. CASE q = r
    BY <2>1, <1>2
  <2>2. CASE q # r
    BY <2>2, <1>2, <1>3 DEF InPlace
  <2> QED BY <2>1, <2>2
<1> QED BY <1>4, <1>5, <1>6, <1>7, <1>8 DEF RestoreInv
-----------------------------------------------------------------------------
(* The steps of a restore thread.                                          *)

\* An operation of the thread fails, or its input is refused: the answer is
\* "failed" and whatever is in the files, nothing was promised about them.
LEMMA FailureInv ==
    ASSUME RestoreInv, NEW r \in Restores, th[r].pc \notin {"idle", "failed"},
           Fault(r) \/ Fails(r),
           file' \in [Path -> Content],
           file'["db"] = file["db"] \/ ~writing,
           UNCHANGED <<exporting, app, page, exclusive>>
    PROVE  RestoreInv'
<1> DEFINE t == th'[r]
<1>1. TypeOK
  BY DEF RestoreInv
<1>2. t \in Thread /\ t.pc = "failed" /\ th' = [th EXCEPT ![r] = t]
  <2>1. ASSUME NEW n \in 0..Faults,
               th' = [th EXCEPT ![r] = [NoThread EXCEPT !.pc = "failed", !.mine = th[r].mine,
                                                        !.faults = n]]
        PROVE  t \in Thread /\ t.pc = "failed" /\ th' = [th EXCEPT ![r] = t]
    BY <1>1, <2>1, FailedThread DEF TypeOK, NoThread
  <2>2. CASE Fault(r)
    BY <2>1, <2>2, <1>1, FaultCount DEF Fault
  <2>3. CASE Fails(r)
    BY <2>1, <2>3, <1>1, FaultCount DEF Fails
  <2> QED BY <2>2, <2>3
<1>3. exclusive => InPlace(r, t, file')
  BY <1>2 DEF InPlace
<1> HIDE DEF t
<1> QED BY <1>2, <1>3, ThreadStepInv DEF app

LEMMA CleanupInv ==
    ASSUME RestoreInv, NEW r \in Restores, cleanup_restore_staging_path(r)
    PROVE  RestoreInv'
<1>1. TypeOK /\ th[r] \in Thread /\ th[r].pc = "cleanup"
  BY DEF RestoreInv, TypeOK, cleanup_restore_staging_path
<1>2. /\ file' \in [Path -> Content] /\ file'["db"] = file["db"]
      /\ UNCHANGED <<exporting, app, page, exclusive>>
  BY <1>1 DEF cleanup_restore_staging_path, TypeOK, Path, Content
<1>3. CASE Goto(r, "import")
  <2>1. [th[r] EXCEPT !.pc = "import"] \in Thread /\ th' = [th EXCEPT ![r] = [th[r] EXCEPT !.pc = "import"]]
    BY <1>1, <1>3 DEF Goto, Thread
  <2>2. InPlace(r, [th[r] EXCEPT !.pc = "import"], file')
    BY <1>1 DEF InPlace, Thread
  <2> QED BY <1>1, <1>2, <2>1, <2>2, ThreadStepInv DEF app, Thread
<1>4. CASE Fault(r)
  BY <1>1, <1>2, <1>4, FailureInv
<1> QED BY <1>3, <1>4 DEF cleanup_restore_staging_path

LEMMA ImportInv ==
    ASSUME RestoreInv, NEW r \in Restores, import_hvb_with_recovery_key(r)
    PROVE  RestoreInv'
<1>1. TypeOK /\ th[r] \in Thread /\ th[r].pc = "import"
  BY DEF RestoreInv, TypeOK, import_hvb_with_recovery_key
<1>2. MovedAside \in [Path -> Content] /\ MovedAside["db"] = file["db"]
  BY <1>1 DEF MovedAside, TypeOK, Path
<1>3. UNCHANGED <<exporting, app, page, exclusive>>
  BY DEF import_hvb_with_recovery_key
<1>4. CASE /\ decrypt_bytes(th[r].phrase)
           /\ file' = [MovedAside EXCEPT !["tmp"] = hvb.db]
           /\ th' = [th EXCEPT ![r].pc = "password", ![r].phrase = 0, ![r].ver = hvb.db.ver]
  <2>1. hvb.db \in Database /\ hvb.db.ver \in 0..MaxVersion
    BY <1>4 DEF decrypt_bytes, Backup, Database
  <2> DEFINE o == [th[r] EXCEPT !.pc = "password"]
             p == [o EXCEPT !.phrase = 0]
             t == [p EXCEPT !.ver = hvb.db.ver]
  <2>2. p \in Thread /\ p.pc = "password"
    <3>1. o \in Thread /\ o.pc = "password"
      BY <1>1 DEF Thread
    <3>2. 0 \in 0..MaxPhrases
      BY RestoreBounds
    <3> HIDE DEF o
    <3> QED BY <3>1, <3>2 DEF Thread
  <2>3. t \in Thread /\ t.pc = "password" /\ t.ver = hvb.db.ver
    <3> HIDE DEF p
    <3> QED BY <2>1, <2>2 DEF Thread
  <2>4. th' = [th EXCEPT ![r] = t]
    BY <1>1, <1>4 DEF TypeOK
  <2>5. file' \in [Path -> Content] /\ file'["db"] = file["db"] /\ file'["tmp"] = hvb.db
    BY <1>2, <1>4, <2>1 DEF Path, Content
  <2>6. InPlace(r, t, file')
    BY <2>1, <2>3, <2>5 DEF InPlace
  <2> HIDE DEF t
  <2> QED BY <1>1, <1>3, <2>3, <2>4, <2>5, <2>6, ThreadStepInv DEF app
<1>5. CASE file' \in {file, [MovedAside EXCEPT !["tmp"] = Torn]} /\ Fault(r)
  <2>1. file' \in [Path -> Content] /\ file'["db"] = file["db"]
    BY <1>1, <1>2, <1>5 DEF TypeOK, Path, Content
  <2> QED BY <1>1, <1>3, <1>5, <2>1, FailureInv
<1>6. CASE Fails(r) /\ UNCHANGED file
  BY <1>1, <1>3, <1>6, FailureInv DEF TypeOK
<1> QED BY <1>4, <1>5, <1>6 DEF import_hvb_with_recovery_key

LEMMA PasswordInv ==
    ASSUME RestoreInv, NEW r \in Restores, apply_restored_login_password(r)
    PROVE  RestoreInv'
<1>1. TypeOK /\ th[r] \in Thread /\ th[r].pc = "password"
  BY DEF RestoreInv, TypeOK, apply_restored_login_password
<1>2. UNCHANGED <<exporting, app, page, exclusive>>
  BY DEF apply_restored_login_password
<1>3. CASE /\ file["tmp"] \in Database
           /\ file' = [file EXCEPT !["tmp"].pw = r]
           /\ Goto(r, "close")
  <2> DEFINE t == [th[r] EXCEPT !.pc = "close"]
  <2>1. t \in Thread /\ t.pc = "close" /\ t.ver = th[r].ver /\ th' = [th EXCEPT ![r] = t]
    BY <1>1, <1>3 DEF Goto, Thread
  <2>2. /\ file' \in [Path -> Content] /\ file'["db"] = file["db"]
        /\ file'["tmp"] = [ver |-> file["tmp"].ver, pw |-> r]
    BY <1>1, <1>3 DEF TypeOK, Path, Content, Database
  <2>3. exclusive => InPlace(r, t, file')
    BY <1>1, <2>1, <2>2 DEF RestoreInv, FilesInPlace, InPlace
  <2> HIDE DEF t
  <2> QED BY <1>1, <1>2, <2>1, <2>2, <2>3, ThreadStepInv DEF app
<1>4. CASE UNCHANGED file /\ (Fault(r) \/ Fails(r))
  BY <1>1, <1>2, <1>4, FailureInv DEF TypeOK
<1> QED BY <1>3, <1>4 DEF apply_restored_login_password

LEMMA ClosePoolInv ==
    ASSUME RestoreInv, NEW r \in Restores, ClosePool(r)
    PROVE  RestoreInv'
<1> DEFINE t == [th[r] EXCEPT !.pc = "remove_old"]
<1>1. TypeOK /\ th[r] \in Thread /\ th[r].pc = "close"
  BY DEF RestoreInv, TypeOK, ClosePool
<1>2. t \in Thread /\ t.pc = "remove_old" /\ t.ver = th[r].ver /\ th' = [th EXCEPT ![r] = t]
  BY <1>1 DEF ClosePool, Goto, Thread
<1>3. exclusive => InPlace(r, t, file')
  BY <1>1, <1>2 DEF ClosePool, RestoreInv, FilesInPlace, InPlace
<1> HIDE DEF t
<1> QED BY <1>1, <1>2, <1>3, ThreadStepInv DEF ClosePool, TypeOK
LEMMA RemoveOldInv ==
    ASSUME RestoreInv, NEW r \in Restores, Promote_RemoveOld(r)
    PROVE  RestoreInv'
<1>1. /\ TypeOK /\ th[r] \in Thread /\ th[r].pc = "remove_old" /\ ~pool
      /\ UNCHANGED <<exporting, app, page, exclusive>>
  BY DEF RestoreInv, TypeOK, PoolClosed, Promote_RemoveOld
<1>2. CASE file' = [file EXCEPT !["old"] = Absent] /\ Goto(r, "rotate")
  <2> DEFINE t == [th[r] EXCEPT !.pc = "rotate"]
  <2>1. t \in Thread /\ t.pc = "rotate" /\ t.ver = th[r].ver /\ th' = [th EXCEPT ![r] = t]
    BY <1>1, <1>2 DEF Goto, Thread
  <2>2. /\ file' \in [Path -> Content] /\ file'["db"] = file["db"]
        /\ file'["tmp"] = file["tmp"]
    BY <1>1, <1>2 DEF TypeOK, Path, Content
  <2>3. exclusive => InPlace(r, t, file')
    BY <1>1, <2>1, <2>2 DEF RestoreInv, FilesInPlace, InPlace
  <2> HIDE DEF t
  <2> QED BY <1>1, <2>1, <2>2, <2>3, ThreadStepInv DEF app
<1>3. CASE UNCHANGED file /\ Fault(r)
  BY <1>1, <1>3, FailureInv DEF TypeOK
<1> QED BY <1>2, <1>3 DEF Promote_RemoveOld

LEMMA RotateInv ==
    ASSUME RestoreInv, NEW r \in Restores, Promote_Rotate(r)
    PROVE  RestoreInv'
<1>1. /\ TypeOK /\ th[r] \in Thread /\ th[r].pc = "rotate" /\ ~pool /\ ~writing
      /\ UNCHANGED <<exporting, app, page, exclusive>>
  BY DEF RestoreInv, TypeOK, PoolClosed, Working, Promote_Rotate
<1>2. CASE /\ file' = [file EXCEPT !["old"] = IF Exists("db") THEN file["db"] ELSE @,
                                   !["db"] = Absent]
           /\ th' = [th EXCEPT ![r].pc = "swap", ![r].present = Exists("db")]
  <2> DEFINE o == [th[r] EXCEPT !.pc = "swap"]
             t == [o EXCEPT !.present = Exists("db")]
  <2>1. o \in Thread /\ o.pc = "swap" /\ o.ver = th[r].ver
    BY <1>1 DEF Thread
  <2>2. t \in Thread /\ t.pc = "swap" /\ t.ver = th[r].ver /\ t.present = Exists("db")
    <3> HIDE DEF o
    <3>1. Exists("db") \in BOOLEAN
      BY DEF Exists
    <3> QED BY <2>1, <3>1 DEF Thread
  <2>3. th' = [th EXCEPT ![r] = t]
    BY <1>1, <1>2 DEF TypeOK
  <2>4. /\ file' \in [Path -> Content] /\ file'["db"] = Absent
        /\ file'["tmp"] = file["tmp"]
        /\ Exists("db") => file'["old"] # Absent
    BY <1>1, <1>2 DEF TypeOK, Path, Content, Exists
  <2>5. exclusive => InPlace(r, t, file')
    <3> HIDE DEF t
    <3> QED BY <1>1, <2>2, <2>4 DEF RestoreInv, FilesInPlace, InPlace
  <2> HIDE DEF t
  <2> QED BY <1>1, <2>2, <2>3, <2>4, <2>5, ThreadStepInv DEF app
<1>3. CASE UNCHANGED file /\ Fault(r)
  BY <1>1, <1>3, FailureInv DEF TypeOK
<1> QED BY <1>2, <1>3 DEF Promote_Rotate

LEMMA SwapInv ==
    ASSUME RestoreInv, NEW r \in Restores, Promote_Swap(r)
    PROVE  RestoreInv'
<1>1. /\ TypeOK /\ th[r] \in Thread /\ th[r].pc = "swap" /\ ~pool /\ ~writing
      /\ UNCHANGED <<exporting, app, page, exclusive>>
  BY DEF RestoreInv, TypeOK, PoolClosed, Working, Promote_Swap
<1>2. CASE /\ Exists("tmp")
           /\ file' = [file EXCEPT !["db"] = file["tmp"], !["tmp"] = Absent]
           /\ th' = [th EXCEPT ![r].pc = "ok", ![r].present = FALSE]
  <2> DEFINE o == [th[r] EXCEPT !.pc = "ok"]
             t == [o EXCEPT !.present = FALSE]
  <2>1. o \in Thread /\ o.pc = "ok" /\ o.ver = th[r].ver
    BY <1>1 DEF Thread
  <2>2. t \in Thread /\ t.pc = "ok" /\ t.ver = th[r].ver
    <3> HIDE DEF o
    <3> QED BY <2>1 DEF Thread
  <2>3. th' = [th EXCEPT ![r] = t]
    BY <1>1, <1>2 DEF TypeOK
  <2>4. file' \in [Path -> Content] /\ file'["db"] = file["tmp"]
    BY <1>1, <1>2 DEF TypeOK, Path, Content
  <2>5. exclusive => InPlace(r, t, file')
    <3> HIDE DEF t
    <3> QED BY <1>1, <2>2, <2>4 DEF RestoreInv, FilesInPlace, InPlace
  <2> HIDE DEF t
  <2> QED BY <1>1, <2>2, <2>3, <2>4, <2>5, ThreadStepInv DEF app
<1>3. CASE UNCHANGED file /\ ~Exists("tmp") /\ th[r].present /\ Goto(r, "rollback")
  <2> DEFINE t == [th[r] EXCEPT !.pc = "rollback"]
  <2>1. t \in Thread /\ t.pc = "rollback" /\ t.present /\ th' = [th EXCEPT ![r] = t]
    BY <1>1, <1>3 DEF Goto, Thread
  <2>2. ~exclusive
    <3>1. [ver |-> th[r].ver, pw |-> r] \in Database
      BY <1>1 DEF Database, Thread
    <3> QED BY <1>1, <1>3, <3>1, Distinct DEF RestoreInv, FilesInPlace, InPlace, Exists
  <2> HIDE DEF t
  <2> QED BY <1>1, <1>3, <2>1, <2>2, ThreadStepInv DEF app, TypeOK
<1>4. CASE UNCHANGED file /\ (Fails(r) \/ Fault(r))
  BY <1>1, <1>4, FailureInv DEF TypeOK
<1>5. CASE /\ UNCHANGED file /\ th[r].faults < Faults /\ th[r].present
           /\ th' = [th EXCEPT ![r].faults = @ + 1, ![r].pc = "rollback"]
  <2> DEFINE o == [th[r] EXCEPT !.faults = @ + 1]
             t == [o EXCEPT !.pc = "rollback"]
  <2>1. o \in Thread /\ o.present /\ o.faults = Faults
    BY <1>1, <1>5, FaultCount DEF Thread
  <2>2. t \in Thread /\ t.pc = "rollback" /\ t.present /\ t.faults = Faults
    <3> HIDE DEF o
    <3> QED BY <2>1 DEF Thread
  <2>3. th' = [th EXCEPT ![r] = t]
    BY <1>1, <1>5 DEF TypeOK
  <2>4. exclusive => InPlace(r, t, file')
    <3> HIDE DEF t
    <3> QED BY <1>1, <1>5, <2>2 DEF RestoreInv, FilesInPlace, InPlace
  <2> HIDE DEF t
  <2> QED BY <1>1, <1>5, <2>2, <2>3, <2>4, ThreadStepInv DEF app, TypeOK
<1> QED BY <1>2, <1>3, <1>4, <1>5 DEF Promote_Swap

LEMMA RollbackInv ==
    ASSUME RestoreInv, NEW r \in Restores, Promote_Rollback(r)
    PROVE  RestoreInv'
<1>1. /\ TypeOK /\ th[r].pc = "rollback" /\ ~writing
      /\ UNCHANGED <<exporting, app, page, exclusive>>
  BY DEF RestoreInv, TypeOK, PoolClosed, Working, Promote_Rollback
<1>2. file' \in [Path -> Content] /\ (Fails(r) \/ Fault(r))
  BY <1>1 DEF Promote_Rollback, TypeOK, Path, Content
<1> QED BY <1>1, <1>2, FailureInv

\* Every step of a restore thread keeps the invariant.
LEMMA RestoreStepInv ==
    ASSUME RestoreInv, NEW r \in Restores, RestoreStep(r)
    PROVE  RestoreInv'
  BY CleanupInv, ImportInv, PasswordInv, ClosePoolInv, RemoveOldInv, RotateInv,
     SwapInv, RollbackInv
  DEF RestoreStep
-----------------------------------------------------------------------------
(* The other steps.                                                        *)

LEMMA InitInv == Init => RestoreInv
<1> SUFFICES ASSUME Init PROVE RestoreInv
  OBVIOUS
<1>1. file \in [Path -> Content] /\ th \in [Restores -> Thread]
  BY Blank DEF Init, Content
<1>2. /\ version \in 1..MaxVersion /\ stops \in 0..MaxStops
      /\ phrases \in 0..MaxPhrases /\ promised \in 0..MaxPhrases
  BY RestoreBounds DEF Init
<1>3. TypeOK
  BY <1>1, <1>2, Blank, Zenon DEF Init, TypeOK
<1>4. \A r \in Restores : th[r].pc = "idle"
  BY DEF Init, NoThread
<1>5. Working /\ Running /\ HasPhrase /\ PromiseKept
  BY DEF Init, Working, Running, HasPhrase, PromiseKept, NoExport
<1>6. PoolClosed /\ OneAtATime /\ FilesInPlace /\ RollbackHasOld
  BY <1>4 DEF PoolClosed, OneAtATime, FilesInPlace, InPlace, RollbackHasOld
<1> QED BY <1>3, <1>5, <1>6 DEF RestoreInv

LEMMA WorkInv ==
    ASSUME RestoreInv, Work_Begin \/ Work_Commit
    PROVE  RestoreInv'
<1>0. TypeOK
  BY DEF RestoreInv
<1>1. CASE Work_Begin
  <2>1. TypeOK'
    BY <1>0, <1>1 DEF Work_Begin, TypeOK, exporting, restoring
  <2> QED BY <1>1, <2>1 DEF RestoreInv, Work_Begin, Working, Running, HasPhrase, PoolClosed,
              OneAtATime, FilesInPlace, RollbackHasOld, PromiseKept, exporting, restoring
<1>2. CASE Work_Commit
  <2>1. pool /\ version + 1 \in 1..MaxVersion /\ ~writing'
    BY <1>0, <1>2, RestoreBounds DEF Work_Commit, RestoreInv, Working, TypeOK
  <2> DEFINE d == [ver |-> version + 1,
                   pw |-> IF file["db"] \in Database THEN file["db"].pw ELSE None]
  <2>2. d \in Database
    BY <2>1 DEF Database
  <2>3. /\ file' \in [Path -> Content]
        /\ file'["tmp"] = file["tmp"]
    <3> HIDE DEF d
    <3>1. file' = [file EXCEPT !["db"] = d]
      BY <1>2 DEF Work_Commit, d
    <3> QED BY <1>0, <2>2, <3>1 DEF TypeOK, Path, Content
  <2>4. \A r \in Restores : th[r].pc \notin {"remove_old", "rotate", "swap", "rollback", "ok"}
    BY <2>1 DEF RestoreInv, PoolClosed
  <2>5. TypeOK'
    BY <1>0, <1>2, <2>1, <2>3 DEF Work_Commit, TypeOK, exporting, restoring
  <2>6. FilesInPlace'
    BY <1>2, <2>3, <2>4 DEF Work_Commit, RestoreInv, FilesInPlace, InPlace, restoring
  <2> QED BY <1>2, <2>1, <2>5, <2>6 DEF RestoreInv, Work_Commit, Working, Running, HasPhrase,
              PoolClosed, OneAtATime, RollbackHasOld, PromiseKept, exporting, restoring
<1> QED BY <1>1, <1>2

\* The process ends, by a crash or after a restore.
LEMMA DownInv ==
    ASSUME RestoreInv, Down, stops' \in 0..MaxStops,
           UNCHANGED <<file, hvb, promised, version, phrases, exclusive>>
    PROVE  RestoreInv'
<1>0. th' \in [Restores -> Thread]
  BY Blank DEF Down
<1>1. TypeOK'
  BY <1>0, Blank DEF Down, RestoreInv, TypeOK
<1>2. \A r \in Restores : th'[r].pc = "idle"
  BY DEF Down, NoThread
<1>3. Working' /\ Running' /\ HasPhrase' /\ PromiseKept'
  BY <1>2 DEF Down, Working, Running, HasPhrase, PromiseKept, NoExport, ClosedPage, RestoreInv
<1>4. PoolClosed' /\ OneAtATime' /\ FilesInPlace' /\ RollbackHasOld'
  BY <1>2 DEF PoolClosed, OneAtATime, FilesInPlace, InPlace, RollbackHasOld
<1> QED BY <1>1, <1>3, <1>4 DEF RestoreInv

LEMMA StartInv ==
    ASSUME RestoreInv, initialize_app_context
    PROVE  RestoreInv'
<1>1. \A r \in Restores : th'[r].pc = "idle" /\ th[r].pc = "idle"
  BY DEF RestoreInv, Running, initialize_app_context, restoring
<1>2. TypeOK /\ ~writing
  BY DEF RestoreInv, Running, Working, initialize_app_context
<1>3. TypeOK'
  BY <1>2 DEF TypeOK, initialize_app_context, exporting, restoring, Path, Content
<1>4. Working' /\ Running' /\ HasPhrase' /\ PromiseKept'
  BY <1>1, <1>2 DEF initialize_app_context, Working, Running, HasPhrase, PromiseKept,
     exporting, restoring, RestoreInv
<1>5. PoolClosed' /\ OneAtATime' /\ FilesInPlace' /\ RollbackHasOld'
  BY <1>1 DEF PoolClosed, OneAtATime, FilesInPlace, InPlace, RollbackHasOld
<1> QED BY <1>3, <1>4, <1>5 DEF RestoreInv

\* A step of the export dialog or of the export.
LEMMA ExportFrame ==
    ASSUME RestoreInv, UNCHANGED <<file, app, restoring>>, proc = "up",
           hvb' \in Backup \cup {Absent, Torn}, phrases' \in 0..MaxPhrases,
           exp' \in Export, promised' \in 0..MaxPhrases, HasPhrase', PromiseKept'
    PROVE  RestoreInv'
<1>1. TypeOK'
  BY DEF RestoreInv, TypeOK, app, restoring
<1> QED BY <1>1 DEF RestoreInv, Working, Running, PoolClosed, OneAtATime, FilesInPlace,
          RollbackHasOld, app, restoring

LEMMA ExportInv ==
    ASSUME RestoreInv, ExportStep
    PROVE  RestoreInv'
<1>0. TypeOK /\ HasPhrase /\ PromiseKept /\ exp \in Export /\ phrases \in 0..MaxPhrases
  BY DEF RestoreInv, TypeOK
<1>1. CASE ExportDialog_Open
  <2>1. phrases + 1 \in 1..MaxPhrases
    BY <1>0, <1>1, RestoreBounds DEF ExportDialog_Open
  <2> DEFINE o == [NoExport EXCEPT !.pc = "words"]
             e == [o EXCEPT !.phrase = phrases + 1]
  <2>2. o \in Export /\ o.pc = "words"
    BY Blank DEF Export, NoExport
  <2>3. e \in Export /\ e.phrase = phrases + 1
    <3> HIDE DEF o
    <3> QED BY <2>1, <2>2 DEF Export
  <2>4. exp' = e
    BY <1>1 DEF ExportDialog_Open
  <2> HIDE DEF e
  <2> QED BY <1>0, <1>1, <2>1, <2>3, <2>4, ExportFrame
          DEF ExportDialog_Open, HasPhrase, PromiseKept, TypeOK
<1>2. ASSUME NEW m \in Means, enable_confirm(m) PROVE RestoreInv'
  <2>1. exp' \in Export /\ exp'.pc = exp.pc /\ exp'.phrase = exp.phrase
    BY <1>0, <1>2 DEF enable_confirm, Export
  <2> QED BY <1>0, <1>2, <2>1, ExportFrame
          DEF enable_confirm, HasPhrase, PromiseKept, TypeOK, RestoreInv, Running
<1>3. ASSUME NEW c \in BOOLEAN, ExportDialog_Response(c) PROVE RestoreInv'
  <2> DEFINE o == [exp EXCEPT !.pc = "read"]
             e == [o EXCEPT !.kept = @ \ {"clipboard"}]
  <2>1. o \in Export /\ o.phrase = exp.phrase
    BY <1>0 DEF Export
  <2>2. e \in Export /\ e.phrase = exp.phrase
    <3> HIDE DEF o
    <3> QED BY <2>1 DEF Export
  <2>3. exp' = e \/ exp' = NoExport
    BY <1>3 DEF ExportDialog_Response
  <2> HIDE DEF e
  <2>4. exp' \in Export /\ HasPhrase'
    BY <1>0, <1>3, <2>2, <2>3, Blank DEF ExportDialog_Response, HasPhrase, NoExport
  <2> QED BY <1>0, <1>3, <2>4, ExportFrame
          DEF ExportDialog_Response, PromiseKept, TypeOK, RestoreInv, Running
<1>4. CASE Export_Read
  <2>1. file["db"] \in Database => BytesRead \in Database
    BY RestoreBounds DEF BytesRead, Database
  <2> DEFINE o == [exp EXCEPT !.pc = "write"]
             e == [o EXCEPT !.bytes = BytesRead]
  <2>2. o \in Export /\ o.phrase = exp.phrase
    BY <1>0 DEF Export
  <2>3. file["db"] \in Database => e \in Export /\ e.phrase = exp.phrase
    <3> HIDE DEF o
    <3> QED BY <2>1, <2>2 DEF Export
  <2>4. (file["db"] \in Database /\ exp' = e) \/ exp' = NoExport
    BY <1>4 DEF Export_Read
  <2> HIDE DEF e
  <2>5. exp' \in Export /\ HasPhrase'
    BY <1>0, <1>4, <2>3, <2>4, Blank DEF Export_Read, HasPhrase, NoExport
  <2> QED BY <1>0, <1>4, <2>5, ExportFrame
          DEF Export_Read, PromiseKept, TypeOK, RestoreInv, Running
<1>5. CASE Export_Write
  <2>1. exp.phrase \in 1..MaxPhrases /\ exp.bytes \in Database /\ exp.faults \in 0..Faults
    BY <1>0, <1>5, RestoreBounds DEF Export_Write, HasPhrase, Export
  <2>2. hvb' \in Backup \cup {Torn}
    BY <1>5, <2>1 DEF Export_Write, encrypt_bytes, Backup
  <2> DEFINE o == [exp EXCEPT !.pc = "check"]
             e == [o EXCEPT !.faults = @ + 1]
  <2>3. o \in Export /\ o.phrase = exp.phrase /\ o.faults = exp.faults
    BY <1>0 DEF Export
  <2>4. exp.faults < Faults => e \in Export /\ e.phrase = exp.phrase
    <3> HIDE DEF o
    <3> QED BY <2>1, <2>3, RestoreBounds DEF Export
  <2>5. exp' = o \/ exp' = NoExport \/ (exp.faults < Faults /\ exp' = e)
    BY <1>5 DEF Export_Write
  <2> HIDE DEF e, o
  <2>6. exp' \in Export /\ HasPhrase'
    BY <1>0, <1>5, <2>3, <2>4, <2>5, Blank DEF Export_Write, HasPhrase, NoExport
  <2> QED BY <1>0, <1>5, <2>2, <2>6, ExportFrame, RestoreBounds
          DEF Export_Write, PromiseKept, TypeOK, RestoreInv, Running
<1>6. CASE Export_Check
  <2>1. exp' \in Export /\ HasPhrase'
    BY <1>6, Blank DEF Export_Check, HasPhrase, NoExport
  <2>2. PromiseKept' /\ promised' \in 0..MaxPhrases
    BY <1>0, <1>6 DEF Export_Check, PromiseKept, decrypt_bytes, TypeOK, Export
  <2> QED BY <1>0, <1>6, <2>1, <2>2, ExportFrame
          DEF Export_Check, TypeOK, RestoreInv, Running
<1>7. "clipboard" \in Means /\ "paper" \in Means /\ "file" \in Means
  BY DEF Means
<1> QED BY <1>1, <1>2, <1>3, <1>4, <1>5, <1>6, <1>7
        DEF ExportStep, CopyPhrase, PrintPhrase, SavePhrase
\* The restore page: opened, closed, submitted; the answer of a failed thread.
LEMMA PageInv ==
    ASSUME RestoreInv, present_restore_dialog \/ CloseRestorePage
    PROVE  RestoreInv'
<1>0. TypeOK
  BY DEF RestoreInv
<1>1. CASE present_restore_dialog
  <2>1. TypeOK'
    BY <1>0, <1>1 DEF present_restore_dialog, TypeOK, exporting, app
  <2> QED BY <1>1, <2>1 DEF present_restore_dialog, RestoreInv, Working, Running, HasPhrase,
              PoolClosed, OneAtATime, FilesInPlace, RollbackHasOld, PromiseKept, exporting, app
<1>2. CASE CloseRestorePage
  <2>1. \A r \in Restores :
            /\ th'[r] \in Thread /\ th'[r].pc = th[r].pc /\ th'[r].ver = th[r].ver
            /\ th'[r].present = th[r].present /\ th'[r].faults = th[r].faults
    BY <1>0, <1>2 DEF CloseRestorePage, TypeOK, Thread
  <2>2. TypeOK'
    <3>1. th' \in [Restores -> Thread]
      BY <1>2, <2>1 DEF CloseRestorePage
    <3> QED BY <1>0, <1>2, <3>1, Blank DEF CloseRestorePage, TypeOK, exporting, app
  <2>3. Working' /\ Running' /\ HasPhrase' /\ PromiseKept'
    BY <1>2, <2>1 DEF CloseRestorePage, RestoreInv, Working, Running, HasPhrase, PromiseKept,
       exporting, app, ClosedPage
  <2>4. PoolClosed' /\ OneAtATime' /\ RollbackHasOld'
    <3>1. PoolClosed'
      BY <1>2, <2>1 DEF CloseRestorePage, RestoreInv, PoolClosed, app
    <3>2. OneAtATime'
      BY <1>2, <2>1 DEF CloseRestorePage, RestoreInv, OneAtATime
    <3>3. RollbackHasOld'
      BY <1>2, <2>1, Zenon DEF RestoreInv, RollbackHasOld
    <3> QED BY <3>1, <3>2, <3>3
  <2>5. FilesInPlace'
    BY <1>2, <2>1 DEF CloseRestorePage, RestoreInv, FilesInPlace, InPlace
  <2> QED BY <2>2, <2>3, <2>4, <2>5 DEF RestoreInv
<1> QED BY <1>1, <1>2

\* The thread a submitted form starts.
LEMMA NewThread ==
    ASSUME NEW r \in Restores, NEW phrase \in 0..MaxPhrases
    PROVE  LET t == [NoThread EXCEPT !.pc = "cleanup", !.phrase = phrase, !.mine = TRUE]
           IN  t \in Thread /\ t.pc = "cleanup"
<1> DEFINE o == [NoThread EXCEPT !.pc = "cleanup"]
           p == [o EXCEPT !.phrase = phrase]
           t == [p EXCEPT !.mine = TRUE]
<1>1. o \in Thread /\ o.pc = "cleanup"
  BY Blank DEF Thread
<1>2. p \in Thread /\ p.pc = "cleanup"
  <2> HIDE DEF o
  <2> QED BY <1>1 DEF Thread
<1>3. t \in Thread /\ t.pc = "cleanup"
  <2> HIDE DEF p
  <2> QED BY <1>2 DEF Thread
<1> QED BY <1>3

LEMMA SubmitInv ==
    ASSUME RestoreInv, NEW r \in Restores, NEW phrase \in 0..MaxPhrases,
           SubmitRestore(r, phrase)
    PROVE  RestoreInv'
<1> DEFINE t == [NoThread EXCEPT !.pc = "cleanup", !.phrase = phrase, !.mine = TRUE]
<1>1. TypeOK /\ proc = "up"
  BY DEF RestoreInv, Running, SubmitRestore, update_action_state
<1>2. t \in Thread /\ t.pc = "cleanup" /\ th' = [th EXCEPT ![r] = t]
  BY NewThread DEF SubmitRestore
<1> HIDE DEF t
<1>3. /\ th'[r] = t /\ th' \in [Restores -> Thread]
      /\ \A q \in Restores : q # r => th'[q] = th[q]
  BY <1>1, <1>2 DEF TypeOK
<1>4. exclusive' \in BOOLEAN /\ (exclusive' => \A q \in Restores : th[q].pc = "idle")
  BY DEF SubmitRestore
<1>5. TypeOK'
  BY <1>1, <1>3, <1>4 DEF SubmitRestore, TypeOK, exporting, app
<1>6. Working' /\ Running' /\ HasPhrase' /\ PromiseKept'
  BY <1>1 DEF SubmitRestore, RestoreInv, Working, Running, HasPhrase, PromiseKept, exporting, app
<1>7. PoolClosed' /\ OneAtATime' /\ RollbackHasOld'
  BY <1>2, <1>3, <1>4
  DEF SubmitRestore, RestoreInv, PoolClosed, OneAtATime, RollbackHasOld, app
<1>8. FilesInPlace'
  BY <1>2, <1>3, <1>4 DEF FilesInPlace, InPlace
<1> QED BY <1>5, <1>6, <1>7, <1>8 DEF RestoreInv

LEMMA FailedInv ==
    ASSUME RestoreInv, NEW r \in Restores, RestoreFailed(r)
    PROVE  RestoreInv'
<1>1. TypeOK /\ proc = "up"
  BY DEF RestoreInv, Running, RestoreFailed
<1>2. /\ th'[r] = NoThread /\ th' \in [Restores -> Thread]
      /\ \A q \in Restores : q # r => th'[q] = th[q]
  BY <1>1, Blank DEF RestoreFailed, TypeOK
<1>3. page' \in [open: BOOLEAN, busy: BOOLEAN]
  BY <1>1 DEF RestoreFailed, TypeOK, Thread
<1>4. TypeOK'
  BY <1>1, <1>2, <1>3 DEF RestoreFailed, TypeOK, exporting, app
<1>5. NoThread.pc = "idle"
  BY DEF NoThread
<1>6. Working' /\ Running' /\ HasPhrase' /\ PromiseKept'
  BY <1>1 DEF RestoreFailed, RestoreInv, Working, Running, HasPhrase, PromiseKept, exporting, app
<1>7. PoolClosed' /\ OneAtATime' /\ RollbackHasOld'
  BY <1>2, <1>5
  DEF RestoreFailed, RestoreInv, PoolClosed, OneAtATime, RollbackHasOld, app
<1>8. FilesInPlace'
  BY <1>2, <1>5 DEF RestoreFailed, RestoreInv, FilesInPlace, InPlace
<1> QED BY <1>4, <1>6, <1>7, <1>8 DEF RestoreInv

LEMMA NextInv == RestoreInv /\ [Next]_vars => RestoreInv'
<1> SUFFICES ASSUME RestoreInv, [Next]_vars PROVE RestoreInv'
  OBVIOUS
<1>1. CASE UNCHANGED vars
  BY <1>1 DEF RestoreInv, TypeOK, Working, Running, HasPhrase, PoolClosed, OneAtATime,
     FilesInPlace, RollbackHasOld, PromiseKept, vars, app, exporting, restoring
<1>2. CASE Crash
  BY <1>2, DownInv, RestoreBounds DEF Crash, RestoreInv, TypeOK
<1>3. ASSUME NEW r \in Restores, RestoreCompleted(r) PROVE RestoreInv'
  BY <1>3, DownInv DEF RestoreCompleted, RestoreInv, TypeOK
<1> QED BY <1>1, <1>2, <1>3, WorkInv, StartInv, ExportInv, PageInv, SubmitInv, FailedInv,
           RestoreStepInv DEF Next

\* RestoreInv holds in every reachable state.
LEMMA RestoreInvariant == Spec => []RestoreInv
  BY InitInv, NextInv, PTL DEF Spec

-----------------------------------------------------------------------------
(* Theorems.                                                               *)

\* Files, dialogs and threads keep their types.
THEOREM TypeCorrect == Spec => []TypeOK
<1>1. RestoreInv => TypeOK
  BY DEF RestoreInv
<1> QED BY <1>1, RestoreInvariant, PTL

\* A restore that reports success has put the version of the backup in place,
\* with the chosen password, and nothing has been written into it since:
\* main.rs closes the pool before promote_staged_restore.
THEOREM SuccessIsAsAsked == Spec => []RestoredAsAsked
<1>1. RestoreInv => RestoredAsAsked
  BY DEF RestoreInv, RestoredAsAsked, FilesInPlace, InPlace, PoolClosed, Working
<1> QED BY <1>1, RestoreInvariant, PTL

\* A backup that export_hvb_with_recovery_key has reported as good passes the
\* import of every later restore with its phrase, unless the disk fails it.
THEOREM GoodBackupRestores == Spec => PromisedBackupRestores
<1> DEFINE Refused(r) == /\ th[r].pc = "import" /\ th'[r].pc = "failed"
                         /\ promised # 0 /\ promised = th[r].phrase
           Allowed == \A r \in Restores : Refused(r) => th'[r].faults > th[r].faults
<1>1. RestoreInv /\ [Next]_vars => [Allowed]_vars
  <2> SUFFICES ASSUME RestoreInv, Next, NEW r \in Restores, Refused(r)
               PROVE  th'[r].faults > th[r].faults
    OBVIOUS
  <2>1. TypeOK /\ th[r] \in Thread /\ decrypt_bytes(th[r].phrase)
    BY DEF RestoreInv, TypeOK, PromiseKept, decrypt_bytes
  <2>2. \A q \in Restores : q # r /\ th'[r] # th[r] => ~RestoreStep(q)
    BY <2>1 DEF RestoreStep, cleanup_restore_staging_path, import_hvb_with_recovery_key,
       apply_restored_login_password, ClosePool, Promote_RemoveOld, Promote_Rotate,
       Promote_Swap, Promote_Rollback, Goto, Fails, Fault, TypeOK
  <2>3. import_hvb_with_recovery_key(r)
    <3>1. th'[r] # th[r]
      OBVIOUS
    <3>2. ~RestoreFailed(r) /\ \A q \in Restores : q # r => ~RestoreFailed(q)
      BY <2>1, <3>1 DEF RestoreFailed, TypeOK
    <3>3. ~Down /\ ~CloseRestorePage
      BY <2>1 DEF Down, CloseRestorePage, NoThread, Thread
    <3>4. \A q \in Restores, phrase \in 0..MaxPhrases : ~SubmitRestore(q, phrase)
      BY <2>1, <3>1 DEF SubmitRestore, TypeOK
    <3>5. ~Work_Begin /\ ~Work_Commit /\ ~initialize_app_context /\ ~ExportStep
          /\ ~present_restore_dialog
      BY <3>1 DEF Work_Begin, Work_Commit, initialize_app_context, ExportStep,
         present_restore_dialog, restoring, ExportDialog_Open, CopyPhrase, PrintPhrase,
         SavePhrase, enable_confirm, ExportDialog_Response, Export_Read, Export_Write,
         Export_Check
    <3>6. RestoreStep(r)
      BY <2>2, <3>1, <3>2, <3>3, <3>4, <3>5 DEF Next, Crash, RestoreCompleted
    <3> QED BY <3>6 DEF RestoreStep, cleanup_restore_staging_path, import_hvb_with_recovery_key,
            apply_restored_login_password, ClosePool, Promote_RemoveOld, Promote_Rotate,
            Promote_Swap, Promote_Rollback
  <2>4. Fault(r)
    BY <2>1, <2>3 DEF import_hvb_with_recovery_key, TypeOK, Thread
  <2>5. th'[r].faults = th[r].faults + 1
    BY <2>1, <2>4 DEF Fault, TypeOK, NoThread
  <2> QED BY <2>1, <2>5, FaultCount
<1>2. Spec => [][Allowed]_vars
  BY <1>1, RestoreInvariant, PTL DEF Spec
<1> QED BY <1>2 DEF PromisedBackupRestores
-----------------------------------------------------------------------------
(* The refinement.                                                         *)

\* What the restores have reported, as AtomicReplace sees it.
Answers == [r \in Restores |-> Answer(r)]

\* The database is the same when the two files that can be it are, and the
\* same threads are between the two renames.
LEMMA SameCurrent ==
    ASSUME file'["db"] = file["db"], file'["old"] = file["old"],
           \A q \in Restores : InWindow(q)' <=> InWindow(q)
    PROVE  Current' = Current
  BY DEF Current, Exists

LEMMA SameAnswers ==
    ASSUME \A q \in Restores : th'[q].pc = th[q].pc
    PROVE  Answers' = Answers
  BY DEF Answers, Answer

\* One thread moves: only its own answer changes.
LEMMA OneAnswer ==
    ASSUME TypeOK, NEW r \in Restores, NEW t, th' = [th EXCEPT ![r] = t],
           NEW a, a = Answer(r)'
    PROVE  Answers' = [Answers EXCEPT ![r] = a] /\ th'[r] = t
<1>1. th'[r] = t /\ \A q \in Restores : q # r => th'[q] = th[q]
  BY DEF TypeOK
<1>2. \A q \in Restores : q # r => Answer(q)' = Answer(q)
  BY <1>1 DEF Answer
<1> QED BY <1>1, <1>2 DEF Answers

\* A step of AtomicReplace, or none.
AbstractStep ==
    Abstract!Next \/ (Current' = Current /\ Answers' = Answers /\ exclusive' = exclusive)

\* A thread goes on, and the files that can be the database do not change.
LEMMA GoesOn ==
    ASSUME RestoreInv, NEW r \in Restores, NEW t, th' = [th EXCEPT ![r] = t],
           th[r].pc \notin {"idle", "ok", "failed"}, t.pc \notin {"idle", "ok", "failed"},
           UNCHANGED exclusive, Current' = Current \/ ~exclusive
    PROVE  AbstractStep
<1>1. Answers' = Answers
  <2>1. TypeOK
    BY DEF RestoreInv
  <2>2. th'[r] = t /\ \A q \in Restores : q # r => th'[q] = th[q]
    BY <2>1 DEF TypeOK
  <2>3. \A q \in Restores : Answer(q)' = Answer(q)
    BY <2>2 DEF Answer
  <2> QED BY <2>3 DEF Answers
<1>2. CASE Current' = Current
  BY <1>1, <1>2 DEF AbstractStep
<1>3. CASE ~exclusive
  BY <1>1, <1>3 DEF AbstractStep, Abstract!Next, Abstract!Disturb, Answers
<1> QED BY <1>2, <1>3

\* A thread reports a failure.
LEMMA Failing ==
    ASSUME RestoreInv, NEW r \in Restores, Fault(r) \/ Fails(r),
           th[r].pc \notin {"idle", "ok", "failed"},
           UNCHANGED exclusive, exclusive => Current' = Current
    PROVE  AbstractStep
<1>1. TypeOK
  BY DEF RestoreInv
<1>2. th'[r].pc = "failed" /\ th' = [th EXCEPT ![r] = th'[r]]
  BY <1>1 DEF Fault, Fails, NoThread, TypeOK
<1>3. Answer(r)' = "failed" /\ Answer(r) = "pending"
  BY <1>2 DEF Answer
<1>4. Answers' = [Answers EXCEPT ![r] = "failed"] /\ Answers[r] = "pending"
  BY <1>1, <1>2, <1>3, OneAnswer DEF Answers
<1>5. Abstract!Fail(r)
  BY <1>4 DEF Abstract!Fail, Answers
<1> QED BY <1>5 DEF AbstractStep, Abstract!Next
\* A thread that is not between the renames, before and after its step.
LEMMA OutsideWindow ==
    ASSUME RestoreInv, NEW r \in Restores, NEW t, th' = [th EXCEPT ![r] = t],
           th[r].pc \notin {"swap", "rollback"}, t.pc \notin {"swap", "rollback"}
    PROVE  \A q \in Restores : InWindow(q)' <=> InWindow(q)
<1>1. th'[r] = t /\ \A q \in Restores : q # r => th'[q] = th[q]
  BY DEF RestoreInv, TypeOK
<1> QED BY <1>1 DEF InWindow

\* As long as no two restores overlap, no thread but r can be between the
\* renames while r runs.
LEMMA AloneInWindow ==
    ASSUME RestoreInv, exclusive, NEW r \in Restores, th[r].pc # "idle",
           NEW t, th' = [th EXCEPT ![r] = t]
    PROVE  /\ th'[r] = t
           /\ \A q \in Restores : q # r => ~InWindow(q) /\ ~InWindow(q)'
<1>1. th'[r] = t /\ \A q \in Restores : q # r => th'[q] = th[q]
  BY DEF RestoreInv, TypeOK
<1>2. \A q \in Restores : q # r => th[q].pc = "idle"
  BY DEF RestoreInv, OneAtATime
<1> QED BY <1>1, <1>2 DEF InWindow

\* Staging: the database is not touched.
LEMMA StagingRefines ==
    ASSUME RestoreInv, NEW r \in Restores,
           \/ cleanup_restore_staging_path(r)
           \/ import_hvb_with_recovery_key(r)
           \/ apply_restored_login_password(r)
           \/ ClosePool(r)
    PROVE  AbstractStep
<1>1. TypeOK /\ th[r] \in Thread /\ UNCHANGED exclusive
  BY DEF RestoreInv, TypeOK, cleanup_restore_staging_path, import_hvb_with_recovery_key,
     apply_restored_login_password, ClosePool
<1>2. th[r].pc \in {"cleanup", "import", "password", "close"}
  BY DEF cleanup_restore_staging_path, import_hvb_with_recovery_key,
     apply_restored_login_password, ClosePool
<1>3. file'["db"] = file["db"] /\ file'["old"] = file["old"]
  BY <1>1 DEF cleanup_restore_staging_path, import_hvb_with_recovery_key, MovedAside,
     apply_restored_login_password, ClosePool, TypeOK, Path
<1>4. CASE Fault(r) \/ Fails(r)
  <2>1. th' = [th EXCEPT ![r] = th'[r]] /\ th'[r].pc = "failed"
    BY <1>1, <1>4 DEF Fault, Fails, NoThread, TypeOK
  <2>2. Current' = Current
    BY <1>2, <1>3, <2>1, OutsideWindow, SameCurrent
  <2> QED BY <1>1, <1>2, <1>4, <2>2, Failing
<1>5. CASE ~Fault(r) /\ ~Fails(r)
  <2>1. /\ th' = [th EXCEPT ![r] = th'[r]]
        /\ th'[r].pc \in {"import", "password", "close", "remove_old"}
    BY <1>1, <1>5 DEF cleanup_restore_staging_path, import_hvb_with_recovery_key,
       apply_restored_login_password, ClosePool, Goto, TypeOK, Thread
  <2>2. Current' = Current
    BY <1>2, <1>3, <2>1, OutsideWindow, SameCurrent
  <2> QED BY <1>1, <1>2, <2>1, <2>2, GoesOn
<1> QED BY <1>4, <1>5

LEMMA RemoveOldRefines ==
    ASSUME RestoreInv, NEW r \in Restores, Promote_RemoveOld(r)
    PROVE  AbstractStep
<1>1. TypeOK /\ th[r] \in Thread /\ UNCHANGED exclusive /\ th[r].pc = "remove_old"
  BY DEF RestoreInv, TypeOK, Promote_RemoveOld
<1>2. CASE UNCHANGED file /\ Fault(r)
  <2>1. th' = [th EXCEPT ![r] = th'[r]] /\ th'[r].pc = "failed"
    BY <1>1, <1>2 DEF Fault, NoThread, TypeOK
  <2>2. Current' = Current
    BY <1>1, <1>2, <2>1, OutsideWindow, SameCurrent
  <2> QED BY <1>1, <1>2, <2>2, Failing
<1>3. CASE file' = [file EXCEPT !["old"] = Absent] /\ Goto(r, "rotate")
  <2>1. th' = [th EXCEPT ![r] = th'[r]] /\ th'[r].pc = "rotate"
    BY <1>1, <1>3 DEF Goto, TypeOK, Thread
  <2>2. file'["db"] = file["db"]
    BY <1>1, <1>3 DEF TypeOK, Path
  <2>3. exclusive => Current' = Current
    BY <1>1, <2>1, <2>2, AloneInWindow DEF Current, Exists, InWindow
  <2> QED BY <1>1, <2>1, <2>3, GoesOn
<1> QED BY <1>2, <1>3 DEF Promote_RemoveOld

\* The first rename: from here on the database is the one in .old.
LEMMA RotateRefines ==
    ASSUME RestoreInv, NEW r \in Restores, Promote_Rotate(r)
    PROVE  AbstractStep
<1>1. TypeOK /\ th[r] \in Thread /\ UNCHANGED exclusive /\ th[r].pc = "rotate"
  BY DEF RestoreInv, TypeOK, Promote_Rotate
<1>2. CASE UNCHANGED file /\ Fault(r)
  <2>1. th' = [th EXCEPT ![r] = th'[r]] /\ th'[r].pc = "failed"
    BY <1>1, <1>2 DEF Fault, NoThread, TypeOK
  <2>2. Current' = Current
    BY <1>1, <1>2, <2>1, OutsideWindow, SameCurrent
  <2> QED BY <1>1, <1>2, <2>2, Failing
<1>3. CASE /\ file' = [file EXCEPT !["old"] = IF Exists("db") THEN file["db"] ELSE @,
                                   !["db"] = Absent]
           /\ th' = [th EXCEPT ![r].pc = "swap", ![r].present = Exists("db")]
  <2>1. /\ th' = [th EXCEPT ![r] = th'[r]]
        /\ th'[r].pc = "swap"
        /\ th'[r].present = Exists("db")
    BY <1>1, <1>3 DEF TypeOK, Thread
  <2>2. /\ file'["db"] = Absent
        /\ Exists("db") => file'["old"] = file["db"]
    BY <1>1, <1>3 DEF TypeOK, Path
  <2>3. exclusive => Current' = Current
    <3> SUFFICES ASSUME exclusive PROVE Current' = Current
      OBVIOUS
    <3>1. \A q \in Restores : q # r => ~InWindow(q) /\ ~InWindow(q)'
      BY <1>1, <2>1, AloneInWindow
    <3>2. ~InWindow(r)
      BY <1>1 DEF InWindow
    <3>3. InWindow(r)' <=> Exists("db")
      BY <2>1 DEF InWindow
    <3>4. CASE Exists("db")
      BY <3>3, <3>4, <2>2 DEF Current, Exists
    <3>5. CASE ~Exists("db")
      BY <3>1, <3>2, <3>3, <3>5, <2>2 DEF Current, Exists
    <3> QED BY <3>4, <3>5
  <2> QED BY <1>1, <2>1, <2>3, GoesOn
<1> QED BY <1>2, <1>3 DEF Promote_Rotate
\* The second rename reports success; it fails only into a roll-back, or where
\* there was no database before.
LEMMA SwapRefines ==
    ASSUME RestoreInv, NEW r \in Restores, Promote_Swap(r)
    PROVE  AbstractStep
<1>1. TypeOK /\ th[r] \in Thread /\ UNCHANGED exclusive /\ th[r].pc = "swap"
  BY DEF RestoreInv, TypeOK, Promote_Swap
<1>2. CASE /\ file' = [file EXCEPT !["db"] = file["tmp"], !["tmp"] = Absent]
           /\ Exists("tmp")
           /\ th' = [th EXCEPT ![r].pc = "ok", ![r].present = FALSE]
  <2>1. th' = [th EXCEPT ![r] = th'[r]] /\ th'[r].pc = "ok"
    BY <1>1, <1>2 DEF TypeOK, Thread
  <2>2. Answer(r)' = "ok" /\ Answer(r) = "pending"
    BY <1>1, <2>1 DEF Answer
  <2>3. Answers' = [Answers EXCEPT ![r] = "ok"] /\ Answers[r] = "pending"
    BY <1>1, <2>1, <2>2, OneAnswer DEF Answers
  <2>4. Current' = file["tmp"]
    <3>1. file'["db"] = file["tmp"]
      BY <1>1, <1>2 DEF TypeOK, Path
    <3> QED BY <1>2, <3>1 DEF Current, Exists
  <2>5. exclusive => file["tmp"] = [ver |-> th[r].ver, pw |-> r] /\ file["tmp"] \in Database
    BY <1>1 DEF RestoreInv, FilesInPlace, InPlace, Database, Thread
  <2>6. Abstract!Succeed(r)
    BY <1>1, <2>3, <2>4, <2>5 DEF Abstract!Succeed, Abstract!SetBy, Answers
  <2> QED BY <2>6 DEF AbstractStep, Abstract!Next
<1>3. CASE UNCHANGED file /\ ~th[r].present /\ (Fails(r) \/ Fault(r))
  <2>1. th'[r].pc = "failed" /\ \A q \in Restores : q # r => th'[q] = th[q]
    BY <1>1, <1>3 DEF Fault, Fails, NoThread, TypeOK
  <2>2. \A q \in Restores : InWindow(q)' <=> InWindow(q)
    BY <1>3, <2>1 DEF InWindow
  <2> QED BY <1>1, <1>3, <2>2, SameCurrent, Failing
<1>4. CASE UNCHANGED file /\ th[r].present /\ th'[r].pc = "rollback" /\ th'[r].present
           /\ th' = [th EXCEPT ![r] = th'[r]]
  <2>1. \A q \in Restores : q # r => th'[q] = th[q]
    BY <1>1, <1>4 DEF TypeOK
  <2>2. \A q \in Restores : InWindow(q)' <=> InWindow(q)
    BY <1>1, <1>4, <2>1 DEF InWindow
  <2> QED BY <1>1, <1>4, <2>2, SameCurrent, GoesOn
<1>5. CASE UNCHANGED file /\ th[r].present /\ Goto(r, "rollback")
  BY <1>1, <1>4, <1>5 DEF Goto, TypeOK, Thread
<1>6. CASE /\ UNCHANGED file /\ th[r].faults < Faults /\ th[r].present
           /\ th' = [th EXCEPT ![r].faults = @ + 1, ![r].pc = "rollback"]
  <2>1. /\ th' = [th EXCEPT ![r] = th'[r]]
        /\ th'[r].pc = "rollback" /\ th'[r].present = th[r].present
    BY <1>1, <1>6 DEF TypeOK, Thread
  <2> QED BY <1>4, <1>6, <2>1
<1> QED BY <1>2, <1>3, <1>5, <1>6 DEF Promote_Swap

\* The roll-back brings back the database it was before the first rename.
LEMMA RollbackRefines ==
    ASSUME RestoreInv, NEW r \in Restores, Promote_Rollback(r)
    PROVE  AbstractStep
<1>1. /\ TypeOK /\ th[r] \in Thread /\ UNCHANGED exclusive
      /\ th[r].pc = "rollback" /\ th[r].present
  BY DEF RestoreInv, TypeOK, RollbackHasOld, Promote_Rollback
<1>2. Fails(r) \/ Fault(r)
  BY DEF Promote_Rollback
<1>3. exclusive => Current' = Current
  <2> SUFFICES ASSUME exclusive PROVE Current' = Current
    OBVIOUS
  <2>1. file["db"] = Absent /\ file["old"] # Absent /\ th[r].faults = Faults
    BY <1>1 DEF RestoreInv, FilesInPlace, InPlace
  <2>2. ~Fault(r)
    BY <1>1, <2>1, RestoreBounds DEF Fault, Thread
  <2>3. file' = [file EXCEPT !["db"] = file["old"], !["old"] = Absent]
    BY <2>1, <2>2 DEF Promote_Rollback, Exists
  <2>4. file'["db"] = file["old"]
    BY <1>1, <2>3 DEF TypeOK, Path
  <2>5. InWindow(r)
    BY <1>1 DEF InWindow
  <2> QED BY <2>1, <2>4, <2>5 DEF Current, Exists
<1> QED BY <1>1, <1>2, <1>3, Failing

\* The process ends: the pending restores with it.
LEMMA DownRefines ==
    ASSUME RestoreInv, Down, UNCHANGED <<file, exclusive>>
    PROVE  AbstractStep
<1>1. \A q \in Restores : ~InWindow(q)' /\ Answer(q)' = "none"
  BY DEF Down, InWindow, NoThread, Answer
<1>2. Answers' = [r \in Restores |-> "none"]
  BY <1>1 DEF Answers
<1>3. \/ Current' = Current
      \/ Current' = Absent /\ \E r \in Restores : Answers[r] = "pending"
  <2>1. CASE Exists("db") \/ ~\E q \in Restores : InWindow(q)
    BY <1>1, <2>1 DEF Current, Exists
  <2>2. CASE ~Exists("db") /\ \E q \in Restores : InWindow(q)
    <3>1. PICK q \in Restores : InWindow(q)
      BY <2>2
    <3>2. Answers[q] = "pending"
      BY <3>1 DEF InWindow, Answer, Answers
    <3>3. Current' = Absent
      BY <1>1, <2>2 DEF Current, Exists
    <3> QED BY <3>2, <3>3
  <2> QED BY <2>1, <2>2
<1>4. Abstract!Stop
  BY <1>2, <1>3 DEF Abstract!Stop, Answers
<1> QED BY <1>4 DEF AbstractStep, Abstract!Next

\* A start creates the database where there is none.
LEMMA StartRefines ==
    ASSUME RestoreInv, initialize_app_context
    PROVE  AbstractStep
<1>1. \A q \in Restores : ~InWindow(q)' /\ ~InWindow(q)
  BY DEF initialize_app_context, RestoreInv, Running, InWindow, restoring
<1>2. TypeOK /\ UNCHANGED <<th, exclusive>>
  BY DEF RestoreInv, initialize_app_context, restoring
<1>3. Answers' = Answers
  BY <1>2, SameAnswers
<1>4. CASE Exists("db")
  <2>1. file'["db"] = file["db"]
    BY <1>2, <1>4 DEF initialize_app_context, Exists, TypeOK, Path
  <2> QED BY <1>2, <1>3, <1>4, <2>1 DEF AbstractStep, Current, Exists
<1>5. CASE ~Exists("db")
  <2>1. file'["db"] = Empty
    BY <1>2, <1>5, Distinct DEF initialize_app_context, Exists, TypeOK, Path
  <2>2. Current = Absent /\ Current' = Empty
    BY <1>1, <1>5, <2>1, Distinct DEF Current, Exists
  <2>3. Abstract!Create
    BY <1>2, <1>3, <2>2 DEF Abstract!Create, Answers
  <2> QED BY <2>3 DEF AbstractStep, Abstract!Next
<1> QED BY <1>4, <1>5

\* A commit is an edit of the database in place.
LEMMA CommitRefines ==
    ASSUME RestoreInv, Work_Commit
    PROVE  AbstractStep
<1>1. /\ TypeOK /\ UNCHANGED <<th, exclusive>> /\ file["db"] \in Database \cup {Empty}
      /\ version + 1 \in 1..MaxVersion
  BY RestoreBounds DEF RestoreInv, TypeOK, Working, Work_Commit, restoring
<1>2. file'["db"] \in Database
  BY <1>1 DEF Work_Commit, TypeOK, Path, Database
<1>3. Current \in Database \cup {Empty} /\ Current' \in Database
  BY <1>1, <1>2, Distinct DEF Current, Exists
<1>4. Abstract!Edit
  BY <1>1, <1>3, SameAnswers DEF Abstract!Edit, Answers
<1> QED BY <1>4 DEF AbstractStep, Abstract!Next
\* A form is submitted, and a failure is acknowledged.
LEMMA FormRefines ==
    ASSUME RestoreInv, NEW r \in Restores,
           RestoreFailed(r) \/ \E phrase \in 0..MaxPhrases : SubmitRestore(r, phrase)
    PROVE  AbstractStep
<1>1. TypeOK /\ UNCHANGED file
  BY DEF RestoreInv, RestoreFailed, SubmitRestore
<1>2. CASE RestoreFailed(r)
  <2>1. th' = [th EXCEPT ![r] = NoThread] /\ UNCHANGED exclusive /\ th[r].pc = "failed"
    BY <1>2 DEF RestoreFailed
  <2>2. Answer(r)' = "none" /\ Answer(r) = "failed"
    BY <1>1, <2>1 DEF Answer, NoThread, TypeOK
  <2>3. Answers' = [Answers EXCEPT ![r] = "none"] /\ Answers[r] = "failed"
    BY <1>1, <2>1, <2>2, OneAnswer DEF Answers
  <2>4. Current' = Current
    BY <1>1, <2>1, OutsideWindow, SameCurrent DEF NoThread
  <2>5. Abstract!Acknowledge(r)
    BY <2>1, <2>3, <2>4 DEF Abstract!Acknowledge, Answers
  <2> QED BY <2>5 DEF AbstractStep, Abstract!Next
<1>3. ASSUME NEW phrase \in 0..MaxPhrases, SubmitRestore(r, phrase) PROVE AbstractStep
  <2> DEFINE t == [NoThread EXCEPT !.pc = "cleanup", !.phrase = phrase, !.mine = TRUE]
  <2>1. t.pc = "cleanup" /\ th' = [th EXCEPT ![r] = t] /\ th[r].pc = "idle"
    BY <1>3, NewThread DEF SubmitRestore
  <2> HIDE DEF t
  <2>2. Answer(r)' = "pending" /\ Answer(r) = "none"
    BY <1>1, <2>1 DEF Answer, TypeOK
  <2>3. Answers' = [Answers EXCEPT ![r] = "pending"] /\ Answers[r] = "none"
    BY <1>1, <2>1, <2>2, OneAnswer DEF Answers
  <2>4. Current' = Current
    BY <1>1, <2>1, OutsideWindow, SameCurrent
  <2>5. exclusive' = (exclusive /\ \A q \in Restores : Answers[q] = "none")
    <3>1. \A q \in Restores : Answers[q] = "none" <=> th[q].pc = "idle"
      BY <1>1 DEF Answers, Answer, TypeOK, Thread
    <3> QED BY <1>3, <3>1 DEF SubmitRestore
  <2>6. Abstract!Begin(r)
    BY <2>3, <2>4, <2>5 DEF Abstract!Begin, Answers
  <2> QED BY <2>6 DEF AbstractStep, Abstract!Next
<1> QED BY <1>2, <1>3

\* Steps that reach neither the files nor the threads' place in their work.
LEMMA StutterRefines ==
    ASSUME RestoreInv,
           Work_Begin \/ ExportStep \/ present_restore_dialog \/ CloseRestorePage \/ UNCHANGED vars
    PROVE  AbstractStep
<1>1. CASE CloseRestorePage
  <2>1. \A q \in Restores : th'[q].pc = th[q].pc /\ th'[q].present = th[q].present
    BY <1>1 DEF RestoreInv, TypeOK, Thread, CloseRestorePage
  <2>2. UNCHANGED <<file, exclusive>>
    BY <1>1 DEF CloseRestorePage
  <2>3. \A q \in Restores : InWindow(q)' <=> InWindow(q)
    BY <2>1, Zenon DEF InWindow
  <2> QED BY <2>1, <2>2, <2>3, SameAnswers, SameCurrent DEF AbstractStep
<1>2. CASE UNCHANGED <<file, th, exclusive>>
  BY <1>2, SameAnswers, SameCurrent DEF AbstractStep, InWindow
<1>3. ExportStep => UNCHANGED <<file, th, exclusive>>
  BY DEF ExportStep, ExportDialog_Open, CopyPhrase, PrintPhrase, SavePhrase, enable_confirm,
     ExportDialog_Response, Export_Read, Export_Write, Export_Check, restoring
<1> QED BY <1>1, <1>2, <1>3 DEF Work_Begin, present_restore_dialog, vars, restoring

\* The restore of main.rs, the crashes and failing file operations included,
\* implements AtomicReplace: to the user it is one step that either replaces
\* the database, with the chosen password set, or changes nothing.
THEOREM Refinement == Spec => RestoreIsAtomic
<1>1. Init => Abstract!Init
  <2> SUFFICES ASSUME Init PROVE Abstract!Init
    OBVIOUS
  <2>1. Current = Original
    BY Blank, Distinct DEF Init, Current, Exists, Path
  <2>2. Answers = [r \in Restores |-> "none"]
    BY DEF Init, Answers, Answer, NoThread
  <2> QED BY <2>1, <2>2, Blank DEF Init, Abstract!Init, Answers
<1>2. RestoreInv /\ [Next]_vars => [Abstract!Next]_(Abstract!vars)
  <2> SUFFICES ASSUME RestoreInv, [Next]_vars PROVE AbstractStep
    BY DEF AbstractStep, Abstract!vars, Answers
  <2>1. ASSUME NEW r \in Restores, RestoreStep(r) PROVE AbstractStep
    BY <2>1, StagingRefines, RemoveOldRefines, RotateRefines, SwapRefines, RollbackRefines
    DEF RestoreStep
  <2>2. CASE Crash
    BY <2>2, DownRefines DEF Crash
  <2>3. ASSUME NEW r \in Restores, RestoreCompleted(r) PROVE AbstractStep
    BY <2>3, DownRefines DEF RestoreCompleted
  <2> QED BY <2>1, <2>2, <2>3, StartRefines, CommitRefines, FormRefines, StutterRefines DEF Next
<1>3. Spec => Abstract!Spec
  BY <1>1, <1>2, RestoreInvariant, PTL DEF Spec, Abstract!Spec
<1> QED BY <1>3 DEF RestoreIsAtomic

=============================================================================
