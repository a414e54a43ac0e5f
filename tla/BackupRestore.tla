---------------------------- MODULE BackupRestore ----------------------------
(***************************************************************************)
(* Backups and restores: services/backup_service.rs behind                 *)
(* backup_application_service.rs, the export dialog of the profile page,   *)
(* the restore page of the login dialog and the restore callback and       *)
(* start-up of main.rs.                                                    *)
(*                                                                         *)
(* A restore runs in a thread; the page can be closed and opened again     *)
(* while it runs, and a second restore then uses the same staging file.    *)
(* Each file operation is one step and may fail (once per restore: Faults);*)
(* the process may stop between any two.  Bytes are abstract: a complete   *)
(* database is a version and the password of its first administrator, a    *)
(* backup is a database sealed under a recovery phrase.  Version 0 is what *)
(* fs::read returns of a database file while SQLite is writing it.         *)
(*                                                                         *)
(* Left out: file permissions, the clearing of auth_policy, checks of the  *)
(* container format, all of which only make an operation fail, and         *)
(* export_backup / import_backup / restore_backup_secured, which no window *)
(* calls.                                                                  *)
(***************************************************************************)
EXTENDS Naturals

CONSTANTS
    Restores,     \* restore threads that may run at the same time
    None,         \* the password that was in the backup
    Absent,       \* no such file
    Torn,         \* a file whose writing was cut short
    Empty,        \* a migrated database without any user
    MaxVersion,   \* bound on the states of the database
    MaxPhrases,   \* bound on the recovery phrases generated
    MaxStops,     \* bound on the stops of the process
    Faults        \* file operations that fail in one restore or export

ASSUME RestoreBounds ==
    /\ MaxVersion \in Nat \ {0} /\ MaxPhrases \in Nat /\ MaxStops \in Nat
    /\ Faults \in {0, 1}
    /\ None \notin Restores

VARIABLES
    file,        \* the database, its .old, the staging file and its .old
    hvb,         \* the backup file
    version,     \* the last version the database has had
    writing,     \* a transaction is being written into the database file
    proc,        \* "up", "down", or "broken" (start-up refused the file)
    pool,        \* the connection pool is open
    stops,       \* how often the process has stopped
    phrases,     \* recovery phrases generated so far
    exp,         \* the export dialog
    promised,    \* history: the phrase of the backup last reported as good
    page,        \* the restore page: open, busy
    th,          \* the restore threads
    exclusive    \* history: no restore began before the last one had ended

app       == <<version, writing, proc, pool, stops>>
exporting == <<hvb, phrases, exp, promised>>
restoring == <<page, th, exclusive>>
vars      == <<file, app, exporting, restoring>>

-----------------------------------------------------------------------------

Database == [ver: 0..MaxVersion, pw: Restores \cup {None}]
ASSUME FileKinds ==
    /\ Absent \notin Database \cup {Torn, Empty}
    /\ Torn \notin Database \cup {Empty}
    /\ Empty \notin Database

Path    == {"db", "old", "tmp", "tmp_old"}
Content == Database \cup {Absent, Torn, Empty}
Backup  == [key: 1..MaxPhrases, db: Database]
ASSUME BackupKinds == Absent \notin Backup /\ Torn \notin Backup

Exists(p) == file[p] # Absent

Thread == [pc: {"idle", "cleanup", "import", "password", "close", "remove_old",
                "rotate", "swap", "rollback", "ok", "failed"},
           phrase: 0..MaxPhrases, ver: 0..MaxVersion,
           present: BOOLEAN, mine: BOOLEAN, faults: 0..Faults]

\* How the user may keep a recovery phrase.
Means == {"clipboard", "paper", "file"}

Export == [pc: {"closed", "words", "read", "write", "check"},
           phrase: 0..MaxPhrases, kept: SUBSET Means, bytes: Database, faults: 0..Faults]

TypeOK ==
    /\ file \in [Path -> Content]
    /\ hvb \in Backup \cup {Absent, Torn}
    /\ version \in 1..MaxVersion
    /\ writing \in BOOLEAN
    /\ proc \in {"up", "down", "broken"}
    /\ pool \in BOOLEAN
    /\ stops \in 0..MaxStops
    /\ phrases \in 0..MaxPhrases
    /\ exp \in Export
    /\ promised \in 0..MaxPhrases
    /\ page \in [open: BOOLEAN, busy: BOOLEAN]
    /\ th \in [Restores -> Thread]
    /\ exclusive \in BOOLEAN

Original == [ver |-> 1, pw |-> None]
NoThread == [pc |-> "idle", phrase |-> 0, ver |-> 0, present |-> FALSE,
             mine |-> FALSE, faults |-> 0]
NoExport == [pc |-> "closed", phrase |-> 0, kept |-> {}, bytes |-> Original,
             faults |-> 0]
ClosedPage == [open |-> FALSE, busy |-> FALSE]

\* A running application with one database, no backup yet.
Init ==
    /\ file = [p \in Path |-> IF p = "db" THEN Original ELSE Absent]
    /\ hvb = Absent
    /\ version = 1
    /\ writing = FALSE
    /\ proc = "up" /\ pool = TRUE /\ stops = 0
    /\ phrases = 0
    /\ exp = NoExport
    /\ promised = 0
    /\ page = ClosedPage
    /\ th = [r \in Restores |-> NoThread]
    /\ exclusive = TRUE

-----------------------------------------------------------------------------
(* Work on the database, and the life of the process.                      *)

\* The first statement of a transaction that reaches the file.
Work_Begin ==
    /\ proc = "up" /\ pool /\ ~writing
    /\ file["db"] \in Database \cup {Empty}
    /\ version < MaxVersion
    /\ writing' = TRUE
    /\ UNCHANGED <<file, version, proc, pool, stops, exporting, restoring>>

Work_Commit ==
    /\ proc = "up" /\ writing
    /\ version' = version + 1
    /\ file' = [file EXCEPT !["db"] =
                  [ver |-> version + 1,
                   pw |-> IF file["db"] \in Database THEN file["db"].pw ELSE None]]
    /\ writing' = FALSE
    /\ UNCHANGED <<proc, pool, stops, exporting, restoring>>

\* What stops with the process: threads, dialogs, the open transaction.
Down ==
    /\ proc' = "down"
    /\ pool' = FALSE
    /\ writing' = FALSE
    /\ exp' = NoExport
    /\ page' = ClosedPage
    /\ th' = [r \in Restores |-> NoThread]

Crash ==
    /\ proc = "up"
    /\ stops < MaxStops
    /\ stops' = stops + 1
    /\ Down
    /\ UNCHANGED <<file, hvb, promised, version, phrases, exclusive>>

\* initialize_app_context: create_if_missing, then the migrations.
initialize_app_context ==
    /\ proc = "down"
    /\ IF file["db"] = Torn
         THEN proc' = "broken" /\ UNCHANGED <<file, pool>>
         ELSE /\ proc' = "up"
              /\ pool' = TRUE
              /\ file' = [file EXCEPT !["db"] = IF @ = Absent THEN Empty ELSE @]
    /\ UNCHANGED <<version, writing, stops, exporting, restoring>>

-----------------------------------------------------------------------------
(* The export dialog and export_hvb_with_recovery_key.                     *)

\* The destination is chosen: a phrase is generated and its words are shown.
ExportDialog_Open ==
    /\ proc = "up"
    /\ exp.pc = "closed"
    /\ phrases < MaxPhrases
    /\ phrases' = phrases + 1
    /\ exp' = [NoExport EXCEPT !.pc = "words", !.phrase = phrases + 1]
    /\ UNCHANGED <<file, hvb, promised, app, restoring>>

\* Copying, printing or saving the phrase makes the confirm button work.
enable_confirm(means) ==
    /\ exp.pc = "words"
    /\ exp' = [exp EXCEPT !.kept = @ \cup {means}]
    /\ UNCHANGED <<file, hvb, promised, phrases, app, restoring>>

CopyPhrase  == enable_confirm("clipboard")
PrintPhrase == enable_confirm("paper")    \* unless the print is cancelled or fails
SavePhrase  == enable_confirm("file")     \* unless no file is chosen or writing fails

ConfirmEnabled == exp.kept # {}

\* Either answer clears the clipboard: a phrase that was only copied is in
\* nobody's hands any more unless it has been pasted somewhere.
ExportDialog_Response(confirm) ==
    /\ exp.pc = "words"
    /\ confirm => ConfirmEnabled
    /\ exp' = IF confirm
                THEN [exp EXCEPT !.pc = "read", !.kept = @ \ {"clipboard"}]
                ELSE NoExport
    /\ UNCHANGED <<file, hvb, promised, phrases, app, restoring>>

BytesRead == IF writing THEN [file["db"] EXCEPT !.ver = 0] ELSE file["db"]

\* export_backup_secured looks the actor up and checks BackupExport; then the
\* file is read as it is, whatever is being written into it.
Export_Read ==
    /\ exp.pc = "read"
    /\ \/ exp' = NoExport
       \/ /\ pool /\ file["db"] \in Database
          /\ exp' = [exp EXCEPT !.pc = "write", !.bytes = BytesRead]
    /\ UNCHANGED <<file, hvb, promised, phrases, app, restoring>>

\* encrypt_bytes under the key derived from the phrase and a fresh salt.
encrypt_bytes(phrase, bytes) == [key |-> phrase, db |-> bytes]

\* Mutant: the file is sealed under the phrase of the export before this one.
Export_Write_StalePhrase ==
    /\ exp.pc = "write"
    /\ promised' = 0
    /\ hvb' = encrypt_bytes(exp.phrase - 1, exp.bytes)
    /\ exp' = [exp EXCEPT !.pc = "check"]
    /\ UNCHANGED <<file, phrases, app, restoring>>

\* The disk may report an error, or report none and hold something else.
Export_Write ==
    /\ exp.pc = "write"
    /\ promised' = 0
    /\ \/ /\ hvb' = encrypt_bytes(exp.phrase, exp.bytes)
          /\ exp' = [exp EXCEPT !.pc = "check"]
       \/ /\ exp.faults < Faults
          /\ hvb' = Torn
          /\ \/ exp' = NoExport
             \/ exp' = [exp EXCEPT !.pc = "check", !.faults = @ + 1]
    /\ UNCHANGED <<file, phrases, app, restoring>>

\* decrypt_bytes succeeds on a whole file and the phrase it was sealed under.
decrypt_bytes(phrase) == hvb \in Backup /\ hvb.key = phrase

\* Mutant: success is reported without reading the file back.
Export_Check_Blind ==
    /\ exp.pc = "check"
    /\ exp' = NoExport
    /\ promised' = exp.phrase
    /\ UNCHANGED <<file, hvb, phrases, app, restoring>>

\* The written file is read back, decrypted and compared before success is
\* reported to the user.
Export_Check ==
    /\ exp.pc = "check"
    /\ exp' = NoExport
    /\ promised' = IF decrypt_bytes(exp.phrase) /\ hvb.db = exp.bytes
                   THEN exp.phrase ELSE promised
    /\ UNCHANGED <<file, hvb, phrases, app, restoring>>

-----------------------------------------------------------------------------
(* The restore page of the login dialog.                                   *)

present_restore_dialog ==
    /\ proc = "up" /\ ~page.open
    /\ page' = [open |-> TRUE, busy |-> FALSE]
    /\ UNCHANGED <<file, exporting, app, th, exclusive>>

\* Cancel is never greyed out; a running thread is not told.
CloseRestorePage ==
    /\ page.open
    /\ page' = ClosedPage
    /\ th' = [r \in Restores |-> [th[r] EXCEPT !.mine = FALSE]]
    /\ UNCHANGED <<file, exporting, app, exclusive>>

\* The button is grey while a thread of this page runs or a field is missing.
update_action_state == page.open /\ ~page.busy

\* A form that passes every check starts a thread; any other changes nothing.
\* Phrase 0 is a valid one that no export has generated.  Bound: once two
\* restores have overlapped, no third one is started.
SubmitRestore(r, phrase) ==
    /\ update_action_state
    /\ th[r].pc = "idle"
    /\ hvb # Absent
    /\ exclusive
    /\ page' = [page EXCEPT !.busy = TRUE]
    /\ th' = [th EXCEPT ![r] = [NoThread EXCEPT !.pc = "cleanup", !.phrase = phrase,
                                                !.mine = TRUE]]
    /\ exclusive' = \A q \in Restores : th[q].pc = "idle"
    /\ UNCHANGED <<file, exporting, app>>

\* Err: the button works again, if the page is still the one that was open.
RestoreFailed(r) ==
    /\ th[r].pc = "failed"
    /\ th' = [th EXCEPT ![r] = NoThread]
    /\ page' = [page EXCEPT !.busy = @ /\ ~th[r].mine]
    /\ UNCHANGED <<file, exporting, app, exclusive>>

\* Ok: the message is confirmed, a new process is started, this one quits.
RestoreCompleted(r) ==
    /\ th[r].pc = "ok"
    /\ Down
    /\ UNCHANGED <<file, hvb, promised, version, stops, phrases, exclusive>>

-----------------------------------------------------------------------------
(* The restore thread: the callback main.rs gives to the login dialog.     *)

Goto(r, pc) == th' = [th EXCEPT ![r].pc = pc]

\* An error: the thread is left with its answer, the rest of it is gone.
Fails(r) == th' = [th EXCEPT ![r] = [NoThread EXCEPT !.pc = "failed", !.mine = th[r].mine,
                                                     !.faults = th[r].faults]]

\* The file operation of this step fails: it has no effect, an error comes back.
Fault(r) ==
    /\ th[r].faults < Faults
    /\ th' = [th EXCEPT ![r] = [NoThread EXCEPT !.pc = "failed", !.mine = th[r].mine,
                                                !.faults = th[r].faults + 1]]

cleanup_restore_staging_path(r) ==
    /\ th[r].pc = "cleanup"
    /\ \/ /\ file' = [file EXCEPT !["tmp"] = Absent, !["tmp_old"] = Absent]
          /\ Goto(r, "import")
       \/ /\ file' \in {file, [file EXCEPT !["tmp"] = Absent]}
          /\ Fault(r)
    /\ UNCHANGED <<exporting, app, page, exclusive>>

\* replace_existing_database on the staging path: an existing file is moved away.
MovedAside == [file EXCEPT !["tmp_old"] = IF Exists("tmp") THEN file["tmp"] ELSE @]

import_hvb_with_recovery_key(r) ==
    /\ th[r].pc = "import"
    /\ \/ /\ decrypt_bytes(th[r].phrase)
          /\ \/ /\ file' = [MovedAside EXCEPT !["tmp"] = hvb.db]
                /\ th' = [th EXCEPT ![r].pc = "password", ![r].phrase = 0,
                                    ![r].ver = hvb.db.ver]
             \/ /\ file' \in {file, [MovedAside EXCEPT !["tmp"] = Torn]}
                /\ Fault(r)
       \/ /\ ~decrypt_bytes(th[r].phrase)
          /\ Fails(r)
          /\ UNCHANGED file
    /\ UNCHANGED <<exporting, app, page, exclusive>>

\* The first administrator of the staged database gets the new password.
apply_restored_login_password(r) ==
    /\ th[r].pc = "password"
    /\ \/ /\ file["tmp"] \in Database
          /\ file' = [file EXCEPT !["tmp"].pw = r]
          /\ Goto(r, "close")
       \/ /\ UNCHANGED file
          /\ Fault(r) \/ (file["tmp"] \notin Database /\ Fails(r))
    /\ UNCHANGED <<exporting, app, page, exclusive>>

\* Mutant: the promotion starts with the pool open.
ClosePool_Skipped(r) ==
    /\ th[r].pc = "close"
    /\ Goto(r, "remove_old")
    /\ UNCHANGED <<file, app, exporting, page, exclusive>>

\* pool.close waits for the connections in use.
ClosePool(r) ==
    /\ th[r].pc = "close"
    /\ ~writing
    /\ pool' = FALSE
    /\ Goto(r, "remove_old")
    /\ UNCHANGED <<file, version, writing, proc, stops, exporting, page, exclusive>>

Promote_RemoveOld(r) ==
    /\ th[r].pc = "remove_old"
    /\ \/ file' = [file EXCEPT !["old"] = Absent] /\ Goto(r, "rotate")
       \/ Exists("old") /\ UNCHANGED file /\ Fault(r)
    /\ UNCHANGED <<exporting, app, page, exclusive>>

Promote_Rotate(r) ==
    /\ th[r].pc = "rotate"
    /\ \/ /\ file' = [file EXCEPT !["old"] = IF Exists("db") THEN file["db"] ELSE @,
                                  !["db"] = Absent]
          /\ th' = [th EXCEPT ![r].pc = "swap", ![r].present = Exists("db")]
       \/ Exists("db") /\ UNCHANGED file /\ Fault(r)
    /\ UNCHANGED <<exporting, app, page, exclusive>>

Promote_Swap(r) ==
    /\ th[r].pc = "swap"
    /\ \/ /\ Exists("tmp")
          /\ file' = [file EXCEPT !["db"] = file["tmp"], !["tmp"] = Absent]
          /\ th' = [th EXCEPT ![r].pc = "ok", ![r].present = FALSE]
       \/ /\ UNCHANGED file
          /\ \/ ~Exists("tmp") /\ th[r].present /\ Goto(r, "rollback")
             \/ ~Exists("tmp") /\ ~th[r].present /\ Fails(r)
             \/ Fault(r) /\ ~th[r].present
             \/ /\ th[r].faults < Faults /\ th[r].present
                /\ th' = [th EXCEPT ![r].faults = @ + 1, ![r].pc = "rollback"]
    /\ UNCHANGED <<exporting, app, page, exclusive>>

\* Mutant: the old database is left where it is.
Promote_Rollback_Dropped(r) ==
    /\ th[r].pc = "rollback"
    /\ Fails(r)
    /\ UNCHANGED <<file, exporting, app, page, exclusive>>

\* The old database is moved back; an error of this rename is ignored.
Promote_Rollback(r) ==
    /\ th[r].pc = "rollback"
    /\ \/ /\ file' = IF Exists("old")
                       THEN [file EXCEPT !["db"] = file["old"], !["old"] = Absent]
                       ELSE file
          /\ Fails(r)
       \/ Exists("old") /\ UNCHANGED file /\ Fault(r)
    /\ UNCHANGED <<exporting, app, page, exclusive>>

-----------------------------------------------------------------------------

RestoreStep(r) ==
    \/ cleanup_restore_staging_path(r)
    \/ import_hvb_with_recovery_key(r)
    \/ apply_restored_login_password(r)
    \/ ClosePool(r)
    \/ Promote_RemoveOld(r)
    \/ Promote_Rotate(r)
    \/ Promote_Swap(r)
    \/ Promote_Rollback(r)

ExportStep ==
    \/ ExportDialog_Open
    \/ CopyPhrase
    \/ PrintPhrase
    \/ SavePhrase
    \/ \E confirm \in BOOLEAN : ExportDialog_Response(confirm)
    \/ Export_Read
    \/ Export_Write
    \/ Export_Check

Next ==
    \/ Work_Begin
    \/ Work_Commit
    \/ Crash
    \/ initialize_app_context
    \/ ExportStep
    \/ present_restore_dialog
    \/ CloseRestorePage
    \/ \E r \in Restores :
          \/ \E phrase \in 0..MaxPhrases : SubmitRestore(r, phrase)
          \/ RestoreFailed(r)
          \/ RestoreCompleted(r)
          \/ RestoreStep(r)

Spec == Init /\ [][Next]_vars

-----------------------------------------------------------------------------
(* Properties.                                                             *)

InWindow(r) == th[r].pc \in {"swap", "rollback"} /\ th[r].present

\* The database the application opens.  Between the two renames of
\* promote_staged_restore it is the one in .old, which a roll-back brings back.
Current ==
    IF Exists("db") THEN file["db"]
    ELSE IF \E r \in Restores : InWindow(r) THEN file["old"] ELSE Absent

Answer(r) ==
    CASE th[r].pc = "idle"               -> "none"
      [] th[r].pc \in {"ok", "failed"}   -> th[r].pc
      [] OTHER                           -> "pending"

Abstract == INSTANCE AtomicReplace
              WITH Databases <- Database, current <- Current,
                   answer <- [r \in Restores |-> Answer(r)]

\* The restore callback of main.rs implements AtomicReplace: staging, the new
\* password, the two renames and the roll-back are to the user one step that
\* either replaces the database or changes nothing, whichever file operation
\* fails; the exceptions are those AtomicReplace names.
RestoreIsAtomic == Abstract!Spec

\* When a restore reports success, the database in place is the version that
\* was in the backup, with the chosen password, and no session that was open
\* has written into it: promote_staged_restore runs on a closed pool.
RestoredAsAsked ==
    \A r \in Restores :
        th[r].pc = "ok" /\ exclusive
            => file["db"] = [ver |-> th[r].ver, pw |-> r] /\ ~writing

\* After export_hvb_with_recovery_key has reported success, a restore with the
\* phrase the user kept gets past the import, unless the disk fails it: the
\* file on the disk is what was checked, and every later export that touches it
\* withdraws the promise.
PromisedBackupRestores ==
    [][\A r \in Restores :
          /\ th[r].pc = "import" /\ th'[r].pc = "failed"
          /\ promised # 0 /\ promised = th[r].phrase
          => th'[r].faults > th[r].faults]_vars
=============================================================================
