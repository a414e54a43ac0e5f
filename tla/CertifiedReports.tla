-------------------------- MODULE CertifiedReports ---------------------------
(***************************************************************************)
(* Signed audit reports: the licence and the signing key of                *)
(* services/license_service.rs, the report of                              *)
(* services/audit_report_service.rs, and what starts them: the process     *)
(* (main.rs), the report menu of the main window, which runs every report  *)
(* on a thread of its own, and the trust console (certification.rs), which *)
(* works on the UI thread.                                                 *)
(*                                                                         *)
(* The key lives in an environment variable or in a file.  Every job looks *)
(* for it, creates the file when there is none, writes it, and reads it    *)
(* again to sign; the jobs share nothing but the file system.  A step is   *)
(* one call to the file system or the database.  A call may fail and the   *)
(* process may stop between any two steps.                                 *)
(*                                                                         *)
(* A key is a model value, a row of the audit table the day it was written *)
(* on.  Signatures and hashes are what they are made of.  The date is read *)
(* four times for a report, and midnight may fall between any two: by the  *)
(* SELECT, for the text that is hashed, for the page and for the file name.*)
(***************************************************************************)
EXTENDS Naturals, Sequences

CONSTANTS
    Reporters,    \* report threads
    UI,           \* the UI thread, which also runs the start
    Periods,      \* the periods of the report menu, in days
    Seeds,        \* what getrandom may draw; bounds the draws
    OwnKey,       \* a key the operator has put in place
    BadKey,       \* key material that does not decode to 32 or 64 bytes
    Empty,        \* a file without a line of key material
    Absent,
    MaxDay,       \* bound on the days
    MaxRows,      \* bound on the rows of the audit table
    MaxStarts     \* bound on the starts of the process

ASSUME KeysAssumption ==
    /\ OwnKey \notin Seeds /\ BadKey \notin Seeds
    /\ Empty \notin Seeds \cup {OwnKey, BadKey}
    /\ Absent \notin Seeds \cup {OwnKey, BadKey, Empty}
ASSUME ThreadsAssumption == UI \notin Reporters
ASSUME ReportBoundsAssumption ==
    /\ Periods \subseteq Nat \ {0}
    /\ MaxDay \in Nat \ {0} /\ MaxRows \in Nat /\ MaxStarts \in Nat

VARIABLES
    licfile,   \* license.hvl
    envkey,    \* HEELONVAULT_AUDIT_SIGNING_KEY
    envpath,   \* is HEELONVAULT_AUDIT_SIGNING_KEY_PATH set?
    primary,   \* the key file of primary_audit_key_path
    legacy,    \* audit-signing.key beside the licence
    drawn,     \* the seeds drawn so far
    cached,    \* LicenseService.cached_license: its tier
    auto,      \* LicenseService.audit_key_auto_generated
    phase,     \* "off", "starting" or "ready"
    starts,    \* the starts so far
    console,   \* what the trust console shows, or Absent
    rows,      \* audit_log: the day of each row
    day,       \* the date
    pdf,       \* the reports in the downloads directory, by period and date
    job,       \* what each thread is doing
    promised   \* history: the key first announced or signed with

envVars  == <<licfile, envkey, envpath>>
keyVars  == <<primary, legacy, drawn>>
procVars == <<cached, phase, starts, console>>
dataVars == <<rows, day>>
vars == <<envVars, keyVars, procVars, dataVars, auto, pdf, job, promised>>

Threads  == Reporters \cup {UI}
Days     == 1..MaxDay
Material == Seeds \cup {OwnKey, BadKey}
KeyFile  == Material \cup {Empty, Absent}
Tiers    == {"community", "professional"}

LicenceFile == [json: BOOLEAN, signed: BOOLEAN, tier: Tiers, expired: BOOLEAN]
\* ReportData: the rows listed and hashed, and the date hashed with them, which
\* is 0 until it is read.  History: how many rows there were at the click.
ReportData  == [listed: SUBSET (1..MaxRows), signed: 0..MaxDay, asked: 0..MaxRows]
\* A whole PDF: the table with its hash, the date on the page, the signing key.
Report      == [data: ReportData, dated: Days, key: Seeds \cup {OwnKey}]
\* A file two writers have mixed, or a writer has left before the end.
Torn        == [torn |-> TRUE]
ASSUME ReportKinds == Absent \notin Report /\ Empty \notin Report

Idle == [at |-> "idle"]
\* Looking for the key or creating it; a report carries its data along.
KeyStep    == {"ensure", "create", "write", "reread"}
Ensuring   == [at: KeyStep, why: {"start", "click"}, seed: Seeds \cup {Absent}]
Reporting  == [at: KeyStep \cup {"sign"}, why: {"report"}, seed: Seeds \cup {Absent},
               days: Periods, data: ReportData]
Collecting == [at: {"collect", "hash"}, days: Periods, data: ReportData]
Rendering  == [at: {"open", "render"}, days: Periods, date: 0..MaxDay,
               dated: Days, data: ReportData, key: Seeds \cup {OwnKey}]
Job == {Idle} \cup Ensuring \cup Reporting \cup Collecting \cup Rendering

Console == [licence: BOOLEAN, present: BOOLEAN, auto: BOOLEAN]

\* Types: a job only ever carries key material, never an empty or absent file.
TypeOK ==
    /\ licfile \in LicenceFile \cup {Absent}
    /\ envkey \in {Absent, OwnKey, BadKey} /\ envpath \in BOOLEAN
    /\ primary \in KeyFile /\ legacy \in KeyFile /\ drawn \subseteq Seeds
    /\ cached \in Tiers \cup {Absent} /\ auto \in BOOLEAN
    /\ phase \in {"off", "starting", "ready"} /\ starts \in 0..MaxStarts
    /\ console \in Console \cup {Absent}
    /\ rows \in Seq(Days) /\ Len(rows) <= MaxRows
    /\ day \in Days
    /\ pdf \in [Periods \X Days -> Report \cup {Absent, Empty, Torn}]
    /\ job \in [Threads -> Job]
    /\ promised \in Material \cup {Absent}

Init ==
    /\ licfile \in LicenceFile \cup {Absent}
    /\ envkey \in {Absent, OwnKey, BadKey} /\ envpath \in BOOLEAN
    /\ primary \in {Absent, OwnKey, BadKey} /\ legacy \in {Absent, OwnKey}
    /\ drawn = {} /\ cached = Absent /\ auto = FALSE
    /\ phase = "off" /\ starts = 0 /\ console = Absent
    /\ rows = <<>> /\ day = 1
    /\ pdf = [f \in Periods \X Days |-> Absent]
    /\ job = [th \in Threads |-> Idle]
    /\ promised = Absent

Set(th, j) == job' = [job EXCEPT ![th] = j]

-----------------------------------------------------------------------------
(* Where the key is.                                                        *)

\* Mutant: a file without key material is taken as it is.
parse_audit_key_file_Blind(f) == f

\* The first line that is neither blank nor a comment; Absent is MissingKey.
parse_audit_key_file(f) == IF f = Empty THEN Absent ELSE f

\* Only a generated file has the origin marker.
auto_marker(f) == f \in Seeds

\* A file that is there decides, readable or not; the legacy file counts only
\* at the default place.
key_file ==
    IF primary # Absent THEN primary ELSE IF envpath THEN Absent ELSE legacy

\* find_existing_audit_key_file: "none", or an error, or the key.
find_none  == key_file = Absent
find_error == ~find_none /\ parse_audit_key_file(key_file) = Absent
find_key   == parse_audit_key_file(key_file)

\* resolve_audit_signing_key_material; Absent is an error.
resolve_audit_signing_key_material ==
    IF envkey # Absent THEN envkey ELSE find_key
\* It remembers the marker of the file it has read.
resolve_auto ==
    IF envkey = Absent /\ find_key # Absent THEN auto_marker(key_file) ELSE auto

has_certified_license == cached = "professional"

audit_certification_status ==
    LET present == resolve_audit_signing_key_material # Absent
    IN  [licence |-> has_certified_license,
         present |-> present,
         auto    |-> present /\ (resolve_auto \/ (find_key # Absent /\ auto_marker(key_file)))]

decode_key_material(k) == k # BadKey

-----------------------------------------------------------------------------
(* ensure_audit_key_exists: what follows it depends on who called.          *)

\* Ok.  The start is over, whatever the outcome; the console announces the key
\* and is opened anew; a report goes on to sign.
Provisioned(th, a, key) ==
    /\ auto' = a
    /\ CASE job[th].why = "start"  -> /\ phase' = "ready" /\ Set(th, Idle)
                                      /\ UNCHANGED <<console, promised>>
         [] job[th].why = "click"  -> /\ console' = audit_certification_status'
                                      /\ promised' = IF promised = Absent THEN key ELSE promised
                                      /\ Set(th, Idle) /\ UNCHANGED phase
         [] job[th].why = "report" -> /\ Set(th, [job[th] EXCEPT !.at = "sign"])
                                      /\ UNCHANGED <<phase, console, promised>>

\* Err: the start warns and goes on, the others tell the user.
NotProvisioned(th) ==
    /\ phase' = IF job[th].why = "start" THEN "ready" ELSE phase
    /\ Set(th, Idle)
    /\ UNCHANGED <<auto, console, promised>>

\* The environment, then the files; when there is nothing the directory is
\* made and the seed drawn.
Ensure_Look(th) ==
    /\ job[th].at = "ensure"
    /\ UNCHANGED <<envVars, primary, legacy, cached, starts, dataVars, pdf>>
    /\ \/ /\ envkey # Absent
          /\ Provisioned(th, FALSE, envkey) /\ UNCHANGED drawn
       \/ /\ envkey = Absent /\ ~find_none /\ ~find_error
          /\ Provisioned(th, auto_marker(key_file), find_key) /\ UNCHANGED drawn
       \/ /\ envkey = Absent /\ find_error
          /\ NotProvisioned(th) /\ UNCHANGED drawn
       \/ /\ envkey = Absent /\ find_none
          /\ \E s \in Seeds \ drawn :
                /\ drawn' = drawn \cup {s}
                /\ Set(th, [job[th] EXCEPT !.at = "create", !.seed = s])
          /\ UNCHANGED <<auto, phase, console, promised>>

\* create_dir_all, getrandom or an unreadable file, now or when it is read again.
Ensure_Fails(th) ==
    /\ job[th].at \in {"ensure", "reread"} /\ envkey = Absent
    /\ UNCHANGED <<envVars, keyVars, cached, starts, dataVars, pdf>>
    /\ NotProvisioned(th)

\* Mutant: the file is created or truncated.
Ensure_Create_Truncates(th) ==
    /\ job[th].at = "create"
    /\ primary' = Empty
    /\ Set(th, [job[th] EXCEPT !.at = "write"])
    /\ UNCHANGED <<envVars, legacy, drawn, procVars, dataVars, auto, pdf, promised>>

\* OpenOptions with create_new: the file is new and empty, or it was there.
Ensure_Create(th) ==
    /\ job[th].at = "create"
    /\ IF primary = Absent
         THEN primary' = Empty /\ Set(th, [job[th] EXCEPT !.at = "write"])
         ELSE UNCHANGED primary /\ Set(th, [job[th] EXCEPT !.at = "reread"])
    /\ UNCHANGED <<envVars, legacy, drawn, procVars, dataVars, auto, pdf, promised>>

Ensure_CreateFails(th) ==
    /\ job[th].at = "create"
    /\ UNCHANGED <<envVars, keyVars, cached, starts, dataVars, pdf>>
    /\ NotProvisioned(th)

\* write_all and flush.
Ensure_Write(th) ==
    /\ job[th].at = "write"
    /\ UNCHANGED <<envVars, legacy, drawn, cached, starts, dataVars, pdf>>
    /\ primary' = job[th].seed
    /\ Provisioned(th, TRUE, job[th].seed)

\* The write stops short: before the key, in the middle of it or after it.
Ensure_WriteFails(th) ==
    /\ job[th].at = "write"
    /\ UNCHANGED <<envVars, legacy, drawn, cached, starts, dataVars, pdf>>
    /\ primary' \in {Empty, BadKey, job[th].seed}
    /\ NotProvisioned(th)

\* Somebody else has created the file: its key is taken if it is written.
Ensure_Reread(th) ==
    /\ job[th].at = "reread"
    /\ UNCHANGED <<envVars, keyVars, cached, starts, dataVars, pdf>>
    /\ IF find_none \/ find_error
         THEN NotProvisioned(th)
         ELSE Provisioned(th, auto_marker(key_file), find_key)

-----------------------------------------------------------------------------
(* The process and the trust console.                                       *)

\* The signature must hold and the date must not be past.
verify_and_parse_license(f) == f.json /\ f.signed /\ ~f.expired

\* A new LicenseService; a professional licence provisions the key at once.
load_license ==
    /\ phase = "off" /\ starts < MaxStarts
    /\ starts' = starts + 1
    /\ auto' = FALSE
    /\ cached' = IF licfile # Absent /\ verify_and_parse_license(licfile)
                   THEN licfile.tier ELSE "community"
    /\ IF cached' = "professional"
         THEN /\ phase' = "starting"
              /\ Set(UI, [at |-> "ensure", why |-> "start", seed |-> Absent])
         ELSE phase' = "ready" /\ UNCHANGED job
    /\ UNCHANGED <<envVars, keyVars, console, dataVars, pdf, promised>>

\* The process ends or crashes; a PDF that was being written stays as it is.
Stop ==
    /\ phase # "off"
    /\ phase' = "off" /\ cached' = Absent /\ console' = Absent
    /\ job' = [th \in Threads |-> Idle]
    /\ UNCHANGED <<envVars, keyVars, starts, dataVars, auto, pdf, promised>>

show_certification_diagnostics_dialog ==
    /\ phase = "ready" /\ job[UI] = Idle /\ console = Absent
    /\ console' = audit_certification_status
    /\ auto' = resolve_auto
    /\ UNCHANGED <<envVars, keyVars, cached, phase, starts, dataVars, pdf, job, promised>>

Console_Ok ==
    /\ phase = "ready" /\ job[UI] = Idle /\ console # Absent
    /\ console' = Absent
    /\ UNCHANGED <<envVars, keyVars, cached, phase, starts, dataVars, auto, pdf, job, promised>>

\* The button is there when the console was opened without a key.
Console_GenerateKey ==
    /\ phase = "ready" /\ job[UI] = Idle /\ console # Absent
    /\ console.licence /\ ~console.present
    /\ Set(UI, [at |-> "ensure", why |-> "click", seed |-> Absent])
    /\ UNCHANGED <<envVars, keyVars, procVars, dataVars, auto, pdf, promised>>

-----------------------------------------------------------------------------
(* A report.                                                                *)

\* launch_signed_report: without a professional licence it ends here.
Report_Launch(th, d) ==
    /\ phase = "ready" /\ job[th] = Idle /\ console = Absent
    /\ has_certified_license
    /\ Set(th, [at |-> "collect", days |-> d,
                data |-> [listed |-> {}, signed |-> 0, asked |-> Len(rows)]])
    /\ UNCHANGED <<envVars, keyVars, procVars, dataVars, auto, pdf, promised>>

\* The rows of the last d times 24 hours: all of the last d days, and of the
\* day before them those after the present time of day.
selections(d) ==
    {s \in {k..Len(rows) : k \in 1..(Len(rows) + 1)} :
        \A i \in DOMAIN rows : /\ rows[i] + d > day => i \in s
                               /\ i \in s => rows[i] + d >= day}

\* The SELECT.
Report_Collect(th) ==
    /\ job[th].at = "collect"
    /\ \E s \in selections(job[th].days) :
          Set(th, [at |-> "hash", days |-> job[th].days,
                   data |-> [job[th].data EXCEPT !.listed = s]])
    /\ UNCHANGED <<envVars, keyVars, procVars, dataVars, auto, pdf, promised>>

\* The text to sign is put together and hashed, with the date as it is now.
Report_Hash(th) ==
    /\ job[th].at = "hash"
    /\ Set(th, [at |-> "ensure", why |-> "report", seed |-> Absent, days |-> job[th].days,
                data |-> [job[th].data EXCEPT !.signed = day]])
    /\ UNCHANGED <<envVars, keyVars, procVars, dataVars, auto, pdf, promised>>

\* The rest of sign_audit_hash: the key is read again and decoded.  The page
\* that follows reads the date again.
Report_Sign(th) ==
    /\ job[th].at = "sign"
    /\ auto' = resolve_auto
    /\ LET k == resolve_audit_signing_key_material
       IN  IF k # Absent /\ decode_key_material(k)
             THEN /\ Set(th, [at |-> "open", days |-> job[th].days, date |-> 0,
                              dated |-> day, data |-> job[th].data, key |-> k])
                  /\ promised' = IF promised = Absent THEN k ELSE promised
             ELSE Set(th, Idle) /\ UNCHANGED promised
    /\ UNCHANGED <<envVars, keyVars, procVars, dataVars, pdf>>

\* The file is named after the period and the date, and created or truncated.
Report_Open(th) ==
    /\ job[th].at = "open"
    /\ pdf' = [pdf EXCEPT ![<<job[th].days, day>>] = Empty]
    /\ Set(th, [job[th] EXCEPT !.at = "render", !.date = day])
    /\ UNCHANGED <<envVars, keyVars, procVars, dataVars, auto, promised>>

\* Mutant: the table is printed from the audit table as it is now.
page_Fresh(j) ==
    [data  |-> [j.data EXCEPT !.listed = {i \in DOMAIN rows : rows[i] + j.days >= day}],
     dated |-> j.dated, key |-> j.key]

\* The table and the foot of the page come from the same ReportData.
page(j) == [data |-> j.data, dated |-> j.dated, key |-> j.key]

\* The pages reach the file.  Over another report that was written meanwhile
\* the result is this one only if it is at least as long.
Report_Write(th) ==
    /\ job[th].at = "render"
    /\ LET f == <<job[th].days, job[th].date>>
       IN  \/ pdf' = [pdf EXCEPT ![f] = page(job[th])]
           \/ pdf[f] # Empty /\ pdf' = [pdf EXCEPT ![f] = Torn]
    /\ Set(th, Idle)
    /\ UNCHANGED <<envVars, keyVars, procVars, dataVars, auto, promised>>

\* The SELECT, the second reading of the key file, opening or writing fails; a
\* write may stop in the middle.
Report_Fails(th) ==
    /\ \/ job[th].at \in {"collect", "open", "render"}
       \/ job[th].at = "sign" /\ envkey = Absent
    /\ \/ UNCHANGED pdf
       \/ /\ job[th].at = "render"
          /\ pdf' = [pdf EXCEPT ![<<job[th].days, job[th].date>>] = Torn]
    /\ Set(th, Idle)
    /\ UNCHANGED <<envVars, keyVars, procVars, dataVars, auto, promised>>

-----------------------------------------------------------------------------
(* What goes on around them.                                                *)

AuditRow ==
    /\ phase = "ready" /\ Len(rows) < MaxRows
    /\ rows' = Append(rows, day)
    /\ UNCHANGED <<envVars, keyVars, procVars, day, auto, pdf, job, promised>>

\* Midnight; the licence may end with the day.
NextDay ==
    /\ day < MaxDay
    /\ day' = day + 1
    /\ \/ UNCHANGED licfile
       \/ licfile # Absent /\ ~licfile.expired /\ licfile' = [licfile EXCEPT !.expired = TRUE]
    /\ UNCHANGED <<envkey, envpath, keyVars, procVars, rows, auto, pdf, job, promised>>

EnsureStep(th) ==
    \/ Ensure_Look(th) \/ Ensure_Fails(th)
    \/ Ensure_Create(th) \/ Ensure_CreateFails(th)
    \/ Ensure_Write(th) \/ Ensure_WriteFails(th)
    \/ Ensure_Reread(th)

ReportStep(th) ==
    \/ \E d \in Periods : Report_Launch(th, d)
    \/ Report_Collect(th) \/ Report_Hash(th) \/ Report_Sign(th)
    \/ Report_Open(th) \/ Report_Write(th) \/ Report_Fails(th)

Next ==
    \/ load_license \/ Stop
    \/ show_certification_diagnostics_dialog \/ Console_Ok \/ Console_GenerateKey
    \/ \E th \in Threads : EnsureStep(th)
    \/ \E th \in Reporters : ReportStep(th)
    \/ AuditRow \/ NextDay

Spec == Init /\ [][Next]_vars

-----------------------------------------------------------------------------
(* Properties.                                                              *)

\* The key the console has announced, or the first report was signed with, is
\* the key every later signature is made with: no race of ensure_audit_key_exists
\* between the UI thread and the report threads, no failed write, crash or
\* restart replaces it, so one public key verifies all reports.
KeyInForce ==
    /\ promised # Absent => resolve_audit_signing_key_material = promised
    /\ \A f \in Periods \X Days : pdf[f] \in Report => pdf[f].key = promised

\* A whole PDF can be relied on, though rows are written, midnights pass and
\* other reports are made between the click and render_to_file: it lists every
\* event of its period before the signed date that was logged when the user
\* asked for it, and none later than that date; the signed date, the date
\* printed and the date in the file's name, three readings of the clock, may
\* differ but come in this order.
ReportCovers ==
    \A f \in Periods \X Days : pdf[f] \in Report =>
        LET r == pdf[f].data
        IN  /\ r.signed <= pdf[f].dated /\ pdf[f].dated <= f[2]
            /\ \A i \in r.listed : rows[i] <= r.signed
            /\ \A i \in 1..r.asked : rows[i] + f[1] > r.signed => i \in r.listed
=============================================================================
