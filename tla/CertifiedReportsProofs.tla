----------------------- MODULE CertifiedReportsProofs -----------------------
(***************************************************************************)
(* Theorems about CertifiedReports, for any number of report threads,      *)
(* keys, periods, days, rows and starts: types, one signing key for all    *)
(* reports, and what the table of a report covers on which date.           *)
(*                                                                         *)
(* What keeps the key: a thread goes to create the file only when no file  *)
(* can hold a key, creating succeeds for one thread in the life of the     *)
(* file, and until that thread has written it the file has no key, so that *)
(* nothing has been announced or signed yet.                               *)
(***************************************************************************)
EXTENDS CertifiedReports, TLAPS

\* A thread past ensure's look: the environment has no key, and neither has the
\* legacy file, or it does not count.
Creating ==
    \A th \in Threads :
        job[th].at \in {"create", "write", "reread"}
            => envkey = Absent /\ (envpath \/ legacy = Absent)

\* The seed of a thread that will write it.
SeedDrawn ==
    \A th \in Threads : job[th].at \in {"create", "write"} => job[th].seed \in Seeds

\* The file is empty as long as the thread that has created it has not written.
OneWriter ==
    /\ \A th \in Threads : job[th].at = "write" => primary = Empty
    /\ \A t, u \in Threads : job[t].at = "write" /\ job[u].at = "write" => t = u

\* The key first announced or used is the key that would be found now.
KeyFound == promised # Absent => resolve_audit_signing_key_material = promised

\* Every signature, on paper or on its way to it, was made with it.
KeyUsed ==
    /\ \A th \in Threads : job[th].at \in {"open", "render"}
          => promised # Absent /\ job[th].key = promised
    /\ \A f \in Periods \X Days : pdf[f] \in Report
          => promised # Absent /\ pdf[f].key = promised

\* The inductive invariant.
KeyInv == TypeOK /\ Creating /\ SeedDrawn /\ OneWriter /\ KeyFound /\ KeyUsed

-----------------------------------------------------------------------------
(* Jobs.                                                                   *)

\* What a job is made of, by the place it is at.
LEMMA JobFields ==
    ASSUME NEW j \in Job
    PROVE  /\ j.at \in KeyStep => j \in Ensuring \cup Reporting
           /\ j.at = "sign" => j \in Reporting
           /\ j.at \in {"collect", "hash"} => j \in Collecting
           /\ j.at \in {"open", "render"} => j \in Rendering
           /\ j.at \in KeyStep \cup {"idle", "sign", "collect", "hash", "open", "render"}
  BY DEF Job, Idle, Ensuring, Reporting, Collecting, Rendering, KeyStep

\* A job on the way to the key moves on, and takes the seed it has drawn.
Moved(j, a) == [j EXCEPT !.at = a]
Drawn(j, s) == [j EXCEPT !.at = "create", !.seed = s]

LEMMA KeyMoves ==
    ASSUME NEW j \in Job, j.at \in KeyStep, NEW a \in KeyStep
    PROVE  /\ Moved(j, a) \in Ensuring \/ Moved(j, a) \in Reporting
           /\ Moved(j, a) \in Job
           /\ Moved(j, a).at = a /\ Moved(j, a).seed = j.seed
<1>1. j \in Ensuring \/ j \in Reporting
  BY JobFields
<1>2. /\ Moved(j, a) \in Ensuring \/ Moved(j, a) \in Reporting
      /\ Moved(j, a).at = a /\ Moved(j, a).seed = j.seed
  <2>1. CASE j \in Ensuring
    BY <2>1 DEF Ensuring, Moved
  <2>2. CASE j \in Reporting
    BY <2>2 DEF Reporting, Moved
  <2> QED BY <1>1, <2>1, <2>2
<1> QED BY <1>2 DEF Job

LEMMA KeyDrawn ==
    ASSUME NEW j \in Job, j.at \in KeyStep, NEW s \in Seeds
    PROVE  Drawn(j, s) \in Job /\ Drawn(j, s).at = "create" /\ Drawn(j, s).seed = s
<1> DEFINE o == Moved(j, "create")
           p == [o EXCEPT !.seed = s]
<1>1. (o \in Ensuring \/ o \in Reporting) /\ o.at = "create"
  BY KeyMoves DEF KeyStep
<1>2. (p \in Ensuring \/ p \in Reporting) /\ p.at = "create" /\ p.seed = s
  <2> HIDE DEF o
  <2>1. CASE o \in Ensuring
    BY <1>1, <2>1 DEF Ensuring
  <2>2. CASE o \in Reporting
    BY <1>1, <2>2 DEF Reporting
  <2> QED BY <1>1, <2>1, <2>2
<1>3. p = Drawn(j, s)
  BY DEF Drawn, Moved
<1> HIDE DEF p
<1> QED BY <1>2, <1>3 DEF Job

\* A report that has its key goes on to sign.
LEMMA SignMoves ==
    ASSUME NEW j \in Job, j.at \in KeyStep, j.why = "report"
    PROVE  [j EXCEPT !.at = "sign"] \in Job /\ [j EXCEPT !.at = "sign"].at = "sign"
<1> DEFINE o == [j EXCEPT !.at = "sign"]
<1>1. j \in Reporting
  BY JobFields DEF Ensuring
<1>2. o \in Reporting /\ o.at = "sign"
  BY <1>1 DEF Reporting
<1>3. o \in Job
  <2> HIDE DEF o
  <2> QED BY <1>2 DEF Job
<1> QED BY <1>2, <1>3

\* One thread has a new job.
LEMMA SetJob ==
    ASSUME TypeOK, NEW th \in Threads, NEW j \in Job, Set(th, j)
    PROVE  /\ job' \in [Threads -> Job] /\ job'[th] = j
           /\ \A t \in Threads : t # th => job'[t] = job[t]
  BY DEF TypeOK, Set

LEMMA IdleJob == Idle \in Job /\ Idle.at = "idle"
  BY DEF Job, Idle

\* What a step of one thread owes to the invariant, once the types, the file
\* and the key have been looked after.
LEMMA JobStep ==
    ASSUME KeyInv, TypeOK', NEW th \in Threads, NEW j \in Job, Set(th, j),
           UNCHANGED <<envkey, envpath, legacy>>,
           j.at \in {"create", "write", "reread"}
              => envkey = Absent /\ (envpath \/ legacy = Absent),
           j.at \in {"create", "write"} => j.seed \in Seeds,
           OneWriter', KeyFound',
           promised' = promised \/ promised = Absent,
           j.at \in {"open", "render"} => promised' # Absent /\ j.key = promised',
           \A f \in Periods \X Days : pdf'[f] \in Report
              => pdf'[f] = pdf[f] \/ (promised' # Absent /\ pdf'[f].key = promised')
    PROVE  KeyInv'
<1>1. TypeOK /\ job'[th] = j /\ \A t \in Threads : t # th => job'[t] = job[t]
  BY SetJob DEF KeyInv
<1>2. Creating' /\ SeedDrawn'
  BY <1>1 DEF KeyInv, Creating, SeedDrawn
<1>3. KeyUsed'
  <2>1. ASSUME NEW t \in Threads, job'[t].at \in {"open", "render"}
        PROVE  promised' # Absent /\ job'[t].key = promised'
    BY <1>1, <2>1 DEF KeyInv, KeyUsed
  <2>2. ASSUME NEW f \in Periods \X Days, pdf'[f] \in Report
        PROVE  promised' # Absent /\ pdf'[f].key = promised'
    BY <2>2 DEF KeyInv, KeyUsed
  <2> QED BY <2>1, <2>2 DEF KeyUsed
<1> QED BY <1>2, <1>3 DEF KeyInv

\* Only the thread that has created the file writes it.
LEMMA WriterStep ==
    ASSUME KeyInv, NEW th \in Threads, NEW j \in Job, Set(th, j), j.at # "write",
           primary' = primary \/ job[th].at = "write"
    PROVE  OneWriter'
<1>1. TypeOK /\ job'[th] = j /\ \A t \in Threads : t # th => job'[t] = job[t]
  BY SetJob DEF KeyInv
<1> QED BY <1>1 DEF KeyInv, OneWriter

\* The same places hold the same key.
LEMMA SameKey ==
    ASSUME UNCHANGED <<envkey, envpath, primary, legacy>>
    PROVE  /\ key_file' = key_file /\ find_key' = find_key
           /\ resolve_audit_signing_key_material' = resolve_audit_signing_key_material
<1>1. key_file' = key_file
  BY DEF key_file
<1>2. find_key' = find_key
  BY <1>1 DEF find_key
<1> QED BY <1>1, <1>2 DEF resolve_audit_signing_key_material

\* While a thread is creating the file or writing it, nothing has been
\* announced unless the file has the key.
LEMMA KeyInFile ==
    ASSUME KeyInv, NEW th \in Threads, job[th].at \in {"create", "write"},
           promised # Absent
    PROVE  job[th].at = "create" /\ primary = promised /\ primary # Empty
<1>1. envkey = Absent /\ (envpath \/ legacy = Absent)
  BY DEF KeyInv, Creating
<1>2. find_key = promised
  BY <1>1 DEF KeyInv, KeyFound, resolve_audit_signing_key_material
<1>3. primary # Absent
  BY <1>1, <1>2 DEF find_key, key_file, parse_audit_key_file
<1>4. primary # Empty /\ primary = promised
  BY <1>2, <1>3 DEF find_key, key_file, parse_audit_key_file
<1> QED BY <1>4 DEF KeyInv, OneWriter

\* ensure_audit_key_exists has found or written the key.
LEMMA ProvisionedStep ==
    ASSUME KeyInv, NEW th \in Threads, job[th].at \in KeyStep,
           NEW a \in BOOLEAN, NEW key \in Material, Provisioned(th, a, key),
           UNCHANGED <<envVars, legacy, cached, starts, dataVars, pdf, drawn>>,
           primary' \in KeyFile, primary' = primary \/ job[th].at = "write",
           resolve_audit_signing_key_material' = key,
           promised # Absent => promised = key
    PROVE  KeyInv'
<1>1. TypeOK /\ job[th] \in Job
  BY DEF KeyInv, TypeOK
<1>0. job[th].why \in {"start", "click", "report"}
  BY <1>1, JobFields DEF Ensuring, Reporting
<1>2. PICK j \in Job : Set(th, j) /\ j.at \in {"idle", "sign"}
  <2>1. CASE job[th].why = "report"
    BY <1>1, <2>1, SignMoves DEF Provisioned
  <2>2. CASE job[th].why # "report"
    BY <1>0, <2>2, IdleJob DEF Provisioned
  <2> QED BY <2>1, <2>2
<1>3. job' \in [Threads -> Job]
  BY <1>1, <1>2, SetJob
<1>4. promised' \in Material \cup {Absent} /\ (promised' = promised \/ promised = Absent)
      /\ (promised' # Absent => promised' = key)
  BY <1>0, <1>1 DEF Provisioned, TypeOK
<1>5. auto' \in BOOLEAN /\ phase' \in {"off", "starting", "ready"}
  BY <1>0, <1>1 DEF Provisioned, TypeOK
<1>6. console' \in Console \cup {Absent}
  <2>1. CASE console' = console
    BY <1>1, <2>1 DEF TypeOK
  <2>2. CASE console' = audit_certification_status'
    BY <2>2 DEF audit_certification_status, Console, has_certified_license,
                resolve_auto, auto_marker
  <2> QED BY <1>0, <2>1, <2>2 DEF Provisioned
<1>7. TypeOK'
  BY <1>1, <1>3, <1>4, <1>5, <1>6 DEF TypeOK, envVars, dataVars
<1>8. KeyFound'
  BY <1>4 DEF KeyFound
<1> QED BY <1>2, <1>4, <1>7, <1>8, WriterStep, JobStep DEF envVars

\* It has failed.
LEMMA NotProvisionedStep ==
    ASSUME KeyInv, NEW th \in Threads, NotProvisioned(th),
           UNCHANGED <<envVars, legacy, cached, starts, dataVars, pdf, drawn>>,
           primary' \in KeyFile, primary' = primary \/ job[th].at = "write",
           KeyFound'
    PROVE  KeyInv'
<1>1. TypeOK /\ Set(th, Idle)
  BY DEF KeyInv, NotProvisioned
<1>2. job' \in [Threads -> Job]
  BY <1>1, IdleJob, SetJob
<1>3. phase' \in {"off", "starting", "ready"} /\ auto' = auto /\ console' = console
      /\ promised' = promised
  BY <1>1 DEF NotProvisioned, TypeOK
<1>4. TypeOK'
  BY <1>1, <1>2, <1>3 DEF TypeOK, envVars, dataVars
<1> QED BY <1>1, <1>3, <1>4, IdleJob, WriterStep, JobStep DEF envVars

-----------------------------------------------------------------------------
(* The key, one lemma per action.                                          *)

LEMMA LookKeeps ==
    ASSUME KeyInv, NEW th \in Threads, Ensure_Look(th)
    PROVE  KeyInv'
<1>1. TypeOK /\ job[th] \in Job /\ job[th].at = "ensure" /\ job[th].at \in KeyStep
  BY DEF KeyInv, TypeOK, Ensure_Look, KeyStep
<1>2. UNCHANGED <<envVars, primary, legacy, cached, starts, dataVars, pdf>>
  BY DEF Ensure_Look
<1>3. /\ resolve_audit_signing_key_material' = resolve_audit_signing_key_material
      /\ primary' \in KeyFile
  BY <1>1, <1>2, SameKey DEF envVars, TypeOK
<1>4. CASE envkey # Absent /\ Provisioned(th, FALSE, envkey) /\ UNCHANGED drawn
  <2>1. envkey \in Material /\ resolve_audit_signing_key_material = envkey
    BY <1>1, <1>4 DEF TypeOK, Material, resolve_audit_signing_key_material
  <2> QED BY <1>1, <1>2, <1>3, <1>4, <2>1, ProvisionedStep DEF KeyInv, KeyFound
<1>5. CASE /\ envkey = Absent /\ ~find_none /\ ~find_error
           /\ Provisioned(th, auto_marker(key_file), find_key) /\ UNCHANGED drawn
  <2>1. find_key \in Material /\ resolve_audit_signing_key_material = find_key
    BY <1>1, <1>5 DEF TypeOK, Material, resolve_audit_signing_key_material,
        find_none, find_error, find_key, key_file, parse_audit_key_file, KeyFile
  <2>2. auto_marker(key_file) \in BOOLEAN
    BY DEF auto_marker
  <2> HIDE DEF auto_marker
  <2> QED BY <1>1, <1>2, <1>3, <1>5, <2>1, <2>2, ProvisionedStep DEF KeyInv, KeyFound
<1>6. CASE envkey = Absent /\ find_error /\ NotProvisioned(th) /\ UNCHANGED drawn
  <2>1. KeyFound'
    BY <1>3, <1>6 DEF KeyInv, KeyFound, NotProvisioned
  <2> QED BY <1>2, <1>3, <1>6, <2>1, NotProvisionedStep
<1>7. ASSUME envkey = Absent, find_none, NEW s \in Seeds, drawn' = drawn \cup {s},
             Set(th, [job[th] EXCEPT !.at = "create", !.seed = s]),
             UNCHANGED <<auto, phase, console, promised>>
      PROVE  KeyInv'
  <2> DEFINE j == Drawn(job[th], s)
  <2>1. j \in Job /\ j.at = "create" /\ j.seed = s
    BY <1>1, KeyDrawn
  <2>2. Set(th, j)
    BY <1>7 DEF Drawn
  <2> HIDE DEF j
  <2>3. job' \in [Threads -> Job]
    BY <1>1, <2>1, <2>2, SetJob
  <2>4. TypeOK'
    BY <1>1, <1>2, <1>7, <2>3 DEF TypeOK, envVars, dataVars
  <2>5. KeyFound'
    BY <1>3, <1>7 DEF KeyInv, KeyFound
  <2>6. envpath \/ legacy = Absent
    BY <1>7 DEF find_none, key_file
  <2> QED BY <1>2, <1>7, <2>1, <2>2, <2>4, <2>5, <2>6, WriterStep, JobStep DEF envVars
<1> QED BY <1>4, <1>5, <1>6, <1>7 DEF Ensure_Look

LEMMA FailsKeeps ==
    ASSUME KeyInv, NEW th \in Threads, Ensure_Fails(th) \/ Ensure_CreateFails(th)
    PROVE  KeyInv'
<1>1. /\ UNCHANGED <<envVars, keyVars, cached, starts, dataVars, pdf>>
      /\ NotProvisioned(th)
  BY DEF Ensure_Fails, Ensure_CreateFails
<1>2. KeyFound'
  BY <1>1, SameKey DEF KeyInv, KeyFound, NotProvisioned, envVars, keyVars
<1> QED BY <1>1, <1>2, NotProvisionedStep DEF KeyInv, TypeOK, envVars, keyVars

LEMMA CreateKeeps ==
    ASSUME KeyInv, NEW th \in Threads, Ensure_Create(th)
    PROVE  KeyInv'
<1>1. TypeOK /\ job[th] \in Job /\ job[th].at = "create" /\ job[th].at \in KeyStep
  BY DEF KeyInv, TypeOK, Ensure_Create, KeyStep
<1>2. /\ UNCHANGED <<envVars, legacy, drawn, procVars, dataVars, auto, pdf, promised>>
      /\ envkey = Absent /\ (envpath \/ legacy = Absent) /\ job[th].seed \in Seeds
  BY <1>1 DEF Ensure_Create, KeyInv, Creating, SeedDrawn
<1>3. CASE primary = Absent
  <2> DEFINE j == Moved(job[th], "write")
  <2>1. j \in Job /\ j.at = "write" /\ j.seed = job[th].seed
    BY <1>1, KeyMoves DEF KeyStep
  <2>2. Set(th, j) /\ primary' = Empty
    BY <1>3 DEF Ensure_Create, Moved
  <2> HIDE DEF j
  <2>3. /\ job' \in [Threads -> Job] /\ job'[th] = j
        /\ \A t \in Threads : t # th => job'[t] = job[t]
    BY <1>1, <2>1, <2>2, SetJob
  <2>4. TypeOK'
    BY <1>1, <1>2, <2>2, <2>3 DEF TypeOK, envVars, procVars, dataVars, KeyFile
  <2>5. promised' = Absent
    BY <1>1, <1>2, <1>3, KeyInFile
  <2>6. KeyFound'
    BY <2>5 DEF KeyFound
  <2>7. OneWriter'
    <3>1. \A t \in Threads : job[t].at # "write"
      BY <1>3, KeysAssumption DEF KeyInv, OneWriter
    <3> QED BY <2>2, <2>3, <3>1 DEF OneWriter
  <2> QED BY <1>2, <2>1, <2>2, <2>4, <2>6, <2>7, JobStep DEF envVars
<1>4. CASE primary # Absent
  <2> DEFINE j == Moved(job[th], "reread")
  <2>1. j \in Job /\ j.at = "reread"
    BY <1>1, KeyMoves DEF KeyStep
  <2>2. Set(th, j) /\ primary' = primary
    BY <1>4 DEF Ensure_Create, Moved
  <2> HIDE DEF j
  <2>3. job' \in [Threads -> Job]
    BY <1>1, <2>1, <2>2, SetJob
  <2>4. TypeOK'
    BY <1>1, <1>2, <2>2, <2>3 DEF TypeOK, envVars, procVars, dataVars
  <2>5. KeyFound'
    BY <1>2, <2>2, SameKey DEF KeyInv, KeyFound, envVars
  <2> QED BY <1>2, <2>1, <2>2, <2>4, <2>5, WriterStep, JobStep DEF envVars
<1> QED BY <1>3, <1>4

LEMMA WriteKeeps ==
    ASSUME KeyInv, NEW th \in Threads, Ensure_Write(th)
    PROVE  KeyInv'
<1>1. TypeOK /\ job[th].at = "write" /\ job[th].at \in KeyStep
  BY DEF KeyInv, TypeOK, Ensure_Write, KeyStep
<1>2. /\ UNCHANGED <<envVars, legacy, drawn, cached, starts, dataVars, pdf>>
      /\ primary' = job[th].seed /\ Provisioned(th, TRUE, job[th].seed)
  BY DEF Ensure_Write
<1>3. envkey = Absent /\ job[th].seed \in Seeds /\ promised = Absent
  BY <1>1, KeyInFile DEF KeyInv, Creating, SeedDrawn
<1>4. resolve_audit_signing_key_material' = job[th].seed
  BY <1>2, <1>3, KeysAssumption DEF resolve_audit_signing_key_material, find_key,
      key_file, parse_audit_key_file, envVars
<1>5. job[th].seed \in Material /\ primary' \in KeyFile
  BY <1>2, <1>3 DEF Material, KeyFile
<1> QED BY <1>1, <1>2, <1>3, <1>4, <1>5, ProvisionedStep

LEMMA WriteFailsKeeps ==
    ASSUME KeyInv, NEW th \in Threads, Ensure_WriteFails(th)
    PROVE  KeyInv'
<1>1. /\ job[th].at = "write" /\ primary' \in {Empty, BadKey, job[th].seed}
      /\ UNCHANGED <<envVars, legacy, drawn, cached, starts, dataVars, pdf>>
      /\ NotProvisioned(th)
  BY DEF Ensure_WriteFails
<1>2. promised = Absent /\ primary' \in KeyFile
  BY <1>1, KeyInFile DEF KeyInv, SeedDrawn, KeyFile, Material
<1>3. KeyFound'
  BY <1>1, <1>2 DEF KeyFound, NotProvisioned
<1> QED BY <1>1, <1>2, <1>3, NotProvisionedStep

LEMMA RereadKeeps ==
    ASSUME KeyInv, NEW th \in Threads, Ensure_Reread(th)
    PROVE  KeyInv'
<1>1. TypeOK /\ job[th].at = "reread" /\ job[th].at \in KeyStep
  BY DEF KeyInv, TypeOK, Ensure_Reread, KeyStep
<1>2. /\ UNCHANGED <<envVars, keyVars, cached, starts, dataVars, pdf>>
      /\ primary' \in KeyFile /\ envkey = Absent
  BY <1>1 DEF Ensure_Reread, KeyInv, Creating, TypeOK, keyVars
<1>3. resolve_audit_signing_key_material' = resolve_audit_signing_key_material
  BY <1>2, SameKey DEF envVars, keyVars
<1>4. CASE find_none \/ find_error
  <2>1. NotProvisioned(th)
    BY <1>4 DEF Ensure_Reread
  <2>2. KeyFound'
    BY <1>3, <2>1 DEF KeyInv, KeyFound, NotProvisioned
  <2> QED BY <1>2, <2>1, <2>2, NotProvisionedStep DEF keyVars
<1>5. CASE ~find_none /\ ~find_error
  <2>1. find_key \in Material /\ resolve_audit_signing_key_material = find_key
    BY <1>1, <1>2, <1>5 DEF TypeOK, Material, resolve_audit_signing_key_material,
        find_none, find_error, find_key, key_file, parse_audit_key_file, KeyFile
  <2> DEFINE a == auto_marker(key_file)
  <2>2. a \in BOOLEAN /\ Provisioned(th, a, find_key)
    BY <1>5 DEF auto_marker, Ensure_Reread
  <2> HIDE DEF a
  <2> QED BY <1>1, <1>2, <1>3, <2>1, <2>2, ProvisionedStep DEF KeyInv, KeyFound, keyVars
<1> QED BY <1>4, <1>5

-----------------------------------------------------------------------------
(* The process, the console and the reports.                               *)

\* A step that no thread takes and that changes no key.
LEMMA SameJobs ==
    ASSUME KeyInv, TypeOK',
           UNCHANGED <<job, envkey, envpath, primary, legacy, pdf, promised>>
    PROVE  KeyInv'
<1>1. KeyFound'
  BY SameKey DEF KeyInv, KeyFound
<1> QED BY <1>1 DEF KeyInv, Creating, SeedDrawn, OneWriter, KeyUsed

LEMMA StatusType ==
    ASSUME TypeOK PROVE audit_certification_status \in Console /\ resolve_auto \in BOOLEAN
<1>1. resolve_auto \in BOOLEAN
  <2>1. auto_marker(key_file) \in BOOLEAN /\ auto \in BOOLEAN
    BY DEF auto_marker, TypeOK
  <2> QED BY <2>1, Zenon DEF resolve_auto
<1>2. audit_certification_status \in Console
  BY DEF audit_certification_status, Console, has_certified_license, resolve_auto,
      auto_marker
<1> QED BY <1>1, <1>2

LEMMA LicenseKeeps ==
    ASSUME KeyInv, load_license
    PROVE  KeyInv'
<1>1. /\ TypeOK /\ starts' \in 0..MaxStarts /\ auto' = FALSE
      /\ UNCHANGED <<envVars, keyVars, console, dataVars, pdf, promised>>
  BY ReportBoundsAssumption DEF KeyInv, TypeOK, load_license
<1>2. cached' \in Tiers
  BY <1>1 DEF load_license, TypeOK, LicenceFile, Tiers
<1>3. CASE cached' = "professional"
  <2> DEFINE j == [at |-> "ensure", why |-> "start", seed |-> Absent]
  <2>1. j \in Job /\ j.at = "ensure"
    BY DEF Job, Ensuring, KeyStep
  <2>2. Set(UI, j) /\ phase' = "starting" /\ UI \in Threads
    BY <1>3 DEF load_license, Threads
  <2> HIDE DEF j
  <2>3. job' \in [Threads -> Job]
    BY <1>1, <2>1, <2>2, SetJob
  <2>4. TypeOK'
    BY <1>1, <1>2, <2>2, <2>3 DEF TypeOK, envVars, keyVars, dataVars
  <2>5. KeyFound' /\ OneWriter'
    BY <1>1, <2>1, <2>2, SameKey, WriterStep DEF KeyInv, KeyFound, envVars, keyVars
  <2> QED BY <1>1, <2>1, <2>2, <2>4, <2>5, JobStep DEF envVars, keyVars
<1>4. CASE cached' # "professional"
  <2>1. job' = job /\ phase' = "ready"
    BY <1>4 DEF load_license
  <2>2. TypeOK'
    BY <1>1, <1>2, <2>1 DEF TypeOK, envVars, keyVars, dataVars
  <2> QED BY <1>1, <2>1, <2>2, SameJobs DEF envVars, keyVars
<1> QED BY <1>3, <1>4

LEMMA StopKeeps ==
    ASSUME KeyInv, Stop
    PROVE  KeyInv'
<1>1. /\ TypeOK /\ job' = [th \in Threads |-> Idle]
      /\ phase' = "off" /\ cached' = Absent /\ console' = Absent
      /\ UNCHANGED <<envVars, keyVars, starts, dataVars, auto, pdf, promised>>
  BY DEF KeyInv, Stop
<1>2. job' \in [Threads -> Job] /\ \A th \in Threads : job'[th].at = "idle"
  BY <1>1, IdleJob
<1>3. TypeOK'
  BY <1>1, <1>2 DEF TypeOK, envVars, keyVars, dataVars
<1>4. KeyFound'
  BY <1>1, SameKey DEF KeyInv, KeyFound, envVars, keyVars
<1>5. KeyUsed'
  BY <1>1, <1>2 DEF KeyInv, KeyUsed
<1> QED BY <1>2, <1>3, <1>4, <1>5 DEF KeyInv, Creating, SeedDrawn, OneWriter

LEMMA ConsoleKeeps ==
    ASSUME KeyInv, show_certification_diagnostics_dialog \/ Console_Ok
    PROVE  KeyInv'
<1>1. /\ UNCHANGED <<envVars, keyVars, cached, phase, starts, dataVars, pdf, job, promised>>
      /\ console' \in Console \cup {Absent} /\ auto' \in BOOLEAN /\ TypeOK
  BY StatusType DEF KeyInv, TypeOK, show_certification_diagnostics_dialog, Console_Ok
<1>2. TypeOK'
  BY <1>1 DEF TypeOK, envVars, keyVars, dataVars
<1> QED BY <1>1, <1>2, SameJobs DEF envVars, keyVars

\* A thread begins something, without a key in hand.
LEMMA BeginKeeps ==
    ASSUME KeyInv, NEW th \in Threads, NEW j \in Job, Set(th, j),
           j.at \in {"idle", "ensure", "collect", "hash"},
           UNCHANGED <<envVars, keyVars, procVars, dataVars, auto, pdf, promised>>
    PROVE  KeyInv'
<1>1. TypeOK'
  BY SetJob DEF KeyInv, TypeOK, envVars, keyVars, procVars, dataVars
<1>2. KeyFound' /\ OneWriter'
  BY SameKey, WriterStep DEF KeyInv, KeyFound, envVars, keyVars
<1> QED BY <1>1, <1>2, JobStep DEF envVars, keyVars

LEMMA GenerateKeeps ==
    ASSUME KeyInv, Console_GenerateKey
    PROVE  KeyInv'
<1> DEFINE j == [at |-> "ensure", why |-> "click", seed |-> Absent]
<1>1. j \in Job /\ j.at = "ensure"
  BY DEF Job, Ensuring, KeyStep
<1>2. Set(UI, j) /\ UI \in Threads
  BY DEF Console_GenerateKey, Threads
<1> HIDE DEF j
<1> QED BY <1>1, <1>2, BeginKeeps DEF Console_GenerateKey

\* The data of a report at the click, and with what is added to it.
Asked == [listed |-> {}, signed |-> 0, asked |-> Len(rows)]
Listed(dt, s) == [dt EXCEPT !.listed = s]
Dated(dt, d) == [dt EXCEPT !.signed = d]

LEMMA DataTypes ==
    /\ TypeOK => Asked \in ReportData
    /\ \A dt \in ReportData, s \in SUBSET (1..MaxRows) : Listed(dt, s) \in ReportData
    /\ \A dt \in ReportData, d \in Days : Dated(dt, d) \in ReportData
<1>1. Days \subseteq 0..MaxDay /\ 0 \in 0..MaxDay
  BY ReportBoundsAssumption DEF Days
<1>2. TypeOK => Len(rows) \in 0..MaxRows
  BY ReportBoundsAssumption DEF TypeOK
<1> QED BY <1>1, <1>2 DEF ReportData, Asked, Listed, Dated

LEMMA LaunchKeeps ==
    ASSUME KeyInv, NEW th \in Threads, NEW d \in Periods, Report_Launch(th, d)
    PROVE  KeyInv'
<1> DEFINE data == Asked
           j == [at |-> "collect", days |-> d, data |-> data]
<1>1. j \in Job /\ j.at = "collect"
  <2>1. data \in ReportData
    BY DataTypes DEF KeyInv
  <2> HIDE DEF data
  <2> QED BY <2>1 DEF Job, Collecting
<1>2. Set(th, j)
  BY DEF Report_Launch, Asked
<1> HIDE DEF j
<1> QED BY <1>1, <1>2, BeginKeeps DEF Report_Launch

\* What the SELECT returns is a set of rows.
LEMMA SelectionType ==
    ASSUME TypeOK, NEW d \in Periods, NEW s \in selections(d)
    PROVE  s \subseteq DOMAIN rows /\ s \in SUBSET (1..MaxRows)
<1>1. PICK k \in 1..(Len(rows) + 1) : s = k..Len(rows)
  BY DEF selections
<1>2. Len(rows) \in Nat /\ DOMAIN rows = 1..Len(rows) /\ Len(rows) <= MaxRows /\ MaxRows \in Nat
  BY ReportBoundsAssumption DEF TypeOK
<1> QED BY <1>1, <1>2

\* A report that has its rows.
Selected(j, s) == [at |-> "hash", days |-> j.days, data |-> Listed(j.data, s)]

LEMMA SelectedJob ==
    ASSUME NEW j \in Collecting, NEW s \in SUBSET (1..MaxRows)
    PROVE  Selected(j, s) \in Collecting
<1>1. Listed(j.data, s) \in ReportData
  BY DataTypes DEF Collecting
<1> QED BY <1>1 DEF Collecting, Selected

LEMMA CollectKeeps ==
    ASSUME KeyInv, NEW th \in Threads, Report_Collect(th)
    PROVE  KeyInv'
<1>1. TypeOK /\ job[th] \in Job /\ job[th].at = "collect"
  BY DEF KeyInv, TypeOK, Report_Collect
<1>2. job[th] \in Collecting /\ job[th].days \in Periods
  BY <1>1, JobFields DEF Collecting
<1>3. PICK s \in selections(job[th].days) :
         Set(th, Selected(job[th], s))
  BY DEF Report_Collect, Selected, Listed
<1>4. s \in SUBSET (1..MaxRows)
  BY <1>1, <1>2, SelectionType
<1> DEFINE j == Selected(job[th], s)
<1>5. j \in Job /\ j.at = "hash"
  BY <1>2, <1>4, SelectedJob DEF Job, Selected
<1>6. Set(th, j)
  BY <1>3
<1> HIDE DEF j
<1> QED BY <1>5, <1>6, BeginKeeps DEF Report_Collect

LEMMA HashKeeps ==
    ASSUME KeyInv, NEW th \in Threads, Report_Hash(th)
    PROVE  KeyInv'
<1>1. TypeOK /\ job[th] \in Job /\ job[th].at = "hash" /\ day \in Days
  BY DEF KeyInv, TypeOK, Report_Hash
<1>2. job[th] \in Collecting
  BY <1>1, JobFields
<1> DEFINE data == Dated(job[th].data, day)
           j == [at |-> "ensure", why |-> "report", seed |-> Absent,
                 days |-> job[th].days, data |-> data]
<1>3. data \in ReportData
  BY <1>1, <1>2, DataTypes DEF Collecting
<1>4. j \in Job /\ j.at = "ensure"
  <2> HIDE DEF data
  <2> QED BY <1>2, <1>3 DEF Job, Reporting, Collecting, KeyStep
<1>5. Set(th, j)
  BY DEF Report_Hash, Dated
<1> HIDE DEF j
<1> QED BY <1>4, <1>5, BeginKeeps DEF Report_Hash

LEMMA SignKeeps ==
    ASSUME KeyInv, NEW th \in Threads, Report_Sign(th)
    PROVE  KeyInv'
<1> DEFINE k == resolve_audit_signing_key_material
<1>1. /\ TypeOK /\ job[th] \in Job /\ job[th].at = "sign"
      /\ UNCHANGED <<envVars, keyVars, procVars, dataVars, pdf>>
      /\ auto' \in BOOLEAN
  BY StatusType DEF KeyInv, TypeOK, Report_Sign
<1>2. job[th] \in Reporting
  BY <1>1, JobFields
<1>3. k' = k
  BY <1>1, SameKey DEF envVars, keyVars
<1>4. CASE k # Absent /\ decode_key_material(k)
  <2> DEFINE j == [at |-> "open", days |-> job[th].days, date |-> 0,
                   dated |-> day, data |-> job[th].data, key |-> k]
  <2>1. k \in Seeds \cup {OwnKey}
    BY <1>1, <1>4 DEF TypeOK, KeyFile, Material, resolve_audit_signing_key_material,
        find_key, key_file, parse_audit_key_file, decode_key_material
  <2>2. Set(th, j) /\ promised' = IF promised = Absent THEN k ELSE promised
    BY <1>4 DEF Report_Sign
  <2>3. promised' = k /\ (promised' = promised \/ promised = Absent)
    BY <2>2 DEF KeyInv, KeyFound
  <2> HIDE DEF k
  <2>4. j \in Job /\ j.at = "open" /\ j.key = k
    BY <1>1, <1>2, <2>1, ReportBoundsAssumption DEF Job, Rendering, Reporting, TypeOK
  <2> HIDE DEF j
  <2>5. job' \in [Threads -> Job] /\ promised' \in Material
    BY <1>1, <2>1, <2>2, <2>3, <2>4, SetJob DEF Material
  <2>6. TypeOK'
    BY <1>1, <2>5 DEF TypeOK, envVars, keyVars, procVars, dataVars
  <2>7. KeyFound'
    BY <1>3, <2>3 DEF KeyFound, k
  <2>8. OneWriter'
    BY <1>1, <2>2, <2>4, WriterStep DEF keyVars
  <2> QED BY <1>1, <1>4, <2>2, <2>3, <2>4, <2>6, <2>7, <2>8, JobStep
          DEF envVars, keyVars
<1>5. CASE ~(k # Absent /\ decode_key_material(k))
  <2>1. Set(th, Idle) /\ promised' = promised
    BY <1>5 DEF Report_Sign
  <2>2. job' \in [Threads -> Job]
    BY <1>1, <2>1, IdleJob, SetJob
  <2>3. TypeOK'
    BY <1>1, <2>1, <2>2 DEF TypeOK, envVars, keyVars, procVars, dataVars
  <2>4. KeyFound' /\ OneWriter'
    BY <1>1, <1>3, <2>1, IdleJob, WriterStep DEF KeyInv, KeyFound, keyVars
  <2> QED BY <1>1, <2>1, <2>3, <2>4, IdleJob, JobStep DEF envVars, keyVars
<1> QED BY <1>4, <1>5

\* A PDF is not a file without content, nor one that two writers have mixed.
LEMMA WholePdf == Empty \notin Report /\ Torn \notin Report
<1>1. ASSUME Torn \in Report PROVE FALSE
  <2>1. DOMAIN Torn = {"torn"}
    BY DEF Torn
  <2>2. DOMAIN Torn = {"data", "dated", "key"}
    BY <1>1 DEF Report
  <2> QED BY <2>1, <2>2
<1> QED BY <1>1, ReportKinds

LEMMA PageIsReport ==
    ASSUME NEW j \in Rendering
    PROVE  page(j) \in Report /\ page(j).key = j.key
  BY DEF page, Report, Rendering

\* A rendering that has opened its file knows the day it is named after.
Opened(j, d) == [j EXCEPT !.at = "render", !.date = d]

LEMMA OpenedJob ==
    ASSUME NEW j \in Rendering, NEW d \in Days
    PROVE  Opened(j, d) \in Rendering /\ Opened(j, d).at = "render"
           /\ Opened(j, d).key = j.key /\ Opened(j, d).days = j.days
           /\ Opened(j, d).date = d
<1> DEFINE o == [j EXCEPT !.at = "render"]
           p == [o EXCEPT !.date = d]
<1>1. o \in Rendering /\ o.at = "render" /\ o.key = j.key /\ o.days = j.days
  BY DEF Rendering
<1>2. p \in Rendering /\ p.at = "render" /\ p.key = j.key /\ p.days = j.days /\ p.date = d
  <2>1. d \in 0..MaxDay
    BY ReportBoundsAssumption DEF Days
  <2> HIDE DEF o
  <2> QED BY <1>1, <2>1 DEF Rendering
<1>3. p = Opened(j, d)
  BY DEF Opened
<1> QED BY <1>2, <1>3

\* What a step does to the PDFs: nothing, or it empties one, mixes one or puts
\* there the page of a job that was rendering.
PdfStep(v, f) == pdf' = [pdf EXCEPT ![f] = v]
PdfFiles == [Periods \X Days -> Report \cup {Absent, Empty, Torn}]

LEMMA PdfOne ==
    ASSUME TypeOK, NEW f, NEW v \in Report \cup {Absent, Empty, Torn}, PdfStep(v, f)
    PROVE  /\ pdf' \in PdfFiles
           /\ \A g \in Periods \X Days : pdf'[g] = pdf[g] \/ pdf'[g] = v
  BY DEF TypeOK, PdfStep, PdfFiles

LEMMA OpenKeeps ==
    ASSUME KeyInv, NEW th \in Threads, Report_Open(th)
    PROVE  KeyInv'
<1>1. /\ TypeOK /\ job[th] \in Job /\ job[th].at = "open" /\ day \in Days
      /\ UNCHANGED <<envVars, keyVars, procVars, dataVars, auto, promised>>
      /\ PdfStep(Empty, <<job[th].days, day>>)
  BY DEF KeyInv, TypeOK, Report_Open, PdfStep
<1> DEFINE j == Opened(job[th], day)
<1>2. j \in Rendering /\ j.at = "render" /\ j.key = job[th].key
  BY <1>1, JobFields, OpenedJob
<1>3. j \in Job /\ Set(th, j)
  <2>1. Set(th, j)
    BY DEF Report_Open, Opened
  <2> HIDE DEF j
  <2> QED BY <1>2, <2>1 DEF Job
<1> HIDE DEF j
<1>4. pdf' \in PdfFiles /\ \A g \in Periods \X Days : pdf'[g] = pdf[g] \/ pdf'[g] = Empty
  BY <1>1, PdfOne
<1>5. TypeOK'
  <2>1. job' \in [Threads -> Job]
    BY <1>1, <1>3, SetJob
  <2> QED BY <1>1, <1>4, <2>1
          DEF TypeOK, PdfFiles, envVars, keyVars, procVars, dataVars
<1>6. KeyFound' /\ OneWriter'
  BY <1>1, <1>2, <1>3, SameKey, WriterStep DEF KeyInv, KeyFound, envVars, keyVars
<1>7. promised' # Absent /\ j.key = promised'
  BY <1>1, <1>2 DEF KeyInv, KeyUsed
<1>8. \A g \in Periods \X Days : pdf'[g] \in Report => pdf'[g] = pdf[g]
  BY <1>4, WholePdf
<1> QED BY <1>1, <1>2, <1>3, <1>5, <1>6, <1>7, <1>8, JobStep DEF envVars, keyVars

\* A report ends, whatever it leaves in its file.
LEMMA EndKeeps ==
    ASSUME KeyInv, NEW th \in Threads, Set(th, Idle),
           UNCHANGED <<envVars, keyVars, procVars, dataVars, auto, promised>>,
           pdf' \in PdfFiles,
           \A g \in Periods \X Days : pdf'[g] \in Report
              => pdf'[g] = pdf[g] \/ (promised' # Absent /\ pdf'[g].key = promised')
    PROVE  KeyInv'
<1>1. TypeOK /\ job' \in [Threads -> Job]
  BY IdleJob, SetJob DEF KeyInv
<1>2. TypeOK'
  BY <1>1 DEF TypeOK, PdfFiles, envVars, keyVars, procVars, dataVars
<1>3. KeyFound' /\ OneWriter'
  BY IdleJob, SameKey, WriterStep DEF KeyInv, KeyFound, envVars, keyVars
<1> QED BY <1>2, <1>3, IdleJob, JobStep DEF envVars, keyVars

LEMMA WritePdfKeeps ==
    ASSUME KeyInv, NEW th \in Threads, Report_Write(th)
    PROVE  KeyInv'
<1> DEFINE f == <<job[th].days, job[th].date>>
           p == page(job[th])
<1>1. /\ TypeOK /\ job[th] \in Job /\ job[th].at = "render" /\ Set(th, Idle)
      /\ UNCHANGED <<envVars, keyVars, procVars, dataVars, auto, promised>>
      /\ PdfStep(p, f) \/ PdfStep(Torn, f)
  BY DEF KeyInv, TypeOK, Report_Write, PdfStep
<1>2. promised' # Absent /\ job[th].key = promised'
  BY <1>1 DEF KeyInv, KeyUsed
<1>3. p \in Report /\ p.key = promised'
  BY <1>1, <1>2, JobFields, PageIsReport
<1> HIDE DEF f, p
<1>4. /\ pdf' \in PdfFiles
      /\ \A g \in Periods \X Days : pdf'[g] = pdf[g] \/ pdf'[g] = p \/ pdf'[g] = Torn
  BY <1>1, <1>3, PdfOne
<1> QED BY <1>1, <1>2, <1>3, <1>4, WholePdf, EndKeeps

LEMMA ReportFailsKeeps ==
    ASSUME KeyInv, NEW th \in Threads, Report_Fails(th)
    PROVE  KeyInv'
<1> DEFINE f == <<job[th].days, job[th].date>>
<1>1. /\ TypeOK /\ Set(th, Idle)
      /\ UNCHANGED <<envVars, keyVars, procVars, dataVars, auto, promised>>
      /\ pdf' = pdf \/ PdfStep(Torn, f)
  BY DEF KeyInv, TypeOK, Report_Fails, PdfStep
<1> HIDE DEF f
<1>2. /\ pdf' \in PdfFiles
      /\ \A g \in Periods \X Days : pdf'[g] = pdf[g] \/ pdf'[g] = Torn
  BY <1>1, PdfOne DEF TypeOK, PdfFiles
<1> QED BY <1>1, <1>2, WholePdf, EndKeeps

LEMMA AroundKeeps ==
    ASSUME KeyInv, AuditRow \/ NextDay
    PROVE  KeyInv'
<1>1. TypeOK
  BY DEF KeyInv
<1>2. CASE AuditRow
  <2>1. rows' \in Seq(Days) /\ Len(rows') <= MaxRows
    BY <1>1, <1>2, ReportBoundsAssumption DEF TypeOK, AuditRow
  <2>2. TypeOK'
    BY <1>1, <1>2, <2>1 DEF TypeOK, AuditRow, envVars, keyVars, procVars
  <2> QED BY <1>2, <2>2, SameJobs DEF AuditRow, envVars, keyVars
<1>4. CASE NextDay
  <2>1. licfile' \in LicenceFile \cup {Absent}
    BY <1>1, <1>4 DEF TypeOK, NextDay, LicenceFile
  <2>2. day' \in Days
    BY <1>1, <1>4, ReportBoundsAssumption DEF TypeOK, NextDay, Days
  <2>3. TypeOK'
    BY <1>1, <1>4, <2>1, <2>2 DEF TypeOK, NextDay, keyVars, procVars
  <2> QED BY <1>4, <2>3, SameJobs DEF NextDay, keyVars
<1> QED BY <1>2, <1>4

-----------------------------------------------------------------------------
(* The theorems.                                                           *)

LEMMA InitKey ==
    ASSUME Init PROVE KeyInv
<1>1. job \in [Threads -> Job] /\ \A th \in Threads : job[th].at = "idle"
  BY IdleJob DEF Init
<1>2. pdf \in PdfFiles /\ \A f \in Periods \X Days : pdf[f] \notin Report
  BY ReportKinds DEF Init, PdfFiles
<1>3. primary \in KeyFile /\ legacy \in KeyFile
  BY DEF Init, KeyFile, Material
<1>4. rows \in Seq(Days) /\ Len(rows) <= MaxRows /\ day \in Days /\ starts \in 0..MaxStarts
  BY ReportBoundsAssumption DEF Init, Days
<1>5. TypeOK
  BY <1>1, <1>2, <1>3, <1>4 DEF Init, TypeOK, PdfFiles
<1> QED BY <1>1, <1>2, <1>5
        DEF Init, KeyInv, Creating, SeedDrawn, OneWriter, KeyFound, KeyUsed

LEMMA NextKey ==
    ASSUME KeyInv, [Next]_vars
    PROVE  KeyInv'
<1>1. CASE UNCHANGED vars
  <2>1. TypeOK'
    BY <1>1 DEF KeyInv, TypeOK, vars, envVars, keyVars, procVars, dataVars
  <2> QED BY <1>1, <2>1, SameJobs DEF vars, envVars, keyVars
<1>2. ASSUME NEW th \in Threads, EnsureStep(th) PROVE KeyInv'
  BY <1>2, LookKeeps, FailsKeeps, CreateKeeps, WriteKeeps, WriteFailsKeeps, RereadKeeps
     DEF EnsureStep
<1>3. ASSUME NEW th \in Reporters, ReportStep(th) PROVE KeyInv'
  <2>1. th \in Threads
    BY DEF Threads
  <2> QED BY <1>3, <2>1, LaunchKeeps, CollectKeeps, HashKeeps, SignKeeps, OpenKeeps,
             WritePdfKeeps, ReportFailsKeeps DEF ReportStep
<1> QED BY <1>1, <1>2, <1>3, LicenseKeeps, StopKeeps, ConsoleKeeps, GenerateKeeps,
           AroundKeeps DEF Next

LEMMA KeyKept == Spec => []KeyInv
<1>1. Init => KeyInv
  BY InitKey
<1>2. KeyInv /\ [Next]_vars => KeyInv'
  BY NextKey
<1> QED BY <1>1, <1>2, PTL DEF Spec

\* The types, for any number of report threads, keys and starts: what a thread
\* carries from one call to the file system to the next is always key material
\* and rows of the audit table.
THEOREM TypeCorrect == Spec => []TypeOK
<1>1. KeyInv => TypeOK
  BY DEF KeyInv
<1> QED BY <1>1, KeyKept, PTL

\* ensure_audit_key_exists and sign_audit_hash: whatever threads race for the
\* key file, and whichever writes fail or process ends between two of their
\* steps, the key first announced or signed with remains the key found, and the
\* key of every whole report.
THEOREM OneKeyForAll == Spec => []KeyInForce
<1>1. KeyInv => KeyInForce
  BY DEF KeyInv, KeyFound, KeyUsed, KeyInForce
<1> QED BY <1>1, KeyKept, PTL

-----------------------------------------------------------------------------
(* What a report covers.  The invariant says what a job has made sure of so *)
(* far about the rows rs, on the day n.                                     *)

\* Every row there was at the click is listed if it is less than d days older
\* than day n; no listed row is newer than day n.
Complete(dt, d, rs, n) ==
    \A i \in 1..dt.asked : i <= Len(rs) /\ (rs[i] + d > n => i \in dt.listed)
NoneLater(dt, rs, n) == \A i \in dt.listed : i \in 1..Len(rs) /\ rs[i] <= n
Covered(dt, d, rs, n) == Complete(dt, d, rs, n) /\ NoneLater(dt, rs, n)

JobCovers(j, rs, n) ==
    /\ j.at = "collect" => j.data.asked <= Len(rs)
    /\ j.at = "hash" => Covered(j.data, j.days, rs, n)
    /\ j.at \in KeyStep \cup {"sign"} /\ j.why = "report"
          => Covered(j.data, j.days, rs, j.data.signed) /\ j.data.signed <= n
    /\ j.at \in {"open", "render"}
          => /\ Covered(j.data, j.days, rs, j.data.signed)
             /\ j.data.signed <= j.dated /\ j.dated <= n
    /\ j.at = "render" => j.dated <= j.date

PdfCovers(f, r, rs) ==
    r \in Report => /\ Covered(r.data, f[1], rs, r.data.signed)
                    /\ r.data.signed <= r.dated /\ r.dated <= f[2]

RowsPast == \A i \in 1..Len(rows) : rows[i] <= day

CoverInv ==
    /\ RowsPast
    /\ \A th \in Threads : JobCovers(job[th], rows, day)
    /\ \A f \in Periods \X Days : PdfCovers(f, pdf[f], rows)

\* The table has grown, or is as it was.
Grown(rs, gs) == Len(rs) <= Len(gs) /\ \A i \in 1..Len(rs) : gs[i] = rs[i]

\* What the data cover, they cover in a table that has grown, and on a later
\* day.
LEMMA CoveredStays ==
    ASSUME NEW rs \in Seq(Days), NEW gs \in Seq(Days), Grown(rs, gs),
           NEW dt \in ReportData, NEW d \in Periods,
           NEW n \in 0..MaxDay, NEW m \in 0..MaxDay, n <= m,
           Covered(dt, d, rs, n)
    PROVE  Covered(dt, d, gs, m)
<1>1. /\ Len(rs) \in Nat /\ Len(gs) \in Nat /\ d \in Nat /\ n \in Nat /\ m \in Nat
      /\ dt.asked \in Nat
  BY ReportBoundsAssumption DEF ReportData
<1>2. ASSUME NEW i \in 1..Len(rs)
      PROVE  i \in 1..Len(gs) /\ gs[i] = rs[i] /\ rs[i] \in Nat
  BY <1>1, <1>2, ReportBoundsAssumption DEF Grown, Days
<1>3. ASSUME NEW i \in 1..dt.asked
      PROVE  i <= Len(gs) /\ (gs[i] + d > m => i \in dt.listed)
  <2>1. i \in 1..Len(rs) /\ (rs[i] + d > n => i \in dt.listed)
    BY <1>1 DEF Covered, Complete
  <2>2. i \in 1..Len(gs) /\ gs[i] = rs[i] /\ rs[i] \in Nat
    BY <1>2, <2>1
  <2> QED BY <1>1, <2>1, <2>2
<1>4. ASSUME NEW i \in dt.listed PROVE i \in 1..Len(gs) /\ gs[i] <= m
  <2>1. i \in 1..Len(rs) /\ rs[i] <= n
    BY DEF Covered, NoneLater
  <2>2. i \in 1..Len(gs) /\ gs[i] = rs[i] /\ rs[i] \in Nat
    BY <1>2, <2>1
  <2> QED BY <1>1, <2>1, <2>2
<1> QED BY <1>3, <1>4 DEF Covered, Complete, NoneLater

LEMMA SignedStays ==
    ASSUME NEW rs \in Seq(Days), NEW gs \in Seq(Days), Grown(rs, gs),
           NEW dt \in ReportData, NEW d \in Periods, Covered(dt, d, rs, dt.signed)
    PROVE  Covered(dt, d, gs, dt.signed)
<1>1. dt.signed \in 0..MaxDay /\ dt.signed <= dt.signed
  BY ReportBoundsAssumption DEF ReportData
<1> QED BY <1>1, CoveredStays

LEMMA JobStays ==
    ASSUME NEW rs \in Seq(Days), NEW gs \in Seq(Days), Grown(rs, gs),
           NEW n \in Days, NEW m \in Days, n <= m,
           NEW j \in Job, JobCovers(j, rs, n)
    PROVE  JobCovers(j, gs, m)
<1>1. n \in 0..MaxDay /\ m \in 0..MaxDay /\ Len(rs) \in Nat /\ Len(gs) \in Nat
      /\ Len(rs) <= Len(gs)
  BY ReportBoundsAssumption DEF Days, Grown
<1>2. CASE j.at = "collect"
  <2>1. j.data.asked \in Nat
    BY <1>2, JobFields DEF Collecting, ReportData
  <2> QED BY <1>1, <1>2, <2>1 DEF JobCovers, KeyStep
<1>3. CASE j.at = "hash"
  <2>1. j.data \in ReportData /\ j.days \in Periods
    BY <1>3, JobFields DEF Collecting
  <2>2. Covered(j.data, j.days, gs, m)
    BY <1>1, <1>3, <2>1, CoveredStays DEF JobCovers
  <2> QED BY <1>3, <2>2 DEF JobCovers, KeyStep
<1>4. CASE j.at \in KeyStep \cup {"sign"}
  <2>1. CASE j.why = "report"
    <3>1. j.data \in ReportData /\ j.days \in Periods
      BY <1>4, <2>1, JobFields DEF Reporting, Ensuring
    <3>2. Covered(j.data, j.days, gs, j.data.signed)
      BY <1>4, <2>1, <3>1, SignedStays DEF JobCovers
    <3>3. j.data.signed <= m
      <4>1. j.data.signed <= n /\ j.data.signed \in Nat
        BY <1>4, <2>1, <3>1 DEF JobCovers, ReportData
      <4> QED BY <1>1, <4>1
    <3> QED BY <1>4, <3>2, <3>3 DEF JobCovers, KeyStep
  <2> QED BY <1>4, <2>1 DEF JobCovers, KeyStep
<1>5. CASE j.at \in {"open", "render"}
  <2>1. j.data \in ReportData /\ j.days \in Periods /\ j.dated \in Days
    BY <1>5, JobFields DEF Rendering
  <2>2. Covered(j.data, j.days, gs, j.data.signed)
    BY <1>5, <2>1, SignedStays DEF JobCovers
  <2>3. j.dated <= m
    <3>1. j.dated <= n /\ j.dated \in Nat
      BY <1>5, <2>1, ReportBoundsAssumption DEF JobCovers, Days
    <3> QED BY <1>1, <3>1
  <2> QED BY <1>5, <2>2, <2>3 DEF JobCovers, KeyStep
<1> QED BY <1>2, <1>3, <1>4, <1>5, JobFields DEF JobCovers, KeyStep

LEMMA PdfStays ==
    ASSUME NEW rs \in Seq(Days), NEW gs \in Seq(Days), Grown(rs, gs),
           NEW f \in Periods \X Days, NEW r, PdfCovers(f, r, rs)
    PROVE  PdfCovers(f, r, gs)
<1> SUFFICES ASSUME r \in Report PROVE PdfCovers(f, r, gs)
  BY DEF PdfCovers
<1>1. r.data \in ReportData /\ f[1] \in Periods
  BY DEF Report
<1> QED BY <1>1, SignedStays DEF PdfCovers

\* A step owes only what it changes.
LEMMA CoverStep ==
    ASSUME TypeOK, TypeOK', CoverInv, Grown(rows, rows'), day <= day', RowsPast',
           \A th \in Threads : job'[th] = job[th] \/ JobCovers(job'[th], rows', day'),
           \A f \in Periods \X Days : pdf'[f] = pdf[f] \/ PdfCovers(f, pdf'[f], rows')
    PROVE  CoverInv'
<1>1. rows \in Seq(Days) /\ rows' \in Seq(Days) /\ day \in Days /\ day' \in Days
  BY DEF TypeOK
<1>2. ASSUME NEW th \in Threads PROVE JobCovers(job'[th], rows', day')
  <2>1. CASE job'[th] = job[th]
    <3>1. job[th] \in Job /\ JobCovers(job[th], rows, day)
      BY DEF TypeOK, CoverInv
    <3> QED BY <1>1, <2>1, <3>1, JobStays
  <2> QED BY <2>1
<1>3. ASSUME NEW f \in Periods \X Days PROVE PdfCovers(f, pdf'[f], rows')
  <2>1. CASE pdf'[f] = pdf[f]
    BY <1>1, <2>1, PdfStays DEF CoverInv
  <2> QED BY <2>1
<1> QED BY <1>2, <1>3 DEF CoverInv

\* A step that leaves the table and the date alone.
LEMMA QuietStep ==
    ASSUME TypeOK, TypeOK', CoverInv, UNCHANGED <<rows, day>>,
           \A th \in Threads : job'[th] = job[th] \/ JobCovers(job'[th], rows, day),
           \A f \in Periods \X Days : pdf'[f] = pdf[f] \/ PdfCovers(f, pdf'[f], rows)
    PROVE  CoverInv'
<1>1. Grown(rows, rows') /\ day <= day' /\ RowsPast'
  BY ReportBoundsAssumption DEF TypeOK, Days, Grown, CoverInv, RowsPast
<1> QED BY <1>1, CoverStep

LEMMA IdleCovers == \A rs, n : JobCovers(Idle, rs, n)
  BY DEF JobCovers, Idle, KeyStep

-----------------------------------------------------------------------------
(* What a report covers, one lemma per kind of step.                        *)

\* On the way to the key a job keeps its data.
LEMMA EnsureCovers ==
    ASSUME TypeOK, TypeOK', CoverInv, NEW th \in Threads, EnsureStep(th)
    PROVE  CoverInv'
<1>1. /\ job[th] \in Job /\ job[th].at \in KeyStep /\ JobCovers(job[th], rows, day)
      /\ UNCHANGED <<rows, day, pdf>>
  BY DEF TypeOK, CoverInv, EnsureStep, KeyStep, Ensure_Look, Ensure_Fails, Ensure_Create,
         Ensure_CreateFails, Ensure_Write, Ensure_WriteFails, Ensure_Reread, dataVars
<1>2. \/ Set(th, Idle)
      \/ \E a \in KeyStep : Set(th, [job[th] EXCEPT !.at = a])
      \/ job[th].why = "report" /\ Set(th, [job[th] EXCEPT !.at = "sign"])
      \/ \E s \in Seeds : Set(th, [job[th] EXCEPT !.at = "create", !.seed = s])
  <2>1. job[th].why \in {"start", "click", "report"}
    BY <1>1, JobFields DEF Ensuring, Reporting
  <2>2. ASSUME NEW a, NEW k, Provisioned(th, a, k)
        PROVE  Set(th, Idle) \/ (job[th].why = "report" /\ Set(th, [job[th] EXCEPT !.at = "sign"]))
    BY <2>1, <2>2 DEF Provisioned
  <2>3. CASE Ensure_Look(th)
    BY <2>2, <2>3 DEF Ensure_Look, NotProvisioned
  <2>4. CASE Ensure_Create(th)
    BY <2>4 DEF Ensure_Create, KeyStep
  <2>5. CASE Ensure_Write(th) \/ Ensure_Reread(th)
    BY <2>2, <2>5 DEF Ensure_Write, Ensure_Reread, NotProvisioned
  <2>6. CASE Ensure_Fails(th) \/ Ensure_CreateFails(th) \/ Ensure_WriteFails(th)
    BY <2>6 DEF Ensure_Fails, Ensure_CreateFails, Ensure_WriteFails, NotProvisioned
  <2> QED BY <2>3, <2>4, <2>5, <2>6 DEF EnsureStep
<1>3. PICK j : Set(th, j) /\ JobCovers(j, rows, day)
  <2>1. CASE job[th].why = "report"
    <3>1. job[th] \in Reporting
      BY <1>1, <2>1, JobFields DEF Ensuring
    <3>2. ASSUME NEW j, j.at \in KeyStep \cup {"sign"}, j.data = job[th].data,
                 j.days = job[th].days
          PROVE  JobCovers(j, rows, day)
      BY <1>1, <2>1, <3>2 DEF JobCovers, KeyStep
    <3>3. CASE Set(th, Idle)
      BY <3>3, IdleCovers
    <3>4. ASSUME NEW a \in KeyStep \cup {"sign"}, Set(th, [job[th] EXCEPT !.at = a])
          PROVE  \E j : Set(th, j) /\ JobCovers(j, rows, day)
      <4> DEFINE j == [job[th] EXCEPT !.at = a]
      <4>1. j.at = a /\ j.data = job[th].data /\ j.days = job[th].days
        BY <3>1 DEF Reporting
      <4>2. Set(th, j)
        BY <3>4
      <4> HIDE DEF j
      <4> QED BY <3>2, <4>1, <4>2
    <3>5. ASSUME NEW s \in Seeds, Set(th, [job[th] EXCEPT !.at = "create", !.seed = s])
          PROVE  \E j : Set(th, j) /\ JobCovers(j, rows, day)
      <4> DEFINE j == [job[th] EXCEPT !.at = "create", !.seed = s]
      <4>1. j.at = "create" /\ j.data = job[th].data /\ j.days = job[th].days
        BY <3>1 DEF Reporting
      <4>2. Set(th, j)
        BY <3>5
      <4> HIDE DEF j
      <4> QED BY <3>2, <4>1, <4>2 DEF KeyStep
    <3> QED BY <1>2, <3>3, <3>4, <3>5
  <2>2. CASE job[th].why # "report"
    <3>1. job[th] \in Ensuring
      BY <1>1, <2>2, JobFields DEF Reporting
    <3>2. ASSUME NEW j, j.at \in KeyStep, j.why # "report"
          PROVE  JobCovers(j, rows, day)
      BY <3>2 DEF JobCovers, KeyStep
    <3>3. CASE Set(th, Idle)
      BY <3>3, IdleCovers
    <3>4. ASSUME NEW a \in KeyStep, Set(th, [job[th] EXCEPT !.at = a])
          PROVE  \E j : Set(th, j) /\ JobCovers(j, rows, day)
      <4> DEFINE j == [job[th] EXCEPT !.at = a]
      <4>1. j.at = a /\ j.why = job[th].why
        BY <3>1 DEF Ensuring
      <4>2. Set(th, j)
        BY <3>4
      <4> HIDE DEF j
      <4> QED BY <2>2, <3>2, <4>1, <4>2
    <3>5. ASSUME NEW s \in Seeds, Set(th, [job[th] EXCEPT !.at = "create", !.seed = s])
          PROVE  \E j : Set(th, j) /\ JobCovers(j, rows, day)
      <4> DEFINE j == [job[th] EXCEPT !.at = "create", !.seed = s]
      <4>1. j.at = "create" /\ j.why = job[th].why
        BY <3>1 DEF Ensuring
      <4>2. Set(th, j)
        BY <3>5
      <4> HIDE DEF j
      <4> QED BY <2>2, <3>2, <4>1, <4>2 DEF KeyStep
    <3> QED BY <1>2, <2>2, <3>3, <3>4, <3>5
  <2> QED BY <2>1, <2>2
<1>4. \A t \in Threads : job'[t] = job[t] \/ JobCovers(job'[t], rows, day)
  BY <1>3 DEF TypeOK, Set
<1> QED BY <1>1, <1>4, QuietStep

\* A report thread takes up a job that covers what it should.
LEMMA JobCoversStep ==
    ASSUME TypeOK, TypeOK', CoverInv, NEW th \in Threads, NEW j, Set(th, j),
           JobCovers(j, rows, day), UNCHANGED <<dataVars, pdf>>
    PROVE  CoverInv'
<1>1. \A t \in Threads : job'[t] = job[t] \/ JobCovers(job'[t], rows, day)
  BY DEF TypeOK, Set
<1> QED BY <1>1, QuietStep DEF dataVars

\* At the click no date has been read and nothing is listed.
LEMMA LaunchCovers ==
    ASSUME TypeOK, TypeOK', CoverInv, NEW th \in Threads, NEW d \in Periods,
           Report_Launch(th, d)
    PROVE  CoverInv'
<1> DEFINE j == [at |-> "collect", days |-> d, data |-> Asked]
<1>1. j.at = "collect" /\ j.data.asked = Len(rows)
  BY DEF Asked
<1>2. Set(th, j)
  BY DEF Report_Launch, Asked
<1> HIDE DEF j
<1>3. JobCovers(j, rows, day)
  BY <1>1 DEF JobCovers, KeyStep, TypeOK
<1> QED BY <1>2, <1>3, JobCoversStep DEF Report_Launch

\* The SELECT covers the period as of its own day.
LEMMA CollectCovers ==
    ASSUME TypeOK, TypeOK', CoverInv, NEW th \in Threads, Report_Collect(th)
    PROVE  CoverInv'
<1>1. /\ job[th] \in Collecting /\ job[th].days \in Periods /\ job[th].data \in ReportData
      /\ job[th].data.asked <= Len(rows)
  BY JobFields DEF TypeOK, Report_Collect, Collecting, CoverInv, JobCovers
<1>2. PICK s \in selections(job[th].days) : Set(th, Selected(job[th], s))
  BY DEF Report_Collect, Selected, Listed
<1>3. s \subseteq 1..Len(rows)
  BY <1>1, SelectionType DEF TypeOK
<1>4. \A i \in 1..Len(rows) : rows[i] + job[th].days > day => i \in s
  BY DEF selections, TypeOK
<1> DEFINE data == Listed(job[th].data, s)
           j == Selected(job[th], s)
<1>5. /\ data.asked = job[th].data.asked /\ data.listed = s
      /\ data.asked \in Nat /\ Len(rows) \in Nat
  BY <1>1 DEF Listed, ReportData, TypeOK
<1>6. j.at = "hash" /\ j.days = job[th].days /\ j.data = data
  BY DEF Selected
<1> HIDE DEF data, j
<1>7. Covered(data, job[th].days, rows, day)
  <2>1. NoneLater(data, rows, day)
    BY <1>3, <1>5 DEF NoneLater, CoverInv, RowsPast
  <2>2. Complete(data, job[th].days, rows, day)
    BY <1>1, <1>4, <1>5 DEF Complete
  <2> QED BY <2>1, <2>2 DEF Covered
<1>8. JobCovers(j, rows, day)
  BY <1>6, <1>7 DEF JobCovers, KeyStep
<1>9. Set(th, j)
  BY <1>2 DEF j
<1> QED BY <1>8, <1>9, JobCoversStep DEF Report_Collect

\* The signed date may be later than the day of the SELECT, never earlier.
LEMMA HashCovers ==
    ASSUME TypeOK, TypeOK', CoverInv, NEW th \in Threads, Report_Hash(th)
    PROVE  CoverInv'
<1>1. /\ job[th] \in Collecting /\ job[th].data \in ReportData
      /\ Covered(job[th].data, job[th].days, rows, day)
  BY JobFields DEF TypeOK, Report_Hash, Collecting, CoverInv, JobCovers
<1> DEFINE data == Dated(job[th].data, day)
           j == [at |-> "ensure", why |-> "report", seed |-> Absent,
                 days |-> job[th].days, data |-> data]
<1>2. /\ data.asked = job[th].data.asked /\ data.listed = job[th].data.listed
      /\ data.signed = day
  BY <1>1 DEF Dated, ReportData
<1>3. Set(th, j)
  BY DEF Report_Hash, Dated
<1>4. /\ j.at = "ensure" /\ j.days = job[th].days /\ j.data = data
  OBVIOUS
<1> HIDE DEF data, j
<1>5. Covered(data, job[th].days, rows, day)
  BY <1>1, <1>2 DEF Covered, Complete, NoneLater
<1>6. JobCovers(j, rows, day)
  <2>1. day <= day
    BY ReportBoundsAssumption DEF TypeOK, Days
  <2> QED BY <1>2, <1>4, <1>5, <2>1 DEF JobCovers, KeyStep
<1> QED BY <1>3, <1>6, JobCoversStep DEF Report_Hash

LEMMA SignCovers ==
    ASSUME TypeOK, TypeOK', CoverInv, NEW th \in Threads, Report_Sign(th)
    PROVE  CoverInv'
<1>1. /\ job[th] \in Reporting /\ job[th].why = "report"
      /\ Covered(job[th].data, job[th].days, rows, job[th].data.signed)
      /\ job[th].data.signed <= day
  <2>1. job[th] \in Reporting
    BY JobFields DEF TypeOK, Report_Sign
  <2> QED BY <2>1 DEF Reporting, CoverInv, JobCovers, Report_Sign
<1>2. CASE Set(th, Idle)
  BY <1>2, IdleCovers, JobCoversStep DEF Report_Sign
<1>3. ASSUME NEW k,
             Set(th, [at |-> "open", days |-> job[th].days, date |-> 0,
                      dated |-> day, data |-> job[th].data, key |-> k])
      PROVE  CoverInv'
  <2> DEFINE j == [at |-> "open", days |-> job[th].days, date |-> 0,
                   dated |-> day, data |-> job[th].data, key |-> k]
  <2>1. /\ j.at = "open" /\ j.days = job[th].days /\ j.data = job[th].data
        /\ j.dated = day
    OBVIOUS
  <2>2. Set(th, j)
    BY <1>3
  <2> HIDE DEF j
  <2>3. JobCovers(j, rows, day)
    <3>1. day <= day
      BY ReportBoundsAssumption DEF TypeOK, Days
    <3> QED BY <1>1, <2>1, <3>1 DEF JobCovers, KeyStep
  <2> QED BY <2>2, <2>3, JobCoversStep DEF Report_Sign
<1> QED BY <1>2, <1>3 DEF Report_Sign

\* A step that changes one file: it empties or tears it, or puts a page there.
LEMMA PdfCoversStep ==
    ASSUME TypeOK, TypeOK', CoverInv, NEW th \in Threads, NEW j, Set(th, j),
           JobCovers(j, rows, day), UNCHANGED dataVars,
           NEW f, NEW v \in Report \cup {Absent, Empty, Torn}, PdfStep(v, f),
           f \in Periods \X Days => PdfCovers(f, v, rows)
    PROVE  CoverInv'
<1>1. \A t \in Threads : job'[t] = job[t] \/ JobCovers(job'[t], rows, day)
  BY DEF TypeOK, Set
<1>2. \A g \in Periods \X Days : pdf'[g] = pdf[g] \/ PdfCovers(g, pdf'[g], rows)
  BY DEF TypeOK, PdfStep
<1> QED BY <1>1, <1>2, QuietStep DEF dataVars

\* The file is named on a day that is not before the one printed.
LEMMA OpenCovers ==
    ASSUME TypeOK, TypeOK', CoverInv, NEW th \in Threads, Report_Open(th)
    PROVE  CoverInv'
<1>1. /\ job[th] \in Rendering /\ job[th].at = "open" /\ JobCovers(job[th], rows, day)
      /\ day \in Days
  BY JobFields DEF TypeOK, Report_Open, CoverInv
<1> DEFINE j == Opened(job[th], day)
<1>2. /\ j.at = "render" /\ j.data = job[th].data /\ j.days = job[th].days
      /\ j.dated = job[th].dated /\ j.date = day
  BY <1>1 DEF Opened, Rendering
<1>3. Set(th, j) /\ PdfStep(Empty, <<job[th].days, day>>) /\ UNCHANGED dataVars
  BY DEF Report_Open, Opened, PdfStep
<1> HIDE DEF j
<1>4. JobCovers(j, rows, day)
  BY <1>1, <1>2 DEF JobCovers, KeyStep
<1>5. \A f : PdfCovers(f, Empty, rows)
  BY WholePdf DEF PdfCovers
<1> QED BY <1>3, <1>4, <1>5, PdfCoversStep

LEMMA WriteCovers ==
    ASSUME TypeOK, TypeOK', CoverInv, NEW th \in Threads, Report_Write(th)
    PROVE  CoverInv'
<1>1. /\ job[th] \in Rendering /\ job[th].at = "render" /\ JobCovers(job[th], rows, day)
      /\ Set(th, Idle) /\ UNCHANGED dataVars
  BY JobFields DEF TypeOK, Report_Write, CoverInv
<1> DEFINE f == <<job[th].days, job[th].date>>
           p == page(job[th])
<1>2. PdfStep(p, f) \/ PdfStep(Torn, f)
  BY DEF Report_Write, PdfStep
<1>3. /\ p \in Report /\ p.data = job[th].data /\ p.dated = job[th].dated
      /\ f[1] = job[th].days /\ f[2] = job[th].date
  BY <1>1, PageIsReport DEF page
<1> HIDE DEF p, f
<1>4. PdfCovers(f, p, rows) /\ PdfCovers(f, Torn, rows)
  BY <1>1, <1>3, WholePdf DEF PdfCovers, JobCovers
<1> QED BY <1>1, <1>2, <1>3, <1>4, IdleCovers, PdfCoversStep

LEMMA ReportFailsCovers ==
    ASSUME TypeOK, TypeOK', CoverInv, NEW th \in Threads, Report_Fails(th)
    PROVE  CoverInv'
<1> DEFINE f == <<job[th].days, job[th].date>>
<1>1. /\ Set(th, Idle) /\ UNCHANGED dataVars
      /\ pdf' = pdf \/ PdfStep(Torn, f)
  BY DEF Report_Fails, PdfStep
<1> HIDE DEF f
<1>2. CASE pdf' = pdf
  BY <1>1, <1>2, IdleCovers, JobCoversStep
<1>3. CASE PdfStep(Torn, f)
  BY <1>1, <1>3, IdleCovers, WholePdf, PdfCoversStep DEF PdfCovers
<1> QED BY <1>1, <1>2, <1>3

LEMMA AuditRowCovers ==
    ASSUME TypeOK, TypeOK', CoverInv, AuditRow
    PROVE  CoverInv'
<1>1. rows \in Seq(Days) /\ day \in Days /\ rows' = Append(rows, day) /\ day' = day
      /\ job' = job /\ pdf' = pdf
  BY DEF TypeOK, AuditRow
<1>2. Grown(rows, rows')
  BY <1>1 DEF Grown
<1>3. day <= day' /\ RowsPast'
  BY <1>1, ReportBoundsAssumption DEF CoverInv, RowsPast, Days
<1> QED BY <1>1, <1>2, <1>3, CoverStep

LEMMA NextDayCovers ==
    ASSUME TypeOK, TypeOK', CoverInv, NextDay
    PROVE  CoverInv'
<1>1. rows \in Seq(Days) /\ day \in Nat /\ rows' = rows /\ day' = day + 1
      /\ job' = job /\ pdf' = pdf
  BY ReportBoundsAssumption DEF TypeOK, NextDay, Days
<1>2. Grown(rows, rows')
  BY <1>1 DEF Grown
<1>3. day <= day'
  BY <1>1
<1>4. RowsPast'
  <2>1. ASSUME NEW i \in 1..Len(rows) PROVE rows[i] <= day + 1
    <3>1. rows[i] \in Nat /\ rows[i] <= day
      BY <1>1, ReportBoundsAssumption DEF Days, CoverInv, RowsPast
    <3> QED BY <1>1, <3>1
  <2> QED BY <1>1, <2>1 DEF RowsPast
<1> QED BY <1>1, <1>2, <1>3, <1>4, CoverStep

LEMMA NextCovers ==
    ASSUME TypeOK, TypeOK', CoverInv, [Next]_vars
    PROVE  CoverInv'
<1>1. CASE UNCHANGED <<rows, day, job, pdf>>
  BY <1>1, QuietStep
<1>2. CASE load_license
  <2>1. job' = job \/ \E j : Set(UI, j) /\ j.at = "ensure" /\ j.why = "start"
    BY <1>2 DEF load_license
  <2>2. \A t \in Threads : job'[t] = job[t] \/ JobCovers(job'[t], rows, day)
    BY <2>1 DEF TypeOK, Set, JobCovers, KeyStep
  <2> QED BY <1>2, <2>2, QuietStep DEF load_license, dataVars
<1>3. CASE Stop
  <2>1. \A t \in Threads : JobCovers(job'[t], rows, day)
    BY <1>3, IdleCovers DEF Stop
  <2> QED BY <1>3, <2>1, QuietStep DEF Stop, dataVars
<1>4. CASE Console_GenerateKey
  <2> DEFINE j == [at |-> "ensure", why |-> "click", seed |-> Absent]
  <2>1. JobCovers(j, rows, day) /\ Set(UI, j) /\ UI \in Threads
    BY <1>4 DEF Console_GenerateKey, JobCovers, KeyStep, Threads
  <2> QED BY <1>4, <2>1, JobCoversStep DEF Console_GenerateKey
<1>5. ASSUME NEW th \in Reporters, ReportStep(th) PROVE CoverInv'
  <2>1. th \in Threads
    BY DEF Threads
  <2> QED BY <1>5, <2>1, LaunchCovers, CollectCovers, HashCovers, SignCovers, OpenCovers,
             WriteCovers, ReportFailsCovers DEF ReportStep
<1>6. CASE UNCHANGED vars \/ show_certification_diagnostics_dialog \/ Console_Ok
  <2>1. UNCHANGED <<rows, day, job, pdf>>
    BY <1>6 DEF vars, dataVars, show_certification_diagnostics_dialog, Console_Ok
  <2> QED BY <1>1, <2>1
<1> QED BY <1>2, <1>3, <1>4, <1>5, <1>6, EnsureCovers, AuditRowCovers, NextDayCovers DEF Next

\* collect_report_data and render_to_file: whatever is logged, however often
\* midnight passes and whichever other reports write their files between the
\* click and the end of the rendering, a whole PDF lists every event of its
\* period that was there at the click and none later than the signed date, and
\* the signed date is not after the printed one, nor that after the file's.
THEOREM ReportsCover == Spec => []ReportCovers
<1>1. Init => CoverInv
  <2> SUFFICES ASSUME Init PROVE CoverInv
    OBVIOUS
  <2>1. RowsPast
    BY DEF Init, RowsPast
  <2>2. \A th \in Threads : JobCovers(job[th], rows, day)
    BY IdleCovers DEF Init
  <2>3. \A f \in Periods \X Days : PdfCovers(f, pdf[f], rows)
    BY ReportKinds DEF Init, PdfCovers
  <2> QED BY <2>1, <2>2, <2>3 DEF CoverInv
<1>2. TypeOK /\ TypeOK' /\ CoverInv /\ [Next]_vars => CoverInv'
  BY NextCovers
<1>3. TypeOK /\ CoverInv => ReportCovers
  <2> SUFFICES ASSUME TypeOK, CoverInv, NEW f \in Periods \X Days, pdf[f] \in Report
      PROVE  /\ pdf[f].data.signed <= pdf[f].dated /\ pdf[f].dated <= f[2]
             /\ \A i \in pdf[f].data.listed : rows[i] <= pdf[f].data.signed
             /\ \A i \in 1..pdf[f].data.asked :
                   rows[i] + f[1] > pdf[f].data.signed => i \in pdf[f].data.listed
    BY DEF ReportCovers
  <2>1. PdfCovers(f, pdf[f], rows)
    BY DEF CoverInv
  <2> QED BY <2>1 DEF PdfCovers, Covered, Complete, NoneLater
<1> QED BY <1>1, <1>2, <1>3, TypeCorrect, PTL DEF Spec
=============================================================================
