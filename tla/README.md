# HeelonVault in TLA+

HeelonVault is a desktop password manager: one GTK process over one SQLite
file. It has no server, but it is concurrent all the same. Nearly every click
spawns a thread (`std::thread::spawn` + `block_on`), the thread issues its SQL
statements one by one on a connection pool, mostly without a transaction, and
the main loop handles the answer whenever it comes. The process may stop
between any two statements. The models are about that: what holds whatever the
order of the statements, and what does not.

Paths below are relative to the repository's root.

## 1. Inventory

| Component | State | Operations | Depends on |
|---|---|---|---|
| Access control (`src/services/access_control.rs`) | none | who may administer a team, share, or open a vault with which role | rows passed in by the services |
| Vaults and key envelopes (`vault_service.rs`, `vault_repository.rs`) | `vaults` (owner, deleted_at, key envelope) | create, open, delete, restore; gone with the owner's account | master key of the session |
| Teams and sharing (`team_service.rs`, `team_repository.rs`) | `teams`, `team_members`, `vault_key_shares` | create and delete a team, add and remove a member, share with a user or a team, change a role, revoke, rotate a key | vault key envelopes, password envelopes of the members |
| Secrets and trash (`secret_service.rs`, `secret_repository.rs`, trash and editor dialogs) | `secret_items` | create, update, move to trash, restore, purge, empty the trash | vault keys, `vaults.deleted_at` |
| Accounts (`admin_service.rs`, `user_service.rs`, `user_repository.rs`, `main.rs`) | `users` | first-run wizard, create, delete, change a role, change and reset a password, start-up | credentials map |
| Credentials map (`auth_service.rs`) | a map from name to salt and hash, in memory | create, verify, derive the key, change, export, load | `users.password_envelope` |
| Login dialog (`ui/dialogs/login_dialog/`) | visible step, name, countdown | probe a name, submit credentials, submit a code, go back | credentials map, policy, TOTP |
| Authentication policy (`auth_policy_service.rs`) | `auth_policy` (failures, last attempt, auto-lock delay) | read the state, record a failure, reset | wall clock |
| TOTP (`totp_service.rs`, profile page) | `users.totp_secret`; replay guard in memory | enable, disable, verify a code, migrate a legacy secret | derived key, wall clock |
| Main window and auto-lock (`ui/windows/main_window/`) | master key held by the window, timer and armed flag, active vault, list on display | load the sidebar and the list, save, trash, delete a vault, activity, time-out, change the delay, logout | login, vaults, secrets, policy row |
| User, team and trash dialogs (`ui/dialogs/manage_*_dialog.rs`, `trash_dialog.rs`) | rows and pickers on display, pending answers | every button behind which a thread calls a service | all services above |
| Backup and restore (`backup_service.rs`, `backup_application_service.rs`, `recovery_key_export_dialog.rs`, `restore_flow.rs`, `main.rs`) | database file, `.old`, staging file, backup file, recovery phrase | export and check, import to a staging file, set a password, promote, roll back, restart | whole database |
| Licence and audit reports (`license_service.rs`, `audit_report_service.rs`, `certification.rs`) | licence, signing key (environment or file), PDF files | load, provision the key, sign, render, trust console | `audit_log`, file system |
| Audit trail (`audit_log_service.rs`, `audit_log_repository.rs`, `audit_service.rs`) | `audit_log` rows | append, list | called last by most services |
| CSV import, password generator, search (`import_service.rs`, `password_service.rs`, `search_filter.rs`) | the file; the bytes; query and filters | import, generate, filter | vault and secret services |
| Cryptography, login history, languages, widgets | | pure functions, I/O and layout | |

**How they interact.** The hash in `users.password_envelope` *is* the user's
master key. Vault keys are sealed under it, TOTP secrets are sealed under it,
`share_vault_with_members` reads another user's hash to seal a share for them.
So a password change in one component touches the meaning of rows in three
others. The credentials map duplicates the `users` table in memory; it is
loaded at the start and kept up to date by the operations. Foreign keys with
cascades connect all the tables.

**What is hard.** Two-statement operations (`create_vault`, `create_team`,
`remove_member`, `update_secret`, the wizard, every password change) with other
operations or a crash in between; a member list or a vault id read early and
used late; checks (`admin_count`, `get_state`) in another statement than the
write they protect; two readings of the clock around a mutex; late answers
handled by a dialog that has moved on; a restore made of renames that may each
fail; files several threads create or write at once.

**What makes each component correct.** Sharing: every share belongs to somebody
who should have it, is sealed for that person, and can be opened with the
current password. Secrets: nothing disappears from both lists, nothing is
destroyed outside the trash, metadata and ciphertext match. Accounts: an admin
remains, the application stays usable, no two users get one key, map and table
agree. Login: the lock bounds guessing, a code is used once. Windows: what is
shown when nothing is pending is what the tables hold, a click acts on what is
shown, the timer of the session is the one that runs. Restore: to the user one
step or none. Reports: one key signs them all, and a report lists the events it
is signed for. Import, generator and search: their reference definitions.
`PROJECT.json` lists the hazards one by one with their lines.

## 2. Plan

Done, most important behaviour first:

1. `AccessControl`: the permission predicates, as operators.
2. `VaultSharing` (uses 1): tables of vaults, shares, teams, members; the core.
3. `SecretLifecycle`: secrets and trash under fixed sharing.
4. `Accounts`: `users` and the credentials map, start-up included.
5. `Login`: dialog, policy and TOTP together, with the clock.
6. `BackupRestore` with failing file operations, crashes and the next start, and
   the abstract specification `AtomicReplace` it is shown to implement.
7. `MainWindow`: session, timer, sidebar and list with answers in any order.
8. `Dialogs`: users, teams, members, share and trash windows over the services.
9. `CertifiedReports`: licence, signing key, report threads, trust console.
10. `SearchFilter`, `PasswordService`, `ImportService`, composed by `UserTools`:
    algorithms against a reference definition.
11. Proofs for 2 to 10: every safety property of the passing runs, the action
    properties and the refinement.

Left, in this order:

12. The audit row that trails the operations of 2 and 4, and its failure.
13. `rotate_vault_key` over the rows of `VaultSharing`, once something calls it.

## 3. Modules and code

Common conventions. A thread of the interface is a member of `Threads`; what it
has yet to do is `op[th]` (in `Login`, `pc[th]` and the request). One step
commits one writing statement or one transaction, and what an operation reads
before its first write is read in that step, except where the code's gap
between reading and writing matters: there the check is a step of its own
(`Accounts`, `SecretLifecycle`, `Login`). `Crash` and `Restart` drop every
thread and all memory and keep the tables. Uuids are fresh: an id is used once.
SQL constraints of `migrations/` (primary keys, `UNIQUE`, foreign keys with
their cascades) are part of the actions.

**AccessControl.** `check_permission` of `services/access_control.rs`: a role, an
action and a description of what the requester holds on a vault or in a team,
answered yes or no.

**VaultSharing.** `role`, `hash` are columns of `users`; `vault`, `share`,
`team`, `member` the tables of the same names; `session` the user and master
key of the main window. An envelope is the pair of the user and the number of
the master key it is sealed under, and opens with that key only. Actions:
`create_vault` (two steps), delete, restore, share with a user, share with a
team (a list read once, then an upsert per member), revoke, `create_team`
(two), `delete_team`, `add_member`, `remove_member` (two), deletion of a user
with its cascades, change and reset of a password, login and logout, crash.

**SecretLifecycle.** `secret` has a state, a vault, the number of the last save
whose metadata was stored and that of the save the ciphertext comes from.
Actions: create (the vault is opened first), update (metadata, then
ciphertext), move to trash, restore with the vault, purge, empty the trash (the
vault is resolved first, and it is the first by name the user can access),
`delete_vault`, crash. Ownership and sharing are constants here.

**Accounts.** `user` is the table, `creds` the map, `mode` whether the wizard or
the login form is shown. Each operation is split where the code releases the
map's mutex or ends a statement: check, hash, export, INSERT, UPDATE. A
statement may fail (`Failures`), the process may stop (`Crashes`). `Restart`
follows `initialize_app_context`: the first admin's envelope decides between
wizard, login form and refusal.

**Login.** `failed`, `last` are columns of `auth_policy`; `hash`, `totp` of
`users`; `guard` the replay guard; `dialog` the step, the name and the seconds
of the countdown. A thread walks from `check` (`get_state`) over
`verify`, `has_totp`, `open`, `guard` and `derive` to `reset` or `record`, and
the main loop handles its `answer`, if the dialog that asked is still there. A
button that is greyed out still gets `emit_clicked` from Enter, so only the
countdown holds back a second attempt. `accepted` and `guesses` are history
variables the properties use; they restrict nothing.

**BackupRestore, AtomicReplace.** `file` maps the four paths (database, its
`.old`, the staging file and its `.old`) to contents, `hvb` is the backup file,
`exp` the export dialog, `page` the restore page, `th[r]` a restore thread that
walks from `cleanup` over `import`, `password`, `close`, `remove_old`, `rotate`
and `swap`, perhaps `rollback`, to its answer. Every step is one file operation
and may fail; `Crash` stops the process anywhere, `initialize_app_context`
starts it again and creates an empty database where there is none.
`AtomicReplace` has three variables: the database the application would open,
what each restore has answered, and whether restores have overlapped. The
mapping (`Current`) takes the database to be the one in `.old` while a thread
stands between the two renames, because the roll-back brings it back; `Stop`
of the abstract specification names the one case in which it does not.

**MainWindow.** `win` is the window (open, active vault, page and cards, timer,
armed flag, delay), `th` its threads, `dl` the request about the delay, and
`vault`, `live` the tables. `refresh_secret_flow` and `refresh_vault_sections`
start a thread; `SecretsAnswer`, `SidebarAnswer`, `TaskAnswer` apply what it
brings whenever it comes. A load of the list is two steps, the vaults and then
the secrets of the vault found; the second stands for `get_vault_access_for_user`,
`open_vault_for_user` and `list_by_vault`, of which the first two only read and
what they find is not kept. A thread whose window is gone (`mine` FALSE) still
writes to the tables.

**Dialogs.** `up`, `tp`, `mwin`, `swin`, `trash` are what the users panel, the
teams panel, the member window, the share window and the trash dialog show;
pickers are positions in a list that late answers replace. A service call is
one step here (its interleavings are those of the modules above) and may fail
without effect. `halfmade`, `mainStale` and `calm` are history variables.

**CertifiedReports.** `envkey`, `primary`, `legacy` are the places a signing key
may be in, `job` what the UI thread and the report threads are doing,
`pdf` the files, by period and date. `ensure_audit_key_exists` is split at each
call to the file system; a file two writers have mixed is `Torn`. One report
reads the clock four times, each in a step of its own, so that rows may be
written and midnight may pass in between: in the SELECT
(`audit_report_service.rs:305`), in the text that is hashed (357), on the page
(127) and in the file name (266). Days are counted, hours are not: of the day on
the edge of the period the SELECT takes any latest part (`selections`). There is
one clock, never set back; the code's mixture of UTC (SQLite) and local time is
left out. Rows are added to the audit table and never removed, as in the code.
History variables are `promised`, the key first announced or used, and in a
report's data `asked`, how many rows there were at the click.

**SearchFilter, PasswordService, ImportService, UserTools.** `search_filter.rs`
on texts over eight characters that stand for the kinds the code tells apart
(`normalize_search_text` writes the joined words in one pass, `edits` is the
walk of the two pointers of `within_one_edit`); `generate_password` draw by draw on
classes of characters, with `random_index` as the set of random words for each
index, or a failure because the system has no random bytes; `import_csv` as the checks of the whole file and then a step per row.
`UserTools` chooses one of the three, which share no state.

## 4. Runs

| Run | Instance | Checks |
|---|---|---|
| `sharing` | alone: 3 users, 1 vault, 2 teams, one operation at a time; otherwise: 2 of the users, 1 of the teams, 2 threads, crashes, 2 passwords | `TypeOK`, `TeamShareAlone`, `HoldersOpenAlone`, `RowsNeverDangle`, `EnvelopesBelongToHolder` |
| `sharing_liveness` | 2 users, 1 vault, 1 team, 2 threads, 2 passwords, no crash, fair | `LiveVaultHasKey`, `CreatedVaultGetsKey`, `RemovalPurges` |
| `sharing_password` (violation) | 1 thread, 2 passwords | `HoldersCanOpen` |
| `secret_concurrent` | 2 users, 2 vaults, one shared, 2 secrets, 2 threads, 2 saves, crashes | `TypeOK`, `BlobNeverAhead`, `StoredNeverHidden`, `PurgeOnlyFromTrash` |
| `accounts` | 2 names, 3 rows, 5 hashes, 2 threads, crashes, failing statements; alone: one operation at a time, crashes | `TypeOK`, `EnvelopesDistinct`, `AdminKeptAlone`, `MemoryMatchesAlone` |
| `login` | 1 user, 2 threads, 1 code, 2 passwords | `TypeOK`, `ReplaySpaced`, `GuessBudget` |
| `restore` | 2 restore threads, 2 versions of the database, 1 recovery phrase, 1 stop, a failing file operation per restore or export | `TypeOK`, `RestoredAsAsked`, `RestoreIsAtomic`, `PromisedBackupRestores` |
| `window` | 2 own vaults and a shared one, 2 secrets, 2 threads, 3 delays, 2 sessions, 1 change of the delay | `CardsOfActiveVault`, `TimerInForce`, `OneDefaultVault`, `ListIsCurrent`, `LoadingIsAnswered` |
| `window_delay` (violation) | 1 vault, 1 thread, 2 delays, 2 changes | `DelayInForce` |
| `dialogs` | 2 users, 2 teams, 1 vault, 2 secrets, 2 threads | `VaultForEachUser`, `NothingHidden`, `PickIsTaken`, `TrashShown`, `MainListFollows` |
| `reports` | 2 report threads and the UI thread, 3 seeds, 2 days, 2 rows, 2 starts | `TypeOK`, `KeyInForce`, `ReportCovers` |
| `tools` | 3 cards, queries of up to 5 of 6 characters; passwords of 5 and 6, words of 4 bits; 2 imports of up to 3 rows | `SearchFinds`, `GeneratorIsFair`, `ImportIsWhole` |

In `sharing` and `accounts` a behaviour is `alone` or not from its first state
on: if it is, one operation runs at a time, and the properties that the code can
only keep then (`...Alone`) are checked there; if not, everything may
interleave, and the properties that hold regardless are checked in both.

What the violations show:

- **`sharing_password`**: a changed or reset password leaves every envelope
  sealed under the old hash. The user logs in and cannot open their own vaults;
  a member's shares are lost too. `admin_service.rs:61` says what should happen.
- **`window_delay`**: the profile page announces "Auto-lock delay updated.", but
  after "never" the timer is no longer armed and `set_auto_lock_timeout` only
  resets a timer that is. The session stays open until it is closed by hand.

What the refinement shows: with at most one failing file operation per restore,
every failure before the second rename leaves the database in place, a failing
second rename is rolled back before the failure is reported, and success is
reported only when the new database is in place with the chosen password. The
exceptions are in `AtomicReplace` because the code has them: a stop between the
renames leaves no database under its name (the old one is in `.old`, and nothing
looks for it there), and two restores that overlap, which the Cancel button
allows, share their files.

**Bounds and why they suffice.** Two threads are enough for every race here: no
operation has a step that waits for two others. Two users distinguish actor
from target, owner from recipient; the third of `sharing` is a
second member of a team, which, with two teams, makes the upsert replace one
team's share by another's. Its interleaved behaviours start after an
administrator has deleted one account and one team, which leaves two users and
one team; the others start after every password has reached its last number.
Both are states the system reaches before the first vault exists. One vault suffices because no operation on vaults
relates two of them, with the exception of the trash, which has two. Two saves
let a stale ciphertext follow a newer one. Three rows in `users` give two admins
and another user; five hashes let each account get a new password and one of
them a second. In `Login` the constants are scaled down and keep their
relations: the window (3) is longer than the delay (1), the life of an entry of
the guard is three steps as in the code, the threshold (2) can be passed by two
attempts at once, the backoff is shorter than the window, and the clock
(`Horizon` 3) goes one window beyond the first failure. One time step's code is
typed, the others being rejected alike. `WindowsClosed` keeps an attempt from
starting while the window of a double login is open. `MaxDelay` bounds how long
a thread may stand between reading the clock and the statement it read it for;
the bound of `GuessBudget` is over `LockWindow - MaxDelay` because a failure
written that late carries an older time.

In `restore` two threads are the fewest that overlap, two versions tell the
database of the backup from the present one, and `Faults` stops at one: with two
the roll-back may fail as well, and then nothing in the code helps. In `window`
two threads let two answers change places, two sessions let an answer or a timer
outlive its window, and the shared vault makes the list depend on somebody else;
the delay changes once because `DelayInForce` fails from the second change on.
In `dialogs` the administrator stays at one of the three panels in a behaviour;
the panels share no widgets, only tables that the services write. In `reports`
three seeds let every thread draw one. Where the key is does not depend on
rows, and what a report lists does not depend on where its key is, so rows are
written only in the first run of a process with a professional licence and the
key in the environment (`MCNext`). Two days put a row before and after a
midnight, and the midnight before, after or between any two readings of the
clock; the second row is one that is written after the click. The theorems
do without this restriction. In `tools` a query of five characters
contains a word of four with a typo on either side of the threshold; 16 random
words are enough for bounds that divide their number and bounds that do not;
the limit of rows is smaller than the longest file, so that it is passed.

**Fairness.** Only `sharing_liveness` assumes any: weak fairness of each
thread's next statement (`FairSpec`, over the steps without `Crash`). A thread that was spawned runs to its end,
SQLite serves every connection, and nothing in the code makes a started
operation wait for the user. No fairness is assumed of users' clicks. Crashes are
off, since after a crash nothing completes a half-done operation. That a pending
answer comes is not assumed elsewhere either: the properties of the windows speak
of the states in which nothing is pending.

**Deadlock** is checked where the system runs for ever: sharing, secrets,
accounts, login, dialogs. In `restore` and `reports` the process may stop for
good, in `window` the bounded sessions may be over, in `tools` a password is
generated once.

## 5. Proofs

Each theorem holds for all values of the constants that satisfy the named
assumptions: the sets are arbitrary, the bounds arbitrary naturals. `None` is
outside the id sets. The invariant named with each theorem is inductive, and was
checked by TLC on the instance of the module's run before it was proved.

- `VaultSharingProofs`. `TypeCorrect`. `RowsHold` (`RowsNeverDangle`):
  inductive with `TypeOK`; the case that needs care is a second statement that
  runs after a deletion. `EnvelopesCorrect`: `EnvelopesBelongToHolder` is not
  inductive, since an envelope is sealed in one statement and stored in
  another; `KeysInFlight`, about the session and the pending `create_vault`, is
  the missing half of the invariant. `LiveVaultsHaveKeys`:
  `LiveVaultHasKey` without crashes. `HoldersOpen` and `TeamShares` are about
  `MCSharing`, whose behaviours begin later: the two kinds of them never mix
  (`KindStays`: a deleted account keeps its password number for ever). In the
  first kind every key, in a row, in the session or in a pending `create_vault`,
  is of the last password (`KeysCurrent`; one operation at a time is not needed
  for it). `TeamShareHasMember` needs it: `TeamInv` adds that one thread is busy
  and that the members `share_vault_with_team` has read are still members
  (`TodoAreMembers`), which a concurrent removal breaks.
- `SecretProofs`, the life of a secret. `SavesInOrder`: `TypeOK` and `BlobNeverAhead` from
  `SaveInv`, which adds that a pending update carries a save already counted;
  `TypeCorrect` follows.
  `OnlyTrashIsPurged` and `StoredStaysVisible`: the two action properties from
  `SaveInv`. `SequentialSecretsVisible`: with one thread, crashes included, no
  live secret is in a deleted vault, so each is in its owner's list or trash
  (`VisibleInv` adds that the vault an editor has opened is live).
- `SecretProofs`, import, generator and search. They are about recursive
  functions, and induction is made by hand: a set of numbers that is not empty has a least one
  (`LeastNumber`, from the well-foundedness of `<`), so a set with 0 that is
  closed under successors has all numbers up to n (`UpTo`), and the function a
  recursion over 0..n describes exists (`RecursionExists`), without which
  nothing follows from its definition. `ImportsAreWhole` (`ImportIsWhole`):
  `ParseCorrect` says what `parse_csv_rows` returns for a file of any length
  (the rows with a password in ascending order, or an error), and `ImportInv`
  that what is stored and what is pending make up that list.
  `GeneratorUnbiased` (`GeneratorIsFair`): `zone(bound)` is a multiple of
  `bound` (`ZoneMultiple`), so the words for two indices are shifted copies of
  each other (`DrawIsFair`), for words of any width; each swap of the shuffle
  settles one more position for good (`Settled`), so that two different series
  of draws differ in a settled value (`ShuffleInjective`), and every
  arrangement is reached from its last position backwards
  (`ShuffleSurjective`), for any length; and no draw removes a class from the
  bytes (`GeneratorInv`). `SearchIsFaithful` (`SearchFinds`): the two-pointer
  walk counts what `Edits` defines by the first difference of the two words
  (`EditsWalk`), no other function satisfies its equations (`WalksAgree`), and
  `Edits` is at most 1 exactly for one character removed, inserted or replaced
  (`WithinIsOneEdit`, `OneEditIsWithin`); a word is normalized inside a text as
  it is alone, because what precedes it ends with a blank (`WordNormalizing`),
  and survives the trim at the end (`TrimContains`), so a copied word is found
  (`CopiedWordFinds`). `SearchAssumption` says that cards are texts and known
  prefixes name fields. `WordAssumption` (a power of two is a natural greater
  than 1) is arithmetic the provers lack; TLC evaluates it.
- `AccountsProofs`. `TypeCorrect`. `NoSharedEnvelope` (`EnvelopesDistinct`) from
  `EnvInv`: an envelope is held, in the map, in a row or on its way, under one
  name only (`OneName`), names are unique, and a pending UPDATE targets the row
  of its own name (`StoreTarget`). `SequentialAdmin` (`AtLeastOneAdmin` with one
  thread) and `AdminAlone` (`AdminKeptAlone`: any threads, one busy at a time)
  from `AdminInv`: what a check found is still true when the statement
  runs (`ChecksHold`). `MemoryAlone` (`MemoryMatchesAlone`) from `MemoryInv`: a
  row differs from the map only while a thread is about to store into it; the
  name of a creation has no row with an envelope, what is about to be stored is
  what the map holds, and under the wizard there is no other account
  (`Carried`). That names are unique and a store targets the row of its own name
  comes from `EnvInv`; the reload at the start needs the former.
- `LoginProofs`. `TypeCorrect`. `ReplayGuardHolds` (`ReplaySpaced`) from
  `ReplayInv`: no stamp is ahead of the clock, and as long as a code accepted at
  `stamp` may not pass again its entry is in the guard with an expiry of at
  least `stamp + ReplayTTL` (`GuardInv`). A thread with an older stamp can only
  keep more entries, never fewer. `PowersAssumption` (powers of two are
  naturals, up to the clamp of the shift) is arithmetic the provers lack; TLC
  evaluates it. `GuessesBounded` (`GuessBudget`) from `BudgetInv`: the history
  keeps for each recorded failure when it was stamped and which it was since
  the last success, so that different failures are different pairs. `TimesInv`
  relates those stamps to `last` and to the clock (a failure is recorded at
  most `MaxDelay` after its stamp, so `last` may go back but never before a
  failure the window still counts). `CountInv` splits the budget: once the
  counter has reached `MaxFailed`, every attempt that can still fail is in a
  thread that had passed `get_state` before, so each such failure uses up a
  thread (`BudgetRecord`), and a new attempt is let in only when the window is
  empty (`UnlockedEmpty`). The threads are finitely many (`ThreadsAssumption`),
  `MaxFailed` is not 0.
- `BackupRestoreProofs`. `RestoreInv` says where the two databases are at each
  `pc` of a restore that runs alone (`FilesInPlace`: staged, moved to `.old`,
  moved into place), that the pool is closed from `promote_staged_restore` on
  (`PoolClosed`), that a transaction is written through an open pool only
  (`Working`), and that the file an export has promised is the one on the disk
  (`PromiseKept`). From it: `TypeCorrect`; `SuccessIsAsAsked`
  (`RestoredAsAsked`); `GoodBackupRestores` (`PromisedBackupRestores`, an action
  property); and `Refinement` (`RestoreIsAtomic`): the initial states map to
  initial states, and every step is a step of `AtomicReplace` or a stutter. The
  abstract step happens at the second rename; the step that needs the invariant
  is the roll-back, which must find the former database in `.old`.
  `RestoreBounds` limits a restore to one failing file operation: with a second
  one the roll-back itself may fail, and the code then leaves the database in
  `.old`.
- `CertifiedReportsProofs`. `KeyInv`: a thread goes to create the key file only
  when no other source has a key (`Creating`), `create_new` succeeds for one
  thread (`OneWriter`), and until it has written, the file has no key, so that
  nothing can have been announced or signed (`KeyFound`, `KeyUsed`). From it:
  `TypeCorrect`, `OneKeyForAll` (`KeyInForce`). `ReportsCover` (`ReportCovers`)
  from `CoverInv`: no row is of a later day than today, and what a job has
  gathered so far (`JobCovers`) and what is in the files (`PdfCovers`) is right
  for the dates already read and stays so when rows are added and days pass.
  `ReportKinds` (an absent or empty file is not a report)
  tells model values apart.
- `MainWindowProofs`. `WindowInv`: threads belong to the open window or may only
  write (`Owned`); one thread at a time may create the default vault
  (`OneCreator`), and when it does none of this window's is live (`MadeOnce`);
  a list that is not what the table holds is owed a reload by a thread
  (`ListFollows`). From it: `CardsOfActive`, `TimerKept`, `LoadingEnds`,
  `DefaultVaultOnce`, `ListKept`. The constants are as in `WindowConstants`.
- `DialogsProofs`. All rest on `DialogTypes`. `PickKept` (`PickIsTaken`):
  every refill of a drop-down resets or keeps position and entry together.
  `MainListKept` (`MainListFollows`) from `RestoreOwed`: the main list is stale
  only while a successful restore waits for its answer. `VaultKept`
  (`VaultForEachUser`) is inductive with the types. `NothingStaysHidden`
  (`NothingHidden`) from `UsersListed`, `TeamsListed`, `MembersListed` and what
  they need: an entry is on the list, or a thread that is under way will add it.
  `TrashIsShown` (`TrashShown`) from `TrashInv`: while readings do not overlap
  the rows, or the answer on its way, are the trash. `DialogConstants` keeps the
  identifiers apart.

Only model-checked:

- the two liveness properties: liveness under fairness is beyond the prover;
- that `Sorted` keeps the members of a set, which the types of `Dialogs` in
  full would need;
- the two violations, which are counterexamples by nature.

## 6. Seen while modelling, not the subject of a run

Stated in the modules, refuted by TLC (each by putting the property into the
configuration named):

- `DeletedTeamIsRevoked` (`SharingPassword.cfg`, as PROPERTY): deleting a team
  sets `granted_via_team` to NULL and leaves the shares as direct ones;
  `migrations/0012_vault_key_shares.sql:15` keeps the column "so it can be
  bulk-revoked when a team is deleted".
- `EmptyTrashEmptiesAll` (`SecretConcurrent.cfg`, with two vaults of one owner):
  the dialog lists the trash of all vaults, says "every secret in the trash"
  (`locales/en/main.ftl:219`), and empties that of the first vault by name.
- `AtLeastOneAdmin` (`Accounts.cfg`): with two admins, two deletions or demotions
  both pass the check before either is written, although
  `admin_service.rs:46` says "Refuses if the target is the last admin."
- `NeverLockedOut` (`Accounts.cfg`): a stop between the INSERT and the UPDATE of
  the wizard leaves an installation that neither the wizard ("vault already
  initialized; use the login form", `admin_service.rs:365`) nor the login form
  accepts.

Behaviours the models show and no document excludes:

- `share_vault_with_team` reads the members once; a member removed meanwhile
  still gets the upsert, and keeps a share nobody purges.
- Sharing with a team inserts a share row for the owner too if they are a member.
- `create_secret` does not look at `deleted_at`: a vault deleted after the
  editor opened it gets a secret that is in no list and no trash.
- Deleting a user leaves the entry of the credentials map; the name is refused
  until the next start. Creating a name anew after a crash between INSERT and
  UPDATE fails at the INSERT, after the map got the new password.
- Below five failures only the dialog's countdown delays an attempt, and
  editing the name cancels it. The counter is not reset when the lock window
  has passed, so that the next failure locks again at once.
- The replay guard is lost at a restart, and a code that opens a legacy secret
  does not meet it. Two quick presses of Enter may open two main windows.
- A password change leaves the TOTP secret sealed under the old hash; the user
  cannot pass the second step any more. A restore sets a new password in the
  staged file and has the same effect.
- The export dialog clears the clipboard when it is confirmed: a phrase that was
  only copied is gone unless it was pasted before. A failing export has already
  overwritten the earlier backup. The bytes may be read in the middle of a
  transaction, and the check accepts what was read.
- A failed promotion leaves the pool closed: the login page stays and every
  statement fails until the process is restarted.
- After a role change the users panel is emptied by `refresh_toggle`, which reads
  the users again and drops the answer (`manage_users_dialog.rs:205`): the panel
  stays empty until the next full refresh.
- The share window keeps the master key it was opened with, also after the main
  window has locked itself (`manage_teams_dialog.rs:388`).
- A stop between the creation of the key file and its writing leaves an empty
  file, and every later signature fails until somebody removes it. The console
  announces a new key also when it found one, and shows the origin of an old
  generated file when the environment provides the key. An expired licence is
  noticed at the next start only.
- Two reports of one period and day write the same file, and both are announced.
  The date that is signed, the date printed and the one in the file name are
  different readings of the clock (`audit_report_service.rs:357`, `:127`, `:266`)
  and differ over midnight (`ReportCovers` only says that they are in order).
  The signed one has the time of day, which the page does not print: the hash
  cannot be computed again from the PDF.
- Two loads of the list that overlap are answered in either order; the older one
  may leave a list of the right vault that misses a change (`ListIsCurrent` is
  about the other sessions). A sidebar that fails to load does not load the list
  again. Two sessions of a new user may each create a default vault.
- A row that fails in the middle of an import leaves the rows before it, without
  a refresh of the list; importing the file again doubles them.

## 7. Not modelled

Cryptography (an envelope opens with its key and no other; a code belongs to its
secret and time step; a signature is made of a key and a hash), layout and
wording, the strength score, the audit row at the end of each operation, login
history, migrations, installation scripts. `rotate_vault_key` and the old backup
entry points (`export_backup`, `import_backup`, `restore_backup_secured`), which
nothing calls. The editor's fields, the sort buttons and the profile fields
(e-mail, names, language) change nothing another part relies on. `audit_logs`
(migration 0014) is written by no screen.
