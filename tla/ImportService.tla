---------------------------- MODULE ImportService ----------------------------
(***************************************************************************)
(* services/import_service.rs: a CSV file becomes secrets of the user's    *)
(* first vault, one row after the other.  The file is read and checked as  *)
(* a whole before anything is written.  While the rows are written the     *)
(* user may go on in the main window, and the vault that comes first in    *)
(* the list may change.  A row is what the checks tell apart: do its       *)
(* fields pass, and has it a password?                                     *)
(***************************************************************************)
EXTENDS Naturals, Sequences, FiniteSets, SequencesExt

CONSTANTS
    ImportVaults,  \* the vaults that may come first
    NoVault,
    MaxRows,       \* MAX_CSV_ROWS
    MaxFileRows,   \* bound on the rows of a file
    MaxImports     \* bound on the imports

ASSUME ImportAssumption ==
    NoVault \notin ImportVaults /\ MaxRows \in Nat /\ MaxFileRows \in Nat /\ MaxImports \in Nat

VARIABLES
    first,    \* the first vault of list_user_vaults
    csv,      \* the file of the last import
    at,       \* "idle" or "rows"
    target,   \* the vault the rows go to
    pending,  \* the rows still to be written, by number
    stored,   \* what the last import has written: vault and row
    answer,   \* what the last import has returned
    imports   \* the imports so far

importVars == <<first, csv, at, target, pending, stored, answer, imports>>

CsvRow  == [valid: BOOLEAN, password: BOOLEAN]
\* head: the size, the header line and the required columns are in order.
CsvFile == [head: BOOLEAN, rows: BoundedSeq(CsvRow, MaxFileRows)]
Err     == [ok |-> FALSE, count |-> 0]
Ok(n)   == [ok |-> TRUE, count |-> n]
NoReply == [ok |-> FALSE, count |-> 1]

-----------------------------------------------------------------------------

\* The checks of a row come before the test for an empty password; the number
\* of rows is tested against the ones kept so far.
parse_row(acc, row, i) ==
    IF acc.error \/ Len(acc.kept) >= MaxRows \/ ~row.valid THEN [acc EXCEPT !.error = TRUE]
    ELSE IF row.password THEN [acc EXCEPT !.kept = Append(@, i)]
    ELSE acc

parse_csv_rows(f) ==
    LET upto[i \in 0..Len(f.rows)] ==
            IF i = 0 THEN [error |-> ~f.head, kept |-> <<>>]
            ELSE parse_row(upto[i - 1], f.rows[i], i)
    IN  upto[Len(f.rows)]

ImportInit ==
    /\ first = NoVault
    /\ csv = [head |-> FALSE, rows |-> <<>>]
    /\ at = "idle" /\ target = NoVault
    /\ pending = <<>> /\ stored = <<>> /\ answer = NoReply /\ imports = 0

\* import_csv up to the loop: every early return leaves the database alone.
Import_Start ==
    /\ at = "idle" /\ imports < MaxImports
    /\ imports' = imports + 1 /\ stored' = <<>>
    /\ csv' \in CsvFile
    /\ LET parsed == parse_csv_rows(csv')
       IN  \/ /\ parsed.error \/ (parsed.kept # <<>> /\ first = NoVault)
              /\ answer' = Err /\ UNCHANGED <<at, target, pending>>
           \/ /\ ~parsed.error /\ parsed.kept = <<>>
              /\ answer' = Ok(0) /\ UNCHANGED <<at, target, pending>>
           \/ /\ ~parsed.error /\ parsed.kept # <<>> /\ first # NoVault
              /\ at' = "rows" /\ target' = first /\ pending' = parsed.kept
              /\ answer' = NoReply
    /\ UNCHANGED first

\* list_user_vaults or open_vault fails.
Import_OpenFails ==
    /\ at = "rows" /\ stored = <<>>
    /\ at' = "idle" /\ pending' = <<>> /\ answer' = Err
    /\ UNCHANGED <<first, csv, target, stored, imports>>

\* create_secret for the next row; after the last one the count is returned.
Import_Row ==
    /\ at = "rows"
    /\ stored' = Append(stored, [vault |-> target, row |-> Head(pending)])
    /\ pending' = Tail(pending)
    /\ IF pending' = <<>>
         THEN at' = "idle" /\ answer' = Ok(Len(stored'))
         ELSE UNCHANGED <<at, answer>>
    /\ UNCHANGED <<first, csv, target, imports>>

\* Mutant: a row that cannot be stored is passed over.
Import_RowFails_Skipped ==
    /\ at = "rows"
    /\ pending' = Tail(pending)
    /\ IF pending' = <<>>
         THEN at' = "idle" /\ answer' = Ok(Len(stored))
         ELSE UNCHANGED <<at, answer>>
    /\ UNCHANGED <<first, csv, target, stored, imports>>

\* create_secret fails: the import ends, the rows before it stay.
Import_RowFails ==
    /\ at = "rows"
    /\ at' = "idle" /\ pending' = <<>> /\ answer' = Err
    /\ UNCHANGED <<first, csv, target, stored, imports>>

\* The user creates, renames or deletes a vault.
VaultsChange ==
    /\ first' \in (ImportVaults \cup {NoVault}) \ {first}
    /\ UNCHANGED <<csv, at, target, pending, stored, answer, imports>>

ImportNext ==
    Import_Start \/ Import_OpenFails \/ Import_Row \/ Import_RowFails \/ VaultsChange

-----------------------------------------------------------------------------
(* Property.                                                                *)

\* The rows a file should give.
WithPassword(f) == {i \in DOMAIN f.rows : f.rows[i].password}

\* What an import has stored is the first rows with a password, in the order of
\* the file and in one vault, whatever becomes of the list of vaults meanwhile;
\* if it answers with a count, it is all of them and the count is theirs; and a
\* file with a bad row or too many rows, even at its end, stores nothing.
ImportIsWhole ==
    LET got == {stored[i].row : i \in DOMAIN stored}
        all == WithPassword(csv)
    IN  /\ \A i, j \in DOMAIN stored : /\ i < j => stored[i].row < stored[j].row
                                      /\ stored[i].vault = stored[j].vault
        /\ got \subseteq all /\ \A r \in got, q \in all : q < r => q \in got
        /\ answer.ok => got = all /\ answer.count = Cardinality(all)
        /\ stored # <<>> => /\ csv.head /\ \A i \in DOMAIN csv.rows : csv.rows[i].valid
                           /\ Cardinality(all) <= MaxRows
=============================================================================
