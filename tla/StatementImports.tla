-------------------------- MODULE StatementImports --------------------------
(***************************************************************************)
(* The wizard that imports statement files into one bank account: parse,   *)
(* remap, commit and undo in internal/handlers/bank_statement.go and       *)
(* internal/repository/bank_statement.go.                                  *)
(*                                                                         *)
(* A file is the sequence of the fingerprints of its rows.  Reading the    *)
(* fingerprints that are stored, staging the rows, reading the staged rows *)
(* and committing them are separate statements, so requests on one import  *)
(* or on two interleave between them.                                      *)
(***************************************************************************)
EXTENDS Naturals, Sequences, FiniteSets

CONSTANTS
  Imports,      \* row ids of imports
  Prints,       \* fingerprints: date, amount, payee and reference
  StatementFiles, \* the files users import
  Uploads,      \* requests
  NoImport

ASSUME StatementImportsAssumption ==
  /\ NoImport \notin Imports
  /\ StatementFiles \subseteq Seq(Prints)

VARIABLES
  imports,      \* imports[i]: status and staged rows
  open,         \* open[i][f]: lines of import i with print f that are not booked
  booked,       \* booked[i][f]: those that are
  fed,          \* prints of the lines the bank feed has brought
  upload,       \* what each request holds, and its next step
  commits,      \* history: how often an import's lines came in
  forced,       \* history: imports committed with their duplicates
  dated         \* history: imports whose duplicates were looked for before other
                \* lines came in

importVars == <<imports, open, booked, fed, upload, commits, forced, dated>>

StagedRow == [print : Prints, duplicate : BOOLEAN]

NoUpload == [at |-> "idle", import |-> NoImport, rows |-> << >>, force |-> FALSE,
             dated |-> FALSE, raced |-> FALSE]

NoLines == [f \in Prints |-> 0]

ImportsInit ==
  /\ imports = [i \in Imports |-> [status |-> "none", rows |-> << >>]]
  /\ open    = [i \in Imports |-> NoLines]
  /\ booked  = [i \in Imports |-> NoLines]
  /\ fed = {}
  /\ upload  = [u \in Uploads |-> NoUpload]
  /\ commits = [i \in Imports |-> 0]
  /\ forced = {} /\ dated = {}

\* ExistingFingerprints: from files and from the feed, booked or not.
Stored(f) == f \in fed \/ \E i \in Imports : open[i][f] + booked[i][f] > 0

PrepareRowsOfFile(file) ==     \* faulty: only repeats within the file are flagged
  [n \in DOMAIN file |->
     [print |-> file[n], duplicate |-> \E m \in 1..(n - 1) : file[m] = file[n]]]

\* prepareLines: flagged when it is stored already, or above in the file.
PrepareRows(file) ==
  [n \in DOMAIN file |->
     [print |-> file[n],
      duplicate |-> Stored(file[n]) \/ \E m \in 1..(n - 1) : file[m] = file[n]]]

\* ParseStatement
ParseFile(u, file) ==
  /\ upload[u].at = "idle"
  /\ file # << >>
  /\ upload' = [upload EXCEPT ![u] = [NoUpload EXCEPT !.at = "create", !.rows = PrepareRows(file)]]
  /\ UNCHANGED <<imports, open, booked, fed, commits, forced, dated>>

CreateImport(u, i) ==
  /\ upload[u].at = "create"
  /\ imports[i].status = "none"
  /\ imports' = [imports EXCEPT ![i] = [status |-> "STAGED", rows |-> upload[u].rows]]
  /\ dated' = IF upload[u].dated THEN dated \cup {i} ELSE dated
  /\ upload' = [upload EXCEPT ![u] = NoUpload]
  /\ UNCHANGED <<open, booked, fed, commits, forced>>

\* RemapImport reads the import, then the fingerprints; UpdateImport tests again.
RemapFile(u, i, file) ==
  /\ upload[u].at = "idle"
  /\ imports[i].status = "STAGED"
  /\ file # << >>
  /\ upload' = [upload EXCEPT ![u] = [NoUpload EXCEPT !.at = "remap", !.import = i,
                                                      !.rows = PrepareRows(file)]]
  /\ UNCHANGED <<imports, open, booked, fed, commits, forced, dated>>

UpdateImport(u) ==
  LET i == upload[u].import
  IN /\ upload[u].at = "remap"
     /\ IF imports[i].status = "STAGED"
        THEN /\ imports' = [imports EXCEPT ![i].rows = upload[u].rows]
             /\ dated' = IF upload[u].dated THEN dated \cup {i} ELSE dated \ {i}
        ELSE UNCHANGED <<imports, dated>>
     /\ upload' = [upload EXCEPT ![u] = NoUpload]
     /\ UNCHANGED <<open, booked, fed, commits, forced>>

\* CommitImport: the staged rows are read whatever the status; with
\* IncludeDuplicates the flags are cleared.
ReadPayload(u, i, force) ==
  /\ upload[u].at = "idle"
  /\ imports[i].status \in {"STAGED", "IMPORTED"}
  /\ upload' = [upload EXCEPT ![u] = [NoUpload EXCEPT
       !.at = "select", !.import = i, !.force = force, !.dated = i \in dated,
       !.rows = [n \in DOMAIN imports[i].rows |->
                   [imports[i].rows[n] EXCEPT !.duplicate = @ /\ ~force]]]]
  /\ UNCHANGED <<imports, open, booked, fed, commits, forced, dated>>

SelectStaged(u) ==
  /\ upload[u].at = "select"
  /\ upload' = [upload EXCEPT ![u] =
       IF imports[@.import].status = "STAGED" THEN [@ EXCEPT !.at = "commit"] ELSE NoUpload]
  /\ UNCHANGED <<imports, open, booked, fed, commits, forced, dated>>

StillStagedAlways(i) == imports[i].status # "gone"     \* faulty: the status is not tested again

\* The test of the UPDATE at the end of the transaction; without it all is undone.
StillStaged(i) == imports[i].status = "STAGED"

Fresh(rows, f) == Cardinality({n \in DOMAIN rows : rows[n].print = f /\ ~rows[n].duplicate})

\* Whoever looked for duplicates before these lines came in has not seen them.
Outdate(u) ==
  [v \in Uploads |-> IF v = u THEN NoUpload
                     ELSE [upload[v] EXCEPT !.dated = @ \/ upload[v].at # "idle"]]

CommitImport(u) ==
  LET i == upload[u].import
  IN /\ upload[u].at = "commit"
     /\ IF StillStaged(i)
        THEN /\ imports' = [imports EXCEPT ![i].status = "IMPORTED"]
             /\ open' = [open EXCEPT ![i] = [f \in Prints |-> @[f] + Fresh(upload[u].rows, f)]]
             /\ commits' = [commits EXCEPT ![i] = @ + 1]
             /\ forced' = IF upload[u].force THEN forced \cup {i} ELSE forced
             /\ dated' = {j \in Imports : imports[j].status = "STAGED" /\ j # i}
                         \cup {j \in dated : imports[j].status = "IMPORTED"}
                         \cup (IF upload[u].dated THEN {i} ELSE {})
             /\ upload' = Outdate(u)
        ELSE /\ upload' = [upload EXCEPT ![u] = NoUpload]
             /\ UNCHANGED <<imports, open, commits, forced, dated>>
     /\ UNCHANGED <<booked, fed>>

\* A line of the feed comes in; it is told apart by the provider's own reference.
FeedLine(f) ==
  /\ f \notin fed
  /\ fed' = fed \cup {f}
  /\ dated' = dated \cup {j \in Imports : imports[j].status = "STAGED"}
  /\ upload' = [v \in Uploads |-> [upload[v] EXCEPT !.dated = @ \/ upload[v].at # "idle"]]
  /\ UNCHANGED <<imports, open, booked, commits, forced>>

BookLineAgain(i, f) ==      \* faulty: a line that is booked, or gone, is booked again
  /\ open' = [open EXCEPT ![i][f] = @ - 1]
  /\ booked' = [booked EXCEPT ![i][f] = @ + 1]
  /\ UNCHANGED <<imports, fed, upload, commits, forced, dated>>

\* A line of the import is reconciled (module Reconcile).
BookLine(i, f) ==
  /\ open[i][f] > 0
  /\ open' = [open EXCEPT ![i][f] = @ - 1]
  /\ booked' = [booked EXCEPT ![i][f] = @ + 1]
  /\ upload' = [v \in Uploads |->
       IF upload[v].at = "delete" /\ upload[v].import = i
       THEN [upload[v] EXCEPT !.raced = TRUE] ELSE upload[v]]
  /\ UNCHANGED <<imports, fed, commits, forced, dated>>

DiscardLine(i, f) ==
  /\ open[i][f] > 0
  /\ open' = [open EXCEPT ![i][f] = @ - 1]
  /\ UNCHANGED <<imports, booked, fed, upload, commits, forced, dated>>

NothingBookedUnread(i) == TRUE      \* faulty: an undo does not look at the lines

NothingBooked(i) == \A f \in Prints : booked[i][f] = 0

\* UndoImport counts the booked lines, then deletes every line and the import.
CountBooked(u, i) ==
  /\ upload[u].at = "idle"
  /\ imports[i].status \in {"STAGED", "IMPORTED"}
  /\ NothingBooked(i)
  /\ upload' = [upload EXCEPT ![u] = [NoUpload EXCEPT !.at = "delete", !.import = i]]
  /\ UNCHANGED <<imports, open, booked, fed, commits, forced, dated>>

DeleteImport(u) ==
  LET i == upload[u].import
  IN /\ upload[u].at = "delete"
     /\ imports' = [imports EXCEPT ![i] = [status |-> "gone", rows |-> << >>]]
     /\ open' = [open EXCEPT ![i] = NoLines]
     /\ booked' = [booked EXCEPT ![i] = NoLines]
     /\ upload' = [upload EXCEPT ![u] = NoUpload]
     /\ UNCHANGED <<fed, commits, forced, dated>>

AbandonUpload(u) ==
  /\ upload[u].at # "idle"
  /\ upload' = [upload EXCEPT ![u] = NoUpload]
  /\ UNCHANGED <<imports, open, booked, fed, commits, forced, dated>>

ImportsNext ==
  \/ \E u \in Uploads :
       \/ \E file \in StatementFiles : \/ ParseFile(u, file)
                                       \/ \E i \in Imports : RemapFile(u, i, file)
       \/ \E i \in Imports : \/ CreateImport(u, i) \/ CountBooked(u, i)
                             \/ \E force \in BOOLEAN : ReadPayload(u, i, force)
       \/ UpdateImport(u) \/ SelectStaged(u) \/ CommitImport(u)
       \/ DeleteImport(u) \/ AbandonUpload(u)
  \/ \E f \in Prints : \/ FeedLine(f)
                       \/ \E i \in Imports : BookLine(i, f) \/ DiscardLine(i, f)

ImportsSpec == ImportsInit /\ [][ImportsNext]_importVars

(***************************************************************************)
(* Properties                                                              *)
(***************************************************************************)
ImportsTypeOK ==
  /\ imports \in [Imports -> [status : {"none", "STAGED", "IMPORTED", "gone"}, rows : Seq(StagedRow)]]
  /\ open \in [Imports -> [Prints -> Nat]]
  /\ booked \in [Imports -> [Prints -> Nat]]
  /\ fed \subseteq Prints
  /\ upload \in [Uploads -> [at : {"idle", "create", "remap", "select", "commit", "delete"},
                             import : Imports \cup {NoImport}, rows : Seq(StagedRow),
                             force : BOOLEAN, dated : BOOLEAN, raced : BOOLEAN]]
  /\ commits \in [Imports -> Nat]
  /\ forced \subseteq Imports /\ dated \subseteq Imports

\* Import pressed twice, or while the rows are mapped again, or while the import is
\* undone: its lines come in once, and only an import that is there has lines.
CommittedOnce ==
  /\ \A i \in Imports : commits[i] <= 1
  /\ \A i \in Imports, f \in Prints : open[i][f] + booked[i][f] > 0 => imports[i].status = "IMPORTED"

\* Importing an overlapping statement is safe: no print comes in twice, unless the
\* user asked for it or other lines came in after the duplicates were looked for.
NothingTwice ==
  \A i \in Imports \ (forced \cup dated), f \in Prints :
    /\ open[i][f] + booked[i][f] <= 1
    /\ \A j \in Imports \ (forced \cup dated \cup {i}) :
         open[i][f] + booked[i][f] > 0 => open[j][f] + booked[j][f] = 0

\* A booked line is never taken away by the undo of its import, unless the line was
\* booked after that undo had counted.
BookedLinesKept ==
  [][\A i \in Imports, f \in Prints :
       booked'[i][f] < booked[i][f] =>
         \E u \in Uploads : /\ upload[u].at = "delete"
                            /\ upload[u].import = i
                            /\ upload[u].raced]_importVars
=============================================================================
