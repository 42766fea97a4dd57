--------------------------- MODULE StatementLines ---------------------------
(***************************************************************************)
(* The table bank_statement_lines: the reconcile inbox.                    *)
(*                                                                         *)
(* Every operator below is one SQL statement of                            *)
(* internal/repository/bank_statement.go or bank_feed.go.  PostgreSQL runs *)
(* a statement atomically and re-checks its WHERE clause on the row it     *)
(* locks, so one statement is one step; the handlers of Reconcile string   *)
(* several of them together, and anything may happen in between.           *)
(*                                                                         *)
(* A row is never reused: a deleted line that the bank delivers again, or  *)
(* a file that is imported again, makes a new row with a new id.           *)
(***************************************************************************)
EXTENDS BankLedger \* a line refers to the bank transaction it became

CONSTANTS
  Lines,        \* row ids of statement lines
  FeedLines,    \* those an Open Banking feed delivers; a file carries the rest
  NoTx          \* bank_transaction_id IS NULL

ASSUME LinesAssumption ==
  /\ FeedLines \subseteq Lines
  /\ NoTx \notin Txs

VARIABLE
  lines         \* the rows

ImportLines == Lines \ FeedLines

LineStatus == {"ABSENT", "NEW", "PROCESSING", "IMPORTED", "IGNORED", "DELETED"}

(***************************************************************************)
(* claim abstracts claimed_at: NULL, younger than staleClaim, or older.    *)
(* upstream is the bank's own version of a booked line, amount and posting *)
(* date together.  stamp is coded_at or auto_reconciled_at: a line gets at *)
(* most one of them, as each follows an attach and a line is attached once.*)
(***************************************************************************)
Row == [status   : LineStatus,
        tx       : Txs \cup {NoTx},
        claim    : {"none", "fresh", "stale"},
        amount   : Amounts \cup {NoAmount},
        upstream : Amounts \cup {NoAmount},
        removed  : BOOLEAN,
        stamp    : {"none", "coded", "auto"}]

LinesTypeOK ==
  /\ lines \in [Lines -> Row]
  /\ \A l \in Lines : lines[l].status # "ABSENT" => lines[l].amount \in Amounts

AbsentRow == [status |-> "ABSENT", tx |-> NoTx, claim |-> "none",
              amount |-> NoAmount, upstream |-> NoAmount,
              removed |-> FALSE, stamp |-> "none"]

\* As NewRow, for an INSERT that leaves the amount out.
BareRow(a) == [AbsentRow EXCEPT !.status = "NEW"]

NewRow(a) == [AbsentRow EXCEPT !.status = "NEW", !.amount = a]

LinesInit == lines = [l \in Lines |-> AbsentRow]

Exists(l)  == lines[l].status \notin {"ABSENT", "DELETED"}
InInbox(l) == lines[l].status \in {"NEW", "IGNORED"}
Booked(l)  == lines[l].status \in {"PROCESSING", "IMPORTED"}

----------------------------------------------------------------------------
(* The claim, and what ends it. *)

\* As Claimable, for a version of the query that ignores how old a claim is.
ClaimableAlways(l) == InInbox(l) \/ lines[l].status = "PROCESSING"

\* A claim may be taken by anyone when the line is in the inbox, and taken over
\* when it has been held for longer than staleClaim.
Claimable(l) ==
  \/ InInbox(l)
  \/ lines[l].status = "PROCESSING" /\ lines[l].claim = "stale"

ClaimLine(l) ==
  /\ Claimable(l)
  /\ lines' = [lines EXCEPT ![l].status = "PROCESSING", ![l].claim = "fresh"]

\* As AttachLine, closing the line without recording what it became.
AttachNothing(l, t) ==
  /\ lines[l].status = "PROCESSING"
  /\ lines' = [lines EXCEPT ![l].status = "IMPORTED", ![l].claim = "none"]

AttachLine(l, t) ==
  /\ lines[l].status = "PROCESSING"
  /\ lines' = [lines EXCEPT ![l].status = "IMPORTED", ![l].tx = t, ![l].claim = "none"]

\* As ReleaseLine, doing nothing: the failure path that forgets the line.
ForgetLine(l) == UNCHANGED lines

\* As ReleaseLine, without the test on the status.
ReleaseAnyLine(l) ==
  lines' = IF Exists(l)
           THEN [lines EXCEPT ![l].status = "NEW", ![l].claim = "none"]
           ELSE lines

\* Zero rows updated is not an error here.
ReleaseLine(l) ==
  lines' = IF lines[l].status = "PROCESSING"
           THEN [lines EXCEPT ![l].status = "NEW", ![l].claim = "none"]
           ELSE lines

\* Five minutes pass on a claim.
AgeClaim(l) ==
  /\ lines[l].claim = "fresh"
  /\ lines' = [lines EXCEPT ![l].claim = "stale"]

----------------------------------------------------------------------------
(* What the user does to a line from the list. *)

\* Ignore and unignore.  The claim time is left as it is.
SetLineStatus(l, s) ==
  /\ Exists(l)
  /\ lines[l].status # "IMPORTED"
  /\ lines' = [lines EXCEPT ![l].status = s]

DeleteLine(l) ==
  /\ Exists(l)
  /\ lines[l].tx = NoTx
  /\ lines[l].status # "IMPORTED"
  /\ lines' = [lines EXCEPT ![l].status = "DELETED"]

DismissUpstreamRemoval(l) ==
  /\ Exists(l)
  /\ lines' = [lines EXCEPT ![l].removed = FALSE]

\* MarkLinesCoded and MarkAutoReconciled stamp rows by id, whatever their status.
StampLines(S, s) ==
  lines' = [l \in Lines |-> IF l \in S /\ Exists(l)
                            THEN [lines[l] EXCEPT !.stamp = s]
                            ELSE lines[l]]

----------------------------------------------------------------------------
(* What the bank feed does to a line. *)

\* As UpsertStatementLine, writing the bank's version over a line of any status.
UpsertOverBooked(l, a) ==
  /\ l \in FeedLines
  /\ \/ /\ lines[l].status = "ABSENT"
        /\ lines' = [lines EXCEPT ![l] = NewRow(a)]
     \/ /\ Exists(l)
        /\ lines' = [lines EXCEPT ![l].amount = a, ![l].upstream = NoAmount,
                                  ![l].removed = FALSE]

\* A new row; or the bank's version written over a line still in the inbox; or,
\* once the line has been booked, parked beside it.
UpsertStatementLine(l, a) ==
  /\ l \in FeedLines
  /\ \/ /\ lines[l].status = "ABSENT"
        /\ lines' = [lines EXCEPT ![l] = NewRow(a)]
     \/ /\ InInbox(l)
        /\ lines' = [lines EXCEPT ![l].amount = a, ![l].upstream = NoAmount,
                                  ![l].removed = FALSE]
     \/ /\ Booked(l)
        /\ lines' = [lines EXCEPT ![l].upstream = a]

\* As ApplyRemovedLines, dropping a booked line too.
DropRemovedLine(l) ==
  /\ l \in FeedLines
  /\ Exists(l)
  /\ lines' = [lines EXCEPT ![l].status = "DELETED"]

\* The bank withdraws a line: dropped from the inbox, marked once booked.
ApplyRemovedLine(l) ==
  /\ l \in FeedLines
  /\ \/ InInbox(l) /\ lines' = [lines EXCEPT ![l].status = "DELETED"]
     \/ Booked(l) /\ lines' = [lines EXCEPT ![l].removed = TRUE]

----------------------------------------------------------------------------
(* What the import wizard does to the lines of a file. *)

\* CommitImport inserts the rows that are not duplicates, in one transaction.
InsertImportLines(amt) ==
  lines' = [l \in Lines |-> IF l \in DOMAIN amt THEN NewRow(amt[l]) ELSE lines[l]]

\* The DELETE of DeleteImport names the import and nothing else.
DeleteImportLines ==
  lines' = [l \in Lines |-> IF l \in ImportLines /\ Exists(l)
                            THEN [lines[l] EXCEPT !.status = "DELETED"]
                            ELSE lines[l]]
=============================================================================
