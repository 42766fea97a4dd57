----------------------------- MODULE Reconcile ------------------------------
(***************************************************************************)
(* The reconcile screen: HTTP handlers of                                  *)
(* internal/handlers/bank_statement.go and bank.go running concurrently on *)
(* the statement lines and the bank ledger, next to the bank feed and the  *)
(* import wizard.                                                          *)
(*                                                                         *)
(* A request is a handler between its first statement and its last.  Each  *)
(* of its steps is one database statement or transaction; what it read     *)
(* earlier it carries in its own record, where it may go stale.            *)
(*                                                                         *)
(*   create    CreateFromLine: read the line, then withClaimedLine         *)
(*   cash      CashCode: the same for every row of the grid                *)
(*   match     Match, ReconcileSelection: read and check the transactions, *)
(*             then withClaimedLine                                        *)
(*   transfer  Transfer: read the line, then withClaimedLine               *)
(*   auto      AutoReconcile: read the inbox, read the candidates, then    *)
(*             withClaimedLine for every pair that agrees                  *)
(*   undo      UndoImport: count the booked lines, then delete             *)
(***************************************************************************)
EXTENDS StatementLines

CONSTANTS
  Requests,     \* request handlers that may run at the same time
  Transfers,    \* row ids of bank transfers
  NoLine,
  Ops,          \* the requests clients send
  Edits,        \* the one-statement calls clients and the feed make
  MaxKills,     \* bound: requests that die half way
  ActOnClaimed, \* users ignore, delete or undo lines that are being processed
  Overrun       \* a live request may hold a claim for longer than staleClaim

AllOps   == {"create", "cash", "match", "transfer", "auto", "undo"}
AllEdits == {"ignore", "delete", "dismiss", "feed", "withdraw", "import",
             "newTx", "editTx", "deleteTx", "unreconcile"}

ASSUME ReconcileAssumption ==
  /\ Transfers \cap Txs = {}
  /\ NoTx \notin Transfers
  /\ NoLine \notin Lines
  /\ Ops \subseteq AllOps
  /\ Edits \subseteq AllEdits
  /\ MaxKills \in Nat
  /\ ActOnClaimed \in BOOLEAN
  /\ Overrun \in BOOLEAN

VARIABLES
  file,         \* status of the import the file's lines belong to
  req,          \* the running requests
  kills,        \* how many requests have died
  posted,       \* history: what each line has been posted as
  lost,         \* history: what requests posted and died before attaching
  abandoned     \* history: lines whose holder died

vars == <<lines, ledger, file, req, kills, posted, lost, abandoned>>

Postings == Txs \cup Transfers

Control == {"idle", "candidates", "rows", "check", "claim", "post", "attach",
            "stamp", "release", "delete"}

Request ==
  [op     : AllOps \cup {"none"},
   pc     : Control,
   line   : Lines \cup {NoLine},
   amount : Amounts \cup {NoAmount},                  \* the line's, when read
   sum    : Int,                                      \* of the checked selection
   link   : Txs \cup {NoTx},                          \* what attach will record
   made   : Postings \cup {NoTx},                     \* what this request posted
   sel    : SUBSET Txs,                               \* the selection
   left   : SUBSET Txs,                               \* still to check or reconcile
   todo   : SUBSET (Lines \X (Amounts \cup {NoAmount})), \* rows, inbox snapshot
   cands  : SUBSET (Txs \X Amounts),                  \* candidates snapshot
   done   : SUBSET Lines]                             \* rows to stamp as coded

Idle == [op |-> "none", pc |-> "idle", line |-> NoLine, amount |-> NoAmount,
         sum |-> 0, link |-> NoTx, made |-> NoTx, sel |-> {}, left |-> {},
         todo |-> {}, cands |-> {}, done |-> {}]

WorksOnLine(r) == req[r].pc \in {"check", "claim", "post", "attach", "release"}

TypeOK ==
  /\ LinesTypeOK
  /\ LedgerTypeOK
  /\ file \in {"STAGED", "IMPORTED", "DELETED"}
  /\ req \in [Requests -> Request]
  /\ \A r \in Requests : WorksOnLine(r) => /\ req[r].line \in Lines
                                           /\ req[r].amount \in Amounts
  /\ kills \in 0..MaxKills
  /\ posted \in [Lines -> SUBSET Postings]
  /\ lost \in SUBSET Postings
  /\ abandoned \in SUBSET Lines

Init ==
  /\ LinesInit
  /\ LedgerInit
  /\ file = "STAGED"
  /\ req = [r \in Requests |-> Idle]
  /\ kills = 0
  /\ posted = [l \in Lines |-> {}]
  /\ lost = {}
  /\ abandoned = {}

\* A request holds the claim of its line from ClaimLine to attach or release.
Holds(r, l) == req[r].pc \in {"post", "attach", "release"} /\ req[r].line = l

Held(l) == \E r \in Requests : Holds(r, l)

Loops(r) == req[r].op \in {"cash", "auto"}

history == <<kills, posted, lost, abandoned>>

----------------------------------------------------------------------------
(* Reading: what a handler looks at before it claims anything. *)

StartOnLine(r, op, l) ==
  /\ op \in Ops \cap {"create", "transfer"}
  /\ req[r].pc = "idle"
  /\ Exists(l)
  /\ req' = [req EXCEPT ![r] = [Idle EXCEPT !.op = op, !.pc = "claim",
                                            !.line = l, !.amount = lines[l].amount]]
  /\ UNCHANGED <<lines, ledger, file, history>>

\* The selection is a list without repetition; link is its first member.
StartMatch(r, l, S, first) ==
  /\ "match" \in Ops
  /\ req[r].pc = "idle"
  /\ Exists(l)
  /\ first \in S
  /\ req' = [req EXCEPT ![r] = [Idle EXCEPT !.op = "match", !.pc = "check",
                                            !.line = l, !.amount = lines[l].amount,
                                            !.link = first, !.sel = S, !.left = S]]
  /\ UNCHANGED <<lines, ledger, file, history>>

\* A selection is checked and reconciled from its first member on.
Turn(r, t) ==
  /\ t \in req[r].left
  /\ req[r].link \in req[r].left => t = req[r].link

\* What is left to do once t has been checked; the last one compares the sum
\* with the line as it was read.
Checked(r, t) ==
  LET sum  == req[r].sum + ledger[t].amount
      rest == req[r].left \ {t}
  IN IF rest # {} THEN [req[r] EXCEPT !.sum = sum, !.left = rest]
     ELSE IF sum = req[r].amount
     THEN [req[r] EXCEPT !.pc = "claim", !.sum = sum, !.left = req[r].sel]
     ELSE Idle

\* As CheckSelected, taking a transaction that is already reconciled.
CheckUnguarded(r, t) ==
  /\ req[r].pc = "check"
  /\ Turn(r, t)
  /\ req' = [req EXCEPT ![r] = IF TxExists(t) THEN Checked(r, t) ELSE Idle]
  /\ UNCHANGED <<lines, ledger, file, history>>

\* One GetByID of the selection.  A deleted transaction still has its row.
CheckSelected(r, t) ==
  /\ req[r].pc = "check"
  /\ Turn(r, t)
  /\ req' = [req EXCEPT ![r] = IF TxExists(t) /\ ~ledger[t].reconciled
                               THEN Checked(r, t) ELSE Idle]
  /\ UNCHANGED <<lines, ledger, file, history>>

StartCash(r, S) ==
  /\ "cash" \in Ops
  /\ req[r].pc = "idle"
  /\ S # {}
  /\ req' = [req EXCEPT ![r] = [Idle EXCEPT !.op = "cash", !.pc = "rows",
                                            !.todo = S \X {NoAmount}]]
  /\ UNCHANGED <<lines, ledger, file, history>>

\* The next row of the grid is read when its turn comes; a row that is gone
\* ends the request.
NextRow(r, l) ==
  /\ req[r].op = "cash" /\ req[r].pc = "rows"
  /\ <<l, NoAmount>> \in req[r].todo
  /\ req' = [req EXCEPT ![r] =
       IF Exists(l)
       THEN [req[r] EXCEPT !.pc = "claim", !.line = l, !.amount = lines[l].amount,
                           !.link = NoTx, !.made = NoTx, !.todo = @ \ {<<l, NoAmount>>}]
       ELSE Idle]
  /\ UNCHANGED <<lines, ledger, file, history>>

\* A row without an account code ends the request as well: the rows before it
\* stay coded, and none of them is stamped.
RefuseRow(r) ==
  /\ req[r].op = "cash" /\ req[r].pc = "rows" /\ req[r].todo # {}
  /\ req' = [req EXCEPT ![r] = Idle]
  /\ UNCHANGED <<lines, ledger, file, history>>

\* MarkLinesCoded, once every row has had its turn.
FinishCash(r) ==
  /\ req[r].op = "cash" /\ req[r].pc = "rows" /\ req[r].todo = {}
  /\ StampLines(req[r].done, "coded")
  /\ req' = [req EXCEPT ![r] = Idle]
  /\ UNCHANGED <<ledger, file, history>>

StartAuto(r) ==
  /\ "auto" \in Ops
  /\ req[r].pc = "idle"
  /\ req' = [req EXCEPT ![r] = [Idle EXCEPT !.op = "auto", !.pc = "candidates",
       !.todo = {<<l, lines[l].amount>> : l \in {k \in Lines : lines[k].status = "NEW"}}]]
  /\ UNCHANGED <<lines, ledger, file, history>>

\* The list of candidates is not narrowed to transactions that still stand.
ReadCandidates(r) ==
  /\ req[r].pc = "candidates"
  /\ req' = [req EXCEPT ![r].pc = "rows",
       ![r].cands = {<<t, ledger[t].amount>> :
                       t \in {u \in Txs : TxExists(u) /\ ~ledger[u].reconciled}}]
  /\ UNCHANGED <<lines, ledger, file, history>>

\* A line and a candidate agree; each line is taken up at most once.
NextPair(r, l, t, a) ==
  /\ req[r].op = "auto" /\ req[r].pc = "rows"
  /\ <<l, a>> \in req[r].todo
  /\ <<t, a>> \in req[r].cands
  /\ req' = [req EXCEPT ![r].pc = "claim", ![r].line = l, ![r].amount = a,
                        ![r].link = t, ![r].sel = {t}, ![r].left = {t},
                        ![r].todo = @ \ {<<l, a>>}]
  /\ UNCHANGED <<lines, ledger, file, history>>

\* No line of the snapshot agrees with an unused candidate any more.
FinishAuto(r) ==
  /\ req[r].op = "auto" /\ req[r].pc = "rows"
  /\ \A p \in req[r].todo, c \in req[r].cands : p[2] # c[2]
  /\ req' = [req EXCEPT ![r] = Idle]
  /\ UNCHANGED <<lines, ledger, file, history>>

----------------------------------------------------------------------------
(* withClaimedLine. *)

Claim(r) ==
  /\ req[r].pc = "claim"
  /\ ClaimLine(req[r].line)
  /\ req' = [req EXCEPT ![r].pc = "post"]
  /\ abandoned' = abandoned \ {req[r].line}
  /\ UNCHANGED <<ledger, file, kills, posted, lost>>

\* Zero rows: cash coding and auto-reconcile go on to their next row.
LoseClaim(r) ==
  /\ req[r].pc = "claim"
  /\ ~Claimable(req[r].line)
  /\ req' = [req EXCEPT ![r] = IF Loops(r) THEN [req[r] EXCEPT !.pc = "rows"] ELSE Idle]
  /\ UNCHANGED <<lines, ledger, file, history>>

\* createTransactionFromLine, with the amount the handler read.
PostTransaction(r, t) ==
  /\ req[r].op \in {"create", "cash"} /\ req[r].pc = "post"
  /\ CreateTx(t, req[r].amount, TRUE)
  /\ req' = [req EXCEPT ![r].pc = "attach", ![r].link = t, ![r].made = t]
  /\ posted' = [posted EXCEPT ![req[r].line] = @ \cup {t}]
  /\ UNCHANGED <<lines, file, kills, lost, abandoned>>

\* BankTransfers.Create posts both legs; the line will record no transaction.
PostTransfer(r, x) ==
  /\ req[r].op = "transfer" /\ req[r].pc = "post"
  /\ \A l \in Lines : x \notin posted[l]
  /\ req' = [req EXCEPT ![r].pc = "attach", ![r].made = x]
  /\ posted' = [posted EXCEPT ![req[r].line] = @ \cup {x}]
  /\ UNCHANGED <<lines, ledger, file, kills, lost, abandoned>>

ReconcileSelected(r, t) ==
  /\ req[r].op \in {"match", "auto"} /\ req[r].pc = "post"
  /\ Turn(r, t)
  /\ ReconcileTx(t, TRUE)
  /\ req' = [req EXCEPT ![r].left = @ \ {t},
                        ![r].pc = IF req[r].left = {t} THEN "attach" ELSE "post"]
  /\ UNCHANGED <<lines, file, history>>

\* The posting is refused, or its database transaction fails; what a selection
\* has already reconciled stays reconciled.
FailPosting(r) ==
  /\ req[r].pc = "post"
  /\ req' = [req EXCEPT ![r].pc = "release"]
  /\ UNCHANGED <<lines, ledger, file, history>>

\* After a successful attach: the next row, the stamp, or the answer.
Attached(r) ==
  CASE req[r].op = "cash" -> [req[r] EXCEPT !.pc = "rows", !.done = @ \cup {req[r].line},
                                            !.line = NoLine, !.link = NoTx, !.made = NoTx]
    [] req[r].op = "auto" -> [req[r] EXCEPT !.pc = "stamp",
                                            !.cands = {c \in @ : c[1] # req[r].link}]
    [] OTHER -> Idle

Attach(r) ==
  /\ req[r].pc = "attach"
  /\ AttachLine(req[r].line, req[r].link)
  /\ req' = [req EXCEPT ![r] = Attached(r)]
  /\ UNCHANGED <<ledger, file, history>>

\* Zero rows: the line is no longer being processed, and the request ends.
FailAttach(r) ==
  /\ req[r].pc = "attach"
  /\ lines[req[r].line].status # "PROCESSING"
  /\ req' = [req EXCEPT ![r] = Idle]
  /\ UNCHANGED <<lines, ledger, file, history>>

Release(r) ==
  /\ req[r].pc = "release"
  /\ ReleaseLine(req[r].line)
  /\ req' = [req EXCEPT ![r] = Idle]
  /\ UNCHANGED <<ledger, file, history>>

StampAuto(r) ==
  /\ req[r].pc = "stamp"
  /\ StampLines({req[r].line}, "auto")
  /\ req' = [req EXCEPT ![r].pc = "rows"]
  /\ UNCHANGED <<ledger, file, history>>

\* The process is killed, or the statement itself fails: nothing more is done.
Kill(r) ==
  /\ kills < MaxKills
  /\ req[r].pc # "idle"
  /\ req' = [req EXCEPT ![r] = Idle]
  /\ kills' = kills + 1
  /\ abandoned' = abandoned \cup {l \in Lines : Holds(r, l)}
  /\ lost' = IF req[r].pc = "attach" THEN lost \cup ({req[r].made} \ {NoTx}) ELSE lost
  /\ UNCHANGED <<lines, ledger, file, posted>>

----------------------------------------------------------------------------
(* UndoImport: a count and a delete, at READ COMMITTED, so the delete sees *)
(* what was committed after the count.                                     *)

StartUndo(r) ==
  /\ "undo" \in Ops
  /\ req[r].pc = "idle"
  /\ file # "DELETED"
  /\ \A l \in ImportLines : lines[l].status # "IMPORTED"
  /\ req' = [req EXCEPT ![r] = [Idle EXCEPT !.op = "undo", !.pc = "delete"]]
  /\ UNCHANGED <<lines, ledger, file, history>>

Touchable(l) == ActOnClaimed \/ lines[l].status # "PROCESSING"

UndoImport(r) ==
  /\ req[r].pc = "delete"
  /\ \A l \in ImportLines : Touchable(l)
  /\ IF file = "DELETED" THEN UNCHANGED <<lines, file>>
     ELSE DeleteImportLines /\ file' = "DELETED"
  /\ req' = [req EXCEPT ![r] = Idle]
  /\ UNCHANGED <<ledger, history>>

----------------------------------------------------------------------------
(* Calls that are one statement. *)

IgnoreOrUnignore(l, s) ==
  /\ "ignore" \in Edits
  /\ Touchable(l)
  /\ SetLineStatus(l, s)
  /\ UNCHANGED <<ledger, file, req, history>>

DeleteStatementLine(l) ==
  /\ "delete" \in Edits
  /\ Touchable(l)
  /\ DeleteLine(l)
  /\ UNCHANGED <<ledger, file, req, history>>

DismissUpstreamChange(l) ==
  /\ "dismiss" \in Edits
  /\ lines[l].removed
  /\ DismissUpstreamRemoval(l)
  /\ UNCHANGED <<ledger, file, req, history>>

FeedDelivers(l, a) ==
  /\ "feed" \in Edits
  /\ UpsertStatementLine(l, a)
  /\ UNCHANGED <<ledger, file, req, history>>

FeedWithdraws(l) ==
  /\ "withdraw" \in Edits
  /\ ApplyRemovedLine(l)
  /\ UNCHANGED <<ledger, file, req, history>>

CommitImport(S, amt) ==
  /\ "import" \in Edits
  /\ file = "STAGED"
  /\ file' = "IMPORTED"
  /\ InsertImportLines([l \in S |-> amt])
  /\ UNCHANGED <<ledger, req, history>>

\* A transaction typed in by hand, an adjustment, or Create with Reconcile off.
EnterTransaction(t, a, rec) ==
  /\ "newTx" \in Edits
  /\ CreateTx(t, a, rec)
  /\ UNCHANGED <<lines, file, req, history>>

EditTransaction(t, s, a, rec) ==
  /\ "editTx" \in Edits
  /\ UpdateTx(t, s, a, rec)
  /\ UNCHANGED <<lines, file, req, history>>

DeleteTransaction(t) ==
  /\ "deleteTx" \in Edits
  /\ DeleteTx(t)
  /\ UNCHANGED <<lines, file, req, history>>

\* The transaction's own reconcile endpoint leaves the statement line alone.
SetReconciled(t, rec) ==
  /\ "unreconcile" \in Edits
  /\ ReconcileTx(t, rec)
  /\ UNCHANGED <<lines, file, req, history>>

ClaimExpires(l) ==
  /\ lines[l].status = "PROCESSING"
  /\ Overrun \/ ~Held(l)
  /\ AgeClaim(l)
  /\ UNCHANGED <<ledger, file, req, history>>

----------------------------------------------------------------------------
(* The steps of a request that is under way. *)
Proceed(r) ==
  \/ \E t \in Txs : CheckSelected(r, t)
  \/ \E l \in Lines : NextRow(r, l)
  \/ RefuseRow(r)
  \/ FinishCash(r)
  \/ ReadCandidates(r)
  \/ \E l \in Lines, t \in Txs, a \in Amounts : NextPair(r, l, t, a)
  \/ FinishAuto(r)
  \/ Claim(r)
  \/ LoseClaim(r)
  \/ \E t \in Txs : PostTransaction(r, t)
  \/ \E x \in Transfers : PostTransfer(r, x)
  \/ \E t \in Txs : ReconcileSelected(r, t)
  \/ FailPosting(r)
  \/ Attach(r)
  \/ FailAttach(r)
  \/ Release(r)
  \/ StampAuto(r)
  \/ UndoImport(r)

Start(r) ==
  \/ \E op \in {"create", "transfer"}, l \in Lines : StartOnLine(r, op, l)
  \/ \E l \in Lines, S \in SUBSET Txs, t \in Txs : StartMatch(r, l, S, t)
  \/ \E S \in SUBSET Lines : StartCash(r, S)
  \/ StartAuto(r)
  \/ StartUndo(r)

Edit ==
  \/ \E l \in Lines, s \in {"NEW", "IGNORED"} : IgnoreOrUnignore(l, s)
  \/ \E l \in Lines : DeleteStatementLine(l)
  \/ \E l \in Lines : DismissUpstreamChange(l)
  \/ \E l \in Lines, a \in Amounts : FeedDelivers(l, a)
  \/ \E l \in Lines : FeedWithdraws(l)
  \/ \E S \in SUBSET ImportLines, a \in Amounts : CommitImport(S, a)
  \/ \E t \in Txs, a \in Amounts, rec \in BOOLEAN : EnterTransaction(t, a, rec)
  \/ \E t \in Txs, s \in {"AUTHORISED", "DELETED"}, a \in Amounts, rec \in BOOLEAN :
       EditTransaction(t, s, a, rec)
  \/ \E t \in Txs : DeleteTransaction(t)
  \/ \E t \in Txs, rec \in BOOLEAN : SetReconciled(t, rec)

Next ==
  \/ \E r \in Requests : Proceed(r)
  \/ \E r \in Requests : Start(r)
  \/ \E r \in Requests : Kill(r)
  \/ Edit
  \/ \E l \in Lines : ClaimExpires(l)

Spec == Init /\ [][Next]_vars

(***************************************************************************)
(* A handler that has started is run to its end by its goroutine unless it *)
(* is killed, and time passes.  No client is obliged to send anything.     *)
(***************************************************************************)
FairSpec ==
  /\ Spec
  /\ \A r \in Requests : WF_vars(Proceed(r))
  /\ \A l \in Lines : WF_vars(ClaimExpires(l))

----------------------------------------------------------------------------
(* Properties. *)

InBooks(l) == lines[l].status \in {"IMPORTED", "DELETED"}

\* A line points at a transaction only once it is in the books, the transaction
\* is there, and only such a line is reported as coded or auto-reconciled.
\* (AttachLineTransaction, MarkLinesCoded, MarkAutoReconciled)
LinksAreBooked ==
  \A l \in Lines :
    /\ lines[l].tx # NoTx => InBooks(l) /\ TxExists(lines[l].tx)
    /\ lines[l].stamp # "none" => InBooks(l)

\* A line that is being processed belongs to a request that is still running,
\* or to one that died: a failure never swallows a line.  (withClaimedLine)
NoStrandedLine ==
  \A l \in Lines : lines[l].status = "PROCESSING" => Held(l) \/ l \in abandoned

\* From the claim on, nothing rewrites the figures of a line, and once it is
\* booked nothing changes what it was booked as.  (upsertStatementLineSQL)
BookedFiguresFixed ==
  [][\A l \in Lines : Booked(l) /\ Booked(l)' =>
       /\ lines'[l].amount = lines[l].amount
       /\ lines[l].status = "IMPORTED" => lines'[l].tx = lines[l].tx]_vars

Place(l) ==
  CASE lines[l].status = "ABSENT"     -> "nowhere"
    [] InInbox(l)                     -> "inbox"
    [] lines[l].status = "PROCESSING" -> "claimed"
    [] lines[l].status = "IMPORTED"   -> "booked"
    [] lines[l].status = "DELETED"    -> "gone"

Book == INSTANCE LineBook WITH place <- [l \in Lines |-> Place(l)]

\* The inbox keeps the promise of LineBook whoever acts on it: a line is booked
\* from a claim only, and for good unless its file is undone.
KeepsLineBook == Book!Spec

\* Two requests never work inside the claim of one line.  (ClaimLine)
SingleHolder ==
  \A l \in Lines : \A r, q \in Requests : Holds(r, l) /\ Holds(q, l) => r = q

\* "exactly one caller can turn it into a transaction" (ClaimLine): a line is posted
\* once, leaving aside what a dead request posted.  It is so while users leave the
\* lines alone that are being processed, and not otherwise.
OneTransactionPerLine ==
  \A l \in Lines : \A p, q \in posted[l] \ lost : p = q

\* The posting p of line l is recorded on it, or about to be.
Recorded(l, p) ==
  \/ InBooks(l) /\ lines[l].tx = IF p \in Txs THEN p ELSE NoTx
  \/ \E r \in Requests : Holds(r, l) /\ req[r].pc = "attach" /\ req[r].made = p

\* A line is posted once, and its posting is the one the line records, or the request
\* that made it is about to record it, or it died first: no posting is left
\* behind that the inbox does not know of.  (withClaimedLine)
PostingsRecorded ==
  /\ OneTransactionPerLine
  /\ \A l \in Lines : \A p \in posted[l] \ lost : Recorded(l, p)

\* The transaction a line is linked to is marked reconciled, and one created out of
\* a line is never matched to another line.  (createTransactionFromLine against Match,
\* ReconcileSelection, autoReconcileAccount)
LinkedIsSettled ==
  \A l \in Lines : lines[l].tx # NoTx =>
    /\ ledger[lines[l].tx].reconciled
    /\ \A k \in Lines : lines[l].tx \in posted[k] => k = l

\* Every claim ends, or its holder has died.  (withClaimedLine)
ClaimsEnd ==
  \A l \in Lines :
    lines[l].status = "PROCESSING" ~> lines[l].status # "PROCESSING" \/ l \in abandoned

(* What comments and tests of the repository say, and the code does not do. *)

\* "a transaction that is already reconciled cannot be claimed by a second line"
\* (TestHTTP_BankStatementMatchRefusesBadPairs)
OneLinePerTransaction ==
  \A l, k \in Lines : lines[l].tx # NoTx /\ lines[l].tx = lines[k].tx => l = k

\* "Matching asserts that the line and the transaction are the same money", and
\* the notice of a change compares the bank's version with "what was booked"
\* (Match, upstreamChangeExpr): the transaction a line became carries the
\* line's own amount.
BookedAtLineAmount ==
  \A l \in Lines : lines[l].tx \in posted[l] => ledger[lines[l].tx].amount = lines[l].amount
=============================================================================
