# Verification of goXero

goXero is an accounting server in Go over PostgreSQL, with a Svelte client. This directory holds
TLA+ models of it, what TLC checks of them on small instances, and what TLAPS proves of them for
instances of every size.

Read in this order: *The system* (what there is), *The models* (what stands for what), *What is
checked*, *What is proved*, *Where the code and its comments disagree*, *What is not modelled*.

## The system

### How the program runs

One process. Each HTTP request is a goroutine; a ticker runs one more goroutine, the bank feed
sweep. Nothing is shared in memory: all state is in PostgreSQL, at READ COMMITTED, reached
through repositories. Three facts decide how everything here is modelled.

- A SQL statement is atomic, and an `UPDATE ... WHERE` re-checks its condition on the row it has
  locked. So a statement, or a database transaction that locks its rows first, is one step.
- A handler is several statements with nothing around them. Between two of them any other
  request, the sweep and the bank may act, and what the handler read earlier goes stale.
- A handler may end anywhere: a statement is refused, the client goes away, the process dies.

### Inventory

| Component | State it keeps | Operations | What is hard | What makes it correct | Module |
|---|---|---|---|---|---|
| **Statement lines** `repository/bank_statement.go`, `bank_feed.go` | `bank_statement_lines`: status NEW, PROCESSING, IMPORTED, IGNORED; claim time; linked transaction; the bank's later version; stamps | claim, attach, release, ignore, delete, dismiss, stamp, stage, withdraw, insert from a file, undo a file | claims that expire under a live holder; feed and user on one row | a booked line keeps its figures; a line is booked only from a claim; no line is lost | `StatementLines`, `LineBook` |
| **Reconcile screen** `handlers/bank_statement.go` | none of its own; what each request has read | create, cash coding, match, selection, transfer, automatic pass, bulk actions, undo | every check made before the claim is stale after it; a selection is reconciled one row at a time | one line is posted once, and the posting is recorded on it | `Reconcile` |
| **Bank ledger** `repository/bank_transaction.go`, `handlers/bank.go` | `bank_transactions`: status, amount, reconciled | create, update, delete, reconcile | edited from the ledger screen behind the line's back | the linked transaction exists and is reconciled | `BankLedger` |
| **Bank transfers** `repository/bank_transfer.go` | two linked transactions | create | the line records no transaction, so a second posting would go unnoticed | posted once | `Reconcile` |
| **Bank feed sync** `handlers/bank_feed.go`, `bankfeed/plaid.go` | `sync_cursor`, the staged lines | read what changed, stage, apply removals, save the cursor | failures and kills mid-batch, replays, two syncs at once | nothing the cursor has passed is missing; the cursor catches up | `FeedSync` |
| **Bank feed connections** `handlers/bank_feed.go`, `bank_feed_webhook.go` | status PENDING, LINKED, ERROR, REVOKED; session, item, secret; the account and its ledger account | create, finalize (client or webhook), repair, revoke, delete, sync, item webhooks, provision, bind | two completions of one session; revoked while syncing; two consents at one bank | LINKED has a consent; REVOKED stays so; one live connection per bank; one ledger account opened | `FeedConnections` |
| **Import wizard** `handlers/bank_statement.go` | import STAGED, IMPORTED, DELETED; parsed rows | parse, remap, commit, undo | undo against a line being booked; duplicates against the feed and another file | committed once; no print twice; undo takes its lines only | `StatementImports` |
| **Reconcile periods** | locked date ranges | lock, unlock | overlap is tested before the insert | locked ranges do not overlap | `ReconcilePeriods` |
| **Bank rules** `bankrules/`, `repository/bank_rule.go` | rules and their order | match, split, create, edit, delete, drag | two people dragging pages that are out of date | the first of the list decides; a split sums to the total | `BankRules` |
| **Invoices, payments, credit notes, advances, batches, manual journals** `repository/invoice.go`, `payment.go`, `credit_note.go`, `accounting_extras.go`, `manual_journal.go` | status; amounts due, paid, credited, remaining | create, edit, change status, delete, pay, void, allocate, batch | long legal sequences of edits and voids; an edit that carries a status it read earlier | due = total − paid − credited; a note is spent once; the journals follow the documents | `Documents`, `Subledger` |
| **General ledger posting** `repository/gl.go` | journals and their lines | post and unpost each kind of document | a document and its journal change together; rows round what was added up | every journal balances but for what its rows rounded; one per document | `Journals`, `LedgerBook` |
| **Conversion balances** `repository/conversion_balance.go` | the opening journal, its date and lock | open, save | two savers replacing one journal; the lock is read before | one journal, balanced, dated as the conversion | `ConversionBalances` |
| **Refresh tokens** `repository/refresh_token.go`, `handlers/auth.go` | token, sign-in, revoked, replaced by | sign in, rotate, sign out, sign out everywhere | two rotations of one token; a wipe racing a rotation | one live token per sign-in | `Sessions`, `SignInBook` |
| **Ledger reports** `repository/report.go`, `handlers/report_render.go` | none (read only) | trial balance, profit and loss, balance sheet, general ledger detail, bank and executive summary | signs by account type, types no report knows, windows that meet, two statements of one report | the statements agree with each other | `LedgerReports` |
| **Aged reports** | none | aged receivables and payables, with drill-down and expense claims | band boundaries, missing dates, same names | the columns sum to what is owed | `AgedReports` |
| **Cash summary** | none | attribution of cash to accounts through documents | shares, rounding, tax, control accounts | what is attributed is what moved | `CashSummary` |
| **Form 1120** `repository/form1120.go` | the organisation's placements | the return of a year | precedence of placements, lines computed from lines | income ties to M-1, assets to liabilities | `Form1120` |
| File parsers, coding history | none (pure) | — | — | — | — |
| Chart of accounts, contacts, items, tracking, currencies, quotes, purchase orders, attachments | rows | CRUD in single statements | — | foreign keys | — |
| Router, configuration, HTTP clients, signatures, frontend | — | wiring, I/O, cryptography | — | — | — |

### How the components meet

The **sync** stages lines (`storeLine`), withdraws them (`ApplyRemovedLines`) and then calls the
**reconcile screen**'s automatic pass; its end writes the status of its **connection**. The
**import wizard** inserts lines and, for an automatic account, calls the same pass. The screen
turns a line into a row of the **bank ledger** (or a **transfer**), which writes its journal to
the **general ledger** in the same database transaction, as every **document** does. The ledger
screen changes bank transactions without telling the line. The claim on the line (`ClaimLine`,
`withClaimedLine`) is the only guard among all of these. The **reports** read the general ledger
and, for what is owed and for cash, the documents as well; the **conversion balances** are one
more journal in it.

## The models

```
BankLedger <- StatementLines <- Reconcile          LineBook (abstract, implemented by Reconcile)
Journals <- Documents <- Subledger                 LedgerBook (abstract, implemented by Documents)
Sessions                                           SignInBook (abstract, implemented by Sessions)
Figures <- LedgerReports <- CashSummary, Form1120  Figures <- AgedReports
FeedSync  FeedConnections  ConversionBalances  StatementImports  ReconcilePeriods  BankRules
```

An operator marked *faulty* beside a definition is that definition with one plausible mistake in
it; nothing uses it but the mutation of the model that shows a property can fail.

### Reconciling: `BankLedger`, `StatementLines`, `LineBook`, `Reconcile`

`BankLedger` is the table `bank_transactions`: the variable `ledger`, and one operator for each of
Create, Update, Delete and Reconcile. Type and total are one signed amount, the way
`sameDirection` reads them; the journal is not a variable because it is written in the same
database transaction as the row.

`StatementLines` extends it with `bank_statement_lines`: the variable `lines` and one operator for
each SQL statement that changes the table. `claim` abstracts `claimed_at` to none, younger, or
older than `staleClaim`. A row is never reused, as in the database: a line delivered again after
it was deleted is a new row.

`Reconcile` is the handlers. `req[r]` is one running request: which handler (`op`), where it is
(`pc`), and what it has read and carries along. Its actions:

| Action | Code |
|---|---|
| `StartOnLine`, `StartMatch`, `CheckSelected`, `StartCash`, `NextRow`, `RefuseRow`, `StartAuto`, `ReadCandidates`, `NextPair`, `FinishAuto` | what each handler reads and refuses before it claims |
| `Claim`, `LoseClaim` | `ClaimLine`: one row back, or none |
| `PostTransaction`, `PostTransfer`, `ReconcileSelected`, `FailPosting` | the work inside `withClaimedLine` |
| `Attach`, `FailAttach`, `Release` | the two ends of `withClaimedLine` |
| `StampAuto`, `FinishCash` | `MarkAutoReconciled`, `MarkLinesCoded` |
| `StartUndo`, `UndoImport` | the count and the delete of `DeleteImport` |
| `IgnoreOrUnignore`, `DeleteStatementLine`, `DismissUpstreamChange`, `EnterTransaction`, `EditTransaction`, `DeleteTransaction`, `SetReconciled` | calls that are one statement |
| `FeedDelivers`, `FeedWithdraws`, `CommitImport` | lines arriving and leaving |
| `Kill`, `ClaimExpires` | the process dies; five minutes pass |

`posted`, `lost` and `abandoned` are history variables: what each line was posted as, what a dead
request posted without recording it, and which lines a dead request held.

Two constants say what users and the clock do, so that a property can name what it depends on.
`ActOnClaimed`: users ignore, delete or undo lines that are being processed. `Overrun`: a live
request may outlast `staleClaim`. `Ops` and `Edits` choose which requests a run sends.

`LineBook` is the abstract specification: where a line is (nowhere, inbox, claimed, booked, gone)
and the only ways it may move. `Reconcile` implements it under the map `Place`.

### Syncing: `FeedSync`

One incremental connection. The bank is external: `bank[m][x]` is what it says of transaction `x`
at moment `m`, with a version and whether it is removed; `BankMoves` adds, restates or removes
one. A version is the number of the moment that issued it, which abstracts amount, date and text
together. `cursor` is a moment.

| Action | Code |
|---|---|
| `StartSync` | `GetConnection` reads the cursor (Sync button or sweep) |
| `Fetch` | `Plaid.SyncConnection`: the pages from that cursor up to some later point, because the paging may stop at its limit or the answer may be delayed |
| `StoreLine`, `StoredAll` | the loop over `storeLine`; `Upserted` is the upsert's three rules |
| `ApplyRemoved` | `ApplyRemovedLines`: drop from the inbox, mark when taken |
| `Advance` | `SetSyncCursor`, unless the cursor is the one the sync began with |
| `FailSync` | an error or a kill anywhere; a failed sync leaves the cursor alone |
| `ClaimLine`, `AttachLine`, `ReleaseLine`, `DeleteLine`, `DismissUpstreamRemoval` | what `Reconcile` does to one line, with no request records |

A line is identified by the provider's transaction id, as the upsert identifies it, so here a
deleted line that comes back is the same identity again. `answered` remembers what the user
discarded or dismissed, for which the bank's word is no longer owed; `overlapped`, that two syncs
have run at once.

Assumed of the provider, as `plaid.go` relies on it: an answer lists, in its latest version, every
transaction changed between its two cursors; a removed id stays removed (its replacement arrives
under a fresh one); an answer that has something to report moves the cursor.

`FeedSync` and `Reconcile` meet in the lines. They are kept apart because their questions are
different: `Reconcile` lets the feed deliver anything at any time, more than any sequence of syncs
can; `FeedSync` lets the user take and give back a line at any time, more than any request can.

### Connecting a bank: `FeedConnections`

Connection rows (`conn`), the account found under each and the ledger account opened for it
(`account`), the tasks under way (`task[t]`: a request, a webhook delivery or the sweep, with its
next step and what it read), and the provider's side: consent sessions (`link`) and durable
consents (`item`). A task's steps are single statements and single calls to the provider, so two
completions of one session, a repair and a sync interleave everywhere; `Abandon` is a task that
dies.

| Actions | Code |
|---|---|
| `CheckBank`, `InsertConnection`, `OpenSession`, `SessionRefused` | `Create`: the duplicate test, the insert, the link token |
| `Approve`, `Break`, `RevokeAtBank` | external: the user at the bank, the consent's later life |
| `ReadForFinalize`, `SessionFinished`, `Exchange`, `NotFinished`, `CompletionFails`, `RefuseDuplicate`, `KeepAccount`, `ProvisionConsent`, `StoreConsent`, `MarkLinked` | finalize, by the browser and by the SESSION_FINISHED webhook alike |
| `ReadForRepair`, `Reopen`, `CompleteRepair` | reconnect in update mode |
| `ReadForSync`, `ListForSweep`, `ReadSwept`, `ProvisionMissing`, `Pull`, `SyncDone`, `SyncBroken` | the frame of a sync: what it reads first and which status it writes last |
| `ReadForDelete`, `GiveUp`, `Drop` | delete: revoke at the provider, then the row |
| `BindAccount`, `ItemError`, `ItemRevoked` | the bind screen and the item webhooks |

History variables name the races that the code does not exclude: `raced` (two tasks past the
duplicate test), `revived` (a sync wrote LINKED over another status), `crossed` (a task was under
way when the revocation was told). Each property says which of them it excepts.

### Documents and the ledger: `Journals`, `Documents`, `Subledger`

`Journals` is `gl.go`: the journal of each kind of document, as what it moves on the accounts the
properties tell apart (bank, debtors, creditors, sales tax, everything coded). A document is the
sum of its line amounts and the sum of its taxes; `documentLineNet` is linear in both. The columns
are NUMERIC(18,4) and a line amount is quantity times price less a discount, so figures count the
fourth decimal, and `lost` is by how much the rows of the lines, each rounded by itself, exceed or
fall short of the sum that the total was taken of (`Rows`). Creating and editing post the figures as
they were sent, approving posts what `loadInvoiceTx` reads back, and the rows of every journal are
the rounded ones: `Post` and `Repost` take what `insertJournal` adds up and what the ledger keeps.

`Documents` is the tables: `inv`, `note`, `alloc`, `pay`, `adv`, `man`, and `gl[s]`, the journals
whose source is document `s`. Each operation is one database transaction, hence one action, and
re-posts the journal the way the code does. The exception is an edit: `ReadInvoice` and `ReadNote`
read the status in a statement of their own, and `UpdateInvoice` and `UpdateNote` write it back
later. Payments, the payments of a batch, advances and manual journals get the status the client
names, any text (`PaymentSent`, `OtherSent`); a payment is applied and posted whatever it is, and
`undone` records that `Void` has taken it back, which its status alone does not tell. `odd` is a
history variable of the unusual things users have done: declared a document paid, paid a draft,
overpaid, refunded, edited what had been credited, re-issued a note that was allocated, dropped what
had been paid, voided a batched payment. A property of the figures says which of them it does not
survive, and holds through every order of all the others.

`LedgerBook` is the abstract specification of posting: each document has one journal or none, of
those the ledger takes (balanced, or off by what the rows of a document lost), the documents of one
kind (`Fixed`: payments, advances, manual journals) are entered once and
never rewritten, and what is closed leaves the ledger for good. `Documents` implements it: the
entry of a document is `gl[s]`, and `Closed` says which documents are closed. An invoice is never
among them, because a payment can bring a voided one back (below).

`Subledger` states what the figures kept on documents and the ledger promise each other.

### Reports: `Figures`, `LedgerReports`, `AgedReports`, `CashSummary`, `Form1120`

A report is an operator on the ledger, written from its SQL and from the renderer, and its
properties are about every window the constants give. `Figures` has the two things they all take
from SQL, SUM and ORDER BY. The state is what it reads: `journals` (a function from ids to lines and
a day, each line with what rounding took off it), `bills` and `claim` for the aged reports,
`cashbook`, `payments` and `allocations` for the cash summary. General ledger detail takes two
statements, so it is a reader with a step for each, and journals come and go between them. The type
of an account is any text: `Unclassed` are the accounts whose type is none of the nineteen that the
reports know.

`CashSummary` keeps the five ways of the code to attribute cash: documents paid, notes allocated,
claims, direct lines, and what is left on the control. `Form1120` has the placement of accounts
(the organisation's own, then the type's), the twelve formulas in their order, and the two
columns of the form.

### The rest

`Sessions`: refresh tokens; `BeginRotate` and `CommitRotate` are the transaction that locks the old
row, `BeginWipe` and `EndWipe` the one statement of `RevokeAllForUser`, which sees what is live
when it starts and then waits for locked rows. `SignInBook` is the abstract specification: what
works in each sign-in, and which names have been used; `Working(s)` is the set of tokens of a
sign-in that work. `ConversionBalances`: the screen reads the lock, the
save locks the organisation, deletes and inserts. `StatementImports`: stage, map again, commit and
undo, each in its statements, over rows kept as their duplicate fingerprints. `ReconcilePeriods`:
count, then insert. `BankRules`: what a rule matches (texts are sequences of words, already
folded), how it splits, what is refused, and `Reorder`, one row at a time under row locks.

`MCOffice` puts the parts that share no table side by side. A behaviour of `OfficeSpec` starts with
all of them in their initial states and runs one of them, which it chooses, while the others rest.

## What is checked

Passing runs. Deadlock is not checked in any: no client has to send anything and every bounded
history ends.

| Run | Instance | Properties |
|---|---|---|
| `calm` | two lines, one transaction, one transfer, two requests of all five kinds, one kill; feed and hand-entered transactions; claimed lines left alone, no overrun | `SingleHolder`, `PostingsRecorded`, `LinkedIsSettled` |
| `crowd` | one line, two amounts, two transactions, two requests, ignore, delete, dismiss, a restating and withdrawing feed, overrun | `BookedFiguresFixed` |
| `file` | a feed line and a file line, cash coding, import and undo, ignore, delete, overrun | `TypeOK`, `LinksAreBooked`, `KeepsLineBook` |
| `ends` | one line, two requests, one kill, every edit of the ledger, overrun, with fairness | `NoStrandedLine`, `ClaimsEnd` |
| `mirror` | two transactions, two moments, two syncs that may overlap, one failure, with fairness | `TypeOK`, `CursorCovers`, `CatchesUp` |
| `books` | an invoice or bill, a credit note, two payments, an advance, a manual journal, a user whose edit is under way; tax added, included and absent, one document whose rows lose a unit; payments sent as AUTHORISED or VOIDED, the others as DRAFT, AUTHORISED, POSTED or DELETED | `TypeOK`, `JournalOfItsDocument`, `OffByRoundingOnly`, `ApprovedIsPostedInOrder`, `SettledAsRecorded`, `CreditIsSpentOnce`, `DueIsWhatIsLeft`, `ControlAgrees`, `KeepsLedgerBook` |
| `office` | the nine parts that share no table (below), each by itself | `OfficeTypeOK` and the eighteen properties of these parts |

Runs that TLC must find violated, one finding each (below): `twice`, `shared`, `figure`,
`overlap`, `movement`.

### What the properties say

Of the reconcile screen:

- `SingleHolder`: the claim is mutual exclusion. `PostingsRecorded`: a line becomes one transaction,
  leaving aside what a killed request had posted, and whatever was posted for a line is what the line
  records, or its request is about to record it.
  Together they say that neither a double click nor a race leaves a posting
  nobody knows of. They hold while nobody acts on a claimed line and no claim is overrun;
  `twice` shows that they need the first condition.
- `LinkedIsSettled`: the transaction a line points at carries the reconciled flag, and one created
  out of a line is never matched to another, although a selection is reconciled one row at a time
  and its checks are older than the claim.
- `LinksAreBooked`: a link, or a stamp saying who coded the line, belongs to a booked line.
- `BookedFiguresFixed`: no step rewrites the amount of a claimed or booked line, nor what an
  imported line was booked as. This is the promise of the upsert, whose test of the status is in
  the statement that writes.
- `KeepsLineBook`: the screen implements `LineBook`, whoever does what.
- `NoStrandedLine`, `ClaimsEnd`: a line in PROCESSING has a live holder, or its holder died; and
  every claim ends.

Of the sync: `CursorCovers`: for everything up to the cursor, the lines show the bank's version or
a later one, on the line or in the notice beside a coded line, and what was removed is gone from
the inbox or marked. Failures, replays and users do not break it; overlapping syncs do.
`CatchesUp`: once the bank is quiet the cursor reaches its last word, though syncs fail and set
the cursor back.

Of the documents: `JournalOfItsDocument`: each document is in the ledger at most once, only while
it is in force (a payment: until it is taken back, under whatever status it was sent), with the
figures its rows have now, also after an edit that wrote back a stale status.
`OffByRoundingOnly`: rounding is all that keeps a document and the ledger apart. What a client sends
is never refused as unbalanced, whatever its tax and whether or not the chart has an account for it;
an approval is refused exactly when the rows of the lines lost something; and a journal in the
ledger is off by what they lost, with the sign of its document.
`ApprovedIsPostedInOrder`: nothing in force is missing from the ledger. `SettledAsRecorded`,
`CreditIsSpentOnce`, `DueIsWhatIsLeft`: paid is the sum of the payments recorded and not taken back,
whatever status they were sent with, credited what
the notes say they gave, a note gives no more than its total, and what is due is the rest.
`ControlAgrees`: debtors and creditors in the ledger are what the documents say is owed.
`KeepsLedgerBook`: the documents and what they post implement `LedgerBook`. An edit with a stale status
may rewrite a journal or withdraw it, but nothing posts a second one, rewrites what is fixed, or brings
a payment that was taken back, a voided note or a deleted manual journal back into the ledger.

Of the office:

- `LinkedHasConsent`, `OneAccountOpened`, `OneLivePerBank`, `RevokedStaysDown`, `LoserLeavesLinked`:
  a connection works only with a consent of its own; two completions, a repair and a sync open one
  ledger account between them; one live connection per bank; a revoked connection stays down; the
  completion that loses a race does not break what the winner made. The last one is an action
  property.
- `KeepsSignInBook`: the tokens implement `SignInBook`, so no interleaving of refreshes and sign-outs
  leaves two working tokens of one sign-in, a new token takes over from the one that works and from no
  other, and a sign-in that has ended has no token again, although a wipe does not see a successor that
  is not yet committed. `OneConversionJournal`: one opening journal, balanced, of the right date, and a locked
  one replaced only by who may. `CommittedOnce`, `NothingTwice`, `BookedLinesKept`: the wizard.
  `PeriodsApart`: locked periods. `FirstAskedWins`: the list saved last decides. `SplitsFoot`: a split
  sums to the total, for every total and whatever was fixed before, and no line, the last one
  included, is further from what it asks for than the roundings and the forgiven tenth add up to.
- `StatementsAgree`: the trial balance foots, the balance sheet balances in both columns, the year's
  profit is what the sheet retains, and the bank and executive summaries lead from one balance
  to the next, for every window, but for exactly two things (`SheetGap`): the accounts of types no
  report knows, which the trial balance prints in a section of their own and the balance sheet and
  the profit and loss drop, and what rounding took off the lines. `LedgerDetailFoots`: the running balance is the account's balance
  on each day, unless a journal came or went between its two statements. `Form1120Ties`: the return
  ties to the books but for the accounts listed as having no line and for what the balance sheet is
  itself off by. `AgedAgree` and `CashFoots` are the like for the other two modules.

Several of these except a race or an act that the code does not prevent, through a history variable
that marks it, and speak of every other order: `PostingsRecorded` what a killed request had posted,
`BookedLinesKept` a line booked during an undo, `PeriodsApart` two requests that locked at once,
`OneLivePerBank` and `RevokedStaysDown` the races named above, `NothingTwice` two files compared at
once, `LedgerDetailFoots` a journal between its two statements, and the figures of documents the
kinds in `odd`. Three things that can go wrong are covered by no property, because the code lets
them happen and nothing later repairs them: transactions of a selection that failed half way stay
reconciled with no line; rows that were coded before a cash-coding request failed stay without
their stamp; and a line stays IMPORTED when its transaction is un-reconciled, edited or deleted from
the ledger screen. The models have these steps, and the other properties hold in spite of them.

### Why the bounds are enough

*Reconcile.* The properties of a line speak of one line and two requests, or of two lines and one
transaction. So two requests suffice for every race on a claim, and two lines for every race on a
transaction; a third adds no kind of step. Two amounts are one that was read and one that has
replaced it. One kill or failure puts a crash at every point of every handler; a second one would
meet a state that is again one of those. `calm` uses one amount because its properties do not
look at amounts; `crowd` and `figure` do.

*Sync.* Two transactions put a failure between two lines of one batch, and two moments are a line
and its restatement or removal, delivered together or apart.

*Books.* One invoice with two payments and one note has every interplay of paying, crediting,
voiding and editing; the properties are stated per document, and the control accounts are sums of
what each document moves. The statuses of payments are the two that `Void` tells apart, those of the
others the ones their handlers tell apart; any other text acts as one of them. One body loses a unit
to rounding and the others none; the payments are interchangeable, and the run uses their symmetry.
`MaxOdd`: two kinds of unusual events in a history (pairs are what makes a figure wrong twice), one
less while the note and the invoice are of opposite types (`Mixed`). `MaxCredit` (two units) bounds
what is credited. `Apart` keeps an advance or a manual journal from being multiplied with the
invoices: they share no row.

*Office.* The nine parts share no table, so a behaviour is one of one of them and the others rest:
the run is nine runs, with one constraint. `Few` allows one fault at a time among the connections (a
race, a revival, an unbound account, a deletion, news of a consent, a connection that does not know
its bank yet) and one among the imports. Two connections at one bank with two tasks are the races
the duplicate test is about; an account bound by hand and news of a consent are followed while there
is one connection. `FewPosted` tries every account type in one journal, and the journals with three
lines or with two bank lines beside it; `FewCash` posts the later of two journals second, as the
cash summary takes them in no order; `FewRules` edits one rule while no list is open, deletes one,
and lets two lists of all three rules meet while none is deleted, or two shorter ones at any time.
The chart has one account of each of the types, so a type treated on the wrong side shows, and one
of a type outside the enum (`PERSONAL`), which no class has; one journal of three lines is a unit
off after its rows were rounded. Days 0 and 1 against the as-at days 31, 61, 91 and 121 put an
invoice on either side of every band of the aged reports; day 10 against day 4 is not due yet.
Percentages are in tenths, so that thirds (333, 333, 333 of a thousand) leave a residue.

Requests, lines, transactions and transfers are interchangeable, so the safety runs of the screen
use symmetry; the runs with liveness do not. In `office` the symmetric sets share their model
values, which keeps the group of permutations small.

### Fairness

`WF Proceed(r)`: a handler that has started is carried on by its goroutine unless it is killed.
`WF ClaimExpires(l)`: time passes. `WF Proceed(s)`: the same for a sync. `WF StartSync(s)`: the
scheduler's ticker (`StartSyncScheduler`), with a positive interval and a connection that stays
LINKED; without the scheduler a connection is synced only when someone presses the button, and
`CatchesUp` claims nothing. No fairness is assumed of clients, of the bank, or of kills. Weak
fairness is enough because a started handler stays able to move. The other parts promise nothing
that must happen: each of their requests answers in a few statements and leaves nothing to do.

## What is proved

TLAPS checks these for every value of the constants, under the `ASSUME`s of the modules, which
only say that the identifiers of different kinds are different, that amounts are integers, that
bounds and the figures of rules are whole numbers, and that tables are finite.

| Theorem | Module | Statement | Argument |
|---|---|---|---|
| `TypeCorrect` | `ReconcileProofs` | `Spec => []TypeOK` | one lemma per SQL statement, then per handler step |
| `FiguresFixed` | `ReconcileProofs` | `Spec => BookedFiguresFixed` | from `TypeOK`, case by case over the steps |
| `LineBookKept` | `ReconcileProofs` | `Spec => KeepsLineBook` | a refinement: each step is a step of `LineBook` or a stutter. Needs `FileFirst`: before the commit no file line exists, so `CommitImport` is an arrival |
| `NoLineStranded` | `ReconcileProofs` | `Spec => []NoStrandedLine` | inductive beside `TypeOK` |
| `ClaimExclusive` | `ReconcileProofs` | `Spec => []SingleHolder`, if `~ActOnClaimed` and `~Overrun` | `ClaimInv` |
| `LinksBooked` | `ReconcileProofs` | `Spec => []LinksAreBooked` | `LinksInv` |
| `PostedAtMostOnce`, `PostingsAreRecorded` | `ReconcileProofs` | `Spec => []OneTransactionPerLine`, `Spec => []PostingsRecorded`, if `~ActOnClaimed` and `~Overrun` | `ClaimInv`, `LinksInv` and `PostedInv` |
| `LinkedSettled` | `ReconcileProofs` | `Spec => []LinkedIsSettled`, if transactions are neither edited nor marked unreconciled by hand (`"editTx"`, `"unreconcile"` not in `Edits`) | `SettledInv`, with `LinksInv` |
| `SyncTypeCorrect` | `FeedSyncProofs` | `Spec => []TypeOK` | per step |
| `CursorSound` | `FeedSyncProofs` | `Spec => []CursorCovers` | `IInv` |
| `DocumentTypes` | `DocumentsProofs` | `Spec => []TypeOK` | what each handler writes, then per step |
| `RoundingIsAll` | `DocumentsProofs` | `Spec => []OffByRoundingOnly` | `Totalled`, `LedgerInv` and `AdvancesInv`, with `LinesBalance` for each treatment of tax |
| `JournalIsOfDocument`, `ApprovedIsPosted` | `DocumentsProofs` | `Spec => []JournalOfItsDocument`, `Spec => []ApprovedIsPostedInOrder` | `LedgerInv` |
| `LedgerBookKept` | `DocumentsProofs` | `Spec => KeepsLedgerBook` | a refinement, from `BookInv` |
| `SettledIsRecorded` | `SubledgerProofs` | `Spec => []SettledAsRecorded` | `Settled` |
| `CreditSpentOnce` | `SubledgerProofs` | `Spec => []CreditIsSpentOnce` | `Spending` |
| `DueIsLeft` | `SubledgerProofs` | `Spec => []DueIsWhatIsLeft` | `Leaving`, with `Settled` and `Receipts` |
| `ControlAccountsAgree` | `SubledgerProofs` | `Spec => []ControlAgrees` | `Control`, with `Tidy` and all of the above |
| `ConnTypes` | `FeedConnectionsProofs` | `ConnSpec => []ConnTypeOK` | `ConnFit` |
| `OneAccount` | `FeedConnectionsProofs` | `ConnSpec => []OneAccountOpened` | `OpenedOnce` |
| `Revocation` | `FeedConnectionsProofs` | `ConnSpec => []RevokedStaysDown` | `Down` |
| `Consent`, `OnePerBank`, `Loser` | `FeedConnectionsProofs` | `ConnSpec => []LinkedHasConsent`, `ConnSpec => []OneLivePerBank`, `ConnSpec => LoserLeavesLinked` | `ConnInv` |
| `PeriodsStayApart` | `OfficeProofs` | `PeriodsSpec => []PeriodsApart` | below |
| `SignInsHaveOneToken` | `OfficeProofs` | `SessionsSpec => []OneLivePerSignIn` | below |
| `SignInBookKept` | `OfficeProofs` | `SessionsSpec => KeepsSignInBook` | a refinement, from `SessionsInv` |
| `ImportedOnce`, `PrintsComeInOnce`, `UndoSparesBooked` | `OfficeProofs` | `ImportsSpec => []CommittedOnce`, `ImportsSpec => []NothingTwice`, `ImportsSpec => BookedLinesKept` | `ImportsInv` |
| `OneOpeningJournal` | `OfficeProofs` | `ConversionSpec => []OneConversionJournal` | `ConversionInv` |
| `ListDecides` | `OfficeProofs` | `RulesSpec => []FirstAskedWins` | `RulesInv` |
| `SplitsAlwaysFoot` | `OfficeProofs` | `RulesSpec => []SplitsFoot` | `AllocateFoots`, `SharesFoot` |
| `OfficeParts`, `OfficeTypes` | `OfficeProofs` | `OfficeSpec` implies the specification of each part; `OfficeSpec => []OfficeTypeOK` | a step of one part leaves the variables of the others alone |
| `ReportsAgree` | `ReportsProofs` | `ReportsSpec => []StatementsAgree` | `Ledger` |
| `FormTies` | `ReportsProofs` | `ReportsSpec => []Form1120Ties` | `Ledger` |
| `LedgerDetailAgrees` | `ReportsProofs` | `ReportsSpec => []LedgerDetailFoots` | `ReaderInv`, with `Ledger` |
| `AgedReportsAgree` | `ReportsProofs` | `AgedSpec => []AgedAgree` | `AgedInv` |
| `CashReportFoots` | `ReportsProofs` | `CashSpec => []CashFoots` | `CashInv` |

**Why `ClaimInv`.** `SingleHolder` is not inductive: it does not exclude that the line a request
holds is claimable by another. `ClaimInv` adds that a held line is in PROCESSING with a fresh
claim. Then `Claim` is disabled for everyone else, attach and release end the hold and the status
together, and the two conditions exclude the two steps that would take the status or the
freshness away from a live holder. The theorem carries them as assumptions; `twice` shows that the
first cannot be dropped, and an overrun claim is taken over by design.

**Why `LinksInv`.** What an attach writes was chosen long before, by the steps that read. `Ready(r)`
follows it: the link a request carries is a transaction that is there (created by it, checked by
it, or taken from its list of candidates), the lines it has still to stamp are in the books, and
what it has posted is what it will link. No step of another request undoes that, because rows of
the ledger stay (`RowsStay`) and so do lines in the books with what they record (`BooksStay`).
This holds with overrun claims and edits of claimed lines as well.

**Why `PostedInv`.** `OneTransactionPerLine` does not say who knows of a posting. `PostedInv` says that until a
line is in the books every posting made for it is in the hands of a request that holds the line
and is about to attach it, and that from then on there is at most one, the one the line records.
`ClaimInv` makes that holder unique and rules out `FailAttach`; the `Ready` of the holder makes the
link the posting.

**Why `SettledInv`.** An attach links what was selected several steps earlier. `Clear(r)` follows the
selection: a candidate or a checked transaction was not yet reconciled when it was looked at, and a
transaction made out of a line is created reconciled (`OwnPostings`), so it was not made out of a
line; from then on it is there, so no request can create it (`Unposted`). While a request is
posting, what has left `left` is settled, and at the attach all of the selection is. The other way to
a link is to have posted it on the same line. `Steady` is what other requests cannot undo, and
needs the two conditions: only an edit and the transaction's own reconcile endpoint take the flag away.
Nothing is assumed of claims: they may be overrun, claimed lines edited or deleted and
requests killed. Two lines may still be linked to one transaction (`shared`); both links are settled.

**Why `IInv`.** `CursorCovers` says nothing of a sync that is half way, yet `Advance` moves the
cursor on the strength of what that sync has done. `IInv` adds four things. `BankInv`: the bank's
versions only grow, an unchanged version is an unchanged view, and a removal is final. `FetchInv`:
the lines a sync holds were restated between its two cursors, and it has none left once it
applies removals. `Alone`: without overlap one sync runs, and the cursor is still the one it read.
`Progressed`: what it fetched is still in its hands, still to be removed, or accounted for at the
point it read to. Each step of a sync then moves a line from one of these to the next, and a
stored line that covers the new cursor covers the old one too, so a failure at any point loses
nothing. Without `Alone` the step `StoreLine` fails: that is the run `overlap`.

**Documents.** `Totalled`: a document's total is the total of its body, so what a client's figures
post is one of the journals that `LinesBalance` shows to balance, with tax added, included or absent
and with or without an account for it, and what the rows post is off by `lost` with the sign of the
document. `OffByRoundingOnly` follows, because the journal in the ledger is that of the rows.
`LedgerInv` is inductive as the two properties state it, because each handler that posts has just
removed, or never made, what was there: an approval starts from a status that was not in force, an
edit deletes its journal before it posts again, and a void removes it. The figure in the journal is
the stored one, and a payment changes neither. The status of a payment says nothing of its journal,
since the client names it: what the invariant goes by is whether the payment was taken back.
`ApprovedIsPostedInOrder` needs its condition in the payment steps: a payment for an invoice that
was not approved makes it PAID without a journal.

**Ledger book.** A step of `Documents` is a step of `LedgerBook` or a stutter once three things are
known. `LedgerInv` and `Totalled`: a document has one journal at most, and what it posts balances but for
what its rows lost.
`AdvancesInv`: an advance that is not there yet has no journal, so creating it enters one. `ClosedStays`:
nothing reopens what is closed, which holds for a note because its edit re-reads the row under a lock
and refuses a voided one, whatever status the edit carries. `BookInv` joins the first three.
Then the operations fall into four kinds: what posts for the first time (a batch enters several
documents at once, hence `Enter(S)`), what deletes and posts again, what closes, and what does not
touch the ledger. Invoices are left out of `Closed`: a payment can bring a voided one back (below).

**Sub-ledger.** Four invariants, each resting on those before it. `Settled`: the paid figure of an
invoice is the sum, over all payments, of what each brings it, and its credited figure the sum of
what each note gave. `Spending`: a note's total is what remains of it and the sum of what it gave.
`Leaving`: due is total less paid less credited, which a removal keeps only because nothing was
paid or credited before (`Begun`), and an undone payment only because no payment is of nothing
(`Receipts`). `Control` gives each row of the three tables a gap between its journal and what it
says is owed (an invoice's paid and credited, a note's spent part, a payment's amount) and says
that the gaps of one type sum to zero: every step changes one gap, or two by opposite amounts.
`Tidy` excludes what makes a gap of its own, such as a removed invoice with a payment. With
`LedgerInv` the control account is the sum of the journals' shares, and the theorem follows by
adding the gaps. The only assumption is that the tables are finite.

`SumProofs` has the lemmas on sums: the fold of the community modules picks its elements in an order
of its own, and its sum is shown not to depend on that order, to change by what one term changes,
to distribute over addition, over disjoint parts of the set, and over the rows or the columns of a
table. The prover has no induction over sets; each of these takes a smallest set that is a
counterexample, which exists because strict inclusion is well-founded on the subsets of a finite set.

**Connections.** No property of a connection is inductive alone, since its tasks keep what they
read. `Consents` says who holds a consent: a row, or a task under way on it. A consent is held for
one connection, a connection waits for one first session, and it holds nothing before that session is
exchanged, so the second of two completions finds the session spent or the same consent. `StoredRight`
carries this to the step that writes LINKED: the task that is about to holds what the row holds.
`OneAtBank` counts, beside the live rows, the tasks that are past the duplicate test.
`OpenedOnce`: an account that is not bound has not been opened, which is what the claim in
ProvisionLedgerAccount tests. `Down`: all that is still under way on a revoked connection needs a
consent that is over, or is about to remove the row.

**Periods.** Between the count and the insert nothing guards the range. `PeriodsInv` adds to
`PeriodsApart` that a range about to be inserted meets a kept period, or the range another request
is about to insert, only when both are marked as raced (`InsertsApart`). The count refuses the
first kind and marks both sides of the second, so the insert finds nothing unmarked in its way.

**Sign-ins.** `SessionsInv` adds to `OneLivePerSignIn` (one token that works, none replaced twice)
`Descent`: a row in use belongs to a sign-in that began with a row in use, and only rows in use have
replaced another, so a new row never joins a sign-in that has one. And `LocksHold`: one rotation
holds a token, the token it holds is live, and nothing revokes that token meanwhile, which is the
row lock. A wipe that waits for it does not see the successor, which lives on; the property is about
one token per sign-in, not about none.
For the refinement, a rotation that has locked a live token replaces the only one that works in its
sign-in (`RotationReplaces`), and a revocation takes the sign-ins of the rows it writes to nothing
(`RevokingEnds`). A row that was revoked is never live again and a new row joins only a sign-in with a
live one, which is why an ended sign-in stays ended.

**Imports.** Rows are compared with what is stored when a file is read, and come in when the import
is committed, which may be much later. `Clean` says what the comparison found: a row that is not
flagged is neither stored nor above it in the file. `ImportsInv` carries that to the commit through
three places: the request that has compared, the staged import, and the commit that has read its
rows. It lapses only where the code lets it, when the user forces duplicates in or when other lines
come in first; the import or the request is then marked, and `NothingTwice` does not count it. An
import that is still staged has brought nothing in, so a second commit and a commit after an undo
find it out of that status. An undo that is not raced still sees no booked line when it deletes.

**Conversion.** `ConversionInv`: from its first write to its commit a save is alone, and what it has
deleted is all there was, so what it inserts is the only conversion journal. `Journalled` says that
what it carries from the screen sums to zero, because the adjustment line is the negated sum of the
others; this is a statement on the sum over the rows that are kept, for a screen of any length.

**Rules.** `Sorted`: the rules of the list saved last that are still there have the order of that
list, whatever was created since (a new rule goes after all of them, or comes first in an empty
list). `Paged` says of a reorder under way that the rows it holds are, of those it has come to,
exactly the ones that are still there: it waits for rows another one has, a held row is neither
deleted nor edited, and a deleted id never comes back. So the commit writes each position once and `Sorted`
holds of the list it was asked for.

A split is a pass over the lines that gives each its rounded share and the last one what is left. The
sum telescopes without induction (`SeqIsSummed`, `SumJoins`): the shares before the last are a sum
over an interval, and the last is the remainder less that sum, so they foot for every total
(`SharesFoot`, `AllocateFoots`). Each rounded share is within one unit of what it asks (`Rounded`), and the
last one is off by what all the others are and by what validation forgives of the hundred per cent
(`SumBounded`), which is the bound of `SplitsFoot`. `LetFoots` carries this through the saved
rules: whatever is created or edited has passed validation.

**Office.** Each step of `OfficeSpec` is a step of one part and leaves the variables of the others
alone, so `OfficeParts` gives the specification of each part, and what is proved of a part holds of the
state the `office` run explores.

**Reports.** `Ledger` is what postings keep: finitely many journals, each with lines on accounts of the
chart that sum to zero with what rounding took off them. Summing a table of journals by accounts the
other way shows that over the whole chart every window moves by nothing but the rounding of its journals
(`LedgerBalances`). The rest is about which lines and which
accounts a report takes. A report scans only up to its cutoff, and reads the same figures from that
(`ScanIsEnough`); for two columns the cutoff is the later of their ends. Net movement splits where two windows
meet (`NetSplits`), so the profit of a window is what the balance sheet retains at its end beyond
what it retained before it. The types of each statement part the chart into
classes and a rest of unknown types (`ByType`), and the sections of the trial balance, the last of them for
that rest, take each account once (`SectionsShowAll`). So what the balance sheet lacks is the rest and
the rounding, and nothing is assumed of the types.

The workpaper's formulas are one pass over a column, which `ComputeLines` reduces to the lines that
are placed: it needs each formula to come after the lines it adds and no line to be added twice. A
sound placement puts an account on a line of its class or on none (`Fits`), so a class's lines carry
its accounts' figures less those of the accounts without a line (`ClassOnItsLines`); the statements'
totals cancel, and the listed accounts are what is left (`StatementTies`, `SheetTies`).

A list in order is reasoned about without induction: of rows in a strict total order, the number
that come before a row is different for each and less than the number of rows, so it takes every
value from zero on, and ORDER BY lists each row once (`OrderLists`). A sum down the list is a sum
over its rows (`ListSum`), in parts if they are in parts (`ListParts`).

General ledger detail: the lines of the feed up to the last one of a day are the lines of the
window up to that day, hence their sum is the account's net movement (`FeedSum`), and the opening
balance worked back from the closing one is the balance of the day before. `ReaderInv` carries
this to the second statement: until a journal of the window comes or goes, the journals of the
window are those the first statement read, and so is the feed (`SameNets`).

Aged reports: the bands are every age, each in one column, so the columns part what a contact
owes, the contacts part what is owed by any contact, and what is left of the executive summary's figure
is of none. Ordered by name, all invoices between two of one contact have its name; if no other
contact has that name they are its own, and its block starts once. `AgedInv` is that the table is finite and
that its rows are of `Bills`: its contact, if it names one, exists, as the foreign key requires, and its
status is any text, as the column and the handler allow.

Cash summary: the bank accounts' movement in a window, summed by accounts, is the cash of its
journals (`CashByJournal`, `BankMoves`), and a journal off the bank moves none. Each journal has one
control or none. What is attributed to a control with its residual is the cash of that control's
journals, whatever the shares, the roundings and the claims found come to, provided a control that
something is attributed to has a journal at all (`ResidualsSettle`). A payment in the bank is such a
journal, because its other line is the control it settles and controls are not bank accounts:
`CashInv` keeps that a payment's journal, while it is there, is the one `Pay` wrote. A journal
without control is coded directly, and as it balances and records its tax, its rows are its cash
(`CodedDirectly`). The sections of the rendered report add to all of it (`RenderMoves`). A document
paid in full has the whole of each line for its share, and those add up to its total.
`CashAssumption` has what is taken from the chart and the tables: control accounts and the tax
account are not bank accounts, a claims control is neither of the other two, and an approved
document totals what `recalculateTotals` made of its lines. A NoTax document whose lines still carry
tax is outside of it, and of the model.

**Left to TLC.** Only liveness under fairness (`ClaimsEnd`, `CatchesUp`), which is beyond the prover.
Every invariant and every other property of a passing run is a theorem.

## Where the code and its comments disagree

Each of these is a run that TLC must find violated.

1. **A line can be posted twice** (`twice`). `SetLineStatus` refuses only IMPORTED lines, so an
   ignore or unignore reaches a line whose claim another request holds and makes it claimable
   again. `ClaimLine` says "exactly one caller can turn it into a transaction".
2. **One transaction can be matched to two lines** (`shared`). Match and ReconcileSelection read
   `IsReconciled` before they claim the line; the claim is on the line, not on the transaction.
   A test says such a transaction "cannot be claimed by a second line".
3. **A line can be posted at an amount it no longer has** (`figure`). The amount is read before
   the claim, and until the claim the feed may restate the line. No notice shows, because the
   notice compares the bank's version with the line, which its comment calls "what was booked".
4. **Overlapping syncs can leave a removed line in the inbox for good** (`overlap`). The Sync button
   and the sweep run the same code with nothing between them. A sync with an older answer
   stages a line again that the other has removed; if the other saves its cursor last, no later
   sync reads the removal again. A comment says the removed list is there because otherwise "the
   inbox would keep the abandoned pending row forever".
5. **The net cash movement is not always the movement of the bank** (`movement`).
   `postBankTransactionJournal` records a line's tax without a sign, beside a net that takes the
   opposite sign of the bank's line; the cash summary counts `-net - tax`. That is right for money
   spent and short by twice the tax for money received. The renderer says the sum "is the change in
   the bank accounts' balances over the window". `CashFoots` excepts exactly these journals.

Met while modelling, and not the subject of a run:

- A line left in PROCESSING by a killed request does not come back to the inbox by itself when its
  claim is old, as a comment on `staleClaim` says; it becomes claimable, but nothing lists it.
- `DeleteLine` refuses a line that is IMPORTED or linked, not one whose transaction has just been
  posted and not yet attached; that transaction then stays with no line behind it.
- A payment tests that its invoice exists, not its status: it makes a voided invoice PAID, though the
  table of transitions says "PAID/VOIDED/DELETED are terminal".
- `InvoiceRepository.Update` says "Not allowed once the invoice is PAID/VOIDED/DELETED" and refuses the
  last two only; a paid invoice can be edited, and its journal is then posted anew.
- A payment that is sent with the status VOIDED is applied to its invoice and posted like any other
  (`PaymentRepository.Create` tests no status), and `Void` returns early for it: nothing takes its
  journal or its part of the paid figure away again.
- Approving an invoice can be refused as unbalanced because of rounding alone: two lines of 19.99 less
  12.5% are stored as 17.4913 each, and the total as 34.9825. The same invoice created or edited as
  AUTHORISED is accepted, and the rows of its journal are off by 0.0001.
- Nothing checks the type of an account (`AccountHandler.Create` wants it not to be empty, the column
  is VARCHAR(50)). An account of a type that is none of the enum is in the trial balance, in a section
  for such types, and dropped by the balance sheet and Form 1120, which then do not balance.
- A draft invoice that is paid becomes PAID and, when the payment is voided, AUTHORISED, and is
  never posted. `odd` records it, and `ApprovedIsPostedInOrder` excepts it.
- A prepayment or overpayment that is deleted leaves its journal in the ledger.
- With `compare=true` the balance sheet compares with the first day of the financial year itself;
  Schedule L's "beginning of year" is the day before.
- The executive summary counts what is owed on invoices without a contact; the aged reports leave
  them out. Contacts of one name share a block of the aged reports when they sort together.
- An account of a revenue type with a debit balance (returns) that is placed on line 1b of Form 1120
  has a negative figure there, and line 1c subtracts it: the receipts grow. An account placed on a
  line that the form computes is overwritten and shown in no total.
- Two Reorders of pages that are out of date can leave two rules with one position; the name then
  decides.

## What is not modelled

- **File parsers** (`bankstatement/`): text in, rows out; a model that keeps a text as a value would
  say nothing. The wizard starts from the rows.
- **Coding history** (`bankcoding/`): a read-only proposal.
- **Chart of accounts, contacts, items, tracking, currencies, attachments, users, quotes, purchase
  orders**: single statements on one row, guarded by foreign keys. The reports take the chart as
  a constant.
- **Sales tax, budget, journal and account-transaction reports, repeating invoices, expense claim
  entry**: the claims appear where a report reads them.
- **A provider without a cursor** (`syncDateWindow`): it reads everything again, so its only state is
  the lines, and what it does to them is `FeedDelivers`.
- **Accounts that are not staged**, which a sync skips, and the lines that go when a connection is
  deleted: `FeedConnections` keeps the connection and its account, not the lines.
- **Decimals**: taxes are sent by clients, as are the amounts of payments, allocations, advances and
  manual journals; they are taken to have at most the four decimals a column holds, so only line
  amounts, which the code computes, lose anything. `DueIsWhatIsLeft` and `CashFoots` are about the
  figures as the columns hold them.
- **Within a step**: the two legs of a transfer, and the lines of a bank transaction, which are one
  signed total on the screen; currencies and tracking in journals.
- **Access tokens**: the middleware reads no state that `Sessions` keeps.
- **Router, configuration, HTTP clients, signatures, encryption, the frontend**: wiring and I/O.
  What the client can send is the inputs of the models.
