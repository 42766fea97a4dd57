----------------------------- MODULE Documents ------------------------------
(***************************************************************************)
(* Invoices and bills, payments, credit notes, prepayments and             *)
(* overpayments, manual journals, and the general ledger they post to:     *)
(* invoice.go, payment.go, credit_note.go, manual_journal.go and the       *)
(* posting documents of accounting_extras.go under internal/repository,    *)
(* with their handlers.                                                    *)
(*                                                                         *)
(* Every operation is one database transaction that locks the row it       *)
(* reads before it writes, hence one step; only the edit handlers read     *)
(* the document in a statement of their own first, and carry the status    *)
(* they read into a later step.  An operation that fails rolls back and is *)
(* not a step.                                                             *)
(***************************************************************************)
EXTENDS Journals

CONSTANTS
  Invoices,     \* row ids of invoices and bills
  Notes,        \* row ids of credit notes
  Payments,     \* row ids of payments
  Advances,     \* row ids of prepayments and overpayments
  Manuals,      \* row ids of manual journals
  Users,        \* requests that edit a document
  Bodies,       \* documents that clients send
  Amounts,      \* amounts of payments, allocations and advances
  Sent,         \* statuses that clients name when they create or edit
  PaymentSent,  \* statuses that clients give the payments they record: any text
  OtherSent,    \* statuses that clients give advances and manual journals: any text
  Entered,      \* journals that users enter by hand
  NoDoc

Sources == Invoices \cup Notes \cup Payments \cup Advances \cup Manuals

DocStatuses == {"DRAFT", "SUBMITTED", "AUTHORISED", "PAID", "VOIDED", "DELETED"}

ASSUME DocumentsAssumption ==
  /\ Bodies \subseteq BodyOf(Int)
  /\ Amounts \subseteq Int \ {0}
  /\ Sent \subseteq DocStatuses
  /\ "NONE" \notin PaymentSent \cup OtherSent
  /\ Entered \subseteq Journal
  /\ NoDoc \notin Sources

ASSUME SourcesDisjoint ==
  /\ Invoices \cap (Notes \cup Payments \cup Advances \cup Manuals) = {}
  /\ Notes \cap (Payments \cup Advances \cup Manuals) = {}
  /\ Payments \cap (Advances \cup Manuals) = {}
  /\ Advances \cap Manuals = {}

VARIABLES
  inv,          \* invoices: what was sent, and the figures kept beside it
  note,         \* credit notes
  alloc,        \* alloc[c][i]: what note c has allocated to invoice i
  pay,          \* payments
  adv,          \* prepayments and overpayments
  man,          \* manual journals
  gl,           \* gl[s]: the journals whose source is document s
  edit,         \* the document a user's edit has read, with its status then
  odd           \* history: which unusual things users have done so far

docVars == <<inv, note, alloc, pay, adv, man, gl, edit, odd>>

InForceUnpaid(status) == status = "AUTHORISED"     \* faulty: a paid invoice is left out

InForce(status) == status \in {"AUTHORISED", "PAID"}

Max0(n) == IF n < 0 THEN 0 ELSE n
Min2(m, n) == IF m < n THEN m ELSE n

NoBody == [type |-> "ACCREC", amounts |-> "NoTax", sub |-> 0, tax |-> 0, lost |-> 0]

Init ==
  /\ inv  = [i \in Invoices |-> [status |-> "NONE", body |-> NoBody, total |-> 0,
                                 paid |-> 0, credited |-> 0, due |-> 0]]
  /\ note = [c \in Notes |-> [status |-> "NONE", body |-> NoBody, total |-> 0,
                              remaining |-> 0]]
  /\ alloc = [c \in Notes |-> [i \in Invoices |-> 0]]
  /\ pay  = [p \in Payments |-> [status |-> "NONE", invoice |-> NoDoc, amount |-> 0,
                                 batch |-> FALSE, undone |-> FALSE]]
  /\ adv  = [v \in Advances |-> "NONE"]
  /\ man  = [m \in Manuals |-> "NONE"]
  /\ gl   = [s \in Sources |-> << >>]
  /\ edit = [u \in Users |-> [doc |-> NoDoc, status |-> "NONE"]]
  /\ odd  = {}

(***************************************************************************)
(* Posting: insertJournal refuses a journal that does not balance, and     *)
(* with it the whole operation.  It adds up the figures it is given; what  *)
(* the ledger keeps of them has been rounded like the document's rows.     *)
(***************************************************************************)
Accepts(js) == \A k \in DOMAIN js : Balanced(js[k])

Post(s, js, kept) ==
  /\ Accepts(js)
  /\ gl' = [gl EXCEPT ![s] = @ \o kept]

RepostBeside(s, js, kept) ==     \* faulty: the old journal is not removed
  /\ Accepts(js)
  /\ gl' = [gl EXCEPT ![s] = @ \o kept]

Repost(s, js, kept) ==
  /\ Accepts(js)
  /\ gl' = [gl EXCEPT ![s] = kept]

UnpostNothing(s) == UNCHANGED gl     \* faulty: the journal of what is over stays

Unpost(s)     == gl' = [gl EXCEPT ![s] = << >>]

Odd(kind, happened) == IF happened THEN {kind} ELSE {}

(***************************************************************************)
(* Invoices                                                                *)
(***************************************************************************)
CreateInvoice(i, b, st) ==
  /\ inv[i].status = "NONE"
  /\ inv' = [inv EXCEPT ![i] = [status |-> st, body |-> b, total |-> TotalOf(b),
                                paid |-> 0, credited |-> 0, due |-> TotalOf(b)]]
  /\ IF st = "AUTHORISED"
     THEN Post(i, InvoicePosting(b, TotalOf(b)), InvoicePosting(Rows(b), TotalOf(b)))
     ELSE UNCHANGED gl
  /\ odd' = odd \cup Odd("forced", st = "PAID") \cup Odd("refund", TotalOf(b) < 0)
  /\ UNCHANGED <<note, alloc, pay, adv, man, edit>>

ReadAnyInvoice(u, i) ==    \* faulty: an invoice that is not there is edited too
  /\ edit[u].doc = NoDoc
  /\ edit' = [edit EXCEPT ![u] = [doc |-> i, status |-> inv[i].status]]
  /\ UNCHANGED <<inv, note, alloc, pay, adv, man, gl, odd>>

\* The edit handler reads the invoice; a status the body leaves out will be the
\* one it read here.
ReadInvoice(u, i) ==
  /\ edit[u].doc = NoDoc
  /\ inv[i].status # "NONE"
  /\ edit' = [edit EXCEPT ![u] = [doc |-> i, status |-> inv[i].status]]
  /\ UNCHANGED <<inv, note, alloc, pay, adv, man, gl, odd>>

DueAfterEditWhole(b, paid) == TotalOf(b)     \* faulty: what was paid is forgotten

\* The amount due after an edit: what has been paid counts, what has been
\* credited does not.
DueAfterEdit(b, paid) == Max0(TotalOf(b) - paid)

\* Settled by what has been paid already: PAID, whatever the body says.
StatusAfterEdit(b, paid, st) ==
  IF paid # 0 /\ DueAfterEdit(b, paid) = 0 THEN "PAID" ELSE st

UpdateInvoice(u, i, b, st) ==
  LET paid == inv[i].paid
      new  == StatusAfterEdit(b, paid, st)
  IN /\ edit[u].doc = i
     /\ st \in Sent \cup {edit[u].status}
     /\ inv[i].status \notin {"VOIDED", "DELETED"}
     /\ inv' = [inv EXCEPT ![i].status = new, ![i].body = b, ![i].total = TotalOf(b),
                           ![i].due = DueAfterEdit(b, paid)]
     /\ IF InForce(new)
        THEN Repost(i, InvoicePosting(b, TotalOf(b)), InvoicePosting(Rows(b), TotalOf(b)))
        ELSE Unpost(i)
     /\ edit' = [edit EXCEPT ![u] = [doc |-> NoDoc, status |-> "NONE"]]
     /\ odd' = odd \cup Odd("recredited", inv[i].credited # 0)
                   \cup Odd("overpaid", TotalOf(b) < paid)
                   \cup Odd("retyped", b.type # inv[i].body.type)
                   \cup Odd("forced", new = "PAID" /\ DueAfterEdit(b, paid) # 0)
                   \cup Odd("dropped", ~InForce(new) /\ (paid # 0 \/ inv[i].credited # 0))
                   \cup Odd("refund", TotalOf(b) < 0)
     /\ UNCHANGED <<note, alloc, pay, adv, man>>

\* The repository refuses a voided or deleted invoice; the handler answers 403.
RefuseUpdate(u) ==
  /\ edit[u].doc # NoDoc
  /\ \/ /\ edit[u].doc \in Invoices
        /\ inv[edit[u].doc].status \in {"VOIDED", "DELETED"}
     \/ /\ edit[u].doc \in Notes
        /\ note[edit[u].doc].status \in {"VOIDED", "DELETED"}
  /\ edit' = [edit EXCEPT ![u] = [doc |-> NoDoc, status |-> "NONE"]]
  /\ UNCHANGED <<inv, note, alloc, pay, adv, man, gl, odd>>

\* invoiceTransitionAllowed
TransitionAllowed(from, to) ==
  \/ from = to
  \/ from = "DRAFT"      /\ to \in {"SUBMITTED", "AUTHORISED", "DELETED"}
  \/ from = "SUBMITTED"  /\ to \in {"DRAFT", "AUTHORISED", "DELETED"}
  \/ from = "AUTHORISED" /\ to \in {"VOIDED", "PAID"}

\* An approval posts what it reads back from the rows, and fails with it.
UpdateInvoiceStatus(i, st) ==
  LET from  == inv[i].status
      again == InvoicePosting(Rows(inv[i].body), inv[i].total)
  IN /\ from # "NONE"
     /\ TransitionAllowed(from, st)
     /\ inv' = [inv EXCEPT ![i].status = st]
     /\ CASE from # "AUTHORISED" /\ st = "AUTHORISED" ->
               Post(i, again, again)
          [] from = "AUTHORISED" /\ st \in {"VOIDED", "DELETED"} -> Unpost(i)
          [] OTHER -> UNCHANGED gl
     /\ odd' = odd \cup Odd("forced", st = "PAID" /\ from # "PAID" /\ inv[i].due # 0)
                   \cup Odd("dropped", st \in {"VOIDED", "DELETED"}
                                       /\ (inv[i].paid # 0 \/ inv[i].credited # 0))
     /\ UNCHANGED <<note, alloc, pay, adv, man, edit>>

DeleteInvoice(i) ==
  /\ inv[i].status \in {"DRAFT", "SUBMITTED", "AUTHORISED"}
  /\ IF inv[i].status = "AUTHORISED"
     THEN /\ inv' = [inv EXCEPT ![i].status = "VOIDED"]
          /\ Unpost(i)
     ELSE /\ inv' = [inv EXCEPT ![i].status = "DELETED"]
          /\ UNCHANGED gl
  /\ odd' = odd \cup Odd("dropped", inv[i].paid # 0 \/ inv[i].credited # 0)
  /\ UNCHANGED <<note, alloc, pay, adv, man, edit>>

(***************************************************************************)
(* Payments                                                                *)
(***************************************************************************)

\* The invoice after a payment, and after the payment was voided.
Paid(r, a) ==
  [r EXCEPT !.paid = @ + a, !.due = Max0(@ - a),
            !.status = IF r.due - a <= 0 THEN "PAID" ELSE @]

UnpaidInPart(r, a) ==      \* faulty: what was paid is kept
  [r EXCEPT !.due = @ + a, !.status = IF @ = "PAID" THEN "AUTHORISED" ELSE @]

Unpaid(r, a) ==
  [r EXCEPT !.paid = Max0(@ - a), !.due = @ + a,
            !.status = IF @ = "PAID" THEN "AUTHORISED" ELSE @]

\* The invoice need only exist.  The payment gets the status the client named and is
\* applied and posted whatever it is; without an account it posts nothing.
CreatePayment(p, i, a, account, st) ==
  LET left == inv[i].due - a
      js   == <<PaymentJournal(inv[i].body.type, a)>>
  IN /\ pay[p].status = "NONE"
     /\ inv[i].status # "NONE"
     /\ pay' = [pay EXCEPT ![p] = [status |-> st, invoice |-> i, amount |-> a,
                                   batch |-> FALSE, undone |-> FALSE]]
     /\ inv' = [inv EXCEPT ![i] = Paid(@, a)]
     /\ IF account THEN Post(p, js, js) ELSE UNCHANGED gl
     /\ odd' = odd \cup Odd("early", ~InForce(inv[i].status))
                   \cup Odd("overpaid", left < 0)
                   \cup Odd("refund", a < 0)
                   \cup Odd("unposted", ~account)
     /\ UNCHANGED <<note, alloc, adv, man, edit>>

\* A payment that has the status VOIDED already is left as it is.
VoidPayment(p) ==
  LET i == pay[p].invoice
      a == pay[p].amount
  IN /\ pay[p].status \notin {"NONE", "VOIDED"}
     /\ pay' = [pay EXCEPT ![p].status = "VOIDED", ![p].undone = TRUE]
     /\ inv' = [inv EXCEPT ![i] = Unpaid(@, a)]
     /\ Unpost(p)
     /\ odd' = odd \cup Odd("unbatched", pay[p].batch)
     /\ UNCHANGED <<note, alloc, adv, man, edit>>

\* The children of a batch are posted, but applied to no invoice.
CreateBatch(S, of, amount, st) ==
  /\ \A p \in S : pay[p].status = "NONE" /\ inv[of[p]].status # "NONE"
  /\ pay' = [p \in Payments |->
               IF p \in S THEN [status |-> st[p], invoice |-> of[p], amount |-> amount[p],
                                batch |-> TRUE, undone |-> FALSE]
                          ELSE pay[p]]
  /\ gl' = [s \in Sources |->
              IF s \in S THEN gl[s] \o <<PaymentJournal(inv[of[s]].body.type, amount[s])>>
                         ELSE gl[s]]
  /\ odd' = odd \cup {"batch"}
  /\ UNCHANGED <<inv, note, alloc, adv, man, edit>>

(***************************************************************************)
(* Credit notes                                                            *)
(***************************************************************************)
CreateNote(c, b, st) ==
  /\ note[c].status = "NONE"
  /\ note' = [note EXCEPT ![c] = [status |-> st, body |-> b, total |-> TotalOf(b),
                                  remaining |-> TotalOf(b)]]
  /\ IF st = "AUTHORISED"
     THEN Post(c, CreditNotePosting(b, TotalOf(b)), CreditNotePosting(Rows(b), TotalOf(b)))
     ELSE UNCHANGED gl
  /\ odd' = odd \cup Odd("forced", st = "PAID") \cup Odd("refund", TotalOf(b) < 0)
  /\ UNCHANGED <<inv, alloc, pay, adv, man, edit>>

ReadNote(u, c) ==
  /\ edit[u].doc = NoDoc
  /\ note[c].status # "NONE"
  /\ edit' = [edit EXCEPT ![u] = [doc |-> c, status |-> note[c].status]]
  /\ UNCHANGED <<inv, note, alloc, pay, adv, man, gl, odd>>

Allocated(c) == \E i \in Invoices : alloc[c][i] # 0

\* The remaining credit is the whole total again, whatever has been allocated.
UpdateNote(u, c, b, st) ==
  /\ edit[u].doc = c
  /\ st \in Sent \cup {edit[u].status}
  /\ note[c].status \notin {"VOIDED", "DELETED"}
  /\ note' = [note EXCEPT ![c] = [status |-> st, body |-> b, total |-> TotalOf(b),
                                  remaining |-> TotalOf(b)]]
  /\ IF InForce(st)
     THEN Repost(c, CreditNotePosting(b, TotalOf(b)), CreditNotePosting(Rows(b), TotalOf(b)))
     ELSE Unpost(c)
  /\ edit' = [edit EXCEPT ![u] = [doc |-> NoDoc, status |-> "NONE"]]
  /\ odd' = odd \cup Odd("reissued", Allocated(c))
                \cup Odd("forced", st = "PAID" /\ TotalOf(b) # 0)
                \cup Odd("refund", TotalOf(b) < 0)
  /\ UNCHANGED <<inv, alloc, pay, adv, man>>

DeleteNote(c) ==
  /\ note[c].status \in {"DRAFT", "SUBMITTED", "AUTHORISED"}
  /\ IF note[c].status = "AUTHORISED"
     THEN /\ note' = [note EXCEPT ![c].status = "VOIDED"]
          /\ Unpost(c)
     ELSE /\ note' = [note EXCEPT ![c].status = "DELETED"]
          /\ UNCHANGED gl
  /\ odd' = odd \cup Odd("dropped", Allocated(c))
  /\ UNCHANGED <<inv, alloc, pay, adv, man, edit>>

\* The invoice and the note after an allocation.
Credited(r, a) ==
  [r EXCEPT !.credited = @ + a, !.due = Max0(@ - a),
            !.status = IF r.due - a <= 0 THEN "PAID" ELSE @]

SpentWhole(n, a) ==        \* faulty: the remaining credit changes only when it is used up
  IF n.remaining - a <= 0 THEN [n EXCEPT !.remaining = @ - a, !.status = "PAID"] ELSE n

Spent(n, a) ==
  [n EXCEPT !.remaining = @ - a,
            !.status = IF n.remaining - a <= 0 THEN "PAID" ELSE @]

\* No more than is due is allocated, whatever was asked for.
Allocate(c, i, asked) ==
  LET a == Min2(asked, inv[i].due)
  IN /\ asked > 0
     /\ note[c].status = "AUTHORISED"
     /\ note[c].remaining >= asked
     /\ inv[i].status = "AUTHORISED"
     /\ alloc' = [alloc EXCEPT ![c][i] = @ + a]
     /\ note' = [note EXCEPT ![c] = Spent(@, a)]
     /\ inv' = [inv EXCEPT ![i] = Credited(@, a)]
     /\ odd' = odd \cup Odd("crossed", note[c].body.type # inv[i].body.type)
     /\ UNCHANGED <<pay, adv, man, gl, edit>>

(***************************************************************************)
(* Prepayments and overpayments; manual journals                           *)
(***************************************************************************)

\* Posted when the bank account is named, whatever the status that was sent.
CreateAdvance(v, type, a, account, st) ==
  LET js == <<AdvanceJournal(type, a)>>
  IN /\ adv[v] = "NONE"
     /\ adv' = [adv EXCEPT ![v] = st]
     /\ IF account THEN Post(v, js, js) ELSE UNCHANGED gl
     /\ UNCHANGED <<inv, note, alloc, pay, man, edit, odd>>

\* Deleting changes the status alone: the journal stays.
DeleteAdvance(v) ==
  /\ adv[v] # "NONE"
  /\ adv' = [adv EXCEPT ![v] = "DELETED"]
  /\ UNCHANGED <<inv, note, alloc, pay, man, gl, edit, odd>>

\* The lines are the client's own, checked to sum to zero; so is the status.
CreateManual(m, j, st) ==
  /\ man[m] = "NONE"
  /\ Balanced(j)
  /\ man' = [man EXCEPT ![m] = st]
  /\ IF st \in {"AUTHORISED", "POSTED"} THEN Post(m, <<j>>, <<j>>) ELSE UNCHANGED gl
  /\ UNCHANGED <<inv, note, alloc, pay, adv, edit, odd>>

DeleteManual(m) ==
  /\ man[m] \notin {"NONE", "DELETED"}
  /\ man' = [man EXCEPT ![m] = "DELETED"]
  /\ Unpost(m)
  /\ UNCHANGED <<inv, note, alloc, pay, adv, edit, odd>>

(***************************************************************************)
(* The specification                                                       *)
(***************************************************************************)
InvoiceNext ==
  \E i \in Invoices :
    \/ \E b \in Bodies, st \in Sent : CreateInvoice(i, b, st)
    \/ \E u \in Users : ReadInvoice(u, i)
    \/ \E u \in Users, b \in Bodies, st \in DocStatuses : UpdateInvoice(u, i, b, st)
    \/ \E st \in DocStatuses : UpdateInvoiceStatus(i, st)
    \/ DeleteInvoice(i)

PaymentNext ==
  \/ \E p \in Payments, i \in Invoices, a \in Amounts, account \in BOOLEAN,
        st \in PaymentSent : CreatePayment(p, i, a, account, st)
  \/ \E p \in Payments : VoidPayment(p)
  \/ \E S \in (SUBSET Payments) \ {{}} :
       \E of \in [S -> Invoices], amount \in [S -> Amounts], st \in [S -> PaymentSent] :
         CreateBatch(S, of, amount, st)

NoteNext ==
  \E c \in Notes :
    \/ \E b \in Bodies, st \in Sent : CreateNote(c, b, st)
    \/ \E u \in Users : ReadNote(u, c)
    \/ \E u \in Users, b \in Bodies, st \in DocStatuses : UpdateNote(u, c, b, st)
    \/ DeleteNote(c)
    \/ \E i \in Invoices, a \in Amounts : Allocate(c, i, a)

OtherNext ==
  \/ \E v \in Advances, type \in AdvanceTypes, a \in Amounts, account \in BOOLEAN,
        st \in OtherSent : CreateAdvance(v, type, a, account, st)
  \/ \E v \in Advances : DeleteAdvance(v)
  \/ \E m \in Manuals, j \in Entered, st \in OtherSent : CreateManual(m, j, st)
  \/ \E m \in Manuals : DeleteManual(m)

Next ==
  \/ InvoiceNext
  \/ PaymentNext
  \/ NoteNext
  \/ OtherNext
  \/ \E u \in Users : RefuseUpdate(u)

Spec == Init /\ [][Next]_docVars

(***************************************************************************)
(* Properties                                                              *)
(***************************************************************************)
Kinds == {"forced", "early", "overpaid", "refund", "unposted", "batch", "unbatched",
          "recredited", "reissued", "retyped", "crossed", "dropped"}

TypeOK ==
  /\ inv \in [Invoices -> [status : DocStatuses \cup {"NONE"}, body : BodyOf(Int),
                            total : Int, paid : Int, credited : Int, due : Int]]
  /\ note \in [Notes -> [status : DocStatuses \cup {"NONE"}, body : BodyOf(Int),
                          total : Int, remaining : Int]]
  /\ alloc \in [Notes -> [Invoices -> Int]]
  /\ pay \in [Payments -> [status : PaymentSent \cup {"NONE", "VOIDED"},
                            invoice : Invoices \cup {NoDoc}, amount : Int,
                            batch : BOOLEAN, undone : BOOLEAN]]
  /\ \A p \in Payments : pay[p].status # "NONE" => pay[p].invoice \in Invoices
  /\ \A p \in Payments : pay[p].undone => pay[p].status = "VOIDED"
  /\ adv \in [Advances -> OtherSent \cup {"NONE", "DELETED"}]
  /\ man \in [Manuals -> OtherSent \cup {"NONE", "DELETED"}]
  /\ gl \in [Sources -> Seq(Journal)]
  /\ edit \in [Users -> [doc : Invoices \cup Notes \cup {NoDoc},
                          status : DocStatuses \cup {"NONE"}]]
  /\ \A u \in Users : edit[u].doc # NoDoc => edit[u].status # "NONE"
  /\ odd \subseteq Kinds

\* A payment was recorded, under whatever status, and has not been taken back.
Stands(r) == r.status # "NONE" /\ ~r.undone

\* A document is in the ledger at most once, only while it is in force (a payment:
\* until it is taken back), and with the figures its rows have now: whatever order
\* approvals, edits from stale reads, voids and payments come in, no journal is left
\* behind or written twice.
JournalOfItsDocument ==
  /\ \A i \in Invoices : gl[i] # << >> =>
        /\ InForce(inv[i].status)
        /\ gl[i] = <<InvoiceJournal(Rows(inv[i].body), inv[i].total)>>
  /\ \A c \in Notes : gl[c] # << >> =>
        /\ InForce(note[c].status)
        /\ gl[c] = <<CreditNoteJournal(Rows(note[c].body), note[c].total)>>
  /\ \A p \in Payments : gl[p] # << >> =>
        /\ Stands(pay[p])
        /\ \E type \in InvoiceTypes : gl[p] = <<PaymentJournal(type, pay[p].amount)>>
  /\ \A m \in Manuals : gl[m] # << >> =>
        /\ man[m] \in {"AUTHORISED", "POSTED"}
        /\ Len(gl[m]) = 1

\* Tax included, added or absent, with a tax account or without, rounding is all that
\* keeps a document and the ledger apart: what a client sends is never refused as
\* unbalanced, an approval is refused only for an invoice whose rows have lost
\* something, and a journal in the ledger is off by what its document's rows lost.
OffByRoundingOnly ==
  /\ \A i \in Invoices :
       /\ Accepts(InvoicePosting(inv[i].body, inv[i].total))
       /\ Accepts(InvoicePosting(Rows(inv[i].body), inv[i].total))
            <=> inv[i].total = 0 \/ inv[i].body.lost = 0
       /\ \A k \in DOMAIN gl[i] :
            OffBy(gl[i][k]) = Sign(inv[i].body.type) * inv[i].body.lost
  /\ \A c \in Notes :
       /\ Accepts(CreditNotePosting(note[c].body, note[c].total))
       /\ \A k \in DOMAIN gl[c] :
            OffBy(gl[c][k]) = -(Sign(note[c].body.type) * note[c].body.lost)
  /\ \A s \in Payments \cup Advances \cup Manuals : Accepts(gl[s])

\* No invoice in force, paid ones included, is missing from the ledger through
\* edits, stale edits, status changes, payments and voids, as long as nobody takes a
\* payment for an invoice that was not approved, nor declares one as paid.
ApprovedIsPostedInOrder ==
  odd \cap {"early", "forced"} = {} =>
    \A i \in Invoices :
      InForce(inv[i].status) /\ inv[i].total # 0 => gl[i] # << >>

\* The documents that are over: a payment that was taken back, a note that was voided, a
\* manual journal or a note that was deleted.
Closed == {p \in Payments : pay[p].undone}
          \cup {c \in Notes : note[c].status \in {"VOIDED", "DELETED"}}
          \cup {m \in Manuals : man[m] = "DELETED"}

Ledger == INSTANCE LedgerBook WITH
            Documents <- Sources, Fixed <- Payments \cup Advances \cup Manuals,
            Postable <- {j \in Journal : \/ Balanced(j)
                                         \/ \E b \in Bodies : OffBy(j) \in {b.lost, -b.lost}},
            entry <- gl, closed <- Closed

\* Posting, reposting and unposting keep the promise of LedgerBook, whoever edits what
\* and from however stale a read: one journal for a document, balanced but for what its
\* rows lost, that of a payment never rewritten, and a note, payment or manual journal
\* that is over out for good.
KeepsLedgerBook == Ledger!Spec
=============================================================================
