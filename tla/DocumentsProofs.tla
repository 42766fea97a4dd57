-------------------------- MODULE DocumentsProofs --------------------------
(***************************************************************************)
(* The documents and the journals they post, for any number of documents,  *)
(* payments, advances, manual journals and users, and any whole amounts.   *)
(* First what each handler does to the tables it writes (...Does), then    *)
(* three invariants: the types, the totals, and the ledger.                *)
(***************************************************************************)
EXTENDS Subledger, TLAPS

----------------------------------------------------------------------------
(* Journals: what gl.go posts is a journal, and balances. *)

LEMMA TotalIsInt == ASSUME NEW b \in BodyOf(Int) PROVE TotalOf(b) \in Int
BY DEF TotalOf, BodyOf

LEMMA LinesAreJournal ==
  ASSUME NEW b \in BodyOf(Int), NEW total \in Int, NEW sign \in {1, -1}
  PROVE  DocumentLines(b, total, sign) \in Journal
<1>1. /\ sign * total \in Int
      /\ sign * DocumentTaxTotal(b) \in Int
      /\ DocumentLineNet(b, TaxPosted(b)) \in Int
  BY DEF BodyOf, DocumentTaxTotal, DocumentLineNet
<1>2. sign * DocumentLineNet(b, TaxPosted(b)) \in Int
  BY <1>1
<1>. QED BY <1>1, <1>2 DEF DocumentLines, Journal

LEMMA RowsAre ==
  ASSUME NEW b \in BodyOf(Int)
  PROVE  /\ Rows(b) \in BodyOf(Int)
         /\ Rows(b).type = b.type /\ Rows(b).amounts = b.amounts /\ Rows(b).tax = b.tax
         /\ Rows(b).sub = b.sub - b.lost
BY DEF Rows, BodyOf

\* Tax added, included or absent, with an account for it or without: the control account
\* moves by exactly what the coded accounts and the tax account do.
LEMMA LinesBalance ==
  ASSUME NEW b \in BodyOf(Int), NEW sign \in {1, -1}
  PROVE  Balanced(DocumentLines(b, TotalOf(b), sign))
<1>1. /\ b.sub \in Int /\ b.tax \in Int
      /\ b.type = "ACCREC" \/ b.type = "ACCPAY"
      /\ b.amounts = "Exclusive" \/ b.amounts = "Inclusive" \/ b.amounts = "NoTax"
  BY DEF BodyOf, InvoiceTypes, LineAmountTypes
<1>2. TotalOf(b) = DocumentLineNet(b, TaxPosted(b))
                   + (IF TaxPosted(b) THEN DocumentTaxTotal(b) ELSE 0)
  BY <1>1, TaxAccountAssumption DEF TotalOf, DocumentLineNet, TaxPosted, DocumentTaxTotal
<1>3. /\ DocumentLineNet(b, TaxPosted(b)) \in Int /\ DocumentTaxTotal(b) \in Int
      /\ TotalOf(b) \in Int
  BY <1>1 DEF DocumentLineNet, DocumentTaxTotal, TotalOf
<1>. DEFINE net == DocumentLineNet(b, TaxPosted(b))
            gst == DocumentTaxTotal(b)
            all == TotalOf(b)
            posted == TaxPosted(b)
<1>4. DocumentLines(b, all, sign) =
        [bank |-> 0, debtors |-> IF b.type = "ACCREC" THEN sign * all ELSE 0,
         creditors |-> IF b.type = "ACCPAY" THEN sign * all ELSE 0,
         tax |-> IF posted THEN -(sign * gst) ELSE 0, coded |-> -(sign * net)]
  BY DEF DocumentLines
<1>5. all = net + (IF posted THEN gst ELSE 0) /\ net \in Int /\ gst \in Int /\ all \in Int
  BY <1>2, <1>3
<1>. HIDE DEF net, gst, all, posted
<1>. SUFFICES Balanced(DocumentLines(b, all, sign))
  BY DEF all
<1>6. CASE sign = 1
  <2>1. sign * all = all /\ sign * gst = gst /\ sign * net = net
    BY <1>5, <1>6
  <2>. QED BY <1>1, <1>4, <1>5, <2>1 DEF Balanced, OffBy
<1>7. CASE sign = -1
  <2>1. sign * all = -all /\ sign * gst = -gst /\ sign * net = -net
    BY <1>5, <1>7
  <2>. QED BY <1>1, <1>4, <1>5, <2>1 DEF Balanced, OffBy
<1>. QED BY <1>6, <1>7

\* What the rows lost is all that their lines are off by.
LEMMA RowsOff ==
  ASSUME NEW b \in BodyOf(Int), NEW sign \in {1, -1}
  PROVE  OffBy(DocumentLines(Rows(b), TotalOf(b), sign)) = sign * b.lost
<1>1. /\ b.sub \in Int /\ b.tax \in Int /\ b.lost \in Int /\ TotalOf(b) \in Int
  BY TotalIsInt DEF BodyOf
<1>2. TaxPosted(Rows(b)) = TaxPosted(b) /\ DocumentTaxTotal(Rows(b)) = DocumentTaxTotal(b)
  BY RowsAre DEF TaxPosted, DocumentTaxTotal
<1>3. /\ DocumentLineNet(Rows(b), TaxPosted(b)) = DocumentLineNet(b, TaxPosted(b)) - b.lost
      /\ DocumentLineNet(b, TaxPosted(b)) \in Int /\ DocumentTaxTotal(b) \in Int
  BY <1>1, RowsAre DEF DocumentLineNet, DocumentTaxTotal, BodyOf, LineAmountTypes
<1>. DEFINE net == DocumentLineNet(b, TaxPosted(b))
            d == IF b.type = "ACCREC" THEN sign * TotalOf(b) ELSE 0
            c == IF b.type = "ACCPAY" THEN sign * TotalOf(b) ELSE 0
            t == IF TaxPosted(b) THEN -(sign * DocumentTaxTotal(b)) ELSE 0
<1>4. /\ DocumentLines(b, TotalOf(b), sign) =
           [bank |-> 0, debtors |-> d, creditors |-> c, tax |-> t, coded |-> -(sign * net)]
      /\ DocumentLines(Rows(b), TotalOf(b), sign) =
           [bank |-> 0, debtors |-> d, creditors |-> c, tax |-> t,
            coded |-> -(sign * (net - b.lost))]
  BY <1>2, <1>3, RowsAre DEF DocumentLines
<1>5. d \in Int /\ c \in Int /\ t \in Int /\ net \in Int
  BY <1>1, <1>3
<1>. HIDE DEF net, d, c, t
<1>6. d + c + t + -(sign * net) = 0
  BY <1>4, <1>5, LinesBalance DEF Balanced, OffBy
<1>7. -(sign * (net - b.lost)) = -(sign * net) + sign * b.lost
  <2>1. CASE sign = 1
    BY <1>1, <1>5, <2>1
  <2>2. CASE sign = -1
    <3>1. sign * (net - b.lost) = -(net - b.lost) /\ sign * net = -net /\ sign * b.lost = -b.lost
      BY <1>1, <1>5, <2>2
    <3>. QED BY <1>1, <1>5, <3>1
  <2>. QED BY <2>1, <2>2
<1>8. sign * net \in Int /\ sign * b.lost \in Int
  BY <1>1, <1>5
<1>. QED BY <1>4, <1>5, <1>6, <1>7, <1>8 DEF OffBy

LEMMA SignIs == ASSUME NEW type PROVE Sign(type) \in {1, -1} /\ -Sign(type) \in {1, -1}
<1>1. Sign(type) = 1 \/ Sign(type) = -1
  BY DEF Sign
<1>2. -1 \in Int /\ -1 + 1 = 0 /\ \A n \in Int : n + 1 = 0 => -n = 1
  OBVIOUS
<1>. QED BY <1>1, <1>2

LEMMA PostingsAreJournals ==
  ASSUME NEW b \in BodyOf(Int), NEW total \in Int
  PROVE  /\ InvoiceJournal(b, total) \in Journal
         /\ CreditNoteJournal(b, total) \in Journal
         /\ InvoicePosting(b, total) \in Seq(Journal)
         /\ CreditNotePosting(b, total) \in Seq(Journal)
<1>1. Sign(b.type) \in {1, -1} /\ -Sign(b.type) \in {1, -1}
  BY SignIs
<1>. QED BY <1>1, LinesAreJournal
         DEF InvoiceJournal, CreditNoteJournal, InvoicePosting, CreditNotePosting

\* What the ledger keeps of a document's journal.
LEMMA KeptAreJournals ==
  ASSUME NEW b \in BodyOf(Int), NEW total \in Int
  PROVE  /\ InvoiceJournal(Rows(b), total) \in Journal
         /\ CreditNoteJournal(Rows(b), total) \in Journal
         /\ InvoicePosting(Rows(b), total) \in Seq(Journal)
         /\ CreditNotePosting(Rows(b), total) \in Seq(Journal)
BY RowsAre, PostingsAreJournals

LEMMA KeptAreOff ==
  ASSUME NEW b \in BodyOf(Int)
  PROVE  /\ OffBy(InvoiceJournal(Rows(b), TotalOf(b))) = Sign(b.type) * b.lost
         /\ OffBy(CreditNoteJournal(Rows(b), TotalOf(b))) = -(Sign(b.type) * b.lost)
<1>1. Sign(b.type) \in {1, -1} /\ -Sign(b.type) \in {1, -1} /\ b.lost \in Int
  BY SignIs DEF BodyOf
<1>2. (-Sign(b.type)) * b.lost = -(Sign(b.type) * b.lost)
  <2>1. CASE Sign(b.type) = 1
    BY <1>1, <2>1
  <2>2. CASE Sign(b.type) = -1
    BY <1>1, <2>2
  <2>. QED BY <1>1, <2>1, <2>2
<1>. QED BY <1>1, <1>2, RowsAre, RowsOff DEF InvoiceJournal, CreditNoteJournal

LEMMA PaymentIsJournal ==
  ASSUME NEW type, NEW a \in Int PROVE PaymentJournal(type, a) \in Journal
<1>1. Sign(type) * a \in Int
  <2>1. Sign(type) = 1 \/ Sign(type) = -1
    BY DEF Sign
  <2>. QED BY <2>1
<1>2. -a \in Int
  OBVIOUS
<1>. DEFINE b == Sign(type) * a
            d == IF type = "ACCREC" THEN -a ELSE 0
            c == IF type = "ACCPAY" THEN a ELSE 0
<1>3. PaymentJournal(type, a) = [Nothing EXCEPT !.bank = b, !.debtors = d, !.creditors = c]
  BY DEF PaymentJournal
<1>4. b \in Int /\ d \in Int /\ c \in Int
  BY <1>1, <1>2
<1>. HIDE DEF b, d, c
<1>5. Nothing \in Journal
  BY DEF Nothing, Journal
<1>6. \A j \in Journal : [j EXCEPT !.bank = b, !.debtors = d, !.creditors = c] \in Journal
  BY <1>4 DEF Journal
<1>. QED BY <1>3, <1>5, <1>6

LEMMA PostingsBalance ==
  ASSUME NEW b \in BodyOf(Int)
  PROVE  Accepts(InvoicePosting(b, TotalOf(b))) /\ Accepts(CreditNotePosting(b, TotalOf(b)))
<1>1. Sign(b.type) \in {1, -1} /\ -Sign(b.type) \in {1, -1}
  BY SignIs
<1>. QED BY <1>1, LinesBalance
         DEF InvoiceJournal, CreditNoteJournal, InvoicePosting, CreditNotePosting, Accepts
----------------------------------------------------------------------------
(* What the actions write, without EXCEPT. *)

InvoiceRow == [status : DocStatuses \cup {"NONE"}, body : BodyOf(Int),
               total : Int, paid : Int, credited : Int, due : Int]
NoteRow    == [status : DocStatuses \cup {"NONE"}, body : BodyOf(Int), total : Int, remaining : Int]
PaymentRow == [status : PaymentSent \cup {"NONE", "VOIDED"}, invoice : Invoices \cup {NoDoc},
               amount : Int, batch : BOOLEAN, undone : BOOLEAN]
EditRow    == [doc : Invoices \cup Notes \cup {NoDoc}, status : DocStatuses \cup {"NONE"}]

InvoiceBecomes(i, row) ==
  /\ row \in InvoiceRow
  /\ inv' \in [Invoices -> InvoiceRow]
  /\ inv'[i] = row
  /\ \A j \in Invoices \ {i} : inv'[j] = inv[j]

NoteBecomes(c, row) ==
  /\ row \in NoteRow
  /\ note' \in [Notes -> NoteRow]
  /\ note'[c] = row
  /\ \A d \in Notes \ {c} : note'[d] = note[d]

PaymentBecomes(p, row) ==
  /\ row \in PaymentRow
  /\ pay' \in [Payments -> PaymentRow]
  /\ pay'[p] = row
  /\ \A q \in Payments \ {p} : pay'[q] = pay[q]

JournalsBecome(s, js) ==
  /\ gl' \in [Sources -> Seq(Journal)]
  /\ gl'[s] = js
  /\ \A t \in Sources \ {s} : gl'[t] = gl[t]

LEMMA InvoiceWritten ==
  ASSUME inv \in [Invoices -> InvoiceRow], NEW i \in Invoices, NEW row \in InvoiceRow,
         inv' = [inv EXCEPT ![i] = row]
  PROVE  InvoiceBecomes(i, row)
BY DEF InvoiceBecomes

LEMMA NoteWritten ==
  ASSUME note \in [Notes -> NoteRow], NEW c \in Notes, NEW row \in NoteRow,
         note' = [note EXCEPT ![c] = row]
  PROVE  NoteBecomes(c, row)
BY DEF NoteBecomes

PaymentsFit ==
  /\ pay \in [Payments -> PaymentRow]
  /\ \A p \in Payments : pay[p].status # "NONE" => pay[p].invoice \in Invoices
  /\ \A p \in Payments : pay[p].undone => pay[p].status = "VOIDED"

LEMMA PaymentWritten ==
  ASSUME PaymentsFit, NEW p \in Payments, NEW row \in PaymentRow, row.invoice \in Invoices,
         row.undone => row.status = "VOIDED", pay' = [pay EXCEPT ![p] = row]
  PROVE  PaymentBecomes(p, row) /\ PaymentsFit'
<1>1. PaymentBecomes(p, row)
  BY DEF PaymentBecomes, PaymentsFit
<1>. QED BY <1>1 DEF PaymentBecomes, PaymentsFit

LEMMA Posted ==
  ASSUME gl \in [Sources -> Seq(Journal)], NEW s \in Sources, NEW js, NEW kept \in Seq(Journal)
  PROVE  /\ Post(s, js, kept) => Accepts(js) /\ JournalsBecome(s, gl[s] \o kept)
         /\ Repost(s, js, kept) => Accepts(js) /\ JournalsBecome(s, kept)
         /\ Unpost(s) => JournalsBecome(s, << >>)
         /\ UNCHANGED gl => JournalsBecome(s, gl[s])
<1>1. \A x \in Seq(Journal) : gl' = [gl EXCEPT ![s] = x] => JournalsBecome(s, x)
  BY DEF JournalsBecome
<1>2. gl[s] \o kept \in Seq(Journal) /\ << >> \in Seq(Journal)
  OBVIOUS
<1>3. UNCHANGED gl => JournalsBecome(s, gl[s])
  BY DEF JournalsBecome
<1>. QED BY <1>1, <1>2, <1>3 DEF Post, Repost, Unpost

TypeParts ==
  /\ inv \in [Invoices -> InvoiceRow]
  /\ note \in [Notes -> NoteRow]
  /\ alloc \in [Notes -> [Invoices -> Int]]
  /\ pay \in [Payments -> PaymentRow]
  /\ \A p \in Payments : pay[p].status # "NONE" => pay[p].invoice \in Invoices
  /\ \A p \in Payments : pay[p].undone => pay[p].status = "VOIDED"
  /\ adv \in [Advances -> OtherSent \cup {"NONE", "DELETED"}]
  /\ man \in [Manuals -> OtherSent \cup {"NONE", "DELETED"}]
  /\ gl \in [Sources -> Seq(Journal)]
  /\ edit \in [Users -> EditRow]
  /\ \A u \in Users : edit[u].doc # NoDoc => edit[u].status # "NONE"
  /\ odd \subseteq Kinds

LEMMA TypeIs == TypeOK <=> TypeParts
BY DEF TypeOK, TypeParts, InvoiceRow, NoteRow, PaymentRow, EditRow

----------------------------------------------------------------------------
(* Invoices. *)

InvoiceOf(status, body, total, paid, credited, due) ==
  [status |-> status, body |-> body, total |-> total, paid |-> paid, credited |-> credited,
   due |-> due]

LEMMA InvoiceFields ==
  ASSUME NEW st, NEW b, NEW total, NEW paid, NEW credited, NEW due
  PROVE  /\ InvoiceOf(st, b, total, paid, credited, due).status = st
         /\ InvoiceOf(st, b, total, paid, credited, due).body = b
         /\ InvoiceOf(st, b, total, paid, credited, due).total = total
         /\ InvoiceOf(st, b, total, paid, credited, due).paid = paid
         /\ InvoiceOf(st, b, total, paid, credited, due).credited = credited
         /\ InvoiceOf(st, b, total, paid, credited, due).due = due
BY DEF InvoiceOf

LEMMA InvoiceRewritten ==
  ASSUME inv \in [Invoices -> InvoiceRow], NEW i \in Invoices,
         NEW st \in DocStatuses, NEW b \in BodyOf(Int), NEW total \in Int, NEW due \in Int
  PROVE  /\ inv' = [inv EXCEPT ![i].status = st] =>
              InvoiceBecomes(i, InvoiceOf(st, inv[i].body, inv[i].total, inv[i].paid,
                                          inv[i].credited, inv[i].due))
         /\ inv' = [inv EXCEPT ![i].status = st, ![i].body = b, ![i].total = total, ![i].due = due] =>
              InvoiceBecomes(i, InvoiceOf(st, b, total, inv[i].paid, inv[i].credited, due))
<1>. DEFINE r == inv[i]
            marked == InvoiceOf(st, r.body, r.total, r.paid, r.credited, r.due)
            edited == InvoiceOf(st, b, total, r.paid, r.credited, due)
<1>1. r \in InvoiceRow
  OBVIOUS
<1>2. marked \in InvoiceRow /\ edited \in InvoiceRow
  BY <1>1 DEF InvoiceOf, InvoiceRow
<1>3. marked = [r EXCEPT !.status = st]
  BY <1>1 DEF InvoiceOf, InvoiceRow
<1>4. edited = [r EXCEPT !.status = st, !.body = b, !.total = total, !.due = due]
  <2>. DEFINE q == [r EXCEPT !.status = st, !.body = b, !.total = total, !.due = due]
  <2>1. q \in InvoiceRow
    BY <1>1 DEF InvoiceRow
  <2>2. /\ q.status = st /\ q.body = b /\ q.total = total /\ q.due = due
        /\ q.paid = r.paid /\ q.credited = r.credited
    BY <1>1 DEF InvoiceRow
  <2>. HIDE DEF q
  <2>3. q = edited
    BY <2>1, <2>2 DEF InvoiceRow, InvoiceOf
  <2>. QED BY <2>3 DEF q
<1>5. inv' = [inv EXCEPT ![i].status = st] => inv' = [inv EXCEPT ![i] = marked]
  BY <1>3
<1>6. inv' = [inv EXCEPT ![i].status = st, ![i].body = b, ![i].total = total, ![i].due = due]
        => inv' = [inv EXCEPT ![i] = edited]
  BY <1>4
<1>. QED BY <1>2, <1>5, <1>6, InvoiceWritten

LEMMA MaxIsInt == \A n \in Int : Max0(n) \in Int
BY DEF Max0

LEMMA CreateInvoiceDoes ==
  ASSUME TypeParts, NEW i \in Invoices, NEW b \in Bodies, NEW st \in Sent, CreateInvoice(i, b, st)
  PROVE  /\ TypeParts'
         /\ inv[i].status = "NONE"
         /\ InvoiceBecomes(i, InvoiceOf(st, b, TotalOf(b), 0, 0, TotalOf(b)))
         /\ JournalsBecome(i, IF st = "AUTHORISED" THEN gl[i] \o InvoicePosting(Rows(b), TotalOf(b))
                                                   ELSE gl[i])
         /\ odd' = odd \cup Odd("forced", st = "PAID") \cup Odd("refund", TotalOf(b) < 0)
         /\ UNCHANGED <<note, alloc, pay, adv, man, edit>>
<1>1. b \in BodyOf(Int) /\ st \in DocStatuses /\ TotalOf(b) \in Int /\ i \in Sources
  BY DocumentsAssumption, TotalIsInt DEF Sources
<1>2. InvoiceOf(st, b, TotalOf(b), 0, 0, TotalOf(b)) \in InvoiceRow
  BY <1>1 DEF InvoiceOf, InvoiceRow
<1>3. InvoiceBecomes(i, InvoiceOf(st, b, TotalOf(b), 0, 0, TotalOf(b)))
  BY <1>2, InvoiceWritten DEF CreateInvoice, InvoiceOf, TypeParts
<1>4. JournalsBecome(i, IF st = "AUTHORISED" THEN gl[i] \o InvoicePosting(Rows(b), TotalOf(b)) ELSE gl[i])
  BY <1>1, Posted, KeptAreJournals DEF CreateInvoice, TypeParts
<1>5. TypeParts'
  BY <1>3, <1>4 DEF CreateInvoice, InvoiceBecomes, JournalsBecome, TypeParts, Odd, Kinds
<1>. QED BY <1>3, <1>4, <1>5 DEF CreateInvoice
EditsFit ==
  /\ edit \in [Users -> EditRow]
  /\ \A u \in Users : edit[u].doc # NoDoc => edit[u].status # "NONE"

LEMMA EditWritten ==
  ASSUME EditsFit, NEW u \in Users, NEW row \in EditRow, row.doc # NoDoc => row.status # "NONE",
         edit' = [edit EXCEPT ![u] = row]
  PROVE  EditsFit'
<1>1. edit' \in [Users -> EditRow]
  BY DEF EditsFit
<1>2. \A v \in Users : edit'[v] = IF v = u THEN row ELSE edit[v]
  BY DEF EditsFit
<1>. QED BY <1>1, <1>2 DEF EditsFit

\* Beginning an edit, or being refused, leaves the documents alone.
LEMMA EditDoes ==
  ASSUME TypeParts, NEW u \in Users,
         \/ \E i \in Invoices : ReadInvoice(u, i)
         \/ \E c \in Notes : ReadNote(u, c)
         \/ RefuseUpdate(u)
  PROVE  TypeParts' /\ UNCHANGED <<inv, note, alloc, pay, adv, man, gl, odd>>
<1>1. \E row \in EditRow : /\ row.doc # NoDoc => row.status # "NONE"
                           /\ edit' = [edit EXCEPT ![u] = row]
  <2>1. ASSUME NEW i \in Invoices, ReadInvoice(u, i)
        PROVE  /\ [doc |-> i, status |-> inv[i].status] \in EditRow
               /\ inv[i].status # "NONE"
               /\ edit' = [edit EXCEPT ![u] = [doc |-> i, status |-> inv[i].status]]
    BY <2>1 DEF ReadInvoice, EditRow, TypeParts, InvoiceRow
  <2>2. ASSUME NEW c \in Notes, ReadNote(u, c)
        PROVE  /\ [doc |-> c, status |-> note[c].status] \in EditRow
               /\ note[c].status # "NONE"
               /\ edit' = [edit EXCEPT ![u] = [doc |-> c, status |-> note[c].status]]
    BY <2>2 DEF ReadNote, EditRow, TypeParts, NoteRow
  <2>3. ASSUME RefuseUpdate(u)
        PROVE  /\ [doc |-> NoDoc, status |-> "NONE"] \in EditRow
               /\ edit' = [edit EXCEPT ![u] = [doc |-> NoDoc, status |-> "NONE"]]
    BY <2>3 DEF RefuseUpdate, EditRow
  <2>. QED BY <2>1, <2>2, <2>3
<1>2. UNCHANGED <<inv, note, alloc, pay, adv, man, gl, odd>>
  BY DEF ReadInvoice, ReadNote, RefuseUpdate
<1>3. EditsFit'
  BY <1>1, EditWritten DEF TypeParts, EditsFit
<1>. QED BY <1>2, <1>3 DEF TypeParts, EditsFit

LEMMA UpdateInvoiceDoes ==
  ASSUME TypeParts, NEW u \in Users, NEW i \in Invoices, NEW b \in Bodies, NEW st \in DocStatuses,
         UpdateInvoice(u, i, b, st),
         NEW new, new = StatusAfterEdit(b, inv[i].paid, st),
         NEW due, due = DueAfterEdit(b, inv[i].paid)
  PROVE  /\ TypeParts'
         /\ InvoiceBecomes(i, InvoiceOf(new, b, TotalOf(b), inv[i].paid, inv[i].credited, due))
         /\ JournalsBecome(i, IF InForce(new) THEN InvoicePosting(Rows(b), TotalOf(b)) ELSE << >>)
         /\ odd' = odd \cup Odd("recredited", inv[i].credited # 0)
                       \cup Odd("overpaid", TotalOf(b) < inv[i].paid)
                       \cup Odd("retyped", b.type # inv[i].body.type)
                       \cup Odd("forced", new = "PAID" /\ due # 0)
                       \cup Odd("dropped", ~InForce(new) /\ (inv[i].paid # 0 \/ inv[i].credited # 0))
                       \cup Odd("refund", TotalOf(b) < 0)
         /\ UNCHANGED <<note, alloc, pay, adv, man>>
<1>1. /\ b \in BodyOf(Int) /\ TotalOf(b) \in Int /\ i \in Sources
      /\ inv[i] \in InvoiceRow
  BY DocumentsAssumption, TotalIsInt DEF Sources, TypeParts
<1>2. inv[i].paid \in Int /\ inv[i].credited \in Int /\ new \in DocStatuses /\ due \in Int
  BY <1>1, MaxIsInt DEF InvoiceRow, StatusAfterEdit, DueAfterEdit, DocStatuses
<1>. DEFINE row == InvoiceOf(new, b, TotalOf(b), inv[i].paid, inv[i].credited, due)
<1>3. inv' = [inv EXCEPT ![i].status = new, ![i].body = b, ![i].total = TotalOf(b), ![i].due = due]
  BY DEF UpdateInvoice
<1>6. InvoiceBecomes(i, row)
  BY <1>1, <1>2, <1>3, InvoiceRewritten DEF TypeParts
<1>7. JournalsBecome(i, IF InForce(new) THEN InvoicePosting(Rows(b), TotalOf(b)) ELSE << >>)
  <2>1. << >> \in Seq(Journal) /\ gl \in [Sources -> Seq(Journal)]
    BY DEF TypeParts
  <2>2. IF InForce(new)
        THEN Repost(i, InvoicePosting(b, TotalOf(b)), InvoicePosting(Rows(b), TotalOf(b)))
        ELSE Unpost(i)
    BY DEF UpdateInvoice
  <2>. QED BY <1>1, <2>1, <2>2, Posted, KeptAreJournals
<1>8. edit' = [edit EXCEPT ![u] = [doc |-> NoDoc, status |-> "NONE"]]
  BY DEF UpdateInvoice
<1>9. EditsFit'
  BY <1>8, EditWritten DEF TypeParts, EditsFit, EditRow
<1>10. odd' = odd \cup Odd("recredited", inv[i].credited # 0)
                  \cup Odd("overpaid", TotalOf(b) < inv[i].paid)
                  \cup Odd("retyped", b.type # inv[i].body.type)
                  \cup Odd("forced", new = "PAID" /\ due # 0)
                  \cup Odd("dropped", ~InForce(new) /\ (inv[i].paid # 0 \/ inv[i].credited # 0))
                  \cup Odd("refund", TotalOf(b) < 0)
  BY DEF UpdateInvoice
<1>11. odd' \subseteq Kinds
  BY <1>10 DEF Odd, Kinds, TypeParts
<1>12. UNCHANGED <<note, alloc, pay, adv, man>>
  BY DEF UpdateInvoice
<1>13. TypeParts'
  BY <1>6, <1>7, <1>9, <1>11, <1>12 DEF TypeParts, EditsFit, InvoiceBecomes, JournalsBecome
<1>. QED BY <1>6, <1>7, <1>10, <1>12, <1>13

LEMMA UpdateInvoiceStatusDoes ==
  ASSUME TypeParts, NEW i \in Invoices, NEW st \in DocStatuses, UpdateInvoiceStatus(i, st)
  PROVE  /\ TypeParts'
         /\ inv[i].status # "NONE" /\ TransitionAllowed(inv[i].status, st)
         /\ InvoiceBecomes(i, InvoiceOf(st, inv[i].body, inv[i].total, inv[i].paid,
                                        inv[i].credited, inv[i].due))
         /\ JournalsBecome(i, IF inv[i].status # "AUTHORISED" /\ st = "AUTHORISED"
                              THEN gl[i] \o InvoicePosting(Rows(inv[i].body), inv[i].total)
                              ELSE IF inv[i].status = "AUTHORISED" /\ st \in {"VOIDED", "DELETED"}
                              THEN << >> ELSE gl[i])
         /\ inv[i].status # "AUTHORISED" /\ st = "AUTHORISED" =>
              Accepts(InvoicePosting(Rows(inv[i].body), inv[i].total))
         /\ odd' = odd \cup Odd("forced", st = "PAID" /\ inv[i].status # "PAID" /\ inv[i].due # 0)
                       \cup Odd("dropped", st \in {"VOIDED", "DELETED"}
                                           /\ (inv[i].paid # 0 \/ inv[i].credited # 0))
         /\ UNCHANGED <<note, alloc, pay, adv, man, edit>>
<1>1. i \in Sources /\ inv[i] \in InvoiceRow
  BY DEF Sources, TypeParts
<1>2. inv[i].body \in BodyOf(Int) /\ inv[i].total \in Int
  BY <1>1 DEF InvoiceRow
<1>. DEFINE row == InvoiceOf(st, inv[i].body, inv[i].total, inv[i].paid, inv[i].credited, inv[i].due)
<1>4. inv' = [inv EXCEPT ![i].status = st]
  BY DEF UpdateInvoiceStatus
<1>5. InvoiceBecomes(i, row)
  BY <1>1, <1>2, <1>4, InvoiceRewritten DEF TypeParts
<1>6. \/ /\ inv[i].status # "AUTHORISED" /\ st = "AUTHORISED"
         /\ Post(i, InvoicePosting(Rows(inv[i].body), inv[i].total),
                    InvoicePosting(Rows(inv[i].body), inv[i].total))
      \/ /\ inv[i].status = "AUTHORISED" /\ st \in {"VOIDED", "DELETED"}
         /\ Unpost(i)
      \/ /\ ~(inv[i].status # "AUTHORISED" /\ st = "AUTHORISED")
         /\ ~(inv[i].status = "AUTHORISED" /\ st \in {"VOIDED", "DELETED"})
         /\ UNCHANGED gl
  BY DEF UpdateInvoiceStatus
<1>7. /\ JournalsBecome(i, IF inv[i].status # "AUTHORISED" /\ st = "AUTHORISED"
                           THEN gl[i] \o InvoicePosting(Rows(inv[i].body), inv[i].total)
                           ELSE IF inv[i].status = "AUTHORISED" /\ st \in {"VOIDED", "DELETED"}
                           THEN << >> ELSE gl[i])
      /\ inv[i].status # "AUTHORISED" /\ st = "AUTHORISED" =>
           Accepts(InvoicePosting(Rows(inv[i].body), inv[i].total))
  BY <1>1, <1>2, <1>6, Posted, KeptAreJournals DEF TypeParts
<1>8. TypeParts'
  BY <1>5, <1>7 DEF UpdateInvoiceStatus, InvoiceBecomes, JournalsBecome, TypeParts, Odd, Kinds
<1>. QED BY <1>5, <1>7, <1>8 DEF UpdateInvoiceStatus

LEMMA DeleteInvoiceDoes ==
  ASSUME TypeParts, NEW i \in Invoices, DeleteInvoice(i)
  PROVE  /\ TypeParts'
         /\ \/ /\ inv[i].status = "AUTHORISED"
               /\ InvoiceBecomes(i, InvoiceOf("VOIDED", inv[i].body, inv[i].total, inv[i].paid,
                                              inv[i].credited, inv[i].due))
               /\ JournalsBecome(i, << >>)
            \/ /\ inv[i].status \in {"DRAFT", "SUBMITTED"}
               /\ InvoiceBecomes(i, InvoiceOf("DELETED", inv[i].body, inv[i].total, inv[i].paid,
                                              inv[i].credited, inv[i].due))
               /\ JournalsBecome(i, gl[i])
         /\ odd' = odd \cup Odd("dropped", inv[i].paid # 0 \/ inv[i].credited # 0)
         /\ UNCHANGED <<note, alloc, pay, adv, man, edit>>
<1>1. i \in Sources /\ inv[i] \in InvoiceRow
  BY DEF Sources, TypeParts
<1>2. \A st \in DocStatuses :
        inv' = [inv EXCEPT ![i].status = st] =>
          InvoiceBecomes(i, InvoiceOf(st, inv[i].body, inv[i].total, inv[i].paid,
                                      inv[i].credited, inv[i].due))
  BY <1>1, InvoiceRewritten DEF TypeParts, InvoiceRow
<1>3. CASE inv[i].status = "AUTHORISED"
  <2>1. inv' = [inv EXCEPT ![i].status = "VOIDED"] /\ Unpost(i)
    BY <1>3 DEF DeleteInvoice
  <2>2. /\ JournalsBecome(i, << >>)
        /\ InvoiceBecomes(i, InvoiceOf("VOIDED", inv[i].body, inv[i].total, inv[i].paid,
                                       inv[i].credited, inv[i].due))
    BY <1>1, <1>2, <2>1, Posted DEF TypeParts, DocStatuses
  <2>3. TypeParts'
    BY <2>2 DEF DeleteInvoice, InvoiceBecomes, JournalsBecome, TypeParts, Odd, Kinds
  <2>. QED BY <1>3, <2>2, <2>3 DEF DeleteInvoice
<1>4. CASE inv[i].status # "AUTHORISED"
  <2>1. inv' = [inv EXCEPT ![i].status = "DELETED"] /\ UNCHANGED gl
    BY <1>4 DEF DeleteInvoice
  <2>2. /\ JournalsBecome(i, gl[i])
        /\ InvoiceBecomes(i, InvoiceOf("DELETED", inv[i].body, inv[i].total, inv[i].paid,
                                       inv[i].credited, inv[i].due))
    BY <1>1, <1>2, <2>1, Posted DEF TypeParts, DocStatuses
  <2>3. TypeParts'
    BY <2>2 DEF DeleteInvoice, InvoiceBecomes, JournalsBecome, TypeParts, Odd, Kinds
  <2>. QED BY <1>4, <2>2, <2>3 DEF DeleteInvoice
<1>. QED BY <1>3, <1>4
----------------------------------------------------------------------------
(* Payments. *)

PaymentOf(status, invoice, amount, batch, undone) ==
  [status |-> status, invoice |-> invoice, amount |-> amount, batch |-> batch, undone |-> undone]

LEMMA PaymentFields ==
  ASSUME NEW st, NEW i, NEW a, NEW batch, NEW undone
  PROVE  /\ PaymentOf(st, i, a, batch, undone).status = st
         /\ PaymentOf(st, i, a, batch, undone).invoice = i
         /\ PaymentOf(st, i, a, batch, undone).amount = a
         /\ PaymentOf(st, i, a, batch, undone).batch = batch
         /\ PaymentOf(st, i, a, batch, undone).undone = undone
BY DEF PaymentOf

\* What a payment, its void and an allocation make of an invoice.
LEMMA PaidIs ==
  ASSUME NEW r \in InvoiceRow, NEW a \in Int
  PROVE  /\ Paid(r, a) = InvoiceOf(IF r.due - a <= 0 THEN "PAID" ELSE r.status, r.body, r.total,
                                   r.paid + a, r.credited, Max0(r.due - a))
         /\ Paid(r, a) \in InvoiceRow
<1>. DEFINE q == Paid(r, a)
<1>1. r.due - a \in Int /\ Max0(r.due - a) \in Int /\ r.paid + a \in Int
  BY MaxIsInt DEF InvoiceRow
<1>2. q \in InvoiceRow
  BY <1>1 DEF InvoiceRow, Paid, DocStatuses
<1>3. /\ q.status = (IF r.due - a <= 0 THEN "PAID" ELSE r.status) /\ q.body = r.body
      /\ q.total = r.total /\ q.paid = r.paid + a /\ q.credited = r.credited
      /\ q.due = Max0(r.due - a)
  BY DEF InvoiceRow, Paid
<1>. HIDE DEF q
<1>4. q = InvoiceOf(IF r.due - a <= 0 THEN "PAID" ELSE r.status, r.body, r.total,
                    r.paid + a, r.credited, Max0(r.due - a))
  BY <1>2, <1>3 DEF InvoiceRow, InvoiceOf
<1>. QED BY <1>2, <1>4 DEF q

LEMMA UnpaidIs ==
  ASSUME NEW r \in InvoiceRow, NEW a \in Int
  PROVE  /\ Unpaid(r, a) = InvoiceOf(IF r.status = "PAID" THEN "AUTHORISED" ELSE r.status, r.body,
                                     r.total, Max0(r.paid - a), r.credited, r.due + a)
         /\ Unpaid(r, a) \in InvoiceRow
<1>. DEFINE q == Unpaid(r, a)
<1>1. r.due + a \in Int /\ Max0(r.paid - a) \in Int
  BY MaxIsInt DEF InvoiceRow
<1>2. q \in InvoiceRow
  BY <1>1 DEF InvoiceRow, Unpaid, DocStatuses
<1>3. /\ q.status = (IF r.status = "PAID" THEN "AUTHORISED" ELSE r.status) /\ q.body = r.body
      /\ q.total = r.total /\ q.paid = Max0(r.paid - a) /\ q.credited = r.credited
      /\ q.due = r.due + a
  BY DEF InvoiceRow, Unpaid
<1>. HIDE DEF q
<1>4. q = InvoiceOf(IF r.status = "PAID" THEN "AUTHORISED" ELSE r.status, r.body,
                    r.total, Max0(r.paid - a), r.credited, r.due + a)
  BY <1>2, <1>3 DEF InvoiceRow, InvoiceOf
<1>. QED BY <1>2, <1>4 DEF q

LEMMA CreditedIs ==
  ASSUME NEW r \in InvoiceRow, NEW a \in Int
  PROVE  /\ Credited(r, a) = InvoiceOf(IF r.due - a <= 0 THEN "PAID" ELSE r.status, r.body, r.total,
                                       r.paid, r.credited + a, Max0(r.due - a))
         /\ Credited(r, a) \in InvoiceRow
<1>. DEFINE q == Credited(r, a)
<1>1. r.due - a \in Int /\ Max0(r.due - a) \in Int /\ r.credited + a \in Int
  BY MaxIsInt DEF InvoiceRow
<1>2. q \in InvoiceRow
  BY <1>1 DEF InvoiceRow, Credited, DocStatuses
<1>3. /\ q.status = (IF r.due - a <= 0 THEN "PAID" ELSE r.status) /\ q.body = r.body
      /\ q.total = r.total /\ q.credited = r.credited + a /\ q.paid = r.paid
      /\ q.due = Max0(r.due - a)
  BY DEF InvoiceRow, Credited
<1>. HIDE DEF q
<1>4. q = InvoiceOf(IF r.due - a <= 0 THEN "PAID" ELSE r.status, r.body, r.total,
                    r.paid, r.credited + a, Max0(r.due - a))
  BY <1>2, <1>3 DEF InvoiceRow, InvoiceOf
<1>. QED BY <1>2, <1>4 DEF q

LEMMA CreatePaymentDoes ==
  ASSUME TypeParts, NEW p \in Payments, NEW i \in Invoices, NEW a \in Amounts, NEW st \in PaymentSent,
         \E account \in BOOLEAN : CreatePayment(p, i, a, account, st)
  PROVE  /\ TypeParts'
         /\ a \in Int /\ pay[p].status = "NONE" /\ inv[i].status # "NONE"
         /\ PaymentBecomes(p, PaymentOf(st, i, a, FALSE, FALSE))
         /\ InvoiceBecomes(i, InvoiceOf(IF inv[i].due - a <= 0 THEN "PAID" ELSE inv[i].status,
                                        inv[i].body, inv[i].total, inv[i].paid + a,
                                        inv[i].credited, Max0(inv[i].due - a)))
         /\ \/ JournalsBecome(p, gl[p] \o <<PaymentJournal(inv[i].body.type, a)>>)
            \/ JournalsBecome(p, gl[p]) /\ "unposted" \in odd'
         /\ odd \subseteq odd'
         /\ ~InForce(inv[i].status) => "early" \in odd'
         /\ inv[i].due - a < 0 => "overpaid" \in odd'
         /\ a < 0 => "refund" \in odd'
         /\ UNCHANGED <<note, alloc, adv, man, edit>>
<1>. PICK account \in BOOLEAN : CreatePayment(p, i, a, account, st)
  OBVIOUS
<1>1. p \in Sources /\ a \in Int /\ inv[i] \in InvoiceRow
  BY DocumentsAssumption DEF Sources, TypeParts
<1>2. PaymentOf(st, i, a, FALSE, FALSE) \in PaymentRow
  BY <1>1 DEF PaymentRow, PaymentOf
<1>3. PaymentBecomes(p, PaymentOf(st, i, a, FALSE, FALSE)) /\ PaymentsFit'
  <2>1. PaymentOf(st, i, a, FALSE, FALSE).invoice \in Invoices /\ ~PaymentOf(st, i, a, FALSE, FALSE).undone
    BY DEF PaymentOf
  <2>. QED BY <1>2, <2>1, PaymentWritten DEF CreatePayment, TypeParts, PaymentOf, PaymentsFit
<1>4. InvoiceBecomes(i, Paid(inv[i], a))
  BY <1>1, PaidIs, InvoiceWritten DEF CreatePayment, TypeParts
<1>5. <<PaymentJournal(inv[i].body.type, a)>> \in Seq(Journal)
  BY <1>1, PaymentIsJournal
<1>6. \/ account /\ JournalsBecome(p, gl[p] \o <<PaymentJournal(inv[i].body.type, a)>>)
      \/ ~account /\ JournalsBecome(p, gl[p])
  BY <1>1, <1>5, Posted DEF CreatePayment, TypeParts
<1>7. odd' = odd \cup Odd("early", ~InForce(inv[i].status))
                 \cup Odd("overpaid", inv[i].due - a < 0)
                 \cup Odd("refund", a < 0)
                 \cup Odd("unposted", ~account)
  BY DEF CreatePayment
<1>8. odd' \subseteq Kinds
  BY <1>7 DEF Odd, Kinds, TypeParts
<1>9. /\ odd \subseteq odd'
      /\ ~InForce(inv[i].status) => "early" \in odd'
      /\ inv[i].due - a < 0 => "overpaid" \in odd'
      /\ a < 0 => "refund" \in odd'
      /\ ~account => "unposted" \in odd'
  BY <1>7 DEF Odd
<1>10. /\ pay[p].status = "NONE" /\ inv[i].status # "NONE"
       /\ UNCHANGED <<note, alloc, adv, man, edit>>
  BY DEF CreatePayment
<1>11. TypeParts'
  BY <1>3, <1>4, <1>6, <1>8, <1>10 DEF TypeParts, InvoiceBecomes, JournalsBecome, PaymentsFit
<1>. QED BY <1>1, <1>3, <1>4, <1>6, <1>9, <1>10, <1>11, PaidIs

LEMMA VoidPaymentDoes ==
  ASSUME TypeParts, NEW p \in Payments, VoidPayment(p),
         NEW i, i = pay[p].invoice, NEW a, a = pay[p].amount
  PROVE  /\ TypeParts'
         /\ Stands(pay[p]) /\ i \in Invoices /\ a \in Int
         /\ PaymentBecomes(p, PaymentOf("VOIDED", i, a, pay[p].batch, TRUE))
         /\ InvoiceBecomes(i, InvoiceOf(IF inv[i].status = "PAID" THEN "AUTHORISED" ELSE inv[i].status,
                                        inv[i].body, inv[i].total, Max0(inv[i].paid - a),
                                        inv[i].credited, inv[i].due + a))
         /\ JournalsBecome(p, << >>)
         /\ odd' = odd \cup Odd("unbatched", pay[p].batch)
         /\ UNCHANGED <<note, alloc, adv, man, edit>>
<1>1. /\ pay[p] \in PaymentRow /\ Stands(pay[p])
      /\ i \in Invoices /\ a \in Int
  BY DEF VoidPayment, TypeParts, PaymentRow, Stands
<1>2. p \in Sources /\ inv[i] \in InvoiceRow
  BY <1>1 DEF Sources, TypeParts
<1>. DEFINE r == pay[p]
            q == [r EXCEPT !.status = "VOIDED", !.undone = TRUE]
<1>3. q \in PaymentRow
  BY <1>1 DEF PaymentRow
<1>4. q.status = "VOIDED" /\ q.invoice = i /\ q.amount = a /\ q.batch = r.batch /\ q.undone = TRUE
  BY <1>1 DEF PaymentRow
<1>5. pay' = [pay EXCEPT ![p] = q]
  BY DEF VoidPayment
<1>. HIDE DEF q, r
<1>6. q = PaymentOf("VOIDED", i, a, r.batch, TRUE)
  BY <1>3, <1>4 DEF PaymentRow, PaymentOf
<1>7. PaymentBecomes(p, PaymentOf("VOIDED", i, a, r.batch, TRUE)) /\ PaymentsFit'
  BY <1>1, <1>3, <1>4, <1>5, <1>6, PaymentWritten DEF TypeParts, PaymentsFit
<1>8. InvoiceBecomes(i, Unpaid(inv[i], a))
  BY <1>1, <1>2, UnpaidIs, InvoiceWritten DEF VoidPayment, TypeParts
<1>9. JournalsBecome(p, << >>)
  BY <1>2, Posted DEF VoidPayment, TypeParts
<1>10. odd' = odd \cup Odd("unbatched", pay[p].batch)
  BY DEF VoidPayment
<1>11. odd' \subseteq Kinds
  BY <1>10 DEF Odd, Kinds, TypeParts
<1>13. TypeParts'
  BY <1>7, <1>8, <1>9, <1>11 DEF VoidPayment, TypeParts, InvoiceBecomes, JournalsBecome, PaymentsFit
<1>. QED BY <1>1, <1>2, <1>7, <1>8, <1>9, <1>10, <1>13, UnpaidIs DEF VoidPayment, r

LEMMA CreateBatchDoes ==
  ASSUME TypeParts, NEW S \in SUBSET Payments,
         \E of \in [S -> Invoices], amount \in [S -> Amounts], st \in [S -> PaymentSent] :
           CreateBatch(S, of, amount, st)
  PROVE  /\ TypeParts'
         /\ \A p \in S : /\ pay[p].status = "NONE" /\ Stands(pay'[p])
                          /\ pay'[p].batch /\ ~pay'[p].undone /\ pay'[p].amount \in Int
         /\ \A p \in S : \E type \in InvoiceTypes :
                            gl'[p] = gl[p] \o <<PaymentJournal(type, pay'[p].amount)>>
         /\ \A p \in Payments \ S : pay'[p] = pay[p] /\ gl'[p] = gl[p]
         /\ \A s \in Sources \ Payments : gl'[s] = gl[s]
         /\ odd' = odd \cup {"batch"}
         /\ UNCHANGED <<inv, note, alloc, adv, man, edit>>
<1>. PICK of \in [S -> Invoices], amount \in [S -> Amounts], st \in [S -> PaymentSent] :
       CreateBatch(S, of, amount, st)
  OBVIOUS
<1>1. Payments \subseteq Sources
  BY DEF Sources
<1>2. ASSUME NEW p \in S
      PROVE  /\ of[p] \in Invoices /\ amount[p] \in Int
             /\ PaymentOf(st[p], of[p], amount[p], TRUE, FALSE) \in PaymentRow
             /\ <<PaymentJournal(inv[of[p]].body.type, amount[p])>> \in Seq(Journal)
  <2>1. of[p] \in Invoices /\ amount[p] \in Int
    BY DocumentsAssumption
  <2>2. PaymentJournal(inv[of[p]].body.type, amount[p]) \in Journal
    BY <2>1, PaymentIsJournal
  <2>3. PaymentOf(st[p], of[p], amount[p], TRUE, FALSE) \in PaymentRow
    BY <2>1 DEF PaymentOf, PaymentRow
  <2>4. \A j \in Journal : <<j>> \in Seq(Journal)
    OBVIOUS
  <2>. QED BY <2>1, <2>2, <2>3, <2>4
<1>3. pay' = [p \in Payments |-> IF p \in S THEN PaymentOf(st[p], of[p], amount[p], TRUE, FALSE)
                                            ELSE pay[p]]
  BY DEF CreateBatch, PaymentOf
<1>4. gl' = [s \in Sources |->
        IF s \in S THEN gl[s] \o <<PaymentJournal(inv[of[s]].body.type, amount[s])>> ELSE gl[s]]
  BY DEF CreateBatch
<1>5. pay' \in [Payments -> PaymentRow]
  BY <1>2, <1>3 DEF TypeParts
<1>6. gl' \in [Sources -> Seq(Journal)]
  <2>1. \A s \in Sources :
          (IF s \in S THEN gl[s] \o <<PaymentJournal(inv[of[s]].body.type, amount[s])>> ELSE gl[s])
            \in Seq(Journal)
    <3>1. TAKE s \in Sources
    <3>2. gl[s] \in Seq(Journal)
      BY DEF TypeParts
    <3>3. \A x, y \in Seq(Journal) : x \o y \in Seq(Journal)
      OBVIOUS
    <3>. QED BY <1>2, <3>2, <3>3
  <2>. QED BY <1>4, <2>1
<1>7. \A p \in Payments :
        \/ /\ p \in S /\ pay[p].status = "NONE"
           /\ pay'[p] = PaymentOf(st[p], of[p], amount[p], TRUE, FALSE)
           /\ gl'[p] = gl[p] \o <<PaymentJournal(inv[of[p]].body.type, amount[p])>>
        \/ p \notin S /\ pay'[p] = pay[p] /\ gl'[p] = gl[p]
  BY <1>1, <1>3, <1>4 DEF CreateBatch
<1>8. \A s \in Sources \ Payments : gl'[s] = gl[s]
  BY <1>4
<1>9. \A p \in Payments : pay'[p].status # "NONE" => pay'[p].invoice \in Invoices
  <2>1. \A p \in S : PaymentOf(st[p], of[p], amount[p], TRUE, FALSE).invoice = of[p]
    BY DEF PaymentOf
  <2>. QED BY <1>2, <1>7, <2>1 DEF TypeParts
<1>14. \A p \in Payments : pay'[p].undone => pay'[p].status = "VOIDED"
  <2>1. ASSUME NEW p \in S PROVE ~pay'[p].undone
    <3>1. pay'[p] = PaymentOf(st[p], of[p], amount[p], TRUE, FALSE)
      BY <1>7, <2>1
    <3>. QED BY <3>1 DEF PaymentOf
  <2>2. ASSUME NEW p \in Payments \ S PROVE pay'[p] = pay[p]
    BY <1>7, <2>2
  <2>. QED BY <2>1, <2>2 DEF TypeParts
<1>10. odd' = odd \cup {"batch"} /\ UNCHANGED <<inv, note, alloc, adv, man, edit>>
  BY DEF CreateBatch
<1>11. TypeParts'
  BY <1>5, <1>6, <1>9, <1>10, <1>14 DEF TypeParts, Kinds
<1>12. ASSUME NEW p \in S
       PROVE  /\ pay[p].status = "NONE" /\ Stands(pay'[p])
              /\ pay'[p].batch /\ ~pay'[p].undone /\ pay'[p].amount \in Int
              /\ \E type \in InvoiceTypes :
                   gl'[p] = gl[p] \o <<PaymentJournal(type, pay'[p].amount)>>
  <2>1. /\ pay'[p] = PaymentOf(st[p], of[p], amount[p], TRUE, FALSE)
        /\ pay[p].status = "NONE"
        /\ gl'[p] = gl[p] \o <<PaymentJournal(inv[of[p]].body.type, amount[p])>>
    BY <1>7
  <2>2. inv[of[p]].body.type \in InvoiceTypes
    BY <1>2 DEF TypeParts, InvoiceRow, BodyOf
  <2>3. /\ pay'[p].status = st[p] /\ pay'[p].batch /\ pay'[p].amount = amount[p]
        /\ ~pay'[p].undone
    BY <2>1 DEF PaymentOf
  <2>4. Stands(pay'[p])
    BY <2>3, DocumentsAssumption DEF Stands
  <2>. QED BY <1>2, <2>1, <2>2, <2>3, <2>4
<1>13. \A p \in Payments \ S : pay'[p] = pay[p] /\ gl'[p] = gl[p]
  BY <1>7
<1>. QED BY <1>8, <1>10, <1>11, <1>12, <1>13

----------------------------------------------------------------------------
(* Credit notes, advances and manual journals. *)

NoteOf(status, body, total, remaining) ==
  [status |-> status, body |-> body, total |-> total, remaining |-> remaining]

LEMMA NoteFields ==
  ASSUME NEW st, NEW b, NEW total, NEW remaining
  PROVE  /\ NoteOf(st, b, total, remaining).status = st
         /\ NoteOf(st, b, total, remaining).body = b
         /\ NoteOf(st, b, total, remaining).total = total
         /\ NoteOf(st, b, total, remaining).remaining = remaining
BY DEF NoteOf

LEMMA SpentIs ==
  ASSUME NEW n \in NoteRow, NEW a \in Int
  PROVE  /\ Spent(n, a) = NoteOf(IF n.remaining - a <= 0 THEN "PAID" ELSE n.status, n.body,
                                 n.total, n.remaining - a)
         /\ Spent(n, a) \in NoteRow
<1>. DEFINE q == Spent(n, a)
<1>1. n.remaining - a \in Int
  BY DEF NoteRow
<1>2. q \in NoteRow
  BY <1>1 DEF NoteRow, Spent, DocStatuses
<1>3. /\ q.status = (IF n.remaining - a <= 0 THEN "PAID" ELSE n.status) /\ q.body = n.body
      /\ q.total = n.total /\ q.remaining = n.remaining - a
  BY DEF NoteRow, Spent
<1>. HIDE DEF q
<1>4. q = NoteOf(IF n.remaining - a <= 0 THEN "PAID" ELSE n.status, n.body, n.total, n.remaining - a)
  BY <1>2, <1>3 DEF NoteRow, NoteOf
<1>. QED BY <1>2, <1>4 DEF q

LEMMA CreateNoteDoes ==
  ASSUME TypeParts, NEW c \in Notes, NEW b \in Bodies, NEW st \in Sent, CreateNote(c, b, st)
  PROVE  /\ TypeParts'
         /\ note[c].status = "NONE"
         /\ NoteBecomes(c, NoteOf(st, b, TotalOf(b), TotalOf(b)))
         /\ JournalsBecome(c, IF st = "AUTHORISED" THEN gl[c] \o CreditNotePosting(Rows(b), TotalOf(b))
                                                   ELSE gl[c])
         /\ odd' = odd \cup Odd("forced", st = "PAID") \cup Odd("refund", TotalOf(b) < 0)
         /\ UNCHANGED <<inv, alloc, pay, adv, man, edit>>
<1>1. b \in BodyOf(Int) /\ st \in DocStatuses /\ TotalOf(b) \in Int /\ c \in Sources
  BY DocumentsAssumption, TotalIsInt DEF Sources
<1>2. NoteOf(st, b, TotalOf(b), TotalOf(b)) \in NoteRow
  BY <1>1 DEF NoteOf, NoteRow
<1>3. NoteBecomes(c, NoteOf(st, b, TotalOf(b), TotalOf(b)))
  BY <1>2, NoteWritten DEF CreateNote, NoteOf, TypeParts
<1>4. JournalsBecome(c, IF st = "AUTHORISED" THEN gl[c] \o CreditNotePosting(Rows(b), TotalOf(b)) ELSE gl[c])
  BY <1>1, Posted, KeptAreJournals DEF CreateNote, TypeParts
<1>5. TypeParts'
  BY <1>3, <1>4 DEF CreateNote, NoteBecomes, JournalsBecome, TypeParts, Odd, Kinds
<1>. QED BY <1>3, <1>4, <1>5 DEF CreateNote

LEMMA UpdateNoteDoes ==
  ASSUME TypeParts, NEW u \in Users, NEW c \in Notes, NEW b \in Bodies, NEW st \in DocStatuses,
         UpdateNote(u, c, b, st)
  PROVE  /\ TypeParts'
         /\ NoteBecomes(c, NoteOf(st, b, TotalOf(b), TotalOf(b)))
         /\ JournalsBecome(c, IF InForce(st) THEN CreditNotePosting(Rows(b), TotalOf(b)) ELSE << >>)
         /\ odd' = odd \cup Odd("reissued", Allocated(c))
                       \cup Odd("forced", st = "PAID" /\ TotalOf(b) # 0)
                       \cup Odd("refund", TotalOf(b) < 0)
         /\ UNCHANGED <<inv, alloc, pay, adv, man>>
<1>1. b \in BodyOf(Int) /\ TotalOf(b) \in Int /\ c \in Sources
  BY DocumentsAssumption, TotalIsInt DEF Sources
<1>2. NoteOf(st, b, TotalOf(b), TotalOf(b)) \in NoteRow
  BY <1>1 DEF NoteOf, NoteRow
<1>3. NoteBecomes(c, NoteOf(st, b, TotalOf(b), TotalOf(b)))
  BY <1>2, NoteWritten DEF UpdateNote, NoteOf, TypeParts
<1>4. JournalsBecome(c, IF InForce(st) THEN CreditNotePosting(Rows(b), TotalOf(b)) ELSE << >>)
  <2>1. << >> \in Seq(Journal) /\ gl \in [Sources -> Seq(Journal)]
    BY DEF TypeParts
  <2>2. IF InForce(st)
        THEN Repost(c, CreditNotePosting(b, TotalOf(b)), CreditNotePosting(Rows(b), TotalOf(b)))
        ELSE Unpost(c)
    BY DEF UpdateNote
  <2>. QED BY <1>1, <2>1, <2>2, Posted, KeptAreJournals
<1>5. EditsFit'
  BY EditWritten DEF UpdateNote, TypeParts, EditsFit, EditRow
<1>6. odd' = odd \cup Odd("reissued", Allocated(c))
                 \cup Odd("forced", st = "PAID" /\ TotalOf(b) # 0)
                 \cup Odd("refund", TotalOf(b) < 0)
  BY DEF UpdateNote
<1>7. odd' \subseteq Kinds
  BY <1>6 DEF Odd, Kinds, TypeParts
<1>8. TypeParts'
  BY <1>3, <1>4, <1>5, <1>7 DEF UpdateNote, NoteBecomes, JournalsBecome, TypeParts, EditsFit
<1>. QED BY <1>3, <1>4, <1>6, <1>8 DEF UpdateNote

LEMMA DeleteNoteDoes ==
  ASSUME TypeParts, NEW c \in Notes, DeleteNote(c)
  PROVE  /\ TypeParts'
         /\ \/ /\ note[c].status = "AUTHORISED"
               /\ NoteBecomes(c, NoteOf("VOIDED", note[c].body, note[c].total, note[c].remaining))
               /\ JournalsBecome(c, << >>)
            \/ /\ note[c].status \in {"DRAFT", "SUBMITTED"}
               /\ NoteBecomes(c, NoteOf("DELETED", note[c].body, note[c].total, note[c].remaining))
               /\ JournalsBecome(c, gl[c])
         /\ odd' = odd \cup Odd("dropped", Allocated(c))
         /\ UNCHANGED <<inv, alloc, pay, adv, man, edit>>
<1>1. c \in Sources /\ note[c] \in NoteRow
  BY DEF Sources, TypeParts
<1>2. ASSUME NEW st \in DocStatuses, note' = [note EXCEPT ![c].status = st]
      PROVE  NoteBecomes(c, NoteOf(st, note[c].body, note[c].total, note[c].remaining))
  <2>. DEFINE r == note[c]
              q == [r EXCEPT !.status = st]
  <2>1. q \in NoteRow
    BY <1>1 DEF NoteRow
  <2>2. q.status = st /\ q.body = r.body /\ q.total = r.total /\ q.remaining = r.remaining
    BY <1>1 DEF NoteRow
  <2>3. note' = [note EXCEPT ![c] = q]
    BY <1>2
  <2>. HIDE DEF q, r
  <2>4. q = NoteOf(st, r.body, r.total, r.remaining)
    BY <2>1, <2>2 DEF NoteRow, NoteOf
  <2>5. NoteBecomes(c, q)
    BY <2>1, <2>3, NoteWritten DEF TypeParts
  <2>. QED BY <2>4, <2>5 DEF r
<1>3. CASE note[c].status = "AUTHORISED"
  <2>1. note' = [note EXCEPT ![c].status = "VOIDED"] /\ Unpost(c)
    BY <1>3 DEF DeleteNote
  <2>2. /\ JournalsBecome(c, << >>)
        /\ NoteBecomes(c, NoteOf("VOIDED", note[c].body, note[c].total, note[c].remaining))
    BY <1>1, <1>2, <2>1, Posted DEF TypeParts, DocStatuses
  <2>3. TypeParts'
    BY <2>2 DEF DeleteNote, NoteBecomes, JournalsBecome, TypeParts, Odd, Kinds
  <2>. QED BY <1>3, <2>2, <2>3 DEF DeleteNote
<1>4. CASE note[c].status # "AUTHORISED"
  <2>1. note' = [note EXCEPT ![c].status = "DELETED"] /\ UNCHANGED gl
    BY <1>4 DEF DeleteNote
  <2>2. /\ JournalsBecome(c, gl[c])
        /\ NoteBecomes(c, NoteOf("DELETED", note[c].body, note[c].total, note[c].remaining))
    BY <1>1, <1>2, <2>1, Posted DEF TypeParts, DocStatuses
  <2>3. TypeParts'
    BY <2>2 DEF DeleteNote, NoteBecomes, JournalsBecome, TypeParts, Odd, Kinds
  <2>. QED BY <1>4, <2>2, <2>3 DEF DeleteNote
<1>. QED BY <1>3, <1>4

\* The allocation adds to one cell, takes from one note and pays one invoice.
\* What an allocation gives: no more than is due.
Given(i, asked) == Min2(asked, inv[i].due)

LEMMA AllocateDoes ==
  ASSUME TypeParts, NEW c \in Notes, NEW i \in Invoices, NEW asked \in Amounts,
         Allocate(c, i, asked)
  PROVE  /\ TypeParts'
         /\ asked > 0 /\ asked \in Int /\ Given(i, asked) \in Int
         /\ Given(i, asked) <= inv[i].due /\ Given(i, asked) <= asked
         /\ inv[i].due >= 0 => Given(i, asked) >= 0
         /\ note[c].status = "AUTHORISED" /\ note[c].remaining >= asked
         /\ inv[i].status = "AUTHORISED"
         /\ alloc' \in [Notes -> [Invoices -> Int]]
         /\ alloc' = [alloc EXCEPT ![c] = [alloc[c] EXCEPT ![i] = alloc[c][i] + Given(i, asked)]]
         /\ NoteBecomes(c, NoteOf(IF note[c].remaining - Given(i, asked) <= 0 THEN "PAID"
                                  ELSE note[c].status,
                                  note[c].body, note[c].total, note[c].remaining - Given(i, asked)))
         /\ InvoiceBecomes(i, InvoiceOf(IF inv[i].due - Given(i, asked) <= 0 THEN "PAID"
                                        ELSE inv[i].status,
                                        inv[i].body, inv[i].total, inv[i].paid,
                                        inv[i].credited + Given(i, asked), Max0(inv[i].due - Given(i, asked))))
         /\ odd' = odd \cup Odd("crossed", note[c].body.type # inv[i].body.type)
         /\ UNCHANGED <<pay, adv, man, gl, edit>>
<1>. DEFINE a == Given(i, asked)
<1>1. /\ asked \in Int /\ inv[i] \in InvoiceRow /\ note[c] \in NoteRow
      /\ inv[i].due \in Int
  BY DocumentsAssumption DEF TypeParts, InvoiceRow
<1>2. a \in Int /\ a <= inv[i].due /\ a <= asked
  BY <1>1 DEF Given, Min2
<1>3. asked > 0 /\ (inv[i].due >= 0 => a >= 0)
  BY <1>1 DEF Given, Min2, Allocate
<1>. HIDE DEF a
<1>4. /\ alloc' = [alloc EXCEPT ![c][i] = @ + a]
      /\ note' = [note EXCEPT ![c] = Spent(@, a)]
      /\ inv' = [inv EXCEPT ![i] = Credited(@, a)]
  BY DEF Allocate, Given, a
<1>5. alloc' = [alloc EXCEPT ![c] = [alloc[c] EXCEPT ![i] = alloc[c][i] + a]]
  BY <1>4
<1>6. [alloc[c] EXCEPT ![i] = alloc[c][i] + a] \in [Invoices -> Int]
  BY <1>2 DEF TypeParts
<1>7. alloc' \in [Notes -> [Invoices -> Int]]
  BY <1>5, <1>6 DEF TypeParts
<1>8. NoteBecomes(c, Spent(note[c], a))
  BY <1>1, <1>2, SpentIs, NoteWritten, <1>4 DEF TypeParts
<1>9. InvoiceBecomes(i, Credited(inv[i], a))
  BY <1>1, <1>2, CreditedIs, InvoiceWritten, <1>4 DEF TypeParts
<1>10. odd' = odd \cup Odd("crossed", note[c].body.type # inv[i].body.type)
  BY DEF Allocate
<1>11. odd' \subseteq Kinds
  BY <1>10 DEF Odd, Kinds, TypeParts
<1>12. TypeParts'
  BY <1>7, <1>8, <1>9, <1>11 DEF Allocate, TypeParts, NoteBecomes, InvoiceBecomes
<1>13. /\ note[c].status = "AUTHORISED" /\ note[c].remaining >= asked
       /\ inv[i].status = "AUTHORISED"
       /\ UNCHANGED <<pay, adv, man, gl, edit>>
  BY DEF Allocate
<1>. QED BY <1>1, <1>2, <1>3, <1>5, <1>7, <1>8, <1>9, <1>10, <1>12, <1>13, SpentIs, CreditedIs
     DEF a

\* Advances touch no document of the others.
LEMMA AdvanceDoes ==
  ASSUME TypeParts, NEW v \in Advances,
         \/ \E type \in AdvanceTypes, a \in Amounts, account \in BOOLEAN, st \in OtherSent :
              CreateAdvance(v, type, a, account, st)
         \/ DeleteAdvance(v)
  PROVE  /\ TypeParts'
         /\ \A s \in Sources \ Advances : gl'[s] = gl[s]
         /\ UNCHANGED <<inv, note, alloc, pay, man, edit, odd>>
<1>1. v \in Sources
  BY DEF Sources
<1>2. \E js \in Seq(Journal) : Post(v, js, js) \/ UNCHANGED gl
  <2>1. ASSUME NEW type, NEW a \in Amounts PROVE <<AdvanceJournal(type, a)>> \in Seq(Journal)
    <3>1. AdvanceJournal(type, a) \in Journal
      BY DocumentsAssumption, PaymentIsJournal DEF AdvanceJournal
    <3>. QED BY <3>1
  <2>2. << >> \in Seq(Journal)
    OBVIOUS
  <2>. QED BY <2>1, <2>2 DEF CreateAdvance, DeleteAdvance
<1>3. \E js \in Seq(Journal) : JournalsBecome(v, js)
  <2>1. gl[v] \in Seq(Journal) /\ \A js \in Seq(Journal) : gl[v] \o js \in Seq(Journal)
    BY <1>1 DEF TypeParts
  <2>. QED BY <1>1, <1>2, <2>1, Posted DEF TypeParts
<1>4. adv' \in [Advances -> OtherSent \cup {"NONE", "DELETED"}]
  BY DEF CreateAdvance, DeleteAdvance, TypeParts
<1>5. UNCHANGED <<inv, note, alloc, pay, man, edit, odd>>
  BY DEF CreateAdvance, DeleteAdvance
<1>. QED BY <1>3, <1>4, <1>5 DEF TypeParts, JournalsBecome

LEMMA CreateManualDoes ==
  ASSUME TypeParts, NEW m \in Manuals, NEW j \in Entered, NEW st \in OtherSent,
         CreateManual(m, j, st)
  PROVE  /\ TypeParts'
         /\ man[m] = "NONE" /\ man'[m] = st
         /\ \A n \in Manuals \ {m} : man'[n] = man[n]
         /\ JournalsBecome(m, IF st \in {"AUTHORISED", "POSTED"} THEN gl[m] \o <<j>> ELSE gl[m])
         /\ UNCHANGED <<inv, note, alloc, pay, adv, edit, odd>>
<1>1. m \in Sources /\ j \in Journal
  BY DocumentsAssumption DEF Sources
<1>2. <<j>> \in Seq(Journal)
  BY <1>1
<1>3. JournalsBecome(m, IF st \in {"AUTHORISED", "POSTED"} THEN gl[m] \o <<j>> ELSE gl[m])
  BY <1>1, <1>2, Posted DEF CreateManual, TypeParts
<1>4. /\ man' \in [Manuals -> OtherSent \cup {"NONE", "DELETED"}]
      /\ man[m] = "NONE" /\ man'[m] = st
      /\ \A n \in Manuals \ {m} : man'[n] = man[n]
  BY DEF CreateManual, TypeParts
<1>. QED BY <1>3, <1>4 DEF CreateManual, TypeParts, JournalsBecome

LEMMA DeleteManualDoes ==
  ASSUME TypeParts, NEW m \in Manuals, DeleteManual(m)
  PROVE  /\ TypeParts'
         /\ \A n \in Manuals \ {m} : man'[n] = man[n]
         /\ JournalsBecome(m, << >>)
         /\ UNCHANGED <<inv, note, alloc, pay, adv, edit, odd>>
<1>1. m \in Sources
  BY DEF Sources
<1>2. JournalsBecome(m, << >>)
  BY <1>1, Posted DEF DeleteManual, TypeParts
<1>3. /\ man' \in [Manuals -> OtherSent \cup {"NONE", "DELETED"}]
      /\ \A n \in Manuals \ {m} : man'[n] = man[n]
  BY DEF DeleteManual, TypeParts
<1>. QED BY <1>2, <1>3 DEF DeleteManual, TypeParts, JournalsBecome

----------------------------------------------------------------------------
(* Types. *)

LEMMA TypeBegins == Init => TypeParts
<1>. SUFFICES ASSUME Init PROVE TypeParts
  OBVIOUS
<1>1. NoBody \in BodyOf(Int)
  BY DEF NoBody, BodyOf, InvoiceTypes, LineAmountTypes
<1>2. << >> \in Seq(Journal)
  OBVIOUS
<1>. QED BY <1>1, <1>2
         DEF Init, TypeParts, InvoiceRow, NoteRow, PaymentRow, EditRow

LEMMA TypeStep ==
  ASSUME TypeParts, [Next]_docVars
  PROVE  TypeParts'
<1>1. ASSUME NEW i \in Invoices, NEW b \in Bodies, NEW st \in Sent, CreateInvoice(i, b, st)
      PROVE  TypeParts'
  BY <1>1, CreateInvoiceDoes
<1>2. ASSUME NEW u \in Users, NEW i \in Invoices, ReadInvoice(u, i)
      PROVE  TypeParts'
  BY <1>2, EditDoes
<1>3. ASSUME NEW u \in Users, NEW i \in Invoices, NEW b \in Bodies, NEW st \in DocStatuses,
             UpdateInvoice(u, i, b, st)
      PROVE  TypeParts'
  BY <1>3, UpdateInvoiceDoes
<1>4. ASSUME NEW i \in Invoices, NEW st \in DocStatuses, UpdateInvoiceStatus(i, st)
      PROVE  TypeParts'
  BY <1>4, UpdateInvoiceStatusDoes
<1>5. ASSUME NEW i \in Invoices, DeleteInvoice(i)
      PROVE  TypeParts'
  BY <1>5, DeleteInvoiceDoes
<1>6. ASSUME NEW p \in Payments, NEW i \in Invoices, NEW a \in Amounts, NEW st \in PaymentSent,
             \E account \in BOOLEAN : CreatePayment(p, i, a, account, st)
      PROVE  TypeParts'
  BY <1>6, CreatePaymentDoes
<1>7. ASSUME NEW p \in Payments, VoidPayment(p)
      PROVE  TypeParts'
  BY <1>7, VoidPaymentDoes
<1>8. ASSUME NEW S \in SUBSET Payments,
             \E of \in [S -> Invoices], amount \in [S -> Amounts], st \in [S -> PaymentSent] :
               CreateBatch(S, of, amount, st)
      PROVE  TypeParts'
  BY <1>8, CreateBatchDoes
<1>9. ASSUME NEW c \in Notes, NEW b \in Bodies, NEW st \in Sent, CreateNote(c, b, st)
      PROVE  TypeParts'
  BY <1>9, CreateNoteDoes
<1>10. ASSUME NEW u \in Users, NEW c \in Notes, ReadNote(u, c)
      PROVE  TypeParts'
  BY <1>10, EditDoes
<1>11. ASSUME NEW u \in Users, NEW c \in Notes, NEW b \in Bodies, NEW st \in DocStatuses,
             UpdateNote(u, c, b, st)
      PROVE  TypeParts'
  BY <1>11, UpdateNoteDoes
<1>12. ASSUME NEW c \in Notes, DeleteNote(c)
      PROVE  TypeParts'
  BY <1>12, DeleteNoteDoes
<1>13. ASSUME NEW c \in Notes, NEW i \in Invoices, NEW a \in Amounts, Allocate(c, i, a)
      PROVE  TypeParts'
  BY <1>13, AllocateDoes
<1>14. ASSUME NEW v \in Advances, \E type \in AdvanceTypes, a \in Amounts, account \in BOOLEAN,
                                    st \in OtherSent : CreateAdvance(v, type, a, account, st)
      PROVE  TypeParts'
  BY <1>14, AdvanceDoes
<1>15. ASSUME NEW v \in Advances, DeleteAdvance(v)
      PROVE  TypeParts'
  BY <1>15, AdvanceDoes
<1>16. ASSUME NEW m \in Manuals, NEW j \in Entered, NEW st \in OtherSent, CreateManual(m, j, st)
      PROVE  TypeParts'
  BY <1>16, CreateManualDoes
<1>17. ASSUME NEW m \in Manuals, DeleteManual(m)
      PROVE  TypeParts'
  BY <1>17, DeleteManualDoes
<1>18. ASSUME NEW u \in Users, RefuseUpdate(u)
      PROVE  TypeParts'
  BY <1>18, EditDoes
<1>19. CASE UNCHANGED docVars
  BY <1>19 DEF docVars, TypeParts
<1>. QED BY <1>1, <1>2, <1>3, <1>4, <1>5, <1>6, <1>7, <1>8, <1>9, <1>10, <1>11, <1>12,
     <1>13, <1>14, <1>15, <1>16, <1>17, <1>18, <1>19
         DEF Next, InvoiceNext, PaymentNext, NoteNext, OtherNext

\* Every document keeps its type, a payment that was made names its invoice, and an edit
\* under way carries the status of a document that was there.
THEOREM DocumentTypes == Spec => []TypeOK
BY TypeBegins, TypeStep, TypeIs, PTL DEF Spec

----------------------------------------------------------------------------
(* Totals. *)

\* A document's total is the total of its body.
Totalled ==
  /\ \A i \in Invoices : inv[i].total = TotalOf(inv[i].body)
  /\ \A c \in Notes : note[c].total = TotalOf(note[c].body)

LEMMA TotalledBegins == Init => Totalled
BY DEF Init, Totalled, TotalOf, NoBody

LEMMA TotalledStep ==
  ASSUME TypeParts, Totalled, [Next]_docVars
  PROVE  Totalled'
<1>1. ASSUME NEW i \in Invoices, NEW b \in Bodies, NEW st \in Sent, CreateInvoice(i, b, st)
      PROVE  Totalled'
  BY <1>1, CreateInvoiceDoes, InvoiceFields DEF Totalled, InvoiceBecomes
<1>2. ASSUME NEW u \in Users, NEW i \in Invoices, ReadInvoice(u, i)
      PROVE  Totalled'
  BY <1>2, EditDoes DEF Totalled
<1>3. ASSUME NEW u \in Users, NEW i \in Invoices, NEW b \in Bodies, NEW st \in DocStatuses,
             UpdateInvoice(u, i, b, st)
      PROVE  Totalled'
  BY <1>3, UpdateInvoiceDoes, InvoiceFields DEF Totalled, InvoiceBecomes
<1>4. ASSUME NEW i \in Invoices, NEW st \in DocStatuses, UpdateInvoiceStatus(i, st)
      PROVE  Totalled'
  BY <1>4, UpdateInvoiceStatusDoes, InvoiceFields DEF Totalled, InvoiceBecomes
<1>5. ASSUME NEW i \in Invoices, DeleteInvoice(i)
      PROVE  Totalled'
  BY <1>5, DeleteInvoiceDoes, InvoiceFields DEF Totalled, InvoiceBecomes
<1>6. ASSUME NEW p \in Payments, NEW i \in Invoices, NEW a \in Amounts, NEW st \in PaymentSent,
             \E account \in BOOLEAN : CreatePayment(p, i, a, account, st)
      PROVE  Totalled'
  <2>1. /\ inv'[i].total = inv[i].total /\ inv'[i].body = inv[i].body
        /\ \A j \in Invoices \ {i} : inv'[j] = inv[j]
        /\ note' = note
    <3>1. /\ InvoiceBecomes(i, InvoiceOf(IF inv[i].due - a <= 0 THEN "PAID" ELSE inv[i].status,
                                          inv[i].body, inv[i].total, inv[i].paid + a,
                                          inv[i].credited, Max0(inv[i].due - a)))
          /\ note' = note
      BY <1>6, CreatePaymentDoes
    <3>. QED BY <3>1, InvoiceFields DEF InvoiceBecomes
  <2>. QED BY <2>1 DEF Totalled
<1>7. ASSUME NEW p \in Payments, VoidPayment(p)
      PROVE  Totalled'
  <2>. DEFINE i == pay[p].invoice
              a == pay[p].amount
  <2>1. /\ i \in Invoices /\ note' = note
        /\ InvoiceBecomes(i, InvoiceOf(IF inv[i].status = "PAID" THEN "AUTHORISED" ELSE inv[i].status,
                                       inv[i].body, inv[i].total, Max0(inv[i].paid - a),
                                       inv[i].credited, inv[i].due + a))
    BY <1>7, VoidPaymentDoes
  <2>2. /\ inv'[i].total = inv[i].total /\ inv'[i].body = inv[i].body
        /\ \A j \in Invoices \ {i} : inv'[j] = inv[j]
    BY <2>1, InvoiceFields DEF InvoiceBecomes
  <2>. QED BY <2>1, <2>2 DEF Totalled
<1>8. ASSUME NEW S \in SUBSET Payments,
             \E of \in [S -> Invoices], amount \in [S -> Amounts], st \in [S -> PaymentSent] :
               CreateBatch(S, of, amount, st)
      PROVE  Totalled'
  <2>1. UNCHANGED <<inv, note>>
    BY <1>8, CreateBatchDoes
  <2>. QED BY <2>1 DEF Totalled
<1>9. ASSUME NEW c \in Notes, NEW b \in Bodies, NEW st \in Sent, CreateNote(c, b, st)
      PROVE  Totalled'
  BY <1>9, CreateNoteDoes, NoteFields DEF Totalled, NoteBecomes
<1>10. ASSUME NEW u \in Users, NEW c \in Notes, ReadNote(u, c)
      PROVE  Totalled'
  BY <1>10, EditDoes DEF Totalled
<1>11. ASSUME NEW u \in Users, NEW c \in Notes, NEW b \in Bodies, NEW st \in DocStatuses,
             UpdateNote(u, c, b, st)
      PROVE  Totalled'
  BY <1>11, UpdateNoteDoes, NoteFields DEF Totalled, NoteBecomes
<1>12. ASSUME NEW c \in Notes, DeleteNote(c)
      PROVE  Totalled'
  BY <1>12, DeleteNoteDoes, NoteFields DEF Totalled, NoteBecomes
<1>13. ASSUME NEW c \in Notes, NEW i \in Invoices, NEW a \in Amounts, Allocate(c, i, a)
      PROVE  Totalled'
  <2>1. /\ inv'[i].total = inv[i].total /\ inv'[i].body = inv[i].body
        /\ \A j \in Invoices \ {i} : inv'[j] = inv[j]
    BY <1>13, AllocateDoes, InvoiceFields DEF InvoiceBecomes
  <2>2. /\ note'[c].total = note[c].total /\ note'[c].body = note[c].body
        /\ \A d \in Notes \ {c} : note'[d] = note[d]
    BY <1>13, AllocateDoes, NoteFields DEF NoteBecomes
  <2>. QED BY <2>1, <2>2 DEF Totalled
<1>14. ASSUME NEW v \in Advances, \E type \in AdvanceTypes, a \in Amounts, account \in BOOLEAN,
                                    st \in OtherSent : CreateAdvance(v, type, a, account, st)
      PROVE  Totalled'
  BY <1>14, AdvanceDoes DEF Totalled
<1>15. ASSUME NEW v \in Advances, DeleteAdvance(v)
      PROVE  Totalled'
  BY <1>15, AdvanceDoes DEF Totalled
<1>16. ASSUME NEW m \in Manuals, NEW j \in Entered, NEW st \in OtherSent, CreateManual(m, j, st)
      PROVE  Totalled'
  BY <1>16, CreateManualDoes DEF Totalled
<1>17. ASSUME NEW m \in Manuals, DeleteManual(m)
      PROVE  Totalled'
  BY <1>17, DeleteManualDoes DEF Totalled
<1>18. ASSUME NEW u \in Users, RefuseUpdate(u)
      PROVE  Totalled'
  BY <1>18, EditDoes DEF Totalled
<1>19. CASE UNCHANGED docVars
  BY <1>19 DEF docVars, Totalled
<1>. QED BY <1>1, <1>2, <1>3, <1>4, <1>5, <1>6, <1>7, <1>8, <1>9, <1>10, <1>11, <1>12,
     <1>13, <1>14, <1>15, <1>16, <1>17, <1>18, <1>19
         DEF Next, InvoiceNext, PaymentNext, NoteNext, OtherNext

----------------------------------------------------------------------------
(* The ledger and its documents. *)

InvoiceInLedger(i) ==
  gl[i] # << >> => /\ InForce(inv[i].status)
                   /\ gl[i] = <<InvoiceJournal(Rows(inv[i].body), inv[i].total)>>

NoteInLedger(c) ==
  gl[c] # << >> => /\ InForce(note[c].status)
                   /\ gl[c] = <<CreditNoteJournal(Rows(note[c].body), note[c].total)>>

PaymentInLedger(p) ==
  gl[p] # << >> => /\ Stands(pay[p])
                   /\ \E type \in InvoiceTypes : gl[p] = <<PaymentJournal(type, pay[p].amount)>>

ManualInLedger(m) ==
  gl[m] # << >> => man[m] \in {"AUTHORISED", "POSTED"} /\ Len(gl[m]) = 1

Ordered == odd \cap {"early", "forced"} = {}

ApprovedInLedger(i) == InForce(inv[i].status) /\ inv[i].total # 0 => gl[i] # << >>

LedgerInv == JournalOfItsDocument /\ ApprovedIsPostedInOrder

LEMMA LedgerParts ==
  LedgerInv <=> /\ \A i \in Invoices : InvoiceInLedger(i) /\ (Ordered => ApprovedInLedger(i))
                /\ \A c \in Notes : NoteInLedger(c)
                /\ \A p \in Payments : PaymentInLedger(p)
                /\ \A m \in Manuals : ManualInLedger(m)
BY DEF LedgerInv, JournalOfItsDocument, ApprovedIsPostedInOrder, Ordered, InvoiceInLedger,
       NoteInLedger, PaymentInLedger, ManualInLedger, ApprovedInLedger

\* Only documents in S, and their journals, change.
Outside(S) ==
  /\ \A i \in Invoices \ S : inv'[i] = inv[i] /\ gl'[i] = gl[i]
  /\ \A c \in Notes \ S : note'[c] = note[c] /\ gl'[c] = gl[c]
  /\ \A p \in Payments \ S : pay'[p] = pay[p] /\ gl'[p] = gl[p]
  /\ \A m \in Manuals \ S : man'[m] = man[m] /\ gl'[m] = gl[m]

LEMMA OnlyInvoice ==
  ASSUME NEW i \in Invoices, NEW row, NEW js, InvoiceBecomes(i, row), JournalsBecome(i, js),
         UNCHANGED <<note, pay, man>>
  PROVE  Outside({i})
BY SourcesDisjoint DEF Outside, InvoiceBecomes, JournalsBecome, Sources

LEMMA OnlyPayment ==
  ASSUME NEW i \in Invoices, NEW p \in Payments, NEW row, NEW pr, NEW js,
         InvoiceBecomes(i, row), PaymentBecomes(p, pr), JournalsBecome(p, js),
         UNCHANGED <<note, man>>
  PROVE  Outside({i, p}) /\ gl'[i] = gl[i]
BY SourcesDisjoint DEF Outside, InvoiceBecomes, PaymentBecomes, JournalsBecome, Sources

LEMMA OnlyNote ==
  ASSUME NEW c \in Notes, NEW row, NEW js, NoteBecomes(c, row), JournalsBecome(c, js),
         UNCHANGED <<inv, pay, man>>
  PROVE  Outside({c})
BY SourcesDisjoint DEF Outside, NoteBecomes, JournalsBecome, Sources

LEMMA OnlyManual ==
  ASSUME NEW m \in Manuals, \A n \in Manuals \ {m} : man'[n] = man[n],
         NEW js, JournalsBecome(m, js), UNCHANGED <<inv, note, pay>>
  PROVE  Outside({m})
BY SourcesDisjoint DEF Outside, JournalsBecome, Sources

\* What a step did not touch is as it was; what it did touch is to be shown.
LEMMA Elsewhere ==
  ASSUME LedgerInv, NEW S, Outside(S), odd \subseteq odd',
         \A i \in Invoices \cap S : InvoiceInLedger(i)' /\ (Ordered' => ApprovedInLedger(i)'),
         \A c \in Notes \cap S : NoteInLedger(c)',
         \A p \in Payments \cap S : PaymentInLedger(p)',
         \A m \in Manuals \cap S : ManualInLedger(m)'
  PROVE  LedgerInv'
<1>1. Ordered' => Ordered
  BY DEF Ordered
<1>2. \A i \in Invoices : InvoiceInLedger(i)' /\ (Ordered' => ApprovedInLedger(i)')
  BY <1>1, LedgerParts DEF Outside, InvoiceInLedger, ApprovedInLedger
<1>3. \A c \in Notes : NoteInLedger(c)'
  BY LedgerParts DEF Outside, NoteInLedger
<1>4. \A p \in Payments : PaymentInLedger(p)'
  BY LedgerParts DEF Outside, PaymentInLedger
<1>5. \A m \in Manuals : ManualInLedger(m)'
  BY LedgerParts DEF Outside, ManualInLedger
<1>. QED BY <1>2, <1>3, <1>4, <1>5
         DEF LedgerInv, JournalOfItsDocument, ApprovedIsPostedInOrder, Ordered, InvoiceInLedger,
             NoteInLedger, PaymentInLedger, ManualInLedger, ApprovedInLedger

LEMMA FirstJournal == ASSUME NEW js \in Seq(Journal) PROVE << >> \o js = js
OBVIOUS

LEMMA LedgerBegins == Init => LedgerInv
BY SourcesDisjoint DEF Init, LedgerInv, JournalOfItsDocument, ApprovedIsPostedInOrder, Sources, InForce

LEMMA LedgerStep ==
  ASSUME TypeParts, LedgerInv, [Next]_docVars
  PROVE  LedgerInv'
<1>1. ASSUME NEW i \in Invoices, NEW b \in Bodies, NEW st \in Sent, CreateInvoice(i, b, st)
      PROVE  LedgerInv'
  <2>1. /\ Outside({i}) /\ odd \subseteq odd'
        /\ gl'[i] = (IF st = "AUTHORISED" THEN InvoicePosting(Rows(b), TotalOf(b)) ELSE << >>)
    <3>1. /\ Outside({i}) /\ odd \subseteq odd' /\ inv[i].status = "NONE"
          /\ gl'[i] = (IF st = "AUTHORISED" THEN gl[i] \o InvoicePosting(Rows(b), TotalOf(b)) ELSE gl[i])
      BY <1>1, CreateInvoiceDoes, OnlyInvoice DEF JournalsBecome
    <3>2. gl[i] = << >>
      BY <3>1, LedgerParts DEF InvoiceInLedger, InForce
    <3>3. InvoicePosting(Rows(b), TotalOf(b)) \in Seq(Journal)
      BY DocumentsAssumption, TotalIsInt, KeptAreJournals
    <3>. QED BY <3>1, <3>2, <3>3, FirstJournal
  <2>2. inv'[i].status = st /\ inv'[i].body = b /\ inv'[i].total = TotalOf(b)
    BY <1>1, CreateInvoiceDoes, InvoiceFields DEF InvoiceBecomes
  <2>3. st = "PAID" => "forced" \in odd'
    BY <1>1, CreateInvoiceDoes DEF Odd
  <2>4. InvoiceInLedger(i)' /\ (Ordered' => ApprovedInLedger(i)')
    BY <2>1, <2>2, <2>3, LedgerParts
    DEF InvoiceInLedger, ApprovedInLedger, Ordered, InForce, InvoicePosting, Odd
  <2>. QED BY <2>1, <2>4, SourcesDisjoint, Elsewhere
<1>2. ASSUME NEW u \in Users, NEW i \in Invoices, ReadInvoice(u, i)
      PROVE  LedgerInv'
  <2>1. Outside({}) /\ odd \subseteq odd'
    BY <1>2, EditDoes DEF Outside
  <2>. QED BY <2>1, Elsewhere
<1>3. ASSUME NEW u \in Users, NEW i \in Invoices, NEW b \in Bodies, NEW st \in DocStatuses,
             UpdateInvoice(u, i, b, st)
      PROVE  LedgerInv'
  <2>. DEFINE new == StatusAfterEdit(b, inv[i].paid, st)
  <2>1. /\ Outside({i}) /\ odd \subseteq odd'
        /\ gl'[i] = (IF InForce(new) THEN InvoicePosting(Rows(b), TotalOf(b)) ELSE << >>)
    BY <1>3, UpdateInvoiceDoes, OnlyInvoice DEF JournalsBecome
  <2>2. inv'[i].status = new /\ inv'[i].body = b /\ inv'[i].total = TotalOf(b)
    BY <1>3, UpdateInvoiceDoes, InvoiceFields DEF InvoiceBecomes
  <2>4. InvoiceInLedger(i)' /\ (Ordered' => ApprovedInLedger(i)')
    BY <2>1, <2>2, LedgerParts
    DEF InvoiceInLedger, ApprovedInLedger, Ordered, InForce, InvoicePosting, Odd
  <2>. QED BY <2>1, <2>4, SourcesDisjoint, Elsewhere
<1>4. ASSUME NEW i \in Invoices, NEW st \in DocStatuses, UpdateInvoiceStatus(i, st)
      PROVE  LedgerInv'
  <2>1. /\ Outside({i}) /\ odd \subseteq odd'
        /\ gl'[i] = (IF inv[i].status # "AUTHORISED" /\ st = "AUTHORISED"
                     THEN InvoicePosting(Rows(inv[i].body), inv[i].total)
                     ELSE IF inv[i].status = "AUTHORISED" /\ st \in {"VOIDED", "DELETED"}
                     THEN << >> ELSE gl[i])
    <3>1. /\ Outside({i}) /\ odd \subseteq odd' /\ TransitionAllowed(inv[i].status, st)
          /\ gl'[i] = (IF inv[i].status # "AUTHORISED" /\ st = "AUTHORISED"
                       THEN gl[i] \o InvoicePosting(Rows(inv[i].body), inv[i].total)
                       ELSE IF inv[i].status = "AUTHORISED" /\ st \in {"VOIDED", "DELETED"}
                       THEN << >> ELSE gl[i])
      BY <1>4, UpdateInvoiceStatusDoes, OnlyInvoice DEF JournalsBecome
    <3>2. inv[i].status # "AUTHORISED" /\ st = "AUTHORISED" => gl[i] = << >>
      BY <3>1, LedgerParts DEF InvoiceInLedger, InForce, TransitionAllowed
    <3>3. InvoicePosting(Rows(inv[i].body), inv[i].total) \in Seq(Journal)
      BY KeptAreJournals DEF TypeParts, InvoiceRow
    <3>. QED BY <3>1, <3>2, <3>3, FirstJournal
  <2>2. inv'[i].status = st /\ inv'[i].body = inv[i].body /\ inv'[i].total = inv[i].total
    BY <1>4, UpdateInvoiceStatusDoes, InvoiceFields DEF InvoiceBecomes
  <2>3. TransitionAllowed(inv[i].status, st)
    BY <1>4, UpdateInvoiceStatusDoes
  <2>4. InvoiceInLedger(i)' /\ (Ordered' => ApprovedInLedger(i)')
    BY <2>1, <2>2, <2>3, LedgerParts
    DEF InvoiceInLedger, ApprovedInLedger, Ordered, InForce, InvoicePosting, Odd, TransitionAllowed
  <2>. QED BY <2>1, <2>4, SourcesDisjoint, Elsewhere
<1>5. ASSUME NEW i \in Invoices, DeleteInvoice(i)
      PROVE  LedgerInv'
  <2>1. Outside({i}) /\ odd \subseteq odd'
    BY <1>5, DeleteInvoiceDoes, OnlyInvoice
  <2>2. \/ /\ inv[i].status = "AUTHORISED" /\ inv'[i].status = "VOIDED"
           /\ gl'[i] = << >>
        \/ /\ inv[i].status \in {"DRAFT", "SUBMITTED"} /\ inv'[i].status = "DELETED"
           /\ gl'[i] = gl[i]
    BY <1>5, DeleteInvoiceDoes, InvoiceFields DEF InvoiceBecomes, JournalsBecome
  <2>3. InvoiceInLedger(i)' /\ (Ordered' => ApprovedInLedger(i)')
    BY <2>2, LedgerParts DEF InvoiceInLedger, ApprovedInLedger, InForce
  <2>. QED BY <2>1, <2>3, SourcesDisjoint, Elsewhere
<1>6. ASSUME NEW p \in Payments, NEW i \in Invoices, NEW a \in Amounts, NEW st \in PaymentSent,
             \E account \in BOOLEAN : CreatePayment(p, i, a, account, st)
      PROVE  LedgerInv'
  <2>. DEFINE left == inv[i].due - a
  <2>1. /\ InvoiceBecomes(i, InvoiceOf(IF left <= 0 THEN "PAID" ELSE inv[i].status, inv[i].body,
                                       inv[i].total, inv[i].paid + a, inv[i].credited, Max0(left)))
        /\ PaymentBecomes(p, PaymentOf(st, i, a, FALSE, FALSE))
        /\ pay[p].status = "NONE" /\ UNCHANGED <<note, man>>
        /\ \/ JournalsBecome(p, gl[p] \o <<PaymentJournal(inv[i].body.type, a)>>)
           \/ JournalsBecome(p, gl[p])
        /\ odd \subseteq odd' /\ (~InForce(inv[i].status) => "early" \in odd')
    BY <1>6, CreatePaymentDoes
  <2>2. Outside({i, p}) /\ gl'[i] = gl[i]
    BY <2>1, OnlyPayment
  <2>3. /\ inv'[i].status \in {"PAID", inv[i].status}
        /\ inv'[i].body = inv[i].body /\ inv'[i].total = inv[i].total
    BY <2>1, InvoiceFields DEF InvoiceBecomes
  <2>4. InvoiceInLedger(i)' /\ (Ordered' => ApprovedInLedger(i)')
    BY <2>1, <2>2, <2>3, LedgerParts DEF InvoiceInLedger, ApprovedInLedger, Ordered, InForce
  <2>5. Stands(pay'[p]) /\ pay'[p].amount = a
    <3>1. pay'[p] = PaymentOf(st, i, a, FALSE, FALSE)
      BY <2>1 DEF PaymentBecomes
    <3>2. pay'[p].status = st /\ pay'[p].amount = a /\ ~pay'[p].undone
      BY <3>1 DEF PaymentOf
    <3>3. st # "NONE"
      BY DocumentsAssumption
    <3>. QED BY <3>2, <3>3 DEF Stands
  <2>6. gl[p] = << >>
    BY <2>1, LedgerParts DEF PaymentInLedger, Stands
  <2>7. gl'[p] \in {<< >>, <<PaymentJournal(inv[i].body.type, a)>>}
    <3>1. gl'[p] \in {gl[p], gl[p] \o <<PaymentJournal(inv[i].body.type, a)>>}
      BY <2>1 DEF JournalsBecome
    <3>2. <<PaymentJournal(inv[i].body.type, a)>> \in Seq(Journal)
      <4>1. PaymentJournal(inv[i].body.type, a) \in Journal
        BY DocumentsAssumption, PaymentIsJournal
      <4>. QED BY <4>1
    <3>. QED BY <2>6, <3>1, <3>2, FirstJournal
  <2>8. inv[i].body.type \in InvoiceTypes
    BY DEF TypeParts, InvoiceRow, BodyOf
  <2>9. PaymentInLedger(p)'
    BY <2>5, <2>7, <2>8 DEF PaymentInLedger
  <2>. QED BY <2>1, <2>2, <2>4, <2>9, SourcesDisjoint, Elsewhere
<1>7. ASSUME NEW p \in Payments, VoidPayment(p)
      PROVE  LedgerInv'
  <2>1. pay[p].invoice \in Invoices
    BY <1>7, VoidPaymentDoes
  <2>. PICK i \in Invoices : i = pay[p].invoice
    BY <2>1
  <2>. PICK a : a = pay[p].amount
    OBVIOUS
  <2>2. /\ InvoiceBecomes(i, InvoiceOf(IF inv[i].status = "PAID" THEN "AUTHORISED" ELSE inv[i].status,
                                       inv[i].body, inv[i].total, Max0(inv[i].paid - a),
                                       inv[i].credited, inv[i].due + a))
        /\ PaymentBecomes(p, PaymentOf("VOIDED", i, a, pay[p].batch, TRUE))
        /\ UNCHANGED <<note, man>> /\ JournalsBecome(p, << >>) /\ odd \subseteq odd'
    BY <1>7, VoidPaymentDoes
  <2>3. Outside({i, p}) /\ gl'[i] = gl[i] /\ gl'[p] = << >>
    BY <2>2, OnlyPayment DEF JournalsBecome
  <2>4. /\ inv'[i].status = (IF inv[i].status = "PAID" THEN "AUTHORISED" ELSE inv[i].status)
        /\ inv'[i].body = inv[i].body /\ inv'[i].total = inv[i].total
    BY <2>2, InvoiceFields DEF InvoiceBecomes
  <2>5. Ordered' => Ordered
    BY <2>2 DEF Ordered
  <2>6. InvoiceInLedger(i)' /\ (Ordered' => ApprovedInLedger(i)')
    BY <2>3, <2>4, <2>5, LedgerParts DEF InvoiceInLedger, ApprovedInLedger, InForce
  <2>7. PaymentInLedger(p)'
    BY <2>3 DEF PaymentInLedger
  <2>. QED BY <2>2, <2>3, <2>6, <2>7, SourcesDisjoint, Elsewhere
<1>8. ASSUME NEW S \in SUBSET Payments,
             \E of \in [S -> Invoices], amount \in [S -> Amounts], st \in [S -> PaymentSent] :
               CreateBatch(S, of, amount, st)
      PROVE  LedgerInv'
  <2>1. Outside(S) /\ odd \subseteq odd'
    <3>1. UNCHANGED <<inv, note, man>> /\ odd \subseteq odd'
      BY <1>8, CreateBatchDoes
    <3>2. /\ \A p \in Payments \ S : pay'[p] = pay[p] /\ gl'[p] = gl[p]
          /\ \A s \in Sources \ Payments : gl'[s] = gl[s]
      BY <1>8, CreateBatchDoes
    <3>. QED BY <3>1, <3>2, SourcesDisjoint DEF Outside, Sources
  <2>2. ASSUME NEW p \in Payments \cap S PROVE PaymentInLedger(p)'
    <3>1. /\ pay[p].status = "NONE" /\ Stands(pay'[p])
          /\ pay'[p].amount \in Int
      BY <1>8, CreateBatchDoes
    <3>4. \A q \in S : \E type \in InvoiceTypes :
            gl'[q] = gl[q] \o <<PaymentJournal(type, pay'[q].amount)>>
      BY <1>8, CreateBatchDoes
    <3>2. gl[p] = << >>
      BY <3>1, LedgerParts DEF PaymentInLedger, Stands
    <3>3. ASSUME NEW type \in InvoiceTypes
          PROVE  << >> \o <<PaymentJournal(type, pay'[p].amount)>> = <<PaymentJournal(type, pay'[p].amount)>>
      <4>1. PaymentJournal(type, pay'[p].amount) \in Journal
        BY <3>1, PaymentIsJournal
      <4>2. <<PaymentJournal(type, pay'[p].amount)>> \in Seq(Journal)
        BY <4>1
      <4>. QED BY <4>2, FirstJournal
    <3>. QED BY <3>1, <3>2, <3>3, <3>4 DEF PaymentInLedger
  <2>. QED BY <2>1, <2>2, SourcesDisjoint, Elsewhere
<1>9. ASSUME NEW c \in Notes, NEW b \in Bodies, NEW st \in Sent, CreateNote(c, b, st)
      PROVE  LedgerInv'
  <2>1. /\ Outside({c}) /\ odd \subseteq odd'
        /\ gl'[c] = (IF st = "AUTHORISED" THEN CreditNotePosting(Rows(b), TotalOf(b)) ELSE << >>)
    <3>1. /\ Outside({c}) /\ odd \subseteq odd' /\ note[c].status = "NONE"
          /\ gl'[c] = (IF st = "AUTHORISED" THEN gl[c] \o CreditNotePosting(Rows(b), TotalOf(b)) ELSE gl[c])
      BY <1>9, CreateNoteDoes, OnlyNote DEF JournalsBecome
    <3>2. gl[c] = << >>
      BY <3>1, LedgerParts DEF NoteInLedger, InForce
    <3>3. CreditNotePosting(Rows(b), TotalOf(b)) \in Seq(Journal)
      BY DocumentsAssumption, TotalIsInt, KeptAreJournals
    <3>. QED BY <3>1, <3>2, <3>3, FirstJournal
  <2>2. note'[c].status = st /\ note'[c].body = b /\ note'[c].total = TotalOf(b)
    BY <1>9, CreateNoteDoes, NoteFields DEF NoteBecomes
  <2>4. NoteInLedger(c)'
    BY <2>1, <2>2, LedgerParts
    DEF NoteInLedger, InForce, CreditNotePosting
  <2>. QED BY <2>1, <2>4, SourcesDisjoint, Elsewhere
<1>10. ASSUME NEW u \in Users, NEW c \in Notes, ReadNote(u, c)
      PROVE  LedgerInv'
  <2>1. Outside({}) /\ odd \subseteq odd'
    BY <1>10, EditDoes DEF Outside
  <2>. QED BY <2>1, Elsewhere
<1>11. ASSUME NEW u \in Users, NEW c \in Notes, NEW b \in Bodies, NEW st \in DocStatuses,
             UpdateNote(u, c, b, st)
      PROVE  LedgerInv'
  <2>1. /\ Outside({c}) /\ odd \subseteq odd'
        /\ gl'[c] = (IF InForce(st) THEN CreditNotePosting(Rows(b), TotalOf(b)) ELSE << >>)
    BY <1>11, UpdateNoteDoes, OnlyNote DEF JournalsBecome
  <2>2. note'[c].status = st /\ note'[c].body = b /\ note'[c].total = TotalOf(b)
    BY <1>11, UpdateNoteDoes, NoteFields DEF NoteBecomes
  <2>4. NoteInLedger(c)'
    BY <2>1, <2>2, LedgerParts
    DEF NoteInLedger, InForce, CreditNotePosting
  <2>. QED BY <2>1, <2>4, SourcesDisjoint, Elsewhere
<1>12. ASSUME NEW c \in Notes, DeleteNote(c)
      PROVE  LedgerInv'
  <2>1. Outside({c}) /\ odd \subseteq odd'
    BY <1>12, DeleteNoteDoes, OnlyNote
  <2>2. \/ gl'[c] = << >>
        \/ note[c].status \in {"DRAFT", "SUBMITTED"} /\ gl'[c] = gl[c]
    BY <1>12, DeleteNoteDoes DEF JournalsBecome
  <2>3. NoteInLedger(c)'
    BY <2>2, LedgerParts DEF NoteInLedger, InForce
  <2>. QED BY <2>1, <2>3, SourcesDisjoint, Elsewhere
<1>13. ASSUME NEW c \in Notes, NEW i \in Invoices, NEW a \in Amounts, Allocate(c, i, a)
      PROVE  LedgerInv'
  <2>1. /\ InvoiceBecomes(i, InvoiceOf(IF inv[i].due - Given(i, a) <= 0 THEN "PAID" ELSE inv[i].status,
                                       inv[i].body, inv[i].total, inv[i].paid,
                                       inv[i].credited + Given(i, a), Max0(inv[i].due - Given(i, a))))
        /\ NoteBecomes(c, NoteOf(IF note[c].remaining - Given(i, a) <= 0 THEN "PAID"
                                 ELSE note[c].status,
                                 note[c].body, note[c].total, note[c].remaining - Given(i, a)))
        /\ note[c].status = "AUTHORISED" /\ inv[i].status = "AUTHORISED"
        /\ UNCHANGED <<pay, man, gl>> /\ odd \subseteq odd'
    BY <1>13, AllocateDoes
  <2>2. /\ inv'[i].status \in {"PAID", "AUTHORISED"}
        /\ inv'[i].body = inv[i].body /\ inv'[i].total = inv[i].total
    BY <2>1, InvoiceFields DEF InvoiceBecomes
  <2>3. /\ note'[c].status \in {"PAID", "AUTHORISED"}
        /\ note'[c].body = note[c].body /\ note'[c].total = note[c].total
    BY <2>1, NoteFields DEF NoteBecomes
  <2>4. Outside({i, c})
    BY <2>1 DEF Outside, InvoiceBecomes, NoteBecomes
  <2>5. Ordered' => Ordered
    BY <2>1 DEF Ordered
  <2>6. InvoiceInLedger(i)' /\ (Ordered' => ApprovedInLedger(i)')
    BY <2>1, <2>2, <2>5, LedgerParts DEF InvoiceInLedger, ApprovedInLedger, InForce
  <2>7. NoteInLedger(c)'
    BY <2>1, <2>3, LedgerParts DEF NoteInLedger, InForce
  <2>. QED BY <2>1, <2>4, <2>6, <2>7, SourcesDisjoint, Elsewhere
<1>14. ASSUME NEW v \in Advances, \E type \in AdvanceTypes, a \in Amounts, account \in BOOLEAN,
                                    st \in OtherSent : CreateAdvance(v, type, a, account, st)
      PROVE  LedgerInv'
  <2>1. Outside({}) /\ odd \subseteq odd'
    BY <1>14, AdvanceDoes, SourcesDisjoint DEF Outside, Sources
  <2>. QED BY <2>1, Elsewhere
<1>15. ASSUME NEW v \in Advances, DeleteAdvance(v)
      PROVE  LedgerInv'
  <2>1. Outside({}) /\ odd \subseteq odd'
    BY <1>15, AdvanceDoes, SourcesDisjoint DEF Outside, Sources
  <2>. QED BY <2>1, Elsewhere
<1>16. ASSUME NEW m \in Manuals, NEW j \in Entered, NEW st \in OtherSent, CreateManual(m, j, st)
      PROVE  LedgerInv'
  <2>1. /\ Outside({m}) /\ odd \subseteq odd' /\ man[m] = "NONE" /\ man'[m] = st
        /\ gl'[m] = IF st \in {"AUTHORISED", "POSTED"} THEN gl[m] \o <<j>> ELSE gl[m]
    BY <1>16, CreateManualDoes, OnlyManual DEF JournalsBecome
  <2>2. gl[m] = << >>
    BY <2>1, LedgerParts DEF ManualInLedger
  <2>3. st \in {"AUTHORISED", "POSTED"} => gl'[m] = <<j>>
    BY <2>1, <2>2
  <2>4. ManualInLedger(m)'
    BY <2>1, <2>2, <2>3 DEF ManualInLedger
  <2>. QED BY <2>1, <2>4, SourcesDisjoint, Elsewhere
<1>17. ASSUME NEW m \in Manuals, DeleteManual(m)
      PROVE  LedgerInv'
  <2>1. Outside({m}) /\ odd \subseteq odd' /\ gl'[m] = << >>
    BY <1>17, DeleteManualDoes, OnlyManual DEF JournalsBecome
  <2>2. ManualInLedger(m)'
    BY <2>1 DEF ManualInLedger
  <2>. QED BY <2>1, <2>2, SourcesDisjoint, Elsewhere
<1>18. ASSUME NEW u \in Users, RefuseUpdate(u)
      PROVE  LedgerInv'
  <2>1. Outside({}) /\ odd \subseteq odd'
    BY <1>18, EditDoes DEF Outside
  <2>. QED BY <2>1, Elsewhere
<1>19. CASE UNCHANGED docVars
  BY <1>19 DEF docVars, LedgerInv, JournalOfItsDocument, ApprovedIsPostedInOrder
<1>. QED BY <1>1, <1>2, <1>3, <1>4, <1>5, <1>6, <1>7, <1>8, <1>9, <1>10, <1>11, <1>12,
     <1>13, <1>14, <1>15, <1>16, <1>17, <1>18, <1>19
         DEF Next, InvoiceNext, PaymentNext, NoteNext, OtherNext

\* A document is in the ledger at most once, only while it is in force or, a payment sent
\* under whatever status, until it is taken back, and with the figures its rows have now,
\* through approvals, edits from stale reads, voids and payments in any order.
THEOREM JournalIsOfDocument == Spec => []JournalOfItsDocument
<1>1. LedgerInv => JournalOfItsDocument
  BY DEF LedgerInv
<1>. QED BY <1>1, TypeBegins, TypeStep, LedgerBegins, LedgerStep, PTL DEF Spec

\* Nothing in force is missing from the ledger, as long as no payment is taken for an invoice
\* that was not approved and none is declared paid.
THEOREM ApprovedIsPosted == Spec => []ApprovedIsPostedInOrder
<1>1. LedgerInv => ApprovedIsPostedInOrder
  BY DEF LedgerInv
<1>. QED BY <1>1, TypeBegins, TypeStep, LedgerBegins, LedgerStep, PTL DEF Spec
----------------------------------------------------------------------------
(* Posting, reposting and unposting implement LedgerBook. *)

\* What a document may have in the ledger.
Taken(j) == Balanced(j) \/ \E b \in Bodies : OffBy(j) \in {b.lost, -b.lost}

IsPosting(js) == js = << >> \/ \E j \in Journal : Taken(j) /\ js = <<j>>

\* Advances and manual journals, which no row rounds.
AdvancesInv ==
  /\ \A v \in Advances : adv[v] = "NONE" => gl[v] = << >>
  /\ \A s \in Advances \cup Manuals : Accepts(gl[s])

LEMMA PaymentBalances ==
  ASSUME NEW type \in InvoiceTypes, NEW a \in Int PROVE Balanced(PaymentJournal(type, a))
<1>1. CASE type = "ACCREC"
  BY <1>1 DEF PaymentJournal, Balanced, OffBy, Nothing, Sign
<1>2. CASE type = "ACCPAY"
  BY <1>2 DEF PaymentJournal, Balanced, OffBy, Nothing, Sign
<1>. QED BY <1>1, <1>2 DEF InvoiceTypes

LEMMA PostingsFit ==
  /\ \A b \in Bodies : /\ IsPosting(InvoicePosting(Rows(b), TotalOf(b)))
                       /\ IsPosting(CreditNotePosting(Rows(b), TotalOf(b)))
  /\ \A b \in BodyOf(Int), total \in Int :
       Accepts(InvoicePosting(Rows(b), total)) => IsPosting(InvoicePosting(Rows(b), total))
  /\ \A type \in InvoiceTypes, a \in Int : IsPosting(<<PaymentJournal(type, a)>>)
  /\ IsPosting(<< >>)
<1>1. ASSUME NEW b \in Bodies
      PROVE  /\ IsPosting(InvoicePosting(Rows(b), TotalOf(b)))
             /\ IsPosting(CreditNotePosting(Rows(b), TotalOf(b)))
  <2>1. b \in BodyOf(Int) /\ b.lost \in Int /\ (Sign(b.type) = 1 \/ Sign(b.type) = -1)
    BY DocumentsAssumption DEF BodyOf, Sign
  <2>2. /\ InvoiceJournal(Rows(b), TotalOf(b)) \in Journal
        /\ CreditNoteJournal(Rows(b), TotalOf(b)) \in Journal
    BY <2>1, TotalIsInt, KeptAreJournals
  <2>3. Sign(b.type) * b.lost \in {b.lost, -b.lost} /\ -(Sign(b.type) * b.lost) \in {b.lost, -b.lost}
    <3>1. CASE Sign(b.type) = 1
      BY <2>1, <3>1
    <3>2. CASE Sign(b.type) = -1
      <4>1. Sign(b.type) * b.lost = -b.lost /\ -(-b.lost) = b.lost
        BY <2>1, <3>2
      <4>. QED BY <4>1
    <3>. QED BY <2>1, <3>1, <3>2
  <2>4. /\ Taken(InvoiceJournal(Rows(b), TotalOf(b)))
        /\ Taken(CreditNoteJournal(Rows(b), TotalOf(b)))
    BY <2>1, <2>3, KeptAreOff DEF Taken
  <2>. QED BY <2>2, <2>4 DEF IsPosting, InvoicePosting, CreditNotePosting
<1>2. ASSUME NEW type \in InvoiceTypes, NEW a \in Int PROVE IsPosting(<<PaymentJournal(type, a)>>)
  BY PaymentIsJournal, PaymentBalances DEF IsPosting, Taken
<1>3. ASSUME NEW b \in BodyOf(Int), NEW total \in Int, Accepts(InvoicePosting(Rows(b), total))
      PROVE  IsPosting(InvoicePosting(Rows(b), total))
  <2>1. InvoiceJournal(Rows(b), total) \in Journal
    BY KeptAreJournals
  <2>2. total # 0 => Balanced(InvoiceJournal(Rows(b), total))
    <3>1. ASSUME NEW j, Accepts(<<j>>) PROVE Balanced(j)
      BY <3>1 DEF Accepts
    <3>. QED BY <1>3, <3>1 DEF InvoicePosting
  <2>. QED BY <2>1, <2>2 DEF IsPosting, InvoicePosting, Taken
<1>. QED BY <1>1, <1>2, <1>3 DEF IsPosting

LEMMA PostingIsSeq == \A js : IsPosting(js) => js \in Seq(Journal) /\ << >> \o js = js
<1>1. << >> \in Seq(Journal)
  OBVIOUS
<1>2. ASSUME NEW j \in Journal PROVE <<j>> \in Seq(Journal)
  OBVIOUS
<1>3. \A js : IsPosting(js) => js \in Seq(Journal)
  BY <1>1, <1>2 DEF IsPosting
<1>. QED BY <1>3, FirstJournal

(* The steps of LedgerBook, for one document. *)

LEMMA PostingIsEntry == \A js : IsPosting(js) => js = << >> \/ Ledger!IsEntry(js)
BY DEF IsPosting, Taken, Ledger!IsEntry

LEMMA OnlyOneChanges ==
  ASSUME gl \in [Sources -> Seq(Journal)], NEW s \in Sources, NEW js, JournalsBecome(s, js)
  PROVE  Ledger!OnlyChange({s})
BY DEF JournalsBecome, Ledger!OnlyChange

LEMMA EntersOne ==
  ASSUME gl \in [Sources -> Seq(Journal)], NEW s \in Sources \ Closed, NEW js,
         gl[s] = << >>, IsPosting(js), JournalsBecome(s, js), UNCHANGED Closed
  PROVE  [Ledger!Next]_Ledger!book
<1>1. CASE js = << >>
  BY <1>1 DEF JournalsBecome, Ledger!book
<1>2. CASE js # << >>
  <2>1. Ledger!Enter({s})
    BY <1>2, OnlyOneChanges, PostingIsEntry DEF JournalsBecome, Ledger!Enter
  <2>. QED BY <2>1 DEF Ledger!Next
<1>. QED BY <1>1, <1>2

LEMMA AmendsOne ==
  ASSUME gl \in [Sources -> Seq(Journal)], NEW s \in Invoices \cup Notes, s \notin Closed, NEW js,
         IsPosting(js), JournalsBecome(s, js), UNCHANGED Closed
  PROVE  [Ledger!Next]_Ledger!book
<1>1. s \in Sources /\ s \notin Payments \cup Advances \cup Manuals
  BY SourcesDisjoint DEF Sources
<1>2. Ledger!Amend(s)
  BY <1>1, OnlyOneChanges, PostingIsEntry DEF JournalsBecome, Ledger!Amend
<1>. QED BY <1>1, <1>2 DEF Ledger!Next

LEMMA ClosesOne ==
  ASSUME gl \in [Sources -> Seq(Journal)], NEW s \in Sources \ Closed,
         JournalsBecome(s, << >>), Closed' = Closed \cup {s}
  PROVE  [Ledger!Next]_Ledger!book
<1>1. gl' = [gl EXCEPT ![s] = << >>]
  BY DEF JournalsBecome
<1>2. Ledger!Close(s)
  BY <1>1 DEF Ledger!Close
<1>. QED BY <1>2 DEF Ledger!Next

(* Which documents are closed. *)

LEMMA WhatIsClosed ==
  /\ \A i \in Invoices \cup Advances : i \notin Closed
  /\ \A p \in Payments : p \in Closed <=> pay[p].undone
  /\ \A c \in Notes : c \in Closed <=> note[c].status \in {"VOIDED", "DELETED"}
  /\ \A m \in Manuals : m \in Closed <=> man[m] = "DELETED"
  /\ Closed \subseteq Sources
BY SourcesDisjoint DEF Closed, Sources

LEMMA ClosedMoves ==
  ASSUME NEW S, S \subseteq Payments \cup Notes \cup Manuals,
         \A p \in Payments : pay'[p].undone <=> pay[p].undone \/ p \in S,
         \A c \in Notes : note'[c].status \in {"VOIDED", "DELETED"}
                          <=> note[c].status \in {"VOIDED", "DELETED"} \/ c \in S,
         \A m \in Manuals : man'[m] = "DELETED" <=> man[m] = "DELETED" \/ m \in S
  PROVE  Closed' = Closed \cup S
<1>1. \A p \in Payments : p \in Closed' <=> pay'[p].undone
  BY SourcesDisjoint DEF Closed
<1>2. \A c \in Notes : c \in Closed' <=> note'[c].status \in {"VOIDED", "DELETED"}
  BY SourcesDisjoint DEF Closed
<1>3. \A m \in Manuals : m \in Closed' <=> man'[m] = "DELETED"
  BY SourcesDisjoint DEF Closed
<1>4. Closed \subseteq Payments \cup Notes \cup Manuals /\ Closed' \subseteq Payments \cup Notes \cup Manuals
  BY DEF Closed
<1>. QED BY <1>1, <1>2, <1>3, <1>4, WhatIsClosed

LEMMA ClosedStays ==
  ASSUME \A p \in Payments : pay'[p].undone <=> pay[p].undone,
         \A c \in Notes : note'[c].status \in {"VOIDED", "DELETED"}
                          <=> note[c].status \in {"VOIDED", "DELETED"},
         \A m \in Manuals : man'[m] = "DELETED" <=> man[m] = "DELETED"
  PROVE  UNCHANGED Closed
<1>1. Closed' = Closed \cup {}
  BY ClosedMoves
<1>. QED BY <1>1

BookInv == TypeParts /\ Totalled /\ LedgerInv /\ AdvancesInv

\* A new advance, and what it posts.
LEMMA AdvanceCreated ==
  ASSUME TypeParts, NEW v \in Advances, NEW type \in AdvanceTypes, NEW a \in Amounts,
         NEW account \in BOOLEAN, NEW st \in OtherSent, CreateAdvance(v, type, a, account, st)
  PROVE  \E js \in Seq(Journal) :
           IsPosting(js) /\ Accepts(js) /\ JournalsBecome(v, gl[v] \o js)
<1>1. v \in Sources /\ gl[v] \in Seq(Journal)
  BY DEF TypeParts, Sources
<1>2. PICK kind \in InvoiceTypes : AdvanceJournal(type, a) = PaymentJournal(kind, a)
  BY DEF AdvanceJournal, InvoiceTypes
<1>3. IsPosting(<<AdvanceJournal(type, a)>>) /\ <<AdvanceJournal(type, a)>> \in Seq(Journal)
  <2>1. IsPosting(<<PaymentJournal(kind, a)>>)
    BY PostingsFit, DocumentsAssumption
  <2>. QED BY <1>2, <2>1, PostingIsSeq
<1>4. /\ IsPosting(<< >>) /\ << >> \in Seq(Journal) /\ gl[v] \o << >> = gl[v]
      /\ Accepts(<< >>)
  BY <1>1, PostingsFit DEF Accepts
<1>5. CASE account
  <2>1. Post(v, <<AdvanceJournal(type, a)>>, <<AdvanceJournal(type, a)>>)
    BY <1>5 DEF CreateAdvance
  <2>. QED BY <1>1, <1>3, <2>1, Posted DEF TypeParts
<1>6. CASE ~account
  <2>1. UNCHANGED gl
    BY <1>6 DEF CreateAdvance
  <2>2. JournalsBecome(v, gl[v])
    BY <1>1, <1>4, <2>1, Posted DEF TypeParts
  <2>. QED BY <1>4, <2>2
<1>. QED BY <1>5, <1>6

LEMMA AdvancesBegin == Init => AdvancesInv
BY DEF Init, AdvancesInv, Sources, Accepts

LEMMA AdvancesStep ==
  ASSUME TypeParts, LedgerInv, AdvancesInv, [Next]_docVars
  PROVE  AdvancesInv'
<1>1. ASSUME UNCHANGED adv, \A s \in Advances \cup Manuals : gl'[s] = gl[s] PROVE AdvancesInv'
  BY <1>1 DEF AdvancesInv, Accepts
<1>2. ASSUME NEW s \in Sources \ (Advances \cup Manuals), NEW js, JournalsBecome(s, js)
      PROVE  \A t \in Advances \cup Manuals : gl'[t] = gl[t]
  BY <1>2 DEF JournalsBecome, Sources
<1>3. ASSUME NEW i \in Invoices, NEW b \in Bodies, NEW st \in Sent, CreateInvoice(i, b, st)
      PROVE  AdvancesInv'
  BY <1>1, <1>2, <1>3, CreateInvoiceDoes, SourcesDisjoint DEF Sources
<1>4. ASSUME NEW u \in Users, NEW i \in Invoices, NEW b \in Bodies, NEW st \in DocStatuses,
             UpdateInvoice(u, i, b, st)
      PROVE  AdvancesInv'
  BY <1>1, <1>2, <1>4, UpdateInvoiceDoes, SourcesDisjoint DEF Sources
<1>5. ASSUME NEW i \in Invoices, NEW st \in DocStatuses, UpdateInvoiceStatus(i, st)
      PROVE  AdvancesInv'
  BY <1>1, <1>2, <1>5, UpdateInvoiceStatusDoes, SourcesDisjoint DEF Sources
<1>6. ASSUME NEW i \in Invoices, DeleteInvoice(i)
      PROVE  AdvancesInv'
  BY <1>1, <1>2, <1>6, DeleteInvoiceDoes, SourcesDisjoint DEF Sources
<1>7. ASSUME NEW p \in Payments, NEW i \in Invoices, NEW a \in Amounts, NEW st \in PaymentSent,
             \E account \in BOOLEAN : CreatePayment(p, i, a, account, st)
      PROVE  AdvancesInv'
  <2>1. /\ UNCHANGED adv
        /\ \/ JournalsBecome(p, gl[p] \o <<PaymentJournal(inv[i].body.type, a)>>)
           \/ JournalsBecome(p, gl[p])
    BY <1>7, CreatePaymentDoes
  <2>2. p \in Sources \ (Advances \cup Manuals)
    BY SourcesDisjoint DEF Sources
  <2>. QED BY <1>1, <1>2, <2>1, <2>2
<1>8. ASSUME NEW p \in Payments, VoidPayment(p)
      PROVE  AdvancesInv'
  BY <1>1, <1>2, <1>8, VoidPaymentDoes, SourcesDisjoint DEF Sources
<1>9. ASSUME NEW S \in SUBSET Payments,
             \E of \in [S -> Invoices], amount \in [S -> Amounts], st \in [S -> PaymentSent] :
               CreateBatch(S, of, amount, st)
      PROVE  AdvancesInv'
  <2>1. UNCHANGED adv /\ \A s \in Sources \ Payments : gl'[s] = gl[s]
    BY <1>9, CreateBatchDoes
  <2>. QED BY <1>1, <2>1, SourcesDisjoint DEF Sources
<1>10. ASSUME NEW c \in Notes, NEW b \in Bodies, NEW st \in Sent, CreateNote(c, b, st)
      PROVE  AdvancesInv'
  BY <1>1, <1>2, <1>10, CreateNoteDoes, SourcesDisjoint DEF Sources
<1>11. ASSUME NEW u \in Users, NEW c \in Notes, NEW b \in Bodies, NEW st \in DocStatuses,
              UpdateNote(u, c, b, st)
      PROVE  AdvancesInv'
  BY <1>1, <1>2, <1>11, UpdateNoteDoes, SourcesDisjoint DEF Sources
<1>12. ASSUME NEW c \in Notes, DeleteNote(c)
      PROVE  AdvancesInv'
  BY <1>1, <1>2, <1>12, DeleteNoteDoes, SourcesDisjoint DEF Sources
<1>13. ASSUME NEW v \in Advances, NEW type \in AdvanceTypes, NEW a \in Amounts,
              NEW account \in BOOLEAN, NEW st \in OtherSent, CreateAdvance(v, type, a, account, st)
      PROVE  AdvancesInv'
  <2>1. adv[v] = "NONE" /\ adv' = [adv EXCEPT ![v] = st] /\ st # "NONE"
    BY <1>13, DocumentsAssumption DEF CreateAdvance
  <2>2. gl[v] = << >>
    BY <2>1 DEF AdvancesInv
  <2>3. PICK js : IsPosting(js) /\ Accepts(js) /\ JournalsBecome(v, gl[v] \o js)
    BY <1>13, AdvanceCreated
  <2>4. gl'[v] = js /\ \A s \in (Advances \cup Manuals) \ {v} : gl'[s] = gl[s]
    BY <2>2, <2>3, PostingIsSeq DEF JournalsBecome, Sources
  <2>5. adv'[v] = st /\ \A w \in Advances \ {v} : adv'[w] = adv[w]
    BY <2>1 DEF TypeParts
  <2>. QED BY <2>1, <2>3, <2>4, <2>5 DEF AdvancesInv, Accepts
<1>14. ASSUME NEW v \in Advances, DeleteAdvance(v)
      PROVE  AdvancesInv'
  <2>1. adv' = [adv EXCEPT ![v] = "DELETED"] /\ UNCHANGED gl
    BY <1>14 DEF DeleteAdvance
  <2>2. adv'[v] = "DELETED" /\ \A w \in Advances \ {v} : adv'[w] = adv[w]
    BY <2>1 DEF TypeParts
  <2>. QED BY <2>1, <2>2 DEF AdvancesInv, Accepts
<1>15. ASSUME NEW m \in Manuals, NEW j \in Entered, NEW st \in OtherSent, CreateManual(m, j, st)
      PROVE  AdvancesInv'
  <2>1. /\ UNCHANGED adv /\ man[m] = "NONE" /\ Balanced(j)
        /\ JournalsBecome(m, IF st \in {"AUTHORISED", "POSTED"} THEN gl[m] \o <<j>> ELSE gl[m])
    BY <1>15, CreateManualDoes DEF CreateManual
  <2>2. gl[m] = << >>
    BY <2>1, LedgerParts DEF ManualInLedger
  <2>3. <<j>> \in Seq(Journal)
    BY DocumentsAssumption
  <2>4. gl'[m] \in {<< >>, <<j>>} /\ \A s \in (Advances \cup Manuals) \ {m} : gl'[s] = gl[s]
    BY <2>1, <2>2, <2>3, FirstJournal DEF JournalsBecome, Sources
  <2>5. Accepts(<< >>) /\ Accepts(<<j>>)
    BY <2>1 DEF Accepts
  <2>6. Accepts(gl'[m])
    BY <2>4, <2>5
  <2>7. m \notin Advances
    BY SourcesDisjoint
  <2>. QED BY <2>1, <2>4, <2>6, <2>7 DEF AdvancesInv, Accepts
<1>16. ASSUME NEW m \in Manuals, DeleteManual(m)
      PROVE  AdvancesInv'
  <2>1. UNCHANGED adv /\ JournalsBecome(m, << >>)
    BY <1>16, DeleteManualDoes
  <2>2. gl'[m] = << >> /\ \A s \in (Advances \cup Manuals) \ {m} : gl'[s] = gl[s]
    BY <2>1 DEF JournalsBecome, Sources
  <2>3. m \notin Advances
    BY SourcesDisjoint
  <2>. QED BY <2>1, <2>2, <2>3 DEF AdvancesInv, Accepts
<1>17. ASSUME NEW c \in Notes, NEW i \in Invoices, NEW a \in Amounts, Allocate(c, i, a)
      PROVE  AdvancesInv'
  BY <1>1, <1>17 DEF Allocate
<1>18. ASSUME NEW u \in Users, \/ \E i \in Invoices : ReadInvoice(u, i)
                               \/ \E c \in Notes : ReadNote(u, c)
                               \/ RefuseUpdate(u)
      PROVE  AdvancesInv'
  BY <1>1, <1>18, EditDoes
<1>19. CASE UNCHANGED docVars
  BY <1>1, <1>19 DEF docVars
<1>. QED BY <1>3, <1>4, <1>5, <1>6, <1>7, <1>8, <1>9, <1>10, <1>11, <1>12, <1>13, <1>14, <1>15,
     <1>16, <1>17, <1>18, <1>19
         DEF Next, InvoiceNext, PaymentNext, NoteNext, OtherNext

\* Rounding is all that keeps a document and the ledger apart: what a client sends is never
\* refused as unbalanced, an approval only when the rows lost something, and the journal in
\* the ledger is off by exactly that; payments, advances and manual journals are in balance.
THEOREM RoundingIsAll == Spec => []OffByRoundingOnly
<1>1. ASSUME TypeParts, Totalled, LedgerInv, AdvancesInv PROVE OffByRoundingOnly
  <2>. USE <1>1
  <2>1. ASSUME NEW i \in Invoices
        PROVE  /\ Accepts(InvoicePosting(inv[i].body, inv[i].total))
               /\ Accepts(InvoicePosting(Rows(inv[i].body), inv[i].total))
                    <=> inv[i].total = 0 \/ inv[i].body.lost = 0
               /\ \A k \in DOMAIN gl[i] :
                    OffBy(gl[i][k]) = Sign(inv[i].body.type) * inv[i].body.lost
    <3>. PICK b \in BodyOf(Int) : b = inv[i].body /\ TotalOf(b) = inv[i].total
      BY DEF TypeParts, InvoiceRow, Totalled
    <3>. DEFINE j == InvoiceJournal(Rows(b), TotalOf(b))
    <3>1. OffBy(j) = Sign(b.type) * b.lost
      BY KeptAreOff
    <3>2. Balanced(j) <=> b.lost = 0
      <4>1. b.lost \in Int /\ (Sign(b.type) = 1 \/ Sign(b.type) = -1)
        BY DEF BodyOf, Sign
      <4>2. CASE Sign(b.type) = 1
        BY <3>1, <4>1, <4>2 DEF Balanced
      <4>3. CASE Sign(b.type) = -1
        BY <3>1, <4>1, <4>3 DEF Balanced
      <4>. QED BY <4>1, <4>2, <4>3
    <3>3. Accepts(InvoicePosting(b, TotalOf(b)))
      BY PostingsBalance
    <3>. HIDE DEF j
    <3>4. Accepts(<<j>>) <=> Balanced(j)
      BY DEF Accepts
    <3>5. Accepts(<< >>)
      BY DEF Accepts
    <3>6. Accepts(InvoicePosting(Rows(b), TotalOf(b))) <=> TotalOf(b) = 0 \/ b.lost = 0
      BY <3>2, <3>4, <3>5 DEF InvoicePosting, j
    <3>7. gl[i] = << >> \/ gl[i] = <<j>>
      BY LedgerParts DEF InvoiceInLedger, j
    <3>. QED BY <3>1, <3>3, <3>6, <3>7
  <2>2. ASSUME NEW c \in Notes
        PROVE  /\ Accepts(CreditNotePosting(note[c].body, note[c].total))
               /\ \A k \in DOMAIN gl[c] :
                    OffBy(gl[c][k]) = -(Sign(note[c].body.type) * note[c].body.lost)
    <3>. PICK b \in BodyOf(Int) : b = note[c].body /\ TotalOf(b) = note[c].total
      BY DEF TypeParts, NoteRow, Totalled
    <3>. DEFINE j == CreditNoteJournal(Rows(b), TotalOf(b))
    <3>1. OffBy(j) = -(Sign(b.type) * b.lost)
      BY KeptAreOff
    <3>2. Accepts(CreditNotePosting(b, TotalOf(b)))
      BY PostingsBalance
    <3>. HIDE DEF j
    <3>3. gl[c] = << >> \/ gl[c] = <<j>>
      BY LedgerParts DEF NoteInLedger, j
    <3>. QED BY <3>1, <3>2, <3>3
  <2>3. ASSUME NEW p \in Payments PROVE Accepts(gl[p])
    <3>1. gl[p] # << >> => \E type \in InvoiceTypes : gl[p] = <<PaymentJournal(type, pay[p].amount)>>
      BY LedgerParts DEF PaymentInLedger
    <3>2. pay[p].amount \in Int
      BY DEF TypeParts, PaymentRow
    <3>3. \A type \in InvoiceTypes : Balanced(PaymentJournal(type, pay[p].amount))
      BY <3>2, PaymentBalances
    <3>4. \A j : Balanced(j) => Accepts(<<j>>)
      BY DEF Accepts
    <3>5. Accepts(<< >>)
      BY DEF Accepts
    <3>. QED BY <3>1, <3>3, <3>4, <3>5
  <2>. QED BY <2>1, <2>2, <2>3 DEF OffByRoundingOnly, AdvancesInv
<1>. QED BY <1>1, TypeBegins, TypeStep, TotalledBegins, TotalledStep, LedgerBegins, LedgerStep,
     AdvancesBegin, AdvancesStep, PTL DEF Spec

LEMMA BookBegins == Init => Ledger!Init
<1>. SUFFICES ASSUME Init PROVE Ledger!Init
  OBVIOUS
<1>1. Closed = {}
  BY DEF Init, Closed
<1>2. gl = [s \in Sources |-> << >>]
  BY DEF Init
<1>. QED BY <1>1, <1>2 DEF Ledger!Init

LEMMA BookStep ==
  ASSUME BookInv, [Next]_docVars
  PROVE  [Ledger!Next]_Ledger!book
<1>. USE DEF BookInv
<1>1. gl \in [Sources -> Seq(Journal)]
  BY DEF TypeParts
<1>2. ASSUME UNCHANGED gl, UNCHANGED Closed PROVE [Ledger!Next]_Ledger!book
  BY <1>2 DEF Ledger!book
<1>3. ASSUME UNCHANGED <<note, pay, man>> PROVE UNCHANGED Closed
  BY <1>3 DEF Closed
<1>4. \A i \in Invoices : i \in Sources \ Closed /\ i \in Invoices \cup Notes
  BY WhatIsClosed DEF Sources
<1>5. ASSUME NEW i \in Invoices, NEW b \in Bodies, NEW st \in Sent, CreateInvoice(i, b, st)
      PROVE  [Ledger!Next]_Ledger!book
  <2>1. /\ UNCHANGED <<note, pay, man>> /\ inv[i].status = "NONE"
        /\ JournalsBecome(i, IF st = "AUTHORISED" THEN gl[i] \o InvoicePosting(Rows(b), TotalOf(b))
                                                   ELSE gl[i])
    BY <1>5, CreateInvoiceDoes
  <2>2. gl[i] = << >>
    BY <2>1, LedgerParts DEF InvoiceInLedger, InForce
  <2>3. \E js : IsPosting(js) /\ JournalsBecome(i, js)
    BY <2>1, <2>2, PostingsFit, PostingIsSeq, DocumentsAssumption
  <2>. QED BY <1>1, <1>3, <1>4, <2>1, <2>2, <2>3, EntersOne
<1>6. ASSUME NEW u \in Users, NEW i \in Invoices, NEW b \in Bodies, NEW st \in DocStatuses,
             UpdateInvoice(u, i, b, st)
      PROVE  [Ledger!Next]_Ledger!book
  <2>1. UNCHANGED <<note, pay, man>> /\ \E js \in {InvoicePosting(Rows(b), TotalOf(b)), << >>} :
                                           JournalsBecome(i, js)
    BY <1>6, UpdateInvoiceDoes
  <2>2. \E js : IsPosting(js) /\ JournalsBecome(i, js)
    BY <2>1, PostingsFit, DocumentsAssumption
  <2>. QED BY <1>1, <1>3, <1>4, <2>1, <2>2, AmendsOne
<1>7. ASSUME NEW i \in Invoices, NEW st \in DocStatuses, UpdateInvoiceStatus(i, st)
      PROVE  [Ledger!Next]_Ledger!book
  <2>1. /\ UNCHANGED <<note, pay, man>> /\ TransitionAllowed(inv[i].status, st)
        /\ JournalsBecome(i, IF inv[i].status # "AUTHORISED" /\ st = "AUTHORISED"
                             THEN gl[i] \o InvoicePosting(Rows(inv[i].body), inv[i].total)
                             ELSE IF inv[i].status = "AUTHORISED" /\ st \in {"VOIDED", "DELETED"}
                             THEN << >> ELSE gl[i])
        /\ inv[i].status # "AUTHORISED" /\ st = "AUTHORISED" =>
             Accepts(InvoicePosting(Rows(inv[i].body), inv[i].total))
    BY <1>7, UpdateInvoiceStatusDoes
  <2>2. UNCHANGED Closed
    BY <1>3, <2>1
  <2>3. CASE inv[i].status # "AUTHORISED" /\ st = "AUTHORISED"
    <3>1. gl[i] = << >>
      BY <2>1, <2>3, LedgerParts DEF InvoiceInLedger, InForce, TransitionAllowed
    <3>2. IsPosting(InvoicePosting(Rows(inv[i].body), inv[i].total))
      <4>1. inv[i].body \in BodyOf(Int) /\ inv[i].total \in Int
        BY DEF TypeParts, InvoiceRow
      <4>. QED BY <2>1, <2>3, <4>1, PostingsFit
    <3>3. JournalsBecome(i, InvoicePosting(Rows(inv[i].body), inv[i].total))
      BY <2>1, <2>3, <3>1, <3>2, PostingIsSeq
    <3>. QED BY <1>1, <1>4, <2>2, <3>1, <3>2, <3>3, EntersOne
  <2>4. CASE inv[i].status = "AUTHORISED" /\ st \in {"VOIDED", "DELETED"}
    <3>1. JournalsBecome(i, << >>)
      BY <2>1, <2>4
    <3>. QED BY <1>1, <1>4, <2>2, <3>1, PostingsFit, AmendsOne
  <2>5. CASE /\ ~(inv[i].status # "AUTHORISED" /\ st = "AUTHORISED")
             /\ ~(inv[i].status = "AUTHORISED" /\ st \in {"VOIDED", "DELETED"})
    <3>1. JournalsBecome(i, gl[i])
      BY <2>1, <2>5
    <3>2. UNCHANGED gl
      BY <1>1, <3>1 DEF JournalsBecome
    <3>. QED BY <1>2, <2>2, <3>2
  <2>. QED BY <2>3, <2>4, <2>5
<1>8. ASSUME NEW i \in Invoices, DeleteInvoice(i)
      PROVE  [Ledger!Next]_Ledger!book
  <2>1. UNCHANGED <<note, pay, man>> /\ \/ JournalsBecome(i, << >>)
                                        \/ JournalsBecome(i, gl[i])
    BY <1>8, DeleteInvoiceDoes
  <2>2. ASSUME JournalsBecome(i, gl[i]) PROVE UNCHANGED gl
    BY <1>1, <2>2 DEF JournalsBecome
  <2>. QED BY <1>1, <1>2, <1>3, <1>4, <2>1, <2>2, PostingsFit, AmendsOne
<1>9. ASSUME NEW p \in Payments, NEW i \in Invoices, NEW a \in Amounts, NEW st \in PaymentSent,
             \E account \in BOOLEAN : CreatePayment(p, i, a, account, st)
      PROVE  [Ledger!Next]_Ledger!book
  <2>1. /\ pay[p].status = "NONE" /\ UNCHANGED <<note, man>>
        /\ PaymentBecomes(p, PaymentOf(st, i, a, FALSE, FALSE))
        /\ \/ JournalsBecome(p, gl[p] \o <<PaymentJournal(inv[i].body.type, a)>>)
           \/ JournalsBecome(p, gl[p])
    BY <1>9, CreatePaymentDoes
  <2>2. UNCHANGED Closed
    <3>1. ~pay'[p].undone /\ \A q \in Payments \ {p} : pay'[q] = pay[q]
      <4>1. /\ pay'[p] = PaymentOf(st, i, a, FALSE, FALSE)
            /\ \A q \in Payments \ {p} : pay'[q] = pay[q]
        BY <2>1 DEF PaymentBecomes
      <4>. QED BY <4>1 DEF PaymentOf
    <3>2. ~pay[p].undone
      BY <2>1 DEF TypeParts
    <3>. QED BY <2>1, <3>1, <3>2, ClosedStays
  <2>3. gl[p] = << >> /\ p \in Sources \ Closed
    <3>1. ~pay[p].undone
      BY <2>1 DEF TypeParts
    <3>. QED BY <2>1, <3>1, LedgerParts, WhatIsClosed DEF PaymentInLedger, Stands, Sources
  <2>4. IsPosting(<<PaymentJournal(inv[i].body.type, a)>>)
    <3>1. inv[i].body.type \in InvoiceTypes
      BY DEF TypeParts, InvoiceRow, BodyOf
    <3>. QED BY <3>1, PostingsFit, DocumentsAssumption
  <2>5. \E js : IsPosting(js) /\ JournalsBecome(p, js)
    BY <2>1, <2>3, <2>4, PostingsFit, PostingIsSeq
  <2>. QED BY <1>1, <2>2, <2>3, <2>5, EntersOne
<1>10. ASSUME NEW p \in Payments, VoidPayment(p)
      PROVE  [Ledger!Next]_Ledger!book
  <2>1. /\ Stands(pay[p]) /\ UNCHANGED <<note, man>>
        /\ PaymentBecomes(p, PaymentOf("VOIDED", pay[p].invoice, pay[p].amount, pay[p].batch, TRUE))
        /\ JournalsBecome(p, << >>)
    BY <1>10, VoidPaymentDoes
  <2>2. pay'[p].undone /\ \A q \in Payments \ {p} : pay'[q] = pay[q]
    <3>1. /\ pay'[p] = PaymentOf("VOIDED", pay[p].invoice, pay[p].amount, pay[p].batch, TRUE)
          /\ \A q \in Payments \ {p} : pay'[q] = pay[q]
      BY <2>1 DEF PaymentBecomes
    <3>. QED BY <3>1 DEF PaymentOf
  <2>3. Closed' = Closed \cup {p}
    <3>1. \A q \in Payments : pay'[q].undone <=> pay[q].undone \/ q \in {p}
      BY <2>2
    <3>2. \A c \in Notes : note'[c].status \in {"VOIDED", "DELETED"}
                           <=> note[c].status \in {"VOIDED", "DELETED"} \/ c \in {p}
      BY <2>1, SourcesDisjoint
    <3>3. \A m \in Manuals : man'[m] = "DELETED" <=> man[m] = "DELETED" \/ m \in {p}
      BY <2>1, SourcesDisjoint
    <3>. QED BY <3>1, <3>2, <3>3, ClosedMoves
  <2>4. p \in Sources \ Closed
    BY <2>1, WhatIsClosed DEF Sources, Stands
  <2>. QED BY <1>1, <2>1, <2>3, <2>4, ClosesOne
<1>11. ASSUME NEW S \in SUBSET Payments,
             \E of \in [S -> Invoices], amount \in [S -> Amounts], st \in [S -> PaymentSent] :
               CreateBatch(S, of, amount, st)
      PROVE  [Ledger!Next]_Ledger!book
  <2>1. /\ \A p \in S : pay[p].status = "NONE" /\ ~pay'[p].undone /\ pay'[p].amount \in Int
        /\ \A p \in S : \E type \in InvoiceTypes :
             gl'[p] = gl[p] \o <<PaymentJournal(type, pay'[p].amount)>>
        /\ \A p \in Payments \ S : pay'[p] = pay[p] /\ gl'[p] = gl[p]
        /\ \A s \in Sources \ Payments : gl'[s] = gl[s]
        /\ UNCHANGED <<note, man>>
    BY <1>11, CreateBatchDoes
  <2>8. \A p \in S : ~pay[p].undone
    BY <2>1 DEF TypeParts
  <2>2. UNCHANGED Closed
    BY <2>1, <2>8, ClosedStays
  <2>3. ASSUME NEW p \in S
        PROVE  p \notin Closed /\ gl[p] = << >> /\ Ledger!IsEntry(gl'[p])
    <3>1. p \notin Closed /\ gl[p] = << >>
      BY <2>1, <2>8, LedgerParts, WhatIsClosed DEF PaymentInLedger, Stands
    <3>. PICK type \in InvoiceTypes : gl'[p] = gl[p] \o <<PaymentJournal(type, pay'[p].amount)>>
      BY <2>1
    <3>2. IsPosting(<<PaymentJournal(type, pay'[p].amount)>>)
      BY <2>1, PostingsFit
    <3>3. gl'[p] = <<PaymentJournal(type, pay'[p].amount)>>
      BY <3>1, <3>2, PostingIsSeq
    <3>4. gl'[p] # << >>
      BY <3>3
    <3>. QED BY <3>1, <3>2, <3>3, <3>4, PostingIsEntry
  <2>4. \A s \in Sources \ S : gl'[s] = gl[s]
    BY <2>1, SourcesDisjoint DEF Sources
  <2>5. gl' \in [Sources -> Seq(Journal)]
    BY <1>11, CreateBatchDoes DEF TypeParts
  <2>6. Ledger!OnlyChange(S)
    BY <1>1, <2>4, <2>5 DEF Ledger!OnlyChange
  <2>7. Ledger!Enter(S)
    BY <2>2, <2>3, <2>6 DEF Ledger!Enter
  <2>. QED BY <2>7 DEF Ledger!Next, Sources
<1>12. ASSUME NEW c \in Notes, NEW b \in Bodies, NEW st \in Sent, CreateNote(c, b, st)
      PROVE  [Ledger!Next]_Ledger!book
  <2>1. /\ note[c].status = "NONE" /\ UNCHANGED <<pay, man>>
        /\ NoteBecomes(c, NoteOf(st, b, TotalOf(b), TotalOf(b)))
        /\ JournalsBecome(c, IF st = "AUTHORISED" THEN gl[c] \o CreditNotePosting(Rows(b), TotalOf(b))
                                                   ELSE gl[c])
    BY <1>12, CreateNoteDoes
  <2>2. gl[c] = << >> /\ c \in Sources \ Closed
    BY <2>1, LedgerParts, WhatIsClosed DEF NoteInLedger, InForce, Sources
  <2>3. note'[c].status = st /\ \A d \in Notes \ {c} : note'[d] = note[d]
    BY <2>1, NoteFields DEF NoteBecomes
  <2>4. CASE st \in {"VOIDED", "DELETED"}
    <3>1. JournalsBecome(c, << >>)
      BY <2>1, <2>2, <2>4
    <3>2. Closed' = Closed \cup {c}
      BY <2>1, <2>3, <2>4, SourcesDisjoint, ClosedMoves
    <3>. QED BY <1>1, <2>2, <3>1, <3>2, ClosesOne
  <2>5. CASE st \notin {"VOIDED", "DELETED"}
    <3>1. UNCHANGED Closed
      BY <2>1, <2>3, <2>5, ClosedStays
    <3>2. \E js : IsPosting(js) /\ JournalsBecome(c, js)
      BY <2>1, <2>2, PostingsFit, PostingIsSeq, DocumentsAssumption
    <3>. QED BY <1>1, <2>2, <3>1, <3>2, EntersOne
  <2>. QED BY <2>4, <2>5
<1>13. ASSUME NEW u \in Users, NEW c \in Notes, NEW b \in Bodies, NEW st \in DocStatuses,
              UpdateNote(u, c, b, st)
      PROVE  [Ledger!Next]_Ledger!book
  <2>1. /\ UNCHANGED <<pay, man>>
        /\ NoteBecomes(c, NoteOf(st, b, TotalOf(b), TotalOf(b)))
        /\ JournalsBecome(c, IF InForce(st) THEN CreditNotePosting(Rows(b), TotalOf(b)) ELSE << >>)
    BY <1>13, UpdateNoteDoes
  <2>2. note[c].status \notin {"VOIDED", "DELETED"}
    BY <1>13 DEF UpdateNote
  <2>3. c \in Sources \ Closed
    BY <2>2, WhatIsClosed DEF Sources
  <2>4. note'[c].status = st /\ \A d \in Notes \ {c} : note'[d] = note[d]
    BY <2>1, NoteFields DEF NoteBecomes
  <2>5. CASE st \in {"VOIDED", "DELETED"}
    <3>1. JournalsBecome(c, << >>)
      BY <2>1, <2>5 DEF InForce
    <3>2. Closed' = Closed \cup {c}
      BY <2>1, <2>2, <2>4, <2>5, SourcesDisjoint, ClosedMoves
    <3>. QED BY <1>1, <2>3, <3>1, <3>2, ClosesOne
  <2>6. CASE st \notin {"VOIDED", "DELETED"}
    <3>1. UNCHANGED Closed
      BY <2>1, <2>2, <2>4, <2>6, ClosedStays
    <3>2. \E js : IsPosting(js) /\ JournalsBecome(c, js)
      BY <2>1, PostingsFit, DocumentsAssumption
    <3>. QED BY <1>1, <2>3, <3>1, <3>2, AmendsOne
  <2>. QED BY <2>5, <2>6
<1>14. ASSUME NEW c \in Notes, DeleteNote(c)
      PROVE  [Ledger!Next]_Ledger!book
  <2>1. /\ UNCHANGED <<pay, man>> /\ note[c].status \notin {"VOIDED", "DELETED"}
        /\ \E st \in {"VOIDED", "DELETED"} :
             NoteBecomes(c, NoteOf(st, note[c].body, note[c].total, note[c].remaining))
        /\ \/ JournalsBecome(c, << >>)
           \/ note[c].status \in {"DRAFT", "SUBMITTED"} /\ JournalsBecome(c, gl[c])
    BY <1>14, DeleteNoteDoes
  <2>2. note'[c].status \in {"VOIDED", "DELETED"} /\ \A d \in Notes \ {c} : note'[d] = note[d]
    BY <2>1, NoteFields DEF NoteBecomes
  <2>3. JournalsBecome(c, << >>)
    <3>1. note[c].status \in {"DRAFT", "SUBMITTED"} => gl[c] = << >>
      BY LedgerParts DEF NoteInLedger, InForce
    <3>. QED BY <2>1, <3>1
  <2>4. Closed' = Closed \cup {c}
    BY <2>1, <2>2, SourcesDisjoint, ClosedMoves
  <2>5. c \in Sources \ Closed
    BY <2>1, WhatIsClosed DEF Sources
  <2>. QED BY <1>1, <2>3, <2>4, <2>5, ClosesOne
<1>15. ASSUME NEW c \in Notes, NEW i \in Invoices, NEW a \in Amounts, Allocate(c, i, a)
      PROVE  [Ledger!Next]_Ledger!book
  <2>1. /\ note[c].status = "AUTHORISED" /\ UNCHANGED <<pay, man, gl>>
        /\ NoteBecomes(c, NoteOf(IF note[c].remaining - Given(i, a) <= 0 THEN "PAID"
                                 ELSE note[c].status,
                                 note[c].body, note[c].total, note[c].remaining - Given(i, a)))
    BY <1>15, AllocateDoes
  <2>2. note'[c].status \in {"PAID", "AUTHORISED"} /\ \A d \in Notes \ {c} : note'[d] = note[d]
    BY <2>1, NoteFields DEF NoteBecomes
  <2>3. UNCHANGED Closed
    BY <2>1, <2>2, ClosedStays
  <2>. QED BY <1>2, <2>1, <2>3
<1>16. ASSUME NEW v \in Advances, NEW type \in AdvanceTypes, NEW a \in Amounts,
              NEW account \in BOOLEAN, NEW st \in OtherSent, CreateAdvance(v, type, a, account, st)
      PROVE  [Ledger!Next]_Ledger!book
  <2>1. adv[v] = "NONE" /\ UNCHANGED <<note, pay, man>>
    BY <1>16 DEF CreateAdvance
  <2>2. gl[v] = << >> /\ v \in Sources \ Closed
    BY <2>1, WhatIsClosed DEF AdvancesInv, Sources
  <2>3. \E js : IsPosting(js) /\ JournalsBecome(v, js)
    BY <1>16, <2>2, AdvanceCreated, PostingIsSeq
  <2>. QED BY <1>1, <1>3, <2>1, <2>2, <2>3, EntersOne
<1>17. ASSUME NEW v \in Advances, DeleteAdvance(v)
      PROVE  [Ledger!Next]_Ledger!book
  BY <1>2, <1>3, <1>17 DEF DeleteAdvance
<1>18. ASSUME NEW m \in Manuals, NEW j \in Entered, NEW st \in OtherSent, CreateManual(m, j, st)
      PROVE  [Ledger!Next]_Ledger!book
  <2>1. /\ man[m] = "NONE" /\ man'[m] = st /\ UNCHANGED <<note, pay>>
        /\ \A n \in Manuals \ {m} : man'[n] = man[n]
        /\ JournalsBecome(m, IF st \in {"AUTHORISED", "POSTED"} THEN gl[m] \o <<j>> ELSE gl[m])
    BY <1>18, CreateManualDoes
  <2>2. gl[m] = << >> /\ m \in Sources \ Closed
    BY <2>1, LedgerParts, WhatIsClosed DEF ManualInLedger, Sources
  <2>3. CASE st = "DELETED"
    <3>1. JournalsBecome(m, << >>)
      BY <2>1, <2>2, <2>3
    <3>2. Closed' = Closed \cup {m}
      BY <2>1, <2>3, SourcesDisjoint, ClosedMoves
    <3>. QED BY <1>1, <2>2, <3>1, <3>2, ClosesOne
  <2>4. CASE st # "DELETED"
    <3>1. UNCHANGED Closed
      BY <2>1, <2>4, ClosedStays
    <3>2. IsPosting(<<j>>)
      BY <1>18, DocumentsAssumption DEF CreateManual, IsPosting, Taken
    <3>3. \E js : IsPosting(js) /\ JournalsBecome(m, js)
      BY <2>1, <2>2, <3>2, PostingsFit, PostingIsSeq
    <3>. QED BY <1>1, <2>2, <3>1, <3>3, EntersOne
  <2>. QED BY <2>3, <2>4
<1>19. ASSUME NEW m \in Manuals, DeleteManual(m)
      PROVE  [Ledger!Next]_Ledger!book
  <2>1. /\ UNCHANGED <<note, pay>> /\ JournalsBecome(m, << >>)
        /\ \A n \in Manuals \ {m} : man'[n] = man[n]
    BY <1>19, DeleteManualDoes
  <2>2. man[m] # "DELETED" /\ man'[m] = "DELETED"
    BY <1>19 DEF DeleteManual, TypeParts
  <2>3. Closed' = Closed \cup {m}
    BY <2>1, <2>2, SourcesDisjoint, ClosedMoves
  <2>4. m \in Sources \ Closed
    BY <2>2, WhatIsClosed DEF Sources
  <2>. QED BY <1>1, <2>1, <2>3, <2>4, ClosesOne
<1>20. ASSUME NEW u \in Users, \/ \E i \in Invoices : ReadInvoice(u, i)
                               \/ \E c \in Notes : ReadNote(u, c)
                               \/ RefuseUpdate(u)
      PROVE  [Ledger!Next]_Ledger!book
  BY <1>2, <1>3, <1>20, EditDoes
<1>21. CASE UNCHANGED docVars
  BY <1>2, <1>3, <1>21 DEF docVars
<1>. QED BY <1>5, <1>6, <1>7, <1>8, <1>9, <1>10, <1>11, <1>12, <1>13, <1>14, <1>15, <1>16, <1>17,
     <1>18, <1>19, <1>20, <1>21
         DEF Next, InvoiceNext, PaymentNext, NoteNext, OtherNext

\* The documents and what they post are a LedgerBook, from however stale a read they are
\* edited: each has one journal at most, balanced but for what its rows lost, those of payments, advances and manual
\* journals are never rewritten, and a payment, note or manual journal that was voided or
\* deleted never returns to the ledger.
THEOREM LedgerBookKept == Spec => KeepsLedgerBook
<1>1. Init => BookInv
  BY TypeBegins, TotalledBegins, LedgerBegins, AdvancesBegin DEF BookInv
<1>2. BookInv /\ [Next]_docVars => BookInv'
  BY TypeStep, TotalledStep, LedgerStep, AdvancesStep DEF BookInv
<1>3. Init => Ledger!Init
  BY BookBegins
<1>4. BookInv /\ [Next]_docVars => [Ledger!Next]_Ledger!book
  BY BookStep
<1>. QED BY <1>1, <1>2, <1>3, <1>4, PTL DEF Spec, KeepsLedgerBook, Ledger!Spec
=============================================================================
