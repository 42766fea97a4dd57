-------------------------- MODULE SubledgerProofs --------------------------
(***************************************************************************)
(* The sub-ledger against the documents and the general ledger, for any    *)
(* finite tables of invoices, notes and payments.                          *)
(***************************************************************************)
EXTENDS DocumentsProofs, SumProofs

----------------------------------------------------------------------------
(* The sums of the properties, as sums over whole tables. *)

Counts(p, i) == pay[p].invoice = i /\ Stands(pay[p]) /\ ~pay[p].batch

\* What each payment has paid of an invoice, and each note credited to it.
Receipt(i)  == [p \in Payments |-> IF Counts(p, i) THEN pay[p].amount ELSE 0]
CreditTo(i) == [c \in Notes |-> alloc[c][i]]

Paidup(i)    == inv[i].paid = SumUp(Payments, Receipt(i))
CreditUp(i) == inv[i].credited = SumUp(Notes, CreditTo(i))
SpentUp(c)   == note[c].total = note[c].remaining + SumUp(Invoices, alloc[c])
Left(i)      == inv[i].due = inv[i].total - inv[i].paid - inv[i].credited

Settled ==
  /\ Orderly({"refund", "unbatched"}) => \A i \in Invoices : Paidup(i)
  /\ \A i \in Invoices : CreditUp(i)

LEMMA ReceiptTypes ==
  ASSUME TypeParts, NEW i \in Invoices
  PROVE  /\ \A p \in Payments : Receipt(i)[p] \in Int
         /\ \A c \in Notes : CreditTo(i)[c] \in Int
<1>1. \A p \in Payments : pay[p].amount \in Int
  BY DEF TypeParts, PaymentRow
<1>. QED BY <1>1 DEF Receipt, CreditTo, TypeParts

LEMMA ReceiptTypesNext ==
  ASSUME TypeParts', NEW i \in Invoices
  PROVE  /\ \A p \in Payments : Receipt(i)'[p] \in Int
         /\ \A c \in Notes : CreditTo(i)'[c] \in Int
<1>1. \A p \in Payments : pay'[p].amount \in Int
  BY DEF TypeParts, PaymentRow
<1>. QED BY <1>1 DEF Receipt, CreditTo, TypeParts

LEMMA SettledIs == TypeParts /\ Settled => SettledAsRecorded
<1>. SUFFICES ASSUME TypeParts, Settled PROVE SettledAsRecorded
  OBVIOUS
<1>1. ASSUME NEW i \in Invoices
      PROVE  SumOver(PaymentsOf(i), [p \in PaymentsOf(i) |-> pay[p].amount])
             = SumUp(Payments, Receipt(i))
  <2>. DEFINE f == [p \in PaymentsOf(i) |-> pay[p].amount]
  <2>1. PaymentsOf(i) \in SUBSET Payments /\ \A p \in Payments : p \in PaymentsOf(i) <=> Counts(p, i)
    BY DEF PaymentsOf, Counts
  <2>2. IsFiniteSet(PaymentsOf(i))
    BY <2>1, FS_Subset, SubledgerAssumption
  <2>3. SumOver(PaymentsOf(i), f) = SumUp(PaymentsOf(i), f)
    BY FoldIsSum DEF SumOver
  <2>4. \A p \in PaymentsOf(i) : f[p] = Receipt(i)[p]
    BY <2>1 DEF Receipt
  <2>5. \A p \in Payments \ PaymentsOf(i) : Receipt(i)[p] = 0
    BY <2>1 DEF Receipt
  <2>. HIDE DEF f
  <2>6. SumUp(PaymentsOf(i), f) = SumUp(PaymentsOf(i), Receipt(i))
    BY <2>2, <2>4, SumSame
  <2>7. SumUp(Payments, Receipt(i)) = SumUp(PaymentsOf(i), Receipt(i))
    BY <2>1, <2>5, ReceiptTypes, SumWithin, SubledgerAssumption
  <2>. QED BY <2>3, <2>6, <2>7 DEF f
<1>2. ASSUME NEW i \in Invoices
      PROVE  SumOver(Notes, [c \in Notes |-> alloc[c][i]]) = SumUp(Notes, CreditTo(i))
  BY FoldIsSum DEF SumOver, CreditTo
<1>. QED BY <1>1, <1>2 DEF SettledAsRecorded, Settled, Paidup, CreditUp

----------------------------------------------------------------------------
(* What has begun, and what a payment brings. *)

\* Nothing is recorded of a document before it is created.
Begun ==
  /\ \A i \in Invoices : inv[i].status = "NONE" => inv[i].paid = 0 /\ inv[i].credited = 0
  /\ \A c \in Notes : note[c].status = "NONE" => note[c].total = 0 /\ note[c].remaining = 0
  /\ \A p \in Payments : pay[p].status # "NONE" => inv[pay[p].invoice].status # "NONE"

Receipts ==
  Orderly({"refund"}) => \A p \in Payments :
    Stands(pay[p]) /\ ~pay[p].batch => pay[p].amount > 0

\* A step that leaves the documents, their payments and their journals alone.
Rests ==
  /\ UNCHANGED <<inv, note, alloc, pay>>
  /\ \A s \in ControlDocuments : gl'[s] = gl[s]
  /\ odd \subseteq odd'

LEMMA StepsAre ==
  ASSUME TypeParts, [Next]_docVars
  PROVE  \/ Rests
         \/ \E i \in Invoices :
              \/ \E b \in Bodies, st \in Sent : CreateInvoice(i, b, st)
              \/ \E u \in Users, b \in Bodies, st \in DocStatuses : UpdateInvoice(u, i, b, st)
              \/ \E st \in DocStatuses : UpdateInvoiceStatus(i, st)
              \/ DeleteInvoice(i)
         \/ \E p \in Payments, i \in Invoices, a \in Amounts, st \in PaymentSent :
              \E account \in BOOLEAN : CreatePayment(p, i, a, account, st)
         \/ \E p \in Payments : VoidPayment(p)
         \/ \E S \in SUBSET Payments :
              \E of \in [S -> Invoices], amount \in [S -> Amounts], st \in [S -> PaymentSent] :
               CreateBatch(S, of, amount, st)
         \/ \E c \in Notes :
              \/ \E b \in Bodies, st \in Sent : CreateNote(c, b, st)
              \/ \E u \in Users, b \in Bodies, st \in DocStatuses : UpdateNote(u, c, b, st)
              \/ DeleteNote(c)
              \/ \E i \in Invoices, a \in Amounts : Allocate(c, i, a)
<1>1. ControlDocuments \subseteq Sources \ (Advances \cup Manuals)
  BY SourcesDisjoint DEF ControlDocuments, Sources
<1>2. ASSUME NEW u \in Users, \/ \E i \in Invoices : ReadInvoice(u, i)
                              \/ \E c \in Notes : ReadNote(u, c)
                              \/ RefuseUpdate(u)
      PROVE  Rests
  BY <1>2, EditDoes DEF Rests
<1>3. ASSUME NEW v \in Advances, \/ \E type \in AdvanceTypes, a \in Amounts, account \in BOOLEAN,
                                         st \in OtherSent : CreateAdvance(v, type, a, account, st)
                                 \/ DeleteAdvance(v)
      PROVE  Rests
  BY <1>1, <1>3, AdvanceDoes DEF Rests
<1>4. ASSUME NEW m \in Manuals, NEW j \in Entered, NEW st \in OtherSent, CreateManual(m, j, st)
      PROVE  Rests
  BY <1>1, <1>4, CreateManualDoes DEF Rests, JournalsBecome
<1>5. ASSUME NEW m \in Manuals, DeleteManual(m)
      PROVE  Rests
  BY <1>1, <1>5, DeleteManualDoes DEF Rests, JournalsBecome
<1>6. CASE UNCHANGED docVars
  BY <1>6 DEF docVars, Rests
<1>7. CASE InvoiceNext
  BY <1>2, <1>7 DEF InvoiceNext
<1>8. CASE PaymentNext
  BY <1>8 DEF PaymentNext
<1>9. CASE NoteNext
  BY <1>2, <1>9 DEF NoteNext
<1>10. CASE OtherNext
  BY <1>3, <1>4, <1>5, <1>10 DEF OtherNext
<1>11. CASE \E u \in Users : RefuseUpdate(u)
  BY <1>2, <1>11
<1>. QED BY <1>6, <1>7, <1>8, <1>9, <1>10, <1>11 DEF Next

LEMMA BegunBegins == Init => Begun /\ Receipts
BY DEF Init, Begun, Receipts, Stands

\* What the steps with several tables leave in each.
LEMMA PaymentMade ==
  ASSUME TypeParts, NEW p \in Payments, NEW i \in Invoices, NEW a \in Amounts, NEW st \in PaymentSent,
         \E account \in BOOLEAN : CreatePayment(p, i, a, account, st)
  PROVE  /\ pay[p].status = "NONE" /\ inv[i].status # "NONE" /\ a \in Int /\ a # 0
         /\ ~Stands(pay[p]) /\ Stands(pay'[p]) /\ pay'[p].invoice = i
         /\ pay'[p].amount = a /\ ~pay'[p].batch
         /\ \A q \in Payments \ {p} : pay'[q] = pay[q]
         /\ inv'[i].status \in {"PAID", inv[i].status} /\ inv'[i].body = inv[i].body
         /\ inv'[i].total = inv[i].total /\ inv'[i].paid = inv[i].paid + a
         /\ inv'[i].credited = inv[i].credited /\ inv'[i].due = Max0(inv[i].due - a)
         /\ \A j \in Invoices \ {i} : inv'[j] = inv[j]
         /\ odd \subseteq odd' /\ UNCHANGED <<note, alloc>>
         /\ a < 0 => "refund" \in odd'
         /\ inv[i].due - a < 0 => "overpaid" \in odd'
         /\ ~InForce(inv[i].status) => "early" \in odd'
<1>1. /\ PaymentBecomes(p, PaymentOf(st, i, a, FALSE, FALSE))
      /\ InvoiceBecomes(i, InvoiceOf(IF inv[i].due - a <= 0 THEN "PAID" ELSE inv[i].status,
                                     inv[i].body, inv[i].total, inv[i].paid + a,
                                     inv[i].credited, Max0(inv[i].due - a)))
  BY CreatePaymentDoes
<1>2. /\ pay[p].status = "NONE" /\ inv[i].status # "NONE" /\ a \in Int /\ a # 0
      /\ odd \subseteq odd' /\ UNCHANGED <<note, alloc>>
      /\ a < 0 => "refund" \in odd'
      /\ inv[i].due - a < 0 => "overpaid" \in odd'
      /\ ~InForce(inv[i].status) => "early" \in odd'
  BY CreatePaymentDoes, DocumentsAssumption
<1>3. /\ pay'[p].status = st /\ ~pay'[p].undone /\ pay'[p].invoice = i
      /\ pay'[p].amount = a /\ ~pay'[p].batch
      /\ \A q \in Payments \ {p} : pay'[q] = pay[q]
  BY <1>1 DEF PaymentBecomes, PaymentOf
<1>5. ~Stands(pay[p]) /\ Stands(pay'[p])
  BY <1>2, <1>3, DocumentsAssumption DEF Stands
<1>4. /\ inv'[i].status \in {"PAID", inv[i].status} /\ inv'[i].body = inv[i].body
      /\ inv'[i].total = inv[i].total /\ inv'[i].paid = inv[i].paid + a
      /\ inv'[i].credited = inv[i].credited /\ inv'[i].due = Max0(inv[i].due - a)
      /\ \A j \in Invoices \ {i} : inv'[j] = inv[j]
  BY <1>1, InvoiceFields DEF InvoiceBecomes
<1>. QED BY <1>2, <1>3, <1>4, <1>5

LEMMA PaymentVoided ==
  ASSUME TypeParts, NEW p \in Payments, VoidPayment(p)
  PROVE  \E i \in Invoices, a \in Int :
         /\ Stands(pay[p]) /\ pay[p].invoice = i /\ pay[p].amount = a
         /\ ~Stands(pay'[p]) /\ pay'[p].invoice = i
         /\ \A q \in Payments \ {p} : pay'[q] = pay[q]
         /\ inv'[i].status = (IF inv[i].status = "PAID" THEN "AUTHORISED" ELSE inv[i].status)
         /\ inv'[i].body = inv[i].body
         /\ inv'[i].total = inv[i].total /\ inv'[i].paid = Max0(inv[i].paid - a)
         /\ inv'[i].credited = inv[i].credited /\ inv'[i].due = inv[i].due + a
         /\ \A j \in Invoices \ {i} : inv'[j] = inv[j]
         /\ odd \subseteq odd' /\ UNCHANGED <<note, alloc>>
         /\ pay[p].batch => "unbatched" \in odd'
<1>1. pay[p].invoice \in Invoices /\ pay[p].amount \in Int
  BY VoidPaymentDoes
<1>. PICK i \in Invoices, a \in Int : i = pay[p].invoice /\ a = pay[p].amount
  BY <1>1
<1>2. /\ PaymentBecomes(p, PaymentOf("VOIDED", i, a, pay[p].batch, TRUE))
      /\ InvoiceBecomes(i, InvoiceOf(IF inv[i].status = "PAID" THEN "AUTHORISED" ELSE inv[i].status,
                                     inv[i].body, inv[i].total, Max0(inv[i].paid - a),
                                     inv[i].credited, inv[i].due + a))
  BY VoidPaymentDoes
<1>3. /\ Stands(pay[p])
      /\ odd' = odd \cup Odd("unbatched", pay[p].batch) /\ UNCHANGED <<note, alloc>>
  BY VoidPaymentDoes
<1>4. /\ ~Stands(pay'[p]) /\ pay'[p].invoice = i
      /\ \A q \in Payments \ {p} : pay'[q] = pay[q]
  BY <1>2 DEF PaymentBecomes, PaymentOf, Stands
<1>5. /\ inv'[i].status = (IF inv[i].status = "PAID" THEN "AUTHORISED" ELSE inv[i].status)
      /\ inv'[i].body = inv[i].body
      /\ inv'[i].total = inv[i].total /\ inv'[i].paid = Max0(inv[i].paid - a)
      /\ inv'[i].credited = inv[i].credited /\ inv'[i].due = inv[i].due + a
      /\ \A j \in Invoices \ {i} : inv'[j] = inv[j]
  BY <1>2, InvoiceFields DEF InvoiceBecomes
<1>6. pay[p].batch => "unbatched" \in odd'
  BY <1>3 DEF Odd
<1>. QED BY <1>3, <1>4, <1>5, <1>6

LEMMA BatchMade ==
  ASSUME TypeParts, NEW S \in SUBSET Payments,
         \E of \in [S -> Invoices], amount \in [S -> Amounts], st \in [S -> PaymentSent] :
               CreateBatch(S, of, amount, st)
  PROVE  /\ \A p \in S : /\ pay[p].status = "NONE" /\ ~Stands(pay[p])
                         /\ Stands(pay'[p]) /\ pay'[p].batch
                         /\ pay'[p].invoice \in Invoices /\ inv[pay'[p].invoice].status # "NONE"
         /\ \A p \in Payments \ S : pay'[p] = pay[p]
         /\ odd' = odd \cup {"batch"} /\ UNCHANGED <<inv, note, alloc>>
<1>. PICK of \in [S -> Invoices], amount \in [S -> Amounts], st \in [S -> PaymentSent] :
       CreateBatch(S, of, amount, st)
  OBVIOUS
<1>1. pay' = [p \in Payments |-> IF p \in S THEN PaymentOf(st[p], of[p], amount[p], TRUE, FALSE)
                                            ELSE pay[p]]
  BY DEF CreateBatch, PaymentOf
<1>2. ASSUME NEW p \in S
      PROVE  /\ pay[p].status = "NONE" /\ ~Stands(pay[p])
             /\ Stands(pay'[p]) /\ pay'[p].batch
             /\ pay'[p].invoice \in Invoices /\ inv[pay'[p].invoice].status # "NONE"
  <2>1. pay'[p] = PaymentOf(st[p], of[p], amount[p], TRUE, FALSE)
    BY <1>1
  <2>2. /\ pay'[p].status = st[p] /\ ~pay'[p].undone
        /\ pay'[p].batch /\ pay'[p].invoice = of[p]
    BY <2>1 DEF PaymentOf
  <2>3. pay[p].status = "NONE" /\ inv[of[p]].status # "NONE" /\ of[p] \in Invoices
    BY DEF CreateBatch
  <2>4. st[p] # "NONE"
    BY DocumentsAssumption
  <2>. QED BY <2>2, <2>3, <2>4 DEF Stands
<1>3. \A p \in Payments \ S : pay'[p] = pay[p]
  BY <1>1
<1>4. odd' = odd \cup {"batch"} /\ UNCHANGED <<inv, note, alloc>>
  BY DEF CreateBatch
<1>. QED BY <1>2, <1>3, <1>4

LEMMA CreditAllocated ==
  ASSUME TypeParts, NEW c \in Notes, NEW i \in Invoices, NEW asked \in Amounts,
         Allocate(c, i, asked)
  PROVE  \E a \in Int :
         /\ a <= inv[i].due
         /\ alloc'[c][i] = alloc[c][i] + a
         /\ \A j \in Invoices \ {i} : alloc'[c][j] = alloc[c][j]
         /\ \A d \in Notes \ {c} : alloc'[d] = alloc[d]
         /\ note'[c].status \in {"PAID", "AUTHORISED"} /\ note[c].status = "AUTHORISED"
         /\ note'[c].body = note[c].body /\ note'[c].total = note[c].total
         /\ note'[c].remaining = note[c].remaining - a
         /\ \A d \in Notes \ {c} : note'[d] = note[d]
         /\ inv'[i].status \in {"PAID", "AUTHORISED"} /\ inv[i].status = "AUTHORISED"
         /\ inv'[i].body = inv[i].body /\ inv'[i].total = inv[i].total
         /\ inv'[i].paid = inv[i].paid /\ inv'[i].credited = inv[i].credited + a
         /\ inv'[i].due = Max0(inv[i].due - a)
         /\ \A j \in Invoices \ {i} : inv'[j] = inv[j]
         /\ odd \subseteq odd' /\ UNCHANGED <<pay, gl>>
         /\ note[c].body.type # inv[i].body.type => "crossed" \in odd'
<1>1. Given(i, asked) \in Int /\ Given(i, asked) <= inv[i].due
  BY AllocateDoes
<1>. PICK a \in Int : a = Given(i, asked)
  BY <1>1
<1>2. /\ alloc' = [alloc EXCEPT ![c] = [alloc[c] EXCEPT ![i] = alloc[c][i] + a]]
      /\ NoteBecomes(c, NoteOf(IF note[c].remaining - a <= 0 THEN "PAID" ELSE note[c].status,
                               note[c].body, note[c].total, note[c].remaining - a))
      /\ InvoiceBecomes(i, InvoiceOf(IF inv[i].due - a <= 0 THEN "PAID" ELSE inv[i].status,
                                     inv[i].body, inv[i].total, inv[i].paid,
                                     inv[i].credited + a, Max0(inv[i].due - a)))
  BY AllocateDoes
<1>3. /\ note[c].status = "AUTHORISED" /\ inv[i].status = "AUTHORISED"
      /\ odd' = odd \cup Odd("crossed", note[c].body.type # inv[i].body.type)
      /\ UNCHANGED <<pay, gl>>
  BY AllocateDoes
<1>4. /\ alloc'[c][i] = alloc[c][i] + a
      /\ \A j \in Invoices \ {i} : alloc'[c][j] = alloc[c][j]
      /\ \A d \in Notes \ {c} : alloc'[d] = alloc[d]
  BY <1>2 DEF TypeParts
<1>5. /\ note'[c].status \in {"PAID", "AUTHORISED"}
      /\ note'[c].body = note[c].body /\ note'[c].total = note[c].total
      /\ note'[c].remaining = note[c].remaining - a
      /\ \A d \in Notes \ {c} : note'[d] = note[d]
  BY <1>2, <1>3, NoteFields DEF NoteBecomes
<1>6. /\ inv'[i].status \in {"PAID", "AUTHORISED"}
      /\ inv'[i].body = inv[i].body /\ inv'[i].total = inv[i].total
      /\ inv'[i].paid = inv[i].paid /\ inv'[i].credited = inv[i].credited + a
      /\ inv'[i].due = Max0(inv[i].due - a)
      /\ \A j \in Invoices \ {i} : inv'[j] = inv[j]
  BY <1>2, <1>3, InvoiceFields DEF InvoiceBecomes
<1>7. note[c].body.type # inv[i].body.type => "crossed" \in odd'
  BY <1>3 DEF Odd
<1>. QED BY <1>1, <1>3, <1>4, <1>5, <1>6, <1>7

\* Documents that were not created by a step are begun as they were.
LEMMA BegunStays ==
  ASSUME TypeParts, Begun,
         \A i \in Invoices : inv'[i].status = "NONE" => inv'[i] = inv[i],
         \A i \in Invoices : inv[i].status # "NONE" => inv'[i].status # "NONE",
         \A c \in Notes : note'[c].status = "NONE" => note'[c] = note[c],
         \A p \in Payments : pay'[p].status # "NONE" =>
           \E i \in Invoices : pay'[p].invoice = i /\ inv[i].status # "NONE"
  PROVE  Begun'
BY DEF Begun

LEMMA PaymentsBegun ==
  ASSUME TypeParts, Begun, NEW p \in Payments, pay[p].status # "NONE"
  PROVE  \E i \in Invoices : pay[p].invoice = i /\ inv[i].status # "NONE"
BY DEF TypeParts, Begun

LEMMA BegunStep ==
  ASSUME TypeParts, Begun, [Next]_docVars
  PROVE  Begun'
<1>1. CASE Rests
  BY <1>1, BegunStays, PaymentsBegun DEF Rests
<1>2. ASSUME NEW i \in Invoices, NEW b \in Bodies, NEW st \in Sent, CreateInvoice(i, b, st)
      PROVE  Begun'
  <2>1. /\ inv'[i].status # "NONE" /\ \A j \in Invoices \ {i} : inv'[j] = inv[j]
        /\ note' = note /\ pay' = pay
    BY <1>2, CreateInvoiceDoes, DocumentsAssumption, InvoiceFields DEF InvoiceBecomes, DocStatuses
  <2>. QED BY <2>1, BegunStays, PaymentsBegun
<1>3. ASSUME NEW u \in Users, NEW i \in Invoices, NEW b \in Bodies, NEW st \in DocStatuses,
             UpdateInvoice(u, i, b, st)
      PROVE  Begun'
  <2>1. /\ inv'[i].status # "NONE" /\ \A j \in Invoices \ {i} : inv'[j] = inv[j]
        /\ note' = note /\ pay' = pay
    BY <1>3, UpdateInvoiceDoes, InvoiceFields DEF InvoiceBecomes, DocStatuses, StatusAfterEdit
  <2>. QED BY <2>1, BegunStays, PaymentsBegun
<1>4. ASSUME NEW i \in Invoices, NEW st \in DocStatuses, UpdateInvoiceStatus(i, st)
      PROVE  Begun'
  <2>1. /\ inv'[i].status # "NONE" /\ \A j \in Invoices \ {i} : inv'[j] = inv[j]
        /\ note' = note /\ pay' = pay
    BY <1>4, UpdateInvoiceStatusDoes, InvoiceFields DEF InvoiceBecomes, DocStatuses
  <2>. QED BY <2>1, BegunStays, PaymentsBegun
<1>5. ASSUME NEW i \in Invoices, DeleteInvoice(i)
      PROVE  Begun'
  <2>1. /\ inv'[i].status # "NONE" /\ \A j \in Invoices \ {i} : inv'[j] = inv[j]
        /\ note' = note /\ pay' = pay
    BY <1>5, DeleteInvoiceDoes, InvoiceFields DEF InvoiceBecomes, DocStatuses
  <2>. QED BY <2>1, BegunStays, PaymentsBegun
<1>6. ASSUME NEW p \in Payments, NEW i \in Invoices, NEW a \in Amounts, NEW st \in PaymentSent,
             \E account \in BOOLEAN : CreatePayment(p, i, a, account, st)
      PROVE  Begun'
  BY <1>6, PaymentMade, BegunStays, PaymentsBegun
<1>7. ASSUME NEW p \in Payments, VoidPayment(p)
      PROVE  Begun'
  <2>1. PICK i \in Invoices :
          /\ Stands(pay[p]) /\ pay[p].invoice = i /\ pay'[p].invoice = i
          /\ \A q \in Payments \ {p} : pay'[q] = pay[q]
          /\ inv'[i].status = (IF inv[i].status = "PAID" THEN "AUTHORISED" ELSE inv[i].status)
          /\ \A j \in Invoices \ {i} : inv'[j] = inv[j]
          /\ note' = note
    BY <1>7, PaymentVoided
  <2>2. inv[i].status # "NONE"
    BY <2>1 DEF Begun, Stands
  <2>. QED BY <2>1, <2>2, BegunStays, PaymentsBegun
<1>8. ASSUME NEW S \in SUBSET Payments,
             \E of \in [S -> Invoices], amount \in [S -> Amounts], st \in [S -> PaymentSent] :
               CreateBatch(S, of, amount, st)
      PROVE  Begun'
  <2>1. /\ inv' = inv /\ note' = note
        /\ \A p \in S : pay'[p].invoice \in Invoices /\ inv[pay'[p].invoice].status # "NONE"
        /\ \A p \in Payments \ S : pay'[p] = pay[p]
    BY <1>8, BatchMade
  <2>2. \A p \in Payments : pay'[p].status # "NONE" =>
          \E i \in Invoices : pay'[p].invoice = i /\ inv[i].status # "NONE"
    BY <2>1, PaymentsBegun
  <2>. QED BY <2>1, <2>2, BegunStays
<1>9. ASSUME NEW c \in Notes, NEW b \in Bodies, NEW st \in Sent, CreateNote(c, b, st)
      PROVE  Begun'
  <2>1. /\ note'[c].status # "NONE" /\ \A d \in Notes \ {c} : note'[d] = note[d]
        /\ inv' = inv /\ pay' = pay
    BY <1>9, CreateNoteDoes, DocumentsAssumption, NoteFields DEF NoteBecomes, DocStatuses
  <2>. QED BY <2>1, BegunStays, PaymentsBegun
<1>10. ASSUME NEW u \in Users, NEW c \in Notes, NEW b \in Bodies, NEW st \in DocStatuses,
             UpdateNote(u, c, b, st)
      PROVE  Begun'
  <2>1. /\ note'[c].status # "NONE" /\ \A d \in Notes \ {c} : note'[d] = note[d]
        /\ inv' = inv /\ pay' = pay
    BY <1>10, UpdateNoteDoes, NoteFields DEF NoteBecomes, DocStatuses
  <2>. QED BY <2>1, BegunStays, PaymentsBegun
<1>11. ASSUME NEW c \in Notes, DeleteNote(c)
      PROVE  Begun'
  <2>1. /\ note'[c].status # "NONE" /\ \A d \in Notes \ {c} : note'[d] = note[d]
        /\ inv' = inv /\ pay' = pay
    BY <1>11, DeleteNoteDoes, NoteFields DEF NoteBecomes, DocStatuses
  <2>. QED BY <2>1, BegunStays, PaymentsBegun
<1>12. ASSUME NEW c \in Notes, NEW i \in Invoices, NEW asked \in Amounts, Allocate(c, i, asked)
      PROVE  Begun'
  BY <1>12, CreditAllocated, BegunStays, PaymentsBegun
<1>. QED BY <1>1, <1>2, <1>3, <1>4, <1>5, <1>6, <1>7, <1>8, <1>9, <1>10, <1>11, <1>12, StepsAre

LEMMA ReceiptsStep ==
  ASSUME TypeParts, Receipts, [Next]_docVars
  PROVE  Receipts'
<1>1. CASE Rests
  BY <1>1 DEF Receipts, Orderly, Rests
<1>2. ASSUME NEW i \in Invoices, NEW b \in Bodies, NEW st \in Sent, CreateInvoice(i, b, st)
      PROVE  Receipts'
  BY <1>2, CreateInvoiceDoes DEF Receipts, Orderly
<1>3. ASSUME NEW u \in Users, NEW i \in Invoices, NEW b \in Bodies, NEW st \in DocStatuses,
             UpdateInvoice(u, i, b, st)
      PROVE  Receipts'
  BY <1>3, UpdateInvoiceDoes DEF Receipts, Orderly
<1>4. ASSUME NEW i \in Invoices, NEW st \in DocStatuses, UpdateInvoiceStatus(i, st)
      PROVE  Receipts'
  BY <1>4, UpdateInvoiceStatusDoes DEF Receipts, Orderly
<1>5. ASSUME NEW i \in Invoices, DeleteInvoice(i)
      PROVE  Receipts'
  BY <1>5, DeleteInvoiceDoes DEF Receipts, Orderly
<1>6. ASSUME NEW p \in Payments, NEW i \in Invoices, NEW a \in Amounts, NEW st \in PaymentSent,
             \E account \in BOOLEAN : CreatePayment(p, i, a, account, st)
      PROVE  Receipts'
  BY <1>6, PaymentMade DEF Receipts, Orderly
<1>7. ASSUME NEW p \in Payments, VoidPayment(p)
      PROVE  Receipts'
  BY <1>7, PaymentVoided DEF Receipts, Orderly
<1>8. ASSUME NEW S \in SUBSET Payments,
             \E of \in [S -> Invoices], amount \in [S -> Amounts], st \in [S -> PaymentSent] :
               CreateBatch(S, of, amount, st)
      PROVE  Receipts'
  BY <1>8, BatchMade DEF Receipts, Orderly
<1>9. ASSUME NEW c \in Notes, NEW b \in Bodies, NEW st \in Sent, CreateNote(c, b, st)
      PROVE  Receipts'
  BY <1>9, CreateNoteDoes DEF Receipts, Orderly
<1>10. ASSUME NEW u \in Users, NEW c \in Notes, NEW b \in Bodies, NEW st \in DocStatuses,
             UpdateNote(u, c, b, st)
      PROVE  Receipts'
  BY <1>10, UpdateNoteDoes DEF Receipts, Orderly
<1>11. ASSUME NEW c \in Notes, DeleteNote(c)
      PROVE  Receipts'
  BY <1>11, DeleteNoteDoes DEF Receipts, Orderly
<1>12. ASSUME NEW c \in Notes, NEW i \in Invoices, NEW asked \in Amounts, Allocate(c, i, asked)
      PROVE  Receipts'
  BY <1>12, CreditAllocated DEF Receipts, Orderly
<1>. QED BY <1>1, <1>2, <1>3, <1>4, <1>5, <1>6, <1>7, <1>8, <1>9, <1>10, <1>11, <1>12, StepsAre

----------------------------------------------------------------------------
(* What is paid and credited is what was recorded. *)

LEMMA ReceiptsStay ==
  ASSUME NEW i \in Invoices,
         \A p \in Payments : pay'[p] = pay[p] \/ (~Counts(p, i) /\ ~Counts(p, i)')
  PROVE  SumUp(Payments, Receipt(i)') = SumUp(Payments, Receipt(i))
<1>1. \A p \in Payments : Receipt(i)'[p] = Receipt(i)[p]
  BY DEF Receipt, Counts
<1>. QED BY <1>1, SumSame, SubledgerAssumption

LEMMA CreditsStay ==
  ASSUME NEW i \in Invoices, \A c \in Notes : alloc'[c][i] = alloc[c][i]
  PROVE  SumUp(Notes, CreditTo(i)') = SumUp(Notes, CreditTo(i))
<1>1. \A c \in Notes : CreditTo(i)'[c] = CreditTo(i)[c]
  BY DEF CreditTo
<1>. QED BY <1>1, SumSame, SubledgerAssumption

LEMMA ReceiptChanges ==
  ASSUME TypeParts, TypeParts', NEW i \in Invoices, NEW p \in Payments,
         \A q \in Payments \ {p} : Receipt(i)'[q] = Receipt(i)[q]
  PROVE  /\ SumUp(Payments, Receipt(i)) \in Int
         /\ SumUp(Payments, Receipt(i)')
            = SumUp(Payments, Receipt(i)) + Receipt(i)'[p] - Receipt(i)[p]
<1>1. PICK f, g : f = Receipt(i) /\ g = Receipt(i)'
  OBVIOUS
<1>2. \A q \in Payments : f[q] \in Int /\ g[q] \in Int
  BY <1>1, ReceiptTypes, ReceiptTypesNext
<1>3. \A q \in Payments \ {p} : g[q] = f[q]
  BY <1>1
<1>4. SumUp(Payments, g) = SumUp(Payments, f) + g[p] - f[p]
  BY <1>2, <1>3, SumChanges, SubledgerAssumption
<1>5. SumUp(Payments, f) \in Int
  BY <1>2, SumIsInt, SubledgerAssumption
<1>. QED BY <1>1, <1>4, <1>5

LEMMA CreditChanges ==
  ASSUME TypeParts, TypeParts', NEW i \in Invoices, NEW c \in Notes,
         \A d \in Notes \ {c} : CreditTo(i)'[d] = CreditTo(i)[d]
  PROVE  /\ SumUp(Notes, CreditTo(i)) \in Int
         /\ SumUp(Notes, CreditTo(i)') = SumUp(Notes, CreditTo(i)) + CreditTo(i)'[c] - CreditTo(i)[c]
<1>1. PICK f, g : f = CreditTo(i) /\ g = CreditTo(i)'
  OBVIOUS
<1>2. \A d \in Notes : f[d] \in Int /\ g[d] \in Int
  BY <1>1, ReceiptTypes, ReceiptTypesNext
<1>3. \A d \in Notes \ {c} : g[d] = f[d]
  BY <1>1
<1>4. SumUp(Notes, g) = SumUp(Notes, f) + g[c] - f[c]
  BY <1>2, <1>3, SumChanges, SubledgerAssumption
<1>5. SumUp(Notes, f) \in Int
  BY <1>2, SumIsInt, SubledgerAssumption
<1>. QED BY <1>1, <1>4, <1>5

\* A step that leaves the payments, the allocations and what is paid and credited.
LEMMA SettledStays ==
  ASSUME Settled, odd \subseteq odd',
         \A p \in Payments : pay'[p] = pay[p] \/ (\A i \in Invoices : ~Counts(p, i) /\ ~Counts(p, i)'),
         \A c \in Notes, i \in Invoices : alloc'[c][i] = alloc[c][i],
         \A i \in Invoices : inv'[i].paid = inv[i].paid /\ inv'[i].credited = inv[i].credited
  PROVE  Settled'
<1>1. ASSUME NEW i \in Invoices
      PROVE  /\ SumUp(Payments, Receipt(i)') = SumUp(Payments, Receipt(i))
             /\ SumUp(Notes, CreditTo(i)') = SumUp(Notes, CreditTo(i))
  BY ReceiptsStay, CreditsStay
<1>2. Orderly({"refund", "unbatched"})' => Orderly({"refund", "unbatched"})
  BY DEF Orderly
<1>. QED BY <1>1, <1>2 DEF Settled, Paidup, CreditUp

\* No payment that stands brought more than its invoice says was paid.
LEMMA ReceiptWithin ==
  ASSUME TypeParts, Receipts, Settled, Orderly({"refund", "unbatched"}),
         NEW p \in Payments, NEW i \in Invoices, Counts(p, i)
  PROVE  pay[p].amount <= inv[i].paid
<1>1. Orderly({"refund"})
  BY DEF Orderly
<1>2. \A q \in Payments : Receipt(i)[q] \in Nat
  <2>1. \A q \in Payments : pay[q].amount \in Int
    BY DEF TypeParts, PaymentRow
  <2>. QED BY <1>1, <2>1 DEF Receipts, Receipt, Counts
<1>3. Receipt(i)[p] <= SumUp(Payments, Receipt(i))
  BY <1>2, TermWithinSum, SubledgerAssumption
<1>. QED BY <1>3 DEF Settled, Paidup, Receipt

LEMMA SettledStep ==
  ASSUME TypeParts, TypeParts', Begun, Receipts, Settled, [Next]_docVars
  PROVE  Settled'
<1>1. CASE Rests
  <2>1. inv' = inv /\ alloc' = alloc /\ pay' = pay /\ odd \subseteq odd'
    BY <1>1 DEF Rests
  <2>. QED BY <2>1, SettledStays
<1>2. ASSUME NEW i \in Invoices, NEW b \in Bodies, NEW st \in Sent, CreateInvoice(i, b, st)
      PROVE  Settled'
  <2>1. /\ inv'[i].paid = inv[i].paid /\ inv'[i].credited = inv[i].credited
        /\ \A j \in Invoices \ {i} : inv'[j] = inv[j]
        /\ alloc' = alloc /\ pay' = pay /\ odd \subseteq odd'
    BY <1>2, CreateInvoiceDoes, InvoiceFields DEF InvoiceBecomes, Begun
  <2>. QED BY <2>1, SettledStays
<1>3. ASSUME NEW u \in Users, NEW i \in Invoices, NEW b \in Bodies, NEW st \in DocStatuses,
             UpdateInvoice(u, i, b, st)
      PROVE  Settled'
  <2>1. /\ inv'[i].paid = inv[i].paid /\ inv'[i].credited = inv[i].credited
        /\ \A j \in Invoices \ {i} : inv'[j] = inv[j]
        /\ alloc' = alloc /\ pay' = pay /\ odd \subseteq odd'
    BY <1>3, UpdateInvoiceDoes, InvoiceFields DEF InvoiceBecomes
  <2>. QED BY <2>1, SettledStays
<1>4. ASSUME NEW i \in Invoices, NEW st \in DocStatuses, UpdateInvoiceStatus(i, st)
      PROVE  Settled'
  <2>1. /\ inv'[i].paid = inv[i].paid /\ inv'[i].credited = inv[i].credited
        /\ \A j \in Invoices \ {i} : inv'[j] = inv[j]
        /\ alloc' = alloc /\ pay' = pay /\ odd \subseteq odd'
    BY <1>4, UpdateInvoiceStatusDoes, InvoiceFields DEF InvoiceBecomes
  <2>. QED BY <2>1, SettledStays
<1>5. ASSUME NEW i \in Invoices, DeleteInvoice(i)
      PROVE  Settled'
  <2>1. /\ inv'[i].paid = inv[i].paid /\ inv'[i].credited = inv[i].credited
        /\ \A j \in Invoices \ {i} : inv'[j] = inv[j]
        /\ alloc' = alloc /\ pay' = pay /\ odd \subseteq odd'
    BY <1>5, DeleteInvoiceDoes, InvoiceFields DEF InvoiceBecomes
  <2>. QED BY <2>1, SettledStays
<1>6. ASSUME NEW p \in Payments, NEW i \in Invoices, NEW a \in Amounts, NEW st \in PaymentSent,
             \E account \in BOOLEAN : CreatePayment(p, i, a, account, st)
      PROVE  Settled'
  <2>1. /\ ~Stands(pay[p]) /\ a \in Int
        /\ Stands(pay'[p]) /\ pay'[p].invoice = i
        /\ pay'[p].amount = a /\ ~pay'[p].batch
        /\ \A q \in Payments \ {p} : pay'[q] = pay[q]
        /\ inv'[i].paid = inv[i].paid + a /\ inv'[i].credited = inv[i].credited
        /\ \A j \in Invoices \ {i} : inv'[j] = inv[j]
        /\ odd \subseteq odd' /\ alloc' = alloc
    BY <1>6, PaymentMade
  <2>2. ASSUME NEW j \in Invoices
        PROVE  SumUp(Notes, CreditTo(j)') = SumUp(Notes, CreditTo(j))
    BY <2>1, CreditsStay
  <2>3. ASSUME NEW j \in Invoices, j # i
        PROVE  SumUp(Payments, Receipt(j)') = SumUp(Payments, Receipt(j))
    <3>1. ~Counts(p, j) /\ ~Counts(p, j)'
      BY <2>1, <2>3 DEF Counts
    <3>. QED BY <2>1, <3>1, ReceiptsStay
  <2>4. SumUp(Payments, Receipt(i)') = SumUp(Payments, Receipt(i)) + a
    <3>1. Receipt(i)[p] = 0 /\ Receipt(i)'[p] = a
      BY <2>1 DEF Receipt, Counts
    <3>2. \A q \in Payments \ {p} : Receipt(i)'[q] = Receipt(i)[q]
      BY <2>1 DEF Receipt, Counts
    <3>. QED BY <2>1, <3>1, <3>2, ReceiptChanges
  <2>5. Orderly({"refund", "unbatched"})' => Orderly({"refund", "unbatched"})
    BY <2>1 DEF Orderly
  <2>. QED BY <2>1, <2>2, <2>3, <2>4, <2>5 DEF Settled, Paidup, CreditUp
<1>7. ASSUME NEW p \in Payments, VoidPayment(p)
      PROVE  Settled'
  <2>1. PICK i \in Invoices, a \in Int :
          /\ Stands(pay[p]) /\ pay[p].invoice = i /\ pay[p].amount = a
          /\ ~Stands(pay'[p])
          /\ \A q \in Payments \ {p} : pay'[q] = pay[q]
          /\ inv'[i].paid = Max0(inv[i].paid - a)
          /\ inv'[i].credited = inv[i].credited
          /\ \A j \in Invoices \ {i} : inv'[j] = inv[j]
          /\ odd \subseteq odd' /\ alloc' = alloc
          /\ pay[p].batch => "unbatched" \in odd'
    BY <1>7, PaymentVoided
  <2>2. ASSUME NEW j \in Invoices
        PROVE  SumUp(Notes, CreditTo(j)') = SumUp(Notes, CreditTo(j))
    BY <2>1, CreditsStay
  <2>3. ASSUME NEW j \in Invoices, j # i
        PROVE  SumUp(Payments, Receipt(j)') = SumUp(Payments, Receipt(j))
    <3>1. ~Counts(p, j) /\ ~Counts(p, j)'
      BY <2>1, <2>3 DEF Counts
    <3>. QED BY <2>1, <3>1, ReceiptsStay
  <2>4. ASSUME Orderly({"refund", "unbatched"})'
        PROVE  /\ Orderly({"refund", "unbatched"})
               /\ inv[i].paid = SumUp(Payments, Receipt(i))
               /\ inv'[i].paid = SumUp(Payments, Receipt(i)')
    <3>1. Orderly({"refund", "unbatched"}) /\ Orderly({"refund"}) /\ ~pay[p].batch
      BY <2>1, <2>4 DEF Orderly
    <3>2. Receipt(i)[p] = a /\ Receipt(i)'[p] = 0
      BY <2>1, <3>1 DEF Receipt, Counts
    <3>3. inv[i].paid = SumUp(Payments, Receipt(i))
      BY <3>1 DEF Settled, Paidup
    <3>4. a <= inv[i].paid
      BY <2>1, <3>1, ReceiptWithin DEF Counts
    <3>5. \A q \in Payments \ {p} : Receipt(i)'[q] = Receipt(i)[q]
      BY <2>1 DEF Receipt, Counts
    <3>6. SumUp(Payments, Receipt(i)') = SumUp(Payments, Receipt(i)) + Receipt(i)'[p] - Receipt(i)[p]
      BY <3>5, ReceiptChanges
    <3>7. inv[i].paid \in Int
      BY DEF TypeParts, InvoiceRow
    <3>. QED BY <2>1, <3>1, <3>2, <3>3, <3>4, <3>6, <3>7 DEF Max0
  <2>5. Orderly({"refund", "unbatched"})' => Orderly({"refund", "unbatched"})
    BY <2>1 DEF Orderly
  <2>. QED BY <2>1, <2>2, <2>3, <2>4, <2>5 DEF Settled, Paidup, CreditUp
<1>8. ASSUME NEW S \in SUBSET Payments,
             \E of \in [S -> Invoices], amount \in [S -> Amounts], st \in [S -> PaymentSent] :
               CreateBatch(S, of, amount, st)
      PROVE  Settled'
  <2>1. /\ \A q \in S : ~Stands(pay[q]) /\ pay'[q].batch
        /\ \A q \in Payments \ S : pay'[q] = pay[q]
        /\ odd \subseteq odd' /\ inv' = inv /\ alloc' = alloc
    BY <1>8, BatchMade
  <2>2. \A q \in S, i \in Invoices : ~Counts(q, i) /\ ~Counts(q, i)'
    BY <2>1 DEF Counts
  <2>. QED BY <2>1, <2>2, SettledStays
<1>9. ASSUME NEW c \in Notes, NEW b \in Bodies, NEW st \in Sent, CreateNote(c, b, st)
      PROVE  Settled'
  <2>1. inv' = inv /\ alloc' = alloc /\ pay' = pay /\ odd \subseteq odd'
    BY <1>9, CreateNoteDoes
  <2>. QED BY <2>1, SettledStays
<1>10. ASSUME NEW u \in Users, NEW c \in Notes, NEW b \in Bodies, NEW st \in DocStatuses,
             UpdateNote(u, c, b, st)
      PROVE  Settled'
  <2>1. inv' = inv /\ alloc' = alloc /\ pay' = pay /\ odd \subseteq odd'
    BY <1>10, UpdateNoteDoes
  <2>. QED BY <2>1, SettledStays
<1>11. ASSUME NEW c \in Notes, DeleteNote(c)
      PROVE  Settled'
  <2>1. inv' = inv /\ alloc' = alloc /\ pay' = pay /\ odd \subseteq odd'
    BY <1>11, DeleteNoteDoes
  <2>. QED BY <2>1, SettledStays
<1>12. ASSUME NEW c \in Notes, NEW i \in Invoices, NEW asked \in Amounts, Allocate(c, i, asked)
      PROVE  Settled'
  <2>1. PICK a \in Int :
          /\ alloc'[c][i] = alloc[c][i] + a
          /\ \A j \in Invoices \ {i} : alloc'[c][j] = alloc[c][j]
          /\ \A d \in Notes \ {c} : alloc'[d] = alloc[d]
          /\ inv'[i].paid = inv[i].paid /\ inv'[i].credited = inv[i].credited + a
          /\ \A j \in Invoices \ {i} : inv'[j] = inv[j]
          /\ odd \subseteq odd' /\ pay' = pay
    BY <1>12, CreditAllocated
  <2>2. ASSUME NEW j \in Invoices
        PROVE  SumUp(Payments, Receipt(j)') = SumUp(Payments, Receipt(j))
    BY <2>1, ReceiptsStay
  <2>3. ASSUME NEW j \in Invoices, j # i
        PROVE  SumUp(Notes, CreditTo(j)') = SumUp(Notes, CreditTo(j))
    BY <2>1, <2>3, CreditsStay
  <2>4. SumUp(Notes, CreditTo(i)') = SumUp(Notes, CreditTo(i)) + a
    <3>1. CreditTo(i)'[c] = CreditTo(i)[c] + a
      BY <2>1 DEF CreditTo
    <3>2. \A d \in Notes \ {c} : CreditTo(i)'[d] = CreditTo(i)[d]
      BY <2>1 DEF CreditTo
    <3>3. CreditTo(i)[c] \in Int
      BY ReceiptTypes
    <3>4. /\ SumUp(Notes, CreditTo(i)) \in Int
          /\ SumUp(Notes, CreditTo(i)') = SumUp(Notes, CreditTo(i)) + CreditTo(i)'[c] - CreditTo(i)[c]
      BY <3>2, CreditChanges
    <3>. QED BY <3>1, <3>3, <3>4
  <2>5. Orderly({"refund", "unbatched"})' => Orderly({"refund", "unbatched"})
    BY <2>1 DEF Orderly
  <2>. QED BY <2>1, <2>2, <2>3, <2>4, <2>5 DEF Settled, Paidup, CreditUp
<1>. QED BY <1>1, <1>2, <1>3, <1>4, <1>5, <1>6, <1>7, <1>8, <1>9, <1>10, <1>11, <1>12, StepsAre

LEMMA SettledBegins == Init => Settled
<1>. SUFFICES ASSUME Init PROVE Settled
  OBVIOUS
<1>1. ASSUME NEW i \in Invoices
      PROVE  SumUp(Payments, Receipt(i)) = 0 /\ SumUp(Notes, CreditTo(i)) = 0
  <2>1. \A p \in Payments : Receipt(i)[p] = 0
    BY DEF Init, Receipt, Counts
  <2>2. \A c \in Notes : CreditTo(i)[c] = 0
    BY DEF Init, CreditTo
  <2>. QED BY <2>1, <2>2, SumOfZeros, SubledgerAssumption
<1>2. \A i \in Invoices : inv[i].paid = 0 /\ inv[i].credited = 0
  BY DEF Init
<1>. QED BY <1>1, <1>2 DEF Settled, Paidup, CreditUp

\* What an invoice says was paid is the sum of its payments that stand, and what it says
\* was credited is what the notes allocated to it, after any edits, voids and re-payments.
THEOREM SettledIsRecorded == Spec => []SettledAsRecorded
<1>1. Init => TypeParts /\ Begun /\ Receipts /\ Settled
  BY TypeBegins, BegunBegins, SettledBegins
<1>2. TypeParts /\ Begun /\ Receipts /\ Settled /\ [Next]_docVars
      => TypeParts' /\ Begun' /\ Receipts' /\ Settled'
  BY TypeStep, BegunStep, ReceiptsStep, SettledStep
<1>. QED BY <1>1, <1>2, SettledIs, PTL DEF Spec

----------------------------------------------------------------------------
(* A credit note spends what it has; an invoice owes what is left. *)

Spending == Orderly({"reissued"}) => \A c \in Notes : SpentUp(c)

Leaving ==
  Orderly({"refund", "overpaid", "recredited", "unbatched"}) => \A i \in Invoices : Left(i)

LEMMA SpentTypes ==
  ASSUME TypeParts, NEW c \in Notes PROVE SumUp(Invoices, alloc[c]) \in Int
<1>1. \A i \in Invoices : alloc[c][i] \in Int
  BY DEF TypeParts
<1>. QED BY <1>1, SumIsInt, SubledgerAssumption

LEMMA SpendingStays ==
  ASSUME Spending, odd \subseteq odd', alloc' = alloc,
         \A c \in Notes : note'[c].total = note[c].total /\ note'[c].remaining = note[c].remaining
  PROVE  Spending'
BY DEF Spending, SpentUp, Orderly

\* A note that is written again has the whole of its total left, and had nothing allocated.
LEMMA SpendingAnew ==
  ASSUME Spending, odd \subseteq odd', alloc' = alloc, NEW c \in Notes,
         TypeParts', note'[c].remaining = note'[c].total,
         Orderly({"reissued"})' => SumUp(Invoices, alloc[c]) = 0,
         \A d \in Notes \ {c} : note'[d] = note[d]
  PROVE  Spending'
<1>1. note'[c].total \in Int
  BY DEF TypeParts, NoteRow
<1>2. Orderly({"reissued"})' => Orderly({"reissued"})
  BY DEF Orderly
<1>3. Orderly({"reissued"})' => SpentUp(c)'
  BY <1>1 DEF SpentUp
<1>4. \A d \in Notes \ {c} : SpentUp(d) => SpentUp(d)'
  BY DEF SpentUp
<1>. QED BY <1>2, <1>3, <1>4 DEF Spending

LEMMA SpendingStep ==
  ASSUME TypeParts, TypeParts', Begun, Spending, [Next]_docVars
  PROVE  Spending'
<1>1. CASE Rests
  <2>1. note' = note /\ alloc' = alloc /\ odd \subseteq odd'
    BY <1>1 DEF Rests
  <2>. QED BY <2>1, SpendingStays
<1>2. ASSUME NEW i \in Invoices, NEW b \in Bodies, NEW st \in Sent, CreateInvoice(i, b, st)
      PROVE  Spending'
  <2>1. note' = note /\ alloc' = alloc /\ odd \subseteq odd'
    BY <1>2, CreateInvoiceDoes
  <2>. QED BY <2>1, SpendingStays
<1>3. ASSUME NEW u \in Users, NEW i \in Invoices, NEW b \in Bodies, NEW st \in DocStatuses,
             UpdateInvoice(u, i, b, st)
      PROVE  Spending'
  <2>1. note' = note /\ alloc' = alloc /\ odd \subseteq odd'
    BY <1>3, UpdateInvoiceDoes
  <2>. QED BY <2>1, SpendingStays
<1>4. ASSUME NEW i \in Invoices, NEW st \in DocStatuses, UpdateInvoiceStatus(i, st)
      PROVE  Spending'
  <2>1. note' = note /\ alloc' = alloc /\ odd \subseteq odd'
    BY <1>4, UpdateInvoiceStatusDoes
  <2>. QED BY <2>1, SpendingStays
<1>5. ASSUME NEW i \in Invoices, DeleteInvoice(i)
      PROVE  Spending'
  <2>1. note' = note /\ alloc' = alloc /\ odd \subseteq odd'
    BY <1>5, DeleteInvoiceDoes
  <2>. QED BY <2>1, SpendingStays
<1>6. ASSUME NEW p \in Payments, NEW i \in Invoices, NEW a \in Amounts, NEW st \in PaymentSent,
             \E account \in BOOLEAN : CreatePayment(p, i, a, account, st)
      PROVE  Spending'
  <2>1. note' = note /\ alloc' = alloc /\ odd \subseteq odd'
    BY <1>6, PaymentMade
  <2>. QED BY <2>1, SpendingStays
<1>7. ASSUME NEW p \in Payments, VoidPayment(p)
      PROVE  Spending'
  <2>1. note' = note /\ alloc' = alloc /\ odd \subseteq odd'
    BY <1>7, PaymentVoided
  <2>. QED BY <2>1, SpendingStays
<1>8. ASSUME NEW S \in SUBSET Payments,
             \E of \in [S -> Invoices], amount \in [S -> Amounts], st \in [S -> PaymentSent] :
               CreateBatch(S, of, amount, st)
      PROVE  Spending'
  <2>1. note' = note /\ alloc' = alloc /\ odd \subseteq odd'
    BY <1>8, BatchMade
  <2>. QED BY <2>1, SpendingStays
<1>9. ASSUME NEW c \in Notes, NEW b \in Bodies, NEW st \in Sent, CreateNote(c, b, st)
      PROVE  Spending'
  <2>1. /\ note[c].status = "NONE" /\ note'[c].remaining = note'[c].total
        /\ \A d \in Notes \ {c} : note'[d] = note[d]
        /\ alloc' = alloc /\ odd \subseteq odd'
    BY <1>9, CreateNoteDoes, NoteFields DEF NoteBecomes
  <2>2. Orderly({"reissued"})' => SumUp(Invoices, alloc[c]) = 0
    <3>1. note[c].total = 0 /\ note[c].remaining = 0
      BY <2>1 DEF Begun
    <3>2. Orderly({"reissued"})' => SpentUp(c)
      BY <2>1 DEF Spending, Orderly
    <3>. QED BY <3>1, <3>2, SpentTypes DEF SpentUp
  <2>. QED BY <2>1, <2>2, SpendingAnew
<1>10. ASSUME NEW u \in Users, NEW c \in Notes, NEW b \in Bodies, NEW st \in DocStatuses,
             UpdateNote(u, c, b, st)
      PROVE  Spending'
  <2>1. /\ note'[c].remaining = note'[c].total
        /\ \A d \in Notes \ {c} : note'[d] = note[d]
        /\ alloc' = alloc /\ odd \subseteq odd'
        /\ Allocated(c) => "reissued" \in odd'
    BY <1>10, UpdateNoteDoes, NoteFields DEF NoteBecomes, Odd
  <2>2. Orderly({"reissued"})' => SumUp(Invoices, alloc[c]) = 0
    <3>1. Orderly({"reissued"})' => \A i \in Invoices : alloc[c][i] = 0
      BY <2>1 DEF Orderly, Allocated
    <3>. QED BY <3>1, SumOfZeros, SubledgerAssumption
  <2>. QED BY <2>1, <2>2, SpendingAnew
<1>11. ASSUME NEW c \in Notes, DeleteNote(c)
      PROVE  Spending'
  <2>1. /\ note'[c].total = note[c].total /\ note'[c].remaining = note[c].remaining
        /\ \A d \in Notes \ {c} : note'[d] = note[d]
        /\ alloc' = alloc /\ odd \subseteq odd'
    BY <1>11, DeleteNoteDoes, NoteFields DEF NoteBecomes
  <2>. QED BY <2>1, SpendingStays
<1>12. ASSUME NEW c \in Notes, NEW i \in Invoices, NEW asked \in Amounts, Allocate(c, i, asked)
      PROVE  Spending'
  <2>1. PICK a \in Int :
          /\ alloc'[c][i] = alloc[c][i] + a
          /\ \A j \in Invoices \ {i} : alloc'[c][j] = alloc[c][j]
          /\ \A d \in Notes \ {c} : alloc'[d] = alloc[d] /\ note'[d] = note[d]
          /\ note'[c].total = note[c].total /\ note'[c].remaining = note[c].remaining - a
          /\ odd \subseteq odd'
    BY <1>12, CreditAllocated
  <2>2. SumUp(Invoices, alloc'[c]) = SumUp(Invoices, alloc[c]) + a
    <3>1. PICK f, g : f = alloc[c] /\ g = alloc'[c]
      OBVIOUS
    <3>2. \A j \in Invoices : f[j] \in Int /\ g[j] \in Int
      BY <3>1 DEF TypeParts
    <3>3. \A j \in Invoices \ {i} : g[j] = f[j]
      BY <2>1, <3>1
    <3>4. SumUp(Invoices, g) = SumUp(Invoices, f) + g[i] - f[i]
      BY <3>2, <3>3, SumChanges, SubledgerAssumption
    <3>5. g[i] = f[i] + a /\ f[i] \in Int /\ SumUp(Invoices, f) \in Int
      BY <2>1, <3>1, <3>2, SpentTypes
    <3>. QED BY <3>1, <3>4, <3>5
  <2>3. Orderly({"reissued"})' => Orderly({"reissued"})
    BY <2>1 DEF Orderly
  <2>4. SpentUp(c) => SpentUp(c)'
    <3>1. note[c].remaining \in Int /\ SumUp(Invoices, alloc[c]) \in Int
      BY SpentTypes DEF TypeParts, NoteRow
    <3>. QED BY <2>1, <2>2, <3>1 DEF SpentUp
  <2>5. \A d \in Notes \ {c} : SpentUp(d) => SpentUp(d)'
    BY <2>1 DEF SpentUp
  <2>. QED BY <2>3, <2>4, <2>5 DEF Spending
<1>. QED BY <1>1, <1>2, <1>3, <1>4, <1>5, <1>6, <1>7, <1>8, <1>9, <1>10, <1>11, <1>12, StepsAre

LEMMA SpendingBegins == Init => Spending
<1>. SUFFICES ASSUME Init, NEW c \in Notes PROVE SpentUp(c)
  BY DEF Spending
<1>1. SumUp(Invoices, alloc[c]) = 0
  BY SumOfZeros, SubledgerAssumption DEF Init
<1>. QED BY <1>1 DEF Init, SpentUp

\* A credit note allocates no more than its total, and keeps the rest.
THEOREM CreditSpentOnce == Spec => []CreditIsSpentOnce
<1>1. Init => TypeParts /\ Begun /\ Spending
  BY TypeBegins, BegunBegins, SpendingBegins
<1>2. TypeParts /\ Begun /\ Spending /\ [Next]_docVars => TypeParts' /\ Begun' /\ Spending'
  BY TypeStep, BegunStep, SpendingStep
<1>3. Spending => CreditIsSpentOnce
  BY FoldIsSum DEF Spending, SpentUp, CreditIsSpentOnce, SumOver
<1>. QED BY <1>1, <1>2, <1>3, PTL DEF Spec

LEMMA LeavingStays ==
  ASSUME Leaving, odd \subseteq odd',
         \A i \in Invoices : /\ inv'[i].due = inv[i].due /\ inv'[i].total = inv[i].total
                             /\ inv'[i].paid = inv[i].paid /\ inv'[i].credited = inv[i].credited
  PROVE  Leaving'
BY DEF Leaving, Left, Orderly

LEMMA LeavingOne ==
  ASSUME Leaving, odd \subseteq odd', NEW i \in Invoices,
         Orderly({"refund", "overpaid", "recredited", "unbatched"})' =>
           Orderly({"refund", "overpaid", "recredited", "unbatched"}) /\ (Left(i) => Left(i)'),
         \A j \in Invoices \ {i} : inv'[j] = inv[j]
  PROVE  Leaving'
BY DEF Leaving, Left

\* What is known of an orderly past, and of the step that keeps it so.
LEMMA OrderlyBefore ==
  ASSUME odd \subseteq odd', Orderly({"refund", "overpaid", "recredited", "unbatched"})'
  PROVE  /\ Orderly({"refund", "overpaid", "recredited", "unbatched"})
         /\ Orderly({"refund", "unbatched"})
         /\ "refund" \notin odd' /\ "overpaid" \notin odd'
         /\ "recredited" \notin odd' /\ "unbatched" \notin odd'
BY DEF Orderly

LEMMA LeavingStep ==
  ASSUME TypeParts, TypeParts', Receipts, Settled, Leaving, [Next]_docVars
  PROVE  Leaving'
<1>1. CASE Rests
  <2>1. inv' = inv /\ odd \subseteq odd'
    BY <1>1 DEF Rests
  <2>. QED BY <2>1, LeavingStays
<1>2. ASSUME NEW i \in Invoices, NEW b \in Bodies, NEW st \in Sent, CreateInvoice(i, b, st)
      PROVE  Leaving'
  <2>1. /\ inv'[i].due = inv'[i].total /\ inv'[i].paid = 0 /\ inv'[i].credited = 0
        /\ \A j \in Invoices \ {i} : inv'[j] = inv[j]
        /\ odd \subseteq odd'
    BY <1>2, CreateInvoiceDoes, InvoiceFields DEF InvoiceBecomes
  <2>2. inv'[i].total \in Int
    BY DEF TypeParts, InvoiceRow
  <2>3. Left(i)'
    BY <2>1, <2>2 DEF Left
  <2>. QED BY <2>1, <2>3, OrderlyBefore, LeavingOne
<1>3. ASSUME NEW u \in Users, NEW i \in Invoices, NEW b \in Bodies, NEW st \in DocStatuses,
             UpdateInvoice(u, i, b, st)
      PROVE  Leaving'
  <2>1. /\ inv'[i].due = DueAfterEdit(b, inv[i].paid) /\ inv'[i].total = TotalOf(b)
        /\ inv'[i].paid = inv[i].paid /\ inv'[i].credited = inv[i].credited
        /\ \A j \in Invoices \ {i} : inv'[j] = inv[j]
    BY <1>3, UpdateInvoiceDoes, InvoiceFields DEF InvoiceBecomes
  <2>2. /\ odd \subseteq odd'
        /\ inv[i].credited # 0 => "recredited" \in odd'
        /\ TotalOf(b) < inv[i].paid => "overpaid" \in odd'
    BY <1>3, UpdateInvoiceDoes DEF Odd
  <2>3. TotalOf(b) \in Int /\ inv[i].paid \in Int
    BY DocumentsAssumption, TotalIsInt DEF TypeParts, InvoiceRow
  <2>4. ASSUME Orderly({"refund", "overpaid", "recredited", "unbatched"})' PROVE Left(i)'
    <3>1. inv[i].credited = 0 /\ ~(TotalOf(b) < inv[i].paid)
      BY <2>2, <2>4, OrderlyBefore
    <3>. QED BY <2>1, <2>3, <3>1 DEF Left, DueAfterEdit, Max0
  <2>. QED BY <2>1, <2>2, <2>4, OrderlyBefore, LeavingOne
<1>4. ASSUME NEW i \in Invoices, NEW st \in DocStatuses, UpdateInvoiceStatus(i, st)
      PROVE  Leaving'
  <2>1. /\ inv'[i].due = inv[i].due /\ inv'[i].total = inv[i].total
        /\ inv'[i].paid = inv[i].paid /\ inv'[i].credited = inv[i].credited
        /\ \A j \in Invoices \ {i} : inv'[j] = inv[j]
        /\ odd \subseteq odd'
    BY <1>4, UpdateInvoiceStatusDoes, InvoiceFields DEF InvoiceBecomes
  <2>. QED BY <2>1, LeavingStays
<1>5. ASSUME NEW i \in Invoices, DeleteInvoice(i)
      PROVE  Leaving'
  <2>1. /\ inv'[i].due = inv[i].due /\ inv'[i].total = inv[i].total
        /\ inv'[i].paid = inv[i].paid /\ inv'[i].credited = inv[i].credited
        /\ \A j \in Invoices \ {i} : inv'[j] = inv[j]
        /\ odd \subseteq odd'
    BY <1>5, DeleteInvoiceDoes, InvoiceFields DEF InvoiceBecomes
  <2>. QED BY <2>1, LeavingStays
<1>6. ASSUME NEW p \in Payments, NEW i \in Invoices, NEW a \in Amounts, NEW st \in PaymentSent,
             \E account \in BOOLEAN : CreatePayment(p, i, a, account, st)
      PROVE  Leaving'
  <2>1. /\ a \in Int /\ inv'[i].total = inv[i].total /\ inv'[i].paid = inv[i].paid + a
        /\ inv'[i].credited = inv[i].credited /\ inv'[i].due = Max0(inv[i].due - a)
        /\ \A j \in Invoices \ {i} : inv'[j] = inv[j]
        /\ odd \subseteq odd'
        /\ inv[i].due - a < 0 => "overpaid" \in odd'
    BY <1>6, PaymentMade
  <2>2. /\ inv[i].due \in Int /\ inv[i].total \in Int /\ inv[i].paid \in Int
        /\ inv[i].credited \in Int
    BY DEF TypeParts, InvoiceRow
  <2>3. ASSUME Orderly({"refund", "overpaid", "recredited", "unbatched"})', Left(i) PROVE Left(i)'
    <3>1. ~(inv[i].due - a < 0)
      BY <2>1, <2>3, OrderlyBefore
    <3>. QED BY <2>1, <2>2, <2>3, <3>1 DEF Left, Max0
  <2>. QED BY <2>1, <2>3, OrderlyBefore, LeavingOne
<1>7. ASSUME NEW p \in Payments, VoidPayment(p)
      PROVE  Leaving'
  <2>1. PICK i \in Invoices, a \in Int :
          /\ Stands(pay[p]) /\ pay[p].invoice = i /\ pay[p].amount = a
          /\ inv'[i].total = inv[i].total /\ inv'[i].paid = Max0(inv[i].paid - a)
          /\ inv'[i].credited = inv[i].credited /\ inv'[i].due = inv[i].due + a
          /\ \A j \in Invoices \ {i} : inv'[j] = inv[j]
          /\ odd \subseteq odd'
          /\ pay[p].batch => "unbatched" \in odd'
    BY <1>7, PaymentVoided
  <2>2. /\ inv[i].due \in Int /\ inv[i].total \in Int /\ inv[i].paid \in Int
        /\ inv[i].credited \in Int
    BY DEF TypeParts, InvoiceRow
  <2>3. ASSUME Orderly({"refund", "overpaid", "recredited", "unbatched"})', Left(i) PROVE Left(i)'
    <3>1. Orderly({"refund", "unbatched"}) /\ ~pay[p].batch
      BY <2>1, <2>3, OrderlyBefore
    <3>2. a <= inv[i].paid
      BY <2>1, <3>1, ReceiptWithin DEF Counts
    <3>. QED BY <2>1, <2>2, <2>3, <3>2 DEF Left, Max0
  <2>. QED BY <2>1, <2>3, OrderlyBefore, LeavingOne
<1>8. ASSUME NEW S \in SUBSET Payments,
             \E of \in [S -> Invoices], amount \in [S -> Amounts], st \in [S -> PaymentSent] :
               CreateBatch(S, of, amount, st)
      PROVE  Leaving'
  <2>1. inv' = inv /\ odd \subseteq odd'
    BY <1>8, BatchMade
  <2>. QED BY <2>1, LeavingStays
<1>9. ASSUME NEW c \in Notes, NEW b \in Bodies, NEW st \in Sent, CreateNote(c, b, st)
      PROVE  Leaving'
  <2>1. inv' = inv /\ odd \subseteq odd'
    BY <1>9, CreateNoteDoes
  <2>. QED BY <2>1, LeavingStays
<1>10. ASSUME NEW u \in Users, NEW c \in Notes, NEW b \in Bodies, NEW st \in DocStatuses,
             UpdateNote(u, c, b, st)
      PROVE  Leaving'
  <2>1. inv' = inv /\ odd \subseteq odd'
    BY <1>10, UpdateNoteDoes
  <2>. QED BY <2>1, LeavingStays
<1>11. ASSUME NEW c \in Notes, DeleteNote(c)
      PROVE  Leaving'
  <2>1. inv' = inv /\ odd \subseteq odd'
    BY <1>11, DeleteNoteDoes
  <2>. QED BY <2>1, LeavingStays
<1>12. ASSUME NEW c \in Notes, NEW i \in Invoices, NEW asked \in Amounts, Allocate(c, i, asked)
      PROVE  Leaving'
  <2>1. PICK a \in Int :
          /\ a <= inv[i].due /\ inv'[i].total = inv[i].total
          /\ inv'[i].paid = inv[i].paid /\ inv'[i].credited = inv[i].credited + a
          /\ inv'[i].due = Max0(inv[i].due - a)
          /\ \A j \in Invoices \ {i} : inv'[j] = inv[j]
          /\ odd \subseteq odd'
    BY <1>12, CreditAllocated
  <2>2. /\ inv[i].due \in Int /\ inv[i].total \in Int /\ inv[i].paid \in Int
        /\ inv[i].credited \in Int
    BY DEF TypeParts, InvoiceRow
  <2>3. Left(i) => Left(i)'
    BY <2>1, <2>2 DEF Left, Max0
  <2>. QED BY <2>1, <2>3, OrderlyBefore, LeavingOne
<1>. QED BY <1>1, <1>2, <1>3, <1>4, <1>5, <1>6, <1>7, <1>8, <1>9, <1>10, <1>11, <1>12, StepsAre

LEMMA LeavingBegins == Init => Leaving
BY DEF Init, Leaving, Left

\* What is due is what has been neither paid nor credited.
THEOREM DueIsLeft == Spec => []DueIsWhatIsLeft
<1>1. Init => TypeParts /\ Begun /\ Receipts /\ Settled /\ Leaving
  BY TypeBegins, BegunBegins, SettledBegins, LeavingBegins
<1>2. TypeParts /\ Begun /\ Receipts /\ Settled /\ Leaving /\ [Next]_docVars
      => TypeParts' /\ Begun' /\ Receipts' /\ Settled' /\ Leaving'
  BY TypeStep, BegunStep, ReceiptsStep, SettledStep, LeavingStep
<1>3. Leaving => DueIsWhatIsLeft
  BY DEF Leaving, Left, DueIsWhatIsLeft
<1>. QED BY <1>1, <1>2, <1>3, PTL DEF Spec

----------------------------------------------------------------------------
(* The control accounts.  As long as nothing unusual has happened, what    *)
(* the ledger holds of a document and what the document says is owed       *)
(* differ by its gap, and the gaps of all the documents sum to zero.       *)

Tidy ==
  odd = {} =>
    /\ \A i \in Invoices : ~InForce(inv[i].status) => inv[i].paid = 0 /\ inv[i].credited = 0
    /\ \A c \in Notes : /\ InForce(note[c].status) /\ note[c].total # 0 => gl[c] # << >>
                        /\ ~InForce(note[c].status) => note[c].remaining = note[c].total
    /\ \A p \in Payments : Stands(pay[p]) =>
         /\ ~pay[p].batch
         /\ gl[p] = <<PaymentJournal(inv[pay[p].invoice].body.type, pay[p].amount)>>

InvoiceGap(i, type) == IF inv[i].body.type = type THEN inv[i].paid + inv[i].credited ELSE 0
NoteGap(c, type)    == IF note[c].body.type = type THEN note[c].remaining - note[c].total ELSE 0
PaymentGap(p, type) ==
  IF Stands(pay[p]) /\ inv[pay[p].invoice].body.type = type THEN -pay[p].amount ELSE 0

Gap(type) == [d \in ControlDocuments |-> IF d \in Invoices THEN InvoiceGap(d, type)
                                         ELSE IF d \in Notes THEN NoteGap(d, type)
                                         ELSE PaymentGap(d, type)]

Control == odd = {} => \A type \in InvoiceTypes : SumUp(ControlDocuments, Gap(type)) = 0

LEMMA TidyParts ==
  ASSUME Tidy, odd = {}
  PROVE  /\ \A i \in Invoices : ~InForce(inv[i].status) => inv[i].paid = 0 /\ inv[i].credited = 0
         /\ \A c \in Notes : /\ InForce(note[c].status) /\ note[c].total # 0 => gl[c] # << >>
                             /\ ~InForce(note[c].status) => note[c].remaining = note[c].total
         /\ \A p \in Payments : Stands(pay[p]) =>
              /\ ~pay[p].batch
              /\ gl[p] = <<PaymentJournal(inv[pay[p].invoice].body.type, pay[p].amount)>>
BY DEF Tidy

LEMMA NoOddBefore == ASSUME odd \subseteq odd', odd' = {} PROVE odd = {}
OBVIOUS

\* What a step changes of one invoice, or of one note, and nothing else that Tidy is about.
LEMMA TidyInvoice ==
  ASSUME TypeParts, Tidy, Begun, odd' = {} => odd = {}, NEW i \in Invoices,
         \A j \in Invoices \ {i} : inv'[j] = inv[j],
         note' = note, pay' = pay,
         \A s \in ControlDocuments \ {i} : gl'[s] = gl[s],
         odd' = {} /\ inv[i].status # "NONE" => inv'[i].body.type = inv[i].body.type,
         odd' = {} /\ ~InForce(inv'[i].status) => inv'[i].paid = 0 /\ inv'[i].credited = 0
  PROVE  Tidy'
<1>. SUFFICES ASSUME odd' = {} PROVE Tidy'
  BY DEF Tidy
<1>1. odd = {}
  OBVIOUS
<1>2. ASSUME NEW j \in Invoices, ~InForce(inv'[j].status)
      PROVE  inv'[j].paid = 0 /\ inv'[j].credited = 0
  BY <1>1, <1>2, TidyParts
<1>3. ASSUME NEW c \in Notes PROVE gl'[c] = gl[c]
  BY SourcesDisjoint DEF ControlDocuments
<1>4. ASSUME NEW p \in Payments, Stands(pay[p])
      PROVE  inv'[pay[p].invoice].body.type = inv[pay[p].invoice].body.type /\ gl'[p] = gl[p]
  <2>1. pay[p].invoice \in Invoices /\ inv[pay[p].invoice].status # "NONE"
    BY <1>4 DEF TypeParts, Begun, Stands
  <2>2. gl'[p] = gl[p]
    BY SourcesDisjoint DEF ControlDocuments
  <2>. QED BY <2>1, <2>2
<1>5. \A c \in Notes : /\ InForce(note'[c].status) /\ note'[c].total # 0 => gl'[c] # << >>
                       /\ ~InForce(note'[c].status) => note'[c].remaining = note'[c].total
  BY <1>1, <1>3, TidyParts
<1>6. \A p \in Payments : Stands(pay'[p]) =>
        /\ ~pay'[p].batch
        /\ gl'[p] = <<PaymentJournal(inv'[pay'[p].invoice].body.type, pay'[p].amount)>>
  BY <1>1, <1>4, TidyParts
<1>. QED BY <1>2, <1>5, <1>6 DEF Tidy

LEMMA TidyNote ==
  ASSUME TypeParts, Tidy, odd' = {} => odd = {}, NEW c \in Notes,
         \A d \in Notes \ {c} : note'[d] = note[d],
         inv' = inv, pay' = pay,
         \A s \in ControlDocuments \ {c} : gl'[s] = gl[s],
         odd' = {} /\ InForce(note'[c].status) /\ note'[c].total # 0 => gl'[c] # << >>,
         odd' = {} /\ ~InForce(note'[c].status) => note'[c].remaining = note'[c].total
  PROVE  Tidy'
<1>. SUFFICES ASSUME odd' = {} PROVE Tidy'
  BY DEF Tidy
<1>1. odd = {}
  OBVIOUS
<1>2. ASSUME NEW d \in Notes
      PROVE  /\ InForce(note'[d].status) /\ note'[d].total # 0 => gl'[d] # << >>
             /\ ~InForce(note'[d].status) => note'[d].remaining = note'[d].total
  BY <1>1, TidyParts DEF ControlDocuments
<1>3. ASSUME NEW p \in Payments PROVE gl'[p] = gl[p]
  BY SourcesDisjoint DEF ControlDocuments
<1>4. \A i \in Invoices : ~InForce(inv'[i].status) => inv'[i].paid = 0 /\ inv'[i].credited = 0
  BY <1>1, TidyParts
<1>5. \A p \in Payments : Stands(pay'[p]) =>
        /\ ~pay'[p].batch
        /\ gl'[p] = <<PaymentJournal(inv'[pay'[p].invoice].body.type, pay'[p].amount)>>
  BY <1>1, <1>3, TidyParts
<1>. QED BY <1>2, <1>4, <1>5 DEF Tidy

LEMMA TidyStep ==
  ASSUME TypeParts, TypeParts', Begun, Receipts, Settled, Spending, LedgerInv, Tidy, [Next]_docVars
  PROVE  Tidy'
<1>1. CASE Rests
  <2>1. /\ inv' = inv /\ note' = note /\ pay' = pay /\ odd \subseteq odd'
        /\ \A s \in ControlDocuments : gl'[s] = gl[s]
    BY <1>1 DEF Rests
  <2>2. \A s \in Notes \cup Payments : gl'[s] = gl[s]
    BY <2>1 DEF ControlDocuments
  <2>. QED BY <2>1, <2>2 DEF Tidy
<1>2. ASSUME NEW i \in Invoices, NEW b \in Bodies, NEW st \in Sent, CreateInvoice(i, b, st)
      PROVE  Tidy'
  <2>1. /\ inv'[i].body.type = inv[i].body.type \/ inv[i].status = "NONE" \/ odd' # {}
        /\ \A j \in Invoices \ {i} : inv'[j] = inv[j]
        /\ note' = note /\ pay' = pay /\ odd \subseteq odd'
    BY <1>2, CreateInvoiceDoes, InvoiceFields DEF InvoiceBecomes
  <2>2. \A s \in ControlDocuments \ {i} : gl'[s] = gl[s]
    BY <1>2, CreateInvoiceDoes DEF JournalsBecome, ControlDocuments, Sources
  <2>3. inv'[i].paid = 0 /\ inv'[i].credited = 0
    BY <1>2, CreateInvoiceDoes, InvoiceFields DEF InvoiceBecomes
  <2>. QED BY <2>1, <2>2, <2>3, NoOddBefore, TidyInvoice
<1>3. ASSUME NEW u \in Users, NEW i \in Invoices, NEW b \in Bodies, NEW st \in DocStatuses,
             UpdateInvoice(u, i, b, st)
      PROVE  Tidy'
  <2>1. /\ inv'[i].body.type = inv[i].body.type \/ inv[i].status = "NONE" \/ odd' # {}
        /\ \A j \in Invoices \ {i} : inv'[j] = inv[j]
        /\ note' = note /\ pay' = pay /\ odd \subseteq odd'
    BY <1>3, UpdateInvoiceDoes, InvoiceFields DEF InvoiceBecomes, Odd
  <2>2. \A s \in ControlDocuments \ {i} : gl'[s] = gl[s]
    BY <1>3, UpdateInvoiceDoes DEF JournalsBecome, ControlDocuments, Sources
  <2>3. odd' = {} /\ ~InForce(inv'[i].status) => inv'[i].paid = 0 /\ inv'[i].credited = 0
    BY <1>3, UpdateInvoiceDoes, InvoiceFields DEF InvoiceBecomes, Odd
  <2>. QED BY <2>1, <2>2, <2>3, NoOddBefore, TidyInvoice
<1>4. ASSUME NEW i \in Invoices, NEW st \in DocStatuses, UpdateInvoiceStatus(i, st)
      PROVE  Tidy'
  <2>1. /\ inv'[i].body.type = inv[i].body.type \/ inv[i].status = "NONE" \/ odd' # {}
        /\ \A j \in Invoices \ {i} : inv'[j] = inv[j]
        /\ note' = note /\ pay' = pay /\ odd \subseteq odd'
    BY <1>4, UpdateInvoiceStatusDoes, InvoiceFields DEF InvoiceBecomes
  <2>2. \A s \in ControlDocuments \ {i} : gl'[s] = gl[s]
    BY <1>4, UpdateInvoiceStatusDoes DEF JournalsBecome, ControlDocuments, Sources
  <2>3. odd' = {} /\ ~InForce(inv'[i].status) => inv'[i].paid = 0 /\ inv'[i].credited = 0
    <3>1. /\ TransitionAllowed(inv[i].status, st) /\ inv'[i].status = st
          /\ inv'[i].paid = inv[i].paid /\ inv'[i].credited = inv[i].credited
      BY <1>4, UpdateInvoiceStatusDoes, InvoiceFields DEF InvoiceBecomes
    <3>2. odd' = {} /\ st \in {"VOIDED", "DELETED"} => inv[i].paid = 0 /\ inv[i].credited = 0
      BY <1>4, UpdateInvoiceStatusDoes DEF Odd
    <3>3. st \in {"VOIDED", "DELETED"} \/ InForce(st) \/ ~InForce(inv[i].status)
      BY <3>1 DEF TransitionAllowed, InForce
    <3>. QED BY <2>1, <3>1, <3>2, <3>3, NoOddBefore, TidyParts
  <2>. QED BY <2>1, <2>2, <2>3, NoOddBefore, TidyInvoice
<1>5. ASSUME NEW i \in Invoices, DeleteInvoice(i)
      PROVE  Tidy'
  <2>1. /\ inv'[i].body.type = inv[i].body.type \/ inv[i].status = "NONE" \/ odd' # {}
        /\ \A j \in Invoices \ {i} : inv'[j] = inv[j]
        /\ note' = note /\ pay' = pay /\ odd \subseteq odd'
    BY <1>5, DeleteInvoiceDoes, InvoiceFields DEF InvoiceBecomes
  <2>2. \A s \in ControlDocuments \ {i} : gl'[s] = gl[s]
    BY <1>5, DeleteInvoiceDoes DEF JournalsBecome, ControlDocuments, Sources
  <2>3. odd' = {} => inv'[i].paid = 0 /\ inv'[i].credited = 0
    BY <1>5, DeleteInvoiceDoes, InvoiceFields DEF InvoiceBecomes, Odd
  <2>. QED BY <2>1, <2>2, <2>3, NoOddBefore, TidyInvoice
<1>6. ASSUME NEW p \in Payments, NEW i \in Invoices, NEW a \in Amounts, NEW st \in PaymentSent,
             \E account \in BOOLEAN : CreatePayment(p, i, a, account, st)
      PROVE  Tidy'
  <2>. SUFFICES ASSUME odd' = {} PROVE Tidy'
    BY DEF Tidy
  <2>1. /\ ~Stands(pay[p]) /\ InForce(inv[i].status) /\ a \in Int
        /\ Stands(pay'[p]) /\ pay'[p].invoice = i
        /\ pay'[p].amount = a /\ ~pay'[p].batch
        /\ \A q \in Payments \ {p} : pay'[q] = pay[q]
        /\ inv'[i].status \in {"PAID", inv[i].status} /\ inv'[i].body = inv[i].body
        /\ \A j \in Invoices \ {i} : inv'[j] = inv[j]
        /\ odd = {} /\ note' = note
    BY <1>6, PaymentMade
  <2>2. /\ gl'[p] = gl[p] \o <<PaymentJournal(inv[i].body.type, a)>>
        /\ \A s \in ControlDocuments \ {p} : gl'[s] = gl[s]
    <3>1. JournalsBecome(p, gl[p] \o <<PaymentJournal(inv[i].body.type, a)>>)
      BY <1>6, CreatePaymentDoes
    <3>. QED BY <3>1 DEF JournalsBecome, ControlDocuments, Sources
  <2>3. gl'[p] = <<PaymentJournal(inv[i].body.type, a)>>
    <3>1. gl[p] = << >>
      BY <2>1, LedgerParts DEF PaymentInLedger
    <3>2. \A j \in Journal : << >> \o <<j>> = <<j>>
      OBVIOUS
    <3>. QED BY <2>1, <2>2, <3>1, <3>2, PaymentIsJournal
  <2>4. \A j \in Invoices : ~InForce(inv'[j].status) => inv'[j].paid = 0 /\ inv'[j].credited = 0
    BY <2>1, TidyParts DEF InForce
  <2>5. \A c \in Notes : gl'[c] = gl[c]
    BY <2>2, SourcesDisjoint DEF ControlDocuments
  <2>6. \A c \in Notes : /\ InForce(note'[c].status) /\ note'[c].total # 0 => gl'[c] # << >>
                         /\ ~InForce(note'[c].status) => note'[c].remaining = note'[c].total
    BY <2>1, <2>5, TidyParts
  <2>7. ASSUME NEW q \in Payments, Stands(pay'[q])
        PROVE  /\ ~pay'[q].batch
               /\ gl'[q] = <<PaymentJournal(inv'[pay'[q].invoice].body.type, pay'[q].amount)>>
    <3>1. CASE q = p
      BY <2>1, <2>3, <3>1
    <3>2. CASE q # p
      <4>1. pay'[q] = pay[q] /\ gl'[q] = gl[q] /\ pay[q].invoice \in Invoices
        BY <2>1, <2>2, <2>7, <3>2 DEF ControlDocuments, TypeParts, Stands
      <4>2. inv'[pay[q].invoice].body = inv[pay[q].invoice].body
        BY <2>1, <4>1
      <4>. QED BY <2>1, <2>7, <4>1, <4>2, TidyParts
    <3>. QED BY <3>1, <3>2
  <2>. QED BY <2>4, <2>6, <2>7 DEF Tidy
<1>7. ASSUME NEW p \in Payments, VoidPayment(p)
      PROVE  Tidy'
  <2>. SUFFICES ASSUME odd' = {} PROVE Tidy'
    BY DEF Tidy
  <2>1. PICK i \in Invoices, a \in Int :
          /\ Stands(pay[p]) /\ pay[p].invoice = i /\ pay[p].amount = a
          /\ ~Stands(pay'[p])
          /\ \A q \in Payments \ {p} : pay'[q] = pay[q]
          /\ inv'[i].status = (IF inv[i].status = "PAID" THEN "AUTHORISED" ELSE inv[i].status)
          /\ inv'[i].body = inv[i].body
          /\ inv'[i].paid = Max0(inv[i].paid - a) /\ inv'[i].credited = inv[i].credited
          /\ \A j \in Invoices \ {i} : inv'[j] = inv[j]
          /\ odd \subseteq odd' /\ note' = note
    BY <1>7, PaymentVoided
  <2>2. odd = {}
    BY <2>1
  <2>3. \A s \in ControlDocuments \ {p} : gl'[s] = gl[s]
    BY <1>7, VoidPaymentDoes DEF JournalsBecome, ControlDocuments, Sources
  <2>4. a > 0
    BY <2>1, <2>2, TidyParts DEF Receipts, Orderly
  <2>5. \A j \in Invoices : ~InForce(inv'[j].status) => inv'[j].paid = 0 /\ inv'[j].credited = 0
    <3>1. ~InForce(inv'[i].status) => ~InForce(inv[i].status)
      BY <2>1 DEF InForce
    <3>2. inv[i].paid = 0 => inv'[i].paid = 0
      BY <2>1, <2>4 DEF Max0
    <3>. QED BY <2>1, <2>2, <3>1, <3>2, TidyParts
  <2>6. \A c \in Notes : gl'[c] = gl[c]
    BY <2>3, SourcesDisjoint DEF ControlDocuments
  <2>7. \A c \in Notes : /\ InForce(note'[c].status) /\ note'[c].total # 0 => gl'[c] # << >>
                         /\ ~InForce(note'[c].status) => note'[c].remaining = note'[c].total
    BY <2>1, <2>2, <2>6, TidyParts
  <2>8. ASSUME NEW q \in Payments, Stands(pay'[q])
        PROVE  /\ ~pay'[q].batch
               /\ gl'[q] = <<PaymentJournal(inv'[pay'[q].invoice].body.type, pay'[q].amount)>>
    <3>1. q # p
      BY <2>1, <2>8
    <3>2. pay'[q] = pay[q] /\ gl'[q] = gl[q] /\ pay[q].invoice \in Invoices
      BY <2>1, <2>3, <2>8, <3>1 DEF ControlDocuments, TypeParts, Stands
    <3>3. inv'[pay[q].invoice].body = inv[pay[q].invoice].body
      BY <2>1, <3>2
    <3>. QED BY <2>2, <2>8, <3>2, <3>3, TidyParts
  <2>. QED BY <2>5, <2>7, <2>8 DEF Tidy
<1>8. ASSUME NEW S \in SUBSET Payments,
             \E of \in [S -> Invoices], amount \in [S -> Amounts], st \in [S -> PaymentSent] :
               CreateBatch(S, of, amount, st)
      PROVE  Tidy'
  <2>1. odd' # {}
    BY <1>8, BatchMade
  <2>. QED BY <2>1 DEF Tidy
<1>9. ASSUME NEW c \in Notes, NEW b \in Bodies, NEW st \in Sent, CreateNote(c, b, st)
      PROVE  Tidy'
  <2>1. /\ \A d \in Notes \ {c} : note'[d] = note[d]
        /\ inv' = inv /\ pay' = pay /\ odd \subseteq odd'
        /\ note'[c].status = st /\ note'[c].total = TotalOf(b) /\ note'[c].remaining = TotalOf(b)
        /\ st = "PAID" => odd' # {}
    BY <1>9, CreateNoteDoes, NoteFields DEF NoteBecomes, Odd
  <2>2. /\ \A s \in ControlDocuments \ {c} : gl'[s] = gl[s]
        /\ st = "AUTHORISED" => gl'[c] = gl[c] \o CreditNotePosting(Rows(b), TotalOf(b))
    BY <1>9, CreateNoteDoes DEF JournalsBecome, ControlDocuments, Sources
  <2>3. st = "AUTHORISED" /\ TotalOf(b) # 0 => gl'[c] # << >>
    <3>. SUFFICES ASSUME st = "AUTHORISED", TotalOf(b) # 0 PROVE gl'[c] # << >>
      OBVIOUS
    <3>1. b \in BodyOf(Int) /\ TotalOf(b) \in Int
      BY DocumentsAssumption, TotalIsInt
    <3>2. CreditNotePosting(Rows(b), TotalOf(b)) = <<CreditNoteJournal(Rows(b), TotalOf(b))>>
      BY DEF CreditNotePosting
    <3>3. CreditNoteJournal(Rows(b), TotalOf(b)) \in Journal /\ gl[c] \in Seq(Journal)
      BY <3>1, KeptAreJournals DEF TypeParts, Sources
    <3>4. \A x \in Seq(Journal), j \in Journal : x \o <<j>> # << >>
      OBVIOUS
    <3>. QED BY <2>2, <3>2, <3>3, <3>4
  <2>4. odd' = {} /\ InForce(note'[c].status) /\ note'[c].total # 0 => gl'[c] # << >>
    BY <2>1, <2>3 DEF InForce
  <2>. QED BY <2>1, <2>2, <2>4, NoOddBefore, TidyNote
<1>10. ASSUME NEW u \in Users, NEW c \in Notes, NEW b \in Bodies, NEW st \in DocStatuses,
             UpdateNote(u, c, b, st)
      PROVE  Tidy'
  <2>1. /\ \A d \in Notes \ {c} : note'[d] = note[d]
        /\ inv' = inv /\ pay' = pay /\ odd \subseteq odd'
        /\ note'[c].status = st /\ note'[c].total = TotalOf(b) /\ note'[c].remaining = TotalOf(b)
    BY <1>10, UpdateNoteDoes, NoteFields DEF NoteBecomes
  <2>2. /\ \A s \in ControlDocuments \ {c} : gl'[s] = gl[s]
        /\ InForce(st) => gl'[c] = CreditNotePosting(Rows(b), TotalOf(b))
    BY <1>10, UpdateNoteDoes DEF JournalsBecome, ControlDocuments, Sources
  <2>3. InForce(note'[c].status) /\ note'[c].total # 0 => gl'[c] # << >>
    <3>1. \A x : <<x>> # << >>
      OBVIOUS
    <3>2. TotalOf(b) # 0 => CreditNotePosting(Rows(b), TotalOf(b)) = <<CreditNoteJournal(Rows(b), TotalOf(b))>>
      BY DEF CreditNotePosting
    <3>. QED BY <2>1, <2>2, <3>1, <3>2
  <2>. QED BY <2>1, <2>2, <2>3, NoOddBefore, TidyNote
<1>11. ASSUME NEW c \in Notes, DeleteNote(c)
      PROVE  Tidy'
  <2>1. /\ \A d \in Notes \ {c} : note'[d] = note[d]
        /\ inv' = inv /\ pay' = pay /\ alloc' = alloc /\ odd \subseteq odd'
        /\ note'[c].total = note[c].total /\ note'[c].remaining = note[c].remaining
        /\ ~InForce(note'[c].status)
    BY <1>11, DeleteNoteDoes, NoteFields DEF NoteBecomes, InForce
  <2>2. \A s \in ControlDocuments \ {c} : gl'[s] = gl[s]
    BY <1>11, DeleteNoteDoes DEF JournalsBecome, ControlDocuments, Sources
  <2>3. odd' = {} => note'[c].remaining = note'[c].total
    <3>. SUFFICES ASSUME odd' = {} PROVE note'[c].remaining = note'[c].total
      OBVIOUS
    <3>1. ~Allocated(c)
      BY <1>11, DeleteNoteDoes DEF Odd
    <3>2. SumUp(Invoices, alloc[c]) = 0
      BY <3>1, SumOfZeros, SubledgerAssumption DEF Allocated
    <3>3. SpentUp(c)
      BY <2>1 DEF Spending, Orderly
    <3>4. note[c].remaining \in Int
      BY DEF TypeParts, NoteRow
    <3>. QED BY <2>1, <3>2, <3>3, <3>4 DEF SpentUp
  <2>. QED BY <2>1, <2>2, <2>3, NoOddBefore, TidyNote
<1>12. ASSUME NEW c \in Notes, NEW i \in Invoices, NEW asked \in Amounts, Allocate(c, i, asked)
      PROVE  Tidy'
  <2>. SUFFICES ASSUME odd' = {} PROVE Tidy'
    BY DEF Tidy
  <2>1. /\ note'[c].status \in {"PAID", "AUTHORISED"} /\ note[c].status = "AUTHORISED"
        /\ note'[c].total = note[c].total
        /\ \A d \in Notes \ {c} : note'[d] = note[d]
        /\ inv'[i].status \in {"PAID", "AUTHORISED"} /\ inv'[i].body = inv[i].body
        /\ \A j \in Invoices \ {i} : inv'[j] = inv[j]
        /\ odd \subseteq odd' /\ pay' = pay /\ gl' = gl
    BY <1>12, CreditAllocated
  <2>2. odd = {}
    BY <2>1
  <2>3. \A j \in Invoices : ~InForce(inv'[j].status) => inv'[j].paid = 0 /\ inv'[j].credited = 0
    BY <2>1, <2>2, TidyParts DEF InForce
  <2>4. \A d \in Notes : /\ InForce(note'[d].status) /\ note'[d].total # 0 => gl'[d] # << >>
                         /\ ~InForce(note'[d].status) => note'[d].remaining = note'[d].total
    BY <2>1, <2>2, TidyParts DEF InForce
  <2>5. ASSUME NEW q \in Payments, Stands(pay'[q])
        PROVE  /\ ~pay'[q].batch
               /\ gl'[q] = <<PaymentJournal(inv'[pay'[q].invoice].body.type, pay'[q].amount)>>
    <3>1. pay[q].invoice \in Invoices
      BY <2>1, <2>5 DEF TypeParts, Stands
    <3>2. inv'[pay[q].invoice].body = inv[pay[q].invoice].body
      BY <2>1, <3>1
    <3>. QED BY <2>1, <2>2, <2>5, <3>2, TidyParts
  <2>. QED BY <2>3, <2>4, <2>5 DEF Tidy
<1>. QED BY <1>1, <1>2, <1>3, <1>4, <1>5, <1>6, <1>7, <1>8, <1>9, <1>10, <1>11, <1>12, StepsAre

LEMMA ControlFinite ==
  /\ IsFiniteSet(ControlDocuments)
  /\ Invoices \subseteq ControlDocuments /\ Notes \subseteq ControlDocuments
  /\ Payments \subseteq ControlDocuments
  /\ Invoices \cap Notes = {} /\ Invoices \cap Payments = {} /\ Notes \cap Payments = {}
BY SubledgerAssumption, FS_Union, SourcesDisjoint DEF ControlDocuments

LEMMA GapOf ==
  ASSUME NEW type
  PROVE  /\ \A i \in Invoices : Gap(type)[i] = InvoiceGap(i, type)
         /\ \A c \in Notes : Gap(type)[c] = NoteGap(c, type)
         /\ \A p \in Payments : Gap(type)[p] = PaymentGap(p, type)
BY ControlFinite DEF Gap

LEMMA GapOfNext ==
  ASSUME NEW type
  PROVE  /\ \A i \in Invoices : Gap(type)'[i] = InvoiceGap(i, type)'
         /\ \A c \in Notes : Gap(type)'[c] = NoteGap(c, type)'
         /\ \A p \in Payments : Gap(type)'[p] = PaymentGap(p, type)'
BY ControlFinite DEF Gap

LEMMA GapTypes ==
  ASSUME TypeParts, NEW type
  PROVE  \A d \in ControlDocuments : Gap(type)[d] \in Int
<1>1. /\ \A i \in Invoices : InvoiceGap(i, type) \in Int
      /\ \A c \in Notes : NoteGap(c, type) \in Int
      /\ \A p \in Payments : PaymentGap(p, type) \in Int
  BY DEF TypeParts, InvoiceRow, NoteRow, PaymentRow, InvoiceGap, NoteGap, PaymentGap
<1>. QED BY <1>1, GapOf DEF ControlDocuments

LEMMA GapTypesNext ==
  ASSUME TypeParts', NEW type
  PROVE  \A d \in ControlDocuments : Gap(type)'[d] \in Int
<1>1. /\ \A i \in Invoices : InvoiceGap(i, type)' \in Int
      /\ \A c \in Notes : NoteGap(c, type)' \in Int
      /\ \A p \in Payments : PaymentGap(p, type)' \in Int
  BY DEF TypeParts, InvoiceRow, NoteRow, PaymentRow, InvoiceGap, NoteGap, PaymentGap
<1>. QED BY <1>1, GapOfNext DEF ControlDocuments

LEMMA ControlStays ==
  ASSUME Control, odd' = {} => odd = {},
         odd' = {} => \A type \in InvoiceTypes :
           /\ \A i \in Invoices : InvoiceGap(i, type)' = InvoiceGap(i, type)
           /\ \A c \in Notes : NoteGap(c, type)' = NoteGap(c, type)
           /\ \A p \in Payments : PaymentGap(p, type)' = PaymentGap(p, type)
  PROVE  Control'
<1>. SUFFICES ASSUME odd' = {}, NEW type \in InvoiceTypes
              PROVE  SumUp(ControlDocuments, Gap(type)') = 0
  BY DEF Control
<1>1. \A d \in ControlDocuments : Gap(type)'[d] = Gap(type)[d]
  BY GapOf, GapOfNext DEF ControlDocuments
<1>2. SumUp(ControlDocuments, Gap(type)') = SumUp(ControlDocuments, Gap(type))
  BY <1>1, SumSame, ControlFinite
<1>. QED BY <1>2 DEF Control

\* What one document's gap gains, another's loses.
LEMMA ControlMoves ==
  ASSUME TypeParts, TypeParts', Control, odd' = {} => odd = {},
         NEW x \in ControlDocuments, NEW y \in ControlDocuments, x # y,
         odd' = {} => \A type \in InvoiceTypes :
           /\ \A d \in ControlDocuments \ {x, y} : Gap(type)'[d] = Gap(type)[d]
           /\ (Gap(type)'[x] - Gap(type)[x]) + (Gap(type)'[y] - Gap(type)[y]) = 0
  PROVE  Control'
<1>. SUFFICES ASSUME odd' = {}, NEW type \in InvoiceTypes
              PROVE  SumUp(ControlDocuments, Gap(type)') = 0
  BY DEF Control
<1>1. PICK f, g : f = Gap(type) /\ g = Gap(type)'
  OBVIOUS
<1>2. \A d \in ControlDocuments : f[d] \in Int /\ g[d] \in Int
  BY <1>1, GapTypes, GapTypesNext
<1>3. \A d \in ControlDocuments \ {x, y} : g[d] = f[d]
  BY <1>1
<1>4. SumUp(ControlDocuments, g) = SumUp(ControlDocuments, f) + (g[x] - f[x]) + (g[y] - f[y])
  BY <1>2, <1>3, SumChangesTwice, ControlFinite
<1>5. SumUp(ControlDocuments, f) = 0
  BY <1>1 DEF Control
<1>6. (g[x] - f[x]) + (g[y] - f[y]) = 0
  BY <1>1
<1>. QED BY <1>1, <1>2, <1>4, <1>5, <1>6

\* The gaps of payments hang on the type of their invoices.
LEMMA PaymentGapsStay ==
  ASSUME TypeParts, Begun, NEW type,
         \A i \in Invoices : inv[i].status # "NONE" => inv'[i].body.type = inv[i].body.type,
         NEW P \in SUBSET Payments, \A p \in P : pay'[p] = pay[p]
  PROVE  \A p \in P : PaymentGap(p, type)' = PaymentGap(p, type)
<1>. SUFFICES ASSUME NEW p \in P, Stands(pay[p])
              PROVE  PaymentGap(p, type)' = PaymentGap(p, type)
  BY DEF PaymentGap
<1>1. pay[p].invoice \in Invoices /\ inv[pay[p].invoice].status # "NONE"
  BY DEF TypeParts, Begun, Stands
<1>. QED BY <1>1 DEF PaymentGap

\* An invoice that keeps its type, and what is paid and credited of it.
LEMMA InvoiceGapsStay ==
  ASSUME TypeParts, Begun, Control, odd \subseteq odd', NEW i \in Invoices,
         \A j \in Invoices \ {i} : inv'[j] = inv[j],
         note' = note, pay' = pay,
         inv'[i].paid = inv[i].paid, inv'[i].credited = inv[i].credited,
         odd' = {} => inv'[i].body.type = inv[i].body.type
  PROVE  Control'
<1>1. ASSUME odd' = {}, NEW type \in InvoiceTypes
      PROVE  /\ \A j \in Invoices : InvoiceGap(j, type)' = InvoiceGap(j, type)
             /\ \A c \in Notes : NoteGap(c, type)' = NoteGap(c, type)
             /\ \A p \in Payments : PaymentGap(p, type)' = PaymentGap(p, type)
  <2>1. \A j \in Invoices : InvoiceGap(j, type)' = InvoiceGap(j, type)
    BY <1>1 DEF InvoiceGap
  <2>2. \A c \in Notes : NoteGap(c, type)' = NoteGap(c, type)
    BY DEF NoteGap
  <2>3. \A p \in Payments : PaymentGap(p, type)' = PaymentGap(p, type)
    BY <1>1, PaymentGapsStay
  <2>. QED BY <2>1, <2>2, <2>3
<1>. QED BY <1>1, NoOddBefore, ControlStays

\* A note whose gap is as it was.
LEMMA NoteGapsStay ==
  ASSUME TypeParts, Control, odd \subseteq odd', NEW c \in Notes,
         \A d \in Notes \ {c} : note'[d] = note[d],
         inv' = inv, pay' = pay,
         odd' = {} => \A type \in InvoiceTypes : NoteGap(c, type)' = NoteGap(c, type)
  PROVE  Control'
<1>1. ASSUME odd' = {}, NEW type \in InvoiceTypes
      PROVE  /\ \A j \in Invoices : InvoiceGap(j, type)' = InvoiceGap(j, type)
             /\ \A d \in Notes : NoteGap(d, type)' = NoteGap(d, type)
             /\ \A p \in Payments : PaymentGap(p, type)' = PaymentGap(p, type)
  <2>1. \A j \in Invoices : InvoiceGap(j, type)' = InvoiceGap(j, type)
    BY DEF InvoiceGap
  <2>2. \A d \in Notes : NoteGap(d, type)' = NoteGap(d, type)
    <3>1. \A d \in Notes \ {c} : NoteGap(d, type)' = NoteGap(d, type)
      BY DEF NoteGap
    <3>. QED BY <1>1, <3>1
  <2>3. \A p \in Payments : PaymentGap(p, type)' = PaymentGap(p, type)
    BY DEF PaymentGap
  <2>. QED BY <2>1, <2>2, <2>3
<1>. QED BY <1>1, NoOddBefore, ControlStays

LEMMA ControlStep ==
  ASSUME TypeParts, TypeParts', Begun, Receipts, Settled, Spending, Tidy, Control, [Next]_docVars
  PROVE  Control'
<1>1. CASE Rests
  <2>1. inv' = inv /\ note' = note /\ pay' = pay /\ odd \subseteq odd'
    BY <1>1 DEF Rests
  <2>2. \A type \in InvoiceTypes :
          /\ \A i \in Invoices : InvoiceGap(i, type)' = InvoiceGap(i, type)
          /\ \A c \in Notes : NoteGap(c, type)' = NoteGap(c, type)
          /\ \A p \in Payments : PaymentGap(p, type)' = PaymentGap(p, type)
    BY <2>1 DEF InvoiceGap, NoteGap, PaymentGap
  <2>. QED BY <2>1, <2>2, NoOddBefore, ControlStays
<1>2. ASSUME NEW i \in Invoices, NEW b \in Bodies, NEW st \in Sent, CreateInvoice(i, b, st)
      PROVE  Control'
  <2>1. /\ inv[i].status = "NONE"
        /\ \A j \in Invoices \ {i} : inv'[j] = inv[j]
        /\ note' = note /\ pay' = pay /\ odd \subseteq odd'
        /\ inv'[i].paid = 0 /\ inv'[i].credited = 0
    BY <1>2, CreateInvoiceDoes, InvoiceFields DEF InvoiceBecomes
  <2>2. inv[i].paid = 0 /\ inv[i].credited = 0
    BY <2>1 DEF Begun
  <2>3. ASSUME NEW type \in InvoiceTypes
        PROVE  /\ \A j \in Invoices : InvoiceGap(j, type)' = InvoiceGap(j, type)
               /\ \A c \in Notes : NoteGap(c, type)' = NoteGap(c, type)
               /\ \A p \in Payments : PaymentGap(p, type)' = PaymentGap(p, type)
    <3>1. \A j \in Invoices : InvoiceGap(j, type)' = InvoiceGap(j, type)
      BY <2>1, <2>2 DEF InvoiceGap
    <3>2. \A c \in Notes : NoteGap(c, type)' = NoteGap(c, type)
      BY <2>1 DEF NoteGap
    <3>3. \A p \in Payments : PaymentGap(p, type)' = PaymentGap(p, type)
      BY <2>1, PaymentGapsStay
    <3>. QED BY <3>1, <3>2, <3>3
  <2>. QED BY <2>1, <2>3, NoOddBefore, ControlStays
<1>3. ASSUME NEW u \in Users, NEW i \in Invoices, NEW b \in Bodies, NEW st \in DocStatuses,
             UpdateInvoice(u, i, b, st)
      PROVE  Control'
  <2>1. /\ \A j \in Invoices \ {i} : inv'[j] = inv[j]
        /\ note' = note /\ pay' = pay /\ odd \subseteq odd'
        /\ inv'[i].paid = inv[i].paid /\ inv'[i].credited = inv[i].credited
        /\ odd' = {} => inv'[i].body.type = inv[i].body.type
    BY <1>3, UpdateInvoiceDoes, InvoiceFields DEF InvoiceBecomes, Odd
  <2>. QED BY <2>1, InvoiceGapsStay
<1>4. ASSUME NEW i \in Invoices, NEW st \in DocStatuses, UpdateInvoiceStatus(i, st)
      PROVE  Control'
  <2>1. /\ \A j \in Invoices \ {i} : inv'[j] = inv[j]
        /\ note' = note /\ pay' = pay /\ odd \subseteq odd'
        /\ inv'[i].paid = inv[i].paid /\ inv'[i].credited = inv[i].credited
        /\ odd' = {} => inv'[i].body.type = inv[i].body.type
    BY <1>4, UpdateInvoiceStatusDoes, InvoiceFields DEF InvoiceBecomes
  <2>. QED BY <2>1, InvoiceGapsStay
<1>5. ASSUME NEW i \in Invoices, DeleteInvoice(i)
      PROVE  Control'
  <2>1. /\ \A j \in Invoices \ {i} : inv'[j] = inv[j]
        /\ note' = note /\ pay' = pay /\ odd \subseteq odd'
        /\ inv'[i].paid = inv[i].paid /\ inv'[i].credited = inv[i].credited
        /\ odd' = {} => inv'[i].body.type = inv[i].body.type
    BY <1>5, DeleteInvoiceDoes, InvoiceFields DEF InvoiceBecomes
  <2>. QED BY <2>1, InvoiceGapsStay
<1>6. ASSUME NEW p \in Payments, NEW i \in Invoices, NEW a \in Amounts, NEW st \in PaymentSent,
             \E account \in BOOLEAN : CreatePayment(p, i, a, account, st)
      PROVE  Control'
  <2>1. /\ ~Stands(pay[p]) /\ a \in Int
        /\ Stands(pay'[p]) /\ pay'[p].invoice = i
        /\ pay'[p].amount = a
        /\ \A q \in Payments \ {p} : pay'[q] = pay[q]
        /\ inv'[i].body = inv[i].body
        /\ inv'[i].paid = inv[i].paid + a /\ inv'[i].credited = inv[i].credited
        /\ \A j \in Invoices \ {i} : inv'[j] = inv[j]
        /\ note' = note /\ odd \subseteq odd'
    BY <1>6, PaymentMade
  <2>2. i # p /\ i \in ControlDocuments /\ p \in ControlDocuments /\ (odd' = {} => odd = {})
    BY <2>1, ControlFinite
  <2>3. ASSUME NEW type \in InvoiceTypes
        PROVE  \A d \in ControlDocuments \ {i, p} : Gap(type)'[d] = Gap(type)[d]
    <3>1. \A j \in Invoices \ {i} : InvoiceGap(j, type)' = InvoiceGap(j, type)
      BY <2>1 DEF InvoiceGap
    <3>2. \A c \in Notes : NoteGap(c, type)' = NoteGap(c, type)
      BY <2>1 DEF NoteGap
    <3>3. \A q \in Payments \ {p} : PaymentGap(q, type)' = PaymentGap(q, type)
      BY <2>1, PaymentGapsStay
    <3>. QED BY <3>1, <3>2, <3>3, GapOf, GapOfNext DEF ControlDocuments
  <2>4. ASSUME NEW type \in InvoiceTypes
        PROVE  (Gap(type)'[i] - Gap(type)[i]) + (Gap(type)'[p] - Gap(type)[p]) = 0
    <3>1. inv[i].paid \in Int /\ inv[i].credited \in Int
      BY DEF TypeParts, InvoiceRow
    <3>2. (InvoiceGap(i, type)' - InvoiceGap(i, type)) + (PaymentGap(p, type)' - PaymentGap(p, type)) = 0
      BY <2>1, <3>1 DEF InvoiceGap, PaymentGap
    <3>. QED BY <3>2, GapOf, GapOfNext
  <2>. QED BY <2>2, <2>3, <2>4, ControlFinite, ControlMoves
<1>7. ASSUME NEW p \in Payments, VoidPayment(p)
      PROVE  Control'
  <2>1. PICK i \in Invoices, a \in Int :
          /\ Stands(pay[p]) /\ pay[p].invoice = i /\ pay[p].amount = a
          /\ ~Stands(pay'[p])
          /\ \A q \in Payments \ {p} : pay'[q] = pay[q]
          /\ inv'[i].body = inv[i].body
          /\ inv'[i].paid = Max0(inv[i].paid - a) /\ inv'[i].credited = inv[i].credited
          /\ \A j \in Invoices \ {i} : inv'[j] = inv[j]
          /\ odd \subseteq odd' /\ note' = note
          /\ pay[p].batch => "unbatched" \in odd'
    BY <1>7, PaymentVoided
  <2>2. i # p /\ i \in ControlDocuments /\ p \in ControlDocuments /\ (odd' = {} => odd = {})
    BY <2>1, ControlFinite
  <2>3. ASSUME NEW type \in InvoiceTypes
        PROVE  \A d \in ControlDocuments \ {i, p} : Gap(type)'[d] = Gap(type)[d]
    <3>1. \A j \in Invoices \ {i} : InvoiceGap(j, type)' = InvoiceGap(j, type)
      BY <2>1 DEF InvoiceGap
    <3>2. \A c \in Notes : NoteGap(c, type)' = NoteGap(c, type)
      BY <2>1 DEF NoteGap
    <3>3. \A q \in Payments \ {p} : PaymentGap(q, type)' = PaymentGap(q, type)
      BY <2>1, PaymentGapsStay
    <3>. QED BY <3>1, <3>2, <3>3, GapOf, GapOfNext DEF ControlDocuments
  <2>4. ASSUME odd' = {}, NEW type \in InvoiceTypes
        PROVE  (Gap(type)'[i] - Gap(type)[i]) + (Gap(type)'[p] - Gap(type)[p]) = 0
    <3>1. inv[i].paid \in Int /\ inv[i].credited \in Int
      BY DEF TypeParts, InvoiceRow
    <3>2. Orderly({"refund", "unbatched"}) /\ ~pay[p].batch
      BY <2>1, <2>2, <2>4 DEF Orderly
    <3>3. a <= inv[i].paid
      BY <2>1, <3>2, ReceiptWithin DEF Counts
    <3>4. inv'[i].paid = inv[i].paid - a
      BY <2>1, <3>1, <3>3 DEF Max0
    <3>5. (InvoiceGap(i, type)' - InvoiceGap(i, type)) + (PaymentGap(p, type)' - PaymentGap(p, type)) = 0
      BY <2>1, <3>1, <3>4 DEF InvoiceGap, PaymentGap
    <3>. QED BY <3>5, GapOf, GapOfNext
  <2>. QED BY <2>2, <2>3, <2>4, ControlFinite, ControlMoves
<1>8. ASSUME NEW S \in SUBSET Payments,
             \E of \in [S -> Invoices], amount \in [S -> Amounts], st \in [S -> PaymentSent] :
               CreateBatch(S, of, amount, st)
      PROVE  Control'
  <2>1. odd' # {}
    BY <1>8, BatchMade
  <2>. QED BY <2>1 DEF Control
<1>9. ASSUME NEW c \in Notes, NEW b \in Bodies, NEW st \in Sent, CreateNote(c, b, st)
      PROVE  Control'
  <2>1. /\ note[c].status = "NONE"
        /\ \A d \in Notes \ {c} : note'[d] = note[d]
        /\ inv' = inv /\ pay' = pay /\ odd \subseteq odd'
        /\ note'[c].total = TotalOf(b) /\ note'[c].remaining = TotalOf(b)
    BY <1>9, CreateNoteDoes, NoteFields DEF NoteBecomes
  <2>2. note[c].total = 0 /\ note[c].remaining = 0 /\ TotalOf(b) \in Int
    BY <2>1, DocumentsAssumption, TotalIsInt DEF Begun
  <2>3. \A type \in InvoiceTypes : NoteGap(c, type)' = NoteGap(c, type)
    BY <2>1, <2>2 DEF NoteGap
  <2>. QED BY <2>1, <2>3, NoteGapsStay
<1>10. ASSUME NEW u \in Users, NEW c \in Notes, NEW b \in Bodies, NEW st \in DocStatuses,
             UpdateNote(u, c, b, st)
      PROVE  Control'
  <2>1. /\ \A d \in Notes \ {c} : note'[d] = note[d]
        /\ inv' = inv /\ pay' = pay /\ odd \subseteq odd'
        /\ note'[c].total = TotalOf(b) /\ note'[c].remaining = TotalOf(b)
    BY <1>10, UpdateNoteDoes, NoteFields DEF NoteBecomes
  <2>2. odd' = {} => note[c].remaining = note[c].total
    <3>. SUFFICES ASSUME odd' = {} PROVE note[c].remaining = note[c].total
      OBVIOUS
    <3>1. ~Allocated(c)
      BY <1>10, UpdateNoteDoes DEF Odd
    <3>2. SumUp(Invoices, alloc[c]) = 0
      BY <3>1, SumOfZeros, SubledgerAssumption DEF Allocated
    <3>3. SpentUp(c)
      BY <2>1 DEF Spending, Orderly
    <3>4. note[c].remaining \in Int
      BY DEF TypeParts, NoteRow
    <3>. QED BY <3>2, <3>3, <3>4 DEF SpentUp
  <2>3. TotalOf(b) \in Int /\ note[c].total \in Int
    BY DocumentsAssumption, TotalIsInt DEF TypeParts, NoteRow
  <2>4. odd' = {} => \A type \in InvoiceTypes : NoteGap(c, type)' = NoteGap(c, type)
    BY <2>1, <2>2, <2>3 DEF NoteGap
  <2>. QED BY <2>1, <2>4, NoteGapsStay
<1>11. ASSUME NEW c \in Notes, DeleteNote(c)
      PROVE  Control'
  <2>1. /\ \A d \in Notes \ {c} : note'[d] = note[d]
        /\ inv' = inv /\ pay' = pay /\ odd \subseteq odd'
        /\ note'[c].total = note[c].total /\ note'[c].remaining = note[c].remaining
        /\ note'[c].body = note[c].body
    BY <1>11, DeleteNoteDoes, NoteFields DEF NoteBecomes
  <2>2. \A type \in InvoiceTypes : NoteGap(c, type)' = NoteGap(c, type)
    BY <2>1 DEF NoteGap
  <2>. QED BY <2>1, <2>2, NoteGapsStay
<1>12. ASSUME NEW c \in Notes, NEW i \in Invoices, NEW asked \in Amounts, Allocate(c, i, asked)
      PROVE  Control'
  <2>1. PICK a \in Int :
          /\ note'[c].body = note[c].body /\ note'[c].total = note[c].total
          /\ note'[c].remaining = note[c].remaining - a
          /\ \A d \in Notes \ {c} : note'[d] = note[d]
          /\ inv'[i].body = inv[i].body
          /\ inv'[i].paid = inv[i].paid /\ inv'[i].credited = inv[i].credited + a
          /\ \A j \in Invoices \ {i} : inv'[j] = inv[j]
          /\ odd \subseteq odd' /\ pay' = pay
          /\ note[c].body.type # inv[i].body.type => "crossed" \in odd'
    BY <1>12, CreditAllocated
  <2>2. i # c /\ i \in ControlDocuments /\ c \in ControlDocuments /\ (odd' = {} => odd = {})
    BY <2>1, ControlFinite
  <2>3. ASSUME NEW type \in InvoiceTypes
        PROVE  \A d \in ControlDocuments \ {i, c} : Gap(type)'[d] = Gap(type)[d]
    <3>1. \A j \in Invoices \ {i} : InvoiceGap(j, type)' = InvoiceGap(j, type)
      BY <2>1 DEF InvoiceGap
    <3>2. \A d \in Notes \ {c} : NoteGap(d, type)' = NoteGap(d, type)
      BY <2>1 DEF NoteGap
    <3>3. \A q \in Payments : PaymentGap(q, type)' = PaymentGap(q, type)
      BY <2>1, PaymentGapsStay
    <3>. QED BY <3>1, <3>2, <3>3, GapOf, GapOfNext DEF ControlDocuments
  <2>4. ASSUME odd' = {}, NEW type \in InvoiceTypes
        PROVE  (Gap(type)'[i] - Gap(type)[i]) + (Gap(type)'[c] - Gap(type)[c]) = 0
    <3>1. /\ inv[i].paid \in Int /\ inv[i].credited \in Int
          /\ note[c].total \in Int /\ note[c].remaining \in Int
      BY DEF TypeParts, InvoiceRow, NoteRow
    <3>2. note[c].body.type = inv[i].body.type
      BY <2>1, <2>4
    <3>3. (InvoiceGap(i, type)' - InvoiceGap(i, type)) + (NoteGap(c, type)' - NoteGap(c, type)) = 0
      BY <2>1, <3>1, <3>2 DEF InvoiceGap, NoteGap
    <3>. QED BY <3>3, GapOf, GapOfNext
  <2>. QED BY <2>2, <2>3, <2>4, ControlFinite, ControlMoves
<1>. QED BY <1>1, <1>2, <1>3, <1>4, <1>5, <1>6, <1>7, <1>8, <1>9, <1>10, <1>11, <1>12, StepsAre

----------------------------------------------------------------------------
(* What the ledger holds, and what the documents say is owed. *)

LEMMA JournalSums ==
  /\ \A account : SumJournals(<< >>, account) = 0
  /\ \A j \in Journal : /\ SumJournals(<<j>>, "debtors") = j.debtors
                        /\ SumJournals(<<j>>, "creditors") = j.creditors
<1>1. ASSUME NEW account PROVE SumJournals(<< >>, account) = 0
  <2>. DEFINE f == [k \in DOMAIN << >> |-> << >>[k][account]]
  <2>1. DOMAIN f = {}
    OBVIOUS
  <2>. HIDE DEF f
  <2>2. FoldFunction(+, 0, f) = 0
    BY <2>1, FoldAllIsSum, SumOfNone
  <2>. QED BY <2>2 DEF SumJournals, f
<1>2. ASSUME NEW j \in Journal, NEW account, j[account] \in Int
      PROVE  SumJournals(<<j>>, account) = j[account]
  <2>. DEFINE f == [k \in DOMAIN <<j>> |-> <<j>>[k][account]]
  <2>1. DOMAIN f = {1} /\ f[1] = j[account]
    OBVIOUS
  <2>. HIDE DEF f
  <2>2. FoldFunction(+, 0, f) = j[account]
    BY <1>2, <2>1, FoldAllIsSum, SumOfOne
  <2>. QED BY <2>2 DEF SumJournals, f
<1>3. \A j \in Journal : /\ j["debtors"] \in Int /\ j["debtors"] = j.debtors
                         /\ j["creditors"] \in Int /\ j["creditors"] = j.creditors
  BY DEF Journal
<1>. QED BY <1>1, <1>2, <1>3

\* What a document has on the control account of a type, a debit for customers.
OnInvoice(i, type) == IF InForce(inv[i].status) /\ inv[i].body.type = type THEN inv[i].total ELSE 0
OnNote(c, type) == IF InForce(note[c].status) /\ note[c].body.type = type THEN -note[c].total ELSE 0
OnPayment(p, type) ==
  IF Stands(pay[p]) /\ inv[pay[p].invoice].body.type = type THEN -pay[p].amount ELSE 0

OnAccount(type) == [d \in ControlDocuments |-> IF d \in Invoices THEN OnInvoice(d, type)
                                               ELSE IF d \in Notes THEN OnNote(d, type)
                                               ELSE OnPayment(d, type)]

\* What it says is owed.
OwedOfInvoice(i, type) == IF i \in Open(type) THEN inv[i].due ELSE 0
OwedOfNote(c, type) == IF c \in Unspent(type) THEN -note[c].remaining ELSE 0

ByInvoice(type) == [d \in ControlDocuments |-> IF d \in Invoices THEN OwedOfInvoice(d, type) ELSE 0]
ByNote(type) == [d \in ControlDocuments |-> IF d \in Notes THEN OwedOfNote(d, type) ELSE 0]

Orders == TypeParts /\ LedgerInv /\ Leaving /\ Tidy /\ Control /\ odd = {}

LEMMA NoneIsNone == \A m, n \in Int : m + n = 0 => m = -n
OBVIOUS

LEMMA InvoiceOnAccount ==
  ASSUME Orders, NEW i \in Invoices
  PROVE  /\ SumJournals(gl[i], "debtors") = OnInvoice(i, "ACCREC")
         /\ SumJournals(gl[i], "creditors") = -OnInvoice(i, "ACCPAY")
<1>1. /\ inv[i].body \in BodyOf(Int) /\ inv[i].total \in Int
      /\ inv[i].body.type \in {"ACCREC", "ACCPAY"}
  BY DEF Orders, TypeParts, InvoiceRow, BodyOf, InvoiceTypes
<1>2. CASE gl[i] = << >>
  <2>1. InForce(inv[i].status) => inv[i].total = 0
    BY <1>2, LedgerParts DEF Orders, Ordered, ApprovedInLedger
  <2>2. OnInvoice(i, "ACCREC") = 0 /\ OnInvoice(i, "ACCPAY") = 0
    BY <2>1 DEF OnInvoice
  <2>3. SumJournals(gl[i], "debtors") = 0 /\ SumJournals(gl[i], "creditors") = 0
    BY <1>2, JournalSums
  <2>. QED BY <2>2, <2>3, NoneIsNone
<1>3. CASE gl[i] # << >>
  <2>1. InForce(inv[i].status) /\ gl[i] = <<InvoiceJournal(Rows(inv[i].body), inv[i].total)>>
    BY <1>3, LedgerParts DEF Orders, InvoiceInLedger
  <2>2. InvoiceJournal(Rows(inv[i].body), inv[i].total) \in Journal
    BY <1>1, KeptAreJournals
  <2>3. /\ InvoiceJournal(Rows(inv[i].body), inv[i].total).debtors = OnInvoice(i, "ACCREC")
        /\ InvoiceJournal(Rows(inv[i].body), inv[i].total).creditors = -OnInvoice(i, "ACCPAY")
    BY <1>1, <2>1, RowsAre DEF InvoiceJournal, DocumentLines, Sign, OnInvoice
  <2>. QED BY <2>1, <2>2, <2>3, JournalSums
<1>. QED BY <1>2, <1>3

LEMMA NoteOnAccount ==
  ASSUME Orders, NEW c \in Notes
  PROVE  /\ SumJournals(gl[c], "debtors") = OnNote(c, "ACCREC")
         /\ SumJournals(gl[c], "creditors") = -OnNote(c, "ACCPAY")
<1>1. /\ note[c].body \in BodyOf(Int) /\ note[c].total \in Int
      /\ note[c].body.type \in {"ACCREC", "ACCPAY"}
  BY DEF Orders, TypeParts, NoteRow, BodyOf, InvoiceTypes
<1>2. CASE gl[c] = << >>
  <2>1. InForce(note[c].status) => note[c].total = 0
    BY <1>2, TidyParts DEF Orders
  <2>2. OnNote(c, "ACCREC") = 0 /\ OnNote(c, "ACCPAY") = 0
    BY <2>1 DEF OnNote
  <2>3. SumJournals(gl[c], "debtors") = 0 /\ SumJournals(gl[c], "creditors") = 0
    BY <1>2, JournalSums
  <2>. QED BY <2>2, <2>3, NoneIsNone
<1>3. CASE gl[c] # << >>
  <2>1. InForce(note[c].status) /\ gl[c] = <<CreditNoteJournal(Rows(note[c].body), note[c].total)>>
    BY <1>3, LedgerParts DEF Orders, NoteInLedger
  <2>2. CreditNoteJournal(Rows(note[c].body), note[c].total) \in Journal
    BY <1>1, KeptAreJournals
  <2>3. /\ CreditNoteJournal(Rows(note[c].body), note[c].total).debtors = OnNote(c, "ACCREC")
        /\ CreditNoteJournal(Rows(note[c].body), note[c].total).creditors = -OnNote(c, "ACCPAY")
    BY <1>1, <2>1, RowsAre DEF CreditNoteJournal, DocumentLines, Sign, OnNote
  <2>. QED BY <2>1, <2>2, <2>3, JournalSums
<1>. QED BY <1>2, <1>3

LEMMA PaymentOnAccount ==
  ASSUME Orders, NEW p \in Payments
  PROVE  /\ SumJournals(gl[p], "debtors") = OnPayment(p, "ACCREC")
         /\ SumJournals(gl[p], "creditors") = -OnPayment(p, "ACCPAY")
<1>1. CASE ~Stands(pay[p])
  <2>1. gl[p] = << >>
    BY <1>1, LedgerParts DEF Orders, PaymentInLedger
  <2>2. OnPayment(p, "ACCREC") = 0 /\ OnPayment(p, "ACCPAY") = 0
    BY <1>1 DEF OnPayment
  <2>3. SumJournals(gl[p], "debtors") = 0 /\ SumJournals(gl[p], "creditors") = 0
    BY <2>1, JournalSums
  <2>. QED BY <2>2, <2>3, NoneIsNone
<1>2. CASE Stands(pay[p])
  <2>1. pay[p].invoice \in Invoices /\ pay[p].amount \in Int
    BY <1>2 DEF Orders, TypeParts, PaymentRow, Stands
  <2>. PICK type \in InvoiceTypes, a \in Int : type = inv[pay[p].invoice].body.type /\ a = pay[p].amount
    BY <2>1 DEF Orders, TypeParts, InvoiceRow, BodyOf
  <2>2. gl[p] = <<PaymentJournal(type, a)>>
    BY <1>2, TidyParts DEF Orders
  <2>3. PaymentJournal(type, a) \in Journal
    BY PaymentIsJournal
  <2>4. /\ PaymentJournal(type, a).debtors = (IF type = "ACCREC" THEN -a ELSE 0)
        /\ PaymentJournal(type, a).creditors = (IF type = "ACCPAY" THEN a ELSE 0)
    BY DEF PaymentJournal, Nothing
  <2>5. /\ OnPayment(p, "ACCREC") = (IF type = "ACCREC" THEN -a ELSE 0)
        /\ OnPayment(p, "ACCPAY") = (IF type = "ACCPAY" THEN -a ELSE 0)
    BY <1>2 DEF OnPayment
  <2>. QED BY <2>2, <2>3, <2>4, <2>5, JournalSums
<1>. QED BY <1>1, <1>2

\* On account, less its gap, is what each document says is owed.
LEMMA AccountIsOwed ==
  ASSUME Orders, NEW type \in InvoiceTypes, NEW d \in ControlDocuments
  PROVE  /\ OnAccount(type)[d] \in Int /\ ByInvoice(type)[d] \in Int /\ ByNote(type)[d] \in Int
         /\ Gap(type)[d] \in Int
         /\ OnAccount(type)[d] = (ByInvoice(type)[d] + ByNote(type)[d]) + Gap(type)[d]
<1>1. CASE d \in Invoices
  <2>1. /\ inv[d].total \in Int /\ inv[d].due \in Int /\ inv[d].paid \in Int /\ inv[d].credited \in Int
    BY <1>1 DEF Orders, TypeParts, InvoiceRow
  <2>2. inv[d].due = inv[d].total - inv[d].paid - inv[d].credited
    BY <1>1 DEF Orders, Leaving, Orderly, Left
  <2>3. ~InForce(inv[d].status) => inv[d].paid = 0 /\ inv[d].credited = 0
    BY <1>1, TidyParts DEF Orders
  <2>4. /\ OnAccount(type)[d] = OnInvoice(d, type) /\ ByNote(type)[d] = 0
        /\ ByInvoice(type)[d] = OwedOfInvoice(d, type) /\ Gap(type)[d] = InvoiceGap(d, type)
    BY <1>1, ControlFinite, GapOf DEF OnAccount, ByInvoice, ByNote
  <2>. QED BY <1>1, <2>1, <2>2, <2>3, <2>4 DEF OnInvoice, OwedOfInvoice, InvoiceGap, Open
<1>2. CASE d \in Notes
  <2>1. note[d].total \in Int /\ note[d].remaining \in Int
    BY <1>2 DEF Orders, TypeParts, NoteRow
  <2>2. ~InForce(note[d].status) => note[d].remaining = note[d].total
    BY <1>2, TidyParts DEF Orders
  <2>3. /\ OnAccount(type)[d] = OnNote(d, type) /\ ByInvoice(type)[d] = 0
        /\ ByNote(type)[d] = OwedOfNote(d, type) /\ Gap(type)[d] = NoteGap(d, type)
    BY <1>2, ControlFinite, GapOf DEF OnAccount, ByInvoice, ByNote
  <2>. QED BY <1>2, <2>1, <2>2, <2>3 DEF OnNote, OwedOfNote, NoteGap, Unspent
<1>3. CASE d \in Payments
  <2>1. pay[d].amount \in Int
    BY <1>3 DEF Orders, TypeParts, PaymentRow
  <2>2. /\ OnAccount(type)[d] = OnPayment(d, type) /\ ByInvoice(type)[d] = 0 /\ ByNote(type)[d] = 0
        /\ Gap(type)[d] = PaymentGap(d, type)
    BY <1>3, ControlFinite, GapOf DEF OnAccount, ByInvoice, ByNote
  <2>. QED BY <2>1, <2>2 DEF OnPayment, PaymentGap
<1>. QED BY <1>1, <1>2, <1>3 DEF ControlDocuments

LEMMA OwedIs ==
  ASSUME Orders, NEW type \in InvoiceTypes
  PROVE  Owed(type) = SumUp(ControlDocuments, ByInvoice(type)) + SumUp(ControlDocuments, ByNote(type))
<1>. DEFINE f == [i \in Open(type) |-> inv[i].due]
            h == [c \in Unspent(type) |-> note[c].remaining]
<1>1. /\ Open(type) \in SUBSET ControlDocuments /\ Unspent(type) \in SUBSET ControlDocuments
      /\ IsFiniteSet(Open(type)) /\ IsFiniteSet(Unspent(type))
  BY ControlFinite, FS_Subset, SubledgerAssumption DEF Open, Unspent
<1>2. \A d \in ControlDocuments : ByInvoice(type)[d] \in Int /\ ByNote(type)[d] \in Int
  BY AccountIsOwed
<1>3. SumUp(ControlDocuments, ByInvoice(type)) = SumUp(Open(type), f)
  <2>1. \A d \in ControlDocuments \ Open(type) : ByInvoice(type)[d] = 0
    BY DEF ByInvoice, OwedOfInvoice
  <2>2. SumUp(ControlDocuments, ByInvoice(type)) = SumUp(Open(type), ByInvoice(type))
    BY <1>1, <1>2, <2>1, SumWithin, ControlFinite
  <2>3. \A i \in Open(type) : ByInvoice(type)[i] = f[i]
    BY <1>1 DEF ByInvoice, OwedOfInvoice, Open
  <2>. HIDE DEF f
  <2>4. SumUp(Open(type), ByInvoice(type)) = SumUp(Open(type), f)
    BY <1>1, <2>3, SumSame
  <2>. QED BY <2>2, <2>4
<1>4. SumUp(ControlDocuments, ByNote(type)) = -SumUp(Unspent(type), h)
  <2>1. \A d \in ControlDocuments \ Unspent(type) : ByNote(type)[d] = 0
    BY DEF ByNote, OwedOfNote
  <2>2. SumUp(ControlDocuments, ByNote(type)) = SumUp(Unspent(type), ByNote(type))
    BY <1>1, <1>2, <2>1, SumWithin, ControlFinite
  <2>3. \A c \in Unspent(type) : h[c] \in Int /\ ByNote(type)[c] = -h[c]
    BY <1>1 DEF ByNote, OwedOfNote, Unspent, Orders, TypeParts, NoteRow
  <2>. HIDE DEF h
  <2>4. SumUp(Unspent(type), ByNote(type)) = -SumUp(Unspent(type), h)
    BY <1>1, <2>3, SumNegates
  <2>. QED BY <2>2, <2>4
<1>5. SumUp(Open(type), f) \in Int /\ SumUp(Unspent(type), h) \in Int
  <2>1. \A i \in Open(type) : f[i] \in Int
    BY DEF Open, Orders, TypeParts, InvoiceRow
  <2>2. \A c \in Unspent(type) : h[c] \in Int
    BY DEF Unspent, Orders, TypeParts, NoteRow
  <2>. HIDE DEF f, h
  <2>. QED BY <1>1, <2>1, <2>2, SumIsInt
<1>6. Owed(type) = SumUp(Open(type), f) - SumUp(Unspent(type), h)
  BY FoldIsSum DEF Owed, SumOver
<1>. HIDE DEF f, h
<1>. QED BY <1>3, <1>4, <1>5, <1>6

LEMMA AccountSums ==
  ASSUME Orders, NEW type \in InvoiceTypes
  PROVE  SumUp(ControlDocuments, OnAccount(type)) = Owed(type) /\ Owed(type) \in Int
<1>. DEFINE owes == [d \in ControlDocuments |-> ByInvoice(type)[d] + ByNote(type)[d]]
<1>1. \A d \in ControlDocuments : /\ ByInvoice(type)[d] \in Int /\ ByNote(type)[d] \in Int
                                  /\ owes[d] = ByInvoice(type)[d] + ByNote(type)[d]
  BY AccountIsOwed
<1>2. \A d \in ControlDocuments : /\ owes[d] \in Int /\ Gap(type)[d] \in Int
                                  /\ OnAccount(type)[d] = owes[d] + Gap(type)[d]
  BY AccountIsOwed
<1>. HIDE DEF owes
<1>3. SumUp(ControlDocuments, owes)
        = SumUp(ControlDocuments, ByInvoice(type)) + SumUp(ControlDocuments, ByNote(type))
  BY <1>1, SumOfSums, ControlFinite
<1>4. SumUp(ControlDocuments, OnAccount(type))
        = SumUp(ControlDocuments, owes) + SumUp(ControlDocuments, Gap(type))
  BY <1>2, SumOfSums, ControlFinite
<1>5. SumUp(ControlDocuments, Gap(type)) = 0
  BY DEF Orders, Control
<1>6. SumUp(ControlDocuments, owes) \in Int
  BY <1>2, SumIsInt, ControlFinite
<1>. QED BY <1>3, <1>4, <1>5, <1>6, OwedIs

LEMMA ControlIs == Orders => ControlAgrees
<1>. SUFFICES ASSUME Orders PROVE ControlAgrees
  OBVIOUS
<1>1. \A d \in ControlDocuments :
        /\ SumJournals(gl[d], "debtors") = OnAccount("ACCREC")[d]
        /\ SumJournals(gl[d], "creditors") = -OnAccount("ACCPAY")[d]
  <2>1. TAKE d \in ControlDocuments
  <2>2. CASE d \in Invoices
    BY <2>2, InvoiceOnAccount DEF OnAccount
  <2>3. CASE d \in Notes
    BY <2>3, NoteOnAccount, ControlFinite DEF OnAccount
  <2>4. CASE d \in Payments
    BY <2>4, PaymentOnAccount, ControlFinite DEF OnAccount
  <2>. QED BY <2>2, <2>3, <2>4 DEF ControlDocuments
<1>2. "ACCREC" \in InvoiceTypes /\ "ACCPAY" \in InvoiceTypes
  BY DEF InvoiceTypes
<1>3. Moved(ControlDocuments, "debtors") = SumUp(ControlDocuments, OnAccount("ACCREC"))
  <2>. DEFINE m == [s \in ControlDocuments |-> SumJournals(gl[s], "debtors")]
  <2>1. \A d \in ControlDocuments : m[d] = OnAccount("ACCREC")[d]
    BY <1>1
  <2>2. Moved(ControlDocuments, "debtors") = SumUp(ControlDocuments, m)
    BY FoldIsSum DEF Moved, SumOver
  <2>. HIDE DEF m
  <2>. QED BY <2>1, <2>2, SumSame, ControlFinite
<1>4. Moved(ControlDocuments, "creditors") = -SumUp(ControlDocuments, OnAccount("ACCPAY"))
  <2>. DEFINE m == [s \in ControlDocuments |-> SumJournals(gl[s], "creditors")]
  <2>1. \A d \in ControlDocuments : OnAccount("ACCPAY")[d] \in Int
    BY <1>2, AccountIsOwed
  <2>2. \A d \in ControlDocuments : m[d] = -OnAccount("ACCPAY")[d]
    BY <1>1
  <2>3. Moved(ControlDocuments, "creditors") = SumUp(ControlDocuments, m)
    BY FoldIsSum DEF Moved, SumOver
  <2>. HIDE DEF m
  <2>4. SumUp(ControlDocuments, m) = -SumUp(ControlDocuments, OnAccount("ACCPAY"))
    BY <2>1, <2>2, SumNegates, ControlFinite
  <2>. QED BY <2>3, <2>4
<1>5. /\ SumUp(ControlDocuments, OnAccount("ACCREC")) = Owed("ACCREC")
      /\ SumUp(ControlDocuments, OnAccount("ACCPAY")) = Owed("ACCPAY") /\ Owed("ACCPAY") \in Int
  BY <1>2, AccountSums
<1>. QED BY <1>3, <1>4, <1>5 DEF ControlAgrees

LEMMA ControlBegins == Init => Tidy /\ Control
<1>. SUFFICES ASSUME Init PROVE Tidy /\ Control
  OBVIOUS
<1>1. Tidy
  BY DEF Init, Tidy, InForce, Stands
<1>2. ASSUME NEW type PROVE SumUp(ControlDocuments, Gap(type)) = 0
  <2>1. /\ \A i \in Invoices : InvoiceGap(i, type) = 0
        /\ \A c \in Notes : NoteGap(c, type) = 0
        /\ \A p \in Payments : PaymentGap(p, type) = 0
    BY DEF Init, InvoiceGap, NoteGap, PaymentGap
  <2>2. \A d \in ControlDocuments : Gap(type)[d] = 0
    BY <2>1, GapOf DEF ControlDocuments
  <2>. QED BY <2>2, SumOfZeros, ControlFinite
<1>. QED BY <1>1, <1>2 DEF Control

\* The control accounts carry what the documents say is owed, for any finite tables, as long
\* as users approve before they take money, pay no more than is due, and leave alone what
\* has been paid or credited.
THEOREM ControlAccountsAgree == Spec => []ControlAgrees
<1>. DEFINE All == /\ TypeParts /\ LedgerInv /\ Begun /\ Receipts /\ Settled /\ Spending /\ Leaving
                   /\ Tidy /\ Control
<1>1. Init => All
  BY TypeBegins, LedgerBegins, BegunBegins, SettledBegins, SpendingBegins, LeavingBegins, ControlBegins
<1>2. All /\ [Next]_docVars => All'
  <2>. SUFFICES ASSUME All, [Next]_docVars PROVE All'
    OBVIOUS
  <2>1. TypeParts' /\ LedgerInv'
    BY TypeStep, LedgerStep
  <2>2. Begun' /\ Receipts'
    BY BegunStep, ReceiptsStep
  <2>3. Settled' /\ Spending' /\ Leaving'
    BY <2>1, SettledStep, SpendingStep, LeavingStep
  <2>4. Tidy' /\ Control'
    BY <2>1, TidyStep, ControlStep
  <2>. QED BY <2>1, <2>2, <2>3, <2>4
<1>3. All => ControlAgrees
  <2>. SUFFICES ASSUME All, odd = {} PROVE ControlAgrees
    BY DEF ControlAgrees
  <2>. QED BY ControlIs DEF Orders
<1>. QED BY <1>1, <1>2, <1>3, PTL DEF Spec
=============================================================================
