------------------------------ MODULE Journals ------------------------------
(***************************************************************************)
(* What internal/repository/gl.go posts for each kind of document.         *)
(*                                                                         *)
(* A journal is kept as what it moves on each account that the properties  *)
(* tell apart: the bank account, the two document control accounts, the    *)
(* sales tax account, and all the accounts that line items are coded to    *)
(* taken together.  A debit is positive.  A document is kept as the sum of *)
(* its line amounts and the sum of its tax amounts; documentLineNet is     *)
(* linear in both, so the sum over the lines is documentLineNet of the     *)
(* sums.  Figures count the smallest unit a column holds: a total is       *)
(* rounded to it once, but the rows round every line amount by itself, and *)
(* what that loses is kept beside the sum.                                 *)
(***************************************************************************)
EXTENDS Integers, Sequences

CONSTANT
  TaxAccount    \* BOOLEAN: an account of the chart has the role GST

ASSUME TaxAccountAssumption == TaxAccount \in BOOLEAN

LineAmountTypes == {"Exclusive", "Inclusive", "NoTax"}
InvoiceTypes    == {"ACCREC", "ACCPAY"}
AdvanceTypes    == {"RECEIVE", "SPEND"}

\* What a client sends of a document: its type, how its line amounts relate to
\* their tax, the sum of the line amounts, the sum of the tax amounts, and by how
\* much the rows of the lines will fall short of their sum, each rounded by itself.
BodyOf(S) == [type : InvoiceTypes, amounts : LineAmountTypes, sub : S, tax : S, lost : S]

\* The document as its rows keep it, which is how a later statement reads it back and
\* how the rows of its journal are written.
Rows(b) == [b EXCEPT !.sub = @ - b.lost]

Journal == [bank : Int, debtors : Int, creditors : Int, tax : Int, coded : Int]

Nothing == [bank |-> 0, debtors |-> 0, creditors |-> 0, tax |-> 0, coded |-> 0]

\* What insertJournal adds up, and requires to be zero.
OffBy(j) == j.bank + j.debtors + j.creditors + j.tax + j.coded

Balanced(j) == OffBy(j) = 0

\* recalculateTotals: the document's total.
TotalOf(b) == IF b.amounts = "Exclusive" THEN b.sub + b.tax ELSE b.sub

\* documentTaxTotal
DocumentTaxTotal(b) == IF b.amounts = "NoTax" THEN 0 ELSE b.tax

\* Whether the tax goes to a line of its own: only looked up when there is tax.
TaxPosted(b) == DocumentTaxTotal(b) # 0 /\ TaxAccount

DocumentLineNetGross(b, taxAcc) ==      \* faulty: included tax is not taken out
  IF b.amounts = "Exclusive" /\ ~taxAcc THEN b.sub + b.tax ELSE b.sub

\* documentLineNet: the amount the coded accounts carry.
DocumentLineNet(b, taxAcc) ==
  CASE b.amounts = "NoTax"                 -> b.sub
    [] b.amounts = "Inclusive" /\ taxAcc   -> b.sub - b.tax
    [] b.amounts = "Exclusive" /\ ~taxAcc  -> b.sub + b.tax
    [] OTHER                               -> b.sub

\* A document's own lines: the coded accounts and the tax account, against the
\* control account.
DocumentLines(b, total, sign) ==
  [bank      |-> 0,
   debtors   |-> IF b.type = "ACCREC" THEN sign * total ELSE 0,
   creditors |-> IF b.type = "ACCPAY" THEN sign * total ELSE 0,
   tax       |-> IF TaxPosted(b) THEN -(sign * DocumentTaxTotal(b)) ELSE 0,
   coded     |-> -(sign * DocumentLineNet(b, TaxPosted(b)))]

Sign(type) == IF type = "ACCREC" THEN 1 ELSE -1

\* postInvoiceJournal: a sale debits debtors, a bill credits creditors.
InvoiceJournal(b, total) == DocumentLines(b, total, Sign(b.type))

\* postCreditNoteJournal: the other way round.
CreditNoteJournal(b, total) == DocumentLines(b, total, -Sign(b.type))

PaymentJournalAsSale(type, a) ==       \* faulty: paying a bill moves debtors
  [Nothing EXCEPT !.bank = a, !.debtors = -a]

\* postPaymentJournal: the bank against the control account of the invoice's
\* type as it is then.
PaymentJournal(type, a) ==
  [Nothing EXCEPT !.bank      = Sign(type) * a,
                  !.debtors   = IF type = "ACCREC" THEN -a ELSE 0,
                  !.creditors = IF type = "ACCPAY" THEN a ELSE 0]

\* postPrepaymentJournal, and postOverpaymentJournal, its mirror.
AdvanceJournal(type, a) ==
  PaymentJournal(IF type = "RECEIVE" THEN "ACCREC" ELSE "ACCPAY", a)

\* A document with a total of zero posts nothing.
InvoicePosting(b, total) ==
  IF total = 0 THEN << >> ELSE <<InvoiceJournal(b, total)>>

CreditNotePosting(b, total) ==
  IF total = 0 THEN << >> ELSE <<CreditNoteJournal(b, total)>>
=============================================================================
