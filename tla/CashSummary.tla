---------------------------- MODULE CashSummary ----------------------------
(***************************************************************************)
(* The cash summary: what moved the bank accounts within a window, by the  *)
(* accounts the money was coded to.  A journal that touches a control      *)
(* account is looked through to the documents its cash settled.            *)
(*                                                                         *)
(* The cashbook is the part of gl_journals that moves the bank; a line     *)
(* carries the tax recorded beside its net.  Amounts are in cents, and the *)
(* columns hold every figure as it is.                                     *)
(***************************************************************************)
EXTENDS LedgerReports

CONSTANTS
  Receivable, Payable, ClaimsControl,  \* the accounts of the control roles
  TaxAccount,
  ControlCodes,      \* the three of them in the order of their codes
  CashDocuments,     \* approved invoices and bills, by id
  CashNotes,         \* approved credit notes, by id
  CashCodings,       \* what a bank transaction may be
  CashManuals,       \* manual journals over a bank account
  ClaimJournals,     \* EXPENSECLAIM journals, which only migrations write
  PaidFrom,          \* the accounts that money is paid and received through
  CashAmounts        \* and how much is paid or allocated

\* A sum over the lines of a document or journal, and a row for each line of each x in S.
SumOf(s, f(_)) == Total(DOMAIN s, [n \in DOMAIN s |-> f(s[n])])
PerLine(S, lines(_)) == UNION {{x} \X DOMAIN lines(x) : x \in S}

\* documentLineNet, there being a tax account
LineNet(doc, l) == IF doc.inclusive THEN l.amount - l.tax ELSE l.amount

NoControl == ""
Controls == {Receivable, Payable, ClaimsControl}

DocLine  == [account : ChartAccounts, amount : Int, tax : Int]
Document ==
  [type : {"ACCREC", "ACCPAY", "ACCRECCREDIT", "ACCPAYCREDIT"}, inclusive : BOOLEAN,
   lines : Seq(DocLine), total : Nat \ {0}]

\* recalculateTotals, of a document whose lines carry no tax that it leaves out
Totalled(doc) == SumOf(doc.lines, LAMBDA l : LineNet(doc, l) + l.tax) = doc.total

ASSUME CashAssumption ==
  /\ Controls \cup {TaxAccount} \cup PaidFrom \subseteq ChartAccounts /\ NoControl \notin ChartAccounts
  /\ ControlCodes \in Seq(Controls) /\ Controls = Range(ControlCodes)
  /\ ClaimsControl \notin {Receivable, Payable}
  /\ \A a \in Controls \cup {TaxAccount} : TypeOf[a] # "BANK"
  /\ \A i \in DOMAIN CashDocuments : CashDocuments[i] \in Document /\ Totalled(CashDocuments[i])
  /\ \A n \in DOMAIN CashNotes : CashNotes[n] \in Document /\ Totalled(CashNotes[n])
  /\ CashCodings \subseteq [sign : {-1, 1}, inclusive : BOOLEAN, lines : Seq(DocLine)]
  /\ CashManuals \subseteq Seq(EntryLine) /\ CashAmounts \subseteq Int
  /\ IsFiniteSet(DOMAIN ClaimJournals)
  /\ \A c \in DOMAIN ClaimJournals : ClaimJournals[c] \in Seq(EntryLine)

VARIABLES
  cashbook,     \* the journals of payments, bank transactions and manual journals
  payments,     \* the payments table; a payment and its journal share an id
  allocations   \* credit_note_allocations

cashVars == <<cashbook, payments, allocations>>

Touches(j, accounts) == \E n \in DOMAIN j.lines : j.lines[n].account \in accounts
Line(account, net, tax) == [account |-> account, net |-> net, tax |-> tax, lost |-> 0]

(***************************************************************************)
(* What posts to the bank.                                                 *)
(***************************************************************************)
\* postBankTransactionJournal: a line's net takes the bank's opposite sign, the tax
\* recorded beside it is as the document has it.
TransactionLines(t, account) ==
  LET tax == SumOf(t.lines, LAMBDA l : l.tax)
      total == SumOf(t.lines, LAMBDA l : LineNet(t, l)) + tax
  IN  <<Line(account, t.sign * total, 0)>>
      \o [n \in DOMAIN t.lines |->
            Line(t.lines[n].account, -(t.sign * LineNet(t, t.lines[n])), t.lines[n].tax)]
      \o (IF tax = 0 THEN << >> ELSE <<Line(TaxAccount, -(t.sign * tax), 0)>>)

PaymentSign(i) == IF CashDocuments[i].type = "ACCPAY" THEN -1 ELSE 1

\* postPaymentJournal
PaymentLines(i, account, amount) ==
  LET control == IF CashDocuments[i].type = "ACCPAY" THEN Payable ELSE Receivable IN
    <<Line(account, PaymentSign(i) * amount, 0), Line(control, -(PaymentSign(i) * amount), 0)>>

Write(k, lines, day) ==
  cashbook' = [x \in DOMAIN cashbook \cup {k} |->
                IF x = k THEN [date |-> day, lines |-> lines] ELSE cashbook[x]]

Erase(k) == cashbook' = [x \in DOMAIN cashbook \ {k} |-> cashbook[x]]

\* insertJournal refuses what does not balance.
PostBank(k, lines, day) ==
  /\ k \notin DOMAIN cashbook \cup DOMAIN payments
  /\ SumOf(lines, LAMBDA l : l.net) = 0
  /\ Write(k, lines, day)
  /\ UNCHANGED <<payments, allocations>>

RemoveBank(k) ==
  /\ k \in DOMAIN cashbook \ DOMAIN payments
  /\ Erase(k)
  /\ UNCHANGED <<payments, allocations>>

Pay(k, i, account, amount, day) ==
  /\ k \notin DOMAIN cashbook \cup DOMAIN payments
  /\ payments' = [x \in DOMAIN payments \cup {k} |->
                   IF x = k THEN [invoice |-> i, amount |-> amount, date |-> day, voided |-> FALSE]
                            ELSE payments[x]]
  /\ Write(k, PaymentLines(i, account, amount), day)
  /\ UNCHANGED allocations

\* A payment is never deleted: it is voided, and its journal goes.
VoidPaid(k) ==
  /\ k \in DOMAIN payments /\ ~payments[k].voided
  /\ payments' = [payments EXCEPT ![k].voided = TRUE]
  /\ Erase(k)
  /\ UNCHANGED allocations

AllocatedTo(i) ==
  Total({x \in allocations : x.invoice = i}, [x \in allocations |-> x.amount])

AllocateNote(n, i, amount) ==
  /\ \A x \in allocations : x.note # n
  /\ amount <= CashNotes[n].total /\ amount + AllocatedTo(i) <= CashDocuments[i].total
  /\ allocations' = allocations \cup {[note |-> n, invoice |-> i, amount |-> amount]}
  /\ UNCHANGED <<cashbook, payments>>

(***************************************************************************)
(* The report.                                                             *)
(***************************************************************************)
BankJournals(js, from, to) ==
  {k \in DOMAIN js : js[k].date \in from .. to /\ Touches(js[k], OfType({"BANK"}))}

\* The control of a journal is the one of lowest code.
ControlOf(j) ==
  LET used == {n \in DOMAIN ControlCodes : Touches(j, {ControlCodes[n]})} IN
    IF used = {} THEN NoControl ELSE ControlCodes[CHOOSE n \in used : \A m \in used : n <= m]

\* ROUND(x * num / den, 2): half a cent is rounded away from zero.
ShareOf(x, num, den) ==
  IF x < 0 THEN -((2 * (-x) * num + den) \div (2 * den)) ELSE (2 * x * num + den) \div (2 * den)

Coded(control, account, amount, tax) ==
  [control |-> control, account |-> account, amount |-> amount, tax |-> tax]

\* A share of a line of a document, as cash with a sign.
Attributed(control, sign, doc, n, num, den) ==
  Coded(control, doc.lines[n].account, sign * ShareOf(LineNet(doc, doc.lines[n]), num, den),
        sign * ShareOf(doc.lines[n].tax, num, den))

SettledControl(i) == IF CashDocuments[i].type = "ACCPAY" THEN Payable ELSE Receivable

PaidWithin(from, to) == {p \in DOMAIN payments : payments[p].date \in from .. to}

\* doc_attr: the part of a document that a payment and the credit allocated to the
\* document explain.  Voided payments are among them.
Explained(p) ==
  LET doc == CashDocuments[payments[p].invoice]
      settled == payments[p].amount + AllocatedTo(payments[p].invoice)
  IN  IF settled < doc.total THEN settled ELSE doc.total

DocumentAttr(paid) ==
  [row \in PerLine(paid, LAMBDA p : CashDocuments[payments[p].invoice].lines) |->
    LET i == payments[row[1]].invoice IN
      Attributed(SettledControl(i), PaymentSign(i), CashDocuments[i], row[2],
                 Explained(row[1]), CashDocuments[i].total)]

\* cn_attr: once more for every payment of the document
NoteAttr(paid) ==
  LET credited == {x \in paid \X allocations : x[2].invoice = payments[x[1]].invoice} IN
    [row \in PerLine(credited, LAMBDA x : CashNotes[x[2].note].lines) |->
      LET i == payments[row[1][1]].invoice
          x == row[1][2]
      IN  Attributed(SettledControl(i), -PaymentSign(i), CashNotes[x.note], row[2],
                     x.amount, CashNotes[x.note].total)]

\* claim_attr: a claim is found by the amount on its control account.
PaysClaim(l, c) ==
  /\ l.account = ClaimsControl
  /\ \E m \in DOMAIN ClaimJournals[c] :
       ClaimJournals[c][m].account = ClaimsControl /\ ClaimJournals[c][m].net = -l.net

ClaimAttr(bank) ==
  LET own  == {k \in bank : ControlOf(cashbook[k]) = ClaimsControl}
      paid == {x \in PerLine(own, LAMBDA k : cashbook[k].lines) \X DOMAIN ClaimJournals :
                 PaysClaim(cashbook[x[1][1]].lines[x[1][2]], x[2])}
      coding(row) == ClaimJournals[row[1][2]][row[2]]
  IN  [row \in {r \in PerLine(paid, LAMBDA x : ClaimJournals[x[2]]) :
                  coding(r).account \notin {ClaimsControl, TaxAccount}} |->
        Coded(ClaimsControl, coding(row).account, -coding(row).net, -coding(row).tax)]

BankLines(bank) == PerLine(bank, LAMBDA k : cashbook[k].lines)

\* faulty: lines on the control account are taken as well
DirectAttrOfAll(bank) ==
  LET line(row) == cashbook[row[1]].lines[row[2]] IN
    [row \in {r \in BankLines(bank) :
                TypeOf[line(r).account] # "BANK" /\ line(r).account # TaxAccount} |->
      Coded(ControlOf(cashbook[row[1]]), line(row).account, -line(row).net, -line(row).tax)]

\* direct_attr: what a bank journal coded outside its control and the tax account
DirectAttr(bank) ==
  LET line(row) == cashbook[row[1]].lines[row[2]] IN
    [row \in {r \in BankLines(bank) :
                /\ TypeOf[line(r).account] # "BANK"
                /\ line(r).account \notin {TaxAccount, ControlOf(cashbook[r[1]])}} |->
      Coded(ControlOf(cashbook[row[1]]), line(row).account, -line(row).net, -line(row).tax)]

\* all_attr: UNION ALL
AllAttr(paid, bank) ==
  LET tables == <<DocumentAttr(paid), NoteAttr(paid), ClaimAttr(bank), DirectAttr(bank)>> IN
    [row \in PerLine(DOMAIN tables, LAMBDA t : tables[t]) |-> tables[row[1]][row[2]]]

CashMoved(j) == SumOf(j.lines, LAMBDA l : IF TypeOf[l.account] = "BANK" THEN l.net ELSE 0)

CashOf(from, to) ==
  LET bank == BankJournals(cashbook, from, to)
      attr == AllAttr(PaidWithin(from, to), bank)
      used(c) == {k \in bank : ControlOf(cashbook[k]) = c}
      residual(c) ==
        IF used(c) = {} THEN 0
        ELSE Total(used(c), [k \in bank |-> CashMoved(cashbook[k])])
             - Total({row \in DOMAIN attr : attr[row].control = c},
                     [row \in DOMAIN attr |-> attr[row].amount + attr[row].tax])
      sum == BankSummary(cashbook, from, to)
  IN  [categories |-> attr,
       unattributed |-> [c \in Controls |-> residual(c)],
       noteTax |-> Total(allocations, [x \in allocations |-> SumOf(CashNotes[x.note].lines, LAMBDA l : l.tax)]),
       opening |-> sum.opening, closing |-> sum.closing]

\* cashSectionFor
CashSection(account) ==
  CASE TypeOf[account] \in IncomeTypes -> "income"
    [] TypeOf[account] \in CostTypes   -> "expense"
    [] OTHER                           -> "other"

\* renderCashSummary: the movement it prints is the sum of the sections it prints.
RenderCash(cash) ==
  LET rows(sections) == {row \in DOMAIN cash.categories :
                           CashSection(cash.categories[row].account) \in sections}
      coded(s) == Total(rows({s}), [row \in DOMAIN cash.categories |-> cash.categories[row].amount])
      kept(s)  == Total({c \in Controls : CashSection(c) = s}, cash.unattributed)
      taxOf(sections) == Total(rows(sections), [row \in DOMAIN cash.categories |-> cash.categories[row].tax])
      section(s) == coded(s) + kept(s)
      taxCollected == taxOf({"income"}) + cash.noteTax
      taxPaid == taxOf({"expense", "other"}) - cash.noteTax
  IN  [surplus |-> section("income") + section("expense"), other |-> section("other"),
       netTax |-> taxCollected + taxPaid,
       movement |-> section("income") + section("expense") + section("other") + taxCollected + taxPaid,
       coverage |-> Total(Controls, cash.unattributed)]

CashInit == cashbook = << >> /\ payments = << >> /\ allocations = {}

CashNext ==
  \/ \E k \in JournalIds, day \in ReportDays :
       \/ \E t \in CashCodings, a \in PaidFrom : PostBank(k, TransactionLines(t, a), day)
       \/ \E m \in CashManuals : PostBank(k, m, day)
       \/ \E i \in DOMAIN CashDocuments, a \in PaidFrom, x \in CashAmounts : Pay(k, i, a, x, day)
  \/ \E k \in JournalIds : RemoveBank(k) \/ VoidPaid(k)
  \/ \E n \in DOMAIN CashNotes, i \in DOMAIN CashDocuments, x \in CashAmounts : AllocateNote(n, i, x)

CashSpec == CashInit /\ [][CashNext]_cashVars

(***************************************************************************)
(* Properties.                                                             *)
(***************************************************************************)
\* What a journal records as tax beside its lines off the bank is what it posts to the
\* tax account.
TaxRecorded(j) ==
  SumOf(j.lines, LAMBDA l : IF l.account = TaxAccount THEN l.net
                            ELSE IF TypeOf[l.account] = "BANK" THEN 0 ELSE -l.tax) = 0

\* The window's payments are all in the bank: none was voided and none was made
\* through an account that is not one.
PaymentsMoved(w) ==
  \A p \in PaidWithin(w.from, w.to) : p \in BankJournals(cashbook, w.from, w.to)

\* The printed movement is that of the bank accounts, provided the journals with no
\* control account record the tax they post and the payments moved cash: with part
\* payments, shares rounded to the cent, credit allocated to a document paid twice,
\* claims found by an amount that others share, and controls mixed in a journal.
CashMovementFoots(w) ==
  LET cash == CashOf(w.from, w.to)
      direct == {k \in BankJournals(cashbook, w.from, w.to) : ControlOf(cashbook[k]) = NoControl}
  IN  PaymentsMoved(w) /\ (\A k \in direct : TaxRecorded(cashbook[k]))
        => RenderCash(cash).movement = cash.closing - cash.opening

\* And nothing is left on a control account when all that used one in the window is
\* the payment in full of a document without credit.
CashIsExplained(w) ==
  LET paid == PaidWithin(w.from, w.to)
      controlled == {k \in BankJournals(cashbook, w.from, w.to) : ControlOf(cashbook[k]) # NoControl}
      cash == CashOf(w.from, w.to)
  IN  /\ controlled = paid /\ allocations = {}
      /\ \A p \in paid : payments[p].amount = CashDocuments[payments[p].invoice].total
      => \A c \in DOMAIN cash.unattributed : cash.unattributed[c] = 0

CashFoots ==
  cashbook # << >> => \A w \in Forward : CashMovementFoots(w) /\ CashIsExplained(w)

\* The movement is that of the bank accounts, whatever was posted: what the report
\* says of itself, and a receipt with tax is not part of.
CashAlwaysFoots ==
  \A w \in Forward :
    LET cash == CashOf(w.from, w.to) IN
      RenderCash(cash).movement = cash.closing - cash.opening
=============================================================================
