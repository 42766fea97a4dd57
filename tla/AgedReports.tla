---------------------------- MODULE AgedReports ----------------------------
(***************************************************************************)
(* The aged receivables and payables of internal/repository/report.go and  *)
(* handlers/report_render.go: the summary by contact with its block of     *)
(* expense claims, the drill-down with a block for each contact, and the   *)
(* two figures of the executive summary that they break down.              *)
(*                                                                         *)
(* Invoices are kept as the reports read them.  How one comes to be so is  *)
(* the matter of Documents; here it is saved that way.                     *)
(***************************************************************************)
EXTENDS Figures, Sequences

CONSTANTS
  Customers,      \* contacts
  NameOf,         \* numbers, for the order of their names; two may be the same
  InvoiceIds,     \* numbers, for the order of invoice numbers
  InvoiceBodies,  \* what is saved of an invoice
  ClaimBodies,    \* what is saved of an expense claim
  AsAtDays,       \* the days a report is asked for
  NoCustomer, NoDay

Day == Int \cup {NoDay}

\* Rows of the two tables; the status of an invoice is whatever the client sent.
Bills ==
  [type : {"ACCREC", "ACCPAY"}, contact : Customers \cup {NoCustomer}, date : Day, dueDay : Day,
   due : Int, status : STRING]
Claims ==
  [status : {"SUBMITTED", "AUTHORISED", "PAID", "DELETED"}, reported : Day, dueDay : Day, due : Int]

ASSUME AgedAssumption ==
  /\ IsFiniteSet(Customers) /\ NoCustomer \notin Customers
  /\ NameOf \in [Customers -> Nat]
  /\ InvoiceIds \subseteq Nat /\ AsAtDays \subseteq Int
  /\ InvoiceBodies \subseteq Bills /\ ClaimBodies \subseteq Claims

VARIABLES
  bills,     \* the invoices table: invoices, by id
  claim      \* an expense claim, if there is one

agedVars == <<bills, claim>>

NoClaim == [status |-> "none"]

\* COALESCE
Coalesce(day, other) == IF day = NoDay THEN other ELSE day

Bands == 1 .. 5

AgeBandShort(age) ==     \* faulty: the first column ends a day early
  IF age < 30 THEN 1 ELSE IF age <= 60 THEN IF age >= 31 THEN 2 ELSE 0
  ELSE IF age <= 90 THEN 3 ELSE IF age <= 120 THEN 4 ELSE 5

\* ageingBuckets: the column an amount of this age is printed in.
AgeBand(age) ==
  IF age <= 30 THEN 1 ELSE IF age \in 31 .. 60 THEN 2 ELSE IF age \in 61 .. 90 THEN 3
  ELSE IF age \in 91 .. 120 THEN 4 ELSE IF age > 120 THEN 5 ELSE 0

Dues == [i \in DOMAIN bills |-> bills[i].due]
DueDay(b) == Coalesce(b.dueDay, b.date)
InvoiceBand(b, asOf) == AgeBand(asOf - DueDay(b))

\* What the receivables and payables of the executive summary add up.
StillOwed(type, asOf) ==
  {i \in DOMAIN bills :
    /\ bills[i].type = type /\ bills[i].status = "AUTHORISED" /\ bills[i].due > 0
    /\ bills[i].date # NoDay /\ bills[i].date <= asOf}

\* outstandingInvoices: those of a contact that is still there.
OutstandingInvoices(type, asOf, who) ==
  {i \in StillOwed(type, asOf) : bills[i].contact \in who \cap Customers}

ExecutiveOwed(type, asOf) == Total(StillOwed(type, asOf), Dues)

\* Aged: the figures of one contact, a column each and the total.
AgedRow(type, asOf, c) ==
  LET rows == OutstandingInvoices(type, asOf, {c}) IN
    [bands |-> [k \in Bands |-> Total({i \in rows : InvoiceBand(bills[i], asOf) = k}, Dues)],
     total |-> Total(rows, Dues)]

\* AgedByContact: one row for each invoice, by contact name, due day and number.
AgedByContact(type, asOf, who) ==
  LET rows == OutstandingInvoices(type, asOf, who)
      name(i) == NameOf[bills[i].contact]
      day(i)  == DueDay(bills[i])
      before(i, j) ==
        \/ name(i) < name(j)
        \/ name(i) = name(j) /\ day(i) < day(j)
        \/ name(i) = name(j) /\ day(i) = day(j) /\ i < j
  IN  InOrder(rows, [j \in rows |-> {i \in rows : before(i, j)}])

\* renderAgedByContact starts a block where the contact changes.
BlockStarts(rows, c) ==
  {n \in DOMAIN rows :
    bills[rows[n]].contact = c /\ (n = 1 \/ bills[rows[n - 1]].contact # c)}

\* AgedExpenseClaims: printed with the payables, unless they are one contact's.
ClaimDay == Coalesce(claim.dueDay, claim.reported)

ClaimPrinted(type, asOf, who) ==
  /\ type = "ACCPAY" /\ who = Customers
  /\ claim.status \in {"SUBMITTED", "AUTHORISED"}
  /\ claim.due > 0
  /\ ClaimDay # NoDay /\ ClaimDay <= asOf

ClaimOwed(type, asOf, who) == IF ClaimPrinted(type, asOf, who) THEN claim.due ELSE 0

\* renderAged: the total row adds up the contacts' rows and the claims'.
RenderAged(type, asOf, who) ==
  LET claimBand == IF ClaimPrinted(type, asOf, who) THEN AgeBand(asOf - ClaimDay) ELSE 0 IN
    [bands |-> [k \in Bands |-> Total(who, [c \in who |-> AgedRow(type, asOf, c).bands[k]])
                                + (IF k = claimBand THEN claim.due ELSE 0)],
     total |-> Total(who, [c \in who |-> AgedRow(type, asOf, c).total]) + ClaimOwed(type, asOf, who)]

AgedInit == bills = << >> /\ claim = NoClaim

\* What a request leaves of an invoice: with or without a contact and dates,
\* approved or not, paid or not.
SaveInvoice(i, body) ==
  /\ bills' = [k \in DOMAIN bills \cup {i} |-> IF k = i THEN body ELSE bills[k]]
  /\ UNCHANGED claim

\* ExpenseClaimRepository.Create and Delete
SubmitClaim(body) ==
  /\ claim.status = "none"
  /\ claim' = body
  /\ UNCHANGED bills

DeleteClaim ==
  /\ claim.status # "none"
  /\ claim' = [claim EXCEPT !.status = "DELETED"]
  /\ UNCHANGED bills

AgedNext ==
  \/ \E i \in InvoiceIds, body \in InvoiceBodies : SaveInvoice(i, body)
  \/ \E body \in ClaimBodies : SubmitClaim(body)
  \/ DeleteClaim

AgedSpec == AgedInit /\ [][AgedNext]_agedVars

Nameless(type, asOf) == {i \in StillOwed(type, asOf) : bills[i].contact = NoCustomer}

SoleName(c) == \A d \in Customers \ {c} : NameOf[d] # NameOf[c]

\* The columns of an aged report add up to its total, for all contacts and for one; it
\* is what the executive summary says is owed, but for invoices of no contact, and the
\* expense claims; the drill-down shows each invoice once, in the column its contact's
\* row counts it in, and each contact in one block, if no other has its name; and a
\* later day moves no invoice to a younger column.
AgedAgree ==
  bills # << >> => \A type \in {"ACCREC", "ACCPAY"}, asOf \in AsAtDays :
    /\ \A who \in {Customers} \cup {{c} : c \in Customers} :
         LET report == RenderAged(type, asOf, who)
             detail == AgedByContact(type, asOf, who)
         IN  /\ Total(Bands, report.bands) = report.total
             /\ report.total = ClaimOwed(type, asOf, who)
                               + Total(DOMAIN detail, [n \in DOMAIN detail |-> bills[detail[n]].due])
             /\ \A c \in who : /\ SoleName(c) => Cardinality(BlockStarts(detail, c)) <= 1
                               /\ AgedRow(type, asOf, c).total > 0 => BlockStarts(detail, c) # {}
    /\ RenderAged(type, asOf, Customers).total - ClaimOwed(type, asOf, Customers)
       = ExecutiveOwed(type, asOf) - Total(Nameless(type, asOf), Dues)
    /\ \A i \in StillOwed(type, asOf), later \in AsAtDays :
         later > asOf => InvoiceBand(bills[i], asOf) <= InvoiceBand(bills[i], later)
=============================================================================
