----------------------------- MODULE Subledger ------------------------------
(***************************************************************************)
(* What the figures kept on documents and the general ledger promise each  *)
(* other: sums over Documents.                                             *)
(***************************************************************************)
EXTENDS Documents, Functions, FiniteSets

\* The tables have finitely many rows.
ASSUME SubledgerAssumption ==
  IsFiniteSet(Invoices) /\ IsFiniteSet(Notes) /\ IsFiniteSet(Payments)

SumOver(S, f) == FoldFunctionOnSet(+, 0, f, S)

SumJournals(js, account) ==
  FoldFunction(+, 0, [k \in DOMAIN js |-> js[k][account]])

\* What a set of documents has moved on an account.
Moved(S, account) == SumOver(S, [s \in S |-> SumJournals(gl[s], account)])

PaymentsOf(i) ==
  {p \in Payments : pay[p].invoice = i /\ Stands(pay[p]) /\ ~pay[p].batch}

Orderly(kinds) == odd \cap kinds = {}

\* What an invoice says was paid is the sum of the payments recorded for it and not
\* taken back, under whatever status they were sent, through edits, voids and
\* re-payments (a batch never counts, until its payment is voided), and what it says
\* was credited is what the notes say they allocated to it.
SettledAsRecorded ==
  /\ Orderly({"refund", "unbatched"}) =>
       \A i \in Invoices :
         inv[i].paid = SumOver(PaymentsOf(i), [p \in PaymentsOf(i) |-> pay[p].amount])
  /\ \A i \in Invoices : inv[i].credited = SumOver(Notes, [c \in Notes |-> alloc[c][i]])

\* A credit note gives no more than its total, and keeps the rest.
CreditIsSpentOnce ==
  Orderly({"reissued"}) =>
    \A c \in Notes : note[c].total = note[c].remaining + SumOver(Invoices, alloc[c])

\* What is due is what has been neither paid nor credited.
DueIsWhatIsLeft ==
  Orderly({"refund", "overpaid", "recredited", "unbatched"}) =>
    \A i \in Invoices : inv[i].due = inv[i].total - inv[i].paid - inv[i].credited

Open(type) == {i \in Invoices : InForce(inv[i].status) /\ inv[i].body.type = type}
Unspent(type) == {c \in Notes : InForce(note[c].status) /\ note[c].body.type = type}

\* What customers (or suppliers) owe according to the documents.
Owed(type) == SumOver(Open(type), [i \in Open(type) |-> inv[i].due])
              - SumOver(Unspent(type), [c \in Unspent(type) |-> note[c].remaining])

ControlDocuments == Invoices \cup Notes \cup Payments

\* The control accounts carry what the documents say is owed, as long as users
\* keep to approving before they take money, pay no more than is due, and leave
\* alone what has been paid or credited.
ControlAgrees ==
  odd = {} => /\ Moved(ControlDocuments, "debtors") = Owed("ACCREC")
              /\ -Moved(ControlDocuments, "creditors") = Owed("ACCPAY")
=============================================================================
