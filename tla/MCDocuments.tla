---------------------------- MODULE MCDocuments -----------------------------
(***************************************************************************)
(* Instances of Documents for TLC.                                         *)
(***************************************************************************)
EXTENDS Subledger, FiniteSets, TLC

\* A sale with its tax added, a bill with its tax included, and a sale without tax
\* whose lines, rounded one by one, sum to one unit less than its total.
SmallBodies ==
  {[type |-> "ACCREC", amounts |-> "Exclusive", sub |-> 1, tax |-> 1, lost |-> 0],
   [type |-> "ACCREC", amounts |-> "NoTax",     sub |-> 1, tax |-> 1, lost |-> 1],
   [type |-> "ACCPAY", amounts |-> "Inclusive", sub |-> 2, tax |-> 1, lost |-> 0]}

SmallJournals ==
  {[Nothing EXCEPT !.bank = 1, !.coded = -1]}

CONSTANTS
  MaxOdd,       \* how many kinds of unusual things users do in one behaviour
  MaxCredit     \* how much an invoice is credited

\* Payments differ only in their row ids.
Alike == Permutations(Payments)

\* Documents that share no state are explored apart.
Apart ==
  \/ (\A v \in Advances : adv[v] = "NONE") /\ (\A m \in Manuals : man[m] = "NONE")
  \/ (\A i \in Invoices : inv[i].status = "NONE") /\ (\A c \in Notes : note[c].status = "NONE")

\* A note of a customer's against a supplier's bill, or the other way round: followed
\* while users have done one unusual thing less.
Mixed ==
  \E i \in Invoices, c \in Notes :
    /\ inv[i].status # "NONE" /\ note[c].status # "NONE"
    /\ inv[i].body.type # note[c].body.type

Bound ==
  /\ Cardinality(odd) + (IF Mixed THEN 1 ELSE 0) <= MaxOdd
  /\ \A i \in Invoices : inv[i].credited <= MaxCredit
  /\ Apart
=============================================================================
