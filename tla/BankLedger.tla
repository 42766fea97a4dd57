----------------------------- MODULE BankLedger -----------------------------
(***************************************************************************)
(* The table bank_transactions, as internal/repository/bank_transaction.go *)
(* changes it.  Each operator is one statement, or one database            *)
(* transaction that takes its row lock first, hence one step.  The general *)
(* ledger journal is written and removed in the same database transaction  *)
(* as the row: a transaction has its journal exactly while it is           *)
(* AUTHORISED, and the module does not carry it as a variable of its own.  *)
(* Type and total are one signed amount, as sameDirection reads them.      *)
(***************************************************************************)
EXTENDS Integers

CONSTANTS
  Txs,          \* row ids of bank transactions
  Amounts,      \* signed totals, money in positive
  NoAmount      \* no amount recorded

ASSUME AmountsAssumption ==
  /\ Amounts \subseteq Int
  /\ NoAmount \notin Amounts

VARIABLE
  ledger        \* the rows

TxStatus == {"ABSENT", "AUTHORISED", "DELETED"}

LedgerTypeOK ==
  /\ ledger \in [Txs -> [status     : TxStatus,
                         reconciled : BOOLEAN,
                         amount     : Amounts \cup {NoAmount}]]
  /\ \A t \in Txs : ledger[t].status # "ABSENT" => ledger[t].amount \in Amounts

LedgerInit ==
  ledger = [t \in Txs |-> [status |-> "ABSENT", reconciled |-> FALSE, amount |-> NoAmount]]

TxExists(t) == ledger[t].status # "ABSENT"

CreateTx(t, a, rec) ==
  /\ ledger[t].status = "ABSENT"
  /\ ledger' = [ledger EXCEPT ![t] = [status |-> "AUTHORISED", reconciled |-> rec,
                                      amount |-> a]]

\* Update replaces the row with what the body says, status and flag included; a
\* status the body leaves out is the one the handler read before.
UpdateTx(t, s, a, rec) ==
  /\ TxExists(t)
  /\ ledger' = [ledger EXCEPT ![t] = [status |-> s, reconciled |-> rec, amount |-> a]]

\* Deleting keeps the row, and its reconciled flag.
DeleteTx(t) ==
  /\ ledger[t].status = "AUTHORISED"
  /\ ledger' = [ledger EXCEPT ![t].status = "DELETED"]

\* The flag is set whatever it was before.
ReconcileTx(t, rec) ==
  /\ ledger[t].status = "AUTHORISED"
  /\ ledger' = [ledger EXCEPT ![t].reconciled = rec]
=============================================================================
