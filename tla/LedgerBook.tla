----------------------------- MODULE LedgerBook -----------------------------
(***************************************************************************)
(* What the general ledger promises about the documents that post to it:   *)
(* each has one journal at most, of those the ledger takes.  Those of the  *)
(* documents in Fixed are never rewritten, and a document that is closed   *)
(* leaves the ledger for good.                                             *)
(***************************************************************************)
EXTENDS Sequences

CONSTANTS
  Documents,
  Fixed,        \* entered once: not rewritten, only taken back
  Postable      \* the journals the ledger takes

VARIABLES
  entry,        \* the journal of each document, or none
  closed        \* the documents that are closed

book == <<entry, closed>>

Init ==
  /\ entry = [d \in Documents |-> << >>]
  /\ closed = {}

IsEntry(s) == Len(s) = 1 /\ s[1] \in Postable

\* Only the documents in S change; what they become is said elsewhere.
OnlyChange(S) == entry' = [d \in Documents |-> IF d \in S THEN entry'[d] ELSE entry[d]]

\* Documents that are approved together come in together.
Enter(S) ==
  /\ \A d \in S : d \notin closed /\ entry[d] = << >> /\ IsEntry(entry'[d])
  /\ OnlyChange(S)
  /\ UNCHANGED closed

\* A document is edited, or withdrawn until it is approved again.
Amend(d) ==
  /\ d \notin Fixed \cup closed
  /\ entry'[d] = << >> \/ IsEntry(entry'[d])
  /\ OnlyChange({d})
  /\ UNCHANGED closed

Close(d) ==
  /\ d \notin closed
  /\ entry' = [entry EXCEPT ![d] = << >>]
  /\ closed' = closed \cup {d}

Next ==
  \/ \E S \in SUBSET Documents : Enter(S)
  \/ \E d \in Documents : Amend(d) \/ Close(d)

Spec == Init /\ [][Next]_book
=============================================================================
