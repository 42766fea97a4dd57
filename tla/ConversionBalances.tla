------------------------- MODULE ConversionBalances -------------------------
(***************************************************************************)
(* The opening balances of one organisation and the one journal they are   *)
(* posted as: internal/repository/conversion_balance.go and                *)
(* internal/handlers/conversion_balance.go.                                *)
(*                                                                         *)
(* The handler reads the lock in a statement of its own.  Save is a        *)
(* transaction at READ COMMITTED whose first write locks the organisation; *)
(* each of its statements sees what is committed when it runs.             *)
(***************************************************************************)
EXTENDS Integers, Sequences, Functions

CONSTANTS
  Savers,       \* requests that save the balances
  Admins,       \* those of them sent by an administrator
  BalanceDates, \* conversion dates
  Screens,      \* what the screen's rows may hold: sequences of account and amount
  Accounts,     \* accounts of the chart
  Historical,   \* the account that carries the difference
  HasHistorical,\* BOOLEAN: the chart has that account
  NoAccount, NoDate

EnteredRow == [account : Accounts \cup {NoAccount}, amount : Int]

ASSUME ConversionAssumption ==
  /\ Admins \subseteq Savers
  /\ Historical \in Accounts /\ NoAccount \notin Accounts
  /\ HasHistorical \in BOOLEAN
  /\ NoDate \notin BalanceDates
  /\ Screens \subseteq Seq(EnteredRow)

VARIABLES
  org,          \* the organisation's conversion date and lock
  openings,     \* the conversion journals that are committed
  saver         \* what each request holds, and its next step

conversionVars == <<org, openings, saver>>

NotSaving == [at |-> "idle", date |-> NoDate, locked |-> FALSE, lines |-> << >>,
              deleted |-> {}, overtaken |-> FALSE]

ConversionInit ==
  /\ org = [date |-> NoDate, locked |-> FALSE]
  /\ openings = {}
  /\ saver = [r \in Savers |-> NotSaving]

\* Lines of a journal keep the numbers of their rows.
SumAmounts(lines) == FoldFunction(+, 0, [k \in DOMAIN lines |-> lines[k].amount])

\* conversionBalanceLines: empty rows are dropped, the difference is carried.
Kept(rows) == Restrict(rows, {k \in DOMAIN rows : rows[k].account # NoAccount /\ rows[k].amount # 0})

EnteredTwice(rows) ==
  \E i, j \in DOMAIN rows : i # j /\ rows[i].account = rows[j].account

ConversionLines(rows) ==
  LET kept == Kept(rows)
      sum  == SumAmounts(kept)
  IN IF sum = 0 THEN kept
     ELSE [k \in DOMAIN kept \cup {Len(rows) + 1} |->
             IF k \in DOMAIN kept THEN kept[k] ELSE [account |-> Historical, amount |-> -sum]]

CanCarry(rows) == SumAmounts(Kept(rows)) = 0 \/ HasHistorical

\* The organisation's row is locked from the first write of a save to its commit.
OrgFreeAlways(r) == TRUE      \* faulty: the journal is replaced before the row is locked

OrgFree(r) == \A q \in Savers : saver[q].at \notin {"delete", "insert"}

\* Update reads the lock; someone who is no administrator is turned away from a
\* locked conversion.
OpenScreen(r) ==
  /\ saver[r].at = "idle"
  /\ org.locked => r \in Admins
  /\ \E rows \in Screens, date \in BalanceDates, locked \in BOOLEAN :
       /\ ~EnteredTwice(Kept(rows))
       /\ CanCarry(rows)
       /\ saver' = [saver EXCEPT ![r] = [NotSaving EXCEPT
            !.at = "update", !.date = date, !.locked = locked, !.lines = ConversionLines(rows)]]
  /\ UNCHANGED <<org, openings>>

UpdateOrganisation(r) ==
  /\ saver[r].at = "update"
  /\ OrgFree(r)
  /\ saver' = [saver EXCEPT ![r].at = "delete"]
  /\ UNCHANGED <<org, openings>>

DeleteOpening(r) ==
  /\ saver[r].at = "delete"
  /\ saver' = [saver EXCEPT ![r].at = "insert", ![r].deleted = openings]
  /\ UNCHANGED <<org, openings>>

\* insertJournal writes none without lines, and the save commits.  The requests
\* that have read the lock before it are overtaken.
CommitSave(r) ==
  LET s == saver[r]
  IN /\ s.at = "insert"
     /\ org' = [date |-> s.date, locked |-> s.locked]
     /\ openings' = (openings \ s.deleted)
                    \cup IF s.lines = << >> THEN {}
                         ELSE {[by |-> r, date |-> s.date, lines |-> s.lines]}
     /\ saver' = [q \in Savers |->
                    IF q = r THEN NotSaving
                    ELSE [saver[q] EXCEPT !.overtaken = saver[q].at # "idle"]]

AbandonSave(r) ==
  /\ saver[r].at # "idle"
  /\ saver' = [saver EXCEPT ![r] = NotSaving]
  /\ UNCHANGED <<org, openings>>

ConversionNext ==
  \E r \in Savers : \/ OpenScreen(r) \/ UpdateOrganisation(r) \/ DeleteOpening(r)
                    \/ CommitSave(r) \/ AbandonSave(r)

ConversionSpec == ConversionInit /\ [][ConversionNext]_conversionVars

(***************************************************************************)
(* Properties                                                              *)
(***************************************************************************)
IsJournal(lines) == DOMAIN lines \subseteq Nat /\ \A k \in DOMAIN lines : lines[k] \in EnteredRow

ConversionTypeOK ==
  /\ org \in [date : BalanceDates \cup {NoDate}, locked : BOOLEAN]
  /\ \A o \in openings : o.by \in Savers /\ o.date \in BalanceDates /\ IsJournal(o.lines)
  /\ \A r \in Savers :
       /\ saver[r].at \in {"idle", "update", "delete", "insert"}
       /\ saver[r].date \in BalanceDates \cup {NoDate}
       /\ saver[r].locked \in BOOLEAN /\ saver[r].overtaken \in BOOLEAN
       /\ IsJournal(saver[r].lines)

\* "The screen and the ledger cannot disagree" (Save): however saves interleave,
\* there is one conversion journal at most, it balances, and it is dated as the
\* organisation's conversion.  A locked conversion is only replaced by an
\* administrator, or by a save that had read the lock before it was set.
OneConversionJournal ==
  /\ \A o \in openings : o.date = org.date /\ SumAmounts(o.lines) = 0
  /\ \A o, p \in openings : o = p
  /\ \A r \in Savers \ Admins : saver[r].at # "idle" /\ org.locked => saver[r].overtaken
=============================================================================
