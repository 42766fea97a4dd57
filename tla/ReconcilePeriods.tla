-------------------------- MODULE ReconcilePeriods --------------------------
(***************************************************************************)
(* The ranges of dates that users mark as reconciled on one bank account:  *)
(* CreatePeriod and DeletePeriod of internal/repository/bank_statement.go  *)
(* and internal/handlers/bank_statement.go.  The overlap is counted in one *)
(* statement and the period inserted in another; only two equal ranges are *)
(* refused by the table itself.                                            *)
(***************************************************************************)
EXTENDS Integers

CONSTANTS
  Periods,      \* row ids
  Lockers,      \* requests
  Days          \* days, as numbers

ASSUME PeriodsAssumption == Days \subseteq Int /\ Days # {}

VARIABLES
  period,       \* period rows
  locker        \* what each request holds, and its next step

periodVars == <<period, locker>>

Anyday == CHOOSE d \in Days : TRUE
NoRange == [start |-> Anyday, end |-> Anyday]

PeriodsInit ==
  /\ period = [p \in Periods |-> [kept |-> FALSE, range |-> NoRange, raced |-> FALSE]]
  /\ locker = [r \in Lockers |-> [at |-> "idle", range |-> NoRange, raced |-> FALSE]]

OverlapsInside(a, b) == a.start < b.end /\ a.end > b.start     \* faulty: shared ends do not count

Overlaps(a, b) == a.start <= b.end /\ a.end >= b.start

\* Another request is about to insert a range that overlaps this one.
Rivals(r, range) ==
  {q \in Lockers \ {r} : /\ locker[q].at = "insert"
                         /\ locker[q].range.start <= range.end
                         /\ locker[q].range.end >= range.start}

CountOverlaps(r, start, end) ==
  LET range == [start |-> start, end |-> end]
  IN /\ locker[r].at = "idle"
     /\ start <= end
     /\ \A p \in Periods : period[p].kept => ~Overlaps(period[p].range, range)
     /\ locker' = [q \in Lockers |->
          IF q = r THEN [at |-> "insert", range |-> range, raced |-> Rivals(r, range) # {}]
          ELSE IF q \in Rivals(r, range) THEN [locker[q] EXCEPT !.raced = TRUE]
          ELSE locker[q]]
     /\ UNCHANGED period

Unlock(r) == locker' = [locker EXCEPT ![r] = [at |-> "idle", range |-> NoRange, raced |-> FALSE]]

InsertPeriod(r, p) ==
  /\ locker[r].at = "insert"
  /\ ~period[p].kept
  /\ \A q \in Periods : period[q].kept => period[q].range # locker[r].range
  /\ period' = [period EXCEPT ![p] = [kept |-> TRUE, range |-> locker[r].range,
                                      raced |-> locker[r].raced]]
  /\ Unlock(r)

\* An equal range came first, or the request died.
InsertFails(r) ==
  /\ locker[r].at = "insert"
  /\ Unlock(r)
  /\ UNCHANGED period

DeletePeriod(p) ==
  /\ period[p].kept
  /\ period' = [period EXCEPT ![p] = [kept |-> FALSE, range |-> NoRange, raced |-> FALSE]]
  /\ UNCHANGED locker

PeriodsNext ==
  \/ \E r \in Lockers : \/ \E start, end \in Days : CountOverlaps(r, start, end)
                        \/ \E p \in Periods : InsertPeriod(r, p)
                        \/ InsertFails(r)
  \/ \E p \in Periods : DeletePeriod(p)

PeriodsSpec == PeriodsInit /\ [][PeriodsNext]_periodVars

(***************************************************************************)
(* Properties                                                              *)
(***************************************************************************)
DateRange == [start : Days, end : Days]

PeriodsTypeOK ==
  /\ period \in [Periods -> [kept : BOOLEAN, range : DateRange, raced : BOOLEAN]]
  /\ locker \in [Lockers -> [at : {"idle", "insert"}, range : DateRange, raced : BOOLEAN]]

\* Overlapping periods "would make the lock ambiguous" (CreatePeriod): two that are
\* kept overlap only if both were created at the same time.
PeriodsApart ==
  \A p, q \in Periods :
    p # q /\ period[p].kept /\ period[q].kept /\ ~(period[p].raced /\ period[q].raced) =>
      period[p].range.end < period[q].range.start \/ period[q].range.end < period[p].range.start
=============================================================================
