--------------------------- MODULE LedgerReports ---------------------------
(***************************************************************************)
(* The reports of internal/repository/report.go that are sums over the     *)
(* general ledger, and what handlers/report_render.go makes of them: the   *)
(* trial balance, profit and loss, the balance sheet, general ledger       *)
(* detail, the bank and the executive summary.                             *)
(*                                                                         *)
(* A report is an operator on the ledger: one statement reads it, or, for  *)
(* the executive summary, statements that are taken as one here.           *)
(* General ledger detail takes two statements, and journals are posted and *)
(* removed between them; it is a reader with a step for each.  Days are    *)
(* numbers, a day before all of them is Never, and years are YearLength    *)
(* days long, YearStart being the first day of one.  The type of an        *)
(* account is whatever text a client gave it.  Figures count a unit fine   *)
(* enough for all that is posted; the rows may keep coarser ones.          *)
(***************************************************************************)
EXTENDS Figures, Sequences

CONSTANTS
  ChartAccounts,  \* the organisation's accounts
  TypeOf,         \* the type of each
  JournalIds,     \* numbers, which order journals of a day as their uuids do
  Entries,        \* what is posted: sequences of lines
  ReportDays, YearLength, YearStart

AssetTypes     == {"BANK", "CURRENT", "FIXED", "PREPAYMENT", "INVENTORY", "NONCURRENT"}
LiabilityTypes == {"CURRLIAB", "LIABILITY", "TERMLIAB", "PAYGLIABILITY", "SUPERANNUATIONLIABILITY"}
IncomeTypes    == {"REVENUE", "SALES"}
OverheadTypes  == {"EXPENSE", "OVERHEADS", "DEPRECIATN", "WAGESEXPENSE"}
CostTypes      == {"DIRECTCOSTS"} \cup OverheadTypes
AccountTypes   == AssetTypes \cup LiabilityTypes \cup {"EQUITY"} \cup IncomeTypes \cup CostTypes

\* faulty: wages are not aggregated
PnlTypesNoWages == IncomeTypes \cup (CostTypes \ {"WAGESEXPENSE"})

\* pnlAccountTypes
PnlTypes == IncomeTypes \cup CostTypes

\* The accounts whose type is none of those the reports know: nothing checks it when
\* an account is made or changed.
Unclassed == {a \in ChartAccounts : TypeOf[a] \notin AccountTypes}

\* A line as its row keeps it, and what rounding took off it.
EntryLine == [account : ChartAccounts, net : Int, tax : Int, lost : Int]

ASSUME ReportsAssumption ==
  /\ IsFiniteSet(ChartAccounts) /\ Entries \subseteq Seq(EntryLine)
  /\ DOMAIN TypeOf = ChartAccounts
  /\ JournalIds \subseteq Nat /\ ReportDays \subseteq Nat \ {0}
  /\ YearLength \in Nat \ {0} /\ YearStart \in Int

Never    == -YearLength
NoPeriod == [from |-> Never, to |-> Never]
DayBefore(d) == d - 1

VARIABLES
  journals,   \* gl_journals and their lines
  reader      \* a GeneralLedgerDetail request

reportVars == <<journals, reader>>

OfType(types) == {a \in ChartAccounts : TypeOf[a] \in types}
Later(d, e) == IF d < e THEN e ELSE d

(***************************************************************************)
(* Sums over a ledger.                                                     *)
(***************************************************************************)
SumLines(lines, a, Counted(_)) ==
  Total(DOMAIN lines,
        [n \in DOMAIN lines |-> IF lines[n].account = a THEN Counted(lines[n].net) ELSE 0])

SumJournalsWithin(js, a, from, to, Counted(_)) ==
  Total({k \in DOMAIN js : js[k].date \in from .. to},
        [k \in DOMAIN js |-> SumLines(js[k].lines, a, Counted)])

Net(js, a, from, to)     == SumJournalsWithin(js, a, from, to, LAMBDA n : n)
Debits(js, a, from, to)  == SumJournalsWithin(js, a, from, to, LAMBDA n : IF n > 0 THEN n ELSE 0)
Credits(js, a, from, to) == SumJournalsWithin(js, a, from, to, LAMBDA n : IF n < 0 THEN -n ELSE 0)
Balance(js, a, d)        == Net(js, a, Never, d)

LostOf(lines) == Total(DOMAIN lines, [n \in DOMAIN lines |-> lines[n].lost])

\* What rounding took off the lines of a window.
Lost(js, from, to) ==
  Total({k \in DOMAIN js : js[k].date \in from .. to}, [k \in DOMAIN js |-> LostOf(js[k].lines)])

\* periodLines: the lines a report scans are those up to its cutoff.
PeriodLines(js, cutoff) ==
  [k \in {x \in DOMAIN js : js[x].date <= cutoff} |-> js[k]]

\* The first day of the financial year that a day is in.
FinancialYearStart(d) == d - ((d - YearStart) % YearLength)

(***************************************************************************)
(* The trial balance.                                                      *)
(***************************************************************************)
SplitSigned(net) == IF net < 0 THEN [debit |-> 0, credit |-> -net] ELSE [debit |-> net, credit |-> 0]

TrialBalance(js, from, to) ==
  LET scanned == PeriodLines(js, to) IN
    [a \in ChartAccounts |->
      [period  |-> SplitSigned(Net(scanned, a, from, to)),
       ytd     |-> SplitSigned(Net(scanned, a, FinancialYearStart(to), to)),
       closing |-> Balance(scanned, a, to)]]

\* trialBalanceMeasure: the year's movement of an account of the profit and loss,
\* the balance of any other.
TrialBalanceMeasure(a, row) ==
  IF TypeOf[a] \in PnlTypes THEN row.ytd ELSE SplitSigned(row.closing)

TrialBalanceSections ==
  {IncomeTypes, {"DIRECTCOSTS"}, OverheadTypes, AssetTypes, LiabilityTypes, {"EQUITY"}}

\* renderTrialBalance: the accounts of each section that have something to show,
\* and after them, under their own types, those that no section took.
RenderTrialBalance(rows) ==
  LET zero == SplitSigned(0)
      shown == {a \in ChartAccounts :
                  \/ rows[a].period # zero \/ TrialBalanceMeasure(a, rows[a]) # zero
                  \/ rows[a].closing # 0}
      sections == [s \in TrialBalanceSections |-> shown \cap OfType(s)]
      leftover == shown \ UNION {sections[s] : s \in TrialBalanceSections}
      sum(f) == Total(TrialBalanceSections, [s \in TrialBalanceSections |-> Total(sections[s], f)])
                + Total(leftover, f)
  IN  [times     |-> [a \in ChartAccounts |->
                       Cardinality({s \in TrialBalanceSections : a \in sections[s]})
                       + (IF a \in leftover THEN 1 ELSE 0)],
       debit     |-> sum([a \in ChartAccounts |-> rows[a].period.debit]),
       credit    |-> sum([a \in ChartAccounts |-> rows[a].period.credit]),
       ytdDebit  |-> sum([a \in ChartAccounts |-> TrialBalanceMeasure(a, rows[a]).debit]),
       ytdCredit |-> sum([a \in ChartAccounts |-> TrialBalanceMeasure(a, rows[a]).credit])]

(***************************************************************************)
(* Profit and loss, the balance sheet, and the two summaries.              *)
(***************************************************************************)
ProfitColumn(js, p) ==
  LET sum(types) == Total(OfType(types \cap PnlTypes), [a \in ChartAccounts |-> Net(js, a, p.from, p.to)])
      income == -sum(IncomeTypes)
      costOfSales == sum({"DIRECTCOSTS"})
      expenses == sum(OverheadTypes)
  IN  [income |-> income, costOfSales |-> costOfSales, expenses |-> expenses,
       gross |-> income - costOfSales, net |-> income - costOfSales - expenses]

\* One scan, up to the later end, feeds both columns.
ProfitAndLoss(js, p, cmp) ==
  LET scanned == PeriodLines(js, Later(p.to, cmp.to)) IN
    [this |-> ProfitColumn(scanned, p), that |-> ProfitColumn(scanned, cmp)]

SheetColumn(js, d) ==
  LET sum(types) == Total(OfType(types), [a \in ChartAccounts |-> Balance(js, a, d)])
      retained == -sum(IncomeTypes \cup CostTypes)
  IN  [assets |-> sum(AssetTypes), liabilities |-> -sum(LiabilityTypes),
       retained |-> retained, equity |-> retained - sum({"EQUITY"})]

BalanceSheet(js, asOf, cmp) ==
  LET scanned == PeriodLines(js, Later(asOf, cmp)) IN
    [this |-> SheetColumn(scanned, asOf), that |-> SheetColumn(scanned, cmp)]

\* The window the handlers compare with when a client asks for compare=true.
ComparativePeriod(p) == [from |-> p.from - YearLength, to |-> p.to - YearLength]

\* A window a client asks for by name may as well lie after the report's own.
FollowingPeriod(p) == [from |-> p.to + 1, to |-> p.to + 1]

\* What the renderer of the balance sheet adds to it.
NetAssets(sheet) == sheet.assets - sheet.liabilities

BankSummaryRow(js, a, from, to) ==
  LET scanned == PeriodLines(js, to) IN
    [opening  |-> Balance(scanned, a, DayBefore(from)),
     received |-> Debits(scanned, a, from, to),
     spent    |-> Credits(scanned, a, from, to),
     closing  |-> Balance(scanned, a, to)]

\* The total row.
BankSummary(js, from, to) ==
  [figure \in {"opening", "received", "spent", "closing"} |->
    Total(OfType({"BANK"}), [a \in ChartAccounts |-> BankSummaryRow(js, a, from, to)[figure]])]

ExecutiveSummary(js, from, to) ==
  LET pnl   == ProfitAndLoss(js, [from |-> from, to |-> to], NoPeriod).this
      sheet == BalanceSheet(js, to, Never).this
      bank  == BankSummary(js, from, to)
  IN  [netProfit |-> pnl.net, surplus |-> bank.received - bank.spent,
       bank |-> bank.closing, netAssets |-> NetAssets(sheet)]

(***************************************************************************)
(* General ledger detail.                                                  *)
(***************************************************************************)
\* The first statement: what each account moved and where it closed.
AccountGroups(js, from, to) ==
  LET scanned == PeriodLines(js, to) IN
    [a \in ChartAccounts |-> [debit   |-> Debits(scanned, a, from, to),
                              credit  |-> Credits(scanned, a, from, to),
                              closing |-> Balance(scanned, a, to)]]

\* journalFeed: an account's lines by day, journal and line.
JournalFeed(js, a, from, to) ==
  LET day(row)   == js[row[1]].date
      lineOf(row) == js[row[1]].lines[row[2]]
      before(p, q) ==
        \/ day(p) < day(q)
        \/ day(p) = day(q) /\ p[1] < q[1]
        \/ p[1] = q[1] /\ p[2] < q[2]
      rows == {row \in UNION {{k} \X DOMAIN js[k].lines : k \in DOMAIN js} :
                 day(row) \in from .. to /\ lineOf(row).account = a}
      order == InOrder(rows, [q \in rows |-> {p \in rows : before(p, q)}])
  IN  [n \in DOMAIN order |-> [date |-> day(order[n]), net |-> lineOf(order[n]).net]]

\* The balance after each line of a feed.
Running(opening, feed) ==
  [n \in DOMAIN feed |->
    [date |-> feed[n].date,
     balance |-> opening + Total(1 .. n, [m \in DOMAIN feed |-> feed[m].net])]]

\* faulty: a group opens at its net movement before the window's credits
DetailCreditsTwice(group, feed) ==
  LET opening == group.closing - group.debit - group.credit IN
    [opening |-> opening, closing |-> group.closing, lines |-> Running(opening, feed)]

\* An account's block: the opening balance is worked back from the closing one,
\* and each line carries the balance after it.
Detail(group, feed) ==
  LET opening == group.closing - group.debit + group.credit IN
    [opening |-> opening, closing |-> group.closing, lines |-> Running(opening, feed)]

Resting == [at |-> "resting"]

ReportsInit == journals = << >> /\ reader = Resting

\* History: a journal within the window came or went between the two statements.
Unsettle(day) ==
  reader' = IF reader.at = "groups" /\ day \in reader.from .. reader.to
            THEN [reader EXCEPT !.moved = TRUE] ELSE reader

\* insertJournal adds up the lines before they are rounded to be stored.
PostJournal(k, lines, day) ==
  /\ k \notin DOMAIN journals
  /\ Total(DOMAIN lines, [n \in DOMAIN lines |-> lines[n].net + lines[n].lost]) = 0
  /\ journals' = [x \in DOMAIN journals \cup {k} |->
                   IF x = k THEN [date |-> day, lines |-> lines] ELSE journals[x]]
  /\ Unsettle(day)

RemoveJournal(k) ==
  /\ k \in DOMAIN journals
  /\ journals' = [x \in DOMAIN journals \ {k} |-> journals[x]]
  /\ Unsettle(journals[k].date)

ReadGroups(from, to) ==
  /\ reader.at = "resting"
  /\ reader' = [at |-> "groups", from |-> from, to |-> to, moved |-> FALSE,
                groups |-> AccountGroups(journals, from, to), read |-> journals]
  /\ UNCHANGED journals

ReadLines ==
  /\ reader.at = "groups"
  /\ reader' = [reader EXCEPT
       !.at = "printed",
       !.groups = [a \in ChartAccounts |->
         Detail(@[a], JournalFeed(journals, a, reader.from, reader.to))]]
  /\ UNCHANGED journals

Answer ==
  /\ reader.at = "printed"
  /\ reader' = Resting
  /\ UNCHANGED journals

ReportsNext ==
  \/ \E k \in JournalIds, lines \in Entries, day \in ReportDays : PostJournal(k, lines, day)
  \/ \E k \in JournalIds : RemoveJournal(k)
  \/ \E from, to \in ReportDays : from <= to /\ ReadGroups(from, to)
  \/ ReadLines
  \/ Answer

ReportsSpec == ReportsInit /\ [][ReportsNext]_reportVars

(***************************************************************************)
(* Properties.                                                             *)
(***************************************************************************)
Windows == {[from |-> f, to |-> t] : f, t \in ReportDays}
Forward == {w \in Windows : w.from <= w.to}

\* What the accounts of types that the reports do not know carry on a day.
Dropped(js, d) == Total(Unclassed, [a \in ChartAccounts |-> Balance(js, a, d)])

\* The trial balance's period columns differ by what rounding took off the lines, every
\* account with a balance, of a known type or not, is printed once, and the year-to-date
\* columns differ by the profit of past years, which no account carries, and rounding.
TrialBalanceFoots(w) ==
  LET rows == TrialBalance(journals, w.from, w.to)
      printed == RenderTrialBalance(rows)
      newYear == FinancialYearStart(w.to)
  IN  /\ printed.debit - printed.credit = -Lost(journals, w.from, w.to)
      /\ \A a \in ChartAccounts : rows[a].closing # 0 => printed.times[a] = 1
      /\ printed.ytdDebit - printed.ytdCredit
         = BalanceSheet(journals, DayBefore(newYear), Never).this.retained
           - Lost(journals, Never, w.to)

\* What is missing from a balance sheet: the accounts it has no section for, and what
\* rounding took off the lines.
SheetGap(d) == Dropped(journals, d) + Lost(journals, Never, d)

\* The net assets of a balance sheet differ from its equity by exactly the accounts of
\* unknown types and the rounding, and either column is the sheet of its own date,
\* whichever is the later.
SheetBalances(w) ==
  LET sheet == BalanceSheet(journals, w.from, w.to) IN
    /\ NetAssets(sheet.this) = sheet.this.equity - SheetGap(w.from)
    /\ sheet.that = SheetColumn(journals, w.to)

\* What the profit and loss says was earned is what the balance sheet retains of
\* the window; the column for another window, earlier or later, is the report of it.
ProfitIsRetained(w) ==
  LET earned(p, cmp) == ProfitAndLoss(journals, p, cmp)
      sheet == BalanceSheet(journals, w.to, DayBefore(w.from))
  IN  /\ earned(w, NoPeriod).this.net = sheet.this.retained - sheet.that.retained
      /\ \A v \in {ComparativePeriod(w), FollowingPeriod(w)} :
           earned(w, v).that = earned(v, NoPeriod).this

\* The bank summary leads from its opening to its closing balance, and the executive
\* summary shows the same money.
BankSummaryLeads(w) ==
  LET bank == BankSummary(journals, w.from, w.to)
      summary == ExecutiveSummary(journals, w.from, w.to)
  IN  /\ bank.opening + bank.received - bank.spent = bank.closing
      /\ summary.surplus = bank.closing - bank.opening
      /\ summary.netAssets = BalanceSheet(journals, w.to, Never).this.equity - SheetGap(w.to)

\* The five statements agree with each other, whatever was posted to accounts of
\* whatever type and whatever window each is asked for, but for two things that are said
\* exactly: the trial balance shows accounts of unknown types, which the balance sheet
\* and the profit and loss drop, and lines are rounded after they were seen to balance.
StatementsAgree ==
  reader.at = "resting" /\ journals # << >> =>
    \A w \in Forward : TrialBalanceFoots(w) /\ SheetBalances(w) /\ ProfitIsRetained(w) /\ BankSummaryLeads(w)

\* General ledger detail: the balance printed after the last line of each day is the
\* account's balance on that day, and after the last line it is the closing balance,
\* unless a journal of the window came or went between the two statements.
LedgerDetailFoots ==
  reader.at = "printed" /\ ~reader.moved =>
    \A a \in ChartAccounts :
      LET lines == reader.groups[a].lines IN
        /\ reader.groups[a].opening = Balance(reader.read, a, DayBefore(reader.from))
        /\ \A n \in DOMAIN lines :
             n = Len(lines) \/ lines[n + 1].date > lines[n].date =>
               lines[n].balance = Balance(reader.read, a, lines[n].date)
        /\ lines # << >> => lines[Len(lines)].balance = reader.groups[a].closing
=============================================================================
