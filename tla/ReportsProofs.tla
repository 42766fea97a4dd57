--------------------------- MODULE ReportsProofs ----------------------------
(***************************************************************************)
(* The reports over the general ledger, the Form 1120 workpaper, the aged  *)
(* reports and the cash summary, for any chart of accounts, any journals   *)
(* that balance before they are rounded, any invoices and documents and    *)
(* any windows.                                                            *)
(***************************************************************************)
EXTENDS Form1120, AgedReports, CashSummary, SumProofs, SequenceTheorems

LEMMA TotalIsSum == ASSUME NEW S, NEW f PROVE Total(S, f) = SumUp(S, f)
BY FoldIsSum DEF Total

(***************************************************************************)
(* What posting leaves: a finite number of journals with lines on accounts *)
(* of the chart, each of which sums to zero but for what rounding took off *)
(* its lines.                                                              *)
(***************************************************************************)
JournalRow == [date : ReportDays, lines : Seq(EntryLine)]
Nets(lines) == [n \in DOMAIN lines |-> lines[n].net]

Losts(lines) == [n \in DOMAIN lines |-> lines[n].lost]

Ledger(js) ==
  /\ IsFiniteSet(DOMAIN js)
  /\ \A k \in DOMAIN js : js[k] \in JournalRow

AddsUp(js) ==
  \A k \in DOMAIN js :
    SumUp(DOMAIN js[k].lines, Nets(js[k].lines)) = -SumUp(DOMAIN js[k].lines, Losts(js[k].lines))

\* What a journal's lines move on an account: all, to the debit, to the credit.
Moved(lines, a) == [n \in DOMAIN lines |-> IF lines[n].account = a THEN lines[n].net ELSE 0]
Up(n) == IF n > 0 THEN n ELSE 0
Down(n) == IF n < 0 THEN -n ELSE 0
MovedUp(lines, a) == [n \in DOMAIN lines |-> IF lines[n].account = a THEN Up(lines[n].net) ELSE 0]
MovedDown(lines, a) == [n \in DOMAIN lines |-> IF lines[n].account = a THEN Down(lines[n].net) ELSE 0]

Moves(js, a) == [k \in DOMAIN js |-> SumUp(DOMAIN js[k].lines, Moved(js[k].lines, a))]
Ups(js, a)   == [k \in DOMAIN js |-> SumUp(DOMAIN js[k].lines, MovedUp(js[k].lines, a))]
Downs(js, a) == [k \in DOMAIN js |-> SumUp(DOMAIN js[k].lines, MovedDown(js[k].lines, a))]

Within(js, from, to) == {k \in DOMAIN js : js[k].date \in from .. to}

\* The figures of the reports are these sums.
LEMMA FiguresAreSums ==
  ASSUME NEW js, NEW a, NEW from, NEW to
  PROVE  /\ Net(js, a, from, to) = SumUp(Within(js, from, to), Moves(js, a))
         /\ Debits(js, a, from, to) = SumUp(Within(js, from, to), Ups(js, a))
         /\ Credits(js, a, from, to) = SumUp(Within(js, from, to), Downs(js, a))
<1>1. Net(js, a, from, to) = SumUp(Within(js, from, to), Moves(js, a))
  <2>1. Net(js, a, from, to) = Total(Within(js, from, to),
          [k \in DOMAIN js |-> Total(DOMAIN js[k].lines, Moved(js[k].lines, a))])
    BY DEF Net, SumJournalsWithin, SumLines, Within, Moved
  <2>. QED BY <2>1, TotalIsSum DEF Moves
<1>2. Debits(js, a, from, to) = SumUp(Within(js, from, to), Ups(js, a))
  <2>1. Debits(js, a, from, to) = Total(Within(js, from, to),
          [k \in DOMAIN js |-> Total(DOMAIN js[k].lines, MovedUp(js[k].lines, a))])
    BY DEF Debits, SumJournalsWithin, SumLines, Within, MovedUp, Up
  <2>. QED BY <2>1, TotalIsSum DEF Ups
<1>3. Credits(js, a, from, to) = SumUp(Within(js, from, to), Downs(js, a))
  <2>1. Credits(js, a, from, to) = Total(Within(js, from, to),
          [k \in DOMAIN js |-> Total(DOMAIN js[k].lines, MovedDown(js[k].lines, a))])
    BY DEF Credits, SumJournalsWithin, SumLines, Within, MovedDown, Down
  <2>. QED BY <2>1, TotalIsSum DEF Downs
<1>. QED BY <1>1, <1>2, <1>3

LEMMA LinesOf ==
  ASSUME NEW js, Ledger(js), NEW k \in DOMAIN js
  PROVE  /\ js[k].date \in Int /\ js[k].date > Never
         /\ IsFiniteSet(DOMAIN js[k].lines)
         /\ \A n \in DOMAIN js[k].lines :
              /\ js[k].lines[n].account \in ChartAccounts
              /\ js[k].lines[n].net \in Int /\ js[k].lines[n].lost \in Int
         /\ SumUp(DOMAIN js[k].lines, Losts(js[k].lines)) \in Int
<1>1. js[k].date \in ReportDays /\ js[k].lines \in Seq(EntryLine)
  BY DEF Ledger, JournalRow
<1>2. js[k].date \in Int /\ js[k].date > Never
  <2>1. PICK day : day = js[k].date
    OBVIOUS
  <2>2. day \in Nat /\ day # 0 /\ YearLength \in Nat /\ YearLength # 0
    BY <1>1, <2>1, ReportsAssumption
  <2>. QED BY <2>1, <2>2 DEF Never
<1>3. PICK lines \in Seq(EntryLine) : lines = js[k].lines
  BY <1>1
<1>4. IsFiniteSet(DOMAIN lines)
  BY FS_Interval
<1>5. ASSUME NEW n \in DOMAIN lines
      PROVE  lines[n].account \in ChartAccounts /\ lines[n].net \in Int /\ lines[n].lost \in Int
  <2>1. lines[n] \in EntryLine
    OBVIOUS
  <2>. QED BY <2>1 DEF EntryLine
<1>6. SumUp(DOMAIN lines, Losts(lines)) \in Int
  <2>. DEFINE f == Losts(lines)
  <2>1. \A n \in DOMAIN lines : f[n] \in Int
    BY <1>5 DEF Losts
  <2>. HIDE DEF f
  <2>2. SumUp(DOMAIN lines, f) \in Int
    BY <1>4, <2>1, SumIsInt
  <2>. QED BY <2>2 DEF f
<1>. QED BY <1>2, <1>3, <1>4, <1>5, <1>6

LEMMA MovesAreIntegers ==
  ASSUME NEW js, Ledger(js), NEW a, NEW k \in DOMAIN js
  PROVE  /\ Moves(js, a)[k] \in Int /\ Ups(js, a)[k] \in Int /\ Downs(js, a)[k] \in Int
         /\ Ups(js, a)[k] = Moves(js, a)[k] + Downs(js, a)[k]
<1>1. PICK lines : lines = js[k].lines
  OBVIOUS
<1>2. IsFiniteSet(DOMAIN lines) /\ \A n \in DOMAIN lines : lines[n].net \in Int
  BY <1>1, LinesOf
<1>. DEFINE f == Moved(lines, a)
            g == MovedUp(lines, a)
            h == MovedDown(lines, a)
<1>3. \A n \in DOMAIN lines : f[n] \in Int /\ g[n] \in Int /\ h[n] \in Int /\ g[n] = f[n] + h[n]
  BY <1>2 DEF Moved, MovedUp, MovedDown, Up, Down
<1>4. /\ Moves(js, a)[k] = SumUp(DOMAIN lines, f)
      /\ Ups(js, a)[k] = SumUp(DOMAIN lines, g)
      /\ Downs(js, a)[k] = SumUp(DOMAIN lines, h)
  BY <1>1 DEF Moves, Ups, Downs
<1>. HIDE DEF f, g, h
<1>5. SumUp(DOMAIN lines, f) \in Int /\ SumUp(DOMAIN lines, g) \in Int /\ SumUp(DOMAIN lines, h) \in Int
  BY <1>2, <1>3, SumIsInt
<1>6. SumUp(DOMAIN lines, g) = SumUp(DOMAIN lines, f) + SumUp(DOMAIN lines, h)
  BY <1>2, <1>3, SumOfSums
<1>. QED BY <1>4, <1>5, <1>6

\* An account moves by its debits less its credits.
LEMMA NetOfSides ==
  ASSUME NEW js, Ledger(js), NEW a, NEW from, NEW to
  PROVE  /\ Net(js, a, from, to) \in Int
         /\ Debits(js, a, from, to) \in Int /\ Credits(js, a, from, to) \in Int
         /\ Debits(js, a, from, to) = Net(js, a, from, to) + Credits(js, a, from, to)
<1>. DEFINE S == Within(js, from, to)
            f == Moves(js, a)
            g == Ups(js, a)
            h == Downs(js, a)
<1>1. IsFiniteSet(S) /\ S \subseteq DOMAIN js
  BY FS_Subset DEF Within, Ledger
<1>2. \A k \in S : f[k] \in Int /\ g[k] \in Int /\ h[k] \in Int /\ g[k] = f[k] + h[k]
  BY <1>1, MovesAreIntegers
<1>. HIDE DEF S, f, g, h
<1>3. SumUp(S, f) \in Int /\ SumUp(S, g) \in Int /\ SumUp(S, h) \in Int
  BY <1>1, <1>2, SumIsInt
<1>4. SumUp(S, g) = SumUp(S, f) + SumUp(S, h)
  BY <1>1, <1>2, SumOfSums
<1>. QED BY <1>3, <1>4, FiguresAreSums DEF S, f, g, h

\* Two windows that meet.
LEMMA NetSplits ==
  ASSUME NEW js, Ledger(js), NEW a, NEW from \in Int, NEW day \in Int, NEW to \in Int,
         from <= day + 1, day <= to
  PROVE  Net(js, a, from, to) = Net(js, a, from, day) + Net(js, a, day + 1, to)
<1>. DEFINE S == Within(js, from, day)
            T == Within(js, day + 1, to)
            f == Moves(js, a)
<1>1. Within(js, from, to) = S \cup T /\ S \cap T = {}
  BY LinesOf DEF Within
<1>2. IsFiniteSet(S) /\ IsFiniteSet(T) /\ S \subseteq DOMAIN js /\ T \subseteq DOMAIN js
  BY FS_Subset DEF Within, Ledger
<1>3. \A k \in S \cup T : f[k] \in Int
  BY <1>2, MovesAreIntegers
<1>4. /\ Net(js, a, from, to) = SumUp(S \cup T, f)
      /\ Net(js, a, from, day) = SumUp(S, f)
      /\ Net(js, a, day + 1, to) = SumUp(T, f)
  BY <1>1, FiguresAreSums
<1>. HIDE DEF S, T, f
<1>5. SumUp(S \cup T, f) = SumUp(S, f) + SumUp(T, f)
  BY <1>1, <1>2, <1>3, SumOfUnion
<1>. QED BY <1>4, <1>5

\* A report reads the same figures from the lines up to its cutoff.
LEMMA ScanIsEnough ==
  ASSUME NEW js, Ledger(js), NEW cutoff \in Int
  PROVE  /\ Ledger(PeriodLines(js, cutoff))
         /\ \A a, from : \A to \in Int : to <= cutoff =>
              /\ Net(PeriodLines(js, cutoff), a, from, to) = Net(js, a, from, to)
              /\ Debits(PeriodLines(js, cutoff), a, from, to) = Debits(js, a, from, to)
              /\ Credits(PeriodLines(js, cutoff), a, from, to) = Credits(js, a, from, to)
<1>1. PICK ks : ks = PeriodLines(js, cutoff)
  OBVIOUS
<1>2. /\ DOMAIN ks = {k \in DOMAIN js : js[k].date <= cutoff}
      /\ \A k \in DOMAIN ks : ks[k] = js[k]
  BY <1>1 DEF PeriodLines
<1>3. IsFiniteSet(DOMAIN ks)
  BY <1>2, FS_Subset DEF Ledger
<1>4. Ledger(ks)
  BY <1>2, <1>3 DEF Ledger
<1>5. ASSUME NEW a, NEW from, NEW to \in Int, to <= cutoff
      PROVE  /\ Net(ks, a, from, to) = Net(js, a, from, to)
             /\ Debits(ks, a, from, to) = Debits(js, a, from, to)
             /\ Credits(ks, a, from, to) = Credits(js, a, from, to)
  <2>1. Within(ks, from, to) = Within(js, from, to)
    <3>1. \A k \in DOMAIN js : js[k].date \in from .. to => js[k].date <= cutoff
      BY <1>5, LinesOf
    <3>. QED BY <1>2, <3>1 DEF Within
  <2>. DEFINE S == Within(js, from, to)
  <2>2. IsFiniteSet(S) /\ S \subseteq DOMAIN ks /\ S \subseteq DOMAIN js
    BY <1>3, <2>1, FS_Subset DEF Within
  <2>3. \A k \in S : /\ Moves(ks, a)[k] = Moves(js, a)[k]
                     /\ Ups(ks, a)[k] = Ups(js, a)[k]
                     /\ Downs(ks, a)[k] = Downs(js, a)[k]
    BY <1>2, <2>2 DEF Moves, Ups, Downs
  <2>. HIDE DEF S
  <2>4. /\ SumUp(S, Moves(ks, a)) = SumUp(S, Moves(js, a))
        /\ SumUp(S, Ups(ks, a)) = SumUp(S, Ups(js, a))
        /\ SumUp(S, Downs(ks, a)) = SumUp(S, Downs(js, a))
    BY <2>2, <2>3, SumSame
  <2>. QED BY <2>1, <2>4, FiguresAreSums DEF S
<1>. QED BY <1>1, <1>4, <1>5

\* Over the whole chart, a window moves by nothing but what rounding took off its lines.
LEMMA LedgerBalances ==
  ASSUME NEW js, Ledger(js), AddsUp(js), NEW from, NEW to, NEW f,
         \A a \in ChartAccounts : f[a] = Net(js, a, from, to)
  PROVE  Lost(js, from, to) \in Int /\ SumUp(ChartAccounts, f) = -Lost(js, from, to)
<1>1. IsFiniteSet(ChartAccounts)
  BY ReportsAssumption
<1>2. ASSUME NEW k \in DOMAIN js, NEW g, \A a \in ChartAccounts : g[a] = Moves(js, a)[k]
      PROVE  SumUp(ChartAccounts, g) = -SumUp(DOMAIN js[k].lines, Losts(js[k].lines))
  <2>1. PICK lines : lines = js[k].lines
    OBVIOUS
  <2>2. /\ IsFiniteSet(DOMAIN lines)
        /\ \A n \in DOMAIN lines : lines[n].account \in ChartAccounts /\ lines[n].net \in Int
        /\ SumUp(DOMAIN lines, Nets(lines)) = -SumUp(DOMAIN lines, Losts(lines))
    BY <2>1, LinesOf DEF AddsUp
  <2>. DEFINE F == [a \in ChartAccounts |-> Moved(lines, a)]
              G == [n \in DOMAIN lines |->
                     [a \in ChartAccounts |-> IF lines[n].account = a THEN lines[n].net ELSE 0]]
  <2>3. \A a \in ChartAccounts, n \in DOMAIN lines : F[a][n] \in Int /\ G[n][a] = F[a][n]
    BY <2>2 DEF Moved
  <2>4. \A a \in ChartAccounts : g[a] = SumUp(DOMAIN lines, F[a])
    BY <1>2, <2>1 DEF Moves
  <2>5. ASSUME NEW n \in DOMAIN lines PROVE Nets(lines)[n] = SumUp(ChartAccounts, G[n])
    <3>1. PICK c \in ChartAccounts : c = lines[n].account
      BY <2>2
    <3>. DEFINE h == G[n]
    <3>2. /\ \A a \in ChartAccounts : h[a] \in Int
          /\ \A a \in ChartAccounts \ {c} : h[a] = 0
          /\ h[c] = lines[n].net
      BY <2>2, <3>1
    <3>. HIDE DEF h
    <3>3. SumUp(ChartAccounts, h) = SumUp({c}, h)
      BY <1>1, <3>2, SumWithin
    <3>4. SumUp({c}, h) = h[c]
      BY <3>2, SumOfOne
    <3>. QED BY <3>2, <3>3, <3>4 DEF h, Nets
  <2>. DEFINE T == DOMAIN lines
              column == Nets(lines)
  <2>6. IsFiniteSet(T) /\ \A n \in T : column[n] = SumUp(ChartAccounts, G[n])
    BY <2>2, <2>5
  <2>. HIDE DEF F, G, T, column
  <2>7. IsTable(ChartAccounts, T, F, G, g, column)
    BY <1>1, <2>3, <2>4, <2>6 DEF T, IsTable
  <2>8. SumUp(ChartAccounts, g) = SumUp(T, column)
    BY <2>7, SumsExchange
  <2>. QED BY <2>1, <2>2, <2>8 DEF T, column
<1>. DEFINE S == Within(js, from, to)
            lost == [k \in DOMAIN js |-> SumUp(DOMAIN js[k].lines, Losts(js[k].lines))]
            F == [a \in ChartAccounts |-> Moves(js, a)]
            G == [k \in S |-> [a \in ChartAccounts |-> Moves(js, a)[k]]]
            column == [k \in S |-> SumUp(ChartAccounts, G[k])]
<1>3. IsFiniteSet(S) /\ S \subseteq DOMAIN js
  BY FS_Subset DEF Within, Ledger
<1>4. \A a \in ChartAccounts, k \in S : F[a][k] \in Int /\ G[k][a] = F[a][k]
  <2>. HIDE DEF S
  <2>. QED BY <1>3, MovesAreIntegers
<1>5. \A a \in ChartAccounts : f[a] = SumUp(S, F[a])
  BY FiguresAreSums
<1>6. \A k \in S : column[k] = SumUp(ChartAccounts, G[k]) /\ lost[k] \in Int /\ column[k] = -lost[k]
  <2>1. ASSUME NEW k \in S
        PROVE  column[k] = SumUp(ChartAccounts, G[k]) /\ lost[k] \in Int /\ column[k] = -lost[k]
    <3>1. k \in DOMAIN js /\ column[k] = SumUp(ChartAccounts, G[k])
      BY <1>3
    <3>2. lost[k] = SumUp(DOMAIN js[k].lines, Losts(js[k].lines)) /\ lost[k] \in Int
      BY <3>1, LinesOf
    <3>3. \A a \in ChartAccounts : G[k][a] = Moves(js, a)[k]
      OBVIOUS
    <3>. HIDE DEF G, column, lost, S
    <3>4. SumUp(ChartAccounts, G[k]) = -SumUp(DOMAIN js[k].lines, Losts(js[k].lines))
      BY <1>2, <3>1, <3>3
    <3>. QED BY <3>1, <3>2, <3>4
  <2>. QED BY <2>1
<1>9. Lost(js, from, to) = SumUp(S, lost)
  <2>1. \A k : LostOf(js[k].lines) = SumUp(DOMAIN js[k].lines, Losts(js[k].lines))
    BY TotalIsSum DEF LostOf, Losts
  <2>. QED BY <2>1, TotalIsSum DEF Lost, Within
<1>. HIDE DEF S, F, G, column, lost
<1>7. IsTable(ChartAccounts, S, F, G, f, column)
  BY <1>1, <1>3, <1>4, <1>5, <1>6 DEF IsTable
<1>8. SumUp(ChartAccounts, f) = SumUp(S, column)
  BY <1>7, SumsExchange
<1>10. SumUp(S, lost) \in Int /\ SumUp(S, column) = -SumUp(S, lost)
  BY <1>3, <1>6, SumIsInt, SumNegates
<1>. QED BY <1>8, <1>9, <1>10

(***************************************************************************)
(* The columns of the statements: sums by type over the chart.             *)
(***************************************************************************)
NetOver(js, from, to) == [a \in ChartAccounts |-> Net(js, a, from, to)]

LEMMA Chart ==
  ASSUME NEW types
  PROVE  IsFiniteSet(OfType(types)) /\ OfType(types) \subseteq ChartAccounts
BY ReportsAssumption, FS_Subset DEF OfType

LEMMA NetsAreIntegers ==
  ASSUME NEW js, Ledger(js), NEW from, NEW to
  PROVE  /\ \A a \in ChartAccounts : NetOver(js, from, to)[a] \in Int
         /\ \A types : SumUp(OfType(types), NetOver(js, from, to)) \in Int
         /\ SumUp(Unclassed, NetOver(js, from, to)) \in Int
<1>. DEFINE f == NetOver(js, from, to)
<1>1. \A a \in ChartAccounts : f[a] \in Int
  BY NetOfSides DEF NetOver
<1>. HIDE DEF f
<1>2. ASSUME NEW types PROVE SumUp(OfType(types), f) \in Int
  <2>1. IsFiniteSet(ChartAccounts) /\ OfType(types) \in SUBSET ChartAccounts
    BY Chart, ReportsAssumption
  <2>. QED BY <1>1, <2>1, SumIsInt
<1>3. SumUp(Unclassed, f) \in Int
  <2>1. IsFiniteSet(ChartAccounts) /\ Unclassed \in SUBSET ChartAccounts
    BY ReportsAssumption DEF Unclassed
  <2>. QED BY <1>1, <2>1, SumIsInt
<1>. QED BY <1>1, <1>2, <1>3 DEF f

LEMMA OverWindows ==
  ASSUME NEW js, Ledger(js), NEW from \in Int, NEW day \in Int, NEW to \in Int,
         from <= day + 1, day <= to, NEW types
  PROVE  SumUp(OfType(types), NetOver(js, from, to))
         = SumUp(OfType(types), NetOver(js, from, day)) + SumUp(OfType(types), NetOver(js, day + 1, to))
<1>. DEFINE h == NetOver(js, from, to)
            f == NetOver(js, from, day)
            g == NetOver(js, day + 1, to)
            S == OfType(types)
<1>1. IsFiniteSet(S) /\ S \subseteq ChartAccounts
  BY Chart
<1>2. \A a \in ChartAccounts : f[a] \in Int /\ g[a] \in Int /\ h[a] = f[a] + g[a]
  BY NetSplits, NetOfSides DEF NetOver
<1>3. \A a \in S : f[a] \in Int /\ g[a] \in Int /\ h[a] \in Int /\ h[a] = f[a] + g[a]
  BY <1>1, <1>2
<1>. HIDE DEF f, g, h, S
<1>. QED BY <1>1, <1>3, SumOfSums DEF f, g, h, S

LEMMA TwoTypes ==
  ASSUME NEW f, \A a \in ChartAccounts : f[a] \in Int, NEW A, NEW B, A \cap B = {}
  PROVE  SumUp(OfType(A \cup B), f) = SumUp(OfType(A), f) + SumUp(OfType(B), f)
<1>. DEFINE S == OfType(A)
            T == OfType(B)
<1>1. IsFiniteSet(S) /\ IsFiniteSet(T) /\ S \subseteq ChartAccounts /\ T \subseteq ChartAccounts
  BY Chart
<1>2. S \cap T = {} /\ OfType(A \cup B) = S \cup T
  BY DEF OfType
<1>3. \A a \in S \cup T : f[a] \in Int
  BY <1>1
<1>. HIDE DEF S, T
<1>4. SumUp(S \cup T, f) = SumUp(S, f) + SumUp(T, f)
  BY <1>1, <1>2, <1>3, SumOfUnion
<1>. QED BY <1>2, <1>4 DEF S, T

LEMMA ByType ==
  ASSUME NEW f, \A a \in ChartAccounts : f[a] \in Int
  PROVE  /\ SumUp(ChartAccounts, f)
            = SumUp(OfType(AssetTypes), f) + SumUp(OfType(LiabilityTypes), f)
              + SumUp(OfType({"EQUITY"}), f) + SumUp(OfType(PnlTypes), f) + SumUp(Unclassed, f)
         /\ SumUp(OfType(PnlTypes), f)
            = SumUp(OfType(IncomeTypes), f) + SumUp(OfType({"DIRECTCOSTS"}), f)
              + SumUp(OfType(OverheadTypes), f)
<1>1. \A A, B : A \cap B = {} => SumUp(OfType(A \cup B), f) = SumUp(OfType(A), f) + SumUp(OfType(B), f)
  BY TwoTypes
<1>2. /\ AccountTypes = ((AssetTypes \cup LiabilityTypes) \cup {"EQUITY"}) \cup PnlTypes
      /\ PnlTypes = (IncomeTypes \cup {"DIRECTCOSTS"}) \cup OverheadTypes
  BY DEF AccountTypes, PnlTypes, CostTypes
<1>3. /\ AssetTypes \cap LiabilityTypes = {}
      /\ (AssetTypes \cup LiabilityTypes) \cap {"EQUITY"} = {}
      /\ ((AssetTypes \cup LiabilityTypes) \cup {"EQUITY"}) \cap PnlTypes = {}
      /\ IncomeTypes \cap {"DIRECTCOSTS"} = {}
      /\ (IncomeTypes \cup {"DIRECTCOSTS"}) \cap OverheadTypes = {}
  BY DEF AssetTypes, LiabilityTypes, IncomeTypes, OverheadTypes, CostTypes, PnlTypes
<1>. DEFINE Over(types) == SumUp(OfType(types), f)
<1>4. /\ Over(AssetTypes \cup LiabilityTypes) = Over(AssetTypes) + Over(LiabilityTypes)
      /\ Over((AssetTypes \cup LiabilityTypes) \cup {"EQUITY"})
         = Over(AssetTypes \cup LiabilityTypes) + Over({"EQUITY"})
      /\ Over(AccountTypes)
         = Over((AssetTypes \cup LiabilityTypes) \cup {"EQUITY"}) + Over(PnlTypes)
  BY <1>1, <1>2, <1>3
<1>7. SumUp(ChartAccounts, f) = Over(AccountTypes) + SumUp(Unclassed, f)
  <2>1. /\ IsFiniteSet(OfType(AccountTypes)) /\ IsFiniteSet(Unclassed)
        /\ OfType(AccountTypes) \cup Unclassed = ChartAccounts
        /\ OfType(AccountTypes) \cap Unclassed = {}
    BY ReportsAssumption, FS_Subset DEF OfType, Unclassed
  <2>2. SumUp(OfType(AccountTypes) \cup Unclassed, f) = SumUp(OfType(AccountTypes), f) + SumUp(Unclassed, f)
    BY <2>1, SumOfUnion
  <2>. QED BY <2>1, <2>2
<1>5. /\ Over(IncomeTypes \cup {"DIRECTCOSTS"}) = Over(IncomeTypes) + Over({"DIRECTCOSTS"})
      /\ Over(PnlTypes) = Over(IncomeTypes \cup {"DIRECTCOSTS"}) + Over(OverheadTypes)
  BY <1>1, <1>2, <1>3
<1>. HIDE DEF Over
<1>6. /\ SumUp(ChartAccounts, f)
         = Over(AssetTypes) + Over(LiabilityTypes) + Over({"EQUITY"}) + Over(PnlTypes)
           + SumUp(Unclassed, f)
      /\ Over(PnlTypes) = Over(IncomeTypes) + Over({"DIRECTCOSTS"}) + Over(OverheadTypes)
  BY <1>4, <1>5, <1>7
<1>. QED BY <1>6 DEF Over

LEMMA SheetFigures ==
  ASSUME NEW js, NEW day
  PROVE  LET f == NetOver(js, Never, day)
             column == SheetColumn(js, day)
         IN  /\ column.assets = SumUp(OfType(AssetTypes), f)
             /\ column.liabilities = -SumUp(OfType(LiabilityTypes), f)
             /\ column.retained = -SumUp(OfType(PnlTypes), f)
             /\ column.equity = -SumUp(OfType(PnlTypes), f) - SumUp(OfType({"EQUITY"}), f)
BY TotalIsSum DEF SheetColumn, Balance, NetOver, PnlTypes

LEMMA ProfitFigures ==
  ASSUME NEW js, Ledger(js), NEW p
  PROVE  ProfitColumn(js, p).net = -SumUp(OfType(PnlTypes), NetOver(js, p.from, p.to))
<1>. DEFINE f == NetOver(js, p.from, p.to)
<1>1. ProfitColumn(js, p).net
      = (-SumUp(OfType(IncomeTypes \cap PnlTypes), f)) - SumUp(OfType({"DIRECTCOSTS"} \cap PnlTypes), f)
        - SumUp(OfType(OverheadTypes \cap PnlTypes), f)
  BY TotalIsSum DEF ProfitColumn, NetOver
<1>2. /\ IncomeTypes \cap PnlTypes = IncomeTypes
      /\ {"DIRECTCOSTS"} \cap PnlTypes = {"DIRECTCOSTS"}
      /\ OverheadTypes \cap PnlTypes = OverheadTypes
  BY DEF PnlTypes, CostTypes
<1>3. /\ \A a \in ChartAccounts : f[a] \in Int
      /\ \A types : SumUp(OfType(types), f) \in Int
  BY NetsAreIntegers
<1>. HIDE DEF f
<1>4. SumUp(OfType(PnlTypes), f)
      = SumUp(OfType(IncomeTypes), f) + SumUp(OfType({"DIRECTCOSTS"}), f)
        + SumUp(OfType(OverheadTypes), f)
  BY <1>3, ByType
<1>5. PICK x \in Int, y \in Int, z \in Int :
        /\ x = SumUp(OfType(IncomeTypes), f) /\ y = SumUp(OfType({"DIRECTCOSTS"}), f)
        /\ z = SumUp(OfType(OverheadTypes), f)
  BY <1>3
<1>6. ProfitColumn(js, p).net = (-x) - y - z /\ SumUp(OfType(PnlTypes), f) = x + y + z
  BY <1>1, <1>2, <1>4, <1>5
<1>. QED BY <1>6 DEF f

\* A scan that goes far enough makes the same columns.
LEMMA SameColumns ==
  ASSUME NEW js, Ledger(js), NEW cutoff \in Int
  PROVE  /\ \A day \in Int : day <= cutoff =>
              SheetColumn(PeriodLines(js, cutoff), day) = SheetColumn(js, day)
         /\ \A p : p.to \in Int /\ p.to <= cutoff =>
              ProfitColumn(PeriodLines(js, cutoff), p) = ProfitColumn(js, p)
<1>. DEFINE ks == PeriodLines(js, cutoff)
<1>1. ASSUME NEW day \in Int, day <= cutoff PROVE SheetColumn(ks, day) = SheetColumn(js, day)
  <2>1. \A a : Balance(ks, a, day) = Balance(js, a, day)
    BY <1>1, ScanIsEnough DEF Balance
  <2>. HIDE DEF ks
  <2>. QED BY <2>1 DEF SheetColumn
<1>2. ASSUME NEW p, p.to \in Int, p.to <= cutoff PROVE ProfitColumn(ks, p) = ProfitColumn(js, p)
  <2>1. \A a : Net(ks, a, p.from, p.to) = Net(js, a, p.from, p.to)
    BY <1>2, ScanIsEnough
  <2>. HIDE DEF ks
  <2>. QED BY <2>1 DEF ProfitColumn
<1>. QED BY <1>1, <1>2

LEMMA LaterIsLater ==
  ASSUME NEW d \in Int, NEW e \in Int
  PROVE  Later(d, e) \in Int /\ d <= Later(d, e) /\ e <= Later(d, e)
BY DEF Later

LEMMA RetainedIsInteger ==
  ASSUME NEW js, Ledger(js), NEW day
  PROVE  SheetColumn(js, day).retained \in Int
<1>1. SumUp(OfType(PnlTypes), NetOver(js, Never, day)) \in Int
  BY NetsAreIntegers
<1>2. SheetColumn(js, day).retained = -SumUp(OfType(PnlTypes), NetOver(js, Never, day))
  BY SheetFigures
<1>. QED BY <1>1, <1>2

LEMMA DroppedIsSum ==
  ASSUME NEW js, NEW day
  PROVE  Dropped(js, day) = SumUp(Unclassed, NetOver(js, Never, day))
BY TotalIsSum DEF Dropped, Balance, NetOver

\* The column of a balance sheet balances, but for accounts that have no section and
\* for rounding.
LEMMA ColumnBalances ==
  ASSUME NEW js, Ledger(js), AddsUp(js), NEW day
  PROVE  /\ Dropped(js, day) \in Int /\ Lost(js, Never, day) \in Int
         /\ NetAssets(SheetColumn(js, day))
            = SheetColumn(js, day).equity - (Dropped(js, day) + Lost(js, Never, day))
<1>. DEFINE f == NetOver(js, Never, day)
            lost == Lost(js, Never, day)
<1>1. lost \in Int /\ SumUp(ChartAccounts, f) = -lost
  <2>1. \A a \in ChartAccounts : f[a] = Net(js, a, Never, day)
    BY DEF NetOver
  <2>. HIDE DEF f
  <2>. QED BY <2>1, LedgerBalances
<1>2. /\ \A a \in ChartAccounts : f[a] \in Int
      /\ \A types : SumUp(OfType(types), f) \in Int
      /\ Dropped(js, day) = SumUp(Unclassed, f) /\ SumUp(Unclassed, f) \in Int
  BY NetsAreIntegers, DroppedIsSum
<1>3. LET column == SheetColumn(js, day)
      IN  /\ column.assets = SumUp(OfType(AssetTypes), f)
          /\ column.liabilities = -SumUp(OfType(LiabilityTypes), f)
          /\ column.retained = -SumUp(OfType(PnlTypes), f)
          /\ column.equity = -SumUp(OfType(PnlTypes), f) - SumUp(OfType({"EQUITY"}), f)
  BY SheetFigures
<1>. HIDE DEF f, lost
<1>4. SumUp(ChartAccounts, f)
      = SumUp(OfType(AssetTypes), f) + SumUp(OfType(LiabilityTypes), f)
        + SumUp(OfType({"EQUITY"}), f) + SumUp(OfType(PnlTypes), f) + SumUp(Unclassed, f)
  BY <1>2, ByType
<1>. QED BY <1>1, <1>2, <1>3, <1>4 DEF NetAssets, lost

LEMMA SheetsBalance ==
  ASSUME Ledger(journals), AddsUp(journals), NEW w, w.from \in Int, w.to \in Int
  PROVE  SheetBalances(w)
<1>. DEFINE cutoff == Later(w.from, w.to)
<1>1. cutoff \in Int /\ w.from <= cutoff /\ w.to <= cutoff
  BY LaterIsLater
<1>2. /\ BalanceSheet(journals, w.from, w.to).this = SheetColumn(PeriodLines(journals, cutoff), w.from)
      /\ BalanceSheet(journals, w.from, w.to).that = SheetColumn(PeriodLines(journals, cutoff), w.to)
  BY DEF BalanceSheet
<1>. HIDE DEF cutoff
<1>3. /\ BalanceSheet(journals, w.from, w.to).this = SheetColumn(journals, w.from)
      /\ BalanceSheet(journals, w.from, w.to).that = SheetColumn(journals, w.to)
  BY <1>1, <1>2, SameColumns
<1>. QED BY <1>3, ColumnBalances DEF SheetBalances, SheetGap

(***************************************************************************)
(* Profit and loss, and the two summaries.                                 *)
(***************************************************************************)
LEMMA ProfitsAreColumns ==
  ASSUME NEW js, Ledger(js), NEW p, p.to \in Int, NEW v, v.to \in Int
  PROVE  /\ ProfitAndLoss(js, p, v).this = ProfitColumn(js, p)
         /\ ProfitAndLoss(js, p, v).that = ProfitColumn(js, v)
<1>. DEFINE cutoff == Later(p.to, v.to)
<1>1. cutoff \in Int /\ p.to <= cutoff /\ v.to <= cutoff
  BY LaterIsLater
<1>2. /\ ProfitAndLoss(js, p, v).this = ProfitColumn(PeriodLines(js, cutoff), p)
      /\ ProfitAndLoss(js, p, v).that = ProfitColumn(PeriodLines(js, cutoff), v)
  BY DEF ProfitAndLoss
<1>. HIDE DEF cutoff
<1>. QED BY <1>1, <1>2, SameColumns

LEMMA SheetsAreColumns ==
  ASSUME NEW js, Ledger(js), NEW d \in Int, NEW e \in Int
  PROVE  /\ BalanceSheet(js, d, e).this = SheetColumn(js, d)
         /\ BalanceSheet(js, d, e).that = SheetColumn(js, e)
<1>. DEFINE cutoff == Later(d, e)
<1>1. cutoff \in Int /\ d <= cutoff /\ e <= cutoff
  BY LaterIsLater
<1>2. /\ BalanceSheet(js, d, e).this = SheetColumn(PeriodLines(js, cutoff), d)
      /\ BalanceSheet(js, d, e).that = SheetColumn(PeriodLines(js, cutoff), e)
  BY DEF BalanceSheet
<1>. HIDE DEF cutoff
<1>. QED BY <1>1, <1>2, SameColumns

\* Days a window may have: the day before it is no earlier than Never.
IsWindow(w) == w.from \in Int /\ w.to \in Int /\ Never < w.from /\ w.from <= w.to

LEMMA NeverIsInteger == Never \in Int
BY ReportsAssumption DEF Never

LEMMA RetainedOver ==
  ASSUME NEW js, Ledger(js), NEW from \in Int, NEW to \in Int, Never <= from, from <= to + 1
  PROVE  SumUp(OfType(PnlTypes), NetOver(js, from, to))
         = SheetColumn(js, DayBefore(from)).retained - SheetColumn(js, to).retained
<1>1. SumUp(OfType(PnlTypes), NetOver(js, Never, to))
      = SumUp(OfType(PnlTypes), NetOver(js, Never, from - 1))
        + SumUp(OfType(PnlTypes), NetOver(js, (from - 1) + 1, to))
  BY NeverIsInteger, OverWindows
<1>2. (from - 1) + 1 = from
  OBVIOUS
<1>3. PICK x \in Int, y \in Int, z \in Int :
        /\ x = SumUp(OfType(PnlTypes), NetOver(js, Never, to))
        /\ y = SumUp(OfType(PnlTypes), NetOver(js, Never, from - 1))
        /\ z = SumUp(OfType(PnlTypes), NetOver(js, from, to))
  BY NetsAreIntegers
<1>4. x = y + z
  BY <1>1, <1>2, <1>3
<1>5. SheetColumn(js, to).retained = -x /\ SheetColumn(js, DayBefore(from)).retained = -y
  BY <1>3, SheetFigures DEF DayBefore
<1>. QED BY <1>3, <1>4, <1>5

LEMMA ProfitsRetained ==
  ASSUME Ledger(journals), NEW w, IsWindow(w)
  PROVE  ProfitIsRetained(w)
<1>1. ProfitAndLoss(journals, w, NoPeriod).this.net
      = BalanceSheet(journals, w.to, DayBefore(w.from)).this.retained
        - BalanceSheet(journals, w.to, DayBefore(w.from)).that.retained
  <2>1. w.from \in Int /\ w.to \in Int /\ DayBefore(w.from) \in Int /\ NoPeriod.to \in Int
    BY NeverIsInteger DEF IsWindow, DayBefore, NoPeriod
  <2>2. PICK x \in Int, y \in Int :
          /\ x = SheetColumn(journals, w.to).retained
          /\ y = SheetColumn(journals, DayBefore(w.from)).retained
    BY RetainedIsInteger
  <2>3. SumUp(OfType(PnlTypes), NetOver(journals, w.from, w.to)) = y - x
    <3>1. Never <= w.from /\ w.from <= w.to + 1
      BY <2>1, NeverIsInteger DEF IsWindow
    <3>. QED BY <2>1, <2>2, <3>1, RetainedOver
  <2>4. ProfitColumn(journals, w).net = -(y - x)
    BY <2>3, ProfitFigures
  <2>5. ProfitAndLoss(journals, w, NoPeriod).this = ProfitColumn(journals, w)
    BY <2>1, ProfitsAreColumns
  <2>6. /\ BalanceSheet(journals, w.to, DayBefore(w.from)).this = SheetColumn(journals, w.to)
        /\ BalanceSheet(journals, w.to, DayBefore(w.from)).that
           = SheetColumn(journals, DayBefore(w.from))
    BY <2>1, SheetsAreColumns
  <2>. QED BY <2>2, <2>4, <2>5, <2>6
<1>2. ASSUME NEW v \in {ComparativePeriod(w), FollowingPeriod(w)}
      PROVE  ProfitAndLoss(journals, w, v).that = ProfitAndLoss(journals, v, NoPeriod).this
  <2>1. v.to \in Int /\ w.to \in Int /\ NoPeriod.to \in Int
    BY ReportsAssumption, NeverIsInteger
    DEF IsWindow, NoPeriod, ComparativePeriod, FollowingPeriod
  <2>2. ProfitAndLoss(journals, w, v).that = ProfitColumn(journals, v)
    BY <2>1, ProfitsAreColumns
  <2>3. ProfitAndLoss(journals, v, NoPeriod).this = ProfitColumn(journals, v)
    BY <2>1, ProfitsAreColumns
  <2>. QED BY <2>2, <2>3
<1>. QED BY <1>1, <1>2 DEF ProfitIsRetained

LEMMA BanksLead ==
  ASSUME Ledger(journals), AddsUp(journals), NEW w, IsWindow(w)
  PROVE  BankSummaryLeads(w)
<1>. DEFINE row(a) == BankSummaryRow(journals, a, w.from, w.to)
            opening == [a \in ChartAccounts |-> row(a).opening]
            received == [a \in ChartAccounts |-> row(a).received]
            spent == [a \in ChartAccounts |-> row(a).spent]
            closing == [a \in ChartAccounts |-> row(a).closing]
            moved == [a \in ChartAccounts |-> row(a).opening + row(a).received]
            S == OfType({"BANK"})
            bank == BankSummary(journals, w.from, w.to)
<1>1. w.from \in Int /\ w.to \in Int /\ Never \in Int /\ DayBefore(w.from) \in Int
      /\ DayBefore(w.from) + 1 = w.from /\ Never <= w.from /\ DayBefore(w.from) <= w.to
  BY NeverIsInteger DEF IsWindow, DayBefore
<1>2. ASSUME NEW a \in ChartAccounts
      PROVE  /\ row(a).opening \in Int /\ row(a).received \in Int /\ row(a).spent \in Int
             /\ row(a).closing \in Int
             /\ row(a).opening + row(a).received = row(a).closing + row(a).spent
  <2>1. /\ row(a).opening = Net(journals, a, Never, DayBefore(w.from))
        /\ row(a).received = Debits(journals, a, w.from, w.to)
        /\ row(a).spent = Credits(journals, a, w.from, w.to)
        /\ row(a).closing = Net(journals, a, Never, w.to)
    <3>. DEFINE scanned == PeriodLines(journals, w.to)
    <3>1. /\ row(a).opening = Net(scanned, a, Never, DayBefore(w.from))
          /\ row(a).received = Debits(scanned, a, w.from, w.to)
          /\ row(a).spent = Credits(scanned, a, w.from, w.to)
          /\ row(a).closing = Net(scanned, a, Never, w.to)
      BY DEF BankSummaryRow, Balance
    <3>. HIDE DEF scanned, row
    <3>2. /\ Net(scanned, a, Never, DayBefore(w.from)) = Net(journals, a, Never, DayBefore(w.from))
          /\ Debits(scanned, a, w.from, w.to) = Debits(journals, a, w.from, w.to)
          /\ Credits(scanned, a, w.from, w.to) = Credits(journals, a, w.from, w.to)
          /\ Net(scanned, a, Never, w.to) = Net(journals, a, Never, w.to)
      <4>1. w.to <= w.to
        BY <1>1
      <4>. QED BY <1>1, <4>1, ScanIsEnough DEF scanned
    <3>. QED BY <3>1, <3>2
  <2>2. Net(journals, a, Never, w.to)
        = Net(journals, a, Never, DayBefore(w.from)) + Net(journals, a, w.from, w.to)
    BY <1>1, NetSplits
  <2>3. PICK o \in Int, r \in Int, s \in Int, c \in Int, m \in Int :
          /\ o = Net(journals, a, Never, DayBefore(w.from)) /\ r = Debits(journals, a, w.from, w.to)
          /\ s = Credits(journals, a, w.from, w.to) /\ c = Net(journals, a, Never, w.to)
          /\ m = Net(journals, a, w.from, w.to) /\ r = m + s
    BY NetOfSides
  <2>. HIDE DEF row
  <2>. QED BY <2>1, <2>2, <2>3
<1>3. IsFiniteSet(S) /\ S \subseteq ChartAccounts
  BY Chart
<1>4. /\ bank.opening = SumUp(S, opening) /\ bank.received = SumUp(S, received)
      /\ bank.spent = SumUp(S, spent) /\ bank.closing = SumUp(S, closing)
  BY TotalIsSum DEF BankSummary
<1>5. \A a \in S : /\ opening[a] \in Int /\ received[a] \in Int /\ spent[a] \in Int
                   /\ closing[a] \in Int /\ moved[a] \in Int
                   /\ moved[a] = opening[a] + received[a] /\ moved[a] = closing[a] + spent[a]
  <2>. HIDE DEF row
  <2>. QED BY <1>2, <1>3
<1>. HIDE DEF opening, received, spent, closing, moved, S, bank
<1>6. SumUp(S, moved) = SumUp(S, opening) + SumUp(S, received)
  BY <1>3, <1>5, SumOfSums
<1>7. SumUp(S, moved) = SumUp(S, closing) + SumUp(S, spent)
  BY <1>3, <1>5, SumOfSums
<1>8. /\ SumUp(S, opening) \in Int /\ SumUp(S, received) \in Int /\ SumUp(S, spent) \in Int
      /\ SumUp(S, closing) \in Int
  BY <1>3, <1>5, SumIsInt
<1>9. /\ bank.opening + bank.received - bank.spent = bank.closing
      /\ bank.received - bank.spent = bank.closing - bank.opening
  BY <1>4, <1>6, <1>7, <1>8
<1>10. /\ ExecutiveSummary(journals, w.from, w.to).surplus = bank.received - bank.spent
       /\ ExecutiveSummary(journals, w.from, w.to).netAssets
          = NetAssets(BalanceSheet(journals, w.to, Never).this)
  BY DEF ExecutiveSummary, bank
<1>11. NetAssets(BalanceSheet(journals, w.to, Never).this)
       = BalanceSheet(journals, w.to, Never).this.equity - SheetGap(w.to)
  BY <1>1, SheetsAreColumns, ColumnBalances DEF SheetGap
<1>. QED BY <1>9, <1>10, <1>11 DEF BankSummaryLeads, bank

(***************************************************************************)
(* The trial balance.                                                      *)
(***************************************************************************)
\* Every type that the reports know has a section, and one only.
LEMMA OneSection ==
  /\ IsFiniteSet(TrialBalanceSections)
  /\ \A t \in AccountTypes : \E p \in TrialBalanceSections : t \in p
  /\ \A t, p, q : p \in TrialBalanceSections /\ q \in TrialBalanceSections /\ t \in p /\ t \in q => p = q
<1>1. IsFiniteSet(TrialBalanceSections)
  <2>1. TrialBalanceSections
        = (({IncomeTypes} \cup {{"DIRECTCOSTS"}}) \cup ({OverheadTypes} \cup {AssetTypes}))
          \cup ({LiabilityTypes} \cup {{"EQUITY"}})
    BY DEF TrialBalanceSections
  <2>2. \A x : IsFiniteSet({x})
    BY FS_Singleton
  <2>3. \A S, T : IsFiniteSet(S) /\ IsFiniteSet(T) => IsFiniteSet(S \cup T)
    BY FS_Union
  <2>. QED BY <2>1, <2>2, <2>3
<1>2. \A t \in AccountTypes : \E p \in TrialBalanceSections : t \in p
  BY DEF AccountTypes, CostTypes, TrialBalanceSections
<1>3. ASSUME NEW t, NEW p \in TrialBalanceSections, NEW q \in TrialBalanceSections, t \in p, t \in q
      PROVE  p = q
  BY <1>3 DEF TrialBalanceSections, IncomeTypes, OverheadTypes, AssetTypes, LiabilityTypes
<1>. QED BY <1>1, <1>2, <1>3

LEMMA SectionsShowAll ==
  ASSUME NEW shown \in SUBSET ChartAccounts
  PROVE  LET sections == [s \in TrialBalanceSections |-> shown \cap OfType(s)]
             leftover == shown \ UNION {sections[s] : s \in TrialBalanceSections}
         IN  /\ \A a \in shown : Cardinality({s \in TrialBalanceSections : a \in sections[s]})
                                  + (IF a \in leftover THEN 1 ELSE 0) = 1
             /\ \A f : (\A a \in ChartAccounts : f[a] \in Int) =>
                  Total(TrialBalanceSections, [s \in TrialBalanceSections |-> Total(sections[s], f)])
                  + Total(leftover, f) = SumUp(shown, f)
<1>. DEFINE P == TrialBalanceSections
            Q == [s \in P |-> shown \cap OfType(s)]
            taken == UNION {Q[s] : s \in P}
            leftover == shown \ taken
<1>1. IsFiniteSet(shown) /\ IsFiniteSet(taken) /\ IsFiniteSet(leftover)
  <2>1. IsFiniteSet(shown) /\ taken \subseteq shown
    BY ReportsAssumption, FS_Subset
  <2>. QED BY <2>1, FS_Subset
<1>3. /\ taken \cup leftover = shown /\ taken \cap leftover = {}
      /\ \A s \in P : Q[s] \in SUBSET shown
      /\ \A s, t \in P : s # t => Q[s] \cap Q[t] = {}
  BY OneSection DEF OfType
<1>5. ASSUME NEW a \in shown
      PROVE  Cardinality({s \in P : a \in Q[s]}) + (IF a \in leftover THEN 1 ELSE 0) = 1
  <2>. DEFINE own == {s \in P : a \in Q[s]}
  <2>1. CASE a \in leftover
    <3>1. own = {}
      BY <2>1
    <3>. HIDE DEF own, leftover
    <3>2. Cardinality(own) = 0
      BY <3>1, FS_EmptySet
    <3>3. (IF a \in leftover THEN 1 ELSE 0) = 1
      BY <2>1
    <3>. QED BY <3>2, <3>3 DEF own
  <2>2. CASE a \notin leftover
    <3>1. PICK p \in P : a \in Q[p]
      BY <2>2
    <3>2. \A s \in P : a \in Q[s] <=> s = p
      BY <1>3, <3>1
    <3>3. own = {p}
      BY <3>2
    <3>. HIDE DEF own, leftover
    <3>4. Cardinality(own) = 1
      BY <3>3, FS_Singleton
    <3>5. (IF a \in leftover THEN 1 ELSE 0) = 0
      BY <2>2
    <3>. QED BY <3>4, <3>5 DEF own
  <2>. QED BY <2>1, <2>2
<1>6. ASSUME NEW f, \A a \in ChartAccounts : f[a] \in Int
      PROVE  Total(P, [s \in P |-> Total(Q[s], f)]) + Total(leftover, f) = SumUp(shown, f)
  <2>. DEFINE F == [s \in P |-> Total(Q[s], f)]
  <2>1. \A s \in P : F[s] = SumUp(Q[s], f)
    BY TotalIsSum
  <2>2. \A a \in shown : f[a] \in Int
    BY <1>6
  <2>3. IsFiniteSet(P) /\ taken = UNION {Q[s] : s \in P}
    BY OneSection
  <2>. HIDE DEF F, Q, P, leftover, taken
  <2>4. SumUp(P, F) = SumUp(taken, f)
    BY <1>1, <1>3, <2>1, <2>2, <2>3, SumOfParts
  <2>5. Total(P, F) = SumUp(taken, f) /\ Total(leftover, f) = SumUp(leftover, f)
    BY <2>4, TotalIsSum
  <2>6. SumUp(taken \cup leftover, f) = SumUp(taken, f) + SumUp(leftover, f)
    <3>1. \A a \in taken \cup leftover : f[a] \in Int
      BY <1>3, <2>2
    <3>. QED BY <1>1, <1>3, <3>1, SumOfUnion
  <2>. QED BY <1>3, <2>5, <2>6 DEF F
<1>. QED BY <1>5, <1>6

LEMMA NewYear ==
  ASSUME NEW d \in Int, d > 0
  PROVE  /\ FinancialYearStart(d) \in Int /\ FinancialYearStart(d) <= d
         /\ Never <= FinancialYearStart(d)
<1>1. YearLength \in Int /\ YearLength > 0 /\ d - YearStart \in Int
  BY ReportsAssumption
<1>2. PICK m \in Int : m = (d - YearStart) % YearLength /\ 0 <= m /\ m < YearLength
  BY <1>1
<1>. QED BY <1>1, <1>2 DEF FinancialYearStart, Never

LEMMA SplitFacts ==
  ASSUME NEW n \in Int
  PROVE  /\ SplitSigned(n).debit \in Int /\ SplitSigned(n).credit \in Int
         /\ SplitSigned(n).debit = n + SplitSigned(n).credit
         /\ SplitSigned(0).debit = 0 /\ SplitSigned(0).credit = 0
<1>1. SplitSigned(0) = [debit |-> 0, credit |-> 0]
  BY DEF SplitSigned
<1>2. CASE n < 0
  <2>1. SplitSigned(n) = [debit |-> 0, credit |-> -n]
    BY <1>2 DEF SplitSigned
  <2>. QED BY <1>1, <2>1
<1>3. CASE ~ (n < 0)
  <2>1. SplitSigned(n) = [debit |-> n, credit |-> 0]
    BY <1>3 DEF SplitSigned
  <2>. QED BY <1>1, <2>1
<1>. QED BY <1>2, <1>3

\* Two columns that differ by what the accounts moved.
Differ(shown, f, g, m) ==
  /\ shown \in SUBSET ChartAccounts
  /\ \A a \in ChartAccounts : /\ f[a] \in Int /\ g[a] \in Int /\ m[a] \in Int
                              /\ f[a] = m[a] + g[a]
                              /\ a \notin shown => f[a] = 0 /\ g[a] = 0

LEMMA ColumnsDiffer ==
  ASSUME NEW shown, NEW f, NEW g, NEW m, Differ(shown, f, g, m)
  PROVE  /\ SumUp(shown, f) \in Int /\ SumUp(shown, g) \in Int
         /\ SumUp(shown, f) = SumUp(ChartAccounts, m) + SumUp(shown, g)
<1>. USE DEF Differ
<1>1. IsFiniteSet(ChartAccounts) /\ IsFiniteSet(shown)
  BY ReportsAssumption, FS_Subset
<1>2. SumUp(ChartAccounts, f) = SumUp(ChartAccounts, m) + SumUp(ChartAccounts, g)
  BY <1>1, SumOfSums
<1>3. SumUp(ChartAccounts, f) = SumUp(shown, f) /\ SumUp(ChartAccounts, g) = SumUp(shown, g)
  BY <1>1, SumWithin
<1>4. SumUp(ChartAccounts, f) \in Int /\ SumUp(ChartAccounts, g) \in Int
  BY <1>1, SumIsInt
<1>. QED BY <1>2, <1>3, <1>4

LEMMA TrialBalancesFoot ==
  ASSUME Ledger(journals), AddsUp(journals), NEW w, IsWindow(w), w.to > 0
  PROVE  TrialBalanceFoots(w)
<1>. DEFINE newYear == FinancialYearStart(w.to)
            rows == TrialBalance(journals, w.from, w.to)
            m == NetOver(journals, w.from, w.to)
            y == NetOver(journals, newYear, w.to)
            c == NetOver(journals, Never, w.to)
            zero == SplitSigned(0)
            measure(a) == TrialBalanceMeasure(a, rows[a])
            shown == {a \in ChartAccounts :
                        \/ rows[a].period # zero \/ measure(a) # zero \/ rows[a].closing # 0}
            printed == RenderTrialBalance(rows)
            d1 == [a \in ChartAccounts |-> rows[a].period.debit]
            c1 == [a \in ChartAccounts |-> rows[a].period.credit]
            d2 == [a \in ChartAccounts |-> measure(a).debit]
            c2 == [a \in ChartAccounts |-> measure(a).credit]
            mm == [a \in ChartAccounts |-> IF TypeOf[a] \in PnlTypes THEN y[a] ELSE c[a]]
<1>1. /\ w.from \in Int /\ w.to \in Int /\ newYear \in Int /\ newYear <= w.to /\ Never <= newYear
      /\ newYear <= w.to + 1 /\ w.to <= w.to
  BY NewYear DEF IsWindow
<1>. HIDE DEF newYear
<1>2. ASSUME NEW a \in ChartAccounts
      PROVE  /\ rows[a].period = SplitSigned(m[a]) /\ rows[a].ytd = SplitSigned(y[a])
             /\ rows[a].closing = c[a]
             /\ m[a] \in Int /\ y[a] \in Int /\ c[a] \in Int
  <2>. DEFINE scanned == PeriodLines(journals, w.to)
  <2>1. rows[a] = [period  |-> SplitSigned(Net(scanned, a, w.from, w.to)),
                   ytd     |-> SplitSigned(Net(scanned, a, newYear, w.to)),
                   closing |-> Net(scanned, a, Never, w.to)]
    BY DEF TrialBalance, Balance, newYear
  <2>. HIDE DEF scanned, rows, m, y, c, measure, shown, printed, d1, c1, d2, c2, mm
  <2>2. /\ Net(scanned, a, w.from, w.to) = Net(journals, a, w.from, w.to)
        /\ Net(scanned, a, newYear, w.to) = Net(journals, a, newYear, w.to)
        /\ Net(scanned, a, Never, w.to) = Net(journals, a, Never, w.to)
    <3>1. \A from : Net(scanned, a, from, w.to) = Net(journals, a, from, w.to)
      BY <1>1, ScanIsEnough DEF scanned
    <3>. QED BY <3>1
  <2>3. /\ Net(journals, a, w.from, w.to) \in Int /\ Net(journals, a, newYear, w.to) \in Int
        /\ Net(journals, a, Never, w.to) \in Int
    BY NetOfSides
  <2>. QED BY <2>1, <2>2, <2>3 DEF NetOver, m, y, c
<1>. HIDE DEF rows, m, y, c
<1>3. ASSUME NEW a \in ChartAccounts
      PROVE  /\ measure(a) = SplitSigned(mm[a]) /\ mm[a] \in Int
             /\ d1[a] \in Int /\ c1[a] \in Int /\ d1[a] = m[a] + c1[a]
             /\ d2[a] \in Int /\ c2[a] \in Int /\ d2[a] = mm[a] + c2[a]
             /\ a \notin shown => d1[a] = 0 /\ c1[a] = 0 /\ d2[a] = 0 /\ c2[a] = 0
  <2>1. measure(a) = SplitSigned(mm[a]) /\ mm[a] \in Int
    BY <1>2 DEF TrialBalanceMeasure
  <2>2. /\ d1[a] = SplitSigned(m[a]).debit /\ c1[a] = SplitSigned(m[a]).credit
        /\ d2[a] = SplitSigned(mm[a]).debit /\ c2[a] = SplitSigned(mm[a]).credit
    BY <1>2, <2>1
  <2>3. a \notin shown => SplitSigned(m[a]) = SplitSigned(0) /\ SplitSigned(mm[a]) = SplitSigned(0)
    BY <1>2, <2>1
  <2>. HIDE DEF measure, shown, d1, c1, d2, c2, mm
  <2>. QED BY <1>2, <2>1, <2>2, <2>3, SplitFacts
<1>4. shown \in SUBSET ChartAccounts
  OBVIOUS
<1>5. /\ printed.debit = SumUp(shown, d1) /\ printed.credit = SumUp(shown, c1)
      /\ printed.ytdDebit = SumUp(shown, d2) /\ printed.ytdCredit = SumUp(shown, c2)
      /\ \A a \in shown : printed.times[a] = 1
  <2>. DEFINE sections == [s \in TrialBalanceSections |-> shown \cap OfType(s)]
              leftover == shown \ UNION {sections[s] : s \in TrialBalanceSections}
              sum(f) == Total(TrialBalanceSections, [s \in TrialBalanceSections |-> Total(sections[s], f)])
                        + Total(leftover, f)
  <2>1. /\ printed.debit = sum(d1) /\ printed.credit = sum(c1)
        /\ printed.ytdDebit = sum(d2) /\ printed.ytdCredit = sum(c2)
        /\ \A a \in ChartAccounts :
             printed.times[a] = Cardinality({s \in TrialBalanceSections : a \in sections[s]})
                                + (IF a \in leftover THEN 1 ELSE 0)
    BY DEF RenderTrialBalance
  <2>2. /\ \A a \in shown : Cardinality({s \in TrialBalanceSections : a \in sections[s]})
                             + (IF a \in leftover THEN 1 ELSE 0) = 1
        /\ \A f : (\A a \in ChartAccounts : f[a] \in Int) => sum(f) = SumUp(shown, f)
    BY <1>4, SectionsShowAll
  <2>. DEFINE count(a) == Cardinality({s \in TrialBalanceSections : a \in sections[s]})
  <2>5. ASSUME NEW a \in shown PROVE printed.times[a] = 1
    <3>1. printed.times[a] = count(a) + (IF a \in leftover THEN 1 ELSE 0)
      BY <1>4, <2>1
    <3>2. count(a) + (IF a \in leftover THEN 1 ELSE 0) = 1
      BY <2>2
    <3>. HIDE DEF count, leftover, printed
    <3>. QED BY <3>1, <3>2
  <2>. HIDE DEF printed, sum, leftover, sections, shown, d1, c1, d2, c2
  <2>3. /\ \A a \in ChartAccounts : d1[a] \in Int
        /\ \A a \in ChartAccounts : c1[a] \in Int
        /\ \A a \in ChartAccounts : d2[a] \in Int
        /\ \A a \in ChartAccounts : c2[a] \in Int
    BY <1>3
  <2>4. /\ sum(d1) = SumUp(shown, d1) /\ sum(c1) = SumUp(shown, c1)
        /\ sum(d2) = SumUp(shown, d2) /\ sum(c2) = SumUp(shown, c2)
    BY <2>2, <2>3
  <2>. QED BY <2>1, <2>4, <2>5
<1>6. \A a \in ChartAccounts : rows[a].closing # 0 => a \in shown
  OBVIOUS
<1>. HIDE DEF printed, shown, d1, c1, d2, c2, measure
<1>7. printed.debit - printed.credit = -Lost(journals, w.from, w.to)
  <2>. DEFINE lost == Lost(journals, w.from, w.to)
  <2>1. lost \in Int /\ SumUp(ChartAccounts, m) = -lost
    BY LedgerBalances DEF m, NetOver
  <2>. HIDE DEF lost
  <2>2. /\ SumUp(shown, d1) \in Int /\ SumUp(shown, c1) \in Int
        /\ SumUp(shown, d1) = SumUp(ChartAccounts, m) + SumUp(shown, c1)
    <3>1. Differ(shown, d1, c1, m)
      BY <1>2, <1>3, <1>4 DEF Differ
    <3>. QED BY <3>1, ColumnsDiffer
  <2>. QED BY <1>5, <2>1, <2>2 DEF lost
<1>8. printed.ytdDebit - printed.ytdCredit
      = BalanceSheet(journals, DayBefore(newYear), Never).this.retained - Lost(journals, Never, w.to)
  <2>. DEFINE lost == Lost(journals, Never, w.to)
  <2>1. /\ SumUp(shown, d2) \in Int /\ SumUp(shown, c2) \in Int
        /\ SumUp(shown, d2) = SumUp(ChartAccounts, mm) + SumUp(shown, c2)
    <3>. HIDE DEF mm
    <3>1. Differ(shown, d2, c2, mm)
      BY <1>3, <1>4 DEF Differ
    <3>. QED BY <3>1, ColumnsDiffer
  <2>2. /\ SumUp(OfType(AssetTypes), mm) = SumUp(OfType(AssetTypes), c)
        /\ SumUp(OfType(LiabilityTypes), mm) = SumUp(OfType(LiabilityTypes), c)
        /\ SumUp(OfType({"EQUITY"}), mm) = SumUp(OfType({"EQUITY"}), c)
        /\ SumUp(OfType(PnlTypes), mm) = SumUp(OfType(PnlTypes), y)
        /\ SumUp(Unclassed, mm) = SumUp(Unclassed, c)
    <3>1. /\ \A a \in OfType(AssetTypes) : mm[a] = c[a]
          /\ \A a \in OfType(LiabilityTypes) : mm[a] = c[a]
          /\ \A a \in OfType({"EQUITY"}) : mm[a] = c[a]
          /\ \A a \in OfType(PnlTypes) : mm[a] = y[a]
          /\ \A a \in Unclassed : mm[a] = c[a]
      BY DEF OfType, Unclassed, AccountTypes, AssetTypes, LiabilityTypes, PnlTypes, IncomeTypes, CostTypes, OverheadTypes
    <3>2. IsFiniteSet(Unclassed)
      BY ReportsAssumption, FS_Subset DEF Unclassed
    <3>. HIDE DEF mm
    <3>. QED BY <3>1, <3>2, Chart, SumSame
  <2>3. /\ SumUp(ChartAccounts, mm)
           = SumUp(OfType(AssetTypes), mm) + SumUp(OfType(LiabilityTypes), mm)
             + SumUp(OfType({"EQUITY"}), mm) + SumUp(OfType(PnlTypes), mm) + SumUp(Unclassed, mm)
        /\ SumUp(ChartAccounts, c)
           = SumUp(OfType(AssetTypes), c) + SumUp(OfType(LiabilityTypes), c)
             + SumUp(OfType({"EQUITY"}), c) + SumUp(OfType(PnlTypes), c) + SumUp(Unclassed, c)
    <3>. HIDE DEF mm
    <3>. QED BY <1>2, <1>3, ByType
  <2>4. lost \in Int /\ SumUp(ChartAccounts, c) = -lost
    BY LedgerBalances DEF c, NetOver
  <2>. HIDE DEF lost
  <2>5. PICK A \in Int, B \in Int, C \in Int, D \in Int, E \in Int, U \in Int :
          /\ A = SumUp(OfType(AssetTypes), c) /\ B = SumUp(OfType(LiabilityTypes), c)
          /\ C = SumUp(OfType({"EQUITY"}), c) /\ D = SumUp(OfType(PnlTypes), c)
          /\ E = SumUp(OfType(PnlTypes), y) /\ U = SumUp(Unclassed, c)
    BY NetsAreIntegers DEF c, y
  <2>. HIDE DEF mm
  <2>6. SumUp(ChartAccounts, mm) = E - D - lost
    BY <2>2, <2>3, <2>4, <2>5
  <2>7. PICK r \in Int, x \in Int :
          /\ r = SheetColumn(journals, DayBefore(newYear)).retained
          /\ x = SheetColumn(journals, w.to).retained
    BY RetainedIsInteger
  <2>8. E = r - x
    BY <1>1, <2>5, <2>7, RetainedOver DEF y
  <2>9. x = -D
    BY <2>5, <2>7, SheetFigures DEF c
  <2>10. BalanceSheet(journals, DayBefore(newYear), Never).this.retained = r
    <3>1. DayBefore(newYear) \in Int
      BY <1>1 DEF DayBefore
    <3>. QED BY <2>7, <3>1, NeverIsInteger, SheetsAreColumns
  <2>. QED BY <1>5, <2>1, <2>4, <2>5, <2>6, <2>7, <2>8, <2>9, <2>10 DEF lost
<1>. QED BY <1>5, <1>6, <1>7, <1>8 DEF TrialBalanceFoots, printed, rows, newYear

(***************************************************************************)
(* What postings keep.                                                     *)
(***************************************************************************)
LEMMA LedgerBegins == ReportsInit => Ledger(journals) /\ AddsUp(journals)
BY FS_EmptySet DEF ReportsInit, Ledger, AddsUp

LEMMA LedgerStays ==
  Ledger(journals) /\ AddsUp(journals) /\ [ReportsNext]_reportVars => Ledger(journals)' /\ AddsUp(journals)'
<1>. DEFINE Kept == Ledger(journals) /\ AddsUp(journals)
<1>1. ASSUME Kept, NEW k \in JournalIds, NEW lines \in Entries, NEW day \in ReportDays,
             PostJournal(k, lines, day)
      PROVE  Kept'
  <2>. DEFINE whole == [n \in DOMAIN lines |-> lines[n].net + lines[n].lost]
  <2>1. /\ Total(DOMAIN lines, whole) = 0
        /\ DOMAIN journals' = DOMAIN journals \cup {k}
        /\ journals'[k] = [date |-> day, lines |-> lines]
        /\ \A x \in DOMAIN journals : journals'[x] = journals[x]
    BY <1>1 DEF PostJournal
  <2>2. SumUp(DOMAIN lines, Nets(lines)) = -SumUp(DOMAIN lines, Losts(lines))
    <3>. DEFINE f == Nets(lines)
                g == Losts(lines)
    <3>1. lines \in Seq(EntryLine)
      BY ReportsAssumption
    <3>2. IsFiniteSet(DOMAIN lines)
      BY <3>1, FS_Interval
    <3>3. \A n \in DOMAIN lines : f[n] \in Int /\ g[n] \in Int /\ whole[n] = f[n] + g[n]
      <4>1. \A n \in DOMAIN lines : lines[n] \in EntryLine
        BY <3>1
      <4>. QED BY <4>1 DEF EntryLine, Nets, Losts
    <3>. HIDE DEF f, g, whole
    <3>4. SumUp(DOMAIN lines, whole) = SumUp(DOMAIN lines, f) + SumUp(DOMAIN lines, g)
      BY <3>2, <3>3, SumOfSums
    <3>5. SumUp(DOMAIN lines, f) \in Int /\ SumUp(DOMAIN lines, g) \in Int
      BY <3>2, <3>3, SumIsInt
    <3>6. SumUp(DOMAIN lines, whole) = 0
      BY <2>1, TotalIsSum
    <3>. QED BY <3>4, <3>5, <3>6 DEF f, g
  <2>3. IsFiniteSet(DOMAIN journals')
    BY <1>1, <2>1, FS_AddElement DEF Ledger
  <2>4. journals'[k] \in JournalRow /\ journals'[k].lines = lines
    BY <2>1, ReportsAssumption DEF JournalRow
  <2>. QED BY <1>1, <2>1, <2>2, <2>3, <2>4 DEF Ledger, AddsUp
<1>2. ASSUME Kept, NEW k \in JournalIds, RemoveJournal(k)
      PROVE  Kept'
  <2>1. /\ DOMAIN journals' \subseteq DOMAIN journals
        /\ \A x \in DOMAIN journals' : journals'[x] = journals[x]
    BY <1>2 DEF RemoveJournal
  <2>2. IsFiniteSet(DOMAIN journals')
    BY <1>2, <2>1, FS_Subset DEF Ledger
  <2>. QED BY <1>2, <2>1, <2>2 DEF Ledger, AddsUp
<1>3. ASSUME Kept, UNCHANGED journals PROVE Kept'
  BY <1>3 DEF Ledger, AddsUp
<1>. QED BY <1>1, <1>2, <1>3 DEF ReportsNext, ReadGroups, ReadLines, Answer, reportVars

\* For any chart of accounts, whatever the types of its accounts, any history of postings,
\* whatever rounding took off them, and any windows, the five statements of the general
\* ledger agree with each other but for exactly the accounts of unknown types and what
\* rounding took.
THEOREM ReportsAgree == ReportsSpec => []StatementsAgree
<1>1. Ledger(journals) /\ AddsUp(journals) => StatementsAgree
  <2>1. SUFFICES ASSUME Ledger(journals), AddsUp(journals), NEW w \in Forward
                 PROVE  TrialBalanceFoots(w) /\ SheetBalances(w) /\ ProfitIsRetained(w) /\ BankSummaryLeads(w)
    BY DEF StatementsAgree
  <2>2. w.from \in ReportDays /\ w.to \in ReportDays /\ w.from <= w.to
    BY DEF Forward, Windows
  <2>3. w.from \in Int /\ w.to \in Int /\ w.from > 0 /\ w.to > 0
    <3>1. ASSUME NEW d \in ReportDays PROVE d \in Int /\ d > 0
      BY ReportsAssumption
    <3>. QED BY <2>2, <3>1
  <2>4. PICK y \in Int : y = YearLength /\ y > 0
    BY ReportsAssumption
  <2>5. IsWindow(w) /\ w.to > 0
    BY <2>2, <2>3, <2>4 DEF IsWindow, Never
  <2>. QED BY <2>1, <2>3, <2>5, TrialBalancesFoot, SheetsBalance, ProfitsRetained, BanksLead
<1>. QED BY <1>1, LedgerBegins, LedgerStays, PTL DEF ReportsSpec

(***************************************************************************)
(* Rows in order.                                                          *)
(***************************************************************************)
IsOrder(S, earlier) ==
  /\ IsFiniteSet(S)
  /\ \A x \in S : earlier[x] \in SUBSET S /\ x \notin earlier[x]
  /\ \A x, y \in S : x \in earlier[y] => earlier[x] \subseteq earlier[y]
  /\ \A x, y \in S : x = y \/ x \in earlier[y] \/ y \in earlier[x]

\* A list that has each row of S once, those before it in front of it.
Lists(list, S, earlier) ==
  /\ \E len \in Nat : DOMAIN list = 1 .. len
  /\ \A n \in DOMAIN list : list[n] \in S
  /\ \A x \in S : \E n \in DOMAIN list : list[n] = x
  /\ \A m, n \in DOMAIN list : m < n <=> list[m] \in earlier[list[n]]

LEMMA OrderLists ==
  ASSUME NEW S, NEW earlier, IsOrder(S, earlier)
  PROVE  Lists(InOrder(S, earlier), S, earlier)
<1>. DEFINE N == Cardinality(S)
            rank == [x \in S |-> Cardinality(earlier[x]) + 1]
            list == InOrder(S, earlier)
<1>1. IsFiniteSet(S) /\ N \in Nat
  BY FS_CardinalityType DEF IsOrder
<1>2. ASSUME NEW x \in S
      PROVE  /\ Cardinality(earlier[x]) \in Nat /\ IsFiniteSet(earlier[x])
             /\ rank[x] \in 1 .. N
  <2>1. earlier[x] \in SUBSET S /\ x \notin earlier[x]
    BY DEF IsOrder
  <2>2. PICK E : E = earlier[x]
    OBVIOUS
  <2>3. IsFiniteSet(E) /\ Cardinality(E) <= N /\ Cardinality(E) # N
    BY <1>1, <2>1, <2>2, FS_Subset
  <2>4. Cardinality(E) \in Nat
    BY <2>3, FS_CardinalityType
  <2>. QED BY <1>1, <2>2, <2>3, <2>4
<1>3. ASSUME NEW x \in S, NEW y \in S, x \in earlier[y]
      PROVE  rank[x] < rank[y]
  <2>1. PICK E, F : E = earlier[x] /\ F = earlier[y]
    OBVIOUS
  <2>2. E \in SUBSET F /\ E # F
    BY <1>3, <2>1 DEF IsOrder
  <2>3. IsFiniteSet(F) /\ Cardinality(E) \in Nat /\ Cardinality(F) \in Nat
    BY <1>2, <2>1
  <2>4. Cardinality(E) <= Cardinality(F) /\ Cardinality(E) # Cardinality(F)
    BY <2>2, <2>3, FS_Subset
  <2>. QED BY <2>1, <2>3, <2>4
<1>. HIDE DEF rank
<1>4. \A x, y \in S : rank[x] = rank[y] => x = y
  <2>1. ASSUME NEW x \in S, NEW y \in S, rank[x] = rank[y] PROVE x = y
    <3>1. rank[x] \in Int /\ rank[y] \in Int /\ ~(rank[x] < rank[y]) /\ ~(rank[y] < rank[x])
      BY <1>1, <1>2, <2>1
    <3>. QED BY <1>3, <3>1 DEF IsOrder
  <2>. QED BY <2>1
<1>5. \A n \in 1 .. N : \E x \in S : rank[x] = n
  <2>1. rank \in [S -> 1 .. N]
    BY <1>2 DEF rank
  <2>2. rank \in Injection(S, 1 .. N)
    BY <1>4, <2>1 DEF Injection, IsInjective
  <2>3. IsFiniteSet(1 .. N) /\ Cardinality(1 .. N) = N
    BY <1>1, FS_Interval
  <2>4. rank \in Surjection(S, 1 .. N)
    BY <2>2, <2>3, FS_Injection
  <2>. QED BY <2>4 DEF Surjection
<1>6. /\ DOMAIN list = 1 .. N
      /\ \A n \in 1 .. N : list[n] = CHOOSE x \in S : Cardinality(earlier[x]) = n - 1
  BY DEF InOrder
<1>7. ASSUME NEW n \in 1 .. N PROVE list[n] \in S /\ rank[list[n]] = n
  <2>1. \E x \in S : Cardinality(earlier[x]) = n - 1
    <3>1. PICK x \in S : rank[x] = n
      BY <1>5
    <3>. QED BY <1>2, <3>1 DEF rank
  <2>2. list[n] \in S /\ Cardinality(earlier[list[n]]) = n - 1
    BY <1>6, <2>1
  <2>. QED BY <2>2 DEF rank
<1>. HIDE DEF list
<1>8. \A x \in S : rank[x] \in 1 .. N /\ list[rank[x]] = x
  BY <1>2, <1>4, <1>7
<1>9. ASSUME NEW m \in 1 .. N, NEW n \in 1 .. N
      PROVE  m < n <=> list[m] \in earlier[list[n]]
  <2>1. CASE m < n
    <3>1. list[m] # list[n] /\ ~(rank[list[n]] < rank[list[m]])
      BY <1>7, <2>1
    <3>. QED BY <1>3, <1>7, <2>1, <3>1 DEF IsOrder
  <2>2. CASE ~(m < n)
    BY <1>3, <1>7, <2>2
  <2>. QED BY <2>1, <2>2
<1>. QED BY <1>1, <1>6, <1>7, <1>8, <1>9 DEF Lists, list

\* Each row once: a sum down a list is the sum over its rows.
ListsOnce(list, P, S) ==
  /\ IsFiniteSet(P)
  /\ \A n \in P : list[n] \in S
  /\ \A m, n \in P : list[m] = list[n] => m = n
  /\ \A x \in S : \E n \in P : list[n] = x

LEMMA ListSum ==
  ASSUME NEW S, IsFiniteSet(S), NEW f, \A x \in S : f[x] \in Int,
         NEW P, NEW list, ListsOnce(list, P, S),
         NEW g, \A n \in P : g[n] = f[list[n]]
  PROVE  SumUp(P, g) = SumUp(S, f)
<1>. DEFINE Q == [n \in P |-> {list[n]}]
<1>1. \A n \in P : Q[n] \in SUBSET S
  BY DEF ListsOnce
<1>2. \A m, n \in P : m # n => Q[m] \cap Q[n] = {}
  BY DEF ListsOnce
<1>3. \A n \in P : g[n] = SumUp(Q[n], f)
  <2>1. ASSUME NEW n \in P PROVE g[n] = SumUp({list[n]}, f)
    BY SumOfOne DEF ListsOnce
  <2>. QED BY <2>1
<1>4. UNION {Q[n] : n \in P} = S
  BY DEF ListsOnce
<1>. HIDE DEF Q
<1>6. IsFiniteSet(P)
  BY DEF ListsOnce
<1>5. SumUp(P, g) = SumUp(UNION {Q[n] : n \in P}, f)
  BY <1>1, <1>2, <1>3, <1>6, SumOfParts
<1>. QED BY <1>4, <1>5

LEMMA ListParts ==
  ASSUME NEW S, NEW earlier, IsOrder(S, earlier), NEW list, Lists(list, S, earlier)
  PROVE  /\ ListsOnce(list, DOMAIN list, S)
         /\ \A n \in DOMAIN list : ListsOnce(list, 1 .. n, {list[n]} \cup earlier[list[n]])
<1>1. PICK len \in Nat : DOMAIN list = 1 .. len
  BY DEF Lists
<1>2. \A m, n \in DOMAIN list : list[m] = list[n] => m = n
  <2>1. ASSUME NEW m \in DOMAIN list, NEW n \in DOMAIN list, list[m] = list[n] PROVE m = n
    <3>1. list[m] \notin earlier[list[n]] /\ list[n] \notin earlier[list[m]]
      BY <2>1 DEF IsOrder, Lists
    <3>2. ~(m < n) /\ ~(n < m)
      BY <3>1 DEF Lists
    <3>. QED BY <1>1, <3>2
  <2>. QED BY <2>1
<1>3. ListsOnce(list, DOMAIN list, S)
  <2>1. IsFiniteSet(DOMAIN list)
    BY <1>1, FS_Interval
  <2>. QED BY <1>2, <2>1 DEF ListsOnce, Lists
<1>4. ASSUME NEW n \in DOMAIN list
      PROVE  ListsOnce(list, 1 .. n, {list[n]} \cup earlier[list[n]])
  <2>1. IsFiniteSet(1 .. n) /\ n \in Int /\ \A m \in 1 .. n : m \in DOMAIN list /\ (m = n \/ m < n)
    <3>1. n \in Int /\ \A m \in 1 .. n : m \in DOMAIN list /\ (m = n \/ m < n)
      BY <1>1
    <3>. QED BY <3>1, FS_Interval
  <2>2. \A m \in 1 .. n : list[m] \in {list[n]} \cup earlier[list[n]]
    BY <2>1 DEF Lists
  <2>3. ASSUME NEW x \in {list[n]} \cup earlier[list[n]]
        PROVE  \E m \in 1 .. n : list[m] = x
    <3>1. CASE x = list[n]
      BY <1>1, <3>1
    <3>2. CASE x \in earlier[list[n]]
      <4>1. x \in S
        BY <3>2 DEF IsOrder, Lists
      <4>2. PICK m \in DOMAIN list : list[m] = x
        BY <4>1 DEF Lists
      <4>3. m < n
        BY <3>2, <4>2 DEF Lists
      <4>. QED BY <1>1, <4>2, <4>3
    <3>. QED BY <2>3, <3>1, <3>2
  <2>. QED BY <1>2, <2>1, <2>2, <2>3 DEF ListsOnce
<1>. QED BY <1>3, <1>4

(***************************************************************************)
(* General ledger detail, for any journals and any window.                 *)
(***************************************************************************)
LEMMA PartsFinite ==
  ASSUME NEW P, IsFiniteSet(P), NEW Q, \A p \in P : IsFiniteSet(Q[p])
  PROVE  IsFiniteSet(UNION {Q[p] : p \in P})
<1>. DEFINE All(R) == UNION {Q[p] : p \in R}
            Bad == {R \in SUBSET P : ~IsFiniteSet(All(R))}
<1>. SUFFICES ASSUME Bad # {} PROVE FALSE
  OBVIOUS
<1>1. PICK R \in Bad : \A U \in Bad : U \subseteq R => U = R
  <2>1. Bad \in SUBSET (SUBSET P)
    OBVIOUS
  <2>. HIDE DEF Bad
  <2>. QED BY <2>1, Smallest
<1>2. R \in SUBSET P /\ ~IsFiniteSet(All(R))
  OBVIOUS
<1>3. R # {}
  <2>1. All({}) = {}
    OBVIOUS
  <2>. HIDE DEF All
  <2>. QED BY <1>2, <2>1, FS_EmptySet
<1>4. PICK p \in R : TRUE
  BY <1>3
<1>5. IsFiniteSet(All(R \ {p}))
  <2>1. R \ {p} \in SUBSET P /\ R \ {p} \subseteq R /\ R \ {p} # R
    BY <1>2, <1>4
  <2>2. R \ {p} \notin Bad
    <3>. HIDE DEF Bad
    <3>. QED BY <1>1, <2>1
  <2>. HIDE DEF All
  <2>. QED BY <2>1, <2>2
<1>6. All(R) = Q[p] \cup All(R \ {p})
  OBVIOUS
<1>7. IsFiniteSet(Q[p])
  BY <1>2
<1>. HIDE DEF All, Bad
<1>. QED BY <1>2, <1>5, <1>6, <1>7, FS_Union

DayOf(js, row) == js[row[1]].date
LineOf(js, row) == js[row[1]].lines[row[2]]
FeedRows(js, a, from, to) ==
  {row \in UNION {{k} \X DOMAIN js[k].lines : k \in DOMAIN js} :
     DayOf(js, row) \in from .. to /\ LineOf(js, row).account = a}
FeedBefore(js, p, q) ==
  \/ DayOf(js, p) < DayOf(js, q)
  \/ DayOf(js, p) = DayOf(js, q) /\ p[1] < q[1]
  \/ p[1] = q[1] /\ p[2] < q[2]
FeedEarlier(js, rows) == [q \in rows |-> {p \in rows : FeedBefore(js, p, q)}]
RowNets(js, rows) == [row \in rows |-> LineOf(js, row).net]

LEMMA FeedRow ==
  ASSUME NEW js, Ledger(js), NEW a, NEW from, NEW to, NEW row \in FeedRows(js, a, from, to)
  PROVE  /\ row[1] \in DOMAIN js /\ row[2] \in DOMAIN js[row[1]].lines
         /\ row = <<row[1], row[2]>> /\ row[2] \in Nat
         /\ DayOf(js, row) \in Int /\ DayOf(js, row) \in from .. to
         /\ LineOf(js, row).account = a /\ LineOf(js, row).net \in Int
<1>1. PICK k \in DOMAIN js : row \in {k} \X DOMAIN js[k].lines
  BY DEF FeedRows
<1>2. row[1] = k /\ row[2] \in DOMAIN js[k].lines /\ row = <<row[1], row[2]>>
  BY <1>1
<1>3. js[k].lines \in Seq(EntryLine)
  BY ReportsAssumption DEF Ledger, JournalRow
<1>4. row[2] \in Nat
  <2>1. PICK lines \in Seq(EntryLine) : lines = js[k].lines
    BY <1>3
  <2>2. DOMAIN lines = 1 .. Len(lines) /\ Len(lines) \in Nat
    BY <2>1
  <2>. QED BY <1>2, <2>1, <2>2
<1>5. DayOf(js, row) \in from .. to /\ LineOf(js, row).account = a
  BY DEF FeedRows
<1>. QED BY <1>1, <1>2, <1>4, <1>5, LinesOf DEF DayOf, LineOf

LEMMA FeedIsFinite ==
  ASSUME NEW js, Ledger(js), NEW a, NEW from, NEW to
  PROVE  IsFiniteSet(FeedRows(js, a, from, to))
<1>. DEFINE Q == [k \in DOMAIN js |-> {k} \X DOMAIN js[k].lines]
            all == UNION {Q[k] : k \in DOMAIN js}
<1>1. ASSUME NEW k \in DOMAIN js PROVE IsFiniteSet({k} \X DOMAIN js[k].lines)
  BY LinesOf, FS_Singleton, FS_Product
<1>2. \A k \in DOMAIN js : IsFiniteSet(Q[k])
  BY <1>1
<1>3. FeedRows(js, a, from, to) \in SUBSET all
  BY DEF FeedRows
<1>4. IsFiniteSet(DOMAIN js)
  BY DEF Ledger
<1>. HIDE DEF Q
<1>5. IsFiniteSet(all)
  BY <1>2, <1>4, PartsFinite
<1>. QED BY <1>3, <1>5, FS_Subset

\* The lines of the feed up to a day are what the account moved up to it.
LEMMA FeedSum ==
  ASSUME NEW js, Ledger(js), NEW a, NEW from \in Int, NEW to \in Int, NEW day \in Int, day <= to
  PROVE  SumUp({row \in FeedRows(js, a, from, to) : DayOf(js, row) <= day},
               RowNets(js, FeedRows(js, a, from, to)))
         = Net(js, a, from, day)
<1>. DEFINE rows == FeedRows(js, a, from, to)
            f == RowNets(js, rows)
            S == {row \in rows : DayOf(js, row) <= day}
            P == Within(js, from, day)
            Q == [k \in P |-> {row \in rows : row[1] = k}]
            F == Moves(js, a)
<1>1. IsFiniteSet(rows) /\ S \in SUBSET rows
  BY FeedIsFinite
<1>2. IsFiniteSet(S) /\ \A row \in rows : f[row] \in Int
  BY <1>1, FeedRow, FS_Subset DEF RowNets
<1>3. IsFiniteSet(P) /\ P \subseteq DOMAIN js
  BY FS_Subset DEF Within, Ledger
<1>4. ASSUME NEW k \in P PROVE F[k] = SumUp(Q[k], f)
  <2>1. PICK lines : lines = js[k].lines
    OBVIOUS
  <2>. DEFINE D == DOMAIN lines
              Z == {n \in D : lines[n].account = a}
              m == Moved(lines, a)
              list == [n \in Z |-> <<k, n>>]
  <2>2. IsFiniteSet(D) /\ \A n \in D : m[n] \in Int
    BY <1>3, <2>1, LinesOf DEF Moved
  <2>3. Z \in SUBSET D /\ \A n \in D \ Z : m[n] = 0
    BY DEF Moved
  <2>4. F[k] = SumUp(D, m)
    BY <1>3, <2>1 DEF Moves
  <2>5. k \in DOMAIN js /\ js[k].date \in Int /\ js[k].date \in from .. to /\ js[k].date <= day
    BY <1>3, LinesOf DEF Within
  <2>6. ASSUME NEW n \in Z PROVE /\ <<k, n>> \in rows /\ f[<<k, n>>] = m[n]
    <3>1. <<k, n>> \in {k} \X DOMAIN js[k].lines /\ <<k, n>>[1] = k /\ <<k, n>>[2] = n
      BY <2>1
    <3>2. <<k, n>> \in rows
      BY <2>1, <2>5, <3>1 DEF FeedRows, DayOf, LineOf
    <3>. HIDE DEF rows
    <3>. QED BY <2>1, <3>1, <3>2 DEF RowNets, LineOf, Moved
  <2>7. ASSUME NEW row \in rows, row[1] = k PROVE row[2] \in Z /\ row = <<k, row[2]>>
    BY <2>1, <2>7, FeedRow DEF LineOf
  <2>8. IsFiniteSet(Z)
    BY <2>2, <2>3, FS_Subset
  <2>9. ListsOnce(list, Z, Q[k])
    <3>1. \A n \in Z : list[n] \in Q[k]
      <4>. HIDE DEF rows, Z, f
      <4>. QED BY <2>6
    <3>2. \A x, y \in Z : list[x] = list[y] => x = y
      OBVIOUS
    <3>3. \A x \in Q[k] : \E n \in Z : list[n] = x
      <4>. HIDE DEF rows, Z, f
      <4>. QED BY <2>7
    <3>. HIDE DEF Q, list, Z
    <3>. QED BY <2>8, <3>1, <3>2, <3>3 DEF ListsOnce
  <2>10. \A n \in Z : m[n] = f[list[n]]
    <3>. HIDE DEF rows, Z, f, m
    <3>. QED BY <2>6
  <2>11. \A x \in Q[k] : f[x] \in Int
    <3>. HIDE DEF rows, f
    <3>. QED BY <1>2
  <2>12. IsFiniteSet(Q[k])
    <3>1. Q[k] \in SUBSET rows
      OBVIOUS
    <3>. HIDE DEF rows, Q
    <3>. QED BY <1>1, <3>1, FS_Subset
  <2>. HIDE DEF rows, Z, f, m, list, Q, D
  <2>13. SumUp(D, m) = SumUp(Z, m)
    BY <2>2, <2>3, SumWithin
  <2>14. PICK part : part = Q[k]
    OBVIOUS
  <2>15. SumUp(Z, m) = SumUp(part, f)
    BY <2>9, <2>10, <2>11, <2>12, <2>14, ListSum
  <2>. QED BY <2>4, <2>13, <2>14, <2>15
<1>5. UNION {Q[k] : k \in P} = S
  <2>1. ASSUME NEW k \in P, NEW row \in rows, row[1] = k PROVE row \in S
    BY <2>1, LinesOf DEF Within, DayOf
  <2>2. ASSUME NEW row \in S PROVE row[1] \in P
    BY <2>2, FeedRow DEF Within, DayOf
  <2>. HIDE DEF P, rows
  <2>. QED BY <2>1, <2>2
<1>6. /\ \A k \in P : Q[k] \in SUBSET rows
      /\ \A j, k \in P : j # k => Q[j] \cap Q[k] = {}
  OBVIOUS
<1>. HIDE DEF rows, f, S, P, Q, F
<1>7. \A k \in P : F[k] = SumUp(Q[k], f)
  BY <1>4
<1>8. SumUp(P, F) = SumUp(UNION {Q[k] : k \in P}, f)
  BY <1>1, <1>2, <1>3, <1>6, <1>7, SumOfParts
<1>9. Net(js, a, from, day) = SumUp(P, F)
  BY FiguresAreSums DEF P, F
<1>. QED BY <1>5, <1>8, <1>9 DEF S, f, rows

LEMMA FeedLists ==
  ASSUME NEW js, Ledger(js), DOMAIN js \subseteq Nat, NEW a, NEW from, NEW to
  PROVE  LET rows == FeedRows(js, a, from, to)
             list == InOrder(rows, FeedEarlier(js, rows))
         IN  /\ IsOrder(rows, FeedEarlier(js, rows))
             /\ Lists(list, rows, FeedEarlier(js, rows))
             /\ JournalFeed(js, a, from, to)
                = [n \in DOMAIN list |-> [date |-> DayOf(js, list[n]), net |-> LineOf(js, list[n]).net]]
<1>. DEFINE rows == FeedRows(js, a, from, to)
            earlier == FeedEarlier(js, rows)
            list == InOrder(rows, earlier)
<1>1. JournalFeed(js, a, from, to)
      = [n \in DOMAIN list |-> [date |-> DayOf(js, list[n]), net |-> LineOf(js, list[n]).net]]
  BY DEF JournalFeed, FeedRows, FeedEarlier, FeedBefore, DayOf, LineOf
<1>2. \A x \in rows : earlier[x] = {p \in rows : FeedBefore(js, p, x)}
  BY DEF FeedEarlier
<1>3. IsFiniteSet(rows)
  BY FeedIsFinite
<1>4. \A row \in rows : /\ row[1] \in Nat /\ row[2] \in Nat /\ row = <<row[1], row[2]>>
                        /\ DayOf(js, row) \in Int /\ DayOf(js, row) = js[row[1]].date
  BY FeedRow DEF DayOf
<1>. HIDE DEF rows, earlier
<1>5. \A x \in rows : ~FeedBefore(js, x, x)
  BY <1>4 DEF FeedBefore
<1>6. \A x, y \in rows : x = y \/ FeedBefore(js, x, y) \/ FeedBefore(js, y, x)
  <2>1. ASSUME NEW x \in rows, NEW y \in rows, ~FeedBefore(js, x, y), ~FeedBefore(js, y, x)
        PROVE  x[1] = y[1] /\ x[2] = y[2]
    BY <1>4, <2>1 DEF FeedBefore
  <2>. QED BY <1>4, <2>1
<1>7. \A x, y, z \in rows : FeedBefore(js, x, y) /\ FeedBefore(js, y, z) => FeedBefore(js, x, z)
  BY <1>4 DEF FeedBefore
<1>8. IsOrder(rows, earlier)
  BY <1>2, <1>3, <1>5, <1>6, <1>7 DEF IsOrder
<1>9. Lists(list, rows, earlier)
  BY <1>8, OrderLists
<1>. QED BY <1>1, <1>8, <1>9 DEF rows, earlier

\* The same journals within a window.
SameWithin(js, read, from, to) ==
  /\ Within(js, from, to) = Within(read, from, to)
  /\ \A k \in Within(js, from, to) : js[k] = read[k]

LEMMA SameNets ==
  ASSUME NEW js, Ledger(js), NEW read, Ledger(read), NEW from \in Int, NEW to \in Int,
         SameWithin(js, read, from, to), NEW a, NEW day \in Int, day <= to
  PROVE  Net(js, a, from, day) = Net(read, a, from, day)
<1>. DEFINE S == Within(js, from, day)
<1>1. Within(read, from, day) = S
  <2>1. \A k \in DOMAIN js : k \in S <=> k \in Within(js, from, to) /\ js[k].date <= day
    BY LinesOf DEF Within
  <2>2. \A k \in DOMAIN read :
          k \in Within(read, from, day) <=> k \in Within(read, from, to) /\ read[k].date <= day
    BY LinesOf DEF Within
  <2>3. S \subseteq DOMAIN js /\ Within(read, from, day) \subseteq DOMAIN read
        /\ Within(js, from, to) \subseteq DOMAIN js /\ Within(read, from, to) \subseteq DOMAIN read
    BY DEF Within
  <2>. HIDE DEF S
  <2>. QED BY <2>1, <2>2, <2>3 DEF SameWithin
<1>2. \A k \in S : k \in DOMAIN js /\ k \in DOMAIN read /\ js[k] = read[k]
  <2>1. ASSUME NEW k \in S PROVE k \in Within(js, from, to)
    BY LinesOf DEF Within
  <2>. QED BY <1>1, <2>1 DEF SameWithin, Within
<1>3. \A k \in S : Moves(js, a)[k] = Moves(read, a)[k]
  BY <1>2 DEF Moves
<1>4. IsFiniteSet(S)
  BY FS_Subset DEF Within, Ledger
<1>. HIDE DEF S
<1>5. SumUp(S, Moves(js, a)) = SumUp(S, Moves(read, a))
  BY <1>3, <1>4, SumSame
<1>. QED BY <1>1, <1>5, FiguresAreSums DEF S

\* A group opens at the balance of the day before, and closes at that of the last day.
LEMMA GroupOpens ==
  ASSUME NEW js, Ledger(js), NEW from \in ReportDays, NEW to \in ReportDays, from <= to,
         NEW a \in ChartAccounts, NEW group, group = AccountGroups(js, from, to)[a]
  PROVE  /\ group.closing - group.debit + group.credit = Balance(js, a, DayBefore(from))
         /\ group.closing = Balance(js, a, to)
         /\ \A day \in Int : from - 1 <= day =>
              /\ Balance(js, a, day) = Balance(js, a, DayBefore(from)) + Net(js, a, from, day)
              /\ Balance(js, a, DayBefore(from)) \in Int /\ Net(js, a, from, day) \in Int
<1>1. from \in Int /\ to \in Int /\ from > 0 /\ Never \in Int /\ Never <= from
  <2>1. from \in Nat /\ from # 0 /\ to \in Nat /\ YearLength \in Nat
    BY ReportsAssumption
  <2>. QED BY <2>1 DEF Never
<1>2. /\ group.debit = Debits(js, a, from, to)
      /\ group.credit = Credits(js, a, from, to)
      /\ group.closing = Balance(js, a, to)
  BY <1>1, ScanIsEnough DEF AccountGroups, Balance
<1>3. ASSUME NEW day \in Int, from - 1 <= day
      PROVE  /\ Balance(js, a, day) = Balance(js, a, DayBefore(from)) + Net(js, a, from, day)
             /\ Balance(js, a, DayBefore(from)) \in Int /\ Net(js, a, from, day) \in Int
  <2>1. PICK eve \in Int : eve = from - 1
    BY <1>1
  <2>2. Never <= eve + 1 /\ eve <= day /\ eve + 1 = from
    BY <1>1, <1>3, <2>1
  <2>3. Net(js, a, Never, day) = Net(js, a, Never, eve) + Net(js, a, eve + 1, day)
    BY <1>1, <2>2, NetSplits
  <2>. QED BY <2>1, <2>2, <2>3, NetOfSides DEF Balance, DayBefore
<1>4. Debits(js, a, from, to) = Net(js, a, from, to) + Credits(js, a, from, to)
      /\ Credits(js, a, from, to) \in Int
  BY NetOfSides
<1>5. /\ Balance(js, a, to) = Balance(js, a, DayBefore(from)) + Net(js, a, from, to)
      /\ Balance(js, a, DayBefore(from)) \in Int /\ Net(js, a, from, to) \in Int
  BY <1>1, <1>3
<1>6. PICK eve \in Int, net \in Int, credit \in Int :
        /\ eve = Balance(js, a, DayBefore(from)) /\ net = Net(js, a, from, to)
        /\ credit = Credits(js, a, from, to)
  BY <1>4, <1>5
<1>7. group.closing = eve + net /\ group.debit = net + credit /\ group.credit = credit
  BY <1>2, <1>4, <1>5, <1>6
<1>8. group.closing - group.debit + group.credit = eve
  BY <1>7
<1>. QED BY <1>2, <1>3, <1>6, <1>8

\* What a reader prints of an account: the groups of one read, the lines of another that
\* found the same journals in the window.
DetailFootsFor(block, read, a, from) ==
  /\ block.opening = Balance(read, a, DayBefore(from))
  /\ \A n \in DOMAIN block.lines :
       n = Len(block.lines) \/ block.lines[n + 1].date > block.lines[n].date =>
         block.lines[n].balance = Balance(read, a, block.lines[n].date)
  /\ block.lines # << >> => block.lines[Len(block.lines)].balance = block.closing

LEMMA BlockFoots ==
  ASSUME NEW js, Ledger(js), DOMAIN js \subseteq Nat, NEW read, Ledger(read),
         NEW from \in ReportDays, NEW to \in ReportDays, from <= to,
         SameWithin(js, read, from, to), NEW a \in ChartAccounts
  PROVE  DetailFootsFor(Detail(AccountGroups(read, from, to)[a], JournalFeed(js, a, from, to)),
                        read, a, from)
<1>1. from \in Int /\ to \in Int
  BY ReportsAssumption
<1>2. PICK group : group = AccountGroups(read, from, to)[a]
  OBVIOUS
<1>3. PICK eve : eve = Balance(read, a, DayBefore(from))
  OBVIOUS
<1>4. /\ group.closing - group.debit + group.credit = eve
      /\ group.closing = Balance(read, a, to)
      /\ eve \in Int
      /\ \A day \in Int : from - 1 <= day =>
           Balance(read, a, day) = eve + Net(read, a, from, day) /\ Net(read, a, from, day) \in Int
  BY <1>1, <1>2, <1>3, GroupOpens
<1>5. PICK rows : rows = FeedRows(js, a, from, to)
  OBVIOUS
<1>6. PICK earlier : earlier = FeedEarlier(js, rows)
  OBVIOUS
<1>7. PICK list : list = InOrder(rows, earlier)
  OBVIOUS
<1>8. PICK feed : feed = JournalFeed(js, a, from, to)
  OBVIOUS
<1>9. /\ IsOrder(rows, earlier) /\ Lists(list, rows, earlier)
      /\ feed = [n \in DOMAIN list |-> [date |-> DayOf(js, list[n]), net |-> LineOf(js, list[n]).net]]
  BY <1>5, <1>6, <1>7, <1>8, FeedLists
<1>10. PICK len \in Nat : DOMAIN list = 1 .. len
  BY <1>9 DEF Lists
<1>11. \A row \in rows : /\ DayOf(js, row) \in Int /\ from <= DayOf(js, row) /\ DayOf(js, row) <= to
                         /\ LineOf(js, row).net \in Int
  BY <1>1, <1>5, FeedRow
<1>12. IsFiniteSet(rows)
  BY <1>5, FeedIsFinite
<1>. DEFINE f == RowNets(js, rows)
            upTo(day) == {row \in rows : DayOf(js, row) <= day}
            day(n) == DayOf(js, list[n])
<1>13. ASSUME NEW d \in Int, d <= to, from <= d PROVE eve + SumUp(upTo(d), f) = Balance(read, a, d)
  <2>1. SumUp(upTo(d), f) = Net(js, a, from, d)
    BY <1>1, <1>5, <1>13, FeedSum
  <2>2. Net(js, a, from, d) = Net(read, a, from, d)
    BY <1>1, <1>13, SameNets
  <2>3. from - 1 <= d
    BY <1>1, <1>13
  <2>. QED BY <1>4, <2>1, <2>2, <2>3
<1>14. ASSUME NEW m \in DOMAIN list, NEW n \in DOMAIN list, m <= n PROVE day(m) <= day(n)
  <2>1. list[m] \in rows /\ list[n] \in rows
    BY <1>9 DEF Lists
  <2>2. CASE m = n
    BY <1>11, <2>1, <2>2
  <2>3. CASE m < n
    <3>1. FeedBefore(js, list[m], list[n])
      BY <1>6, <1>9, <2>1, <2>3 DEF Lists, FeedEarlier
    <3>. QED BY <1>11, <2>1, <3>1 DEF FeedBefore, DayOf
  <2>. QED BY <1>10, <1>14, <2>2, <2>3
<1>15. \A n \in DOMAIN list : list[n] \in rows /\ day(n) \in Int /\ from <= day(n) /\ day(n) <= to
  BY <1>9, <1>11 DEF Lists
<1>16. ASSUME NEW n \in DOMAIN list, n = len \/ day(n + 1) > day(n)
       PROVE  {list[n]} \cup earlier[list[n]] = upTo(day(n))
  <2>1. ASSUME NEW row \in {list[n]} \cup earlier[list[n]] PROVE row \in upTo(day(n))
    <3>1. CASE row = list[n]
      BY <1>15, <3>1
    <3>2. CASE row \in earlier[list[n]]
      <4>1. row \in rows /\ FeedBefore(js, row, list[n])
        BY <1>6, <1>15, <3>2 DEF FeedEarlier
      <4>2. DayOf(js, row) <= day(n)
        BY <1>11, <1>15, <4>1 DEF FeedBefore, DayOf
      <4>. QED BY <4>1, <4>2
    <3>. QED BY <2>1, <3>1, <3>2
  <2>2. ASSUME NEW row \in rows, DayOf(js, row) <= day(n)
        PROVE  row \in {list[n]} \cup earlier[list[n]]
    <3>1. PICK m \in DOMAIN list : list[m] = row
      BY <1>9 DEF Lists
    <3>2. CASE m <= n
      <4>1. m = n \/ m < n
        BY <1>10, <3>2
      <4>. QED BY <1>9, <3>1, <4>1 DEF Lists
    <3>3. CASE ~(m <= n)
      <4>1. n + 1 \in DOMAIN list /\ n + 1 <= m /\ n # len
        BY <1>10, <3>3
      <4>2. day(n + 1) <= day(m) /\ day(m) <= day(n)
        BY <1>14, <2>2, <3>1, <4>1
      <4>3. day(n + 1) \in Int /\ day(n) \in Int /\ day(m) \in Int /\ day(n + 1) > day(n)
        BY <1>15, <1>16, <4>1
      <4>. HIDE DEF day
      <4>. QED BY <4>2, <4>3
    <3>. QED BY <3>2, <3>3
  <2>. HIDE DEF day
  <2>. QED BY <2>1, <2>2
<1>. DEFINE nets == [m \in DOMAIN feed |-> feed[m].net]
            lines == Running(eve, feed)
<1>17. \A n \in DOMAIN list : nets[n] = f[list[n]] /\ f[list[n]] \in Int
  BY <1>9, <1>11, <1>15 DEF RowNets
<1>18. /\ DOMAIN lines = 1 .. len
       /\ \A n \in 1 .. len : lines[n].date = day(n) /\ lines[n].balance = eve + SumUp(1 .. n, nets)
  BY <1>9, <1>10, TotalIsSum DEF Running
<1>19. ASSUME NEW n \in DOMAIN list
       PROVE  SumUp(1 .. n, nets) = SumUp({list[n]} \cup earlier[list[n]], f)
  <2>. DEFINE before == {list[n]} \cup earlier[list[n]]
  <2>1. ListsOnce(list, 1 .. n, before)
    BY <1>9, ListParts
  <2>2. before \in SUBSET rows
    BY <1>9, <1>15 DEF IsOrder
  <2>3. IsFiniteSet(before) /\ \A x \in before : f[x] \in Int
    BY <1>11, <1>12, <2>2, FS_Subset DEF RowNets
  <2>4. \A m \in 1 .. n : nets[m] = f[list[m]]
    <3>1. \A m \in 1 .. n : m \in DOMAIN list
      BY <1>10
    <3>. HIDE DEF f, nets
    <3>. QED BY <1>17, <3>1
  <2>5. PICK places : places = 1 .. n
    OBVIOUS
  <2>. HIDE DEF before, f, nets
  <2>6. ListsOnce(list, places, before) /\ \A m \in places : nets[m] = f[list[m]]
    BY <2>1, <2>4, <2>5
  <2>7. SumUp(places, nets) = SumUp(before, f)
    BY <2>3, <2>6, ListSum
  <2>. QED BY <2>5, <2>7 DEF before
<1>20. ASSUME NEW n \in DOMAIN list, n = len \/ day(n + 1) > day(n)
       PROVE  lines[n].balance = Balance(read, a, day(n))
  <2>. HIDE DEF lines, nets, f, upTo, day
  <2>1. eve + SumUp(upTo(day(n)), f) = Balance(read, a, day(n))
    BY <1>13, <1>15
  <2>. QED BY <1>10, <1>16, <1>18, <1>19, <1>20, <2>1
<1>21. len # 0 => Balance(read, a, day(len)) = Balance(read, a, to)
  <2>. SUFFICES ASSUME len # 0 PROVE Balance(read, a, day(len)) = Balance(read, a, to)
    OBVIOUS
  <2>1. len \in DOMAIN list
    BY <1>10
  <2>2. upTo(day(len)) = upTo(to)
    <3>1. ASSUME NEW row \in rows PROVE DayOf(js, row) <= day(len)
      <4>1. PICK m \in DOMAIN list : list[m] = row
        BY <1>9 DEF Lists
      <4>. QED BY <1>10, <1>14, <2>1, <4>1
    <3>. QED BY <1>11, <3>1
  <2>3. day(len) \in Int /\ from <= day(len) /\ day(len) <= to
    BY <1>15, <2>1
  <2>. HIDE DEF upTo, day, f
  <2>4. /\ eve + SumUp(upTo(day(len)), f) = Balance(read, a, day(len))
        /\ eve + SumUp(upTo(to), f) = Balance(read, a, to)
    BY <1>1, <1>13, <2>3
  <2>. QED BY <2>2, <2>4
<1>22. Len(lines) = len /\ (lines # << >> => len # 0)
  <2>. DEFINE T == {lines[n] : n \in 1 .. len}
  <2>. HIDE DEF lines
  <2>1. lines \in [1 .. len -> T]
    <3>1. DOMAIN feed = 1 .. len
      BY <1>9, <1>10
    <3>2. lines = [n \in 1 .. len |-> lines[n]]
      BY <3>1 DEF lines, Running
    <3>. QED BY <3>2
  <2>2. lines \in Seq(T)
    BY <2>1, SeqDef
  <2>3. Len(lines) = len
    BY <2>1, <2>2, LenProperties
  <2>. QED BY <2>2, <2>3, EmptySeq
<1>23. PICK block : block = Detail(group, feed)
  OBVIOUS
<1>24. block.opening = eve /\ block.closing = group.closing /\ block.lines = lines
  BY <1>4, <1>23 DEF Detail
<1>. HIDE DEF lines, nets, f, upTo, day
<1>25. \A n \in DOMAIN lines :
         n = Len(lines) \/ lines[n + 1].date > lines[n].date =>
           lines[n].balance = Balance(read, a, lines[n].date)
  <2>. SUFFICES ASSUME NEW n \in 1 .. len, n = len \/ lines[n + 1].date > lines[n].date
                PROVE  lines[n].balance = Balance(read, a, lines[n].date)
    BY <1>18, <1>22
  <2>1. n = len \/ day(n + 1) > day(n)
    <3>1. n # len => n + 1 \in 1 .. len
      OBVIOUS
    <3>. QED BY <1>18, <3>1
  <2>. QED BY <1>10, <1>18, <1>20, <2>1
<1>26. lines # << >> => lines[Len(lines)].balance = group.closing
  <2>. SUFFICES ASSUME lines # << >> PROVE lines[len].balance = group.closing
    BY <1>22
  <2>1. len \in DOMAIN list
    BY <1>10, <1>22
  <2>. QED BY <1>4, <1>20, <1>21, <1>22, <2>1
<1>. QED BY <1>2, <1>3, <1>8, <1>23, <1>24, <1>25, <1>26 DEF DetailFootsFor

\* The reader: until a journal of the window comes or goes, the ledger is what its first
\* statement found there; and what it prints then foots.
ReaderFields == {"at", "from", "to", "moved", "groups", "read"}
ReaderInv ==
  /\ Ledger(journals) /\ AddsUp(journals) /\ DOMAIN journals \subseteq JournalIds
  /\ reader # Resting =>
       /\ DOMAIN reader = ReaderFields /\ reader.at \in {"groups", "printed"}
       /\ reader.from \in ReportDays /\ reader.to \in ReportDays /\ reader.from <= reader.to
       /\ Ledger(reader.read)
  /\ reader.at = "groups" =>
       /\ reader.groups = AccountGroups(reader.read, reader.from, reader.to)
       /\ reader.moved \/ SameWithin(journals, reader.read, reader.from, reader.to)
  /\ LedgerDetailFoots

LEMMA ReaderBegins == ReportsInit => ReaderInv
<1>. SUFFICES ASSUME ReportsInit PROVE ReaderInv
  OBVIOUS
<1>1. Ledger(journals) /\ AddsUp(journals)
  BY LedgerBegins
<1>2. journals = << >> /\ reader = Resting /\ reader.at = "resting"
  BY DEF ReportsInit, Resting
<1>. QED BY <1>1, <1>2 DEF ReaderInv, LedgerDetailFoots

\* A journal comes or goes on a day.
LEMMA ReaderUnsettled ==
  ASSUME ReaderInv, Ledger(journals)', AddsUp(journals)', NEW k, NEW day \in ReportDays,
         DOMAIN journals' \subseteq JournalIds, Unsettle(day),
         \A x \in DOMAIN journals \ {k} : x \in DOMAIN journals' /\ journals'[x] = journals[x],
         \A x \in DOMAIN journals' \ {k} : x \in DOMAIN journals,
         k \in DOMAIN journals => journals[k].date = day,
         k \in DOMAIN journals' => journals'[k].date = day
  PROVE  ReaderInv'
<1>1. CASE reader.at = "groups"
  <2>1. reader # Resting
    BY <1>1 DEF Resting
  <2>2. /\ DOMAIN reader = ReaderFields /\ reader.from \in ReportDays /\ reader.to \in ReportDays
        /\ reader.from <= reader.to /\ Ledger(reader.read)
        /\ reader.groups = AccountGroups(reader.read, reader.from, reader.to)
        /\ reader.moved \/ SameWithin(journals, reader.read, reader.from, reader.to)
    BY <1>1, <2>1 DEF ReaderInv
  <2>3. /\ DOMAIN reader' = ReaderFields /\ reader'.at = "groups"
        /\ reader'.from = reader.from /\ reader'.to = reader.to
        /\ reader'.groups = reader.groups /\ reader'.read = reader.read
        /\ reader'.moved \/ (day \notin reader.from .. reader.to /\ reader'.moved = reader.moved)
    <3>1. CASE day \in reader.from .. reader.to
      <4>1. reader' = [reader EXCEPT !.moved = TRUE]
        BY <1>1, <3>1 DEF Unsettle
      <4>. QED BY <1>1, <2>2, <3>1, <4>1 DEF ReaderFields
    <3>2. CASE day \notin reader.from .. reader.to
      BY <1>1, <2>2, <3>2 DEF Unsettle
    <3>. QED BY <3>1, <3>2
  <2>4. reader'.moved \/ SameWithin(journals', reader.read, reader.from, reader.to)
    <3>. SUFFICES ASSUME day \notin reader.from .. reader.to, ~reader'.moved, ~reader.moved
                  PROVE  SameWithin(journals', reader.read, reader.from, reader.to)
      BY <2>3
    <3>1. SameWithin(journals, reader.read, reader.from, reader.to)
      BY <2>2
    <3>2. \A x \in Within(journals, reader.from, reader.to) :
            x # k /\ x \in Within(journals', reader.from, reader.to) /\ journals'[x] = journals[x]
      BY DEF Within
    <3>3. \A x \in Within(journals', reader.from, reader.to) :
            x # k /\ x \in Within(journals, reader.from, reader.to)
      BY DEF Within
    <3>4. Within(journals', reader.from, reader.to) = Within(journals, reader.from, reader.to)
      BY <3>2, <3>3
    <3>. QED BY <3>1, <3>2, <3>4 DEF SameWithin
  <2>5. LedgerDetailFoots'
    BY <2>3 DEF LedgerDetailFoots
  <2>6. /\ reader' # Resting
        /\ DOMAIN reader' = ReaderFields /\ reader'.at \in {"groups", "printed"}
        /\ reader'.from \in ReportDays /\ reader'.to \in ReportDays /\ reader'.from <= reader'.to
        /\ Ledger(reader'.read)
    BY <2>2, <2>3 DEF Resting
  <2>7. /\ reader'.groups = AccountGroups(reader'.read, reader'.from, reader'.to)
        /\ reader'.moved \/ SameWithin(journals', reader'.read, reader'.from, reader'.to)
    BY <2>2, <2>3, <2>4
  <2>. QED BY <2>5, <2>6, <2>7 DEF ReaderInv
<1>2. CASE reader.at # "groups"
  <2>1. reader' = reader
    BY <1>2 DEF Unsettle
  <2>2. LedgerDetailFoots'
    BY <2>1 DEF ReaderInv, LedgerDetailFoots
  <2>. QED BY <1>2, <2>1, <2>2 DEF ReaderInv
<1>. QED BY <1>1, <1>2

LEMMA ReaderStays == ReaderInv /\ [ReportsNext]_reportVars => ReaderInv'
<1>. SUFFICES ASSUME ReaderInv, [ReportsNext]_reportVars PROVE ReaderInv'
  OBVIOUS
<1>1. Ledger(journals)' /\ AddsUp(journals)'
  BY LedgerStays DEF ReaderInv
<1>2. ASSUME NEW k \in JournalIds, NEW lines \in Entries, NEW day \in ReportDays,
             PostJournal(k, lines, day)
      PROVE  ReaderInv'
  <2>1. /\ DOMAIN journals' = DOMAIN journals \cup {k} /\ k \notin DOMAIN journals
        /\ journals'[k].date = day
        /\ \A x \in DOMAIN journals \ {k} : journals'[x] = journals[x]
    BY <1>2 DEF PostJournal
  <2>2. Unsettle(day) /\ DOMAIN journals' \subseteq JournalIds
    BY <1>2, <2>1 DEF PostJournal, ReaderInv
  <2>. QED BY <1>1, <2>1, <2>2, ReaderUnsettled
<1>3. ASSUME NEW k \in JournalIds, RemoveJournal(k) PROVE ReaderInv'
  <2>1. /\ DOMAIN journals' = DOMAIN journals \ {k} /\ k \in DOMAIN journals
        /\ \A x \in DOMAIN journals \ {k} : journals'[x] = journals[x]
    BY <1>3 DEF RemoveJournal
  <2>2. PICK day \in ReportDays : day = journals[k].date
    BY <2>1 DEF ReaderInv, Ledger, JournalRow
  <2>3. Unsettle(day) /\ DOMAIN journals' \subseteq JournalIds
    BY <1>3, <2>1, <2>2 DEF RemoveJournal, ReaderInv
  <2>. QED BY <1>1, <2>1, <2>2, <2>3, ReaderUnsettled
<1>4. ASSUME NEW from \in ReportDays, NEW to \in ReportDays, from <= to, ReadGroups(from, to)
      PROVE  ReaderInv'
  <2>1. /\ DOMAIN reader' = ReaderFields /\ reader'.at = "groups"
        /\ reader'.from = from /\ reader'.to = to /\ reader'.moved = FALSE
        /\ reader'.groups = AccountGroups(journals, from, to) /\ reader'.read = journals
        /\ journals' = journals
    BY <1>4 DEF ReadGroups, ReaderFields
  <2>2. SameWithin(journals, journals, from, to)
    BY DEF SameWithin
  <2>3. LedgerDetailFoots'
    BY <2>1 DEF LedgerDetailFoots
  <2>. QED BY <1>4, <2>1, <2>2, <2>3 DEF ReaderInv
<1>5. ASSUME ReadLines PROVE ReaderInv'
  <2>1. reader.at = "groups" /\ reader # Resting /\ journals' = journals
    BY <1>5 DEF ReadLines, Resting
  <2>2. /\ DOMAIN reader = ReaderFields /\ reader.from \in ReportDays /\ reader.to \in ReportDays
        /\ reader.from <= reader.to /\ Ledger(reader.read)
        /\ reader.groups = AccountGroups(reader.read, reader.from, reader.to)
        /\ reader.moved \/ SameWithin(journals, reader.read, reader.from, reader.to)
    BY <2>1 DEF ReaderInv
  <2>3. /\ DOMAIN reader' = ReaderFields /\ reader'.at = "printed"
        /\ reader'.from = reader.from /\ reader'.to = reader.to
        /\ reader'.read = reader.read /\ reader'.moved = reader.moved
        /\ reader'.groups = [a \in ChartAccounts |->
             Detail(reader.groups[a], JournalFeed(journals, a, reader.from, reader.to))]
    BY <1>5, <2>2 DEF ReadLines, ReaderFields
  <2>4. ASSUME ~reader.moved, NEW a \in ChartAccounts
        PROVE  DetailFootsFor(reader'.groups[a], reader.read, a, reader.from)
    <3>1. PICK from, to, read : from = reader.from /\ to = reader.to /\ read = reader.read
      OBVIOUS
    <3>2. reader'.groups[a] = Detail(AccountGroups(read, from, to)[a], JournalFeed(journals, a, from, to))
      BY <2>2, <2>3, <3>1
    <3>3. /\ Ledger(journals) /\ DOMAIN journals \subseteq Nat
          /\ SameWithin(journals, read, from, to) /\ Ledger(read)
          /\ from \in ReportDays /\ to \in ReportDays /\ from <= to
      BY <2>2, <2>4, <3>1, ReportsAssumption DEF ReaderInv
    <3>4. DetailFootsFor(Detail(AccountGroups(read, from, to)[a], JournalFeed(journals, a, from, to)),
                         read, a, from)
      BY <3>3, BlockFoots
    <3>. QED BY <3>1, <3>2, <3>4
  <2>5. LedgerDetailFoots'
    BY <2>3, <2>4 DEF LedgerDetailFoots, DetailFootsFor
  <2>. QED BY <1>1, <2>1, <2>2, <2>3, <2>5 DEF ReaderInv
<1>6. ASSUME Answer PROVE ReaderInv'
  <2>1. reader' = Resting /\ reader'.at = "resting" /\ journals' = journals
    BY <1>6 DEF Answer, Resting
  <2>. QED BY <1>1, <2>1 DEF ReaderInv, LedgerDetailFoots
<1>7. CASE UNCHANGED reportVars
  BY <1>7 DEF reportVars, ReaderInv, LedgerDetailFoots
<1>. QED BY <1>2, <1>3, <1>4, <1>5, <1>6, <1>7 DEF ReportsNext

\* General ledger detail foots, whatever journals there are, whatever window it is asked
\* for and whatever is posted outside that window between its two statements.
THEOREM LedgerDetailAgrees == ReportsSpec => []LedgerDetailFoots
<1>1. ReaderInv => LedgerDetailFoots
  BY DEF ReaderInv
<1>. QED BY <1>1, ReaderBegins, ReaderStays, PTL DEF ReportsSpec

(***************************************************************************)
(* Form 1120, for any chart, any books and any placement that is sound.    *)
(***************************************************************************)
LEMMA FewAreFinite ==
  ASSUME NEW a, NEW b, NEW c, NEW d, NEW e
  PROVE  IsFiniteSet({a, b, c, d, e})
<1>1. PICK five : five = (({a} \cup {b}) \cup ({c} \cup {d})) \cup {e}
  OBVIOUS
<1>2. \A x : IsFiniteSet({x})
  BY FS_Singleton
<1>3. \A S, T : IsFiniteSet(S) /\ IsFiniteSet(T) => IsFiniteSet(S \cup T)
  BY FS_Union
<1>4. IsFiniteSet(five)
  BY <1>1, <1>2, <1>3
<1>5. five = {a, b, c, d, e}
  BY <1>1
<1>. QED BY <1>4, <1>5

LEMMA OneIsFinite ==
  /\ IsFiniteSet({})
  /\ \A x : IsFiniteSet({x})
  /\ \A x, y : IsFiniteSet({x, y})
  /\ \A x, y, z, u : IsFiniteSet({x, y, z, u})
  /\ \A x, y, z, u, v : IsFiniteSet({x, y, z, u, v})
<1>1. ASSUME NEW x, NEW y PROVE IsFiniteSet({x, y})
  <2>1. {x, y} = {x, y, y, y, y}
    OBVIOUS
  <2>. QED BY <2>1, FewAreFinite
<1>2. ASSUME NEW x, NEW y, NEW z, NEW u PROVE IsFiniteSet({x, y, z, u})
  <2>1. {x, y, z, u} = {x, y, z, u, u}
    OBVIOUS
  <2>. QED BY <2>1, FewAreFinite
<1>. QED BY <1>1, <1>2, FS_EmptySet, FS_Singleton, FewAreFinite

LEMMA LinesAreFinite ==
  /\ IsFiniteSet(OtherIncome) /\ IsFiniteSet(DeductionLines)
  /\ IsFiniteSet(AssetLines) /\ IsFiniteSet(ClaimLines)
<1>1. \A S, T : IsFiniteSet(S) /\ IsFiniteSet(T) => IsFiniteSet(S \cup T)
  BY FS_Union
<1>2. IsFiniteSet(OtherIncome)
  <2>1. OtherIncome = {"4", "5", "6", "7", "8"} \cup {"9", "10", "4", "4", "4"}
    BY DEF OtherIncome
  <2>. QED BY <1>1, <2>1, FewAreFinite
<1>3. IsFiniteSet(DeductionLines)
  <2>1. DeductionLines = ({"12", "13", "14", "15", "16"} \cup {"17", "18", "19", "20", "21"})
                         \cup {"22", "23", "24", "25", "26"}
    BY DEF DeductionLines
  <2>. QED BY <1>1, <2>1, FewAreFinite
<1>4. IsFiniteSet(AssetLines)
  <2>1. AssetLines = ({"L1", "L2", "L3", "L4", "L5"} \cup {"L6", "L7", "L8", "L9", "L10a"})
                     \cup {"L10b", "L11", "L12", "L13", "L14"}
    BY DEF AssetLines
  <2>. QED BY <1>1, <2>1, FewAreFinite
<1>5. IsFiniteSet(ClaimLines)
  <2>1. ClaimLines = ({"L16", "L17", "L18", "L19", "L20"} \cup {"L21", "L22", "L23", "L24", "L25"})
                     \cup {"L26", "L26", "L26", "L26", "L26"}
    BY DEF ClaimLines
  <2>. QED BY <1>1, <2>1, FewAreFinite
<1>. QED BY <1>2, <1>3, <1>4, <1>5

LEMMA TheFormulas ==
  /\ Len(Formulas) = 12
  /\ Formulas[1] = Formula("1c", {"1a"}, {"1b"})
  /\ Formulas[2] = Formula("3", {"1c"}, {"2"})
  /\ Formulas[3] = Formula("11", {"3"} \cup OtherIncome, {})
  /\ Formulas[4] = Formula("27", DeductionLines, {})
  /\ Formulas[5] = Formula("28", {"11"}, {"27"})
  /\ Formulas[6] = Formula("30", {"28"}, {"29"})
  /\ Formulas[7] = Formula("L15", AssetLines, {})
  /\ Formulas[8] = Formula("L27", ClaimLines, {})
  /\ Formulas[9] = Formula("LCHECK", {"L15"}, {"L27"})
  /\ Formulas[10] = Formula("M6", {"M1", "M2", "M3", "M4", "M5"}, {})
  /\ Formulas[11] = Formula("M9", {"M7", "M8"}, {})
  /\ Formulas[12] = Formula("M10", {"M6"}, {"M9"})
BY DEF Formulas

\* One formula.
Filled(c, f) == [c EXCEPT ![f.line] = Total(f.plus, c) - Total(f.minus, c)]

IsPass(g, column) ==
  g = [n \in 0 .. 12 |-> IF n = 0 THEN column ELSE Filled(g[n - 1], Formulas[n])]

LEMMA PassExists == ASSUME NEW column PROVE \E g : IsPass(g, column)
<1>. DEFINE c1 == Filled(column, Formulas[1])
            c2 == Filled(c1, Formulas[2])
            c3 == Filled(c2, Formulas[3])
            c4 == Filled(c3, Formulas[4])
            c5 == Filled(c4, Formulas[5])
            c6 == Filled(c5, Formulas[6])
            c7 == Filled(c6, Formulas[7])
            c8 == Filled(c7, Formulas[8])
            c9 == Filled(c8, Formulas[9])
            c10 == Filled(c9, Formulas[10])
            c11 == Filled(c10, Formulas[11])
            c12 == Filled(c11, Formulas[12])
            g == [n \in 0 .. 12 |->
                    CASE n = 0 -> column [] n = 1 -> c1 [] n = 2 -> c2 [] n = 3 -> c3 [] n = 4 -> c4
                      [] n = 5 -> c5 [] n = 6 -> c6 [] n = 7 -> c7 [] n = 8 -> c8 [] n = 9 -> c9
                      [] n = 10 -> c10 [] n = 11 -> c11 [] OTHER -> c12]
<1>1. /\ g[0] = column /\ g[1] = c1 /\ g[2] = c2 /\ g[3] = c3 /\ g[4] = c4 /\ g[5] = c5
      /\ g[6] = c6 /\ g[7] = c7 /\ g[8] = c8 /\ g[9] = c9 /\ g[10] = c10 /\ g[11] = c11
      /\ g[12] = c12
  <2>. HIDE DEF c1, c2, c3, c4, c5, c6, c7, c8, c9, c10, c11, c12
  <2>. QED OBVIOUS
<1>2. \A n \in 0 .. 12 : g[n] = IF n = 0 THEN column ELSE Filled(g[n - 1], Formulas[n])
  <2>. HIDE DEF g
  <2>1. /\ g[1] = Filled(g[0], Formulas[1]) /\ g[2] = Filled(g[1], Formulas[2])
        /\ g[3] = Filled(g[2], Formulas[3]) /\ g[4] = Filled(g[3], Formulas[4])
        /\ g[5] = Filled(g[4], Formulas[5]) /\ g[6] = Filled(g[5], Formulas[6])
        /\ g[7] = Filled(g[6], Formulas[7]) /\ g[8] = Filled(g[7], Formulas[8])
        /\ g[9] = Filled(g[8], Formulas[9]) /\ g[10] = Filled(g[9], Formulas[10])
        /\ g[11] = Filled(g[10], Formulas[11]) /\ g[12] = Filled(g[11], Formulas[12])
    BY <1>1
  <2>2. ASSUME NEW n \in 0 .. 12 PROVE n = 0 \/ g[n] = Filled(g[n - 1], Formulas[n])
    <3>1. \/ n = 0 \/ n = 1 \/ n = 2 \/ n = 3 \/ n = 4 \/ n = 5 \/ n = 6 \/ n = 7 \/ n = 8
          \/ n = 9 \/ n = 10 \/ n = 11 \/ n = 12
      OBVIOUS
    <3>. HIDE DEF c1, c2, c3, c4, c5, c6, c7, c8, c9, c10, c11, c12
    <3>. QED BY <2>1, <3>1
  <2>. HIDE DEF c1, c2, c3, c4, c5, c6, c7, c8, c9, c10, c11, c12
  <2>. QED BY <1>1, <2>2
<1>3. g = [n \in 0 .. 12 |-> g[n]]
  <2>. HIDE DEF c1, c2, c3, c4, c5, c6, c7, c8, c9, c10, c11, c12
  <2>. QED OBVIOUS
<1>. HIDE DEF g
<1>4. IsPass(g, column)
  BY <1>2, <1>3 DEF IsPass
<1>. QED BY <1>4

LEMMA ComputeIsPass ==
  ASSUME NEW column
  PROVE  \E g : IsPass(g, column) /\ Compute(column) = g[12]
<1>1. Compute(column) = (CHOOSE g : IsPass(g, column))[12]
  BY TheFormulas DEF Compute, IsPass, Filled
<1>. QED BY <1>1, PassExists

\* A formula changes its own line.
LEMMA OneLineFilled ==
  ASSUME NEW c \in [Lines -> Int], NEW line \in Lines, NEW plus \in SUBSET Lines,
         NEW minus \in SUBSET Lines, IsFiniteSet(plus), IsFiniteSet(minus),
         NEW f, f = Formula(line, plus, minus)
  PROVE  /\ Filled(c, f) \in [Lines -> Int]
         /\ Filled(c, f)[line] = SumUp(plus, c) - SumUp(minus, c)
         /\ SumUp(plus, c) \in Int /\ SumUp(minus, c) \in Int
         /\ \A l \in Lines \ {line} : Filled(c, f)[l] = c[l]
<1>1. f.line = line /\ f.plus = plus /\ f.minus = minus
  BY DEF Formula
<1>2. (\A l \in plus : c[l] \in Int) /\ (\A l \in minus : c[l] \in Int)
  OBVIOUS
<1>3. SumUp(plus, c) \in Int /\ SumUp(minus, c) \in Int
  BY <1>2, SumIsInt
<1>4. Filled(c, f) = [c EXCEPT ![line] = SumUp(plus, c) - SumUp(minus, c)]
  BY <1>1, TotalIsSum DEF Filled
<1>5. PICK v \in Int : v = SumUp(plus, c) - SumUp(minus, c)
  BY <1>3
<1>6. Filled(c, f) = [c EXCEPT ![line] = v]
  BY <1>4, <1>5
<1>. QED BY <1>3, <1>5, <1>6

LEMMA SumOfTwo ==
  ASSUME NEW x, NEW y, x # y, NEW f, f[x] \in Int, f[y] \in Int
  PROVE  SumUp({x, y}, f) = f[x] + f[y]
<1>1. {x, y} = {y} \cup {x} /\ IsFiniteSet({y}) /\ x \notin {y}
  BY FS_Singleton
<1>2. SumUp({y} \cup {x}, f) = f[x] + SumUp({y}, f)
  BY <1>1, SumAdds
<1>. QED BY <1>1, <1>2, SumOfOne

LEMMA SumOfFive ==
  ASSUME NEW f, f["M1"] \in Int, f["M2"] \in Int, f["M3"] \in Int, f["M4"] \in Int, f["M5"] \in Int
  PROVE  SumUp({"M1", "M2", "M3", "M4", "M5"}, f) = f["M1"] + f["M2"] + f["M3"] + f["M4"] + f["M5"]
<1>1. /\ SumUp({"M1", "M2"}, f) = f["M1"] + f["M2"]
      /\ SumUp({"M3", "M4"}, f) = f["M3"] + f["M4"]
  BY SumOfTwo
<1>2. IsFiniteSet({"M1", "M2"}) /\ IsFiniteSet({"M3", "M4"}) /\ IsFiniteSet({"M1", "M2", "M3", "M4"})
  BY OneIsFinite
<1>3. PICK A, B : A = {"M1", "M2"} /\ B = {"M3", "M4"}
  OBVIOUS
<1>4. SumUp(A \cup B, f) = SumUp(A, f) + SumUp(B, f)
  <2>1. A \cap B = {} /\ IsFiniteSet(A) /\ IsFiniteSet(B) /\ \A x \in A \cup B : f[x] \in Int
    BY <1>2, <1>3
  <2>. QED BY <2>1, SumOfUnion
<1>5. SumUp((A \cup B) \cup {"M5"}, f) = f["M5"] + SumUp(A \cup B, f)
  <2>1. A \cup B = {"M1", "M2", "M3", "M4"}
    BY <1>3
  <2>2. IsFiniteSet(A \cup B) /\ "M5" \notin A \cup B /\ \A x \in A \cup B : f[x] \in Int
    BY <1>2, <2>1
  <2>. QED BY <2>2, SumAdds
<1>6. (A \cup B) \cup {"M5"} = {"M1", "M2", "M3", "M4", "M5"}
  BY <1>3
<1>. QED BY <1>1, <1>3, <1>4, <1>5, <1>6

\* What the form's pass computes from the lines it finds.
Uncomputed == Lines \ {"1c", "3", "11", "27", "28", "30", "L15", "L27", "LCHECK", "M6", "M9", "M10"}

LEMMA LineKinds ==
  /\ OtherIncome \subseteq Uncomputed /\ DeductionLines \subseteq Uncomputed
  /\ AssetLines \subseteq Uncomputed /\ ClaimLines \subseteq Uncomputed
  /\ AdjustingLines \subseteq Uncomputed
  /\ {"1a", "1b", "2", "29", "31", "M1"} \subseteq Uncomputed
  /\ {"1c", "3", "11", "27", "28", "30", "L15", "L27", "LCHECK", "M6", "M9", "M10"} \subseteq Lines
<1>1. Computed = {"1c", "3", "11", "27", "28", "30", "L15", "L27", "LCHECK", "M6", "M9", "M10"}
  <2>1. DOMAIN Formulas = 1 .. 12
    BY DEF Formulas
  <2>2. \A n \in 1 .. 12 : n = 1 \/ n = 2 \/ n = 3 \/ n = 4 \/ n = 5 \/ n = 6 \/ n = 7 \/ n = 8
                           \/ n = 9 \/ n = 10 \/ n = 11 \/ n = 12
    OBVIOUS
  <2>3. /\ Formulas[1].line = "1c" /\ Formulas[2].line = "3" /\ Formulas[3].line = "11"
        /\ Formulas[4].line = "27" /\ Formulas[5].line = "28" /\ Formulas[6].line = "30"
        /\ Formulas[7].line = "L15" /\ Formulas[8].line = "L27" /\ Formulas[9].line = "LCHECK"
        /\ Formulas[10].line = "M6" /\ Formulas[11].line = "M9" /\ Formulas[12].line = "M10"
    BY TheFormulas DEF Formula
  <2>4. {Formulas[n].line : n \in 1 .. 12}
        = {"1c", "3", "11", "27", "28", "30", "L15", "L27", "LCHECK", "M6", "M9", "M10"}
    BY <2>2, <2>3
  <2>. QED BY <2>1, <2>4 DEF Computed
<1>2. Lines = ({"1a", "1b", "2", "29", "31", "M1"} \cup OtherIncome \cup DeductionLines \cup AssetLines
               \cup ClaimLines \cup AdjustingLines)
              \cup {"1c", "3", "11", "27", "28", "30", "L15", "L27", "LCHECK", "M6", "M9", "M10"}
  BY <1>1 DEF Lines
<1>3. /\ OtherIncome \subseteq Lines /\ DeductionLines \subseteq Lines
      /\ AssetLines \subseteq Lines /\ ClaimLines \subseteq Lines
      /\ AdjustingLines \subseteq Lines
      /\ {"1a", "1b", "2", "29", "31", "M1"} \subseteq Lines
      /\ {"1c", "3", "11", "27", "28", "30", "L15", "L27", "LCHECK", "M6", "M9", "M10"} \subseteq Lines
  BY <1>2
<1>4. /\ \A l \in OtherIncome : l \notin {"1c", "3", "11", "27", "28", "30", "L15", "L27", "LCHECK", "M6", "M9", "M10"}
      /\ \A l \in DeductionLines : l \notin {"1c", "3", "11", "27", "28", "30", "L15", "L27", "LCHECK", "M6", "M9", "M10"}
      /\ \A l \in AssetLines : l \notin {"1c", "3", "11", "27", "28", "30", "L15", "L27", "LCHECK", "M6", "M9", "M10"}
      /\ \A l \in ClaimLines : l \notin {"1c", "3", "11", "27", "28", "30", "L15", "L27", "LCHECK", "M6", "M9", "M10"}
      /\ \A l \in AdjustingLines : l \notin {"1c", "3", "11", "27", "28", "30", "L15", "L27", "LCHECK", "M6", "M9", "M10"}
      /\ \A l \in {"1a", "1b", "2", "29", "31", "M1"} : l \notin {"1c", "3", "11", "27", "28", "30", "L15", "L27", "LCHECK", "M6", "M9", "M10"}
  BY DEF OtherIncome, DeductionLines, AssetLines, ClaimLines, AdjustingLines
<1>. QED BY <1>3, <1>4 DEF Uncomputed

\* A column on which the lines that are placed still carry their amounts.
Kept(c, A) == c \in [Lines -> Int] /\ \A l \in Uncomputed : c[l] = A[l]

LEMMA KeptByFormula ==
  ASSUME NEW A \in [Lines -> Int], NEW c, Kept(c, A), NEW line \in Lines \ Uncomputed,
         NEW plus \in SUBSET Lines, NEW minus \in SUBSET Lines,
         IsFiniteSet(plus), IsFiniteSet(minus),
         NEW f, f = Formula(line, plus, minus)
  PROVE  /\ Kept(Filled(c, f), A)
         /\ Filled(c, f)[line] = SumUp(plus, c) - SumUp(minus, c)
         /\ \A l \in Lines \ {line} : Filled(c, f)[l] = c[l]
<1>1. c \in [Lines -> Int] /\ Uncomputed \subseteq Lines \ {line}
  BY DEF Kept, Uncomputed
<1>2. /\ Filled(c, f) \in [Lines -> Int]
      /\ Filled(c, f)[line] = SumUp(plus, c) - SumUp(minus, c)
      /\ \A l \in Lines \ {line} : Filled(c, f)[l] = c[l]
  BY <1>1, OneLineFilled
<1>. QED BY <1>1, <1>2 DEF Kept

LEMMA KeptSum ==
  ASSUME NEW A \in [Lines -> Int], NEW c, Kept(c, A), NEW L \in SUBSET Uncomputed, IsFiniteSet(L)
  PROVE  SumUp(L, c) = SumUp(L, A) /\ SumUp(L, A) \in Int
<1>1. \A l \in L : c[l] = A[l] /\ A[l] \in Int
  BY DEF Kept, Uncomputed
<1>. QED BY <1>1, SumSame, SumIsInt

LEMMA ComputeLines ==
  ASSUME NEW A \in [Lines -> Int]
  PROVE  /\ SumUp(OtherIncome, A) \in Int /\ SumUp(DeductionLines, A) \in Int
         /\ SumUp(AssetLines, A) \in Int /\ SumUp(ClaimLines, A) \in Int
         /\ Compute(A)["M10"] - Compute(A)["28"]
            = (A["M1"] + A["M2"] + A["M3"] + A["M4"] + A["M5"]) - (A["M7"] + A["M8"])
              - (A["1a"] - A["1b"] - A["2"] + SumUp(OtherIncome, A) - SumUp(DeductionLines, A))
         /\ Compute(A)["LCHECK"] = SumUp(AssetLines, A) - SumUp(ClaimLines, A)
<1>1. PICK p : IsPass(p, A) /\ Compute(A) = p[12]
  BY ComputeIsPass
<1>2. /\ p[0] = A /\ p[1] = Filled(p[0], Formulas[1]) /\ p[2] = Filled(p[1], Formulas[2])
      /\ p[3] = Filled(p[2], Formulas[3]) /\ p[4] = Filled(p[3], Formulas[4])
      /\ p[5] = Filled(p[4], Formulas[5]) /\ p[6] = Filled(p[5], Formulas[6])
      /\ p[7] = Filled(p[6], Formulas[7]) /\ p[8] = Filled(p[7], Formulas[8])
      /\ p[9] = Filled(p[8], Formulas[9]) /\ p[10] = Filled(p[9], Formulas[10])
      /\ p[11] = Filled(p[10], Formulas[11]) /\ p[12] = Filled(p[11], Formulas[12])
  BY <1>1 DEF IsPass
<1>3. Kept(p[0], A)
  BY <1>2 DEF Kept, Uncomputed
<1>4. /\ Kept(p[1], A) /\ p[1]["1c"] = SumUp({"1a"}, p[0]) - SumUp({"1b"}, p[0])
      /\ \A l \in Lines \ {"1c"} : p[1][l] = p[0][l]
  <2>1. /\ "1c" \in Lines \ Uncomputed
        /\ {"1a"} \in SUBSET Lines /\ {"1b"} \in SUBSET Lines
    BY LineKinds DEF Uncomputed
  <2>2. IsFiniteSet({"1a"}) /\ IsFiniteSet({"1b"})
    BY OneIsFinite, LinesAreFinite
  <2>3. Formulas[1] = Formula("1c", {"1a"}, {"1b"}) /\ p[1] = Filled(p[0], Formulas[1])
    BY <1>2, TheFormulas
  <2>. QED BY <1>3, <2>1, <2>2, <2>3, KeptByFormula
<1>5. /\ Kept(p[2], A) /\ p[2]["3"] = SumUp({"1c"}, p[1]) - SumUp({"2"}, p[1])
      /\ \A l \in Lines \ {"3"} : p[2][l] = p[1][l]
  <2>1. /\ "3" \in Lines \ Uncomputed
        /\ {"1c"} \in SUBSET Lines /\ {"2"} \in SUBSET Lines
    BY LineKinds DEF Uncomputed
  <2>2. IsFiniteSet({"1c"}) /\ IsFiniteSet({"2"})
    BY OneIsFinite, LinesAreFinite
  <2>3. Formulas[2] = Formula("3", {"1c"}, {"2"}) /\ p[2] = Filled(p[1], Formulas[2])
    BY <1>2, TheFormulas
  <2>. QED BY <1>4, <2>1, <2>2, <2>3, KeptByFormula
<1>6. /\ Kept(p[3], A) /\ p[3]["11"] = SumUp({"3"} \cup OtherIncome, p[2]) - SumUp({}, p[2])
      /\ \A l \in Lines \ {"11"} : p[3][l] = p[2][l]
  <2>1. /\ "11" \in Lines \ Uncomputed
        /\ {"3"} \cup OtherIncome \in SUBSET Lines /\ {} \in SUBSET Lines
    BY LineKinds DEF Uncomputed
  <2>2. IsFiniteSet({"3"} \cup OtherIncome) /\ IsFiniteSet({})
    BY OneIsFinite, LinesAreFinite, FS_Union
  <2>3. Formulas[3] = Formula("11", {"3"} \cup OtherIncome, {}) /\ p[3] = Filled(p[2], Formulas[3])
    BY <1>2, TheFormulas
  <2>4. PICK c, d, f, plus, minus, line :
          /\ c = p[2] /\ d = p[3] /\ f = Formulas[3]
          /\ plus = {"3"} \cup OtherIncome /\ minus = {} /\ line = "11"
    OBVIOUS
  <2>5. /\ line \in Lines \ Uncomputed /\ plus \in SUBSET Lines /\ minus \in SUBSET Lines
        /\ IsFiniteSet(plus) /\ IsFiniteSet(minus) /\ f = Formula(line, plus, minus)
        /\ Kept(c, A) /\ d = Filled(c, f)
    BY <1>5, <2>1, <2>2, <2>3, <2>4
  <2>6. /\ Kept(Filled(c, f), A) /\ Filled(c, f)[line] = SumUp(plus, c) - SumUp(minus, c)
        /\ \A l \in Lines \ {line} : Filled(c, f)[l] = c[l]
    BY <2>5, KeptByFormula
  <2>. QED BY <2>4, <2>5, <2>6
<1>7. /\ Kept(p[4], A) /\ p[4]["27"] = SumUp(DeductionLines, p[3]) - SumUp({}, p[3])
      /\ \A l \in Lines \ {"27"} : p[4][l] = p[3][l]
  <2>1. /\ "27" \in Lines \ Uncomputed
        /\ DeductionLines \in SUBSET Lines /\ {} \in SUBSET Lines
    BY LineKinds DEF Uncomputed
  <2>2. IsFiniteSet(DeductionLines) /\ IsFiniteSet({})
    BY OneIsFinite, LinesAreFinite
  <2>3. Formulas[4] = Formula("27", DeductionLines, {}) /\ p[4] = Filled(p[3], Formulas[4])
    BY <1>2, TheFormulas
  <2>. QED BY <1>6, <2>1, <2>2, <2>3, KeptByFormula
<1>8. /\ Kept(p[5], A) /\ p[5]["28"] = SumUp({"11"}, p[4]) - SumUp({"27"}, p[4])
      /\ \A l \in Lines \ {"28"} : p[5][l] = p[4][l]
  <2>1. /\ "28" \in Lines \ Uncomputed
        /\ {"11"} \in SUBSET Lines /\ {"27"} \in SUBSET Lines
    BY LineKinds DEF Uncomputed
  <2>2. IsFiniteSet({"11"}) /\ IsFiniteSet({"27"})
    BY OneIsFinite, LinesAreFinite
  <2>3. Formulas[5] = Formula("28", {"11"}, {"27"}) /\ p[5] = Filled(p[4], Formulas[5])
    BY <1>2, TheFormulas
  <2>. QED BY <1>7, <2>1, <2>2, <2>3, KeptByFormula
<1>9. /\ Kept(p[6], A) /\ p[6]["30"] = SumUp({"28"}, p[5]) - SumUp({"29"}, p[5])
      /\ \A l \in Lines \ {"30"} : p[6][l] = p[5][l]
  <2>1. /\ "30" \in Lines \ Uncomputed
        /\ {"28"} \in SUBSET Lines /\ {"29"} \in SUBSET Lines
    BY LineKinds DEF Uncomputed
  <2>2. IsFiniteSet({"28"}) /\ IsFiniteSet({"29"})
    BY OneIsFinite, LinesAreFinite
  <2>3. Formulas[6] = Formula("30", {"28"}, {"29"}) /\ p[6] = Filled(p[5], Formulas[6])
    BY <1>2, TheFormulas
  <2>. QED BY <1>8, <2>1, <2>2, <2>3, KeptByFormula
<1>10. /\ Kept(p[7], A) /\ p[7]["L15"] = SumUp(AssetLines, p[6]) - SumUp({}, p[6])
      /\ \A l \in Lines \ {"L15"} : p[7][l] = p[6][l]
  <2>1. /\ "L15" \in Lines \ Uncomputed
        /\ AssetLines \in SUBSET Lines /\ {} \in SUBSET Lines
    BY LineKinds DEF Uncomputed
  <2>2. IsFiniteSet(AssetLines) /\ IsFiniteSet({})
    BY OneIsFinite, LinesAreFinite
  <2>3. Formulas[7] = Formula("L15", AssetLines, {}) /\ p[7] = Filled(p[6], Formulas[7])
    BY <1>2, TheFormulas
  <2>. QED BY <1>9, <2>1, <2>2, <2>3, KeptByFormula
<1>11. /\ Kept(p[8], A) /\ p[8]["L27"] = SumUp(ClaimLines, p[7]) - SumUp({}, p[7])
      /\ \A l \in Lines \ {"L27"} : p[8][l] = p[7][l]
  <2>1. /\ "L27" \in Lines \ Uncomputed
        /\ ClaimLines \in SUBSET Lines /\ {} \in SUBSET Lines
    BY LineKinds DEF Uncomputed
  <2>2. IsFiniteSet(ClaimLines) /\ IsFiniteSet({})
    BY OneIsFinite, LinesAreFinite
  <2>3. Formulas[8] = Formula("L27", ClaimLines, {}) /\ p[8] = Filled(p[7], Formulas[8])
    BY <1>2, TheFormulas
  <2>. QED BY <1>10, <2>1, <2>2, <2>3, KeptByFormula
<1>12. /\ Kept(p[9], A) /\ p[9]["LCHECK"] = SumUp({"L15"}, p[8]) - SumUp({"L27"}, p[8])
      /\ \A l \in Lines \ {"LCHECK"} : p[9][l] = p[8][l]
  <2>1. /\ "LCHECK" \in Lines \ Uncomputed
        /\ {"L15"} \in SUBSET Lines /\ {"L27"} \in SUBSET Lines
    BY LineKinds DEF Uncomputed
  <2>2. IsFiniteSet({"L15"}) /\ IsFiniteSet({"L27"})
    BY OneIsFinite, LinesAreFinite
  <2>3. Formulas[9] = Formula("LCHECK", {"L15"}, {"L27"}) /\ p[9] = Filled(p[8], Formulas[9])
    BY <1>2, TheFormulas
  <2>. QED BY <1>11, <2>1, <2>2, <2>3, KeptByFormula
<1>13. /\ Kept(p[10], A) /\ p[10]["M6"] = SumUp({"M1", "M2", "M3", "M4", "M5"}, p[9]) - SumUp({}, p[9])
      /\ \A l \in Lines \ {"M6"} : p[10][l] = p[9][l]
  <2>1. /\ "M6" \in Lines \ Uncomputed
        /\ {"M1", "M2", "M3", "M4", "M5"} \in SUBSET Lines /\ {} \in SUBSET Lines
    BY LineKinds DEF Uncomputed, AdjustingLines
  <2>2. IsFiniteSet({"M1", "M2", "M3", "M4", "M5"}) /\ IsFiniteSet({})
    BY OneIsFinite, LinesAreFinite
  <2>3. Formulas[10] = Formula("M6", {"M1", "M2", "M3", "M4", "M5"}, {}) /\ p[10] = Filled(p[9], Formulas[10])
    BY <1>2, TheFormulas
  <2>. QED BY <1>12, <2>1, <2>2, <2>3, KeptByFormula
<1>14. /\ Kept(p[11], A) /\ p[11]["M9"] = SumUp({"M7", "M8"}, p[10]) - SumUp({}, p[10])
      /\ \A l \in Lines \ {"M9"} : p[11][l] = p[10][l]
  <2>1. /\ "M9" \in Lines \ Uncomputed
        /\ {"M7", "M8"} \in SUBSET Lines /\ {} \in SUBSET Lines
    BY LineKinds DEF Uncomputed, AdjustingLines
  <2>2. IsFiniteSet({"M7", "M8"}) /\ IsFiniteSet({})
    BY OneIsFinite, LinesAreFinite
  <2>3. Formulas[11] = Formula("M9", {"M7", "M8"}, {}) /\ p[11] = Filled(p[10], Formulas[11])
    BY <1>2, TheFormulas
  <2>. QED BY <1>13, <2>1, <2>2, <2>3, KeptByFormula
<1>15. /\ Kept(p[12], A) /\ p[12]["M10"] = SumUp({"M6"}, p[11]) - SumUp({"M9"}, p[11])
      /\ \A l \in Lines \ {"M10"} : p[12][l] = p[11][l]
  <2>1. /\ "M10" \in Lines \ Uncomputed
        /\ {"M6"} \in SUBSET Lines /\ {"M9"} \in SUBSET Lines
    BY LineKinds DEF Uncomputed
  <2>2. IsFiniteSet({"M6"}) /\ IsFiniteSet({"M9"})
    BY OneIsFinite, LinesAreFinite
  <2>3. Formulas[12] = Formula("M10", {"M6"}, {"M9"}) /\ p[12] = Filled(p[11], Formulas[12])
    BY <1>2, TheFormulas
  <2>. QED BY <1>14, <2>1, <2>2, <2>3, KeptByFormula
<1>16. /\ SumUp(OtherIncome, A) \in Int /\ SumUp(DeductionLines, A) \in Int
       /\ SumUp(AssetLines, A) \in Int /\ SumUp(ClaimLines, A) \in Int
       /\ SumUp(OtherIncome, p[2]) = SumUp(OtherIncome, A)
       /\ SumUp(DeductionLines, p[3]) = SumUp(DeductionLines, A)
       /\ SumUp(AssetLines, p[6]) = SumUp(AssetLines, A)
       /\ SumUp(ClaimLines, p[7]) = SumUp(ClaimLines, A)
  BY <1>5, <1>6, <1>9, <1>10, KeptSum, LineKinds, LinesAreFinite
<1>17. \A n \in 0 .. 12, l \in Lines : p[n][l] \in Int
  <2>1. /\ p[0] \in [Lines -> Int] /\ p[1] \in [Lines -> Int] /\ p[2] \in [Lines -> Int]
        /\ p[3] \in [Lines -> Int] /\ p[4] \in [Lines -> Int] /\ p[5] \in [Lines -> Int]
        /\ p[6] \in [Lines -> Int] /\ p[7] \in [Lines -> Int] /\ p[8] \in [Lines -> Int]
        /\ p[9] \in [Lines -> Int] /\ p[10] \in [Lines -> Int] /\ p[11] \in [Lines -> Int]
        /\ p[12] \in [Lines -> Int]
    BY <1>3, <1>4, <1>5, <1>6, <1>7, <1>8, <1>9, <1>10, <1>11, <1>12, <1>13, <1>14, <1>15 DEF Kept
  <2>2. ASSUME NEW n \in 0 .. 12 PROVE p[n] \in [Lines -> Int]
    <3>1. \/ n = 0 \/ n = 1 \/ n = 2 \/ n = 3 \/ n = 4 \/ n = 5 \/ n = 6 \/ n = 7 \/ n = 8
          \/ n = 9 \/ n = 10 \/ n = 11 \/ n = 12
      OBVIOUS
    <3>. QED BY <2>1, <3>1
  <2>. QED BY <2>2
<1>18. \A n \in 0 .. 12, l \in Lines : SumUp({l}, p[n]) = p[n][l]
  BY <1>17, SumOfOne
<1>19. ASSUME NEW n \in 0 .. 12, NEW l \in Uncomputed PROVE p[n][l] = A[l]
  <2>1. \/ n = 0 \/ n = 1 \/ n = 2 \/ n = 3 \/ n = 4 \/ n = 5 \/ n = 6 \/ n = 7 \/ n = 8
        \/ n = 9 \/ n = 10 \/ n = 11 \/ n = 12
    OBVIOUS
  <2>. QED BY <2>1, <1>3, <1>4, <1>5, <1>6, <1>7, <1>8, <1>9, <1>10, <1>11, <1>12, <1>13, <1>14, <1>15 DEF Kept
<1>20. SumUp({}, p[2]) = 0 /\ SumUp({}, p[3]) = 0 /\ SumUp({}, p[6]) = 0 /\ SumUp({}, p[7]) = 0
       /\ SumUp({}, p[9]) = 0 /\ SumUp({}, p[10]) = 0
  BY SumOfNone
<1>21. SumUp({"3"} \cup OtherIncome, p[2]) = p[2]["3"] + SumUp(OtherIncome, p[2])
  <2>1. /\ \A l \in OtherIncome : p[2][l] \in Int
        /\ "3" \notin OtherIncome /\ p[2]["3"] \in Int /\ {"3"} \cup OtherIncome = OtherIncome \cup {"3"}
    BY <1>17, LineKinds DEF OtherIncome, Uncomputed
  <2>. QED BY <2>1, LinesAreFinite, SumAdds
<1>22. SumUp({"M7", "M8"}, p[10]) = A["M7"] + A["M8"] /\ A["M7"] \in Int /\ A["M8"] \in Int
  <2>1. "M7" \in Uncomputed /\ "M8" \in Uncomputed /\ "M7" # "M8"
    BY LineKinds DEF AdjustingLines
  <2>2. p[10]["M7"] = A["M7"] /\ p[10]["M8"] = A["M8"] /\ A["M7"] \in Int /\ A["M8"] \in Int
    BY <1>19, <2>1 DEF Uncomputed
  <2>. QED BY <2>1, <2>2, SumOfTwo
<1>23. /\ SumUp({"M1", "M2", "M3", "M4", "M5"}, p[9]) = A["M1"] + A["M2"] + A["M3"] + A["M4"] + A["M5"]
       /\ A["M1"] \in Int /\ A["M2"] \in Int /\ A["M3"] \in Int /\ A["M4"] \in Int /\ A["M5"] \in Int
  <2>1. /\ "M1" \in Uncomputed /\ "M2" \in Uncomputed /\ "M3" \in Uncomputed
        /\ "M4" \in Uncomputed /\ "M5" \in Uncomputed
    BY LineKinds DEF AdjustingLines
  <2>2. /\ p[9]["M1"] = A["M1"] /\ p[9]["M2"] = A["M2"] /\ p[9]["M3"] = A["M3"]
        /\ p[9]["M4"] = A["M4"] /\ p[9]["M5"] = A["M5"]
        /\ A["M1"] \in Int /\ A["M2"] \in Int /\ A["M3"] \in Int /\ A["M4"] \in Int /\ A["M5"] \in Int
    BY <1>19, <2>1 DEF Uncomputed
  <2>. QED BY <2>2, SumOfFive
<1>24. /\ p[1]["1c"] = A["1a"] - A["1b"] /\ A["1a"] \in Int /\ A["1b"] \in Int
       /\ p[2]["3"] = p[1]["1c"] - A["2"] /\ A["2"] \in Int
       /\ p[3]["11"] = p[2]["3"] + SumUp(OtherIncome, A)
       /\ p[4]["27"] = SumUp(DeductionLines, A)
       /\ p[5]["28"] = p[4]["11"] - p[4]["27"]
  <2>1. /\ "1a" \in Uncomputed /\ "1b" \in Uncomputed /\ "2" \in Uncomputed
        /\ Uncomputed \subseteq Lines /\ "1c" \in Lines /\ "3" \in Lines /\ "11" \in Lines /\ "27" \in Lines
    BY LineKinds DEF Uncomputed
  <2>2. A["1a"] \in Int /\ A["1b"] \in Int /\ A["2"] \in Int
    BY <2>1
  <2>3. /\ p[1]["1c"] = p[0]["1a"] - p[0]["1b"] /\ p[0]["1a"] = A["1a"] /\ p[0]["1b"] = A["1b"]
    BY <1>4, <1>18, <1>19, <2>1
  <2>4. p[2]["3"] = p[1]["1c"] - p[1]["2"] /\ p[1]["2"] = A["2"]
    BY <1>5, <1>18, <1>19, <2>1
  <2>5. p[3]["11"] = p[2]["3"] + SumUp(OtherIncome, A)
    <3>1. p[2]["3"] \in Int
      BY <1>17, <2>1
    <3>. QED BY <1>6, <1>16, <1>20, <1>21, <3>1
  <2>6. p[4]["27"] = SumUp(DeductionLines, A)
    BY <1>7, <1>16, <1>20
  <2>7. p[5]["28"] = p[4]["11"] - p[4]["27"]
    BY <1>8, <1>18, <2>1
  <2>. QED BY <2>2, <2>3, <2>4, <2>5, <2>6, <2>7
<1>25. /\ p[7]["L15"] = SumUp(AssetLines, A) /\ p[8]["L27"] = SumUp(ClaimLines, A)
       /\ p[9]["LCHECK"] = p[8]["L15"] - p[8]["L27"]
       /\ p[10]["M6"] = A["M1"] + A["M2"] + A["M3"] + A["M4"] + A["M5"]
       /\ p[11]["M9"] = A["M7"] + A["M8"]
       /\ p[12]["M10"] = p[11]["M6"] - p[11]["M9"]
  <2>1. "L15" \in Lines /\ "L27" \in Lines /\ "M6" \in Lines /\ "M9" \in Lines
    BY LineKinds
  <2>2. p[7]["L15"] = SumUp(AssetLines, A) /\ p[8]["L27"] = SumUp(ClaimLines, A)
    BY <1>10, <1>11, <1>16, <1>20
  <2>3. p[9]["LCHECK"] = p[8]["L15"] - p[8]["L27"] /\ p[12]["M10"] = p[11]["M6"] - p[11]["M9"]
    BY <1>12, <1>15, <1>18, <2>1
  <2>4. p[10]["M6"] = A["M1"] + A["M2"] + A["M3"] + A["M4"] + A["M5"]
    BY <1>13, <1>20, <1>23
  <2>5. p[11]["M9"] = A["M7"] + A["M8"]
    BY <1>14, <1>20, <1>22
  <2>. QED BY <2>2, <2>3, <2>4, <2>5
<1>26. /\ p[4]["11"] = p[3]["11"] /\ p[12]["28"] = p[5]["28"] /\ p[8]["L15"] = p[7]["L15"]
       /\ p[12]["LCHECK"] = p[9]["LCHECK"] /\ p[11]["M6"] = p[10]["M6"]
  <2>1. "11" \in Lines /\ "28" \in Lines /\ "L15" \in Lines /\ "LCHECK" \in Lines /\ "M6" \in Lines
    BY LineKinds
  <2>2. p[4]["11"] = p[3]["11"] /\ p[8]["L15"] = p[7]["L15"] /\ p[11]["M6"] = p[10]["M6"]
    BY <1>7, <1>11, <1>14, <2>1
  <2>3. /\ p[6]["28"] = p[5]["28"] /\ p[7]["28"] = p[6]["28"] /\ p[8]["28"] = p[7]["28"]
        /\ p[9]["28"] = p[8]["28"] /\ p[10]["28"] = p[9]["28"] /\ p[11]["28"] = p[10]["28"]
        /\ p[12]["28"] = p[11]["28"]
    BY <1>9, <1>10, <1>11, <1>12, <1>13, <1>14, <1>15, <2>1
  <2>4. p[10]["LCHECK"] = p[9]["LCHECK"] /\ p[11]["LCHECK"] = p[10]["LCHECK"] /\ p[12]["LCHECK"] = p[11]["LCHECK"]
    BY <1>13, <1>14, <1>15, <2>1
  <2>. QED BY <2>2, <2>3, <2>4
<1>27. PICK O \in Int, D \in Int, X \in Int, Y \in Int :
          /\ O = SumUp(OtherIncome, A) /\ D = SumUp(DeductionLines, A)
          /\ X = SumUp(AssetLines, A) /\ Y = SumUp(ClaimLines, A)
  BY <1>16
<1>28. PICK a1 \in Int, b1 \in Int, c2 \in Int, m1 \in Int, m2 \in Int, m3 \in Int, m4 \in Int,
            m5 \in Int, m7 \in Int, m8 \in Int :
          /\ a1 = A["1a"] /\ b1 = A["1b"] /\ c2 = A["2"] /\ m1 = A["M1"] /\ m2 = A["M2"] /\ m3 = A["M3"]
          /\ m4 = A["M4"] /\ m5 = A["M5"] /\ m7 = A["M7"] /\ m8 = A["M8"]
  BY <1>22, <1>23, <1>24
<1>29. p[12]["28"] = a1 - b1 - c2 + O - D
  BY <1>24, <1>26, <1>27, <1>28
<1>30. p[12]["M10"] = (m1 + m2 + m3 + m4 + m5) - (m7 + m8)
  BY <1>25, <1>26, <1>28
<1>31. p[12]["LCHECK"] = X - Y
  BY <1>25, <1>26, <1>27
<1>32. p[12]["M10"] - p[12]["28"] = (m1 + m2 + m3 + m4 + m5) - (m7 + m8) - (a1 - b1 - c2 + O - D)
  BY <1>29, <1>30
<1>. QED BY <1>1, <1>16, <1>27, <1>28, <1>31, <1>32

(***************************************************************************)
(* Accounts on the lines: the figures of a class of accounts are on the    *)
(* lines that its accounts fit, or on no line.                             *)
(***************************************************************************)
Placed(carrying, pinned, line) == {a \in carrying : LineFor(a, pinned) = line}

Unplaced(carrying, pinned, types) ==
  {a \in carrying : LineFor(a, pinned) \notin Lines /\ TypeOf[a] \in types}

ClaimTypes == LiabilityTypes \cup {"EQUITY"}

LEMMA ClassLines ==
  /\ IncomeLines \subseteq Lines /\ CostLines \subseteq Lines
  /\ AssetLines \subseteq Lines /\ ClaimLines \subseteq Lines
  /\ IncomeLines \cap CostLines = {} /\ IncomeLines \cap AssetLines = {}
  /\ IncomeLines \cap ClaimLines = {} /\ CostLines \cap AssetLines = {}
  /\ CostLines \cap ClaimLines = {} /\ AssetLines \cap ClaimLines = {}
  /\ NoLine \notin Lines
<1>1. /\ IncomeLines \subseteq Lines /\ CostLines \subseteq Lines
      /\ AssetLines \subseteq Lines /\ ClaimLines \subseteq Lines
  BY LineKinds DEF IncomeLines, CostLines, Uncomputed, AdjustingLines
<1>2. /\ IncomeLines \cap CostLines = {} /\ IncomeLines \cap AssetLines = {}
      /\ IncomeLines \cap ClaimLines = {} /\ CostLines \cap AssetLines = {}
      /\ CostLines \cap ClaimLines = {} /\ AssetLines \cap ClaimLines = {}
  BY DEF IncomeLines, CostLines, OtherIncome, DeductionLines, AssetLines, ClaimLines
<1>3. NoLine \notin Lines
  <2>1. NoLine \notin Computed
    <3>1. DOMAIN Formulas = 1 .. 12
      BY DEF Formulas
    <3>2. ASSUME NEW n \in 1 .. 12 PROVE Formulas[n].line # "none"
      <4>1. n = 1 \/ n = 2 \/ n = 3 \/ n = 4 \/ n = 5 \/ n = 6 \/ n = 7 \/ n = 8
            \/ n = 9 \/ n = 10 \/ n = 11 \/ n = 12
        OBVIOUS
      <4>. QED BY <4>1, TheFormulas DEF Formula
    <3>. QED BY <3>1, <3>2 DEF Computed, NoLine
  <2>. QED BY <2>1 DEF Lines, NoLine, OtherIncome, DeductionLines, AssetLines, ClaimLines, AdjustingLines
<1>. QED BY <1>1, <1>2, <1>3

LEMMA ClassTypes ==
  ASSUME NEW t \in AccountTypes
  PROVE  /\ t \in IncomeTypes \/ t \in CostTypes \/ t \in AssetTypes \/ t \in ClaimTypes
         /\ ~ (t \in IncomeTypes /\ t \in CostTypes) /\ ~ (t \in IncomeTypes /\ t \in AssetTypes)
         /\ ~ (t \in IncomeTypes /\ t \in ClaimTypes) /\ ~ (t \in CostTypes /\ t \in AssetTypes)
         /\ ~ (t \in CostTypes /\ t \in ClaimTypes) /\ ~ (t \in AssetTypes /\ t \in ClaimTypes)
         /\ t \in PnlTypes <=> t \in IncomeTypes \/ t \in CostTypes
BY DEF AccountTypes, IncomeTypes, CostTypes, OverheadTypes, AssetTypes, LiabilityTypes, ClaimTypes, PnlTypes

LEMMA KnownTypes ==
  /\ IncomeTypes \subseteq AccountTypes /\ CostTypes \subseteq AccountTypes
  /\ AssetTypes \subseteq AccountTypes /\ ClaimTypes \subseteq AccountTypes
BY DEF AccountTypes, ClaimTypes

\* A class of accounts: the types on one side, the lines they fit on the other.
LEMMA Fits ==
  ASSUME NEW pinned, Sound(pinned), NEW a \in OfType(AccountTypes), LineFor(a, pinned) \in Lines
  PROVE  /\ LineFor(a, pinned) \in IncomeLines <=> TypeOf[a] \in IncomeTypes
         /\ LineFor(a, pinned) \in CostLines <=> TypeOf[a] \in CostTypes
         /\ LineFor(a, pinned) \in AssetLines <=> TypeOf[a] \in AssetTypes
         /\ LineFor(a, pinned) \in ClaimLines <=> TypeOf[a] \in ClaimTypes
         /\ LineFor(a, pinned) # "M4" /\ LineFor(a, pinned) # "M8"
<1>1. TypeOf[a] \in AccountTypes /\ a \notin Unclassed
  BY DEF OfType, Unclassed
<1>. DEFINE line == LineFor(a, pinned)
<1>2. \/ TypeOf[a] \in IncomeTypes /\ line \in IncomeLines
      \/ TypeOf[a] \in CostTypes /\ line \in CostLines
      \/ TypeOf[a] \in AssetTypes /\ line \in AssetLines
      \/ TypeOf[a] \in ClaimTypes /\ line \in ClaimLines
  <2>1. CASE a \in DOMAIN pinned
    <3>1. line = pinned[a] /\ SoundLine(a, pinned[a])
      BY <2>1 DEF LineFor, Sound
    <3>. QED BY <1>1, <3>1 DEF SoundLine, ClaimTypes
  <2>2. CASE a \notin DOMAIN pinned
    <3>1. line # NoLine
      BY ClassLines
    <3>2. TypeOf[a] \in DOMAIN TypeWide /\ line = TypeWide[TypeOf[a]]
      BY <2>2, <3>1 DEF LineFor
    <3>3. \/ TypeOf[a] = "SALES" /\ line = "1a"
          \/ TypeOf[a] = "DIRECTCOSTS" /\ line = "2"
          \/ TypeOf[a] = "BANK" /\ line = "L1"
          \/ TypeOf[a] = "INVENTORY" /\ line = "L3"
          \/ TypeOf[a] = "TERMLIAB" /\ line = "L19"
      BY <3>2 DEF TypeWide
    <3>. QED BY <3>3 DEF IncomeTypes, CostTypes, AssetTypes, LiabilityTypes, ClaimTypes,
                          IncomeLines, CostLines, AssetLines, ClaimLines
  <2>. QED BY <2>1, <2>2
<1>. HIDE DEF line
<1>3. /\ "M4" \notin IncomeLines /\ "M4" \notin CostLines /\ "M4" \notin AssetLines /\ "M4" \notin ClaimLines
      /\ "M8" \notin IncomeLines /\ "M8" \notin CostLines /\ "M8" \notin AssetLines /\ "M8" \notin ClaimLines
  BY DEF IncomeLines, CostLines, OtherIncome, DeductionLines, AssetLines, ClaimLines
<1>4. /\ line \in IncomeLines <=> TypeOf[a] \in IncomeTypes
      /\ line \in CostLines <=> TypeOf[a] \in CostTypes
      /\ line \in AssetLines <=> TypeOf[a] \in AssetTypes
      /\ line \in ClaimLines <=> TypeOf[a] \in ClaimTypes
  BY <1>1, <1>2, ClassTypes, ClassLines
<1>. QED BY <1>2, <1>3, <1>4 DEF line

\* The figures of the accounts that a statement has a section for.
FiguresOf(carrying, g) ==
  /\ carrying \in SUBSET OfType(AccountTypes)
  /\ \A a \in OfType(AccountTypes) : g[a] \in Int /\ (a \notin carrying => g[a] = 0)

LEMMA FiguresAreFinite ==
  ASSUME NEW carrying, NEW g, FiguresOf(carrying, g)
  PROVE  /\ IsFiniteSet(carrying) /\ \A a \in carrying : a \in ChartAccounts /\ g[a] \in Int
         /\ \A S \in SUBSET carrying : IsFiniteSet(S) /\ SumUp(S, g) \in Int
<1>1. IsFiniteSet(carrying) /\ \A a \in carrying : a \in ChartAccounts /\ g[a] \in Int
  BY Chart, FS_Subset DEF FiguresOf
<1>2. ASSUME NEW S \in SUBSET carrying PROVE IsFiniteSet(S) /\ SumUp(S, g) \in Int
  BY <1>1, FS_Subset, SumIsInt
<1>. QED BY <1>1, <1>2

\* The figures of a class of accounts, where F has them line by line.
LaidOut(carrying, pinned, g, types, L, F) ==
  /\ FiguresOf(carrying, g) /\ types \in SUBSET AccountTypes /\ L \in SUBSET Lines /\ IsFiniteSet(L)
  /\ \A a \in carrying : LineFor(a, pinned) \in Lines => (LineFor(a, pinned) \in L <=> TypeOf[a] \in types)
  /\ \A line \in L : F[line] = SumUp(Placed(carrying, pinned, line), g)

LEMMA ClassOnItsLines ==
  ASSUME NEW carrying, NEW pinned, NEW g, NEW types, NEW L, NEW F,
         LaidOut(carrying, pinned, g, types, L, F)
  PROVE  /\ SumUp(L, F) \in Int /\ SumUp(OfType(types), g) \in Int
         /\ SumUp(Unplaced(carrying, pinned, types), g) \in Int
         /\ SumUp(L, F) = SumUp(OfType(types), g) - SumUp(Unplaced(carrying, pinned, types), g)
<1>. USE DEF LaidOut
<1>. DEFINE placed == {a \in carrying : LineFor(a, pinned) \in L}
            missing == Unplaced(carrying, pinned, types)
            all == {a \in carrying : TypeOf[a] \in types}
            Q == [line \in L |-> Placed(carrying, pinned, line)]
<1>1. /\ IsFiniteSet(carrying) /\ IsFiniteSet(placed)
      /\ IsFiniteSet(missing) /\ IsFiniteSet(OfType(types))
  BY FiguresAreFinite, FS_Subset, Chart DEF Unplaced
<1>2. SumUp(L, F) = SumUp(placed, g)
  <2>1. UNION {Q[line] : line \in L} = placed
    BY DEF Placed
  <2>2. /\ \A line \in L : Q[line] \in SUBSET carrying
        /\ \A k, l \in L : k # l => Q[k] \cap Q[l] = {}
        /\ \A line \in L : F[line] = SumUp(Q[line], g)
        /\ \A a \in carrying : g[a] \in Int
    BY FiguresAreFinite DEF Placed
  <2>. HIDE DEF Q, placed, missing, all
  <2>3. SumUp(L, F) = SumUp(UNION {Q[line] : line \in L}, g)
    BY <1>1, <2>2, SumOfParts
  <2>. QED BY <2>1, <2>3
<1>3. placed \cup missing = all /\ placed \cap missing = {}
  BY DEF Unplaced
<1>4. /\ OfType(types) \subseteq OfType(AccountTypes)
      /\ all \in SUBSET OfType(types) /\ \A a \in OfType(types) \ all : g[a] = 0
  BY DEF OfType, FiguresOf
<1>5. /\ \A a \in OfType(types) : g[a] \in Int
      /\ \A a \in placed \cup missing : g[a] \in Int
  BY <1>3, <1>4 DEF FiguresOf
<1>. HIDE DEF Q, placed, missing, all
<1>6. SumUp(OfType(types), g) = SumUp(all, g)
  BY <1>1, <1>4, <1>5, SumWithin
<1>7. SumUp(placed \cup missing, g) = SumUp(placed, g) + SumUp(missing, g)
  BY <1>1, <1>3, <1>5, SumOfUnion
<1>8. SumUp(placed, g) \in Int /\ SumUp(missing, g) \in Int /\ SumUp(OfType(types), g) \in Int
  BY <1>1, <1>5, SumIsInt
<1>9. SumUp(L, F) = SumUp(OfType(types), g) - SumUp(missing, g)
  <2>1. PICK x \in Int, y \in Int, z \in Int :
          x = SumUp(placed, g) /\ y = SumUp(missing, g) /\ z = SumUp(OfType(types), g)
    BY <1>8
  <2>2. z = x + y
    BY <1>3, <1>6, <1>7, <2>1
  <2>. QED BY <1>2, <2>1, <2>2
<1>. QED BY <1>2, <1>8, <1>9 DEF missing

LEMMA ClassSums ==
  ASSUME NEW f, \A a \in ChartAccounts : f[a] \in Int
  PROVE  /\ SumUp(OfType(PnlTypes), f) = SumUp(OfType(IncomeTypes), f) + SumUp(OfType(CostTypes), f)
         /\ SumUp(OfType(ClaimTypes), f) = SumUp(OfType(LiabilityTypes), f) + SumUp(OfType({"EQUITY"}), f)
         /\ \A types : SumUp(OfType(types), f) \in Int
<1>1. \A A, B : A \cap B = {} => SumUp(OfType(A \cup B), f) = SumUp(OfType(A), f) + SumUp(OfType(B), f)
  BY TwoTypes
<1>2. /\ PnlTypes = IncomeTypes \cup CostTypes /\ IncomeTypes \cap CostTypes = {}
      /\ ClaimTypes = LiabilityTypes \cup {"EQUITY"} /\ LiabilityTypes \cap {"EQUITY"} = {}
  BY DEF PnlTypes, IncomeTypes, CostTypes, OverheadTypes, ClaimTypes, LiabilityTypes
<1>3. ASSUME NEW types PROVE SumUp(OfType(types), f) \in Int
  <2>1. \A T \in SUBSET ChartAccounts : SumUp(T, f) \in Int
    BY ReportsAssumption, SumIsInt
  <2>. QED BY <2>1, Chart
<1>. QED BY <1>1, <1>2, <1>3

(***************************************************************************)
(* Schedule L, on either day.                                              *)
(***************************************************************************)
SheetOf(js, day, carrying, pinned, g, A) ==
  /\ FiguresOf(carrying, g)
  /\ \A a \in OfType(AssetTypes) : g[a] = NetOver(js, Never, day)[a]
  /\ \A a \in OfType(ClaimTypes) : g[a] = -NetOver(js, Never, day)[a]
  /\ A \in [Lines -> Int]
  /\ \A line \in AssetLines : A[line] = SumUp(Placed(carrying, pinned, line), g)
  /\ \A line \in ClaimLines :
       A[line] = SumUp(Placed(carrying, pinned, line), g)
                 + (IF line = "L24" THEN SheetColumn(js, day).retained ELSE 0)

LEMMA SheetTies ==
  ASSUME NEW js, Ledger(js), AddsUp(js), NEW day, NEW carrying, NEW pinned, Sound(pinned), NEW g, NEW A,
         SheetOf(js, day, carrying, pinned, g, A)
  PROVE  Compute(A)["LCHECK"]
         = SumUp(Unplaced(carrying, pinned, ClaimTypes), g) - SumUp(Unplaced(carrying, pinned, AssetTypes), g)
           - (Dropped(js, day) + Lost(js, Never, day))
<1>. DEFINE bal == NetOver(js, Never, day)
            F == [line \in ClaimLines |-> SumUp(Placed(carrying, pinned, line), g)]
<1>1. \A a \in ChartAccounts : bal[a] \in Int
  BY NetsAreIntegers
<1>2. \A a \in carrying : LineFor(a, pinned) \in Lines =>
        /\ LineFor(a, pinned) \in AssetLines <=> TypeOf[a] \in AssetTypes
        /\ LineFor(a, pinned) \in ClaimLines <=> TypeOf[a] \in ClaimTypes
  BY Fits DEF SheetOf, FiguresOf
<1>3. LaidOut(carrying, pinned, g, AssetTypes, AssetLines, A)
  BY <1>2, ClassLines, KnownTypes, LinesAreFinite DEF SheetOf, LaidOut
<1>4. LaidOut(carrying, pinned, g, ClaimTypes, ClaimLines, F)
  BY <1>2, ClassLines, KnownTypes, LinesAreFinite DEF SheetOf, LaidOut
<1>5. SumUp(OfType(AssetTypes), g) = SumUp(OfType(AssetTypes), bal)
  <2>1. \A a \in OfType(AssetTypes) : g[a] = bal[a]
    BY DEF SheetOf
  <2>. HIDE DEF bal
  <2>. QED BY <2>1, Chart, SumSame
<1>6. SumUp(OfType(ClaimTypes), g) = -SumUp(OfType(ClaimTypes), bal)
  <2>1. \A a \in OfType(ClaimTypes) : bal[a] \in Int /\ g[a] = -bal[a]
    BY <1>1 DEF SheetOf, OfType
  <2>. HIDE DEF bal
  <2>. QED BY <2>1, Chart, SumNegates
<1>7. PICK R \in Int : R = SheetColumn(js, day).retained /\ R = -SumUp(OfType(PnlTypes), bal)
  BY RetainedIsInteger, SheetFigures
<1>8. /\ \A line \in ClaimLines : F[line] \in Int /\ A[line] \in Int
      /\ \A line \in ClaimLines \ {"L24"} : A[line] = F[line]
      /\ "L24" \in ClaimLines /\ A["L24"] = F["L24"] + R
  <2>1. \A line \in ClaimLines : SumUp(Placed(carrying, pinned, line), g) \in Int
    <3>2. \A S \in SUBSET carrying : SumUp(S, g) \in Int
      BY FiguresAreFinite DEF SheetOf
    <3>3. \A line \in ClaimLines : Placed(carrying, pinned, line) \in SUBSET carrying
      BY DEF Placed
    <3>. QED BY <3>2, <3>3
  <2>2. "L24" \in ClaimLines /\ ClaimLines \subseteq Lines
    BY ClassLines DEF ClaimLines
  <2>3. \A line \in ClaimLines : A[line] = F[line] + (IF line = "L24" THEN R ELSE 0)
    BY <1>7 DEF SheetOf
  <2>4. \A line \in ClaimLines : F[line] \in Int
    BY <2>1
  <2>5. \A line \in ClaimLines : A[line] \in Int
    BY <2>2 DEF SheetOf
  <2>. HIDE DEF F
  <2>. QED BY <2>2, <2>3, <2>4, <2>5
<1>. HIDE DEF bal, F
<1>9. SumUp(ClaimLines, A) = SumUp(ClaimLines, F) + A["L24"] - F["L24"]
  <2>1. IsFiniteSet(ClaimLines)
    BY LinesAreFinite
  <2>2. PICK L, x : L = ClaimLines /\ x = "L24"
    OBVIOUS
  <2>3. /\ IsFiniteSet(L) /\ x \in L /\ \A line \in L : F[line] \in Int /\ A[line] \in Int
        /\ \A line \in L \ {x} : A[line] = F[line]
    BY <1>8, <2>1, <2>2
  <2>4. SumUp(L, A) = SumUp(L, F) + A[x] - F[x]
    BY <2>3, SumChanges
  <2>. QED BY <2>2, <2>4
<1>10. /\ SumUp(AssetLines, A) \in Int /\ SumUp(ClaimLines, F) \in Int
       /\ SumUp(Unplaced(carrying, pinned, AssetTypes), g) \in Int
       /\ SumUp(Unplaced(carrying, pinned, ClaimTypes), g) \in Int
       /\ SumUp(AssetLines, A)
          = SumUp(OfType(AssetTypes), g) - SumUp(Unplaced(carrying, pinned, AssetTypes), g)
       /\ SumUp(ClaimLines, F)
          = SumUp(OfType(ClaimTypes), g) - SumUp(Unplaced(carrying, pinned, ClaimTypes), g)
  BY <1>3, <1>4, ClassOnItsLines
<1>11. /\ SumUp(OfType(AssetTypes), bal) \in Int /\ SumUp(OfType(ClaimTypes), bal) \in Int
       /\ SumUp(OfType(PnlTypes), bal) \in Int
       /\ Dropped(js, day) \in Int /\ Lost(js, Never, day) \in Int
       /\ SumUp(OfType(AssetTypes), bal) + SumUp(OfType(ClaimTypes), bal) + SumUp(OfType(PnlTypes), bal)
          = -(Dropped(js, day) + Lost(js, Never, day))
  <2>1. /\ Lost(js, Never, day) \in Int /\ SumUp(ChartAccounts, bal) = -Lost(js, Never, day)
        /\ Dropped(js, day) \in Int /\ SumUp(Unclassed, bal) = Dropped(js, day)
    BY LedgerBalances, DroppedIsSum, NetsAreIntegers DEF bal, NetOver
  <2>2. /\ SumUp(OfType(ClaimTypes), bal) = SumUp(OfType(LiabilityTypes), bal) + SumUp(OfType({"EQUITY"}), bal)
        /\ \A types : SumUp(OfType(types), bal) \in Int
    BY <1>1, ClassSums
  <2>3. SumUp(ChartAccounts, bal)
        = SumUp(OfType(AssetTypes), bal) + SumUp(OfType(LiabilityTypes), bal)
          + SumUp(OfType({"EQUITY"}), bal) + SumUp(OfType(PnlTypes), bal) + SumUp(Unclassed, bal)
    BY <1>1, ByType
  <2>4. PICK x \in Int, y \in Int, z \in Int, u \in Int :
          /\ x = SumUp(OfType(AssetTypes), bal) /\ y = SumUp(OfType(LiabilityTypes), bal)
          /\ z = SumUp(OfType({"EQUITY"}), bal) /\ u = SumUp(OfType(PnlTypes), bal)
    BY <2>2
  <2>5. PICK d \in Int, l \in Int : d = Dropped(js, day) /\ l = Lost(js, Never, day)
    BY <2>1
  <2>6. x + (y + z) + u = -(d + l)
    <3>1. x + y + z + u + d = -l
      BY <2>1, <2>3, <2>4, <2>5
    <3>. QED BY <3>1
  <2>. QED BY <2>2, <2>4, <2>5, <2>6
<1>12. Compute(A)["LCHECK"] = SumUp(AssetLines, A) - SumUp(ClaimLines, A)
  BY ComputeLines DEF SheetOf
<1>13. PICK x \in Int, y \in Int, z \in Int, u \in Int, v \in Int, e \in Int :
         /\ x = SumUp(OfType(AssetTypes), bal) /\ y = SumUp(OfType(ClaimTypes), bal)
         /\ z = SumUp(OfType(PnlTypes), bal) /\ e = Dropped(js, day) + Lost(js, Never, day)
         /\ u = SumUp(Unplaced(carrying, pinned, AssetTypes), g)
         /\ v = SumUp(Unplaced(carrying, pinned, ClaimTypes), g)
  BY <1>10, <1>11
<1>14. x + y + z = -e /\ R = -z
  BY <1>7, <1>11, <1>13
<1>15. SumUp(AssetLines, A) = x - u /\ SumUp(ClaimLines, F) = (-y) - v
  BY <1>5, <1>6, <1>10, <1>13
<1>16. A["L24"] - F["L24"] = R /\ F["L24"] \in Int /\ A["L24"] \in Int
  BY <1>8
<1>17. SumUp(ClaimLines, A) = (-y) - v + R
  BY <1>9, <1>15, <1>16
<1>. QED BY <1>12, <1>13, <1>14, <1>15, <1>17

(***************************************************************************)
(* The statement of income, and schedule M-1.                              *)
(***************************************************************************)
LEMMA LineSums ==
  ASSUME NEW A \in [Lines -> Int]
  PROVE  /\ SumUp(IncomeLines, A) = A["1a"] + SumUp(OtherIncome, A) + A["M7"]
         /\ SumUp(CostLines, A)
            = A["1b"] + A["2"] + SumUp(DeductionLines, A) + (A["M2"] + A["M3"] + A["M5"])
<1>1. /\ \A l \in OtherIncome : A[l] \in Int
      /\ \A l \in DeductionLines : A[l] \in Int
      /\ A["1a"] \in Int /\ A["1b"] \in Int /\ A["2"] \in Int
      /\ A["M2"] \in Int /\ A["M3"] \in Int /\ A["M5"] \in Int /\ A["M7"] \in Int
  BY LineKinds DEF Uncomputed, AdjustingLines
<1>2. IsFiniteSet(OtherIncome) /\ IsFiniteSet(DeductionLines)
  BY LinesAreFinite
<1>3. SumUp(IncomeLines, A) = A["1a"] + SumUp(OtherIncome, A) + A["M7"]
  <2>1. PICK I1, I2 : I1 = OtherIncome \cup {"1a"} /\ I2 = I1 \cup {"M7"}
    OBVIOUS
  <2>2. I2 = IncomeLines
    BY <2>1 DEF IncomeLines
  <2>3. "1a" \notin OtherIncome /\ "M7" \notin I1
    BY <2>1 DEF OtherIncome
  <2>4. SumUp(I1, A) = A["1a"] + SumUp(OtherIncome, A)
    BY <1>1, <1>2, <2>1, <2>3, SumAdds
  <2>5. IsFiniteSet(I1) /\ \A l \in I1 : A[l] \in Int
    BY <1>1, <1>2, <2>1, FS_AddElement
  <2>6. SumUp(I2, A) = A["M7"] + SumUp(I1, A)
    BY <1>1, <2>1, <2>3, <2>5, SumAdds
  <2>7. SumUp(OtherIncome, A) \in Int
    BY <1>1, <1>2, SumIsInt
  <2>. QED BY <1>1, <2>2, <2>4, <2>6, <2>7
<1>4. SumUp(CostLines, A)
      = A["1b"] + A["2"] + SumUp(DeductionLines, A) + (A["M2"] + A["M3"] + A["M5"])
  <2>1. PICK C1, C2, C3, C4, C5 :
          /\ C1 = DeductionLines \cup {"1b"} /\ C2 = C1 \cup {"2"} /\ C3 = C2 \cup {"M2"}
          /\ C4 = C3 \cup {"M3"} /\ C5 = C4 \cup {"M5"}
    OBVIOUS
  <2>2. C5 = CostLines
    BY <2>1 DEF CostLines
  <2>3. "1b" \notin DeductionLines /\ "2" \notin C1 /\ "M2" \notin C2 /\ "M3" \notin C3 /\ "M5" \notin C4
    BY <2>1 DEF DeductionLines
  <2>4. /\ IsFiniteSet(C1) /\ IsFiniteSet(C2) /\ IsFiniteSet(C3) /\ IsFiniteSet(C4)
        /\ \A l \in C1 : A[l] \in Int
        /\ \A l \in C2 : A[l] \in Int
        /\ \A l \in C3 : A[l] \in Int
        /\ \A l \in C4 : A[l] \in Int
    BY <1>1, <1>2, <2>1, FS_AddElement
  <2>5. SumUp(C1, A) = A["1b"] + SumUp(DeductionLines, A)
    BY <1>1, <1>2, <2>1, <2>3, SumAdds
  <2>6. SumUp(C2, A) = A["2"] + SumUp(C1, A)
    BY <1>1, <2>1, <2>3, <2>4, SumAdds
  <2>7. SumUp(C3, A) = A["M2"] + SumUp(C2, A)
    BY <1>1, <2>1, <2>3, <2>4, SumAdds
  <2>8. SumUp(C4, A) = A["M3"] + SumUp(C3, A)
    BY <1>1, <2>1, <2>3, <2>4, SumAdds
  <2>9. SumUp(C5, A) = A["M5"] + SumUp(C4, A)
    BY <1>1, <2>1, <2>3, <2>4, SumAdds
  <2>10. SumUp(DeductionLines, A) \in Int
    BY <1>1, <1>2, SumIsInt
  <2>. QED BY <1>1, <2>2, <2>5, <2>6, <2>7, <2>8, <2>9, <2>10
<1>. QED BY <1>3, <1>4

StatementOf(js, p, carrying, pinned, g, A) ==
  /\ FiguresOf(carrying, g)
  /\ \A a \in OfType(IncomeTypes) : g[a] = -NetOver(js, p.from, p.to)[a]
  /\ \A a \in OfType(CostTypes) : g[a] = NetOver(js, p.from, p.to)[a]
  /\ A \in [Lines -> Int] /\ A["M1"] = ProfitColumn(js, p).net
  /\ \A line \in (IncomeLines \cup CostLines) \cup {"M4", "M8"} :
       A[line] = SumUp(Placed(carrying, pinned, line), g)

LEMMA StatementTies ==
  ASSUME NEW js, Ledger(js), NEW p, NEW carrying, NEW pinned, Sound(pinned), NEW g, NEW A,
         StatementOf(js, p, carrying, pinned, g, A)
  PROVE  Compute(A)["M10"] - Compute(A)["28"]
         = SumUp(Unplaced(carrying, pinned, IncomeTypes), g) - SumUp(Unplaced(carrying, pinned, CostTypes), g)
<1>. DEFINE net == NetOver(js, p.from, p.to)
<1>1. \A a \in ChartAccounts : net[a] \in Int
  BY NetsAreIntegers
<1>2. \A a \in carrying : LineFor(a, pinned) \in Lines =>
        /\ LineFor(a, pinned) \in IncomeLines <=> TypeOf[a] \in IncomeTypes
        /\ LineFor(a, pinned) \in CostLines <=> TypeOf[a] \in CostTypes
  BY Fits DEF StatementOf, FiguresOf
<1>3. IsFiniteSet(IncomeLines) /\ IsFiniteSet(CostLines)
  <2>1. /\ IncomeLines = ({"1a"} \cup OtherIncome) \cup {"M7"}
        /\ CostLines = ({"1b", "2"} \cup DeductionLines) \cup {"M2", "M3", "M5", "M5"}
    BY DEF IncomeLines, CostLines
  <2>2. \A S, T : IsFiniteSet(S) /\ IsFiniteSet(T) => IsFiniteSet(S \cup T)
    BY FS_Union
  <2>3. /\ IsFiniteSet({"1a"}) /\ IsFiniteSet({"M7"}) /\ IsFiniteSet({"1b", "2"})
        /\ IsFiniteSet({"M2", "M3", "M5", "M5"})
    BY OneIsFinite
  <2>. QED BY <2>1, <2>2, <2>3, LinesAreFinite
<1>4. LaidOut(carrying, pinned, g, IncomeTypes, IncomeLines, A)
  BY <1>2, <1>3, ClassLines, KnownTypes DEF StatementOf, LaidOut
<1>5. LaidOut(carrying, pinned, g, CostTypes, CostLines, A)
  BY <1>2, <1>3, ClassLines, KnownTypes DEF StatementOf, LaidOut
<1>6. SumUp(OfType(IncomeTypes), g) = -SumUp(OfType(IncomeTypes), net)
  <2>1. \A a \in OfType(IncomeTypes) : net[a] \in Int /\ g[a] = -net[a]
    BY <1>1 DEF StatementOf, OfType
  <2>. HIDE DEF net
  <2>. QED BY <2>1, Chart, SumNegates
<1>7. SumUp(OfType(CostTypes), g) = SumUp(OfType(CostTypes), net)
  <2>1. \A a \in OfType(CostTypes) : g[a] = net[a]
    BY DEF StatementOf
  <2>. HIDE DEF net
  <2>. QED BY <2>1, Chart, SumSame
<1>8. A["M4"] = 0 /\ A["M8"] = 0
  <2>1. Placed(carrying, pinned, "M4") = {} /\ Placed(carrying, pinned, "M8") = {}
    <3>1. "M4" \in Lines /\ "M8" \in Lines
      BY DEF Lines, AdjustingLines
    <3>. QED BY <3>1, Fits DEF Placed, StatementOf, FiguresOf
  <2>. QED BY <2>1, SumOfNone DEF StatementOf
<1>9. A["M1"] = -SumUp(OfType(PnlTypes), net)
  BY ProfitFigures DEF StatementOf
<1>. HIDE DEF net
<1>10. /\ SumUp(OfType(PnlTypes), net) = SumUp(OfType(IncomeTypes), net) + SumUp(OfType(CostTypes), net)
       /\ SumUp(OfType(IncomeTypes), net) \in Int /\ SumUp(OfType(CostTypes), net) \in Int
  BY <1>1, ClassSums
<1>11. /\ SumUp(Unplaced(carrying, pinned, IncomeTypes), g) \in Int
       /\ SumUp(Unplaced(carrying, pinned, CostTypes), g) \in Int
       /\ SumUp(IncomeLines, A)
          = SumUp(OfType(IncomeTypes), g) - SumUp(Unplaced(carrying, pinned, IncomeTypes), g)
       /\ SumUp(CostLines, A)
          = SumUp(OfType(CostTypes), g) - SumUp(Unplaced(carrying, pinned, CostTypes), g)
  BY <1>4, <1>5, ClassOnItsLines
<1>12. PICK x \in Int, y \in Int, u \in Int, v \in Int :
         /\ x = SumUp(OfType(IncomeTypes), net) /\ y = SumUp(OfType(CostTypes), net)
         /\ u = SumUp(Unplaced(carrying, pinned, IncomeTypes), g)
         /\ v = SumUp(Unplaced(carrying, pinned, CostTypes), g)
  BY <1>10, <1>11
<1>13. SumUp(IncomeLines, A) = (-x) - u /\ SumUp(CostLines, A) = y - v /\ A["M1"] = (-x) - y
  BY <1>6, <1>7, <1>9, <1>10, <1>11, <1>12
<1>14. A \in [Lines -> Int]
  BY DEF StatementOf
<1>15. /\ A["1a"] \in Int /\ A["1b"] \in Int /\ A["2"] \in Int /\ A["M1"] \in Int
       /\ A["M2"] \in Int /\ A["M3"] \in Int /\ A["M5"] \in Int /\ A["M7"] \in Int
  BY <1>14, LineKinds DEF Uncomputed, AdjustingLines
<1>16. /\ SumUp(OtherIncome, A) \in Int /\ SumUp(DeductionLines, A) \in Int
       /\ Compute(A)["M10"] - Compute(A)["28"]
          = (A["M1"] + A["M2"] + A["M3"] + A["M4"] + A["M5"]) - (A["M7"] + A["M8"])
            - (A["1a"] - A["1b"] - A["2"] + SumUp(OtherIncome, A) - SumUp(DeductionLines, A))
  BY <1>14, ComputeLines
<1>17. /\ SumUp(IncomeLines, A) = A["1a"] + SumUp(OtherIncome, A) + A["M7"]
       /\ SumUp(CostLines, A)
          = A["1b"] + A["2"] + SumUp(DeductionLines, A) + (A["M2"] + A["M3"] + A["M5"])
  BY <1>14, LineSums
<1>18. Compute(A)["M10"] - Compute(A)["28"] = A["M1"] + SumUp(CostLines, A) - SumUp(IncomeLines, A)
  BY <1>8, <1>15, <1>16, <1>17
<1>. QED BY <1>12, <1>13, <1>18

(***************************************************************************)
(* The workpaper.                                                          *)
(***************************************************************************)
FigureColumn(js, p, column) == [a \in ChartAccounts |-> Figures(js, a, p)[column]]

Carrying(js, p) == {a \in OfType(AccountTypes) : HasBalance(Figures(js, a, p))}

Amounts(js, p, pinned) ==
  [line \in Lines |->
    IF line = "M1" THEN ProfitAndLoss(js, p, NoPeriod).this.net
    ELSE SumUp(Placed(Carrying(js, p), pinned, line),
               [a \in ChartAccounts |->
                 IF ClosingBasis(line) THEN Figures(js, a, p).closing ELSE Figures(js, a, p).period])
         + (IF line = "L24" THEN BalanceSheet(js, p.to, DayBefore(p.from)).this.retained ELSE 0)]

Beginnings(js, p, pinned) ==
  [line \in Lines |->
    IF ClosingBasis(line)
    THEN SumUp(Placed(Carrying(js, p), pinned, line), FigureColumn(js, p, "beginning"))
         + (IF line = "L24" THEN BalanceSheet(js, p.to, DayBefore(p.from)).that.retained ELSE 0)
    ELSE 0]

LEMMA FormParts ==
  ASSUME NEW js, NEW p, NEW pinned
  PROVE  LET form == Form1120(js, p, pinned) IN
         /\ form.amount = Compute(Amounts(js, p, pinned))
         /\ form.beginning = Compute(Beginnings(js, p, pinned))
         /\ form.figures = [a \in ChartAccounts |-> Figures(js, a, p)]
         /\ \A types : {a \in form.unmapped : TypeOf[a] \in types} = Unplaced(Carrying(js, p), pinned, types)
<1>. DEFINE figures == [a \in ChartAccounts |-> Figures(js, a, p)]
            form == Form1120(js, p, pinned)
            sheet == BalanceSheet(js, p.to, DayBefore(p.from))
            carrying == {a \in OfType(AccountTypes) : HasBalance(figures[a])}
            placed(line) == {a \in carrying : LineFor(a, pinned) = line}
            amounts == [line \in Lines |->
              IF line = "M1" THEN ProfitAndLoss(js, p, NoPeriod).this.net
              ELSE Total(placed(line),
                         [a \in ChartAccounts |->
                           IF ClosingBasis(line) THEN figures[a].closing ELSE figures[a].period])
                   + (IF line = "L24" THEN sheet.this.retained ELSE 0)]
            beginnings == [line \in Lines |->
              IF ClosingBasis(line)
              THEN Total(placed(line), [a \in ChartAccounts |-> figures[a].beginning])
                   + (IF line = "L24" THEN sheet.that.retained ELSE 0)
              ELSE 0]
<1>1. /\ form.amount = Compute(amounts) /\ form.beginning = Compute(beginnings)
      /\ form.figures = figures
      /\ form.unmapped = {a \in carrying : LineFor(a, pinned) \notin Lines}
  BY DEF Form1120
<1>6. carrying = Carrying(js, p)
  BY DEF Carrying, OfType
<1>2. \A line : placed(line) = Placed(Carrying(js, p), pinned, line)
  BY <1>6 DEF Placed
<1>3. amounts = Amounts(js, p, pinned)
  <2>1. ASSUME NEW line \in Lines PROVE amounts[line] = Amounts(js, p, pinned)[line]
    <3>1. [a \in ChartAccounts |-> IF ClosingBasis(line) THEN figures[a].closing ELSE figures[a].period]
          = [a \in ChartAccounts |->
              IF ClosingBasis(line) THEN Figures(js, a, p).closing ELSE Figures(js, a, p).period]
      OBVIOUS
    <3>. HIDE DEF placed, figures
    <3>. QED BY <1>2, <3>1, TotalIsSum DEF Amounts
  <2>. HIDE DEF figures, placed, sheet
  <2>. QED BY <2>1 DEF Amounts
<1>4. beginnings = Beginnings(js, p, pinned)
  <2>1. ASSUME NEW line \in Lines PROVE beginnings[line] = Beginnings(js, p, pinned)[line]
    <3>1. [a \in ChartAccounts |-> figures[a].beginning] = FigureColumn(js, p, "beginning")
      BY DEF FigureColumn
    <3>. HIDE DEF placed, figures
    <3>. QED BY <1>2, <3>1, TotalIsSum DEF Beginnings
  <2>. HIDE DEF figures, placed, sheet
  <2>. QED BY <2>1 DEF Beginnings
<1>5. ASSUME NEW types
      PROVE  {a \in form.unmapped : TypeOf[a] \in types} = Unplaced(Carrying(js, p), pinned, types)
  <2>. HIDE DEF form, carrying
  <2>. QED BY <1>1, <1>6 DEF Unplaced
<1>. HIDE DEF amounts, beginnings
<1>. QED BY <1>1, <1>3, <1>4, <1>5

LEMMA FigureFacts ==
  ASSUME NEW js, Ledger(js), NEW a \in ChartAccounts, NEW p
  PROVE  LET f == Figures(js, a, p)
             net == Net(js, a, p.from, p.to)
             opening == Net(js, a, Never, DayBefore(p.from))
             closing == Net(js, a, Never, p.to)
         IN  /\ f.period \in Int /\ f.beginning \in Int /\ f.closing \in Int
             /\ TypeOf[a] \in IncomeTypes => f.period = -net
             /\ TypeOf[a] \in CostTypes => f.period = net
             /\ TypeOf[a] \in AssetTypes => f.beginning = opening /\ f.closing = closing
             /\ TypeOf[a] \in ClaimTypes => f.beginning = -opening /\ f.closing = -closing
<1>. DEFINE f == Figures(js, a, p)
<1>1. PICK net \in Int, opening \in Int, closing \in Int :
         /\ net = Net(js, a, p.from, p.to) /\ opening = Balance(js, a, DayBefore(p.from))
         /\ closing = Balance(js, a, p.to)
  BY NetOfSides DEF Balance
<1>. DEFINE sign == IF TypeOf[a] \in IncomeTypes \cup LiabilityTypes \cup {"EQUITY"} THEN -1 ELSE 1
<1>3. f = IF TypeOf[a] \in PnlTypes
          THEN [period |-> sign * net, beginning |-> 0, closing |-> 0]
          ELSE [period |-> sign * closing - sign * opening, beginning |-> sign * opening,
                closing |-> sign * closing]
  BY <1>1 DEF Figures
<1>. HIDE DEF f
<1>2. TypeOf[a] \in AccountTypes =>
        \/ TypeOf[a] \in IncomeTypes \/ TypeOf[a] \in CostTypes
        \/ TypeOf[a] \in AssetTypes \/ TypeOf[a] \in ClaimTypes
  BY ClassTypes
<1>9. \A types : TypeOf[a] \in types /\ types \subseteq AccountTypes => TypeOf[a] \in AccountTypes
  OBVIOUS
<1>4. CASE TypeOf[a] \in IncomeTypes
  <2>1. sign = -1 /\ TypeOf[a] \in PnlTypes
    BY <1>4 DEF PnlTypes
  <2>2. f.period = -net /\ f.beginning = 0 /\ f.closing = 0
    BY <1>3, <2>1
  <2>. QED BY <1>1, <1>4, <1>9, <2>2, KnownTypes, ClassTypes DEF f
<1>5. CASE TypeOf[a] \in CostTypes
  <2>1. sign = 1 /\ TypeOf[a] \in PnlTypes
    BY <1>5, <1>9, KnownTypes, ClassTypes DEF PnlTypes, ClaimTypes
  <2>2. f.period = net /\ f.beginning = 0 /\ f.closing = 0
    BY <1>3, <2>1
  <2>. QED BY <1>1, <1>5, <1>9, <2>2, KnownTypes, ClassTypes DEF f
<1>6. CASE TypeOf[a] \in AssetTypes
  <2>1. sign = 1 /\ TypeOf[a] \notin PnlTypes
    BY <1>6, <1>9, KnownTypes, ClassTypes DEF ClaimTypes
  <2>2. f.period = closing - opening /\ f.beginning = opening /\ f.closing = closing
    BY <1>3, <2>1
  <2>. QED BY <1>1, <1>6, <1>9, <2>2, KnownTypes, ClassTypes DEF f, Balance
<1>7. CASE TypeOf[a] \in ClaimTypes
  <2>1. sign = -1 /\ TypeOf[a] \notin PnlTypes
    BY <1>7, <1>9, KnownTypes, ClassTypes DEF ClaimTypes
  <2>2. f.period = (-closing) - (-opening) /\ f.beginning = -opening /\ f.closing = -closing
    BY <1>3, <2>1
  <2>. QED BY <1>1, <1>7, <1>9, <2>2, KnownTypes, ClassTypes DEF f, Balance
<1>8. CASE TypeOf[a] \notin AccountTypes
  <2>1. /\ TypeOf[a] \notin IncomeTypes /\ TypeOf[a] \notin CostTypes /\ TypeOf[a] \notin AssetTypes
        /\ TypeOf[a] \notin ClaimTypes /\ TypeOf[a] \notin PnlTypes
    BY <1>8, KnownTypes DEF PnlTypes
  <2>2. sign = 1
    BY <2>1 DEF ClaimTypes
  <2>3. f.period = closing - opening /\ f.beginning = opening /\ f.closing = closing
    BY <1>3, <2>1, <2>2
  <2>. QED BY <1>1, <2>1, <2>3 DEF f
<1>. QED BY <1>2, <1>4, <1>5, <1>6, <1>7, <1>8

\* The form's two columns are laid out from the statements' figures.
LEMMA FormColumns ==
  ASSUME NEW js, Ledger(js), NEW p, p.from \in Int, p.to \in Int, NEW pinned
  PROVE  LET carrying == Carrying(js, p)
             A == Amounts(js, p, pinned)
             B == Beginnings(js, p, pinned)
         IN  /\ StatementOf(js, p, carrying, pinned, FigureColumn(js, p, "period"), A)
             /\ SheetOf(js, p.to, carrying, pinned, FigureColumn(js, p, "closing"), A)
             /\ SheetOf(js, DayBefore(p.from), carrying, pinned, FigureColumn(js, p, "beginning"), B)
<1>. DEFINE carrying == Carrying(js, p)
            A == Amounts(js, p, pinned)
            B == Beginnings(js, p, pinned)
            per == FigureColumn(js, p, "period")
            beg == FigureColumn(js, p, "beginning")
            clo == FigureColumn(js, p, "closing")
            before == DayBefore(p.from)
<1>1. before \in Int /\ NoPeriod.to \in Int
  BY NeverIsInteger DEF DayBefore, NoPeriod
<1>2. /\ ProfitAndLoss(js, p, NoPeriod).this = ProfitColumn(js, p)
      /\ BalanceSheet(js, p.to, before).this = SheetColumn(js, p.to)
      /\ BalanceSheet(js, p.to, before).that = SheetColumn(js, before)
  BY <1>1, ProfitsAreColumns, SheetsAreColumns
<1>3. carrying \in SUBSET OfType(AccountTypes)
  BY DEF Carrying
<1>4. ASSUME NEW a \in ChartAccounts
      PROVE  /\ per[a] \in Int /\ beg[a] \in Int /\ clo[a] \in Int
             /\ TypeOf[a] \in IncomeTypes => per[a] = -NetOver(js, p.from, p.to)[a]
             /\ TypeOf[a] \in CostTypes => per[a] = NetOver(js, p.from, p.to)[a]
             /\ TypeOf[a] \in AssetTypes => /\ beg[a] = NetOver(js, Never, before)[a]
                                           /\ clo[a] = NetOver(js, Never, p.to)[a]
             /\ TypeOf[a] \in ClaimTypes => /\ beg[a] = -NetOver(js, Never, before)[a]
                                           /\ clo[a] = -NetOver(js, Never, p.to)[a]
             /\ TypeOf[a] \in AccountTypes /\ a \notin carrying => per[a] = 0 /\ beg[a] = 0 /\ clo[a] = 0
  <2>1. /\ per[a] = Figures(js, a, p).period /\ beg[a] = Figures(js, a, p).beginning
        /\ clo[a] = Figures(js, a, p).closing
    BY DEF FigureColumn
  <2>2. /\ NetOver(js, p.from, p.to)[a] = Net(js, a, p.from, p.to)
        /\ NetOver(js, Never, before)[a] = Net(js, a, Never, before)
        /\ NetOver(js, Never, p.to)[a] = Net(js, a, Never, p.to)
    BY DEF NetOver
  <2>3. TypeOf[a] \in AccountTypes /\ a \notin carrying => per[a] = 0 /\ beg[a] = 0 /\ clo[a] = 0
    BY <2>1 DEF Carrying, HasBalance, OfType
  <2>. HIDE DEF per, beg, clo, carrying
  <2>. QED BY <2>1, <2>2, <2>3, FigureFacts
<1>15. FiguresOf(carrying, per) /\ FiguresOf(carrying, beg) /\ FiguresOf(carrying, clo)
  <2>. HIDE DEF per, beg, clo, carrying
  <2>. QED BY <1>3, <1>4 DEF FiguresOf, OfType
<1>6. ASSUME NEW line
      PROVE  /\ SumUp(Placed(carrying, pinned, line), per) \in Int
             /\ SumUp(Placed(carrying, pinned, line), beg) \in Int
             /\ SumUp(Placed(carrying, pinned, line), clo) \in Int
  <2>1. Placed(carrying, pinned, line) \in SUBSET carrying
    BY DEF Placed
  <2>. HIDE DEF per, beg, clo, carrying
  <2>. QED BY <1>15, <2>1, FiguresAreFinite
<1>7. /\ ProfitColumn(js, p).net \in Int /\ SheetColumn(js, p.to).retained \in Int
      /\ SheetColumn(js, before).retained \in Int
  BY NetsAreIntegers, ProfitFigures, RetainedIsInteger
<1>8. ASSUME NEW line \in Lines
      PROVE  /\ line = "M1" => A[line] = ProfitColumn(js, p).net
             /\ line # "M1" /\ ClosingBasis(line) =>
                  A[line] = SumUp(Placed(carrying, pinned, line), clo)
                            + (IF line = "L24" THEN SheetColumn(js, p.to).retained ELSE 0)
             /\ line # "M1" /\ ~ ClosingBasis(line) =>
                  A[line] = SumUp(Placed(carrying, pinned, line), per)
                            + (IF line = "L24" THEN SheetColumn(js, p.to).retained ELSE 0)
             /\ ClosingBasis(line) =>
                  B[line] = SumUp(Placed(carrying, pinned, line), beg)
                            + (IF line = "L24" THEN SheetColumn(js, before).retained ELSE 0)
             /\ ~ ClosingBasis(line) => B[line] = 0
  <2>1. A[line] = IF line = "M1" THEN ProfitAndLoss(js, p, NoPeriod).this.net
                  ELSE SumUp(Placed(carrying, pinned, line),
                             [a \in ChartAccounts |->
                               IF ClosingBasis(line) THEN Figures(js, a, p).closing ELSE Figures(js, a, p).period])
                       + (IF line = "L24" THEN BalanceSheet(js, p.to, before).this.retained ELSE 0)
    BY DEF Amounts
  <2>2. B[line] = IF ClosingBasis(line)
                  THEN SumUp(Placed(carrying, pinned, line), beg)
                       + (IF line = "L24" THEN BalanceSheet(js, p.to, before).that.retained ELSE 0)
                  ELSE 0
    BY DEF Beginnings
  <2>3. /\ ClosingBasis(line) =>
             [a \in ChartAccounts |->
               IF ClosingBasis(line) THEN Figures(js, a, p).closing ELSE Figures(js, a, p).period] = clo
        /\ ~ ClosingBasis(line) =>
             [a \in ChartAccounts |->
               IF ClosingBasis(line) THEN Figures(js, a, p).closing ELSE Figures(js, a, p).period] = per
    BY DEF FigureColumn
  <2>. HIDE DEF A, B, per, beg, clo, carrying, before
  <2>. QED BY <1>2, <2>1, <2>2, <2>3
<1>9. A \in [Lines -> Int] /\ B \in [Lines -> Int]
  <2>1. A = [line \in Lines |-> A[line]] /\ B = [line \in Lines |-> B[line]]
    BY DEF Amounts, Beginnings
  <2>2. \A line \in Lines : A[line] \in Int /\ B[line] \in Int
    <3>. HIDE DEF A, B, per, beg, clo, carrying, before
    <3>. QED BY <1>6, <1>7, <1>8
  <2>. HIDE DEF A, B
  <2>. QED BY <2>1, <2>2
<1>. HIDE DEF A, B, per, beg, clo, carrying, before
<1>10. /\ \A line \in AssetLines : line \in Lines /\ line # "M1" /\ line # "L24" /\ ClosingBasis(line)
       /\ \A line \in ClaimLines : line \in Lines /\ line # "M1" /\ ClosingBasis(line)
  BY ClassLines DEF AssetLines, ClaimLines, ClosingBasis
<1>11. /\ \A line \in (IncomeLines \cup CostLines) \cup {"M4", "M8"} :
             line \in Lines /\ line # "M1" /\ line # "L24" /\ ~ ClosingBasis(line)
       /\ "M1" \in Lines
  <2>1. \A line \in IncomeLines \cup CostLines : line \in Lines /\ line # "M1" /\ line # "L24"
    BY ClassLines DEF IncomeLines, CostLines, OtherIncome, DeductionLines
  <2>2. \A line \in IncomeLines \cup CostLines : ~ ClosingBasis(line)
    BY ClassLines DEF ClosingBasis
  <2>3. /\ "M4" \in Lines /\ "M8" \in Lines /\ "M1" \in Lines
        /\ ~ ClosingBasis("M4") /\ ~ ClosingBasis("M8")
    BY DEF Lines, AdjustingLines, ClosingBasis, AssetLines, ClaimLines
  <2>. QED BY <2>1, <2>2, <2>3
<1>12. StatementOf(js, p, carrying, pinned, per, A)
  <2>1. A["M1"] = ProfitColumn(js, p).net
    BY <1>8, <1>11
  <2>2. ASSUME NEW line \in (IncomeLines \cup CostLines) \cup {"M4", "M8"}
        PROVE  A[line] = SumUp(Placed(carrying, pinned, line), per)
    BY <1>6, <1>8, <1>11
  <2>. QED BY <1>4, <1>9, <1>15, <2>1, <2>2 DEF StatementOf, OfType
<1>13. SheetOf(js, p.to, carrying, pinned, clo, A)
  <2>1. ASSUME NEW line \in AssetLines PROVE A[line] = SumUp(Placed(carrying, pinned, line), clo)
    BY <1>6, <1>8, <1>10
  <2>2. ASSUME NEW line \in ClaimLines
        PROVE  A[line] = SumUp(Placed(carrying, pinned, line), clo)
                         + (IF line = "L24" THEN SheetColumn(js, p.to).retained ELSE 0)
    BY <1>8, <1>10
  <2>. QED BY <1>4, <1>9, <1>15, <2>1, <2>2 DEF SheetOf, OfType
<1>14. SheetOf(js, before, carrying, pinned, beg, B)
  <2>1. ASSUME NEW line \in AssetLines PROVE B[line] = SumUp(Placed(carrying, pinned, line), beg)
    BY <1>6, <1>8, <1>10
  <2>2. ASSUME NEW line \in ClaimLines
        PROVE  B[line] = SumUp(Placed(carrying, pinned, line), beg)
                         + (IF line = "L24" THEN SheetColumn(js, before).retained ELSE 0)
    BY <1>8, <1>10
  <2>. QED BY <1>4, <1>9, <1>15, <2>1, <2>2 DEF SheetOf, OfType
<1>. QED BY <1>12, <1>13, <1>14 DEF A, B, per, beg, clo, carrying, before

\* For any chart, whatever the types of its accounts, any history of postings, any day a
\* return is drawn up on and any placement of the accounts that is sound, income per
\* return differs from line 28 by exactly the accounts the workpaper lists as having no
\* line, and so do the two sides of the balance sheet from each other at either end of the
\* year, but for exactly the accounts of unknown types and what rounding took.
THEOREM FormTies == ReportsSpec => []Form1120Ties
<1>1. Ledger(journals) /\ AddsUp(journals) => Form1120Ties
  <2>1. SUFFICES ASSUME Ledger(journals), AddsUp(journals), NEW d \in ReportDays, NEW pinned \in Placements, Sound(pinned),
                        NEW form, form = Form1120(journals, ReturnYear(d), pinned)
                 PROVE  /\ form.amount["M10"] - form.amount["28"]
                           = Total({a \in form.unmapped : TypeOf[a] \in IncomeTypes},
                                   [a \in ChartAccounts |-> form.figures[a]["period"]])
                             - Total({a \in form.unmapped : TypeOf[a] \in CostTypes},
                                     [a \in ChartAccounts |-> form.figures[a]["period"]])
                        /\ form.amount["LCHECK"]
                           = Total({a \in form.unmapped : TypeOf[a] \in ClaimTypes},
                                   [a \in ChartAccounts |-> form.figures[a]["closing"]])
                             - Total({a \in form.unmapped : TypeOf[a] \in AssetTypes},
                                     [a \in ChartAccounts |-> form.figures[a]["closing"]])
                             - SheetGap(d)
                        /\ form.beginning["LCHECK"]
                           = Total({a \in form.unmapped : TypeOf[a] \in ClaimTypes},
                                   [a \in ChartAccounts |-> form.figures[a]["beginning"]])
                             - Total({a \in form.unmapped : TypeOf[a] \in AssetTypes},
                                     [a \in ChartAccounts |-> form.figures[a]["beginning"]])
                             - SheetGap(DayBefore(FinancialYearStart(d)))
    BY DEF Form1120Ties, ClaimTypes
  <2>2. PICK p : p = ReturnYear(d)
    OBVIOUS
  <2>3. p.from \in Int /\ p.to \in Int /\ p.from = FinancialYearStart(d) /\ p.to = d
    <3>1. d \in Int /\ d > 0
      BY ReportsAssumption
    <3>. QED BY <2>2, <3>1, NewYear DEF ReturnYear
  <2>4. PICK carrying, A, B :
          /\ carrying = Carrying(journals, p) /\ A = Amounts(journals, p, pinned)
          /\ B = Beginnings(journals, p, pinned)
    OBVIOUS
  <2>5. /\ form.amount = Compute(A) /\ form.beginning = Compute(B)
        /\ form.figures = [a \in ChartAccounts |-> Figures(journals, a, p)]
        /\ \A types : {a \in form.unmapped : TypeOf[a] \in types} = Unplaced(carrying, pinned, types)
    BY <2>1, <2>2, <2>4, FormParts
  <2>6. /\ [a \in ChartAccounts |-> form.figures[a]["period"]] = FigureColumn(journals, p, "period")
        /\ [a \in ChartAccounts |-> form.figures[a]["closing"]] = FigureColumn(journals, p, "closing")
        /\ [a \in ChartAccounts |-> form.figures[a]["beginning"]] = FigureColumn(journals, p, "beginning")
    BY <2>5 DEF FigureColumn
  <2>7. /\ StatementOf(journals, p, carrying, pinned, FigureColumn(journals, p, "period"), A)
        /\ SheetOf(journals, p.to, carrying, pinned, FigureColumn(journals, p, "closing"), A)
        /\ SheetOf(journals, DayBefore(p.from), carrying, pinned, FigureColumn(journals, p, "beginning"), B)
    BY <2>1, <2>3, <2>4, FormColumns
  <2>8. Compute(A)["M10"] - Compute(A)["28"]
        = SumUp(Unplaced(carrying, pinned, IncomeTypes), FigureColumn(journals, p, "period"))
          - SumUp(Unplaced(carrying, pinned, CostTypes), FigureColumn(journals, p, "period"))
    BY <2>1, <2>7, StatementTies
  <2>9. Compute(A)["LCHECK"]
        = SumUp(Unplaced(carrying, pinned, ClaimTypes), FigureColumn(journals, p, "closing"))
          - SumUp(Unplaced(carrying, pinned, AssetTypes), FigureColumn(journals, p, "closing"))
          - SheetGap(d)
    BY <2>1, <2>3, <2>7, SheetTies DEF SheetGap
  <2>10. Compute(B)["LCHECK"]
         = SumUp(Unplaced(carrying, pinned, ClaimTypes), FigureColumn(journals, p, "beginning"))
           - SumUp(Unplaced(carrying, pinned, AssetTypes), FigureColumn(journals, p, "beginning"))
           - SheetGap(DayBefore(FinancialYearStart(d)))
    BY <2>1, <2>3, <2>7, SheetTies DEF SheetGap
  <2>. QED BY <2>5, <2>6, <2>8, <2>9, <2>10, TotalIsSum
<1>. QED BY <1>1, LedgerBegins, LedgerStays, PTL DEF ReportsSpec

(***************************************************************************)
(* Aged receivables and payables, for any contacts, invoices and days.     *)
(***************************************************************************)
AgedInv ==
  /\ IsFiniteSet(DOMAIN bills) /\ DOMAIN bills \subseteq InvoiceIds
  /\ \A i \in DOMAIN bills : bills[i] \in Bills
  /\ claim = NoClaim \/ claim \in Claims

LEMMA AgedBegins == AgedInit => AgedInv
BY FS_EmptySet DEF AgedInit, AgedInv

LEMMA AgedStays == AgedInv /\ [AgedNext]_agedVars => AgedInv'
<1>. SUFFICES ASSUME AgedInv, [AgedNext]_agedVars PROVE AgedInv'
  OBVIOUS
<1>. USE DEF AgedInv
<1>1. ASSUME NEW i \in InvoiceIds, NEW body \in InvoiceBodies, SaveInvoice(i, body)
      PROVE  AgedInv'
  <2>1. IsFiniteSet(DOMAIN bills \cup {i})
    BY FS_AddElement
  <2>2. /\ DOMAIN bills' = DOMAIN bills \cup {i} /\ claim' = claim
        /\ \A k \in DOMAIN bills' : bills'[k] = IF k = i THEN body ELSE bills[k]
    BY <1>1 DEF SaveInvoice
  <2>3. body \in Bills
    BY AgedAssumption
  <2>. QED BY <2>1, <2>2, <2>3
<1>2. ASSUME NEW body \in ClaimBodies, SubmitClaim(body) PROVE AgedInv'
  BY <1>2, AgedAssumption DEF SubmitClaim
<1>3. ASSUME DeleteClaim PROVE AgedInv'
  <2>1. claim \in Claims /\ claim' = [claim EXCEPT !.status = "DELETED"] /\ bills' = bills
    BY <1>3 DEF DeleteClaim, NoClaim
  <2>2. claim' \in Claims
    BY <2>1 DEF Claims
  <2>. QED BY <2>1, <2>2
<1>4. CASE UNCHANGED agedVars
  BY <1>4 DEF agedVars
<1>. QED BY <1>1, <1>2, <1>3, <1>4 DEF AgedNext

\* The columns: every age has one, and no greater age a younger one.
LEMMA BandOfAge ==
  /\ \A age \in Int : AgeBand(age) \in Bands
  /\ \A age, older \in Int : age <= older => AgeBand(age) <= AgeBand(older)
BY DEF AgeBand, Bands

LEMMA OwedRows ==
  ASSUME AgedInv, NEW type, NEW asOf \in Int
  PROVE  /\ IsFiniteSet(StillOwed(type, asOf)) /\ StillOwed(type, asOf) \subseteq DOMAIN bills
         /\ \A i \in StillOwed(type, asOf) :
              /\ i \in Nat /\ DueDay(bills[i]) \in Int /\ Dues[i] \in Int
              /\ InvoiceBand(bills[i], asOf) \in Bands
              /\ bills[i].contact \in Customers \cup {NoCustomer}
<1>1. IsFiniteSet(StillOwed(type, asOf)) /\ StillOwed(type, asOf) \subseteq DOMAIN bills
  BY FS_Subset DEF StillOwed, AgedInv
<1>2. ASSUME NEW i \in StillOwed(type, asOf)
      PROVE  /\ i \in Nat /\ DueDay(bills[i]) \in Int /\ Dues[i] \in Int
             /\ bills[i].contact \in Customers \cup {NoCustomer}
  <2>1. i \in DOMAIN bills /\ bills[i] \in Bills /\ i \in InvoiceIds /\ bills[i].date # NoDay
    BY DEF StillOwed, AgedInv
  <2>2. bills[i].date \in Int
    BY <2>1 DEF Bills, Day
  <2>. QED BY <2>1, <2>2, AgedAssumption DEF Bills, Day, DueDay, Coalesce, Dues
<1>3. ASSUME NEW i \in StillOwed(type, asOf) PROVE InvoiceBand(bills[i], asOf) \in Bands
  <2>1. asOf - DueDay(bills[i]) \in Int
    BY <1>2
  <2>. QED BY <2>1, BandOfAge DEF InvoiceBand
<1>. QED BY <1>1, <1>2, <1>3

LEMMA OutstandingRows ==
  ASSUME AgedInv, NEW type, NEW asOf \in Int, NEW who
  PROVE  /\ IsFiniteSet(OutstandingInvoices(type, asOf, who))
         /\ OutstandingInvoices(type, asOf, who) \in SUBSET StillOwed(type, asOf)
         /\ \A i \in OutstandingInvoices(type, asOf, who) :
              bills[i].contact \in who /\ bills[i].contact \in Customers /\ Dues[i] \in Int
<1>1. OutstandingInvoices(type, asOf, who) \in SUBSET StillOwed(type, asOf)
  BY DEF OutstandingInvoices
<1>2. IsFiniteSet(OutstandingInvoices(type, asOf, who))
  BY <1>1, OwedRows, FS_Subset
<1>. QED BY <1>1, <1>2, OwedRows DEF OutstandingInvoices

\* A contact's columns add up to its total.
LEMMA RowFoots ==
  ASSUME AgedInv, NEW type, NEW asOf \in Int, NEW c
  PROVE  /\ AgedRow(type, asOf, c).total = SumUp(OutstandingInvoices(type, asOf, {c}), Dues)
         /\ AgedRow(type, asOf, c).total \in Int
         /\ DOMAIN AgedRow(type, asOf, c).bands = Bands
         /\ \A k \in Bands : AgedRow(type, asOf, c).bands[k] \in Int
         /\ SumUp(Bands, AgedRow(type, asOf, c).bands) = AgedRow(type, asOf, c).total
<1>. DEFINE rows == OutstandingInvoices(type, asOf, {c})
            Q == [k \in Bands |-> {i \in rows : InvoiceBand(bills[i], asOf) = k}]
            columns == AgedRow(type, asOf, c).bands
<1>1. /\ AgedRow(type, asOf, c).total = SumUp(rows, Dues)
      /\ DOMAIN columns = Bands
      /\ \A k \in Bands : columns[k] = SumUp(Q[k], Dues)
  BY TotalIsSum DEF AgedRow
<1>2. IsFiniteSet(rows) /\ rows \subseteq StillOwed(type, asOf) /\ \A i \in rows : Dues[i] \in Int
  BY OutstandingRows
<1>3. \A i \in rows : InvoiceBand(bills[i], asOf) \in Bands
  BY <1>2, OwedRows
<1>4. /\ UNION {Q[k] : k \in Bands} = rows
      /\ \A k \in Bands : Q[k] \in SUBSET rows
      /\ \A k, j \in Bands : k # j => Q[k] \cap Q[j] = {}
  BY <1>3
<1>5. IsFiniteSet(Bands)
  <2>1. 1 \in Int /\ 5 \in Int
    OBVIOUS
  <2>. QED BY <2>1, FS_Interval DEF Bands
<1>. HIDE DEF rows, Q, columns
<1>6. SumUp(Bands, columns) = SumUp(UNION {Q[k] : k \in Bands}, Dues)
  BY <1>1, <1>2, <1>4, <1>5, SumOfParts
<1>7. \A k \in Bands : columns[k] \in Int
  BY <1>1, <1>2, <1>4, SumIsInt
<1>8. SumUp(rows, Dues) \in Int
  <2>1. rows \in SUBSET rows
    OBVIOUS
  <2>. QED BY <1>2, <2>1, SumIsInt
<1>. QED BY <1>1, <1>4, <1>6, <1>7, <1>8 DEF rows, columns

\* The contacts' totals add up to what is outstanding.
LEMMA ContactsFoot ==
  ASSUME AgedInv, NEW type, NEW asOf \in Int, NEW who \in SUBSET Customers
  PROVE  Total(who, [c \in who |-> AgedRow(type, asOf, c).total])
         = SumUp(OutstandingInvoices(type, asOf, who), Dues)
<1>. DEFINE rows == OutstandingInvoices(type, asOf, who)
            Q == [c \in who |-> OutstandingInvoices(type, asOf, {c})]
            totals == [c \in who |-> AgedRow(type, asOf, c).total]
<1>1. IsFiniteSet(rows) /\ \A i \in rows : Dues[i] \in Int
  BY OutstandingRows
<1>2. \A c \in who : totals[c] = SumUp(Q[c], Dues)
  BY RowFoots
<1>3. /\ UNION {Q[c] : c \in who} = rows
      /\ \A c \in who : Q[c] \in SUBSET rows
      /\ \A c, d \in who : c # d => Q[c] \cap Q[d] = {}
  BY DEF OutstandingInvoices
<1>4. IsFiniteSet(who)
  BY AgedAssumption, FS_Subset
<1>. HIDE DEF rows, Q, totals
<1>5. SumUp(who, totals) = SumUp(UNION {Q[c] : c \in who}, Dues)
  BY <1>1, <1>2, <1>3, <1>4, SumOfParts
<1>. QED BY <1>3, <1>5, TotalIsSum DEF rows, totals

\* The report's columns add up to its total, the claim's included.
LEMMA ReportFoots ==
  ASSUME AgedInv, NEW type, NEW asOf \in Int, NEW who \in SUBSET Customers
  PROVE  LET report == RenderAged(type, asOf, who) IN
         /\ Total(Bands, report.bands) = report.total
         /\ report.total = SumUp(OutstandingInvoices(type, asOf, who), Dues)
                           + ClaimOwed(type, asOf, who)
         /\ ClaimOwed(type, asOf, who) \in Int
<1>. DEFINE printed == ClaimPrinted(type, asOf, who)
            claimBand == IF printed THEN AgeBand(asOf - ClaimDay) ELSE 0
            owed == ClaimOwed(type, asOf, who)
            F == [c \in who |-> AgedRow(type, asOf, c).bands]
            row == [c \in who |-> AgedRow(type, asOf, c).total]
            G == [k \in Bands |-> [c \in who |-> AgedRow(type, asOf, c).bands[k]]]
            column == [k \in Bands |-> Total(who, G[k])]
            claims == [k \in Bands |-> IF k = claimBand THEN claim.due ELSE 0]
            bands == RenderAged(type, asOf, who).bands
<1>1. /\ RenderAged(type, asOf, who).total = Total(who, row) + owed
      /\ bands = [k \in Bands |-> column[k] + claims[k]]
  BY DEF RenderAged
<1>2. printed => /\ claim.due \in Int /\ AgeBand(asOf - ClaimDay) \in Bands
  <2>. SUFFICES ASSUME printed PROVE claim.due \in Int /\ AgeBand(asOf - ClaimDay) \in Bands
    OBVIOUS
  <2>1. claim \in Claims /\ ClaimDay # NoDay
    BY DEF ClaimPrinted, AgedInv, NoClaim
  <2>2. claim.due \in Int /\ ClaimDay \in Int
    BY <2>1 DEF Claims, Day, ClaimDay, Coalesce
  <2>. QED BY <2>2, BandOfAge
<1>3. /\ owed = (IF printed THEN claim.due ELSE 0) /\ owed \in Int
      /\ printed => claimBand \in Bands
      /\ ~printed => claimBand \notin Bands
  BY <1>2 DEF ClaimOwed, Bands
<1>4. IsFiniteSet(who) /\ IsFiniteSet(Bands)
  <2>1. 1 \in Int /\ 5 \in Int
    OBVIOUS
  <2>. QED BY <2>1, AgedAssumption, FS_Subset, FS_Interval DEF Bands
<1>5. \A c \in who, k \in Bands : F[c][k] \in Int /\ G[k][c] = F[c][k]
  BY RowFoots
<1>6. \A c \in who : row[c] = SumUp(Bands, F[c])
  BY RowFoots
<1>7. \A k \in Bands : column[k] = SumUp(who, G[k])
  BY TotalIsSum
<1>8. \A k \in Bands : column[k] \in Int
  <2>1. ASSUME NEW k \in Bands PROVE SumUp(who, G[k]) \in Int
    <3>. DEFINE g == G[k]
    <3>1. \A c \in who : g[c] \in Int
      BY RowFoots
    <3>2. who \in SUBSET who
      OBVIOUS
    <3>. HIDE DEF g
    <3>3. SumUp(who, g) \in Int
      BY <1>4, <3>1, <3>2, SumIsInt
    <3>. QED BY <3>3 DEF g
  <2>. QED BY <1>7, <2>1
<1>9. SumUp(Bands, claims) = owed /\ \A k \in Bands : claims[k] \in Int
  <2>1. CASE printed
    <3>1. /\ \A k \in Bands : claims[k] \in Int
          /\ {claimBand} \in SUBSET Bands
          /\ \A k \in Bands \ {claimBand} : claims[k] = 0
          /\ claims[claimBand] = owed
      BY <1>2, <1>3, <2>1
    <3>. HIDE DEF claims, claimBand, owed
    <3>2. SumUp(Bands, claims) = SumUp({claimBand}, claims)
      BY <1>4, <3>1, SumWithin
    <3>3. SumUp({claimBand}, claims) = claims[claimBand]
      BY <1>3, <3>1, SumOfOne
    <3>. QED BY <3>1, <3>2, <3>3
  <2>2. CASE ~printed
    <3>1. (\A k \in Bands : claims[k] = 0) /\ owed = 0
      BY <1>3, <2>2
    <3>. HIDE DEF claims, owed
    <3>2. SumUp(Bands, claims) = 0
      BY <1>4, <3>1, SumOfZeros
    <3>. QED BY <3>1, <3>2
  <2>. QED BY <2>1, <2>2
<1>10. \A k \in Bands : bands[k] = column[k] + claims[k]
  BY <1>1
<1>11. Total(who, row) = SumUp(OutstandingInvoices(type, asOf, who), Dues)
  BY ContactsFoot
<1>. HIDE DEF printed, claimBand, owed, F, row, G, column, claims, bands
<1>12. SumUp(who, row) = SumUp(Bands, column)
  <2>1. IsTable(who, Bands, F, G, row, column)
    BY <1>4, <1>5, <1>6, <1>7 DEF IsTable
  <2>. QED BY <2>1, SumsExchange
<1>13. SumUp(Bands, bands) = SumUp(Bands, column) + SumUp(Bands, claims)
  BY <1>4, <1>8, <1>9, <1>10, SumOfSums
<1>14. Total(Bands, bands) = SumUp(Bands, bands) /\ Total(who, row) = SumUp(who, row)
  BY TotalIsSum
<1>15. RenderAged(type, asOf, who).total = Total(who, row) + owed /\ owed \in Int
  BY <1>1, <1>3
<1>16. Total(Bands, bands) = RenderAged(type, asOf, who).total
  BY <1>9, <1>12, <1>13, <1>14, <1>15
<1>. QED BY <1>11, <1>15, <1>16 DEF bands, owed

\* The order of the drill-down: by name, day and number.
AgedBefore(i, j) ==
  \/ NameOf[bills[i].contact] < NameOf[bills[j].contact]
  \/ NameOf[bills[i].contact] = NameOf[bills[j].contact] /\ DueDay(bills[i]) < DueDay(bills[j])
  \/ NameOf[bills[i].contact] = NameOf[bills[j].contact] /\ DueDay(bills[i]) = DueDay(bills[j]) /\ i < j

AgedEarlier(rows) == [j \in rows |-> {i \in rows : AgedBefore(i, j)}]

LEMMA DetailLists ==
  ASSUME AgedInv, NEW type, NEW asOf \in Int, NEW who
  PROVE  LET rows == OutstandingInvoices(type, asOf, who) IN
         /\ IsOrder(rows, AgedEarlier(rows))
         /\ Lists(AgedByContact(type, asOf, who), rows, AgedEarlier(rows))
<1>. DEFINE rows == OutstandingInvoices(type, asOf, who)
            earlier == AgedEarlier(rows)
<1>1. IsFiniteSet(rows) /\ \A i \in rows : i \in StillOwed(type, asOf) /\ bills[i].contact \in Customers
  BY OutstandingRows
<1>2. \A i \in rows : i \in Nat /\ DueDay(bills[i]) \in Int /\ NameOf[bills[i].contact] \in Nat
  BY <1>1, OwedRows, AgedAssumption
<1>3. AgedByContact(type, asOf, who) = InOrder(rows, earlier)
  BY DEF AgedByContact, AgedEarlier, AgedBefore
<1>4. \A x \in rows : earlier[x] = {i \in rows : AgedBefore(i, x)}
  BY DEF AgedEarlier
<1>. HIDE DEF rows, earlier
<1>5. \A x \in rows : ~AgedBefore(x, x)
  BY <1>2 DEF AgedBefore
<1>6. \A x, y \in rows : x = y \/ AgedBefore(x, y) \/ AgedBefore(y, x)
  BY <1>2 DEF AgedBefore
<1>7. \A x, y, z \in rows : AgedBefore(x, y) /\ AgedBefore(y, z) => AgedBefore(x, z)
  BY <1>2 DEF AgedBefore
<1>8. IsOrder(rows, earlier)
  BY <1>1, <1>4, <1>5, <1>6, <1>7 DEF IsOrder
<1>. QED BY <1>3, <1>8, OrderLists DEF rows, earlier

\* A contact whose name is its own has no more than one block, and one with something
\* outstanding has one.
LEMMA DetailBlocks ==
  ASSUME AgedInv, NEW type, NEW asOf \in Int, NEW who \in SUBSET Customers, NEW c \in who
  PROVE  LET starts == BlockStarts(AgedByContact(type, asOf, who), c) IN
         /\ SoleName(c) => Cardinality(starts) <= 1
         /\ AgedRow(type, asOf, c).total > 0 => starts # {}
<1>1. PICK rows : rows = OutstandingInvoices(type, asOf, who)
  OBVIOUS
<1>2. PICK list : list = AgedByContact(type, asOf, who)
  OBVIOUS
<1>. DEFINE starts == BlockStarts(list, c)
<1>3. Lists(list, rows, AgedEarlier(rows))
  BY <1>1, <1>2, DetailLists
<1>4. PICK len \in Nat : DOMAIN list = 1 .. len
  BY <1>3 DEF Lists
<1>5. \A n \in DOMAIN list : /\ list[n] \in rows
                             /\ bills[list[n]].contact \in Customers
                             /\ NameOf[bills[list[n]].contact] \in Nat
  BY <1>1, <1>3, OutstandingRows, AgedAssumption DEF Lists
<1>6. ASSUME NEW m \in DOMAIN list, NEW n \in DOMAIN list, m <= n
      PROVE  NameOf[bills[list[m]].contact] <= NameOf[bills[list[n]].contact]
  <2>1. CASE m = n
    BY <1>5, <2>1
  <2>2. CASE m < n
    <3>1. list[m] \in AgedEarlier(rows)[list[n]] /\ list[n] \in rows
      BY <1>3, <2>2 DEF Lists
    <3>2. AgedBefore(list[m], list[n])
      BY <3>1 DEF AgedEarlier
    <3>. QED BY <1>5, <3>2 DEF AgedBefore
  <2>. QED BY <1>4, <1>6, <2>1, <2>2
<1>7. ASSUME SoleName(c), NEW m \in starts, NEW n \in starts, m < n PROVE FALSE
  <2>1. /\ m \in 1 .. len /\ n \in 1 .. len /\ n # 1
        /\ bills[list[m]].contact = c /\ bills[list[n]].contact = c
        /\ bills[list[n - 1]].contact # c
    BY <1>4, <1>7 DEF BlockStarts
  <2>2. n - 1 \in DOMAIN list /\ m <= n - 1 /\ n - 1 <= n /\ m \in DOMAIN list /\ n \in DOMAIN list
    BY <1>4, <1>7, <2>1
  <2>3. PICK k : k = n - 1
    OBVIOUS
  <2>4. NameOf[bills[list[k]].contact] = NameOf[c]
    <3>1. /\ NameOf[bills[list[m]].contact] <= NameOf[bills[list[k]].contact]
          /\ NameOf[bills[list[k]].contact] <= NameOf[bills[list[n]].contact]
      BY <1>6, <2>2, <2>3
    <3>. QED BY <1>5, <2>1, <2>2, <2>3, <3>1
  <2>. QED BY <1>5, <1>7, <2>1, <2>2, <2>3, <2>4 DEF SoleName
<1>8. SoleName(c) => Cardinality(starts) <= 1
  <2>. SUFFICES ASSUME SoleName(c) PROVE Cardinality(starts) <= 1
    OBVIOUS
  <2>1. CASE starts = {}
    <3>. HIDE DEF starts
    <3>. QED BY <2>1, FS_EmptySet
  <2>2. CASE starts # {}
    <3>1. PICK m \in starts : TRUE
      BY <2>2
    <3>2. \A n \in starts : n = m
      <4>1. starts \subseteq 1 .. len
        BY <1>4 DEF BlockStarts
      <4>. HIDE DEF starts
      <4>. QED BY <1>7, <4>1
    <3>3. starts = {m}
      <4>. HIDE DEF starts
      <4>. QED BY <3>1, <3>2
    <3>. HIDE DEF starts
    <3>4. Cardinality({m}) = 1
      BY FS_Singleton
    <3>. QED BY <3>3, <3>4
  <2>. QED BY <2>1, <2>2
<1>9. ASSUME AgedRow(type, asOf, c).total > 0 PROVE starts # {}
  <2>1. OutstandingInvoices(type, asOf, {c}) # {}
    BY <1>9, RowFoots, SumOfNone
  <2>2. PICK i \in OutstandingInvoices(type, asOf, {c}) : TRUE
    BY <2>1
  <2>3. i \in rows /\ bills[i].contact = c
    BY <1>1, <2>2 DEF OutstandingInvoices
  <2>. DEFINE places == {n \in DOMAIN list : bills[list[n]].contact = c}
  <2>4. places \in SUBSET Nat /\ places # {}
    BY <1>3, <1>4, <2>3 DEF Lists
  <2>5. PICK n \in places : \A k \in places : n <= k
    <3>. HIDE DEF places
    <3>. QED BY <2>4, LeastOf
  <2>6. n = 1 \/ bills[list[n - 1]].contact # c
    <3>1. n # 1 => n - 1 \in DOMAIN list /\ ~(n <= n - 1)
      BY <1>4
    <3>. QED BY <2>5, <3>1
  <2>7. n \in starts
    BY <2>6 DEF BlockStarts
  <2>. QED BY <2>7
<1>. QED BY <1>2, <1>8, <1>9

\* What is owed is owed to a contact or to none.
LEMMA OwedByContact ==
  ASSUME AgedInv, NEW type, NEW asOf \in Int
  PROVE  /\ SumUp(OutstandingInvoices(type, asOf, Customers), Dues)
            = ExecutiveOwed(type, asOf) - Total(Nameless(type, asOf), Dues)
         /\ SumUp(OutstandingInvoices(type, asOf, Customers), Dues) \in Int
<1>. DEFINE all == StillOwed(type, asOf)
            S == OutstandingInvoices(type, asOf, Customers)
            T == Nameless(type, asOf)
<1>1. IsFiniteSet(all) /\ \A i \in all : Dues[i] \in Int
  BY OwedRows
<1>2. S \cup T = all /\ S \cap T = {}
  BY OwedRows, AgedAssumption DEF OutstandingInvoices, Nameless
<1>3. /\ ExecutiveOwed(type, asOf) = SumUp(all, Dues)
      /\ Total(T, Dues) = SumUp(T, Dues)
  BY TotalIsSum DEF ExecutiveOwed
<1>. HIDE DEF all, S, T
<1>4. S \in SUBSET all /\ T \in SUBSET all
  BY <1>2
<1>5. IsFiniteSet(S) /\ IsFiniteSet(T)
  BY <1>1, <1>4, FS_Subset
<1>6. SumUp(S, Dues) \in Int /\ SumUp(T, Dues) \in Int
  BY <1>1, <1>4, SumIsInt
<1>7. SumUp(S \cup T, Dues) = SumUp(S, Dues) + SumUp(T, Dues)
  BY <1>1, <1>2, <1>5, SumOfUnion
<1>8. SumUp(S, Dues) = ExecutiveOwed(type, asOf) - Total(T, Dues)
  <2>1. PICK contacts \in Int, nobody \in Int : contacts = SumUp(S, Dues) /\ nobody = SumUp(T, Dues)
    BY <1>6
  <2>2. ExecutiveOwed(type, asOf) = contacts + nobody /\ Total(T, Dues) = nobody
    BY <1>2, <1>3, <1>7, <2>1
  <2>. QED BY <2>1, <2>2
<1>. QED BY <1>6, <1>8 DEF S, T

LEMMA DetailFoots ==
  ASSUME AgedInv, NEW type, NEW asOf \in Int, NEW who
  PROVE  LET detail == AgedByContact(type, asOf, who) IN
         Total(DOMAIN detail, [n \in DOMAIN detail |-> bills[detail[n]].due])
         = SumUp(OutstandingInvoices(type, asOf, who), Dues)
<1>1. PICK rows, list : /\ rows = OutstandingInvoices(type, asOf, who)
                        /\ list = AgedByContact(type, asOf, who)
  OBVIOUS
<1>2. IsOrder(rows, AgedEarlier(rows)) /\ Lists(list, rows, AgedEarlier(rows))
  BY <1>1, DetailLists
<1>3. ListsOnce(list, DOMAIN list, rows)
  BY <1>2, ListParts
<1>4. IsFiniteSet(rows) /\ \A i \in rows : Dues[i] \in Int /\ i \in DOMAIN bills
  BY <1>1, OutstandingRows, OwedRows
<1>. DEFINE g == [n \in DOMAIN list |-> bills[list[n]].due]
            P == DOMAIN list
<1>5. \A n \in P : g[n] = Dues[list[n]]
  BY <1>3, <1>4 DEF Dues, ListsOnce
<1>. HIDE DEF g, P
<1>6. SumUp(P, g) = SumUp(rows, Dues)
  BY <1>3, <1>4, <1>5, ListSum DEF P
<1>. QED BY <1>1, <1>6, TotalIsSum DEF g, P

LEMMA AgedAgrees == AgedInv => AgedAgree
<1>. SUFFICES ASSUME AgedInv, NEW type \in {"ACCREC", "ACCPAY"}, NEW asOf \in AsAtDays
              PROVE
    /\ \A who \in {Customers} \cup {{c} : c \in Customers} :
         LET report == RenderAged(type, asOf, who)
             detail == AgedByContact(type, asOf, who)
         IN  /\ Total(Bands, report.bands) = report.total
             /\ report.total = ClaimOwed(type, asOf, who)
                               + Total(DOMAIN detail, [n \in DOMAIN detail |-> bills[detail[n]].due])
             /\ \A c \in who : /\ SoleName(c) => Cardinality(BlockStarts(detail, c)) <= 1
                               /\ AgedRow(type, asOf, c).total > 0 => BlockStarts(detail, c) # {}
    /\ RenderAged(type, asOf, Customers).total - ClaimOwed(type, asOf, Customers)
       = ExecutiveOwed(type, asOf) - Total(Nameless(type, asOf), Dues)
    /\ \A i \in StillOwed(type, asOf), later \in AsAtDays :
         later > asOf => InvoiceBand(bills[i], asOf) <= InvoiceBand(bills[i], later)
  BY DEF AgedAgree
<1>1. asOf \in Int
  BY AgedAssumption
<1>2. ASSUME NEW who \in {Customers} \cup {{c} : c \in Customers}
      PROVE  LET report == RenderAged(type, asOf, who)
                 detail == AgedByContact(type, asOf, who)
             IN  /\ Total(Bands, report.bands) = report.total
                 /\ report.total = ClaimOwed(type, asOf, who)
                      + Total(DOMAIN detail, [n \in DOMAIN detail |-> bills[detail[n]].due])
                 /\ \A c \in who : /\ SoleName(c) => Cardinality(BlockStarts(detail, c)) <= 1
                                   /\ AgedRow(type, asOf, c).total > 0 => BlockStarts(detail, c) # {}
  <2>1. who \in SUBSET Customers
    OBVIOUS
  <2>2. \A c \in who : LET starts == BlockStarts(AgedByContact(type, asOf, who), c) IN
          /\ SoleName(c) => Cardinality(starts) <= 1
          /\ AgedRow(type, asOf, c).total > 0 => starts # {}
    BY <1>1, <2>1, DetailBlocks
  <2>. DEFINE detail == AgedByContact(type, asOf, who)
              shown == Total(DOMAIN detail, [n \in DOMAIN detail |-> bills[detail[n]].due])
              owed == ClaimOwed(type, asOf, who)
              rows == OutstandingInvoices(type, asOf, who)
  <2>3. shown = SumUp(rows, Dues)
    BY <1>1, DetailFoots
  <2>4. /\ Total(Bands, RenderAged(type, asOf, who).bands) = RenderAged(type, asOf, who).total
        /\ RenderAged(type, asOf, who).total = SumUp(rows, Dues) + owed
        /\ owed \in Int
    BY <1>1, <2>1, ReportFoots
  <2>5. SumUp(rows, Dues) \in Int
    <3>. HIDE DEF rows
    <3>1. rows \in SUBSET rows /\ IsFiniteSet(rows) /\ \A i \in rows : Dues[i] \in Int
      BY <1>1, OutstandingRows DEF rows
    <3>. QED BY <3>1, SumIsInt
  <2>6. RenderAged(type, asOf, who).total = owed + shown
    <3>. HIDE DEF shown, owed, rows
    <3>. QED BY <2>3, <2>4, <2>5
  <2>. QED BY <2>2, <2>4, <2>6
<1>3. RenderAged(type, asOf, Customers).total - ClaimOwed(type, asOf, Customers)
      = ExecutiveOwed(type, asOf) - Total(Nameless(type, asOf), Dues)
  <2>1. Customers \in SUBSET Customers
    OBVIOUS
  <2>2. /\ RenderAged(type, asOf, Customers).total
           = SumUp(OutstandingInvoices(type, asOf, Customers), Dues) + ClaimOwed(type, asOf, Customers)
        /\ ClaimOwed(type, asOf, Customers) \in Int
    BY <1>1, <2>1, ReportFoots
  <2>. QED BY <1>1, <2>2, OwedByContact
<1>4. ASSUME NEW i \in StillOwed(type, asOf), NEW later \in AsAtDays, later > asOf
      PROVE  InvoiceBand(bills[i], asOf) <= InvoiceBand(bills[i], later)
  <2>1. later \in Int /\ DueDay(bills[i]) \in Int
    BY <1>1, AgedAssumption, OwedRows
  <2>2. /\ asOf - DueDay(bills[i]) \in Int /\ later - DueDay(bills[i]) \in Int
        /\ asOf - DueDay(bills[i]) <= later - DueDay(bills[i])
    BY <1>1, <1>4, <2>1
  <2>. QED BY <2>2, BandOfAge DEF InvoiceBand
<1>. QED BY <1>2, <1>3, <1>4

\* The aged reports agree with each other and with the executive summary, whatever
\* invoices and claims there are and whatever day they are asked for.
THEOREM AgedReportsAgree == AgedSpec => []AgedAgree
BY AgedBegins, AgedStays, AgedAgrees, PTL DEF AgedSpec

(***************************************************************************)
(* The cash summary.                                                       *)
(***************************************************************************)
BankNets(lines) == [n \in DOMAIN lines |-> IF TypeOf[lines[n].account] = "BANK" THEN lines[n].net ELSE 0]
CashMoves(js) == [k \in DOMAIN js |-> SumUp(DOMAIN js[k].lines, BankNets(js[k].lines))]

LEMMA CashMovedIsSum ==
  ASSUME NEW js, NEW k \in DOMAIN js
  PROVE  CashMoved(js[k]) = CashMoves(js)[k]
BY TotalIsSum DEF CashMoved, SumOf, CashMoves, BankNets

LEMMA CashMovesAreIntegers ==
  ASSUME NEW js, Ledger(js), NEW k \in DOMAIN js
  PROVE  CashMoves(js)[k] \in Int
<1>1. PICK lines : lines = js[k].lines
  OBVIOUS
<1>2. IsFiniteSet(DOMAIN lines) /\ \A n \in DOMAIN lines : BankNets(lines)[n] \in Int
  BY <1>1, LinesOf DEF BankNets
<1>3. PICK f : f = BankNets(lines)
  OBVIOUS
<1>4. SumUp(DOMAIN lines, f) \in Int
  BY <1>2, <1>3, SumIsInt
<1>. QED BY <1>1, <1>3, <1>4 DEF CashMoves

\* What the bank accounts moved, account by account, is what the journals moved.
LEMMA CashByJournal ==
  ASSUME NEW js, Ledger(js), NEW from, NEW to
  PROVE  SumUp(OfType({"BANK"}), NetOver(js, from, to)) = SumUp(Within(js, from, to), CashMoves(js))
<1>. DEFINE banks == OfType({"BANK"})
<1>1. IsFiniteSet(banks) /\ banks \subseteq ChartAccounts
  BY Chart
<1>2. ASSUME NEW k \in DOMAIN js, NEW g, \A a \in banks : g[a] = Moves(js, a)[k]
      PROVE  SumUp(banks, g) = CashMoves(js)[k]
  <2>1. PICK lines : lines = js[k].lines
    OBVIOUS
  <2>2. /\ IsFiniteSet(DOMAIN lines)
        /\ \A n \in DOMAIN lines : lines[n].account \in ChartAccounts /\ lines[n].net \in Int
    BY <2>1, LinesOf
  <2>. DEFINE F == [a \in banks |-> Moved(lines, a)]
              G == [n \in DOMAIN lines |->
                     [a \in banks |-> IF lines[n].account = a THEN lines[n].net ELSE 0]]
  <2>3. \A a \in banks, n \in DOMAIN lines : F[a][n] \in Int /\ G[n][a] = F[a][n]
    BY <2>2 DEF Moved
  <2>4. \A a \in banks : g[a] = SumUp(DOMAIN lines, F[a])
    BY <1>2, <1>1, <2>1 DEF Moves
  <2>5. ASSUME NEW n \in DOMAIN lines PROVE BankNets(lines)[n] = SumUp(banks, G[n])
    <3>1. PICK c \in ChartAccounts : c = lines[n].account
      BY <2>2
    <3>. DEFINE h == G[n]
    <3>2. /\ \A a \in banks : h[a] \in Int
          /\ \A a \in banks \ {c} : h[a] = 0
          /\ c \in banks => h[c] = lines[n].net
      BY <2>2, <3>1
    <3>3. c \in banks <=> TypeOf[c] = "BANK"
      BY <3>1 DEF OfType
    <3>4. CASE c \in banks
      <4>. HIDE DEF h, banks
      <4>1. SumUp(banks, h) = SumUp({c}, h)
        BY <1>1, <3>2, <3>4, SumWithin
      <4>2. SumUp({c}, h) = h[c]
        BY <3>2, <3>4, SumOfOne
      <4>3. BankNets(lines)[n] = h[c]
        BY <3>1, <3>2, <3>3, <3>4 DEF BankNets
      <4>. QED BY <4>1, <4>2, <4>3 DEF h
    <3>5. CASE c \notin banks
      <4>. HIDE DEF h, banks
      <4>1. SumUp(banks, h) = 0
        BY <1>1, <3>2, <3>5, SumOfZeros
      <4>2. BankNets(lines)[n] = 0
        BY <3>1, <3>3, <3>5 DEF BankNets
      <4>. QED BY <4>1, <4>2 DEF h
    <3>. QED BY <3>4, <3>5
  <2>. DEFINE T == DOMAIN lines
              column == BankNets(lines)
  <2>6. IsFiniteSet(T) /\ \A n \in T : column[n] = SumUp(banks, G[n])
    BY <2>2, <2>5
  <2>. HIDE DEF F, G, T, column, banks
  <2>7. IsTable(banks, T, F, G, g, column)
    BY <1>1, <2>3, <2>4, <2>6 DEF T, IsTable
  <2>8. SumUp(banks, g) = SumUp(T, column)
    BY <2>7, SumsExchange
  <2>. QED BY <2>1, <2>8 DEF T, column, CashMoves
<1>. DEFINE S == Within(js, from, to)
            F == [a \in banks |-> Moves(js, a)]
            G == [k \in S |-> [a \in banks |-> Moves(js, a)[k]]]
            f == NetOver(js, from, to)
            column == CashMoves(js)
<1>3. IsFiniteSet(S) /\ S \subseteq DOMAIN js
  BY FS_Subset DEF Within, Ledger
<1>4. \A a \in banks, k \in S : F[a][k] \in Int /\ G[k][a] = F[a][k]
  <2>. HIDE DEF S, banks
  <2>. QED BY <1>3, MovesAreIntegers
<1>5. \A a \in banks : f[a] = SumUp(S, F[a])
  <2>. HIDE DEF banks, S
  <2>1. \A a \in banks : f[a] = Net(js, a, from, to)
    BY <1>1 DEF NetOver
  <2>. HIDE DEF f
  <2>. QED BY <2>1, FiguresAreSums DEF S
<1>6. \A k \in S : column[k] = SumUp(banks, G[k])
  <2>. HIDE DEF banks
  <2>. QED BY <1>2, <1>3
<1>. HIDE DEF S, F, G, column, banks, f
<1>7. IsTable(banks, S, F, G, f, column)
  BY <1>1, <1>3, <1>4, <1>5, <1>6 DEF IsTable
<1>. QED BY <1>7, SumsExchange DEF S, column, banks, f

\* Between the balances that a bank summary opens and closes with, the journals of its
\* window.
LEMMA BankMoves ==
  ASSUME NEW js, Ledger(js), NEW w, IsWindow(w)
  PROVE  LET bank == BankSummary(js, w.from, w.to)
             moved == SumUp(Within(js, w.from, w.to), CashMoves(js))
         IN  /\ bank.opening \in Int /\ bank.closing \in Int /\ moved \in Int
             /\ bank.closing - bank.opening = moved
<1>. DEFINE S == OfType({"BANK"})
            bank == BankSummary(js, w.from, w.to)
            before == NetOver(js, Never, DayBefore(w.from))
            within == NetOver(js, w.from, w.to)
            upto == NetOver(js, Never, w.to)
            opening == [a \in ChartAccounts |-> BankSummaryRow(js, a, w.from, w.to).opening]
            closing == [a \in ChartAccounts |-> BankSummaryRow(js, a, w.from, w.to).closing]
<1>1. w.from \in Int /\ w.to \in Int /\ Never \in Int /\ DayBefore(w.from) \in Int
      /\ DayBefore(w.from) + 1 = w.from /\ Never <= w.from /\ DayBefore(w.from) <= w.to
  BY NeverIsInteger DEF IsWindow, DayBefore
<1>2. IsFiniteSet(S) /\ S \subseteq ChartAccounts
  BY Chart
<1>3. bank.opening = SumUp(S, opening) /\ bank.closing = SumUp(S, closing)
  BY TotalIsSum DEF BankSummary
<1>4. \A a \in S : opening[a] = before[a] /\ closing[a] = upto[a]
  <2>1. ASSUME NEW a \in ChartAccounts
        PROVE  opening[a] = before[a] /\ closing[a] = upto[a]
    <3>. DEFINE scanned == PeriodLines(js, w.to)
    <3>1. /\ opening[a] = Net(scanned, a, Never, DayBefore(w.from))
          /\ closing[a] = Net(scanned, a, Never, w.to)
      BY DEF BankSummaryRow, Balance
    <3>. HIDE DEF scanned, opening, closing
    <3>2. w.to <= w.to
      BY <1>1
    <3>3. /\ Net(scanned, a, Never, DayBefore(w.from)) = Net(js, a, Never, DayBefore(w.from))
          /\ Net(scanned, a, Never, w.to) = Net(js, a, Never, w.to)
      BY <1>1, <3>2, ScanIsEnough DEF scanned
    <3>. QED BY <3>1, <3>3 DEF NetOver
  <2>. HIDE DEF S, opening, closing, before, upto
  <2>. QED BY <1>2, <2>1
<1>5. SumUp(S, upto) = SumUp(S, before) + SumUp(S, within)
  BY <1>1, OverWindows
<1>6. SumUp(S, upto) \in Int /\ SumUp(S, before) \in Int /\ SumUp(S, within) \in Int
  BY NetsAreIntegers
<1>7. SumUp(S, within) = SumUp(Within(js, w.from, w.to), CashMoves(js))
  BY CashByJournal
<1>. HIDE DEF S, bank, before, within, upto, opening, closing
<1>8. SumUp(S, opening) = SumUp(S, before) /\ SumUp(S, closing) = SumUp(S, upto)
  BY <1>2, <1>4, SumSame
<1>. QED BY <1>3, <1>5, <1>6, <1>7, <1>8 DEF bank

(***************************************************************************)
(* Sums by section and by control.                                         *)
(***************************************************************************)
Part(S, section, names) == {x \in S : section[x] \in names}

LEMMA BySection ==
  ASSUME NEW S, IsFiniteSet(S), NEW f, \A x \in S : f[x] \in Int,
         NEW section, \A x \in S : section[x] \in {"income", "expense", "other"}
  PROVE  /\ \A names : SumUp(Part(S, section, names), f) \in Int
         /\ SumUp(S, f) = SumUp(Part(S, section, {"income"}), f) + SumUp(Part(S, section, {"expense"}), f)
                          + SumUp(Part(S, section, {"other"}), f)
         /\ SumUp(S, f) = SumUp(Part(S, section, {"income"}), f)
                          + SumUp(Part(S, section, {"expense", "other"}), f)
<1>. DEFINE P(names) == Part(S, section, names)
<1>1. ASSUME NEW names
      PROVE  IsFiniteSet(P(names)) /\ P(names) \in SUBSET S /\ SumUp(P(names), f) \in Int
  BY FS_Subset, SumIsInt DEF Part
<1>2. ASSUME NEW A, NEW B, A \cap B = {}
      PROVE  SumUp(P(A \cup B), f) = SumUp(P(A), f) + SumUp(P(B), f)
  <2>1. PICK X, Y : X = P(A) /\ Y = P(B)
    OBVIOUS
  <2>2. P(A \cup B) = X \cup Y /\ X \cap Y = {} /\ \A x \in X \cup Y : f[x] \in Int
    BY <1>2, <2>1 DEF Part
  <2>3. IsFiniteSet(X) /\ IsFiniteSet(Y)
    BY <1>1, <2>1
  <2>. HIDE DEF P
  <2>4. SumUp(X \cup Y, f) = SumUp(X, f) + SumUp(Y, f)
    BY <2>2, <2>3, SumOfUnion
  <2>. QED BY <2>1, <2>2, <2>4
<1>3. P({"income"} \cup {"expense", "other"}) = S
  BY DEF Part
<1>4. {"expense"} \cup {"other"} = {"expense", "other"}
  OBVIOUS
<1>. HIDE DEF P
<1>5. SumUp(S, f) = SumUp(P({"income"}), f) + SumUp(P({"expense", "other"}), f)
  <2>1. {"income"} \cap {"expense", "other"} = {}
    OBVIOUS
  <2>. QED BY <1>2, <1>3, <2>1
<1>6. SumUp(P({"expense", "other"}), f) = SumUp(P({"expense"}), f) + SumUp(P({"other"}), f)
  <2>1. {"expense"} \cap {"other"} = {}
    OBVIOUS
  <2>. QED BY <1>2, <1>4, <2>1
<1>7. \A names : SumUp(P(names), f) \in Int
  BY <1>1
<1>8. SumUp(S, f) = SumUp(P({"income"}), f) + SumUp(P({"expense"}), f) + SumUp(P({"other"}), f)
  BY <1>5, <1>6, <1>7
<1>. QED BY <1>5, <1>7, <1>8 DEF P

\* What is left of each control's journals after its attributions, and all that was
\* attributed, are the journals, if a control with attributions has journals and what is
\* attributed to none is the journals of none.
Settles(S, f, of, T, g, by, C, none, left) ==
  /\ IsFiniteSet(S) /\ IsFiniteSet(T) /\ IsFiniteSet(C) /\ none \notin C
  /\ \A x \in S : f[x] \in Int /\ of[x] \in C \cup {none}
  /\ \A y \in T : g[y] \in Int /\ by[y] \in C \cup {none}
  /\ \A x \in S : of[x] \in C => \E y \in T : by[y] = of[x]
  /\ SumUp({x \in S : of[x] = none}, f) = SumUp({y \in T : by[y] = none}, g)
  /\ \A c \in C : left[c] = IF {y \in T : by[y] = c} = {} THEN 0
                            ELSE SumUp({y \in T : by[y] = c}, g) - SumUp({x \in S : of[x] = c}, f)

LEMMA ByControl ==
  ASSUME NEW S, IsFiniteSet(S), NEW f, NEW of, NEW P, IsFiniteSet(P),
         \A x \in S : f[x] \in Int /\ of[x] \in P
  PROVE  LET F == [c \in P |-> SumUp({x \in S : of[x] = c}, f)]
         IN  SumUp(P, F) = SumUp(S, f) /\ \A c \in P : F[c] \in Int
<1>. DEFINE Q == [c \in P |-> {x \in S : of[x] = c}]
            F == [c \in P |-> SumUp({x \in S : of[x] = c}, f)]
<1>1. \A c \in P : Q[c] \in SUBSET S /\ F[c] = SumUp(Q[c], f)
  OBVIOUS
<1>2. \A c, d \in P : c # d => Q[c] \cap Q[d] = {}
  OBVIOUS
<1>3. UNION {Q[c] : c \in P} = S
  OBVIOUS
<1>. HIDE DEF Q, F
<1>4. SumUp(P, F) = SumUp(UNION {Q[c] : c \in P}, f)
  BY <1>1, <1>2, SumOfParts
<1>5. \A c \in P : F[c] \in Int
  BY <1>1, SumIsInt
<1>. QED BY <1>3, <1>4, <1>5 DEF F

LEMMA ResidualsSettle ==
  ASSUME NEW S, NEW f, NEW of, NEW T, NEW g, NEW by, NEW C, NEW none, NEW left,
         Settles(S, f, of, T, g, by, C, none, left)
  PROVE  /\ SumUp(S, f) \in Int /\ SumUp(C, left) \in Int
         /\ \A c \in C : left[c] \in Int
         /\ SumUp(S, f) + SumUp(C, left) = SumUp(T, g)
<1>. USE DEF Settles
<1>. DEFINE P == C \cup {none}
            F == [c \in P |-> SumUp({x \in S : of[x] = c}, f)]
            G == [c \in P |-> SumUp({y \in T : by[y] = c}, g)]
<1>1. IsFiniteSet(P)
  BY FS_AddElement
<1>2. SumUp(P, F) = SumUp(S, f) /\ \A c \in P : F[c] \in Int
  <2>1. \A x \in S : f[x] \in Int /\ of[x] \in P
    OBVIOUS
  <2>. HIDE DEF P, Settles
  <2>2. IsFiniteSet(S)
    BY DEF Settles
  <2>. QED BY <1>1, <2>1, <2>2, ByControl
<1>3. SumUp(P, G) = SumUp(T, g) /\ \A c \in P : G[c] \in Int
  <2>1. \A y \in T : g[y] \in Int /\ by[y] \in P
    OBVIOUS
  <2>. HIDE DEF P, Settles
  <2>2. IsFiniteSet(T)
    BY DEF Settles
  <2>. QED BY <1>1, <2>1, <2>2, ByControl
<1>4. ASSUME NEW c \in C PROVE left[c] \in Int /\ G[c] = F[c] + left[c]
  <2>1. CASE {y \in T : by[y] = c} = {}
    <3>1. left[c] = 0 /\ {x \in S : of[x] = c} = {}
      <4>1. left[c] = 0
        BY <2>1
      <4>2. ASSUME NEW x \in S, of[x] = c PROVE FALSE
        <5>1. PICK y \in T : by[y] = c
          BY <4>2
        <5>. QED BY <2>1, <5>1
      <4>. QED BY <4>1, <4>2
    <3>2. F[c] = 0 /\ G[c] = 0
      BY <2>1, <3>1, SumOfNone
    <3>. QED BY <3>1, <3>2
  <2>2. CASE {y \in T : by[y] = c} # {}
    <3>1. left[c] = G[c] - F[c]
      BY <2>2
    <3>2. F[c] \in Int /\ G[c] \in Int
      BY <1>2, <1>3
    <3>. HIDE DEF F, G
    <3>. QED BY <3>1, <3>2
  <2>. QED BY <2>1, <2>2
<1>5. F[none] = G[none]
  OBVIOUS
<1>. HIDE DEF F, G
<1>6. SumUp(C, G) = SumUp(C, F) + SumUp(C, left)
  BY <1>2, <1>3, <1>4, SumOfSums
<1>7. SumUp(P, F) = F[none] + SumUp(C, F) /\ SumUp(P, G) = G[none] + SumUp(C, G)
  BY <1>2, <1>3, SumAdds
<1>8. SumUp(C, F) \in Int /\ SumUp(C, G) \in Int /\ SumUp(C, left) \in Int
  BY <1>2, <1>3, <1>4, SumIsInt
<1>9. F[none] \in Int /\ G[none] \in Int
  BY <1>2, <1>3
<1>10. SumUp(S, f) \in Int
  BY SumIsInt
<1>. QED BY <1>2, <1>3, <1>4, <1>5, <1>6, <1>7, <1>8, <1>9, <1>10

\* Rows of attributed cash.
Attributions(A) ==
  /\ IsFiniteSet(DOMAIN A)
  /\ \A row \in DOMAIN A :
       /\ A[row].account \in ChartAccounts /\ A[row].control \in Controls \cup {NoControl}
       /\ A[row].amount \in Int /\ A[row].tax \in Int

AmountOf(A) == [row \in DOMAIN A |-> A[row].amount]
TaxOf(A)    == [row \in DOMAIN A |-> A[row].tax]
CashIn(A)   == [row \in DOMAIN A |-> A[row].amount + A[row].tax]

LEMMA SectionIsOne == ASSUME NEW a PROVE CashSection(a) \in {"income", "expense", "other"}
BY DEF CashSection

LEMMA ControlsAreFinite ==
  /\ IsFiniteSet(Controls) /\ NoControl \notin Controls
  /\ Controls \subseteq ChartAccounts /\ TaxAccount \in ChartAccounts
<1>1. IsFiniteSet({Receivable}) /\ IsFiniteSet({Payable}) /\ IsFiniteSet({ClaimsControl})
  BY FS_Singleton
<1>2. Controls = {Receivable} \cup ({Payable} \cup {ClaimsControl})
  BY DEF Controls
<1>3. IsFiniteSet(Controls)
  BY <1>1, <1>2, FS_Union
<1>. QED BY <1>3, CashAssumption

\* The movement that is printed: all that was attributed, with its tax, and what was left.
LEMMA RenderMoves ==
  ASSUME NEW cash, Attributions(cash.categories), cash.noteTax \in Int,
         \A c \in Controls : cash.unattributed[c] \in Int
  PROVE  RenderCash(cash).movement
         = SumUp(DOMAIN cash.categories, CashIn(cash.categories)) + SumUp(Controls, cash.unattributed)
<1>. DEFINE A == cash.categories
            S == DOMAIN A
            amount == AmountOf(A)
            tax == TaxOf(A)
            all == CashIn(A)
            section == [row \in S |-> CashSection(A[row].account)]
            part(names, f) == SumUp(Part(S, section, names), f)
            left == cash.unattributed
            sectionOf == [c \in Controls |-> CashSection(c)]
            kept(name) == SumUp(Part(Controls, sectionOf, {name}), left)
            note == cash.noteTax
<1>1. /\ IsFiniteSet(S)
      /\ \A x \in S : amount[x] \in Int /\ tax[x] \in Int /\ all[x] = amount[x] + tax[x]
      /\ \A x \in S : section[x] \in {"income", "expense", "other"}
  BY SectionIsOne DEF Attributions, AmountOf, TaxOf, CashIn
<1>2. IsFiniteSet(Controls) /\ \A c \in Controls : left[c] \in Int
  BY ControlsAreFinite
<1>3. \A c \in Controls : sectionOf[c] \in {"income", "expense", "other"}
  BY SectionIsOne
<1>4. RenderCash(cash).movement
      = (part({"income"}, amount) + kept("income")) + (part({"expense"}, amount) + kept("expense"))
        + (part({"other"}, amount) + kept("other"))
        + (part({"income"}, tax) + note) + (part({"expense", "other"}, tax) - note)
  <2>1. \A names : {row \in DOMAIN cash.categories :
                      CashSection(cash.categories[row].account) \in names}
                   = Part(S, section, names)
    BY DEF Part
  <2>2. \A name : {c \in Controls : CashSection(c) = name} = Part(Controls, sectionOf, {name})
    BY DEF Part
  <2>. HIDE DEF section, sectionOf
  <2>. QED BY <2>1, <2>2, TotalIsSum DEF RenderCash, AmountOf, TaxOf
<1>. HIDE DEF A, S, amount, tax, all, section, left, sectionOf, note
<1>5. /\ part({"income"}, amount) \in Int /\ part({"expense"}, amount) \in Int /\ part({"other"}, amount) \in Int
      /\ SumUp(S, amount) = part({"income"}, amount) + part({"expense"}, amount) + part({"other"}, amount)
  BY <1>1, BySection
<1>6. /\ part({"income"}, tax) \in Int /\ part({"expense", "other"}, tax) \in Int
      /\ SumUp(S, tax) = part({"income"}, tax) + part({"expense", "other"}, tax)
  BY <1>1, BySection
<1>7. /\ kept("income") \in Int /\ kept("expense") \in Int /\ kept("other") \in Int
      /\ SumUp(Controls, left) = kept("income") + kept("expense") + kept("other")
  BY <1>2, <1>3, BySection
<1>8. SumUp(S, all) = SumUp(S, amount) + SumUp(S, tax)
  BY <1>1, SumOfSums
<1>9. note \in Int
  BY DEF note
<1>. HIDE DEF part, kept
<1>10. RenderCash(cash).movement = SumUp(S, all) + SumUp(Controls, left)
  BY <1>4, <1>5, <1>6, <1>7, <1>8, <1>9
<1>. QED BY <1>10 DEF S, A, all, left

(***************************************************************************)
(* The rows: a line of what is in a finite set, and tables put together.   *)
(***************************************************************************)
LEMMA PerLineRows ==
  ASSUME NEW S, IsFiniteSet(S), NEW L, \A x \in S : IsFiniteSet(DOMAIN L[x]),
         NEW rows, rows = UNION {{x} \X DOMAIN L[x] : x \in S}
  PROVE  /\ IsFiniteSet(rows)
         /\ \A row \in rows : row[1] \in S /\ row[2] \in DOMAIN L[row[1]] /\ row = <<row[1], row[2]>>
         /\ \A x \in S : \A n \in DOMAIN L[x] : <<x, n>> \in rows
<1>. DEFINE Q == [x \in S |-> {x} \X DOMAIN L[x]]
<1>1. ASSUME NEW x \in S PROVE IsFiniteSet({x} \X DOMAIN L[x])
  BY FS_Singleton, FS_Product
<1>2. \A x \in S : IsFiniteSet(Q[x])
  BY <1>1
<1>3. rows = UNION {Q[x] : x \in S}
  OBVIOUS
<1>4. IsFiniteSet(rows)
  <2>. HIDE DEF Q
  <2>1. IsFiniteSet(UNION {Q[x] : x \in S})
    BY <1>2, PartsFinite
  <2>. QED BY <1>3, <2>1
<1>5. ASSUME NEW row \in rows
      PROVE  row[1] \in S /\ row[2] \in DOMAIN L[row[1]] /\ row = <<row[1], row[2]>>
  <2>1. PICK x \in S : row \in {x} \X DOMAIN L[x]
    OBVIOUS
  <2>. QED BY <2>1
<1>6. ASSUME NEW x \in S, NEW n \in DOMAIN L[x] PROVE <<x, n>> \in rows
  <2>1. <<x, n>> \in {x} \X DOMAIN L[x]
    OBVIOUS
  <2>. QED BY <2>1
<1>. QED BY <1>4, <1>5, <1>6

(***************************************************************************)
(* Documents, shares and controls.                                         *)
(***************************************************************************)
LEMMA DivOfMultiple ==
  ASSUME NEW x \in Nat, NEW half \in Nat \ {0}
  PROVE  (2 * x * half + half) \div (2 * half) = x
<1>1. PICK d \in Nat : d = 2 * half
  OBVIOUS
<1>2. PICK b \in Nat : b = x * d
  OBVIOUS
<1>3. 2 * x * half + half = b + half
  BY <1>1, <1>2
<1>4. PICK q \in Int : q = (b + half) \div d
  BY <1>1, <1>2
<1>5. d * q <= b + half /\ b + half < d * q + d
  BY <1>1, <1>2, <1>4
<1>6. ASSUME q < x PROVE FALSE
  <2>1. PICK gap \in Nat : x = q + 1 + gap
    <3>1. x - (q + 1) \in Nat /\ x = q + 1 + (x - (q + 1))
      BY <1>4, <1>6
    <3>. QED BY <3>1
  <2>2. d * gap \in Nat
    OBVIOUS
  <2>3. d * (q + 1 + gap) = d * q + d + d * gap
    OBVIOUS
  <2>4. d * q \in Int /\ d * x = d * q + d + d * gap
    BY <2>1, <2>3
  <2>. QED BY <1>1, <1>2, <1>5, <2>2, <2>4
<1>7. ASSUME q > x PROVE FALSE
  <2>1. d * (x + 1) <= d * q
    BY <1>1, <1>7
  <2>2. d * (x + 1) = d * x + d
    BY <1>1
  <2>. QED BY <1>1, <1>2, <1>5, <2>1, <2>2
<1>. QED BY <1>1, <1>3, <1>4, <1>6, <1>7

\* A share of an amount is an amount, and the whole share is all of it.
LEMMA Shares ==
  ASSUME NEW x \in Int, NEW num \in Int, NEW den \in Nat \ {0}
  PROVE  ShareOf(x, num, den) \in Int /\ ShareOf(x, den, den) = x
<1>1. ASSUME NEW y \in Int PROVE (2 * y * num + den) \div (2 * den) \in Int
  <2>1. PICK a \in Int : a = 2 * y * num + den
    OBVIOUS
  <2>2. PICK d \in Nat \ {0} : d = 2 * den
    OBVIOUS
  <2>3. a \div d \in Int
    OBVIOUS
  <2>. QED BY <2>1, <2>2, <2>3
<1>2. ShareOf(x, num, den) \in Int
  <2>1. CASE x < 0
    <3>1. PICK q \in Int : q = (2 * (-x) * num + den) \div (2 * den)
      BY <1>1
    <3>2. ShareOf(x, num, den) = -q
      BY <2>1, <3>1 DEF ShareOf
    <3>. QED BY <3>2
  <2>2. CASE ~(x < 0)
    BY <1>1, <2>2 DEF ShareOf
  <2>. QED BY <2>1, <2>2
<1>3. ShareOf(x, den, den) = x
  <2>1. CASE x < 0
    <3>1. PICK y \in Nat : y = -x
      BY <2>1
    <3>2. (2 * y * den + den) \div (2 * den) = y
      BY DivOfMultiple
    <3>3. ShareOf(x, den, den) = -((2 * y * den + den) \div (2 * den))
      BY <2>1, <3>1 DEF ShareOf
    <3>. QED BY <3>1, <3>2, <3>3
  <2>2. CASE ~(x < 0)
    <3>1. x \in Nat
      BY <2>2
    <3>. QED BY <2>2, <3>1, DivOfMultiple DEF ShareOf
  <2>. QED BY <2>1, <2>2
<1>. QED BY <1>2, <1>3

LEMMA DocumentFacts ==
  ASSUME NEW doc \in Document
  PROVE  /\ IsFiniteSet(DOMAIN doc.lines) /\ doc.total \in Nat \ {0}
         /\ \A n \in DOMAIN doc.lines :
              /\ doc.lines[n].account \in ChartAccounts
              /\ LineNet(doc, doc.lines[n]) \in Int /\ doc.lines[n].tax \in Int
<1>1. PICK lines \in Seq(DocLine) : lines = doc.lines
  BY DEF Document
<1>2. IsFiniteSet(DOMAIN lines)
  BY FS_Interval
<1>3. ASSUME NEW n \in DOMAIN lines
      PROVE  /\ lines[n].account \in ChartAccounts
             /\ LineNet(doc, lines[n]) \in Int /\ lines[n].tax \in Int
  <2>1. lines[n] \in DocLine
    OBVIOUS
  <2>. QED BY <2>1 DEF DocLine, LineNet
<1>. QED BY <1>1, <1>2, <1>3 DEF Document

\* A row that attributes a share of a line, and all of the line when the share is whole.
IsShare(row, control, sign, doc, n, num) ==
  /\ row.control = control /\ row.account \in ChartAccounts
  /\ row.amount \in Int /\ row.tax \in Int
  /\ num = doc.total => /\ row.amount = sign * LineNet(doc, doc.lines[n])
                        /\ row.tax = sign * doc.lines[n].tax

LEMMA AttributedFacts ==
  ASSUME NEW control, NEW sign \in {-1, 1}, NEW doc \in Document, NEW n \in DOMAIN doc.lines, NEW num \in Int
  PROVE  IsShare(Attributed(control, sign, doc, n, num, doc.total), control, sign, doc, n, num)
<1>. DEFINE row == Attributed(control, sign, doc, n, num, doc.total)
<1>1. PICK a \in Int, b \in Int, total \in Nat \ {0} :
        a = LineNet(doc, doc.lines[n]) /\ b = doc.lines[n].tax /\ total = doc.total
  BY DocumentFacts
<1>2. /\ row.control = control /\ row.account = doc.lines[n].account
      /\ row.amount = sign * ShareOf(a, num, total) /\ row.tax = sign * ShareOf(b, num, total)
  BY <1>1 DEF Attributed, Coded
<1>3. ShareOf(a, num, total) \in Int /\ ShareOf(b, num, total) \in Int
  BY Shares
<1>4. num = total => ShareOf(a, num, total) = a /\ ShareOf(b, num, total) = b
  BY Shares
<1>. HIDE DEF row
<1>5. IsShare(row, control, sign, doc, n, num)
  BY <1>1, <1>2, <1>3, <1>4, DocumentFacts DEF IsShare
<1>. QED BY <1>5 DEF row

\* The control of a journal is one that it touches; if it touches no other it is that one.
LEMMA ControlFacts ==
  ASSUME NEW j
  PROVE  /\ ControlOf(j) \in Controls \cup {NoControl}
         /\ ControlOf(j) \in Controls => Touches(j, {ControlOf(j)})
         /\ \A c \in Controls : Touches(j, {c}) /\ (\A d \in Controls : Touches(j, {d}) => d = c)
                                => ControlOf(j) = c
<1>. DEFINE used == {n \in DOMAIN ControlCodes : Touches(j, {ControlCodes[n]})}
            first == CHOOSE n \in used : \A m \in used : n <= m
<1>1. PICK codes \in Seq(Controls) : codes = ControlCodes /\ Controls = Range(codes)
  BY CashAssumption
<1>2. DOMAIN codes \subseteq Nat /\ \A n \in DOMAIN codes : codes[n] \in Controls
  OBVIOUS
<1>3. used \in SUBSET Nat
  BY <1>1, <1>2
<1>4. ASSUME used # {} PROVE first \in used
  <2>. HIDE DEF used
  <2>1. \E n \in used : \A m \in used : n <= m
    BY <1>3, <1>4, LeastOf
  <2>. QED BY <2>1
<1>5. ControlOf(j) = IF used = {} THEN NoControl ELSE ControlCodes[first]
  BY DEF ControlOf
<1>6. ControlOf(j) \in Controls \cup {NoControl}
  BY <1>1, <1>2, <1>4, <1>5
<1>7. ASSUME ControlOf(j) \in Controls PROVE Touches(j, {ControlOf(j)})
  <2>1. used # {}
    <3>. HIDE DEF used, first
    <3>. QED BY <1>5, <1>7, ControlsAreFinite
  <2>. QED BY <1>4, <1>5, <2>1
<1>8. ASSUME NEW c \in Controls, Touches(j, {c}), \A d \in Controls : Touches(j, {d}) => d = c
      PROVE  ControlOf(j) = c
  <2>1. PICK n \in DOMAIN codes : codes[n] = c
    BY <1>1 DEF Range
  <2>2. n \in used
    BY <1>1, <1>8, <2>1
  <2>3. first \in used
    BY <1>4, <2>2
  <2>4. ControlCodes[first] \in Controls /\ Touches(j, {ControlCodes[first]})
    BY <1>1, <1>2, <2>3
  <2>5. ControlCodes[first] = c
    <3>. HIDE DEF first
    <3>. QED BY <1>8, <2>4
  <2>. QED BY <1>5, <2>2, <2>5
<1>. QED BY <1>6, <1>7, <1>8

(***************************************************************************)
(* What the tables hold, and the four tables of attributed cash.           *)
(***************************************************************************)
SumsToZero(js) == \A k \in DOMAIN js : SumUp(DOMAIN js[k].lines, Nets(js[k].lines)) = 0

CashTables ==
  /\ Ledger(cashbook) /\ SumsToZero(cashbook)
  /\ IsFiniteSet(DOMAIN payments)
  /\ \A p \in DOMAIN payments :
       payments[p].invoice \in DOMAIN CashDocuments /\ payments[p].amount \in Int
  /\ IsFiniteSet(allocations)
  /\ \A x \in allocations : x.note \in DOMAIN CashNotes /\ x.amount \in Int

LEMMA SettledFacts ==
  ASSUME NEW i \in DOMAIN CashDocuments
  PROVE  /\ CashDocuments[i] \in Document
         /\ SettledControl(i) \in {Receivable, Payable} /\ SettledControl(i) \in Controls
         /\ PaymentSign(i) \in {-1, 1} /\ -PaymentSign(i) \in {-1, 1}
<1>1. CashDocuments[i] \in Document
  BY CashAssumption
<1>2. SettledControl(i) \in {Receivable, Payable} /\ PaymentSign(i) \in {-1, 1}
  BY DEF SettledControl, PaymentSign
<1>3. -PaymentSign(i) \in {-1, 1}
  BY <1>2
<1>. QED BY <1>1, <1>2, <1>3 DEF Controls

LEMMA AllocatedIsInteger == ASSUME CashTables, NEW i PROVE AllocatedTo(i) \in Int
<1>. DEFINE S == {x \in allocations : x.invoice = i}
            f == [x \in allocations |-> x.amount]
<1>1. IsFiniteSet(S) /\ \A x \in S : f[x] \in Int
  BY FS_Subset DEF CashTables
<1>2. AllocatedTo(i) = SumUp(S, f)
  BY TotalIsSum DEF AllocatedTo
<1>. HIDE DEF S, f
<1>. QED BY <1>1, <1>2, SumIsInt

DocumentOf(p) == CashDocuments[payments[p].invoice]

LEMMA DocumentRows ==
  ASSUME CashTables, NEW paid \in SUBSET DOMAIN payments
  PROVE  LET A == DocumentAttr(paid) IN
         /\ Attributions(A)
         /\ \A row \in DOMAIN A :
              /\ row[1] \in paid /\ row[2] \in DOMAIN DocumentOf(row[1]).lines
              /\ row = <<row[1], row[2]>>
              /\ A[row].control = SettledControl(payments[row[1]].invoice)
              /\ Explained(row[1]) = DocumentOf(row[1]).total =>
                   LET sign == PaymentSign(payments[row[1]].invoice)
                       line == DocumentOf(row[1]).lines[row[2]]
                   IN  A[row].amount = sign * LineNet(DocumentOf(row[1]), line) /\ A[row].tax = sign * line.tax
         /\ \A p \in paid : \A n \in DOMAIN DocumentOf(p).lines : <<p, n>> \in DOMAIN A
<1>. DEFINE L == [p \in paid |-> DocumentOf(p).lines]
            rows == UNION {{p} \X DOMAIN L[p] : p \in paid}
            A == DocumentAttr(paid)
<1>1. IsFiniteSet(paid)
  BY FS_Subset DEF CashTables
<1>2. ASSUME NEW p \in paid
      PROVE  /\ payments[p].invoice \in DOMAIN CashDocuments /\ DocumentOf(p) \in Document
             /\ IsFiniteSet(DOMAIN DocumentOf(p).lines) /\ Explained(p) \in Int
  <2>1. payments[p].invoice \in DOMAIN CashDocuments /\ payments[p].amount \in Int
    BY DEF CashTables
  <2>2. DocumentOf(p) \in Document
    BY <2>1, SettledFacts DEF DocumentOf
  <2>3. Explained(p) \in Int
    <3>1. PICK settled \in Int : settled = payments[p].amount + AllocatedTo(payments[p].invoice)
      BY <2>1, AllocatedIsInteger
    <3>2. DocumentOf(p).total \in Int
      BY <2>2, DocumentFacts
    <3>. QED BY <3>1, <3>2 DEF Explained, DocumentOf
  <2>. QED BY <2>1, <2>2, <2>3, DocumentFacts
<1>3. \A p \in paid : IsFiniteSet(DOMAIN L[p])
  BY <1>2
<1>4. /\ IsFiniteSet(rows)
      /\ \A row \in rows : row[1] \in paid /\ row[2] \in DOMAIN L[row[1]] /\ row = <<row[1], row[2]>>
      /\ \A p \in paid : \A n \in DOMAIN L[p] : <<p, n>> \in rows
  <2>. HIDE DEF L
  <2>. QED BY <1>1, <1>3, PerLineRows
<1>5. /\ DOMAIN A = rows
      /\ \A row \in rows :
           A[row] = Attributed(SettledControl(payments[row[1]].invoice), PaymentSign(payments[row[1]].invoice),
                               DocumentOf(row[1]), row[2], Explained(row[1]), DocumentOf(row[1]).total)
  <2>1. rows = PerLine(paid, LAMBDA p : CashDocuments[payments[p].invoice].lines)
    BY DEF PerLine, DocumentOf
  <2>. HIDE DEF rows
  <2>. QED BY <2>1 DEF DocumentAttr, DocumentOf
<1>6. ASSUME NEW row \in rows
      PROVE  /\ row[1] \in paid /\ row[2] \in DOMAIN DocumentOf(row[1]).lines /\ row = <<row[1], row[2]>>
  BY <1>4
<1>8. ASSUME NEW q \in paid, NEW n \in DOMAIN DocumentOf(q).lines PROVE <<q, n>> \in rows
  BY <1>4
<1>. HIDE DEF rows, L, A
<1>7. ASSUME NEW row \in rows
      PROVE  /\ A[row].control = SettledControl(payments[row[1]].invoice)
             /\ A[row].account \in ChartAccounts /\ A[row].amount \in Int /\ A[row].tax \in Int
             /\ A[row].control \in Controls
             /\ Explained(row[1]) = DocumentOf(row[1]).total =>
                  LET sign == PaymentSign(payments[row[1]].invoice)
                      line == DocumentOf(row[1]).lines[row[2]]
                  IN  A[row].amount = sign * LineNet(DocumentOf(row[1]), line) /\ A[row].tax = sign * line.tax
  <2>1. PICK p, n, doc, control, sign, num :
          /\ p = row[1] /\ n = row[2] /\ doc = DocumentOf(p) /\ num = Explained(p)
          /\ control = SettledControl(payments[p].invoice) /\ sign = PaymentSign(payments[p].invoice)
    OBVIOUS
  <2>2. doc \in Document /\ n \in DOMAIN doc.lines /\ sign \in {-1, 1} /\ num \in Int /\ control \in Controls
    BY <1>2, <1>6, <2>1, SettledFacts
  <2>3. A[row] = Attributed(control, sign, doc, n, num, doc.total)
    BY <1>5, <2>1
  <2>4. IsShare(A[row], control, sign, doc, n, num)
    <3>1. IsShare(Attributed(control, sign, doc, n, num, doc.total), control, sign, doc, n, num)
      BY <2>2, AttributedFacts
    <3>. QED BY <2>3, <3>1
  <2>. QED BY <2>1, <2>2, <2>4 DEF IsShare
<1>9. Attributions(A)
  BY <1>4, <1>5, <1>7 DEF Attributions
<1>. QED BY <1>5, <1>6, <1>7, <1>8, <1>9 DEF A

LEMMA NoteRows ==
  ASSUME CashTables, NEW paid \in SUBSET DOMAIN payments
  PROVE  LET A == NoteAttr(paid) IN
         /\ Attributions(A)
         /\ \A row \in DOMAIN A : \E p \in paid : A[row].control = SettledControl(payments[p].invoice)
         /\ allocations = {} => DOMAIN A = {}
<1>. DEFINE credited == {x \in paid \X allocations : x[2].invoice = payments[x[1]].invoice}
            L == [x \in credited |-> CashNotes[x[2].note].lines]
            rows == UNION {{x} \X DOMAIN L[x] : x \in credited}
            A == NoteAttr(paid)
<1>1. IsFiniteSet(credited)
  <2>1. IsFiniteSet(paid) /\ IsFiniteSet(allocations)
    BY FS_Subset DEF CashTables
  <2>2. IsFiniteSet(paid \X allocations)
    BY <2>1, FS_Product
  <2>. QED BY <2>2, FS_Subset
<1>2. ASSUME NEW x \in credited
      PROVE  /\ x[1] \in paid /\ payments[x[1]].invoice \in DOMAIN CashDocuments
             /\ CashNotes[x[2].note] \in Document /\ x[2].amount \in Int /\ x[2] \in allocations
  BY CashAssumption DEF CashTables
<1>3. \A x \in credited : IsFiniteSet(DOMAIN L[x])
  <2>. HIDE DEF credited
  <2>. QED BY <1>2, DocumentFacts
<1>4. /\ IsFiniteSet(rows)
      /\ \A row \in rows : row[1] \in credited /\ row[2] \in DOMAIN L[row[1]]
  <2>. HIDE DEF L, credited
  <2>. QED BY <1>1, <1>3, PerLineRows
<1>5. /\ DOMAIN A = rows
      /\ \A row \in rows :
           A[row] = Attributed(SettledControl(payments[row[1][1]].invoice),
                               -PaymentSign(payments[row[1][1]].invoice), CashNotes[row[1][2].note], row[2],
                               row[1][2].amount, CashNotes[row[1][2].note].total)
  <2>1. rows = PerLine(credited, LAMBDA x : CashNotes[x[2].note].lines)
    <3>. HIDE DEF credited
    <3>. QED BY DEF PerLine
  <2>. HIDE DEF rows
  <2>. QED BY <2>1 DEF NoteAttr
<1>6. allocations = {} => rows = {}
  OBVIOUS
<1>7. ASSUME NEW row \in rows
      PROVE  row[1] \in credited /\ row[2] \in DOMAIN CashNotes[row[1][2].note].lines
  <2>. HIDE DEF rows, credited
  <2>. QED BY <1>4
<1>. HIDE DEF rows, L, A, credited
<1>8. ASSUME NEW row \in rows
      PROVE  /\ row[1][1] \in paid /\ A[row].control = SettledControl(payments[row[1][1]].invoice)
             /\ A[row].account \in ChartAccounts /\ A[row].amount \in Int /\ A[row].tax \in Int
             /\ A[row].control \in Controls
  <2>1. PICK p, x, n, note, control, sign, num :
          /\ p = row[1][1] /\ x = row[1][2] /\ n = row[2] /\ note = CashNotes[x.note] /\ num = x.amount
          /\ control = SettledControl(payments[p].invoice) /\ sign = -PaymentSign(payments[p].invoice)
    OBVIOUS
  <2>2. /\ note \in Document /\ n \in DOMAIN note.lines /\ sign \in {-1, 1} /\ num \in Int
        /\ control \in Controls /\ p \in paid
    BY <1>2, <1>7, <2>1, SettledFacts
  <2>3. A[row] = Attributed(control, sign, note, n, num, note.total)
    BY <1>5, <2>1
  <2>4. IsShare(A[row], control, sign, note, n, num)
    <3>1. IsShare(Attributed(control, sign, note, n, num, note.total), control, sign, note, n, num)
      BY <2>2, AttributedFacts
    <3>. QED BY <2>3, <3>1
  <2>. QED BY <2>1, <2>2, <2>4 DEF IsShare
<1>9. Attributions(A)
  BY <1>4, <1>5, <1>8 DEF Attributions
<1>. QED BY <1>5, <1>6, <1>8, <1>9 DEF A

LEMMA EntryFacts ==
  ASSUME NEW lines \in Seq(EntryLine)
  PROVE  /\ IsFiniteSet(DOMAIN lines)
         /\ \A n \in DOMAIN lines :
              lines[n].account \in ChartAccounts /\ lines[n].net \in Int /\ lines[n].tax \in Int
<1>1. IsFiniteSet(DOMAIN lines)
  BY FS_Interval
<1>2. ASSUME NEW n \in DOMAIN lines
      PROVE  lines[n].account \in ChartAccounts /\ lines[n].net \in Int /\ lines[n].tax \in Int
  <2>1. lines[n] \in EntryLine
    OBVIOUS
  <2>. QED BY <2>1 DEF EntryLine
<1>. QED BY <1>1, <1>2

LEMMA CashbookFacts ==
  ASSUME CashTables, NEW k \in DOMAIN cashbook
  PROVE  /\ IsFiniteSet(DOMAIN cashbook[k].lines)
         /\ \A n \in DOMAIN cashbook[k].lines :
              /\ cashbook[k].lines[n].account \in ChartAccounts
              /\ cashbook[k].lines[n].net \in Int /\ cashbook[k].lines[n].tax \in Int
         /\ SumUp(DOMAIN cashbook[k].lines, Nets(cashbook[k].lines)) = 0
<1>1. PICK lines : lines = cashbook[k].lines /\ lines \in Seq(EntryLine)
  BY DEF CashTables, Ledger, JournalRow
<1>2. SumUp(DOMAIN cashbook[k].lines, Nets(cashbook[k].lines)) = 0
  BY DEF CashTables, SumsToZero
<1>. QED BY <1>1, <1>2, EntryFacts

LEMMA ClaimRows ==
  ASSUME CashTables, NEW bank \in SUBSET DOMAIN cashbook
  PROVE  LET A == ClaimAttr(bank) IN
         /\ Attributions(A)
         /\ \A row \in DOMAIN A :
              A[row].control = ClaimsControl /\ \E k \in bank : ControlOf(cashbook[k]) = ClaimsControl
<1>. DEFINE own == {k \in bank : ControlOf(cashbook[k]) = ClaimsControl}
            L == [k \in own |-> cashbook[k].lines]
            used == UNION {{k} \X DOMAIN L[k] : k \in own}
            paid == {x \in used \X DOMAIN ClaimJournals : PaysClaim(cashbook[x[1][1]].lines[x[1][2]], x[2])}
            M == [x \in paid |-> ClaimJournals[x[2]]]
            rows == UNION {{x} \X DOMAIN M[x] : x \in paid}
            coding(row) == ClaimJournals[row[1][2]][row[2]]
            A == ClaimAttr(bank)
<1>1. IsFiniteSet(own) /\ \A k \in own : k \in bank /\ k \in DOMAIN cashbook
  BY FS_Subset DEF CashTables, Ledger
<1>2. IsFiniteSet(used) /\ \A row \in used : row[1] \in own
  <2>1. \A k \in own : IsFiniteSet(DOMAIN L[k])
    BY <1>1, CashbookFacts
  <2>. HIDE DEF L, own
  <2>. QED BY <1>1, <2>1, PerLineRows
<1>3. IsFiniteSet(DOMAIN ClaimJournals) /\ \A c \in DOMAIN ClaimJournals : ClaimJournals[c] \in Seq(EntryLine)
  BY CashAssumption
<1>4. IsFiniteSet(paid) /\ \A x \in paid : x[2] \in DOMAIN ClaimJournals /\ x[1] \in used
  <2>. HIDE DEF used
  <2>1. IsFiniteSet(used \X DOMAIN ClaimJournals)
    BY <1>2, <1>3, FS_Product
  <2>. QED BY <2>1, FS_Subset
<1>5. DOMAIN A = {r \in rows : coding(r).account \notin {ClaimsControl, TaxAccount}}
      /\ \A row \in DOMAIN A :
           A[row] = Coded(ClaimsControl, coding(row).account, -coding(row).net, -coding(row).tax)
  <2>1. used = PerLine(own, LAMBDA k : cashbook[k].lines)
    <3>. HIDE DEF own
    <3>. QED BY DEF PerLine
  <2>. HIDE DEF used
  <2>2. rows = PerLine(paid, LAMBDA x : ClaimJournals[x[2]])
    <3>. HIDE DEF paid
    <3>. QED BY DEF PerLine
  <2>. HIDE DEF rows
  <2>. QED BY <2>1, <2>2 DEF ClaimAttr
<1>6. IsFiniteSet(rows) /\ \A row \in rows : row[1] \in paid /\ row[2] \in DOMAIN M[row[1]]
  <2>1. \A x \in paid : IsFiniteSet(DOMAIN M[x])
    <3>. HIDE DEF paid
    <3>. QED BY <1>3, <1>4, EntryFacts
  <2>. HIDE DEF M, paid
  <2>. QED BY <1>4, <2>1, PerLineRows
<1>7. ASSUME NEW row \in rows
      PROVE  /\ row[1] \in paid /\ row[1][2] \in DOMAIN ClaimJournals
             /\ row[2] \in DOMAIN ClaimJournals[row[1][2]]
  <2>. HIDE DEF paid, rows
  <2>. QED BY <1>4, <1>6
<1>. HIDE DEF rows, paid, used, own, L, M, A
<1>8. ASSUME NEW row \in DOMAIN A
      PROVE  /\ A[row].account \in ChartAccounts /\ A[row].amount \in Int /\ A[row].tax \in Int
             /\ A[row].control = ClaimsControl
  <2>1. PICK lines, n : lines = ClaimJournals[row[1][2]] /\ n = row[2]
    OBVIOUS
  <2>2. lines \in Seq(EntryLine) /\ n \in DOMAIN lines
    BY <1>3, <1>5, <1>7, <2>1
  <2>3. lines[n].account \in ChartAccounts /\ lines[n].net \in Int /\ lines[n].tax \in Int
    BY <2>2, EntryFacts
  <2>4. A[row] = Coded(ClaimsControl, lines[n].account, -lines[n].net, -lines[n].tax)
    BY <1>5, <2>1
  <2>. QED BY <2>3, <2>4 DEF Coded
<1>9. \A row \in DOMAIN A : \E k \in bank : ControlOf(cashbook[k]) = ClaimsControl
  <2>1. \A row \in DOMAIN A : row[1][1][1] \in own
    BY <1>2, <1>4, <1>5, <1>7
  <2>. QED BY <1>1, <2>1 DEF own
<1>10. Attributions(A)
  <2>1. IsFiniteSet(DOMAIN A)
    BY <1>5, <1>6, FS_Subset
  <2>. QED BY <1>8, <2>1 DEF Attributions, Controls
<1>. QED BY <1>8, <1>9, <1>10 DEF A

\* What a line of a bank journal is coded directly.
Direct(k, n) ==
  /\ TypeOf[cashbook[k].lines[n].account] # "BANK"
  /\ cashbook[k].lines[n].account \notin {TaxAccount, ControlOf(cashbook[k])}

LEMMA DirectRows ==
  ASSUME CashTables, NEW bank \in SUBSET DOMAIN cashbook
  PROVE  LET A == DirectAttr(bank) IN
         /\ Attributions(A)
         /\ \A row \in DOMAIN A :
              /\ row[1] \in bank /\ row[2] \in DOMAIN cashbook[row[1]].lines /\ row = <<row[1], row[2]>>
              /\ Direct(row[1], row[2]) /\ A[row].control = ControlOf(cashbook[row[1]])
              /\ A[row].amount = -cashbook[row[1]].lines[row[2]].net
              /\ A[row].tax = -cashbook[row[1]].lines[row[2]].tax
         /\ \A k \in bank : \A n \in DOMAIN cashbook[k].lines : Direct(k, n) => <<k, n>> \in DOMAIN A
<1>. DEFINE L == [k \in bank |-> cashbook[k].lines]
            rows == UNION {{k} \X DOMAIN L[k] : k \in bank}
            line(row) == cashbook[row[1]].lines[row[2]]
            A == DirectAttr(bank)
<1>1. IsFiniteSet(bank)
  BY FS_Subset DEF CashTables, Ledger
<1>2. /\ IsFiniteSet(rows)
      /\ \A row \in rows : row[1] \in bank /\ row[2] \in DOMAIN L[row[1]] /\ row = <<row[1], row[2]>>
      /\ \A k \in bank : \A n \in DOMAIN L[k] : <<k, n>> \in rows
  <2>1. \A k \in bank : IsFiniteSet(DOMAIN L[k])
    BY CashbookFacts
  <2>. HIDE DEF L
  <2>. QED BY <1>1, <2>1, PerLineRows
<1>3. /\ DOMAIN A = {r \in rows : Direct(r[1], r[2])}
      /\ \A row \in DOMAIN A :
           A[row] = Coded(ControlOf(cashbook[row[1]]), line(row).account, -line(row).net, -line(row).tax)
  <2>1. rows = BankLines(bank)
    BY DEF PerLine, BankLines
  <2>. HIDE DEF rows
  <2>. QED BY <2>1 DEF DirectAttr, Direct
<1>4. ASSUME NEW row \in rows
      PROVE  row[1] \in bank /\ row[2] \in DOMAIN cashbook[row[1]].lines /\ row = <<row[1], row[2]>>
  BY <1>2
<1>5. ASSUME NEW k \in bank, NEW n \in DOMAIN cashbook[k].lines PROVE <<k, n>> \in rows
  BY <1>2
<1>. HIDE DEF L, rows, A
<1>6. ASSUME NEW row \in DOMAIN A
      PROVE  /\ A[row].account \in ChartAccounts /\ A[row].amount \in Int /\ A[row].tax \in Int
             /\ A[row].control = ControlOf(cashbook[row[1]])
             /\ A[row].amount = -line(row).net /\ A[row].tax = -line(row).tax
  <2>1. row \in rows
    BY <1>3
  <2>2. PICK l : l = line(row)
    OBVIOUS
  <2>3. l.account \in ChartAccounts /\ l.net \in Int /\ l.tax \in Int
    <3>1. row[1] \in DOMAIN cashbook /\ row[2] \in DOMAIN cashbook[row[1]].lines
      BY <1>4, <2>1
    <3>. QED BY <2>2, <3>1, CashbookFacts
  <2>4. A[row] = Coded(ControlOf(cashbook[row[1]]), l.account, -l.net, -l.tax)
    BY <1>3, <2>2
  <2>. QED BY <2>2, <2>3, <2>4 DEF Coded
<1>7. Attributions(A)
  <2>1. IsFiniteSet(DOMAIN A)
    BY <1>2, <1>3, FS_Subset
  <2>2. \A row \in DOMAIN A : A[row].control \in Controls \cup {NoControl}
    BY <1>6, ControlFacts
  <2>. QED BY <1>6, <2>1, <2>2 DEF Attributions
<1>8. ASSUME NEW k \in bank, NEW n \in DOMAIN cashbook[k].lines, Direct(k, n) PROVE <<k, n>> \in DOMAIN A
  <2>1. <<k, n>> \in rows /\ <<k, n>>[1] = k /\ <<k, n>>[2] = n
    BY <1>5
  <2>. QED BY <1>3, <1>8, <2>1
<1>9. \A row \in DOMAIN A :
        /\ row[1] \in bank /\ row[2] \in DOMAIN cashbook[row[1]].lines /\ row = <<row[1], row[2]>>
        /\ Direct(row[1], row[2])
  BY <1>3, <1>4
<1>. QED BY <1>6, <1>7, <1>8, <1>9 DEF A

\* A journal with no control that records its tax coded what it moved.
LEMMA CodedDirectly ==
  ASSUME CashTables, NEW bank \in SUBSET DOMAIN cashbook, NEW k \in bank,
         ControlOf(cashbook[k]) = NoControl, TaxRecorded(cashbook[k])
  PROVE  SumUp({row \in DOMAIN DirectAttr(bank) : row[1] = k}, CashIn(DirectAttr(bank)))
         = CashMoves(cashbook)[k]
<1>1. PICK lines : lines = cashbook[k].lines
  OBVIOUS
<1>2. /\ IsFiniteSet(DOMAIN lines) /\ SumUp(DOMAIN lines, Nets(lines)) = 0
      /\ \A n \in DOMAIN lines :
           lines[n].account \in ChartAccounts /\ lines[n].net \in Int /\ lines[n].tax \in Int
  <2>1. k \in DOMAIN cashbook
    OBVIOUS
  <2>. QED BY <1>1, <2>1, CashbookFacts
<1>. DEFINE T == DOMAIN lines
            tax == [n \in T |-> IF lines[n].account = TaxAccount THEN lines[n].net
                                ELSE IF TypeOf[lines[n].account] = "BANK" THEN 0 ELSE -lines[n].tax]
            back == [n \in T |-> -Nets(lines)[n]]
            moved == BankNets(lines)
            both == [n \in T |-> back[n] + moved[n]]
            direct == [n \in T |-> IF TypeOf[lines[n].account] = "BANK" \/ lines[n].account = TaxAccount THEN 0
                                   ELSE -lines[n].net + -lines[n].tax]
<1>3. SumUp(T, tax) = 0
  BY <1>1, TotalIsSum DEF TaxRecorded, SumOf
<1>4. /\ \A n \in T : tax[n] \in Int /\ moved[n] \in Int /\ both[n] \in Int /\ Nets(lines)[n] \in Int
      /\ \A n \in T : back[n] \in Int /\ back[n] = -Nets(lines)[n] /\ both[n] = back[n] + moved[n]
  BY <1>2 DEF Nets, BankNets
<1>5. ASSUME NEW n \in T PROVE direct[n] = both[n] + tax[n] /\ direct[n] \in Int
  <2>1. TypeOf[TaxAccount] # "BANK"
    BY CashAssumption
  <2>. QED BY <1>2, <2>1 DEF Nets, BankNets
<1>6. SumUp(T, direct) = SumUp(T, moved)
  <2>. HIDE DEF T, tax, back, moved, both, direct
  <2>1. IsFiniteSet(T)
    BY <1>2 DEF T
  <2>2. SumUp(T, direct) = SumUp(T, both) + SumUp(T, tax)
    BY <1>4, <1>5, <2>1, SumOfSums
  <2>3. SumUp(T, both) = SumUp(T, back) + SumUp(T, moved)
    BY <1>4, <2>1, SumOfSums
  <2>4. SumUp(T, back) = -SumUp(T, Nets(lines))
    BY <1>4, <2>1, SumNegates
  <2>5. SumUp(T, moved) \in Int /\ SumUp(T, both) \in Int
    BY <1>4, <2>1, SumIsInt
  <2>. QED BY <1>2, <1>3, <2>2, <2>3, <2>4, <2>5 DEF T
<1>. DEFINE A == DirectAttr(bank)
            f == CashIn(A)
            S == {row \in DOMAIN A : row[1] = k}
            Z == {n \in T : TypeOf[lines[n].account] # "BANK" /\ lines[n].account # TaxAccount}
            h == [row \in S |-> row[2]]
<1>7. /\ Attributions(A)
      /\ \A row \in DOMAIN A :
           /\ row[2] \in DOMAIN cashbook[row[1]].lines /\ row = <<row[1], row[2]>> /\ Direct(row[1], row[2])
           /\ A[row].amount = -cashbook[row[1]].lines[row[2]].net
           /\ A[row].tax = -cashbook[row[1]].lines[row[2]].tax
      /\ \A n \in DOMAIN cashbook[k].lines : Direct(k, n) => <<k, n>> \in DOMAIN A
  BY DirectRows
<1>8. ASSUME NEW n \in T PROVE Direct(k, n) <=> n \in Z
  <2>1. lines[n].account # NoControl
    BY <1>2, CashAssumption
  <2>. QED BY <1>1, <2>1 DEF Direct
<1>9. ASSUME NEW row \in S
      PROVE  h[row] \in Z /\ f[row] \in Int /\ f[row] = direct[h[row]] /\ row = <<k, h[row]>>
  <2>1. row \in DOMAIN A /\ row[1] = k /\ h[row] = row[2]
    OBVIOUS
  <2>. HIDE DEF A, Z, h, direct, S
  <2>2. row[2] \in T /\ Direct(k, row[2]) /\ row = <<k, row[2]>>
    BY <1>1, <1>7, <2>1
  <2>3. row[2] \in Z
    BY <1>8, <2>2
  <2>4. f[row] = -lines[row[2]].net + -lines[row[2]].tax
    BY <1>1, <1>7, <2>1 DEF CashIn
  <2>5. direct[row[2]] = -lines[row[2]].net + -lines[row[2]].tax /\ direct[row[2]] \in Int
    BY <1>5, <2>2, <2>3 DEF direct, Z
  <2>. QED BY <2>1, <2>2, <2>3, <2>4, <2>5
<1>10. ASSUME NEW n \in Z PROVE \E row \in S : h[row] = n
  <2>1. n \in T
    OBVIOUS
  <2>2. <<k, n>> \in DOMAIN A
    <3>. HIDE DEF A, Z, h
    <3>. QED BY <1>1, <1>7, <1>8, <2>1
  <2>3. <<k, n>> \in S /\ h[<<k, n>>] = n
    BY <2>2
  <2>. QED BY <2>3
<1>11. SumUp(S, f) = SumUp(Z, direct)
  <2>1. IsFiniteSet(S) /\ IsFiniteSet(Z)
    BY <1>2, <1>7, FS_Subset DEF Attributions
  <2>. HIDE DEF A, f, S, Z, h, direct
  <2>2. \A x, y \in S : h[x] = h[y] => x = y
    BY <1>9
  <2>3. Renames(S, f, h, Z, direct)
    BY <1>9, <1>10, <2>1, <2>2 DEF Renames
  <2>. QED BY <2>3, SumRenamed
<1>12. SumUp(T, direct) = SumUp(Z, direct)
  <2>1. Z \in SUBSET T /\ \A n \in T \ Z : direct[n] = 0
    OBVIOUS
  <2>. HIDE DEF Z, direct
  <2>. QED BY <1>2, <1>5, <2>1, SumWithin
<1>13. CashMoves(cashbook)[k] = SumUp(T, moved)
  BY <1>1 DEF CashMoves
<1>. HIDE DEF S, f, T, direct, moved, Z
<1>. QED BY <1>6, <1>11, <1>12, <1>13 DEF S, f

LEMMA DirectBalances ==
  ASSUME CashTables, NEW bank \in SUBSET DOMAIN cashbook,
         \A k \in bank : ControlOf(cashbook[k]) = NoControl => TaxRecorded(cashbook[k])
  PROVE  SumUp({row \in DOMAIN DirectAttr(bank) : DirectAttr(bank)[row].control = NoControl},
               CashIn(DirectAttr(bank)))
         = SumUp({k \in bank : ControlOf(cashbook[k]) = NoControl}, CashMoves(cashbook))
<1>. DEFINE A == DirectAttr(bank)
            f == CashIn(A)
            S == {row \in DOMAIN A : A[row].control = NoControl}
            P == {k \in bank : ControlOf(cashbook[k]) = NoControl}
            Q == [k \in P |-> {row \in DOMAIN A : row[1] = k}]
            F == CashMoves(cashbook)
<1>1. /\ Attributions(A)
      /\ \A row \in DOMAIN A : row[1] \in bank /\ A[row].control = ControlOf(cashbook[row[1]])
  BY DirectRows
<1>2. IsFiniteSet(S) /\ IsFiniteSet(P)
  BY <1>1, FS_Subset DEF Attributions, CashTables, Ledger
<1>3. \A row \in S : f[row] \in Int
  BY <1>1 DEF Attributions, CashIn
<1>4. \A k \in P : F[k] = SumUp(Q[k], f)
  <2>1. ASSUME NEW k \in P PROVE F[k] = SumUp({row \in DOMAIN A : row[1] = k}, f)
    BY CodedDirectly
  <2>. QED BY <2>1
<1>5. /\ \A k \in P : Q[k] \in SUBSET S
      /\ \A p, q \in P : p # q => Q[p] \cap Q[q] = {}
      /\ UNION {Q[k] : k \in P} = S
  <2>. HIDE DEF A
  <2>1. \A row \in DOMAIN A : row \in S <=> row[1] \in P
    BY <1>1
  <2>. HIDE DEF P
  <2>2. \A k \in P : Q[k] = {row \in DOMAIN A : row[1] = k}
    OBVIOUS
  <2>3. \A row \in S : row \in DOMAIN A
    OBVIOUS
  <2>. HIDE DEF Q, S
  <2>4. \A k \in P : Q[k] \in SUBSET S
    BY <2>1, <2>2
  <2>5. \A p, q \in P : p # q => Q[p] \cap Q[q] = {}
    BY <2>2
  <2>6. ASSUME NEW row \in S PROVE row[1] \in P /\ row \in Q[row[1]]
    BY <2>1, <2>2, <2>3
  <2>7. UNION {Q[k] : k \in P} = S
    BY <2>4, <2>6
  <2>. QED BY <2>4, <2>5, <2>7
<1>. HIDE DEF A, f, S, P, Q, F
<1>6. SumUp(P, F) = SumUp(S, f)
  BY <1>2, <1>3, <1>4, <1>5, SumOfParts
<1>. QED BY <1>6 DEF A, f, S, P, F

\* The journal of a payment is the one that Pay wrote.
PaymentJournals ==
  \A p \in DOMAIN payments \cap DOMAIN cashbook :
    \E a \in PaidFrom : cashbook[p].lines = PaymentLines(payments[p].invoice, a, payments[p].amount)

LEMMA PaymentFacts ==
  ASSUME CashTables, PaymentJournals, NEW p \in DOMAIN payments, p \in DOMAIN cashbook,
         Touches(cashbook[p], OfType({"BANK"}))
  PROVE  /\ ControlOf(cashbook[p]) = SettledControl(payments[p].invoice)
         /\ CashMoves(cashbook)[p] = PaymentSign(payments[p].invoice) * payments[p].amount
         /\ \A n \in DOMAIN cashbook[p].lines : ~Direct(p, n)
<1>1. PICK i, x, sign, control :
        i = payments[p].invoice /\ x = payments[p].amount /\ sign = PaymentSign(i) /\ control = SettledControl(i)
  OBVIOUS
<1>2. i \in DOMAIN CashDocuments /\ x \in Int /\ sign \in {-1, 1} /\ control \in Controls
  <2>1. i \in DOMAIN CashDocuments /\ x \in Int
    BY <1>1 DEF CashTables
  <2>. QED BY <1>1, <2>1, SettledFacts
<1>3. PICK a \in PaidFrom : cashbook[p].lines = PaymentLines(i, a, x)
  BY <1>1 DEF PaymentJournals
<1>4. PICK lines : lines = cashbook[p].lines
  OBVIOUS
<1>5. lines = << Line(a, sign * x, 0), Line(control, -(sign * x), 0) >>
  BY <1>1, <1>3, <1>4 DEF PaymentLines, SettledControl
<1>6. /\ DOMAIN lines = {1, 2} /\ lines[1].account = a /\ lines[1].net = sign * x
      /\ lines[2].account = control
  BY <1>5 DEF Line
<1>7. \A c \in Controls : TypeOf[c] # "BANK"
  BY CashAssumption
<1>8. TypeOf[a] = "BANK" /\ a \notin Controls
  BY <1>2, <1>4, <1>6, <1>7 DEF Touches, OfType
<1>9. ControlOf(cashbook[p]) = control
  <2>1. PICK j : j = cashbook[p]
    OBVIOUS
  <2>2. Touches(j, {control}) /\ \A d \in Controls : Touches(j, {d}) => d = control
    BY <1>4, <1>6, <1>8, <2>1 DEF Touches
  <2>3. ControlOf(j) = control
    BY <1>2, <2>2, ControlFacts
  <2>. QED BY <2>1, <2>3
<1>10. CashMoves(cashbook)[p] = sign * x
  <2>1. PICK f : f = BankNets(lines)
    OBVIOUS
  <2>2. f[1] = sign * x /\ f[2] = 0
    BY <1>2, <1>6, <1>7, <1>8, <2>1 DEF BankNets
  <2>3. sign * x \in Int
    BY <1>2
  <2>4. IsFiniteSet({1, 2})
    <3>1. IsFiniteSet({1}) /\ {1, 2} = {1} \cup {2}
      BY FS_Singleton
    <3>. QED BY <3>1, FS_AddElement
  <2>5. SumUp({1, 2}, f) = f[1]
    BY <2>2, <2>3, <2>4, SumAtOne
  <2>. QED BY <1>4, <1>6, <2>1, <2>2, <2>5 DEF CashMoves
<1>11. \A n \in DOMAIN cashbook[p].lines : ~Direct(p, n)
  BY <1>4, <1>6, <1>8, <1>9 DEF Direct
<1>. QED BY <1>1, <1>9, <1>10, <1>11

\* Tables put one below the other.
RowsOf(A, c) == {row \in DOMAIN A : A[row].control = c}

OneBelowAnother(A, tables) ==
  /\ IsFiniteSet(DOMAIN tables) /\ \A t \in DOMAIN tables : Attributions(tables[t])
  /\ DOMAIN A = UNION {{t} \X DOMAIN tables[t] : t \in DOMAIN tables}
  /\ \A row \in DOMAIN A : A[row] = tables[row[1]][row[2]]

LEMMA TogetherFacts ==
  ASSUME NEW A, NEW tables, OneBelowAnother(A, tables)
  PROVE  /\ Attributions(A)
         /\ \A row \in DOMAIN A :
              /\ row[1] \in DOMAIN tables /\ row[2] \in DOMAIN tables[row[1]] /\ row = <<row[1], row[2]>>
              /\ A[row] = tables[row[1]][row[2]]
         /\ \A t \in DOMAIN tables : \A row \in DOMAIN tables[t] : <<t, row>> \in DOMAIN A
<1>1. IsFiniteSet(DOMAIN tables) /\ \A t \in DOMAIN tables : IsFiniteSet(DOMAIN tables[t])
  BY DEF OneBelowAnother, Attributions
<1>2. PICK rows : rows = UNION {{t} \X DOMAIN tables[t] : t \in DOMAIN tables}
  OBVIOUS
<1>3. /\ IsFiniteSet(rows)
      /\ \A row \in rows : row[1] \in DOMAIN tables /\ row[2] \in DOMAIN tables[row[1]] /\ row = <<row[1], row[2]>>
      /\ \A t \in DOMAIN tables : \A row \in DOMAIN tables[t] : <<t, row>> \in rows
  BY <1>1, <1>2, PerLineRows
<1>4. /\ DOMAIN A = rows /\ \A t \in DOMAIN tables : Attributions(tables[t])
      /\ \A row \in DOMAIN A : A[row] = tables[row[1]][row[2]]
  BY <1>2 DEF OneBelowAnother
<1>5. Attributions(A)
  <2>1. ASSUME NEW row \in DOMAIN A
        PROVE  /\ A[row].account \in ChartAccounts /\ A[row].control \in Controls \cup {NoControl}
               /\ A[row].amount \in Int /\ A[row].tax \in Int
    <3>1. A[row] = tables[row[1]][row[2]] /\ row[1] \in DOMAIN tables /\ row[2] \in DOMAIN tables[row[1]]
      BY <1>3, <1>4
    <3>. QED BY <1>4, <3>1 DEF Attributions
  <2>. QED BY <1>3, <1>4, <2>1 DEF Attributions
<1>. QED BY <1>3, <1>4, <1>5

LEMMA OnlyTable ==
  ASSUME NEW A, NEW tables, OneBelowAnother(A, tables), NEW t \in DOMAIN tables, NEW c,
         \A u \in DOMAIN tables \ {t} : RowsOf(tables[u], c) = {}
  PROVE  SumUp(RowsOf(A, c), CashIn(A)) = SumUp(RowsOf(tables[t], c), CashIn(tables[t]))
<1>. DEFINE B == tables[t]
            S == RowsOf(A, c)
            T == RowsOf(B, c)
            f == CashIn(A)
            g == CashIn(B)
            h == [row \in S |-> row[2]]
<1>1. Attributions(A) /\ Attributions(B)
  BY TogetherFacts DEF OneBelowAnother
<1>2. \A row \in DOMAIN A :
              /\ row[1] \in DOMAIN tables /\ row[2] \in DOMAIN tables[row[1]] /\ row = <<row[1], row[2]>>
              /\ A[row] = tables[row[1]][row[2]]
  BY TogetherFacts
<1>3. \A row \in DOMAIN B : <<t, row>> \in DOMAIN A
  BY TogetherFacts
<1>4. IsFiniteSet(S) /\ IsFiniteSet(T)
  BY <1>1, FS_Subset DEF Attributions, RowsOf
<1>5. ASSUME NEW row \in S
      PROVE  /\ row = <<t, row[2]>> /\ row[2] \in T /\ f[row] \in Int /\ f[row] = g[row[2]]
  <2>1. row \in DOMAIN A /\ A[row].control = c
    BY DEF RowsOf
  <2>2. row[1] = t
    <3>1. row[2] \in RowsOf(tables[row[1]], c)
      BY <1>2, <2>1 DEF RowsOf
    <3>. QED BY <1>2, <2>1, <3>1
  <2>3. row[2] \in DOMAIN B /\ A[row] = B[row[2]] /\ row = <<t, row[2]>>
    BY <1>2, <2>1, <2>2
  <2>. HIDE DEF B
  <2>. QED BY <1>1, <2>1, <2>3 DEF CashIn, RowsOf, Attributions
<1>6. ASSUME NEW row \in T PROVE <<t, row>> \in S
  <2>1. row \in DOMAIN B /\ B[row].control = c
    BY DEF RowsOf
  <2>2. <<t, row>> \in DOMAIN A /\ <<t, row>>[1] = t /\ <<t, row>>[2] = row
    BY <1>3, <2>1
  <2>3. A[<<t, row>>] = B[row]
    BY <1>2, <2>2
  <2>. QED BY <2>1, <2>2, <2>3 DEF RowsOf
<1>7. \A row \in S : h[row] = row[2]
  OBVIOUS
<1>. HIDE DEF B, S, T, f, g, h
<1>8. \A y \in T : \E x \in S : h[x] = y
  <2>1. ASSUME NEW y \in T PROVE h[<<t, y>>] = y
    BY <1>6, <1>7
  <2>. QED BY <1>6, <2>1
<1>9. \A x, y \in S : h[x] = h[y] => x = y
  BY <1>5, <1>7
<1>10. Renames(S, f, h, T, g)
  BY <1>4, <1>5, <1>7, <1>8, <1>9 DEF Renames
<1>11. SumUp(S, f) = SumUp(T, g)
  BY <1>10, SumRenamed
<1>. QED BY <1>11 DEF B, S, T, f, g

LEMMA AllTogether ==
  ASSUME CashTables, NEW paid \in SUBSET DOMAIN payments, NEW bank \in SUBSET DOMAIN cashbook
  PROVE  OneBelowAnother(AllAttr(paid, bank),
                         <<DocumentAttr(paid), NoteAttr(paid), ClaimAttr(bank), DirectAttr(bank)>>)
<1>1. /\ Attributions(DocumentAttr(paid)) /\ Attributions(NoteAttr(paid))
      /\ Attributions(ClaimAttr(bank)) /\ Attributions(DirectAttr(bank))
  BY DocumentRows, NoteRows, ClaimRows, DirectRows
<1>. DEFINE tables == <<DocumentAttr(paid), NoteAttr(paid), ClaimAttr(bank), DirectAttr(bank)>>
            A == AllAttr(paid, bank)
<1>3. /\ DOMAIN tables = 1..4 /\ tables[1] = DocumentAttr(paid) /\ tables[2] = NoteAttr(paid)
      /\ tables[3] = ClaimAttr(bank) /\ tables[4] = DirectAttr(bank)
  OBVIOUS
<1>4. IsFiniteSet(DOMAIN tables) /\ \A t \in DOMAIN tables : Attributions(tables[t])
  <2>. HIDE DEF tables
  <2>1. \A t \in DOMAIN tables : t = 1 \/ t = 2 \/ t = 3 \/ t = 4
    BY <1>3
  <2>2. IsFiniteSet(1..4)
    <3>1. PICK a \in Int, b \in Int : a = 1 /\ b = 4
      OBVIOUS
    <3>2. IsFiniteSet(a..b)
      BY FS_Interval
    <3>. QED BY <3>1, <3>2
  <2>3. \A t \in DOMAIN tables : Attributions(tables[t])
    BY <1>1, <1>3, <2>1
  <2>. QED BY <1>3, <2>2, <2>3
<1>5. A = [row \in PerLine(DOMAIN tables, LAMBDA t : tables[t]) |-> tables[row[1]][row[2]]]
  BY DEF AllAttr
<1>. HIDE DEF tables, A
<1>6. PerLine(DOMAIN tables, LAMBDA t : tables[t]) = UNION {{t} \X DOMAIN tables[t] : t \in DOMAIN tables}
  BY DEF PerLine
<1>7. OneBelowAnother(A, tables)
  BY <1>4, <1>5, <1>6 DEF OneBelowAnother
<1>. QED BY <1>7 DEF A, tables

(***************************************************************************)
(* The report.                                                             *)
(***************************************************************************)
Used(bank, c) == {k \in bank : ControlOf(cashbook[k]) = c}

LEMMA BankFacts ==
  ASSUME CashTables, NEW from, NEW to, NEW bank, bank = BankJournals(cashbook, from, to)
  PROVE  /\ bank \in SUBSET DOMAIN cashbook /\ IsFiniteSet(bank)
         /\ \A k \in bank : /\ Touches(cashbook[k], OfType({"BANK"}))
                            /\ ControlOf(cashbook[k]) \in Controls \cup {NoControl}
                            /\ CashMoves(cashbook)[k] \in Int
<1>1. bank \in SUBSET DOMAIN cashbook /\ \A k \in bank : Touches(cashbook[k], OfType({"BANK"}))
  BY DEF BankJournals
<1>2. Ledger(cashbook)
  BY DEF CashTables
<1>3. IsFiniteSet(bank)
  <2>1. IsFiniteSet(DOMAIN cashbook)
    BY <1>2 DEF Ledger
  <2>. QED BY <1>1, <2>1, FS_Subset
<1>4. \A k \in bank : CashMoves(cashbook)[k] \in Int
  BY <1>1, <1>2, CashMovesAreIntegers
<1>. QED BY <1>1, <1>3, <1>4, ControlFacts

LEMMA WhatIsReported ==
  ASSUME CashTables, NEW from, NEW to, NEW bank, bank = BankJournals(cashbook, from, to)
  PROVE  LET cash == CashOf(from, to)
             A == AllAttr(PaidWithin(from, to), bank)
         IN  /\ cash.categories = A
             /\ DOMAIN cash.unattributed = Controls
             /\ \A c \in Controls :
                  cash.unattributed[c] = IF Used(bank, c) = {} THEN 0
                                         ELSE SumUp(Used(bank, c), CashMoves(cashbook))
                                              - SumUp(RowsOf(A, c), CashIn(A))
             /\ cash.noteTax \in Int
             /\ cash.opening = BankSummary(cashbook, from, to).opening
             /\ cash.closing = BankSummary(cashbook, from, to).closing
<1>. DEFINE cash == CashOf(from, to)
            A == AllAttr(PaidWithin(from, to), bank)
            moved == [k \in bank |-> CashMoved(cashbook[k])]
            taxes == [x \in allocations |-> SumOf(CashNotes[x.note].lines, LAMBDA l : l.tax)]
<1>1. \A c : SumUp(Used(bank, c), moved) = SumUp(Used(bank, c), CashMoves(cashbook))
  <2>1. ASSUME NEW c PROVE SumUp(Used(bank, c), moved) = SumUp(Used(bank, c), CashMoves(cashbook))
    <3>1. bank \in SUBSET DOMAIN cashbook /\ IsFiniteSet(bank)
      BY BankFacts
    <3>2. IsFiniteSet(Used(bank, c)) /\ \A k \in Used(bank, c) : k \in bank
      BY <3>1, FS_Subset DEF Used
    <3>3. \A k \in Used(bank, c) : moved[k] = CashMoves(cashbook)[k]
      BY <3>1, <3>2, CashMovedIsSum
    <3>. HIDE DEF moved
    <3>. QED BY <3>2, <3>3, SumSame
  <2>. QED BY <2>1
<1>2. cash.noteTax = SumUp(allocations, taxes)
  BY TotalIsSum DEF CashOf
<1>3. ASSUME NEW x \in allocations PROVE taxes[x] \in Int
  <2>1. PICK doc : doc = CashNotes[x.note]
    OBVIOUS
  <2>2. doc \in Document
    BY <2>1, CashAssumption DEF CashTables
  <2>3. PICK f : f = [n \in DOMAIN doc.lines |-> doc.lines[n].tax]
    OBVIOUS
  <2>4. taxes[x] = SumUp(DOMAIN doc.lines, f)
    BY <2>1, <2>3, TotalIsSum DEF SumOf
  <2>5. IsFiniteSet(DOMAIN doc.lines) /\ \A n \in DOMAIN doc.lines : f[n] \in Int
    BY <2>2, <2>3, DocumentFacts
  <2>. QED BY <2>4, <2>5, SumIsInt
<1>4. cash.noteTax \in Int
  <2>. HIDE DEF taxes, cash
  <2>1. IsFiniteSet(allocations)
    BY DEF CashTables
  <2>. QED BY <1>2, <1>3, <2>1, SumIsInt
<1>5. /\ cash.categories = A /\ DOMAIN cash.unattributed = Controls
      /\ cash.opening = BankSummary(cashbook, from, to).opening
      /\ cash.closing = BankSummary(cashbook, from, to).closing
  BY DEF CashOf
<1>6. ASSUME NEW c \in Controls
      PROVE  cash.unattributed[c] = IF Used(bank, c) = {} THEN 0
                                    ELSE SumUp(Used(bank, c), moved) - SumUp(RowsOf(A, c), CashIn(A))
  <2>1. cash.unattributed[c]
        = IF Used(bank, c) = {} THEN 0
          ELSE Total(Used(bank, c), moved)
               - Total(RowsOf(A, c), CashIn(A))
    BY DEF CashOf, Used, RowsOf, CashIn
  <2>. HIDE DEF moved, A, cash
  <2>. QED BY <2>1, TotalIsSum
<1>. HIDE DEF moved, A, cash
<1>7. \A c \in Controls :
        cash.unattributed[c] = IF Used(bank, c) = {} THEN 0
                               ELSE SumUp(Used(bank, c), CashMoves(cashbook)) - SumUp(RowsOf(A, c), CashIn(A))
  BY <1>1, <1>6
<1>. QED BY <1>4, <1>5, <1>7 DEF cash, A

\* Cash that is attributed to a control has a bank journal of that control.
LEMMA AttributedToUsed ==
  ASSUME CashTables, PaymentJournals, NEW from, NEW to, NEW bank, bank = BankJournals(cashbook, from, to),
         NEW paid, paid = PaidWithin(from, to), paid \subseteq bank
  PROVE  /\ \A row \in DOMAIN AllAttr(paid, bank) :
              AllAttr(paid, bank)[row].control \in Controls
              => \E k \in bank : ControlOf(cashbook[k]) = AllAttr(paid, bank)[row].control
         /\ SumUp(RowsOf(AllAttr(paid, bank), NoControl), CashIn(AllAttr(paid, bank)))
            = SumUp(RowsOf(DirectAttr(bank), NoControl), CashIn(DirectAttr(bank)))
<1>. DEFINE tables == <<DocumentAttr(paid), NoteAttr(paid), ClaimAttr(bank), DirectAttr(bank)>>
            A == AllAttr(paid, bank)
<1>1. paid \in SUBSET DOMAIN payments /\ bank \in SUBSET DOMAIN cashbook
  BY BankFacts DEF PaidWithin
<1>2. OneBelowAnother(A, tables)
  BY <1>1, AllTogether
<1>3. /\ DOMAIN tables = {1, 2, 3, 4} /\ tables[1] = DocumentAttr(paid) /\ tables[2] = NoteAttr(paid)
      /\ tables[3] = ClaimAttr(bank) /\ tables[4] = DirectAttr(bank)
  OBVIOUS
<1>. HIDE DEF tables, A
<1>4. ASSUME NEW p \in paid
      PROVE  /\ SettledControl(payments[p].invoice) \in Controls
             /\ ControlOf(cashbook[p]) = SettledControl(payments[p].invoice)
  <2>1. p \in DOMAIN payments /\ p \in DOMAIN cashbook /\ Touches(cashbook[p], OfType({"BANK"}))
    BY <1>1, BankFacts
  <2>2. payments[p].invoice \in DOMAIN CashDocuments
    BY <2>1 DEF CashTables
  <2>. QED BY <2>1, <2>2, PaymentFacts, SettledFacts
<1>5. ASSUME NEW row \in DOMAIN DocumentAttr(paid)
      PROVE  \E k \in bank : /\ ControlOf(cashbook[k]) = DocumentAttr(paid)[row].control
                             /\ DocumentAttr(paid)[row].control \in Controls
  <2>1. row[1] \in paid /\ DocumentAttr(paid)[row].control = SettledControl(payments[row[1]].invoice)
    BY <1>1, DocumentRows
  <2>. QED BY <1>4, <2>1
<1>6. ASSUME NEW row \in DOMAIN NoteAttr(paid)
      PROVE  \E k \in bank : /\ ControlOf(cashbook[k]) = NoteAttr(paid)[row].control
                             /\ NoteAttr(paid)[row].control \in Controls
  <2>1. PICK p \in paid : NoteAttr(paid)[row].control = SettledControl(payments[p].invoice)
    BY <1>1, NoteRows
  <2>. QED BY <1>4, <2>1
<1>7. ASSUME NEW row \in DOMAIN ClaimAttr(bank)
      PROVE  \E k \in bank : /\ ControlOf(cashbook[k]) = ClaimAttr(bank)[row].control
                             /\ ClaimAttr(bank)[row].control \in Controls
  BY <1>1, ClaimRows DEF Controls
<1>8. ASSUME NEW row \in DOMAIN DirectAttr(bank)
      PROVE  \E k \in bank : ControlOf(cashbook[k]) = DirectAttr(bank)[row].control
  BY <1>1, DirectRows
<1>9. \A row \in DOMAIN A : \E k \in bank : ControlOf(cashbook[k]) = A[row].control
  <2>1. \A row \in DOMAIN A :
              row[1] \in DOMAIN tables /\ row[2] \in DOMAIN tables[row[1]] /\ A[row] = tables[row[1]][row[2]]
    BY <1>2, TogetherFacts
  <2>. QED BY <1>3, <1>5, <1>6, <1>7, <1>8, <2>1
<1>10. \A u \in DOMAIN tables \ {4} : RowsOf(tables[u], NoControl) = {}
  <2>1. RowsOf(DocumentAttr(paid), NoControl) = {}
    BY <1>5, ControlsAreFinite DEF RowsOf
  <2>2. RowsOf(NoteAttr(paid), NoControl) = {}
    BY <1>6, ControlsAreFinite DEF RowsOf
  <2>3. RowsOf(ClaimAttr(bank), NoControl) = {}
    BY <1>7, ControlsAreFinite DEF RowsOf
  <2>. QED BY <1>3, <2>1, <2>2, <2>3
<1>11. SumUp(RowsOf(A, NoControl), CashIn(A)) = SumUp(RowsOf(tables[4], NoControl), CashIn(tables[4]))
  <2>1. 4 \in DOMAIN tables
    BY <1>3
  <2>. QED BY <1>2, <1>10, <2>1, OnlyTable
<1>. QED BY <1>3, <1>9, <1>11 DEF A

LEMMA MovementFoots ==
  ASSUME CashTables, PaymentJournals, NEW w, IsWindow(w)
  PROVE  CashMovementFoots(w)
<1>. DEFINE cash == CashOf(w.from, w.to)
            bank == BankJournals(cashbook, w.from, w.to)
            paid == PaidWithin(w.from, w.to)
            A == AllAttr(paid, bank)
            f == CashIn(A)
            of == [row \in DOMAIN A |-> A[row].control]
            g == CashMoves(cashbook)
            by == [k \in bank |-> ControlOf(cashbook[k])]
            left == cash.unattributed
<1>. SUFFICES ASSUME PaymentsMoved(w),
                     \A k \in bank : ControlOf(cashbook[k]) = NoControl => TaxRecorded(cashbook[k])
              PROVE  RenderCash(cash).movement = cash.closing - cash.opening
  BY DEF CashMovementFoots
<1>1. /\ bank \in SUBSET DOMAIN cashbook /\ IsFiniteSet(bank)
      /\ \A k \in bank : g[k] \in Int /\ by[k] \in Controls \cup {NoControl}
  <2>. HIDE DEF bank, g
  <2>1. bank \in SUBSET DOMAIN cashbook /\ IsFiniteSet(bank)
    BY BankFacts DEF bank
  <2>2. \A k \in bank : ControlOf(cashbook[k]) \in Controls \cup {NoControl} /\ g[k] \in Int
    BY BankFacts DEF bank, g
  <2>. QED BY <2>1, <2>2
<1>2. paid \subseteq bank /\ paid \in SUBSET DOMAIN payments
  BY DEF PaymentsMoved, PaidWithin
<1>3. Attributions(A)
  <2>. HIDE DEF bank, paid
  <2>1. OneBelowAnother(AllAttr(paid, bank), <<DocumentAttr(paid), NoteAttr(paid), ClaimAttr(bank), DirectAttr(bank)>>)
    BY <1>1, <1>2, AllTogether
  <2>. QED BY <2>1, TogetherFacts
<1>4. /\ cash.categories = A /\ DOMAIN left = Controls
      /\ \A c \in Controls : left[c] = IF Used(bank, c) = {} THEN 0
                                       ELSE SumUp(Used(bank, c), g) - SumUp(RowsOf(A, c), f)
      /\ cash.noteTax \in Int
      /\ cash.opening = BankSummary(cashbook, w.from, w.to).opening
      /\ cash.closing = BankSummary(cashbook, w.from, w.to).closing
  <2>. HIDE DEF A, bank, paid, g, f, cash
  <2>. QED BY WhatIsReported DEF A, bank, paid, g, f, cash
<1>5. /\ \A row \in DOMAIN A : A[row].control \in Controls => \E k \in bank : ControlOf(cashbook[k]) = A[row].control
      /\ SumUp(RowsOf(A, NoControl), f) = SumUp(RowsOf(DirectAttr(bank), NoControl), CashIn(DirectAttr(bank)))
  <2>. HIDE DEF bank, paid
  <2>. QED BY <1>2, AttributedToUsed DEF bank, paid
<1>6. SumUp(RowsOf(DirectAttr(bank), NoControl), CashIn(DirectAttr(bank))) = SumUp(Used(bank, NoControl), g)
  <2>. HIDE DEF bank
  <2>. QED BY <1>1, DirectBalances DEF RowsOf, Used
<1>7. /\ \A c : RowsOf(A, c) = {row \in DOMAIN A : of[row] = c}
      /\ \A c : Used(bank, c) = {k \in bank : by[k] = c}
      /\ \A row \in DOMAIN A : of[row] = A[row].control
      /\ \A k \in bank : by[k] = ControlOf(cashbook[k])
  <2>. HIDE DEF A, bank
  <2>. QED BY DEF RowsOf, Used
<1>8. \A row \in DOMAIN A : f[row] \in Int /\ of[row] \in Controls \cup {NoControl}
  <2>. HIDE DEF A, of
  <2>. QED BY <1>3, <1>7 DEF CashIn, Attributions
<1>. HIDE DEF cash, bank, paid, A, f, of, g, by, left
<1>9. Settles(DOMAIN A, f, of, bank, g, by, Controls, NoControl, left)
  <2>1. \A row \in DOMAIN A : of[row] \in Controls => \E k \in bank : by[k] = of[row]
    BY <1>5, <1>7
  <2>2. SumUp({row \in DOMAIN A : of[row] = NoControl}, f) = SumUp({k \in bank : by[k] = NoControl}, g)
    BY <1>5, <1>6, <1>7
  <2>3. \A c \in Controls : left[c] = IF {k \in bank : by[k] = c} = {} THEN 0
                                      ELSE SumUp({k \in bank : by[k] = c}, g)
                                           - SumUp({row \in DOMAIN A : of[row] = c}, f)
    BY <1>4, <1>7
  <2>4. IsFiniteSet(DOMAIN A)
    BY <1>3 DEF Attributions
  <2>. QED BY <1>1, <1>8, <2>1, <2>2, <2>3, <2>4, ControlsAreFinite DEF Settles
<1>10. /\ SumUp(DOMAIN A, f) + SumUp(Controls, left) = SumUp(bank, g)
       /\ \A c \in Controls : left[c] \in Int
  BY <1>9, ResidualsSettle
<1>11. RenderCash(cash).movement = SumUp(DOMAIN A, f) + SumUp(Controls, left)
  <2>1. RenderCash(cash).movement
         = SumUp(DOMAIN cash.categories, CashIn(cash.categories)) + SumUp(Controls, cash.unattributed)
    BY <1>3, <1>4, <1>10, RenderMoves DEF left
  <2>. QED BY <1>4, <2>1 DEF f, left
<1>12. SumUp(bank, g) = SumUp(Within(cashbook, w.from, w.to), g)
  <2>. DEFINE S == Within(cashbook, w.from, w.to)
  <2>1. Ledger(cashbook)
    BY DEF CashTables
  <2>2. IsFiniteSet(S) /\ S \subseteq DOMAIN cashbook
    BY <2>1, FS_Subset DEF Within, Ledger
  <2>3. bank \in SUBSET S /\ \A k \in S \ bank : ~Touches(cashbook[k], OfType({"BANK"}))
    BY DEF bank, BankJournals, Within
  <2>4. ASSUME NEW k \in S \ bank PROVE g[k] = 0
    <3>1. PICK lines : lines = cashbook[k].lines
      OBVIOUS
    <3>2. k \in DOMAIN cashbook
      BY <2>2
    <3>3. IsFiniteSet(DOMAIN lines) /\ \A n \in DOMAIN lines : lines[n].account \in ChartAccounts
      BY <3>1, <3>2, CashbookFacts
    <3>4. PICK b : b = BankNets(lines)
      OBVIOUS
    <3>5. \A n \in DOMAIN lines : b[n] = 0
      BY <2>3, <3>1, <3>3, <3>4 DEF BankNets, Touches, OfType
    <3>6. SumUp(DOMAIN lines, b) = 0
      BY <3>3, <3>5, SumOfZeros
    <3>. QED BY <3>1, <3>2, <3>4, <3>6 DEF g, CashMoves
  <2>5. \A k \in S : g[k] \in Int
    BY <2>1, <2>2, CashMovesAreIntegers DEF g
  <2>. HIDE DEF S
  <2>6. SumUp(S, g) = SumUp(bank, g)
    BY <2>2, <2>3, <2>4, <2>5, SumWithin
  <2>. QED BY <2>6 DEF S
<1>13. cash.closing - cash.opening = SumUp(Within(cashbook, w.from, w.to), g)
  <2>1. Ledger(cashbook)
    BY DEF CashTables
  <2>2. PICK b : b = BankSummary(cashbook, w.from, w.to)
    OBVIOUS
  <2>3. b.closing - b.opening = SumUp(Within(cashbook, w.from, w.to), CashMoves(cashbook))
    BY <2>1, <2>2, BankMoves
  <2>. QED BY <1>4, <2>2, <2>3 DEF g
<1>. QED BY <1>10, <1>11, <1>12, <1>13

LEMMA SettledInFull ==
  ASSUME CashTables, NEW paid \in SUBSET DOMAIN payments, NEW p \in paid, allocations = {},
         payments[p].amount = CashDocuments[payments[p].invoice].total
  PROVE  SumUp({row \in DOMAIN DocumentAttr(paid) : row[1] = p}, CashIn(DocumentAttr(paid)))
         = PaymentSign(payments[p].invoice) * payments[p].amount
<1>1. PICK i, doc, sign : i = payments[p].invoice /\ doc = CashDocuments[i] /\ sign = PaymentSign(i)
  OBVIOUS
<1>2. i \in DOMAIN CashDocuments
  BY <1>1 DEF CashTables
<1>3. doc \in Document /\ sign \in {-1, 1}
  BY <1>1, <1>2, SettledFacts
<1>4. doc = DocumentOf(p) /\ payments[p].amount = doc.total
  BY <1>1 DEF DocumentOf
<1>5. /\ IsFiniteSet(DOMAIN doc.lines) /\ doc.total \in Nat \ {0}
      /\ \A n \in DOMAIN doc.lines : LineNet(doc, doc.lines[n]) \in Int /\ doc.lines[n].tax \in Int
  BY <1>3, DocumentFacts
<1>. DEFINE T == DOMAIN doc.lines
            all == [n \in T |-> LineNet(doc, doc.lines[n]) + doc.lines[n].tax]
            cash == [n \in T |-> sign * LineNet(doc, doc.lines[n]) + sign * doc.lines[n].tax]
            D == DocumentAttr(paid)
            f == CashIn(D)
            S == {row \in DOMAIN D : row[1] = p}
            h == [row \in S |-> row[2]]
<1>6. SumUp(T, all) = doc.total
  <2>1. Totalled(doc)
    BY <1>1, <1>2, CashAssumption
  <2>. QED BY <2>1, TotalIsSum DEF Totalled, SumOf
<1>7. Explained(p) = doc.total
  <2>1. AllocatedTo(i) = 0
    <3>1. {x \in allocations : x.invoice = i} = {}
      OBVIOUS
    <3>. QED BY <3>1, TotalIsSum, SumOfNone DEF AllocatedTo
  <2>. QED BY <1>1, <1>4, <1>5, <2>1 DEF Explained
<1>8. \A n \in T : all[n] \in Int /\ cash[n] \in Int
  <2>1. ASSUME NEW n \in T PROVE all[n] \in Int /\ cash[n] \in Int
    <3>1. PICK a \in Int, b \in Int : a = LineNet(doc, doc.lines[n]) /\ b = doc.lines[n].tax
      BY <1>5
    <3>2. sign * a \in Int /\ sign * b \in Int
      BY <1>3
    <3>. QED BY <3>1, <3>2
  <2>. QED BY <2>1
<1>9. SumUp(T, cash) = sign * doc.total
  <2>1. CASE sign = 1
    <3>1. \A n \in T : cash[n] = all[n]
      BY <1>5, <2>1
    <3>. HIDE DEF T, cash, all
    <3>2. SumUp(T, cash) = SumUp(T, all)
      BY <1>5, <3>1, SumSame DEF T
    <3>. QED BY <1>5, <1>6, <2>1, <3>2
  <2>2. CASE sign = -1
    <3>1. \A n \in T : cash[n] = -all[n]
      BY <1>5, <2>2
    <3>. HIDE DEF T, cash, all
    <3>2. SumUp(T, cash) = -SumUp(T, all)
      BY <1>5, <1>8, <3>1, SumNegates DEF T
    <3>. QED BY <1>5, <1>6, <2>2, <3>2
  <2>. QED BY <1>3, <2>1, <2>2
<1>10. /\ Attributions(D)
       /\ \A row \in DOMAIN D :
            /\ row[2] \in DOMAIN DocumentOf(row[1]).lines /\ row = <<row[1], row[2]>>
            /\ Explained(row[1]) = DocumentOf(row[1]).total =>
                 LET s == PaymentSign(payments[row[1]].invoice)
                     line == DocumentOf(row[1]).lines[row[2]]
                 IN  D[row].amount = s * LineNet(DocumentOf(row[1]), line) /\ D[row].tax = s * line.tax
       /\ \A n \in DOMAIN DocumentOf(p).lines : <<p, n>> \in DOMAIN D
  BY DocumentRows
<1>11. ASSUME NEW row \in S
       PROVE  row = <<p, row[2]>> /\ row[2] \in T /\ f[row] = cash[row[2]] /\ h[row] = row[2]
  <2>1. row \in DOMAIN D /\ row[1] = p
    OBVIOUS
  <2>2. h[row] = row[2]
    OBVIOUS
  <2>. HIDE DEF D, cash, S, h
  <2>3. row = <<p, row[2]>> /\ row[2] \in T
    BY <1>4, <1>10, <2>1
  <2>4. /\ D[row].amount = sign * LineNet(doc, doc.lines[row[2]])
        /\ D[row].tax = sign * doc.lines[row[2]].tax
    BY <1>1, <1>4, <1>7, <1>10, <2>1
  <2>5. f[row] = D[row].amount + D[row].tax
    BY <2>1 DEF CashIn
  <2>. QED BY <2>2, <2>3, <2>4, <2>5 DEF cash
<1>12. ASSUME NEW n \in T PROVE \E row \in S : h[row] = n
  <2>1. <<p, n>> \in DOMAIN D
    BY <1>4, <1>10
  <2>2. <<p, n>> \in S /\ h[<<p, n>>] = n
    BY <2>1
  <2>. QED BY <2>2
<1>13. SumUp(S, f) = SumUp(T, cash)
  <2>1. IsFiniteSet(S)
    BY <1>10, FS_Subset DEF Attributions
  <2>. HIDE DEF D, cash, f, S, h, T
  <2>2. \A x, y \in S : h[x] = h[y] => x = y
    BY <1>11
  <2>3. Renames(S, f, h, T, cash)
    BY <1>5, <1>8, <1>11, <1>12, <2>1, <2>2 DEF Renames, T
  <2>. QED BY <2>3, SumRenamed
<1>. HIDE DEF S, f, cash, T
<1>. QED BY <1>1, <1>4, <1>9, <1>13 DEF S, f

LEMMA NothingIsLeft ==
  ASSUME CashTables, PaymentJournals, NEW w
  PROVE  CashIsExplained(w)
<1>. DEFINE bank == BankJournals(cashbook, w.from, w.to)
            paid == PaidWithin(w.from, w.to)
            controlled == {k \in bank : ControlOf(cashbook[k]) # NoControl}
            cash == CashOf(w.from, w.to)
            A == AllAttr(paid, bank)
            D == DocumentAttr(paid)
            f == CashIn(D)
            g == CashMoves(cashbook)
            tables == <<DocumentAttr(paid), NoteAttr(paid), ClaimAttr(bank), DirectAttr(bank)>>
<1>. SUFFICES ASSUME controlled = paid, allocations = {},
                     \A p \in paid : payments[p].amount = CashDocuments[payments[p].invoice].total,
                     NEW c \in DOMAIN cash.unattributed
              PROVE  cash.unattributed[c] = 0
  BY DEF CashIsExplained
<1>1. /\ bank \in SUBSET DOMAIN cashbook /\ IsFiniteSet(bank)
      /\ \A k \in bank : /\ Touches(cashbook[k], OfType({"BANK"}))
                         /\ ControlOf(cashbook[k]) \in Controls \cup {NoControl} /\ g[k] \in Int
  <2>. HIDE DEF bank, g
  <2>1. bank \in SUBSET DOMAIN cashbook /\ IsFiniteSet(bank)
    BY BankFacts DEF bank
  <2>2. \A k \in bank : /\ Touches(cashbook[k], OfType({"BANK"}))
                        /\ ControlOf(cashbook[k]) \in Controls \cup {NoControl} /\ g[k] \in Int
    BY BankFacts DEF bank, g
  <2>. QED BY <2>1, <2>2
<1>2. /\ paid \in SUBSET DOMAIN payments
      /\ \A k : k \in paid <=> k \in bank /\ ControlOf(cashbook[k]) # NoControl
  <2>1. paid \in SUBSET DOMAIN payments
    BY DEF PaidWithin
  <2>2. \A k : k \in controlled <=> k \in bank /\ ControlOf(cashbook[k]) # NoControl
    OBVIOUS
  <2>. HIDE DEF controlled, paid, bank
  <2>. QED BY <2>1, <2>2
<1>3. /\ DOMAIN cash.unattributed = Controls
      /\ cash.unattributed[c] = IF Used(bank, c) = {} THEN 0
                                ELSE SumUp(Used(bank, c), g) - SumUp(RowsOf(A, c), CashIn(A))
  <2>1. DOMAIN cash.unattributed = Controls
    <3>. HIDE DEF A, bank, paid, g, f, cash
    <3>. QED BY WhatIsReported DEF A, bank, paid, g, f, cash
  <2>2. \A d \in Controls :
          cash.unattributed[d] = IF Used(bank, d) = {} THEN 0
                                 ELSE SumUp(Used(bank, d), g) - SumUp(RowsOf(A, d), CashIn(A))
    <3>. HIDE DEF A, bank, paid, g, f, cash
    <3>. QED BY WhatIsReported DEF A, bank, paid, g, f, cash
  <2>. HIDE DEF A, bank, paid, g, cash
  <2>. QED BY <2>1, <2>2
<1>4. OneBelowAnother(A, tables)
  <2>. HIDE DEF bank, paid
  <2>. QED BY <1>1, <1>2, AllTogether
<1>5. /\ DOMAIN tables = {1, 2, 3, 4} /\ tables[1] = D /\ tables[2] = NoteAttr(paid)
      /\ tables[3] = ClaimAttr(bank) /\ tables[4] = DirectAttr(bank)
  OBVIOUS
<1>. HIDE DEF bank, paid, controlled, cash, A, D, f, g, tables
<1>6. c \in Controls /\ c # NoControl
  BY <1>3, ControlsAreFinite
<1>7. ASSUME NEW p \in paid
      PROVE  /\ p \in bank /\ p \in DOMAIN payments
             /\ ControlOf(cashbook[p]) = SettledControl(payments[p].invoice)
             /\ ControlOf(cashbook[p]) \in {Receivable, Payable}
             /\ g[p] = PaymentSign(payments[p].invoice) * payments[p].amount
             /\ \A n \in DOMAIN cashbook[p].lines : ~Direct(p, n)
  <2>1. p \in DOMAIN payments /\ p \in bank /\ p \in DOMAIN cashbook /\ Touches(cashbook[p], OfType({"BANK"}))
    BY <1>1, <1>2
  <2>2. payments[p].invoice \in DOMAIN CashDocuments
    BY <2>1 DEF CashTables
  <2>3. /\ ControlOf(cashbook[p]) = SettledControl(payments[p].invoice)
        /\ g[p] = PaymentSign(payments[p].invoice) * payments[p].amount
        /\ \A n \in DOMAIN cashbook[p].lines : ~Direct(p, n)
    BY <2>1, PaymentFacts DEF g
  <2>. QED BY <2>1, <2>2, <2>3, SettledFacts
<1>8. RowsOf(NoteAttr(paid), c) = {}
  BY <1>2, NoteRows DEF RowsOf
<1>9. RowsOf(ClaimAttr(bank), c) = {}
  <2>1. ASSUME NEW row \in DOMAIN ClaimAttr(bank) PROVE FALSE
    <3>1. PICK k \in bank : ControlOf(cashbook[k]) = ClaimsControl
      BY <1>1, ClaimRows
    <3>2. k \in paid
      BY <1>2, <3>1, ControlsAreFinite DEF Controls
    <3>. QED BY <1>7, <3>1, <3>2, CashAssumption
  <2>. QED BY <2>1 DEF RowsOf
<1>10. RowsOf(DirectAttr(bank), c) = {}
  <2>1. ASSUME NEW row \in DOMAIN DirectAttr(bank), DirectAttr(bank)[row].control = c PROVE FALSE
    <3>1. /\ row[1] \in bank /\ row[2] \in DOMAIN cashbook[row[1]].lines /\ Direct(row[1], row[2])
          /\ ControlOf(cashbook[row[1]]) = c
      BY <1>1, <2>1, DirectRows
    <3>2. row[1] \in paid
      BY <1>2, <1>6, <3>1
    <3>. QED BY <1>7, <3>1, <3>2
  <2>. QED BY <2>1 DEF RowsOf
<1>11. SumUp(RowsOf(A, c), CashIn(A)) = SumUp(RowsOf(D, c), f)
  <2>1. 1 \in DOMAIN tables /\ \A u \in DOMAIN tables \ {1} : RowsOf(tables[u], c) = {}
    BY <1>5, <1>8, <1>9, <1>10
  <2>. QED BY <1>4, <1>5, <2>1, OnlyTable DEF f
<1>12. SumUp(Used(bank, c), g) = SumUp(RowsOf(D, c), f)
  <2>. DEFINE S == RowsOf(D, c)
              P == Used(bank, c)
              Q == [p \in P |-> {row \in DOMAIN D : row[1] = p}]
  <2>1. /\ Attributions(D)
        /\ \A row \in DOMAIN D : /\ row[1] \in paid
                                 /\ D[row].control = SettledControl(payments[row[1]].invoice)
    BY <1>2, DocumentRows DEF D
  <2>2. \A p : p \in P <=> p \in paid /\ ControlOf(cashbook[p]) = c
    BY <1>2, <1>6 DEF Used
  <2>3. IsFiniteSet(S) /\ IsFiniteSet(P)
    BY <1>1, <2>1, FS_Subset DEF Attributions, RowsOf, Used
  <2>4. \A row \in S : f[row] \in Int
    BY <2>1 DEF RowsOf, f, CashIn, Attributions
  <2>5. \A row \in DOMAIN D : row \in S <=> row[1] \in P
    BY <1>7, <2>1, <2>2 DEF RowsOf
  <2>6. /\ \A p \in P : Q[p] = {row \in DOMAIN D : row[1] = p}
        /\ \A row \in S : row \in DOMAIN D
    BY DEF RowsOf
  <2>7. ASSUME NEW p \in P PROVE g[p] = SumUp(Q[p], f)
    <3>1. p \in paid
      BY <2>2
    <3>2. SumUp({row \in DOMAIN D : row[1] = p}, f) = PaymentSign(payments[p].invoice) * payments[p].amount
      BY <1>2, <3>1, SettledInFull DEF D, f
    <3>. QED BY <1>7, <2>6, <3>1, <3>2
  <2>. HIDE DEF S, P, Q
  <2>8. \A p \in P : Q[p] \in SUBSET S
    BY <2>5, <2>6
  <2>9. \A p, q \in P : p # q => Q[p] \cap Q[q] = {}
    BY <2>6
  <2>10. ASSUME NEW row \in S PROVE row[1] \in P /\ row \in Q[row[1]]
    BY <2>5, <2>6
  <2>11. UNION {Q[p] : p \in P} = S
    BY <2>8, <2>10
  <2>12. SumUp(P, g) = SumUp(UNION {Q[p] : p \in P}, f)
    BY <2>3, <2>4, <2>7, <2>8, <2>9, SumOfParts
  <2>. QED BY <2>11, <2>12 DEF S, P
<1>13. SumUp(Used(bank, c), g) \in Int
  <2>1. IsFiniteSet(Used(bank, c)) /\ \A k \in Used(bank, c) : g[k] \in Int
    BY <1>1, FS_Subset DEF Used
  <2>. QED BY <2>1, SumIsInt
<1>. QED BY <1>3, <1>11, <1>12, <1>13

(***************************************************************************)
(* The tables of the cash summary.                                         *)
(***************************************************************************)
LEMMA TransactionIsEntry ==
  ASSUME NEW t \in CashCodings, NEW account \in PaidFrom
  PROVE  TransactionLines(t, account) \in Seq(EntryLine)
<1>1. t \in [sign : {-1, 1}, inclusive : BOOLEAN, lines : Seq(DocLine)] /\ account \in ChartAccounts
      /\ TaxAccount \in ChartAccounts
  BY CashAssumption
<1>2. PICK lines \in Seq(DocLine), sign \in {-1, 1} : lines = t.lines /\ sign = t.sign
  BY <1>1
<1>3. IsFiniteSet(DOMAIN lines)
  BY FS_Interval
<1>4. ASSUME NEW n \in DOMAIN lines
      PROVE  lines[n].account \in ChartAccounts /\ lines[n].tax \in Int /\ LineNet(t, lines[n]) \in Int
  <2>1. lines[n] \in DocLine
    OBVIOUS
  <2>. QED BY <2>1 DEF DocLine, LineNet
<1>5. PICK taxes, nets : /\ taxes = [n \in DOMAIN lines |-> lines[n].tax]
                         /\ nets = [n \in DOMAIN lines |-> LineNet(t, lines[n])]
  OBVIOUS
<1>6. SumUp(DOMAIN lines, taxes) \in Int /\ SumUp(DOMAIN lines, nets) \in Int
  BY <1>3, <1>4, <1>5, SumIsInt
<1>7. PICK tax \in Int : tax = SumOf(t.lines, LAMBDA l : l.tax)
  BY <1>2, <1>5, <1>6, TotalIsSum DEF SumOf
<1>8. PICK total \in Int : total = SumOf(t.lines, LAMBDA l : LineNet(t, l)) + tax
  <2>1. SumOf(t.lines, LAMBDA l : LineNet(t, l)) = Total(DOMAIN lines, nets)
    BY <1>2, <1>5 DEF SumOf
  <2>. DEFINE net == SumOf(t.lines, LAMBDA l : LineNet(t, l))
  <2>2. net \in Int
    BY <1>6, <2>1, TotalIsSum
  <2>. HIDE DEF net
  <2>3. net + tax \in Int
    BY <2>2
  <2>. QED BY <2>3 DEF net
<1>9. \A a \in ChartAccounts, x \in Int, y \in Int : Line(a, x, y) \in EntryLine
  BY DEF Line, EntryLine
<1>10. sign * total \in Int /\ -(sign * tax) \in Int
  BY <1>2
<1>11. << Line(account, sign * total, 0) >> \in Seq(EntryLine)
  BY <1>1, <1>9, <1>10
<1>12. [n \in DOMAIN lines |-> Line(lines[n].account, -(sign * LineNet(t, lines[n])), lines[n].tax)] \in Seq(EntryLine)
  <2>1. ASSUME NEW n \in DOMAIN lines
        PROVE  Line(lines[n].account, -(sign * LineNet(t, lines[n])), lines[n].tax) \in EntryLine
    <3>1. -(sign * LineNet(t, lines[n])) \in Int
      BY <1>4
    <3>. QED BY <1>4, <1>9, <3>1
  <2>. QED BY <2>1
<1>13. (IF tax = 0 THEN << >> ELSE << Line(TaxAccount, -(sign * tax), 0) >>) \in Seq(EntryLine)
  BY <1>1, <1>9, <1>10
<1>14. TransactionLines(t, account)
       = << Line(account, sign * total, 0) >>
         \o [n \in DOMAIN lines |-> Line(lines[n].account, -(sign * LineNet(t, lines[n])), lines[n].tax)]
         \o (IF tax = 0 THEN << >> ELSE << Line(TaxAccount, -(sign * tax), 0) >>)
  BY <1>2, <1>7, <1>8 DEF TransactionLines
<1>. QED BY <1>11, <1>12, <1>13, <1>14

CashInv == CashTables /\ PaymentJournals

LEMMA CashInvInit == CashInit => CashInv
<1>. SUFFICES ASSUME CashInit PROVE CashInv
  OBVIOUS
<1>1. DOMAIN cashbook = {} /\ DOMAIN payments = {} /\ allocations = {}
  BY DEF CashInit
<1>. QED BY <1>1, FS_EmptySet DEF CashInv, CashTables, PaymentJournals, Ledger, SumsToZero

\* What is written in the cashbook keeps the journals balanced.
LEMMA WriteKeeps ==
  ASSUME Ledger(cashbook), SumsToZero(cashbook), NEW k, NEW lines \in Seq(EntryLine), NEW day \in ReportDays,
         SumUp(DOMAIN lines, Nets(lines)) = 0, Write(k, lines, day)
  PROVE  /\ Ledger(cashbook)' /\ SumsToZero(cashbook)' /\ DOMAIN cashbook' = DOMAIN cashbook \cup {k}
         /\ cashbook'[k].lines = lines
         /\ \A x \in DOMAIN cashbook \ {k} : cashbook'[x] = cashbook[x]
<1>1. /\ DOMAIN cashbook' = DOMAIN cashbook \cup {k}
      /\ cashbook'[k] = [date |-> day, lines |-> lines]
      /\ \A x \in DOMAIN cashbook \ {k} : cashbook'[x] = cashbook[x]
  BY DEF Write
<1>2. IsFiniteSet(DOMAIN cashbook')
  BY <1>1, FS_AddElement DEF Ledger
<1>3. cashbook'[k] \in JournalRow /\ cashbook'[k].lines = lines
  BY <1>1 DEF JournalRow
<1>. QED BY <1>1, <1>2, <1>3 DEF Ledger, SumsToZero

LEMMA EraseKeeps ==
  ASSUME Ledger(cashbook), SumsToZero(cashbook), NEW k, Erase(k)
  PROVE  /\ Ledger(cashbook)' /\ SumsToZero(cashbook)' /\ DOMAIN cashbook' = DOMAIN cashbook \ {k}
         /\ \A x \in DOMAIN cashbook' : cashbook'[x] = cashbook[x]
<1>1. /\ DOMAIN cashbook' = DOMAIN cashbook \ {k}
      /\ \A x \in DOMAIN cashbook' : cashbook'[x] = cashbook[x]
  BY DEF Erase
<1>2. IsFiniteSet(DOMAIN cashbook')
  BY <1>1, FS_Subset DEF Ledger
<1>. QED BY <1>1, <1>2 DEF Ledger, SumsToZero

LEMMA PostBankKeeps ==
  ASSUME CashInv, NEW k, NEW lines \in Seq(EntryLine), NEW day \in ReportDays, PostBank(k, lines, day)
  PROVE  CashInv'
<1>1. /\ k \notin DOMAIN payments /\ Write(k, lines, day)
      /\ payments' = payments /\ allocations' = allocations
  BY DEF PostBank
<1>2. SumUp(DOMAIN lines, Nets(lines)) = 0
  BY TotalIsSum DEF PostBank, SumOf, Nets
<1>3. /\ Ledger(cashbook)' /\ SumsToZero(cashbook)' /\ DOMAIN cashbook' = DOMAIN cashbook \cup {k}
      /\ \A x \in DOMAIN cashbook \ {k} : cashbook'[x] = cashbook[x]
  BY <1>1, <1>2, WriteKeeps DEF CashInv, CashTables
<1>4. CashTables'
  BY <1>1, <1>3 DEF CashInv, CashTables
<1>5. PaymentJournals'
  <2>1. SUFFICES ASSUME NEW p \in DOMAIN payments', p \in DOMAIN cashbook'
                 PROVE  \E a \in PaidFrom :
                          cashbook'[p].lines = PaymentLines(payments'[p].invoice, a, payments'[p].amount)
    BY DEF PaymentJournals, PaymentLines, PaymentSign
  <2>2. p \in DOMAIN payments \cap DOMAIN cashbook /\ cashbook'[p] = cashbook[p]
    BY <1>1, <1>3, <2>1
  <2>. QED BY <1>1, <2>2 DEF CashInv, PaymentJournals
<1>. QED BY <1>4, <1>5 DEF CashInv

LEMMA RemoveBankKeeps == ASSUME CashInv, NEW k, RemoveBank(k) PROVE CashInv'
<1>1. Erase(k) /\ payments' = payments /\ allocations' = allocations
  BY DEF RemoveBank
<1>2. /\ Ledger(cashbook)' /\ SumsToZero(cashbook)' /\ DOMAIN cashbook' = DOMAIN cashbook \ {k}
      /\ \A x \in DOMAIN cashbook' : cashbook'[x] = cashbook[x]
  BY <1>1, EraseKeeps DEF CashInv, CashTables
<1>3. CashTables'
  BY <1>1, <1>2 DEF CashInv, CashTables
<1>4. PaymentJournals'
  BY <1>1, <1>2 DEF CashInv, PaymentJournals, PaymentLines, PaymentSign
<1>. QED BY <1>3, <1>4 DEF CashInv

LEMMA PaymentIsEntry ==
  ASSUME NEW i \in DOMAIN CashDocuments, NEW a \in PaidFrom, NEW x \in Int
  PROVE  /\ PaymentLines(i, a, x) \in Seq(EntryLine)
         /\ SumUp(DOMAIN PaymentLines(i, a, x), Nets(PaymentLines(i, a, x))) = 0
<1>1. PICK lines, control, y : /\ lines = PaymentLines(i, a, x) /\ control = SettledControl(i)
                               /\ y = PaymentSign(i) * x
  OBVIOUS
<1>2. a \in ChartAccounts /\ control \in ChartAccounts /\ y \in Int
  <2>1. a \in ChartAccounts
    BY CashAssumption
  <2>2. control \in Controls /\ PaymentSign(i) \in {-1, 1}
    BY <1>1, SettledFacts
  <2>. QED BY <1>1, <2>1, <2>2, ControlsAreFinite
<1>3. lines = << Line(a, y, 0), Line(control, -y, 0) >>
  BY <1>1 DEF PaymentLines, SettledControl
<1>4. Line(a, y, 0) \in EntryLine /\ Line(control, -y, 0) \in EntryLine
  BY <1>2 DEF Line, EntryLine
<1>5. lines \in Seq(EntryLine)
  BY <1>3, <1>4
<1>6. DOMAIN lines = {1, 2} /\ lines[1].net = y /\ lines[2].net = -y
  BY <1>3 DEF Line
<1>7. SumUp({1, 2}, Nets(lines)) = 0
  <2>1. PICK f : f = Nets(lines)
    OBVIOUS
  <2>2. f[1] = y /\ f[2] = -y /\ -y \in Int
    BY <1>2, <1>6, <2>1 DEF Nets
  <2>3. PICK one, both : one = {1} /\ both = {1, 2}
    OBVIOUS
  <2>4. IsFiniteSet(one) /\ both = one \cup {2} /\ 2 \notin one /\ \A n \in one : f[n] \in Int
    <3>1. IsFiniteSet(one)
      BY <2>3, FS_Singleton
    <3>2. both = one \cup {2} /\ 2 \notin one
      BY <2>3
    <3>. QED BY <1>2, <2>2, <2>3, <3>1, <3>2
  <2>5. SumUp(one \cup {2}, f) = f[2] + SumUp(one, f)
    <3>1. f[2] \in Int
      BY <2>2
    <3>. QED BY <2>4, <3>1, SumAdds
  <2>6. SumUp(one, f) = f[1]
    <3>1. f[1] \in Int
      BY <1>2, <2>2
    <3>. QED BY <2>3, <3>1, SumOfOne
  <2>7. SumUp(both, f) = 0
    BY <1>2, <2>2, <2>4, <2>5, <2>6
  <2>. QED BY <2>1, <2>3, <2>7
<1>. QED BY <1>1, <1>5, <1>6, <1>7

LEMMA PayKeeps ==
  ASSUME CashInv, NEW k, NEW i \in DOMAIN CashDocuments, NEW a \in PaidFrom, NEW x \in CashAmounts,
         NEW day \in ReportDays, Pay(k, i, a, x, day)
  PROVE  CashInv'
<1>1. x \in Int
  BY CashAssumption
<1>2. /\ Write(k, PaymentLines(i, a, x), day) /\ allocations' = allocations
      /\ DOMAIN payments' = DOMAIN payments \cup {k}
      /\ payments'[k].invoice = i /\ payments'[k].amount = x
      /\ \A p \in DOMAIN payments : p # k /\ payments'[p] = payments[p]
  BY DEF Pay
<1>3. PICK lines \in Seq(EntryLine) : lines = PaymentLines(i, a, x) /\ SumUp(DOMAIN lines, Nets(lines)) = 0
  BY <1>1, PaymentIsEntry
<1>4. /\ Ledger(cashbook)' /\ SumsToZero(cashbook)' /\ DOMAIN cashbook' = DOMAIN cashbook \cup {k}
      /\ cashbook'[k].lines = lines
      /\ \A p \in DOMAIN cashbook \ {k} : cashbook'[p] = cashbook[p]
  <2>1. Write(k, lines, day)
    BY <1>2, <1>3
  <2>. QED BY <1>3, <2>1, WriteKeeps DEF CashInv, CashTables
<1>5. CashTables'
  <2>1. IsFiniteSet(DOMAIN payments')
    BY <1>2, FS_AddElement DEF CashInv, CashTables
  <2>2. \A p \in DOMAIN payments' : payments'[p].invoice \in DOMAIN CashDocuments /\ payments'[p].amount \in Int
    BY <1>1, <1>2 DEF CashInv, CashTables
  <2>3. IsFiniteSet(allocations') /\ \A y \in allocations' : y.note \in DOMAIN CashNotes /\ y.amount \in Int
    BY <1>2 DEF CashInv, CashTables
  <2>. QED BY <1>4, <2>1, <2>2, <2>3 DEF CashTables
<1>6. PaymentJournals'
  <2>1. SUFFICES ASSUME NEW p \in DOMAIN payments', p \in DOMAIN cashbook'
                 PROVE  \E b \in PaidFrom :
                          cashbook'[p].lines = PaymentLines(payments'[p].invoice, b, payments'[p].amount)
    BY DEF PaymentJournals, PaymentLines, PaymentSign
  <2>2. CASE p = k
    BY <1>2, <1>3, <1>4, <2>2
  <2>3. CASE p # k
    <3>1. p \in DOMAIN payments \cap DOMAIN cashbook /\ cashbook'[p] = cashbook[p] /\ payments'[p] = payments[p]
      BY <1>2, <1>4, <2>1, <2>3
    <3>. QED BY <3>1 DEF CashInv, PaymentJournals
  <2>. QED BY <2>2, <2>3
<1>. QED BY <1>5, <1>6 DEF CashInv

LEMMA VoidKeeps == ASSUME CashInv, NEW k, VoidPaid(k) PROVE CashInv'
<1>1. /\ Erase(k) /\ allocations' = allocations /\ DOMAIN payments' = DOMAIN payments
      /\ \A p \in DOMAIN payments : /\ payments'[p].invoice = payments[p].invoice
                                    /\ payments'[p].amount = payments[p].amount
  <2>1. DOMAIN payments' = DOMAIN payments /\ Erase(k) /\ allocations' = allocations
    BY DEF VoidPaid
  <2>2. ASSUME NEW p \in DOMAIN payments
        PROVE  payments'[p].invoice = payments[p].invoice /\ payments'[p].amount = payments[p].amount
    BY DEF VoidPaid
  <2>. QED BY <2>1, <2>2
<1>2. /\ Ledger(cashbook)' /\ SumsToZero(cashbook)' /\ DOMAIN cashbook' = DOMAIN cashbook \ {k}
      /\ \A x \in DOMAIN cashbook' : cashbook'[x] = cashbook[x]
  BY <1>1, EraseKeeps DEF CashInv, CashTables
<1>3. CashTables'
  BY <1>1, <1>2 DEF CashInv, CashTables
<1>4. PaymentJournals'
  BY <1>1, <1>2 DEF CashInv, PaymentJournals, PaymentLines, PaymentSign
<1>. QED BY <1>3, <1>4 DEF CashInv

LEMMA AllocateKeeps ==
  ASSUME CashInv, NEW n \in DOMAIN CashNotes, NEW i, NEW x \in CashAmounts, AllocateNote(n, i, x)
  PROVE  CashInv'
<1>1. x \in Int
  BY CashAssumption
<1>2. /\ allocations' = allocations \cup {[note |-> n, invoice |-> i, amount |-> x]}
      /\ cashbook' = cashbook /\ payments' = payments
  BY DEF AllocateNote
<1>3. IsFiniteSet(allocations') /\ \A y \in allocations' : y.note \in DOMAIN CashNotes /\ y.amount \in Int
  <2>1. PICK r : r = [note |-> n, invoice |-> i, amount |-> x]
    OBVIOUS
  <2>2. allocations' = allocations \cup {r} /\ r.note \in DOMAIN CashNotes /\ r.amount \in Int
    BY <1>1, <1>2, <2>1
  <2>3. IsFiniteSet(allocations) /\ \A y \in allocations : y.note \in DOMAIN CashNotes /\ y.amount \in Int
    BY DEF CashInv, CashTables
  <2>4. IsFiniteSet(allocations')
    BY <2>2, <2>3, FS_AddElement
  <2>. QED BY <2>2, <2>3, <2>4
<1>4. CashTables'
  BY <1>2, <1>3 DEF CashInv, CashTables, Ledger
<1>5. PaymentJournals'
  BY <1>2 DEF CashInv, PaymentJournals, PaymentLines, PaymentSign
<1>. QED BY <1>4, <1>5 DEF CashInv

LEMMA CashInvStays == CashInv /\ [CashNext]_cashVars => CashInv'
<1>. SUFFICES ASSUME CashInv, [CashNext]_cashVars PROVE CashInv'
  OBVIOUS
<1>1. ASSUME NEW k \in JournalIds, NEW day \in ReportDays, NEW t \in CashCodings, NEW a \in PaidFrom,
             PostBank(k, TransactionLines(t, a), day)
      PROVE  CashInv'
  BY <1>1, TransactionIsEntry, PostBankKeeps
<1>2. ASSUME NEW k \in JournalIds, NEW day \in ReportDays, NEW m \in CashManuals, PostBank(k, m, day)
      PROVE  CashInv'
  BY <1>2, CashAssumption, PostBankKeeps
<1>3. ASSUME NEW k \in JournalIds, NEW day \in ReportDays, NEW i \in DOMAIN CashDocuments, NEW a \in PaidFrom,
             NEW x \in CashAmounts, Pay(k, i, a, x, day)
      PROVE  CashInv'
  BY <1>3, PayKeeps
<1>4. ASSUME NEW k \in JournalIds, RemoveBank(k) \/ VoidPaid(k) PROVE CashInv'
  BY <1>4, RemoveBankKeeps, VoidKeeps
<1>5. ASSUME NEW n \in DOMAIN CashNotes, NEW i \in DOMAIN CashDocuments, NEW x \in CashAmounts, AllocateNote(n, i, x)
      PROVE  CashInv'
  BY <1>5, AllocateKeeps
<1>6. ASSUME UNCHANGED cashVars PROVE CashInv'
  BY <1>6 DEF cashVars, CashInv, CashTables, Ledger, PaymentJournals, PaymentLines, PaymentSign
<1>. QED BY <1>1, <1>2, <1>3, <1>4, <1>5, <1>6 DEF CashNext

\* For any chart of accounts, documents, notes and claims, and any history of cash, the
\* cash summary foots: what it prints as the movement is the movement of the bank, and
\* documents paid in full are explained to the cent.
THEOREM CashReportFoots == CashSpec => []CashFoots
<1>1. CashInv => CashFoots
  <2>1. SUFFICES ASSUME CashInv, NEW w \in Forward PROVE CashMovementFoots(w) /\ CashIsExplained(w)
    BY DEF CashFoots
  <2>2. w.from \in ReportDays /\ w.to \in ReportDays /\ w.from <= w.to
    BY DEF Forward, Windows
  <2>3. w.from \in Int /\ w.to \in Int /\ w.from > 0
    <3>1. ASSUME NEW d \in ReportDays PROVE d \in Int /\ d > 0
      BY ReportsAssumption
    <3>. QED BY <2>2, <3>1
  <2>4. PICK y \in Int : y = YearLength /\ y > 0
    BY ReportsAssumption
  <2>5. IsWindow(w)
    BY <2>2, <2>3, <2>4 DEF IsWindow, Never
  <2>. QED BY <2>1, <2>5, MovementFoots, NothingIsLeft DEF CashInv
<1>. QED BY <1>1, CashInvInit, CashInvStays, PTL DEF CashSpec
=============================================================================
