------------------------------ MODULE Form1120 ------------------------------
(***************************************************************************)
(* The Form 1120 workpaper of internal/repository/form1120.go: the figures *)
(* of the profit and loss and of the balance sheet, laid out on the lines  *)
(* of the form by the organisation's own table and five rules by type.     *)
(***************************************************************************)
EXTENDS LedgerReports

CONSTANT
  Placements    \* tables of report_line_mappings: functions from accounts to lines

OtherIncome    == {"4", "5", "6", "7", "8", "9", "10"}
DeductionLines == {"12", "13", "14", "15", "16", "17", "18", "19", "20", "21", "22",
                   "23", "24", "25", "26"}
AssetLines     == {"L1", "L2", "L3", "L4", "L5", "L6", "L7", "L8", "L9", "L10a", "L10b",
                   "L11", "L12", "L13", "L14"}
ClaimLines     == {"L16", "L17", "L18", "L19", "L20", "L21", "L22", "L23", "L24", "L25", "L26"}
AdjustingLines == {"M2", "M3", "M4", "M5", "M7", "M8"}

Formula(line, plus, minus) == [line |-> line, plus |-> plus, minus |-> minus]

FormulasShort ==         \* faulty: the form's last deduction line is left out
  <<Formula("1c", {"1a"}, {"1b"}), Formula("3", {"1c"}, {"2"}),
    Formula("11", {"3"} \cup OtherIncome, {}), Formula("27", DeductionLines \ {"26"}, {}),
    Formula("28", {"11"}, {"27"}), Formula("30", {"28"}, {"29"}),
    Formula("L15", AssetLines, {}), Formula("L27", ClaimLines, {}),
    Formula("LCHECK", {"L15"}, {"L27"}),
    Formula("M6", {"M1", "M2", "M3", "M4", "M5"}, {}), Formula("M9", {"M7", "M8"}, {}),
    Formula("M10", {"M6"}, {"M9"})>>

\* Form1120LineCatalogue: the lines that are computed, in the form's order ...
Formulas ==
  <<Formula("1c", {"1a"}, {"1b"}), Formula("3", {"1c"}, {"2"}),
    Formula("11", {"3"} \cup OtherIncome, {}), Formula("27", DeductionLines, {}),
    Formula("28", {"11"}, {"27"}), Formula("30", {"28"}, {"29"}),
    Formula("L15", AssetLines, {}), Formula("L27", ClaimLines, {}),
    Formula("LCHECK", {"L15"}, {"L27"}),
    Formula("M6", {"M1", "M2", "M3", "M4", "M5"}, {}), Formula("M9", {"M7", "M8"}, {}),
    Formula("M10", {"M6"}, {"M9"})>>

Computed == {Formulas[n].line : n \in DOMAIN Formulas}

\* ... and the whole catalogue.
Lines ==
  {"1a", "1b", "2", "29", "31", "M1"} \cup OtherIncome \cup DeductionLines \cup AssetLines
    \cup ClaimLines \cup AdjustingLines \cup Computed

\* Schedule L carries balances, the other lines the period's movement.
ClosingBasis(line) == line \in AssetLines \cup ClaimLines

\* Form1120Mappings: the rules by type.
TypeWide == [SALES |-> "1a", DIRECTCOSTS |-> "2", BANK |-> "L1", INVENTORY |-> "L3", TERMLIAB |-> "L19"]

NoLine == "none"

\* form1120MappingFor: the organisation's placement of the account, or its type's.
LineFor(a, pinned) ==
  IF a \in DOMAIN pinned THEN pinned[a]
  ELSE IF TypeOf[a] \in DOMAIN TypeWide THEN TypeWide[TypeOf[a]] ELSE NoLine

\* An account's figures as the two reports print them: income, liabilities and
\* equity are turned positive.
Figures(js, a, p) ==
  LET sign == IF TypeOf[a] \in IncomeTypes \cup LiabilityTypes \cup {"EQUITY"} THEN -1 ELSE 1
      closing   == sign * Balance(js, a, p.to)
      beginning == sign * Balance(js, a, DayBefore(p.from))
  IN  IF TypeOf[a] \in PnlTypes
      THEN [period |-> sign * Net(js, a, p.from, p.to), beginning |-> 0, closing |-> 0]
      ELSE [period |-> closing - beginning, beginning |-> beginning, closing |-> closing]

HasBalance(f) == f.period # 0 \/ f.beginning # 0 \/ f.closing # 0

\* One pass in the form's order: a computed line loses what was placed on it.
Compute(column) ==
  LET pass[n \in 0 .. Len(Formulas)] ==
        IF n = 0 THEN column
        ELSE LET f == Formulas[n]
                 c == pass[n - 1]
             IN  [c EXCEPT ![f.line] = Total(f.plus, c) - Total(f.minus, c)]
  IN  pass[Len(Formulas)]

\* Form1120: both columns of every line, and the accounts that no line has.  It takes
\* its accounts from the profit and loss and the balance sheet, which have no others
\* than those of the types they know.
Form1120(js, p, pinned) ==
  LET figures == [a \in ChartAccounts |-> Figures(js, a, p)]
      carrying == {a \in OfType(AccountTypes) : HasBalance(figures[a])}
      placed(line) == {a \in carrying : LineFor(a, pinned) = line}
      sheet == BalanceSheet(js, p.to, DayBefore(p.from))
      retained(line, figure) == IF line = "L24" THEN figure ELSE 0
      amounts == [line \in Lines |->
        IF line = "M1" THEN ProfitAndLoss(js, p, NoPeriod).this.net
        ELSE Total(placed(line),
                   [a \in ChartAccounts |->
                     IF ClosingBasis(line) THEN figures[a].closing ELSE figures[a].period])
             + retained(line, sheet.this.retained)]
      beginnings == [line \in Lines |->
        IF ClosingBasis(line)
        THEN Total(placed(line), [a \in ChartAccounts |-> figures[a].beginning]) + retained(line, sheet.that.retained)
        ELSE 0]
  IN  [amount |-> Compute(amounts), beginning |-> Compute(beginnings), figures |-> figures,
       unmapped |-> {a \in carrying : LineFor(a, pinned) \notin Lines}]

(***************************************************************************)
(* The placements that leave the form's arithmetic meaningful: each class  *)
(* of account on lines that count it with its sign.                        *)
(***************************************************************************)
IncomeLines == {"1a"} \cup OtherIncome \cup {"M7"}
CostLines   == {"1b", "2"} \cup DeductionLines \cup {"M2", "M3", "M5"}

SoundLine(a, line) ==
  \/ line \notin Lines \/ a \in Unclassed
  \/ TypeOf[a] \in IncomeTypes /\ line \in IncomeLines
  \/ TypeOf[a] \in CostTypes /\ line \in CostLines
  \/ TypeOf[a] \in AssetTypes /\ line \in AssetLines
  \/ TypeOf[a] \in LiabilityTypes \cup {"EQUITY"} /\ line \in ClaimLines

Sound(pinned) == \A a \in DOMAIN pinned : SoundLine(a, pinned[a])

\* The return's year, from the financial year start the handler takes when no other
\* date is asked for.
ReturnYear(d) == [from |-> FinancialYearStart(d), to |-> d]

\* With every account on a line that fits its class, income per return (M-1, line 10)
\* differs from line 28 by exactly the accounts the workpaper lists as having no line,
\* and so do, but for what its balance sheet is off by, total assets from total
\* liabilities and equity at either end of the year.
Form1120Ties ==
  reader.at = "resting" /\ journals # << >> =>
    \A d \in ReportDays, pinned \in {t \in Placements : Sound(t)} :
      \A form \in {Form1120(journals, ReturnYear(d), pinned)} :
        LET claims == LiabilityTypes \cup {"EQUITY"}
            missing(types, column) ==
              Total({a \in form.unmapped : TypeOf[a] \in types},
                    [a \in ChartAccounts |-> form.figures[a][column]])
        IN  /\ form.amount["M10"] - form.amount["28"]
               = missing(IncomeTypes, "period") - missing(CostTypes, "period")
            /\ form.amount["LCHECK"]
               = missing(claims, "closing") - missing(AssetTypes, "closing") - SheetGap(d)
            /\ form.beginning["LCHECK"]
               = missing(claims, "beginning") - missing(AssetTypes, "beginning")
                 - SheetGap(DayBefore(FinancialYearStart(d)))
=============================================================================
