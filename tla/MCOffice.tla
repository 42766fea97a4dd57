------------------------------ MODULE MCOffice ------------------------------
\* Model checking the parts that share no table with each other: each behaviour is
\* one of one of them, and the others rest.
EXTENDS FeedConnections, Sessions, ConversionBalances, StatementImports, ReconcilePeriods,
        Form1120, CashSummary, AgedReports, BankRules, TLC

\* The parts share their ids, which keeps the symmetry small.
CONSTANTS a1, a2, b1, b2, c1, c2

CONSTANT Parts  \* the parts a run is about

VARIABLE part

\* The screen empty, one row, two rows that balance, one row given twice.
SomeScreens ==
  {<< >>,
   <<[account |-> "bank", amount |-> 1]>>,
   <<[account |-> "bank", amount |-> 1], [account |-> "", amount |-> 1],
     [account |-> "sales", amount |-> -1]>>,
   <<[account |-> "bank", amount |-> 1], [account |-> "bank", amount |-> 1]>>}

\* A file with a row that is there twice.
SomeFiles == {<<"lunch", "lunch">>}

(***************************************************************************)
(* The chart of the reports has one account of each type, and one of a     *)
(* type that nobody knows.                                                 *)
(***************************************************************************)
OwnTypes == AccountTypes \cup {"PERSONAL"}
OneOfEach == [a \in OwnTypes |-> a]

\* Money in and out of the bank against every other type, a journal of three lines, one
\* that moves the bank both ways, and one that rounding took something off: two lines
\* of three halves of what a row can hold, each rounded up.
BothWays == <<Line("BANK", 2, 0), Line("SALES", -1, 0), Line("BANK", -1, 0)>>
Halves == [Line("SALES", -4, 0) EXCEPT !.lost = 1]
RoundedSale == <<Line("CURRENT", 6, 0), Halves, Halves>>
SplitEntries == {<<Line("EXPENSE", 2, 0), Line("CURRLIAB", -3, 0), Line("EQUITY", 1, 0)>>, BothWays}
PlainEntries == {<<Line("BANK", 1, 0), Line(a, -1, 0)>> : a \in OwnTypes \ {"BANK"}} \cup {RoundedSale}
SomeEntries  == PlainEntries \cup SplitEntries

\* Accounts on lines of their class, and accounts moved to adjustments and to no line.
Placed ==
  [EXPENSE |-> "26", WAGESEXPENSE |-> "13", OVERHEADS |-> "16", DEPRECIATN |-> "20",
   REVENUE |-> "10", CURRENT |-> "L2", FIXED |-> "L10a", PREPAYMENT |-> "L6",
   NONCURRENT |-> "L14", CURRLIAB |-> "L16", LIABILITY |-> "L20", PAYGLIABILITY |-> "L18",
   SUPERANNUATIONLIABILITY |-> "L17", EQUITY |-> "L24", PERSONAL |-> "13"]
Adjusted == [EXPENSE |-> "M5", REVENUE |-> "M7", EQUITY |-> "L21", BANK |-> "retired"]
SomePlacements == {Placed, Adjusted}

\* The controls, in another order than that of the accounts' names.
SomeControls == <<"CURRENT", "CURRLIAB", "LIABILITY">>

Doc(type, inclusive, lines, total) == [type |-> type, inclusive |-> inclusive, lines |-> lines, total |-> total]
Item(a, amount, tax) == [account |-> a, amount |-> amount, tax |-> tax]

SomeDocuments ==
  [sale |-> Doc("ACCREC", FALSE, <<Item("SALES", 2, 1), Item("REVENUE", 1, 0)>>, 4),
   bill |-> Doc("ACCPAY", TRUE, <<Item("EXPENSE", 3, 1)>>, 3)]
SomeNotes == [note |-> Doc("ACCRECCREDIT", FALSE, <<Item("SALES", 1, 1)>>, 2)]

\* Spent with tax, received with and without, on a control and an expense, on a claim.
Coding(sign, lines) == [sign |-> sign, inclusive |-> FALSE, lines |-> lines]
SomeCodings ==
  {Coding(-1, <<Item("EXPENSE", 2, 1)>>), Coding(1, <<Item("SALES", 2, 1)>>),
   Coding(1, <<Item("SALES", 2, 0)>>), Coding(-1, <<Item("LIABILITY", 3, 0)>>),
   Coding(-1, <<Item("CURRENT", 2, 0), Item("EXPENSE", 1, 1)>>)}
SomeManuals == {<<Line("BANK", 1, 0), Line("CURRENT", -3, 0), Line("CURRLIAB", 2, 0)>>}
SomeClaimJournals ==
  [claim |-> <<Line("LIABILITY", -3, 0), Line("EXPENSE", 2, 0), Line("PAYGLIABILITY", 1, 0)>>]

\* Two customers of one name and a supplier; invoices with and without a due date, a
\* date and a contact, one of them paid.  Days 0 and 1 are the two sides of every band.
CustomerNames == [x |-> 1, y |-> 1, z |-> 2]
Bill(type, c, day, due, owed) ==
  [type |-> type, contact |-> c, date |-> day, dueDay |-> due, due |-> owed,
   status |-> IF owed = 0 THEN "PAID" ELSE "AUTHORISED"]
SomeBills ==
  {Bill("ACCREC", "x", 0, 10, 1), Bill("ACCREC", "y", 1, NoDay, 2), Bill("ACCREC", "x", 0, 0, 3),
   Bill("ACCREC", NoCustomer, 0, NoDay, 1), Bill("ACCPAY", "z", 1, 1, 1),
   Bill("ACCPAY", "z", NoDay, NoDay, 1), Bill("ACCPAY", "x", 0, 30, 0)}
SomeClaims == {[status |-> "SUBMITTED", dueDay |-> NoDay, reported |-> d, due |-> 1] : d \in {0, NoDay}}

\* Rules that overlap on money spent: one on any text, with the rest shared out in
\* thirds after a fixed amount, one on the amount, and one nobody can save.
Where(field, op, value) == [field |-> field, op |-> op, value |-> value]
Define(mode, conditions, fixed, percent) ==
  [mode |-> mode, conditions |-> conditions, scope |-> "", oneAccount |-> FALSE,
   transfer |-> FALSE, fixed |-> fixed, percent |-> percent]
Content(type, def) == [type |-> type, active |-> TRUE, def |-> def]
AnyCoffee == <<Where("ANY_TEXT", "CONTAINS", Text(<<"coffee">>)), Where("PAYEE", "ISNOTBLANK", Text(<< >>))>>
Large == <<Where("AMOUNT", "GREATERTHAN", Figure(4)), Where("PAYEE", "STARTSWITH", Text(<<"tea">>))>>
SplitCoffee == Content("SPEND", Define("ALL", AnyCoffee, <<1000>>, <<333, 333, 333>>))
LargeOrTea  == Content("TRANSFER", Define("ANY", Large, << >>, <<0>>))
SomeContents == {SplitCoffee, LargeOrTea, Content("RECEIVE", Define("ALL", AnyCoffee, << >>, <<600, 700, 0>>))}

\* Lines that both, one or none of the rules match.
StatementLine(payee, reference, amount) ==
  [payee |-> Text(payee), description |-> Text(<< >>), reference |-> Text(reference),
   cheque |-> Text(<< >>), amount |-> amount, account |-> "bank"]
SomeLines ==
  {StatementLine(<<"tea", "and", "coffee">>, << >>, -5), StatementLine(<<"bar">>, <<"coffee">>, -3),
   StatementLine(<< >>, <<"coffee">>, 9)}
RuleNames == [r \in {1, 2, 3} |-> 4 - r]
SomeTotals == {2000, -1000}

OfficeInit ==
  /\ part \in Parts
  /\ ConnInit /\ SessionsInit /\ ConversionInit /\ ImportsInit /\ PeriodsInit
  /\ ReportsInit /\ CashInit /\ AgedInit /\ RulesInit

paperVars == <<reportVars, cashVars, agedVars, ruleVars>>
bookkeepingVars == <<connVars, sessionVars, conversionVars, importVars, periodVars>>
officeVars == <<part, bookkeepingVars, paperVars>>

\* Bounds of the reports: of the two journals, the entries but the split ones are tried
\* on the first; a detail report is followed over journals that move the bank both ways.
Posted(entries) == {k \in DOMAIN journals : journals[k].lines \in entries}
FewPosted ==
  /\ Posted(PlainEntries) \subseteq {1}
  /\ reader.at # "resting" => DOMAIN journals = Posted({BothWays})

\* A bound of the cash summary, which takes journals in no order: the later one is the
\* second.
FewCash == DOMAIN cashbook = {1, 2} => cashbook[1].date <= cashbook[2].date

\* Bounds of the rules: one of them is edited while no list is open, and one is deleted;
\* a list of all three meets another list of all three, and no deleted rule.
FewRules ==
  /\ rule[1].state = "kept" /\ rule[1].content = LargeOrTea =>
       \A d \in Draggers : drag[d].at = "idle"
  /\ rule[2].state = "kept" => rule[2].content # LargeOrTea
  /\ rule[3].state = "kept" => rule[3].content # SplitCoffee
  /\ Cardinality({r \in Rules : rule[r].state = "gone"}) <= 1
  /\ \A d, e \in Draggers :
       Len(drag[d].list) = 3 /\ d # e /\ drag[e].at # "idle" =>
         Len(drag[e].list) = 3 /\ \A r \in Rules : rule[r].state # "gone"

OfficeNext ==
  /\ UNCHANGED part
  /\ \/ /\ part = "reports" /\ ReportsNext /\ FewPosted'
        /\ UNCHANGED <<bookkeepingVars, cashVars, agedVars, ruleVars>>
     \/ /\ part = "cash" /\ CashNext /\ FewCash'
        /\ UNCHANGED <<bookkeepingVars, reportVars, agedVars, ruleVars>>
     \/ /\ part = "aged" /\ AgedNext
        /\ UNCHANGED <<bookkeepingVars, reportVars, cashVars, ruleVars>>
     \/ /\ part = "rules" /\ RulesNext /\ FewRules'
        /\ UNCHANGED <<bookkeepingVars, reportVars, cashVars, agedVars>>
     \/ /\ part = "connections" /\ ConnNext
        /\ UNCHANGED <<sessionVars, conversionVars, importVars, periodVars, paperVars>>
     \/ /\ part = "sessions" /\ SessionsNext
        /\ UNCHANGED <<connVars, conversionVars, importVars, periodVars, paperVars>>
     \/ /\ part = "conversion" /\ ConversionNext
        /\ UNCHANGED <<connVars, sessionVars, importVars, periodVars, paperVars>>
     \/ /\ part = "imports" /\ ImportsNext
        /\ UNCHANGED <<connVars, sessionVars, conversionVars, periodVars, paperVars>>
     \/ /\ part = "periods" /\ PeriodsNext
        /\ UNCHANGED <<connVars, sessionVars, conversionVars, importVars, paperVars>>

OfficeSpec == OfficeInit /\ [][OfficeNext]_officeVars

OfficeTypeOK ==
  /\ ConnTypeOK /\ SessionsTypeOK /\ ConversionTypeOK /\ ImportsTypeOK /\ PeriodsTypeOK
  /\ RulesTypeOK

\* Bounds: one of these at a time, among the connections (one that does not know its
\* bank yet counts, too) and among the imports.  An account bound by hand, or news of a
\* consent, is followed while there is one connection.
Few ==
  /\ Cardinality(released) + (IF raced THEN 1 ELSE 0) + Cardinality(revived)
     + Cardinality({c \in Conns : conn[c].status = "DELETED"})
     + Cardinality({k \in Items : item[k].news # {}})
     + Cardinality({c \in Conns : Exists(c) /\ conn[c].bank = NoBank}) <= 1
  /\ \A c \in Conns : account[c].opened <= 2
  /\ released # {} \/ (\E k \in Items : item[k].news # {}) =>
       Cardinality({c \in Conns : Exists(c)}) <= 1
  /\ Cardinality(fed) + Cardinality(forced)
     + Cardinality({i \in Imports : imports[i].status = "gone"}) <= 1

Same == Permutations({a1, a2}) \cup Permutations({b1, b2}) \cup Permutations({c1, c2})
=============================================================================
