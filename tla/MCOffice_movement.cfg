CONSTANTS
  a1 = a1 a2 = a2 b1 = b1 b2 = b2 c1 = c1 c2 = c2
  Conns = {a1, a2}
  Banks = {bank}
  Links = {b1, b2}
  Items = {consent}
  Tasks = {c1, c2}
  NoConn = NoConn
  NoBank = NoBank
  NoLink = NoLink
  NoItem = NoItem
  Tokens = {a1, a2, d1}
  Requests = {c1, c2}
  NoToken = NoToken
  Savers = {s1, s2}
  Admins = {s1}
  BalanceDates = {day1, day2}
  Screens <- SomeScreens
  Accounts = {"bank", "sales", "hist"}
  Historical = "hist"
  HasHistorical = TRUE
  NoAccount = ""
  NoDate = NoDate
  Imports = {a1, a2}
  Prints = {"lunch"}
  StatementFiles <- SomeFiles
  Uploads = {c1, c2}
  NoImport = NoImport
  Periods = {a1, a2, d1}
  Lockers = {c1, c2}
  Days = {1, 2, 3}
  Parts = {"cash"}
  ChartAccounts <- OwnTypes
  TypeOf <- OneOfEach
  JournalIds = {1, 2}
  Entries <- SomeEntries
  ReportDays = {1, 2, 3}
  YearLength = 2
  YearStart = 2
  Placements <- SomePlacements
  Receivable = "CURRENT"
  Payable = "CURRLIAB"
  ClaimsControl = "LIABILITY"
  TaxAccount = "PAYGLIABILITY"
  ControlCodes <- SomeControls
  CashDocuments <- SomeDocuments
  CashNotes <- SomeNotes
  CashCodings <- SomeCodings
  CashManuals <- SomeManuals
  ClaimJournals <- SomeClaimJournals
  PaidFrom = {"BANK"}
  CashAmounts = {1, 3, 4}
  Customers = {"x", "y", "z"}
  NameOf <- CustomerNames
  InvoiceIds = {1, 2, 3}
  InvoiceBodies <- SomeBills
  ClaimBodies <- SomeClaims
  Rules = {1, 2, 3}
  RankOf <- RuleNames
  Draggers = {c1, c2}
  Contents <- SomeContents
  Candidates <- SomeLines
  Totals <- SomeTotals
  NoRule = NoRule
  AsAtDays = {4, 30, 31, 61, 121}
  NoCustomer = NoCustomer
  NoDay = NoDay
SPECIFICATION OfficeSpec
INVARIANT CashAlwaysFoots
CHECK_DEADLOCK FALSE
