CONSTANTS
  TaxAccount = TRUE
  Invoices = {i1}
  Notes = {c1}
  Payments = {p1, p2}
  Advances = {a1}
  Manuals = {m1}
  Users = {u1}
  Bodies <- SmallBodies
  Amounts = {1}
  Sent = {"DRAFT", "AUTHORISED"}
  PaymentSent = {"AUTHORISED", "VOIDED"}
  OtherSent = {"DRAFT", "AUTHORISED", "POSTED", "DELETED"}
  Entered <- SmallJournals
  NoDoc = NoDoc
  MaxOdd = 2
  MaxCredit = 2
SPECIFICATION Spec
INVARIANTS
  TypeOK
  JournalOfItsDocument
  OffByRoundingOnly
  ApprovedIsPostedInOrder
  SettledAsRecorded
  CreditIsSpentOnce
  DueIsWhatIsLeft
  ControlAgrees
PROPERTIES
  KeepsLedgerBook
CONSTRAINT Bound
SYMMETRY Alike
CHECK_DEADLOCK FALSE
