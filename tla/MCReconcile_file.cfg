CONSTANTS
  Lines = {f1, i1}
  FeedLines = {f1}
  Amounts = {1}
  Txs = {t1}
  Transfers = {x1}
  Requests = {r1, r2}
  NoTx = NoTx
  NoAmount = NoAmount
  NoLine = NoLine
  Ops = {"cash", "undo"}
  Edits = {"ignore", "delete", "feed", "withdraw", "import"}
  MaxKills = 0
  ActOnClaimed = TRUE
  Overrun = TRUE
SPECIFICATION Spec
INVARIANTS
  TypeOK
  LinksAreBooked
PROPERTIES
  KeepsLineBook
SYMMETRY Symmetry
CHECK_DEADLOCK FALSE
