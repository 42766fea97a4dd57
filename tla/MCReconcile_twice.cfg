CONSTANTS
  Lines = {f1}
  FeedLines = {f1}
  Amounts = {1}
  Txs = {t1, t2}
  Transfers = {x1}
  Requests = {r1, r2}
  NoTx = NoTx
  NoAmount = NoAmount
  NoLine = NoLine
  Ops = {"create"}
  Edits = {"feed", "ignore"}
  MaxKills = 0
  ActOnClaimed = TRUE
  Overrun = FALSE
SPECIFICATION Spec
INVARIANTS
  OneTransactionPerLine
SYMMETRY Symmetry
CHECK_DEADLOCK FALSE
