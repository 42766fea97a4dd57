CONSTANTS
  Lines = {f1}
  FeedLines = {f1}
  Amounts = {1, 2}
  Txs = {t1}
  Transfers = {x1}
  Requests = {r1}
  NoTx = NoTx
  NoAmount = NoAmount
  NoLine = NoLine
  Ops = {"create"}
  Edits = {"feed"}
  MaxKills = 0
  ActOnClaimed = FALSE
  Overrun = FALSE
SPECIFICATION Spec
INVARIANTS
  BookedAtLineAmount
SYMMETRY Symmetry
CHECK_DEADLOCK FALSE
