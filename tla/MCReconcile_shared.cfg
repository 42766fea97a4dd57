CONSTANTS
  Lines = {f1, f2}
  FeedLines = {f1, f2}
  Amounts = {1}
  Txs = {t1}
  Transfers = {x1}
  Requests = {r1, r2}
  NoTx = NoTx
  NoAmount = NoAmount
  NoLine = NoLine
  Ops = {"match"}
  Edits = {"feed", "newTx"}
  MaxKills = 0
  ActOnClaimed = FALSE
  Overrun = FALSE
SPECIFICATION Spec
INVARIANTS
  OneLinePerTransaction
SYMMETRY Symmetry
CHECK_DEADLOCK FALSE
