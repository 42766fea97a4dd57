CONSTANTS
  Lines = {f1}
  FeedLines = {f1}
  Amounts = {1, 2}
  Txs = {t1, t2}
  Transfers = {x1}
  Requests = {r1, r2}
  NoTx = NoTx
  NoAmount = NoAmount
  NoLine = NoLine
  Ops = {"create", "match"}
  Edits = {"ignore", "delete", "dismiss", "feed", "withdraw", "newTx"}
  MaxKills = 0
  ActOnClaimed = TRUE
  Overrun = TRUE
SPECIFICATION Spec
PROPERTIES
  BookedFiguresFixed
SYMMETRY Symmetry
CHECK_DEADLOCK FALSE
