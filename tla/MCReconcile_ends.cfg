CONSTANTS
  Lines = {f1}
  FeedLines = {f1}
  Amounts = {1}
  Txs = {t1}
  Transfers = {x1}
  Requests = {r1, r2}
  NoTx = NoTx
  NoAmount = NoAmount
  NoLine = NoLine
  Ops = {"create", "match", "transfer"}
  Edits = {"feed", "newTx", "editTx", "deleteTx", "unreconcile", "ignore", "delete"}
  MaxKills = 1
  ActOnClaimed = TRUE
  Overrun = TRUE
SPECIFICATION FairSpec
INVARIANTS
  NoStrandedLine
PROPERTIES
  ClaimsEnd
CHECK_DEADLOCK FALSE
