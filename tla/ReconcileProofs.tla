-------------------------- MODULE ReconcileProofs ---------------------------
(***************************************************************************)
(* Reconcile for every value of its constants: the tables keep their       *)
(* types, what is booked stays as it was booked, and the inbox implements  *)
(* LineBook.  No failure strands a line, and as long as users leave lines  *)
(* that are being processed alone and no request outlives its claim, one   *)
(* request at a time works inside a claim.  A line is linked to a          *)
(* transaction that is there, to the one it was posted as when it was      *)
(* posted, and it is posted once.  That transaction is settled, as long as *)
(* nobody unsettles it by hand.                                            *)
(***************************************************************************)
EXTENDS Reconcile, TLAPS

----------------------------------------------------------------------------
(* Types: statements on lines. *)

\* Writing one well-formed row.
LEMMA WriteRow ==
  ASSUME LinesTypeOK, NEW l \in Lines, NEW row \in Row,
         row.status # "ABSENT" => row.amount \in Amounts,
         lines' = [lines EXCEPT ![l] = row]
  PROVE  LinesTypeOK'
BY DEF LinesTypeOK

LEMMA ClaimLineType ==
  ASSUME LinesTypeOK, NEW l \in Lines, ClaimLine(l)
  PROVE  LinesTypeOK'
<1> DEFINE row == [lines[l] EXCEPT !.status = "PROCESSING", !.claim = "fresh"]
<1>1. lines[l] \in Row /\ lines[l].amount \in Amounts
  BY DEF LinesTypeOK, ClaimLine, Claimable, InInbox
<1>2. row \in Row /\ row.amount \in Amounts
  BY <1>1 DEF Row, LineStatus
<1>3. lines' = [lines EXCEPT ![l] = row]
  BY DEF ClaimLine
<1> QED BY <1>2, <1>3, WriteRow

LEMMA AttachLineType ==
  ASSUME LinesTypeOK, NEW l \in Lines, NEW t \in Txs \cup {NoTx}, AttachLine(l, t)
  PROVE  LinesTypeOK'
<1> DEFINE row == [lines[l] EXCEPT !.status = "IMPORTED", !.tx = t, !.claim = "none"]
<1>1. lines[l] \in Row /\ lines[l].amount \in Amounts
  BY DEF LinesTypeOK, AttachLine
<1>2. row \in Row /\ row.amount \in Amounts
  BY <1>1 DEF Row, LineStatus
<1>3. lines' = [lines EXCEPT ![l] = row]
  BY DEF AttachLine
<1> QED BY <1>2, <1>3, WriteRow

LEMMA ReleaseLineType ==
  ASSUME LinesTypeOK, NEW l \in Lines, ReleaseLine(l)
  PROVE  LinesTypeOK'
<1> DEFINE row == [lines[l] EXCEPT !.status = "NEW", !.claim = "none"]
<1>1. CASE lines[l].status = "PROCESSING"
  <2>1. lines[l] \in Row /\ lines[l].amount \in Amounts
    BY <1>1 DEF LinesTypeOK
  <2>2. row \in Row /\ row.amount \in Amounts
    BY <2>1 DEF Row, LineStatus
  <2>3. lines' = [lines EXCEPT ![l] = row]
    BY <1>1 DEF ReleaseLine
  <2> QED BY <2>2, <2>3, WriteRow
<1>2. CASE lines[l].status # "PROCESSING"
  BY <1>2 DEF ReleaseLine, LinesTypeOK
<1> QED BY <1>1, <1>2

LEMMA AgeClaimType ==
  ASSUME LinesTypeOK, NEW l \in Lines, AgeClaim(l)
  PROVE  LinesTypeOK'
BY DEF LinesTypeOK, AgeClaim, Row, LineStatus

LEMMA SetLineStatusType ==
  ASSUME LinesTypeOK, NEW l \in Lines, NEW s \in {"NEW", "IGNORED"}, SetLineStatus(l, s)
  PROVE  LinesTypeOK'
BY DEF LinesTypeOK, SetLineStatus, Exists, Row, LineStatus

LEMMA DeleteLineType ==
  ASSUME LinesTypeOK, NEW l \in Lines, DeleteLine(l)
  PROVE  LinesTypeOK'
BY DEF LinesTypeOK, DeleteLine, Exists, Row, LineStatus

LEMMA DismissType ==
  ASSUME LinesTypeOK, NEW l \in Lines, DismissUpstreamRemoval(l)
  PROVE  LinesTypeOK'
BY DEF LinesTypeOK, DismissUpstreamRemoval, Exists, Row, LineStatus

LEMMA StampLinesType ==
  ASSUME LinesTypeOK, NEW S, NEW s \in {"coded", "auto"}, StampLines(S, s)
  PROVE  LinesTypeOK'
BY DEF LinesTypeOK, StampLines, Exists, Row, LineStatus

LEMMA NewRowType ==
  ASSUME NEW a \in Amounts
  PROVE  NewRow(a) \in Row /\ NewRow(a).amount = a
BY DEF NewRow, AbsentRow, Row, LineStatus

LEMMA UpsertType ==
  ASSUME LinesTypeOK, NEW l \in Lines, NEW a \in Amounts, UpsertStatementLine(l, a)
  PROVE  LinesTypeOK'
<1>1. CASE lines[l].status = "ABSENT" /\ lines' = [lines EXCEPT ![l] = NewRow(a)]
  BY <1>1, NewRowType, WriteRow
<1>2. CASE lines' = [lines EXCEPT ![l].amount = a, ![l].upstream = NoAmount,
                                  ![l].removed = FALSE]
  <2> DEFINE row == [lines[l] EXCEPT !.amount = a, !.upstream = NoAmount,
                                     !.removed = FALSE]
  <2>1. row \in Row /\ row.amount \in Amounts
    BY DEF LinesTypeOK, Row
  <2>2. lines' = [lines EXCEPT ![l] = row]
    BY <1>2
  <2> QED BY <2>1, <2>2, WriteRow
<1>3. CASE Booked(l) /\ lines' = [lines EXCEPT ![l].upstream = a]
  BY <1>3 DEF LinesTypeOK, Booked, Row
<1> QED BY <1>1, <1>2, <1>3 DEF UpsertStatementLine

LEMMA RemovedType ==
  ASSUME LinesTypeOK, NEW l \in Lines, ApplyRemovedLine(l)
  PROVE  LinesTypeOK'
<1>1. CASE InInbox(l) /\ lines' = [lines EXCEPT ![l].status = "DELETED"]
  BY <1>1 DEF LinesTypeOK, InInbox, Row, LineStatus
<1>2. CASE Booked(l) /\ lines' = [lines EXCEPT ![l].removed = TRUE]
  BY <1>2 DEF LinesTypeOK, Booked, Row
<1> QED BY <1>1, <1>2 DEF ApplyRemovedLine

LEMMA InsertType ==
  ASSUME LinesTypeOK, NEW S \in SUBSET ImportLines, NEW a \in Amounts,
         InsertImportLines([l \in S |-> a])
  PROVE  LinesTypeOK'
BY NewRowType DEF LinesTypeOK, InsertImportLines, ImportLines

LEMMA DeleteImportType ==
  ASSUME LinesTypeOK, DeleteImportLines
  PROVE  LinesTypeOK'
BY DEF LinesTypeOK, DeleteImportLines, Exists, Row, LineStatus

----------------------------------------------------------------------------
(* Types: statements on bank transactions. *)

LEMMA CreateTxType ==
  ASSUME LedgerTypeOK, NEW t \in Txs, NEW a \in Amounts, NEW rec \in BOOLEAN,
         CreateTx(t, a, rec)
  PROVE  LedgerTypeOK'
BY DEF LedgerTypeOK, CreateTx, TxStatus

LEMMA UpdateTxType ==
  ASSUME LedgerTypeOK, NEW t \in Txs, NEW s \in {"AUTHORISED", "DELETED"},
         NEW a \in Amounts, NEW rec \in BOOLEAN, UpdateTx(t, s, a, rec)
  PROVE  LedgerTypeOK'
BY DEF LedgerTypeOK, UpdateTx, TxStatus

LEMMA DeleteTxType ==
  ASSUME LedgerTypeOK, NEW t \in Txs, DeleteTx(t)
  PROVE  LedgerTypeOK'
BY DEF LedgerTypeOK, DeleteTx, TxStatus

LEMMA ReconcileTxType ==
  ASSUME LedgerTypeOK, NEW t \in Txs, NEW rec \in BOOLEAN, ReconcileTx(t, rec)
  PROVE  LedgerTypeOK'
BY DEF LedgerTypeOK, ReconcileTx, TxStatus

----------------------------------------------------------------------------
(* Types: requests. *)

GoodRequest(q) ==
  /\ q \in Request
  /\ q.pc \in {"check", "claim", "post", "attach", "release"} =>
       q.line \in Lines /\ q.amount \in Amounts

RequestsOK == req \in [Requests -> Request] /\ \A r \in Requests : GoodRequest(req[r])

HistoryOK ==
  /\ kills \in 0..MaxKills
  /\ posted \in [Lines -> SUBSET Postings]
  /\ lost \in SUBSET Postings
  /\ abandoned \in SUBSET Lines

LEMMA TypeParts ==
  TypeOK <=> /\ LinesTypeOK
             /\ LedgerTypeOK
             /\ file \in {"STAGED", "IMPORTED", "DELETED"}
             /\ RequestsOK
             /\ HistoryOK
BY DEF TypeOK, RequestsOK, GoodRequest, WorksOnLine, HistoryOK

LEMMA TypePartsNext ==
  TypeOK' <=> /\ LinesTypeOK'
              /\ LedgerTypeOK'
              /\ file' \in {"STAGED", "IMPORTED", "DELETED"}
              /\ RequestsOK'
              /\ HistoryOK'
BY DEF TypeOK, RequestsOK, GoodRequest, WorksOnLine, HistoryOK

LEMMA IdleType == GoodRequest(Idle)
BY AmountsAssumption DEF GoodRequest, Idle, Request, Control

\* Replacing the record of one request by a well-formed one.
LEMMA WriteRequest ==
  ASSUME RequestsOK, NEW r \in Requests, NEW q, GoodRequest(q),
         req' = [req EXCEPT ![r] = q]
  PROVE  RequestsOK'
BY DEF RequestsOK, GoodRequest

\* Moving a request on to another step of its own, its line known.
LEMMA MoveRequest ==
  ASSUME RequestsOK, NEW r \in Requests, NEW c \in Control,
         c \in {"check", "claim", "post", "attach", "release"} =>
           req[r].line \in Lines /\ req[r].amount \in Amounts,
         req' = [req EXCEPT ![r].pc = c]
  PROVE  RequestsOK'
<1> DEFINE q == [req[r] EXCEPT !.pc = c]
<1>1. GoodRequest(q)
  BY DEF RequestsOK, GoodRequest, Request
<1>2. req' = [req EXCEPT ![r] = q]
  OBVIOUS
<1> QED BY <1>1, <1>2, WriteRequest

LEMMA ExistingLine ==
  ASSUME LinesTypeOK, NEW l \in Lines, Exists(l)
  PROVE  lines[l].amount \in Amounts
BY DEF LinesTypeOK, Exists

----------------------------------------------------------------------------
(* Types: the steps of a request. *)

LEMMA ReadingType ==
  ASSUME TypeOK, NEW r \in Requests,
         \/ \E op \in {"create", "transfer"}, l \in Lines : StartOnLine(r, op, l)
         \/ \E l \in Lines, S \in SUBSET Txs, t \in Txs : StartMatch(r, l, S, t)
         \/ \E S \in SUBSET Lines : StartCash(r, S)
         \/ StartAuto(r)
         \/ StartUndo(r)
         \/ \E t \in Txs : CheckSelected(r, t)
         \/ \E l \in Lines : NextRow(r, l)
         \/ ReadCandidates(r)
         \/ \E l \in Lines, t \in Txs, a \in Amounts : NextPair(r, l, t, a)
         \/ FinishAuto(r)
         \/ RefuseRow(r)
         \/ LoseClaim(r)
  PROVE  RequestsOK'
<1>0. RequestsOK /\ LinesTypeOK /\ LedgerTypeOK /\ GoodRequest(req[r])
  BY TypeParts DEF RequestsOK
<1>1. ASSUME NEW op \in {"create", "transfer"}, NEW l \in Lines, StartOnLine(r, op, l)
      PROVE  RequestsOK'
  <2> DEFINE q == [Idle EXCEPT !.op = op, !.pc = "claim", !.line = l,
                               !.amount = lines[l].amount]
  <2>1. lines[l].amount \in Amounts
    BY <1>0, <1>1, ExistingLine DEF StartOnLine
  <2>2. GoodRequest(q)
    BY <2>1, IdleType DEF GoodRequest, Request, Control, AllOps
  <2>3. req' = [req EXCEPT ![r] = q]
    BY <1>1 DEF StartOnLine
  <2> QED BY <1>0, <2>2, <2>3, WriteRequest
<1>2. ASSUME NEW l \in Lines, NEW S \in SUBSET Txs, NEW t \in Txs, StartMatch(r, l, S, t)
      PROVE  RequestsOK'
  <2> DEFINE q == [Idle EXCEPT !.op = "match", !.pc = "check", !.line = l,
                               !.amount = lines[l].amount, !.link = t,
                               !.sel = S, !.left = S]
  <2>1. lines[l].amount \in Amounts
    BY <1>0, <1>2, ExistingLine DEF StartMatch
  <2>2. GoodRequest(q)
    BY <2>1, IdleType DEF GoodRequest, Request, Control, AllOps
  <2>3. req' = [req EXCEPT ![r] = q]
    BY <1>2 DEF StartMatch
  <2> QED BY <1>0, <2>2, <2>3, WriteRequest
<1>3. ASSUME NEW S \in SUBSET Lines, StartCash(r, S)
      PROVE  RequestsOK'
  <2> DEFINE q == [Idle EXCEPT !.op = "cash", !.pc = "rows", !.todo = S \X {NoAmount}]
  <2>0. S \X {NoAmount} \in SUBSET (Lines \X (Amounts \cup {NoAmount}))
    OBVIOUS
  <2>1. GoodRequest(q)
    BY <2>0, IdleType DEF GoodRequest, Request, Control, AllOps
  <2>2. req' = [req EXCEPT ![r] = q]
    BY <1>3 DEF StartCash
  <2> QED BY <1>0, <2>1, <2>2, WriteRequest
<1>4. CASE StartAuto(r)
  <2> DEFINE inbox == {k \in Lines : lines[k].status = "NEW"}
             snap  == {<<l, lines[l].amount>> : l \in inbox}
             q     == [Idle EXCEPT !.op = "auto", !.pc = "candidates", !.todo = snap]
  <2>1. snap \in SUBSET (Lines \X (Amounts \cup {NoAmount}))
    BY <1>0 DEF LinesTypeOK, Row
  <2>3. req' = [req EXCEPT ![r] = q]
    BY <1>4 DEF StartAuto
  <2> HIDE DEF snap
  <2>2. GoodRequest(q)
    BY <2>1, IdleType DEF GoodRequest, Request, Control, AllOps
  <2> QED BY <1>0, <2>2, <2>3, WriteRequest
<1>5. CASE StartUndo(r)
  <2> DEFINE q == [Idle EXCEPT !.op = "undo", !.pc = "delete"]
  <2>1. GoodRequest(q)
    BY IdleType DEF GoodRequest, Request, Control, AllOps
  <2>2. req' = [req EXCEPT ![r] = q]
    BY <1>5 DEF StartUndo
  <2> QED BY <1>0, <2>1, <2>2, WriteRequest
<1>6. ASSUME NEW t \in Txs, CheckSelected(r, t)
      PROVE  RequestsOK'
  <2>1. req[r].pc = "check" /\ req[r].line \in Lines /\ req[r].amount \in Amounts
    BY <1>0, <1>6 DEF CheckSelected, GoodRequest
  <2>2. ASSUME TxExists(t) PROVE GoodRequest(Checked(r, t))
    <3> DEFINE sum  == req[r].sum + ledger[t].amount
               rest == req[r].left \ {t}
               on   == [req[r] EXCEPT !.sum = sum, !.left = rest]
               go   == [req[r] EXCEPT !.pc = "claim", !.sum = sum, !.left = req[r].sel]
    <3>1. ledger[t].amount \in Int
      BY <1>0, <2>2, AmountsAssumption DEF LedgerTypeOK, TxExists
    <3>2. sum \in Int /\ rest \in SUBSET Txs
      BY <1>0, <3>1 DEF GoodRequest, Request
    <3>3. Checked(r, t) \in {on, go, Idle}
      BY DEF Checked
    <3> HIDE DEF sum, rest
    <3>4. GoodRequest(on)
      BY <1>0, <2>1, <3>2 DEF GoodRequest, Request, Control
    <3>5. GoodRequest(go)
      BY <1>0, <2>1, <3>2 DEF GoodRequest, Request, Control
    <3> QED BY <3>3, <3>4, <3>5, IdleType
  <2> DEFINE q == IF TxExists(t) /\ ~ledger[t].reconciled THEN Checked(r, t) ELSE Idle
  <2>3. GoodRequest(q)
    BY <2>2, IdleType
  <2>4. req' = [req EXCEPT ![r] = q]
    BY <1>6 DEF CheckSelected
  <2> HIDE DEF q
  <2> QED BY <1>0, <2>3, <2>4, WriteRequest
<1>7. ASSUME NEW l \in Lines, NextRow(r, l)
      PROVE  RequestsOK'
  <2> DEFINE row == [req[r] EXCEPT !.pc = "claim", !.line = l, !.amount = lines[l].amount,
                                   !.link = NoTx, !.made = NoTx,
                                   !.todo = @ \ {<<l, NoAmount>>}]
             q   == IF Exists(l) THEN row ELSE Idle
  <2>1. ASSUME Exists(l) PROVE GoodRequest(row)
    <3>1. lines[l].amount \in Amounts
      BY <1>0, <2>1, ExistingLine
    <3> QED BY <1>0, <3>1 DEF GoodRequest, Request, Control
  <2>2. GoodRequest(q)
    BY <2>1, IdleType
  <2>3. req' = [req EXCEPT ![r] = q]
    BY <1>7 DEF NextRow
  <2> QED BY <1>0, <2>2, <2>3, WriteRequest
<1>8. CASE ReadCandidates(r)
  <2> DEFINE open == {u \in Txs : TxExists(u) /\ ~ledger[u].reconciled}
             snap == {<<t, ledger[t].amount>> : t \in open}
             q    == [req[r] EXCEPT !.pc = "rows", !.cands = snap]
  <2>1. snap \in SUBSET (Txs \X Amounts)
    BY <1>0 DEF LedgerTypeOK, TxExists
  <2>3. req' = [req EXCEPT ![r] = q]
    BY <1>8 DEF ReadCandidates
  <2> HIDE DEF snap
  <2>2. GoodRequest(q)
    BY <1>0, <2>1 DEF GoodRequest, Request, Control
  <2> QED BY <1>0, <2>2, <2>3, WriteRequest
<1>9. ASSUME NEW l \in Lines, NEW t \in Txs, NEW a \in Amounts, NextPair(r, l, t, a)
      PROVE  RequestsOK'
  <2> DEFINE q == [req[r] EXCEPT !.pc = "claim", !.line = l, !.amount = a, !.link = t,
                                 !.sel = {t}, !.left = {t}, !.todo = @ \ {<<l, a>>}]
  <2>1. GoodRequest(q)
    BY <1>0 DEF GoodRequest, Request, Control
  <2>2. req' = [req EXCEPT ![r] = q]
    BY <1>9 DEF NextPair
  <2> QED BY <1>0, <2>1, <2>2, WriteRequest
<1>10. CASE FinishAuto(r) \/ RefuseRow(r)
  BY <1>0, <1>10, IdleType, WriteRequest DEF FinishAuto, RefuseRow
<1>11. CASE LoseClaim(r)
  <2> DEFINE q == IF Loops(r) THEN [req[r] EXCEPT !.pc = "rows"] ELSE Idle
  <2>1. GoodRequest(q)
    BY <1>0, IdleType DEF GoodRequest, Request, Control
  <2>2. req' = [req EXCEPT ![r] = q]
    BY <1>11 DEF LoseClaim
  <2> QED BY <1>0, <2>1, <2>2, WriteRequest
<1> QED BY <1>1, <1>2, <1>3, <1>4, <1>5, <1>6, <1>7, <1>8, <1>9, <1>10, <1>11

LEMMA WritingType ==
  ASSUME TypeOK, NEW r \in Requests,
         \/ FinishCash(r)
         \/ Claim(r)
         \/ \E t \in Txs : PostTransaction(r, t)
         \/ \E x \in Transfers : PostTransfer(r, x)
         \/ \E t \in Txs : ReconcileSelected(r, t)
         \/ FailPosting(r)
         \/ Attach(r)
         \/ FailAttach(r)
         \/ Release(r)
         \/ StampAuto(r)
         \/ Kill(r)
         \/ UndoImport(r)
  PROVE  RequestsOK'
<1>0. RequestsOK /\ GoodRequest(req[r])
  BY TypeParts DEF RequestsOK
<1>1. CASE FinishCash(r) \/ FailAttach(r) \/ Release(r) \/ Kill(r) \/ UndoImport(r)
  <2>1. req' = [req EXCEPT ![r] = Idle]
    BY <1>1 DEF FinishCash, FailAttach, Release, Kill, UndoImport
  <2> QED BY <1>0, <2>1, IdleType, WriteRequest
<1>2. CASE Claim(r) \/ FailPosting(r) \/ StampAuto(r)
  <2>1. PICK c \in {"post", "release", "rows"} :
          /\ req' = [req EXCEPT ![r].pc = c]
          /\ c # "rows" => req[r].pc \in {"claim", "post"}
    BY <1>2 DEF Claim, FailPosting, StampAuto
  <2> QED BY <1>0, <2>1, MoveRequest DEF GoodRequest, Control
<1>3. ASSUME NEW t \in Txs, PostTransaction(r, t)
      PROVE  RequestsOK'
  <2> DEFINE q == [req[r] EXCEPT !.pc = "attach", !.link = t, !.made = t]
  <2>1. req[r].pc = "post"
    BY <1>3 DEF PostTransaction
  <2>2. GoodRequest(q)
    BY <1>0, <2>1 DEF GoodRequest, Request, Control, Postings
  <2>3. req' = [req EXCEPT ![r] = q]
    BY <1>3 DEF PostTransaction
  <2> QED BY <1>0, <2>2, <2>3, WriteRequest
<1>4. ASSUME NEW x \in Transfers, PostTransfer(r, x)
      PROVE  RequestsOK'
  <2> DEFINE q == [req[r] EXCEPT !.pc = "attach", !.made = x]
  <2>1. req[r].pc = "post"
    BY <1>4 DEF PostTransfer
  <2>2. GoodRequest(q)
    BY <1>0, <2>1 DEF GoodRequest, Request, Control, Postings
  <2>3. req' = [req EXCEPT ![r] = q]
    BY <1>4 DEF PostTransfer
  <2> QED BY <1>0, <2>2, <2>3, WriteRequest
<1>5. ASSUME NEW t \in Txs, ReconcileSelected(r, t)
      PROVE  RequestsOK'
  <2> DEFINE c == IF req[r].left = {t} THEN "attach" ELSE "post"
             q == [req[r] EXCEPT !.left = @ \ {t}, !.pc = c]
  <2>1. req[r].pc = "post"
    BY <1>5 DEF ReconcileSelected
  <2>2. req' = [req EXCEPT ![r] = q]
    BY <1>5 DEF ReconcileSelected
  <2>3. c \in {"attach", "post"}
    OBVIOUS
  <2> HIDE DEF c
  <2>4. GoodRequest(q)
    BY <1>0, <2>1, <2>3 DEF GoodRequest, Request, Control
  <2> QED BY <1>0, <2>2, <2>4, WriteRequest
<1>6. CASE Attach(r)
  <2> DEFINE next == [req[r] EXCEPT !.pc = "rows", !.done = @ \cup {req[r].line},
                                    !.line = NoLine, !.link = NoTx, !.made = NoTx]
             rest == {c \in req[r].cands : c[1] # req[r].link}
             seal == [req[r] EXCEPT !.pc = "stamp", !.cands = rest]
  <2>1. req[r].pc = "attach" /\ req[r].line \in Lines
    BY <1>0, <1>6 DEF Attach, GoodRequest
  <2>2. GoodRequest(next)
    BY <1>0, <2>1 DEF GoodRequest, Request, Control
  <2>3. Attached(r) \in {next, seal, Idle}
    BY DEF Attached
  <2>4. rest \in SUBSET (Txs \X Amounts)
    BY <1>0 DEF GoodRequest, Request
  <2> HIDE DEF rest
  <2>5. GoodRequest(seal)
    BY <1>0, <2>4 DEF GoodRequest, Request, Control
  <2>6. GoodRequest(Attached(r))
    BY <2>2, <2>3, <2>5, IdleType
  <2>7. req' = [req EXCEPT ![r] = Attached(r)]
    BY <1>6 DEF Attach
  <2> QED BY <1>0, <2>6, <2>7, WriteRequest
<1> QED BY <1>1, <1>2, <1>3, <1>4, <1>5, <1>6

----------------------------------------------------------------------------
(* Types: every step. *)

LEMMA TypeInit == Init => TypeOK
<1> SUFFICES ASSUME Init PROVE TypeOK
  OBVIOUS
<1>1. LinesTypeOK
  BY DEF Init, LinesInit, LinesTypeOK, AbsentRow, Row, LineStatus
<1>2. LedgerTypeOK
  BY DEF Init, LedgerInit, LedgerTypeOK, TxStatus
<1>3. RequestsOK
  BY IdleType DEF Init, RequestsOK, GoodRequest
<1>4. HistoryOK
  BY ReconcileAssumption DEF Init, HistoryOK
<1> QED BY <1>1, <1>2, <1>3, <1>4, TypeParts DEF Init

LEMMA TypeStep ==
  ASSUME TypeOK, [Next]_vars
  PROVE  TypeOK'
<1>0. /\ LinesTypeOK /\ LedgerTypeOK /\ RequestsOK /\ HistoryOK
      /\ file \in {"STAGED", "IMPORTED", "DELETED"}
  BY TypeParts
<1> USE <1>0
<1>1. ASSUME NEW r \in Requests, Start(r)
      PROVE  TypeOK'
  <2>1. RequestsOK'
    BY <1>1, ReadingType DEF Start
  <2>2. UNCHANGED <<lines, ledger, file, history>>
    BY <1>1 DEF Start, StartOnLine, StartMatch, StartCash, StartAuto, StartUndo
  <2> QED BY <2>1, <2>2, TypePartsNext DEF LinesTypeOK, LedgerTypeOK, HistoryOK, history
<1>2. ASSUME NEW r \in Requests,
             \/ \E t \in Txs : CheckSelected(r, t)
             \/ \E l \in Lines : NextRow(r, l)
             \/ ReadCandidates(r)
             \/ \E l \in Lines, t \in Txs, a \in Amounts : NextPair(r, l, t, a)
             \/ FinishAuto(r)
             \/ RefuseRow(r)
             \/ LoseClaim(r)
      PROVE  TypeOK'
  <2>1. RequestsOK'
    BY <1>2, ReadingType
  <2>2. UNCHANGED <<lines, ledger, file, history>>
    <3>1. \A t \in Txs : CheckSelected(r, t) => UNCHANGED <<lines, ledger, file, history>>
      BY DEF CheckSelected
    <3>2. \A l \in Lines : NextRow(r, l) => UNCHANGED <<lines, ledger, file, history>>
      BY DEF NextRow
    <3>3. \A l \in Lines, t \in Txs, a \in Amounts :
            NextPair(r, l, t, a) => UNCHANGED <<lines, ledger, file, history>>
      BY DEF NextPair
    <3>4. ReadCandidates(r) \/ FinishAuto(r) \/ RefuseRow(r) \/ LoseClaim(r)
            => UNCHANGED <<lines, ledger, file, history>>
      BY DEF ReadCandidates, FinishAuto, RefuseRow, LoseClaim
    <3> QED BY <1>2, <3>1, <3>2, <3>3, <3>4
  <2> QED BY <2>1, <2>2, TypePartsNext DEF LinesTypeOK, LedgerTypeOK, HistoryOK, history
<1>3. ASSUME NEW r \in Requests, FinishCash(r) \/ StampAuto(r)
      PROVE  TypeOK'
  <2>1. RequestsOK'
    BY <1>3, WritingType
  <2>2. UNCHANGED <<ledger, file, history>>
    BY <1>3 DEF FinishCash, StampAuto
  <2>3. LinesTypeOK'
    BY <1>3, StampLinesType DEF FinishCash, StampAuto
  <2> QED BY <2>1, <2>2, <2>3, TypePartsNext DEF LedgerTypeOK, HistoryOK, history
<1>4. ASSUME NEW r \in Requests, Claim(r) \/ Attach(r) \/ Release(r)
      PROVE  TypeOK'
  <2>1. RequestsOK'
    BY <1>4, WritingType
  <2>2. req[r].line \in Lines /\ req[r].link \in Txs \cup {NoTx}
    BY <1>4 DEF Claim, Attach, Release, RequestsOK, GoodRequest, Request
  <2>3. LinesTypeOK'
    BY <1>4, <2>2, ClaimLineType, AttachLineType, ReleaseLineType
       DEF Claim, Attach, Release
  <2>4. UNCHANGED <<ledger, file, kills, posted, lost>> /\ abandoned' \subseteq abandoned
    BY <1>4 DEF Claim, Attach, Release, history
  <2> QED BY <2>1, <2>3, <2>4, TypePartsNext DEF LedgerTypeOK, HistoryOK
<1>5. ASSUME NEW r \in Requests, FailPosting(r) \/ FailAttach(r)
      PROVE  TypeOK'
  <2>1. RequestsOK'
    BY <1>5, WritingType
  <2>2. UNCHANGED <<lines, ledger, file, history>>
    BY <1>5 DEF FailPosting, FailAttach
  <2> QED BY <2>1, <2>2, TypePartsNext DEF LinesTypeOK, LedgerTypeOK, HistoryOK, history
<1>6. ASSUME NEW r \in Requests, NEW t \in Txs, PostTransaction(r, t)
      PROVE  TypeOK'
  <2>1. RequestsOK'
    BY <1>6, WritingType
  <2>2. req[r].line \in Lines /\ req[r].amount \in Amounts
    BY <1>6 DEF PostTransaction, RequestsOK, GoodRequest
  <2>3. LedgerTypeOK'
    BY <1>6, <2>2, CreateTxType DEF PostTransaction
  <2>4. posted' \in [Lines -> SUBSET Postings]
    BY <1>6, <2>2 DEF PostTransaction, HistoryOK, Postings
  <2>5. UNCHANGED <<lines, file, kills, lost, abandoned>>
    BY <1>6 DEF PostTransaction
  <2> QED BY <2>1, <2>3, <2>4, <2>5, TypePartsNext DEF LinesTypeOK, HistoryOK
<1>7. ASSUME NEW r \in Requests, NEW x \in Transfers, PostTransfer(r, x)
      PROVE  TypeOK'
  <2>1. RequestsOK'
    BY <1>7, WritingType
  <2>2. req[r].line \in Lines
    BY <1>7 DEF PostTransfer, RequestsOK, GoodRequest
  <2>3. posted' \in [Lines -> SUBSET Postings]
    BY <1>7, <2>2 DEF PostTransfer, HistoryOK, Postings
  <2>4. UNCHANGED <<lines, ledger, file, kills, lost, abandoned>>
    BY <1>7 DEF PostTransfer
  <2> QED BY <2>1, <2>3, <2>4, TypePartsNext DEF LinesTypeOK, LedgerTypeOK, HistoryOK
<1>8. ASSUME NEW r \in Requests, NEW t \in Txs, ReconcileSelected(r, t)
      PROVE  TypeOK'
  <2>1. RequestsOK'
    BY <1>8, WritingType
  <2>2. LedgerTypeOK'
    BY <1>8, ReconcileTxType DEF ReconcileSelected
  <2>3. UNCHANGED <<lines, file, history>>
    BY <1>8 DEF ReconcileSelected
  <2> QED BY <2>1, <2>2, <2>3, TypePartsNext DEF LinesTypeOK, HistoryOK, history
<1>9. ASSUME NEW r \in Requests, Kill(r)
      PROVE  TypeOK'
  <2>1. RequestsOK'
    BY <1>9, WritingType
  <2>2. req[r].made \in Postings \cup {NoTx}
    BY DEF RequestsOK, GoodRequest, Request
  <2>3. lost' \in SUBSET Postings
    BY <1>9, <2>2 DEF Kill, HistoryOK
  <2>4. abandoned' \in SUBSET Lines
    BY <1>9 DEF Kill, HistoryOK
  <2>5. kills' \in 0..MaxKills
    BY <1>9, ReconcileAssumption DEF Kill, HistoryOK
  <2>6. UNCHANGED <<lines, ledger, file, posted>>
    BY <1>9 DEF Kill
  <2>7. HistoryOK'
    BY <2>3, <2>4, <2>5, <2>6 DEF HistoryOK
  <2> QED BY <2>1, <2>6, <2>7, TypePartsNext DEF LinesTypeOK, LedgerTypeOK
<1>10. ASSUME NEW r \in Requests, UndoImport(r)
       PROVE  TypeOK'
  <2>1. RequestsOK'
    BY <1>10, WritingType
  <2>2. LinesTypeOK' /\ file' \in {"STAGED", "IMPORTED", "DELETED"}
    <3>1. CASE UNCHANGED <<lines, file>>
      BY <3>1 DEF LinesTypeOK
    <3>2. CASE DeleteImportLines /\ file' = "DELETED"
      BY <3>2, DeleteImportType
    <3> QED BY <1>10, <3>1, <3>2 DEF UndoImport
  <2>3. UNCHANGED <<ledger, history>>
    BY <1>10 DEF UndoImport
  <2> QED BY <2>1, <2>2, <2>3, TypePartsNext DEF LedgerTypeOK, HistoryOK, history
<1>11. CASE Edit
  <2>1. UNCHANGED <<req, history>> /\ file' \in {"STAGED", "IMPORTED", "DELETED"}
    BY <1>11 DEF Edit, IgnoreOrUnignore, DeleteStatementLine, DismissUpstreamChange,
       FeedDelivers, FeedWithdraws, CommitImport, EnterTransaction, EditTransaction,
       DeleteTransaction, SetReconciled
  <2>2. RequestsOK' /\ HistoryOK'
    BY <2>1 DEF RequestsOK, HistoryOK, history
  <2>3. LinesTypeOK'
    <3>1. ASSUME NEW l \in Lines,
                 \/ \E s \in {"NEW", "IGNORED"} : SetLineStatus(l, s)
                 \/ DeleteLine(l)
                 \/ DismissUpstreamRemoval(l)
                 \/ \E a \in Amounts : UpsertStatementLine(l, a)
                 \/ ApplyRemovedLine(l)
          PROVE  LinesTypeOK'
      BY <3>1, SetLineStatusType, DeleteLineType, DismissType, UpsertType, RemovedType
    <3>2. ASSUME NEW S \in SUBSET ImportLines, NEW a \in Amounts,
                 InsertImportLines([l \in S |-> a])
          PROVE  LinesTypeOK'
      BY <3>2, InsertType
    <3>3. CASE UNCHANGED lines
      BY <3>3 DEF LinesTypeOK
    <3> QED BY <1>11, <3>1, <3>2, <3>3
         DEF Edit, IgnoreOrUnignore, DeleteStatementLine, DismissUpstreamChange,
             FeedDelivers, FeedWithdraws, CommitImport, EnterTransaction,
             EditTransaction, DeleteTransaction, SetReconciled
  <2>4. LedgerTypeOK'
    <3>1. ASSUME NEW t \in Txs,
                 \/ \E a \in Amounts, rec \in BOOLEAN : CreateTx(t, a, rec)
                 \/ \E s \in {"AUTHORISED", "DELETED"}, a \in Amounts, rec \in BOOLEAN :
                      UpdateTx(t, s, a, rec)
                 \/ DeleteTx(t)
                 \/ \E rec \in BOOLEAN : ReconcileTx(t, rec)
          PROVE  LedgerTypeOK'
      BY <3>1, CreateTxType, UpdateTxType, DeleteTxType, ReconcileTxType
    <3>2. CASE UNCHANGED ledger
      BY <3>2 DEF LedgerTypeOK
    <3> QED BY <1>11, <3>1, <3>2
         DEF Edit, IgnoreOrUnignore, DeleteStatementLine, DismissUpstreamChange,
             FeedDelivers, FeedWithdraws, CommitImport, EnterTransaction,
             EditTransaction, DeleteTransaction, SetReconciled
  <2> QED BY <2>1, <2>2, <2>3, <2>4, TypePartsNext
<1>12. ASSUME NEW l \in Lines, ClaimExpires(l)
       PROVE  TypeOK'
  <2>1. LinesTypeOK'
    BY <1>12, AgeClaimType DEF ClaimExpires
  <2>2. UNCHANGED <<ledger, file, req, history>>
    BY <1>12 DEF ClaimExpires
  <2> QED BY <2>1, <2>2, TypePartsNext DEF LedgerTypeOK, RequestsOK, HistoryOK, history
<1>13. CASE UNCHANGED vars
  BY <1>13, TypePartsNext
     DEF vars, LinesTypeOK, LedgerTypeOK, RequestsOK, HistoryOK
<1> QED BY <1>1, <1>2, <1>3, <1>4, <1>5, <1>6, <1>7, <1>8, <1>9, <1>10, <1>11, <1>12, <1>13
     DEF Next, Proceed

\* Rows, transactions and requests keep their types, and a request that works on
\* a line knows which one and for how much.
THEOREM TypeCorrect == Spec => []TypeOK
<1>1. Init => TypeOK
  BY TypeInit
<1>2. TypeOK /\ [Next]_vars => TypeOK'
  BY TypeStep
<1> QED BY <1>1, <1>2, PTL DEF Spec

----------------------------------------------------------------------------
(* What any step does to the statement lines. *)

OneLineStep(l) ==
  \/ ClaimLine(l)
  \/ \E t \in Txs \cup {NoTx} : AttachLine(l, t)
  \/ ReleaseLine(l)
  \/ AgeClaim(l)
  \/ \E s \in {"NEW", "IGNORED"} : SetLineStatus(l, s)
  \/ DeleteLine(l)
  \/ DismissUpstreamRemoval(l)
  \/ \E a \in Amounts : UpsertStatementLine(l, a)
  \/ ApplyRemovedLine(l)

Insertion ==
  /\ file = "STAGED" /\ file' = "IMPORTED"
  /\ \E S \in SUBSET ImportLines, a \in Amounts : InsertImportLines([l \in S |-> a])

LineStep ==
  \/ \E l \in Lines : OneLineStep(l)
  \/ \E S : \E s \in {"coded", "auto"} : StampLines(S, s)
  \/ Insertion
  \/ DeleteImportLines
  \/ UNCHANGED lines

\* The line a request works on.
LEMMA WorkedLine ==
  ASSUME TypeOK, NEW r \in Requests,
         req[r].pc \in {"check", "claim", "post", "attach", "release"}
  PROVE  req[r].line \in Lines /\ req[r].link \in Txs \cup {NoTx}
BY DEF TypeOK, WorksOnLine, Request

LEMMA ReadingLeavesLines ==
  ASSUME NEW r \in Requests,
         \/ Start(r)
         \/ \E t \in Txs : CheckSelected(r, t)
         \/ \E l \in Lines : NextRow(r, l)
         \/ ReadCandidates(r)
         \/ \E l \in Lines, t \in Txs, a \in Amounts : NextPair(r, l, t, a)
         \/ FinishAuto(r)
         \/ RefuseRow(r)
         \/ LoseClaim(r)
         \/ \E t \in Txs : PostTransaction(r, t)
         \/ \E x \in Transfers : PostTransfer(r, x)
         \/ \E t \in Txs : ReconcileSelected(r, t)
         \/ FailPosting(r)
         \/ FailAttach(r)
         \/ Kill(r)
  PROVE  UNCHANGED <<lines, file>>
<1>1. Start(r) => UNCHANGED <<lines, file>>
  BY DEF Start, StartOnLine, StartMatch, StartCash, StartAuto, StartUndo
<1>2. \A t \in Txs : CheckSelected(r, t) \/ PostTransaction(r, t) \/ ReconcileSelected(r, t)
                       => UNCHANGED <<lines, file>>
  BY DEF CheckSelected, PostTransaction, ReconcileSelected
<1>3. \A l \in Lines : NextRow(r, l) => UNCHANGED <<lines, file>>
  BY DEF NextRow
<1>4. ASSUME NEW l \in Lines, NEW t \in Txs, NEW a \in Amounts, NextPair(r, l, t, a)
      PROVE  UNCHANGED <<lines, file>>
  BY <1>4 DEF NextPair
<1>5. \A x \in Transfers : PostTransfer(r, x) => UNCHANGED <<lines, file>>
  BY DEF PostTransfer
<1>6. ReadCandidates(r) \/ FinishAuto(r) \/ RefuseRow(r) \/ LoseClaim(r) \/ FailPosting(r)
        \/ FailAttach(r) \/ Kill(r) => UNCHANGED <<lines, file>>
  BY DEF ReadCandidates, FinishAuto, RefuseRow, LoseClaim, FailPosting, FailAttach, Kill
<1> QED BY <1>1, <1>2, <1>3, <1>4, <1>5, <1>6

LEMMA NextIsLineStep ==
  ASSUME TypeOK, [Next]_vars
  PROVE  LineStep
<1>1. ASSUME NEW r \in Requests, Claim(r) \/ Attach(r) \/ Release(r)
      PROVE  LineStep
  <2>1. req[r].line \in Lines /\ req[r].link \in Txs \cup {NoTx}
    BY <1>1, WorkedLine DEF Claim, Attach, Release
  <2> QED BY <1>1, <2>1 DEF Claim, Attach, Release, LineStep, OneLineStep
<1>2. ASSUME NEW r \in Requests, FinishCash(r) \/ StampAuto(r)
      PROVE  LineStep
  BY <1>2 DEF FinishCash, StampAuto, LineStep
<1>3. ASSUME NEW r \in Requests, UndoImport(r)
      PROVE  LineStep
  BY <1>3 DEF UndoImport, LineStep
<1>4. CASE Edit
  <2>1. ASSUME NEW l \in Lines,
               \/ \E s \in {"NEW", "IGNORED"} : IgnoreOrUnignore(l, s)
               \/ DeleteStatementLine(l)
               \/ DismissUpstreamChange(l)
               \/ \E a \in Amounts : FeedDelivers(l, a)
               \/ FeedWithdraws(l)
        PROVE  OneLineStep(l)
    BY <2>1 DEF IgnoreOrUnignore, DeleteStatementLine, DismissUpstreamChange,
                FeedDelivers, FeedWithdraws, OneLineStep
  <2>2. ASSUME NEW S \in SUBSET ImportLines, NEW a \in Amounts, CommitImport(S, a)
        PROVE  Insertion
    BY <2>2 DEF CommitImport, Insertion
  <2>3. ASSUME NEW t \in Txs,
               \/ \E a \in Amounts, rec \in BOOLEAN : EnterTransaction(t, a, rec)
               \/ \E s \in {"AUTHORISED", "DELETED"}, a \in Amounts, rec \in BOOLEAN :
                    EditTransaction(t, s, a, rec)
               \/ DeleteTransaction(t)
               \/ \E rec \in BOOLEAN : SetReconciled(t, rec)
        PROVE  UNCHANGED lines
    BY <2>3 DEF EnterTransaction, EditTransaction, DeleteTransaction, SetReconciled
  <2> QED BY <1>4, <2>1, <2>2, <2>3 DEF Edit, LineStep
<1>5. ASSUME NEW l \in Lines, ClaimExpires(l)
      PROVE  LineStep
  BY <1>5 DEF ClaimExpires, LineStep, OneLineStep
<1>6. CASE UNCHANGED vars
  BY <1>6 DEF vars, LineStep
<1> QED BY <1>1, <1>2, <1>3, <1>4, <1>5, <1>6, ReadingLeavesLines
     DEF Next, Proceed, LineStep

----------------------------------------------------------------------------
(* Booked figures. *)

FiguresKept ==
  \A l \in Lines : Booked(l) /\ Booked(l)' =>
    /\ lines'[l].amount = lines[l].amount
    /\ lines[l].status = "IMPORTED" => lines'[l].tx = lines[l].tx

LEMMA OneLineKeepsFigures ==
  ASSUME TypeOK, NEW l \in Lines, OneLineStep(l)
  PROVE  FiguresKept
<1>0. lines \in [Lines -> Row]
  BY DEF TypeOK, LinesTypeOK
<1>1. CASE ClaimLine(l) \/ ReleaseLine(l) \/ AgeClaim(l) \/ DeleteLine(l)
             \/ DismissUpstreamRemoval(l)
             \/ \E s \in {"NEW", "IGNORED"} : SetLineStatus(l, s)
  <2>1. \A k \in Lines : lines'[k].amount = lines[k].amount /\ lines'[k].tx = lines[k].tx
    BY <1>0, <1>1 DEF Row, ClaimLine, ReleaseLine, AgeClaim, DeleteLine,
       DismissUpstreamRemoval, SetLineStatus
  <2> QED BY <2>1 DEF FiguresKept
<1>2. ASSUME NEW t \in Txs \cup {NoTx}, AttachLine(l, t)
      PROVE  FiguresKept
  BY <1>0, <1>2 DEF FiguresKept, Row, AttachLine
<1>3. ASSUME NEW a \in Amounts, UpsertStatementLine(l, a)
      PROVE  FiguresKept
  BY <1>0, <1>3 DEF FiguresKept, Row, UpsertStatementLine, Booked, InInbox
<1>4. CASE ApplyRemovedLine(l)
  BY <1>0, <1>4 DEF FiguresKept, Row, ApplyRemovedLine, Booked, InInbox
<1> QED BY <1>1, <1>2, <1>3, <1>4 DEF OneLineStep

LEMMA StepKeepsFigures ==
  ASSUME TypeOK, [Next]_vars
  PROVE  FiguresKept
<1>0. lines \in [Lines -> Row]
  BY DEF TypeOK, LinesTypeOK
<1>1. ASSUME NEW S, NEW s \in {"coded", "auto"}, StampLines(S, s)
      PROVE  FiguresKept
  BY <1>0, <1>1 DEF FiguresKept, Row, StampLines
<1>2. CASE Insertion
  <2>1. PICK S \in SUBSET ImportLines, a \in Amounts : InsertImportLines([l \in S |-> a])
    BY <1>2 DEF Insertion
  <2>2. \A l \in Lines : lines'[l] = IF l \in S THEN NewRow(a) ELSE lines[l]
    BY <2>1 DEF InsertImportLines
  <2>3. NewRow(a).status = "NEW"
    BY DEF NewRow, AbsentRow
  <2> QED BY <2>2, <2>3 DEF FiguresKept, Booked
<1>3. CASE DeleteImportLines
  BY <1>0, <1>3 DEF FiguresKept, Row, DeleteImportLines, Booked, Exists
<1>4. CASE UNCHANGED lines
  BY <1>4 DEF FiguresKept
<1> QED BY <1>1, <1>2, <1>3, <1>4, NextIsLineStep, OneLineKeepsFigures DEF LineStep

\* Whoever acts on a line and in whatever order, nothing rewrites its amount
\* from the claim on, nor what it was booked as.  (upsertStatementLineSQL)
THEOREM FiguresFixed == Spec => BookedFiguresFixed
<1>1. TypeOK /\ [Next]_vars => [FiguresKept]_vars
  BY StepKeepsFigures
<1> QED BY <1>1, TypeCorrect, PTL DEF Spec, BookedFiguresFixed, FiguresKept

----------------------------------------------------------------------------
(* Refinement of LineBook. *)

\* Until the file is committed none of its lines is there.
FileFirst == file = "STAGED" => \A l \in ImportLines : lines[l].status = "ABSENT"

LEMMA FileFirstStep ==
  ASSUME TypeOK, FileFirst, [Next]_vars
  PROVE  FileFirst'
<1> SUFFICES ASSUME file' = "STAGED", NEW l \in ImportLines
             PROVE  lines'[l].status = "ABSENT"
  BY DEF FileFirst
<1>0. lines \in [Lines -> Row] /\ l \in Lines /\ l \notin FeedLines
  BY DEF TypeOK, LinesTypeOK, ImportLines
<1>1. file = "STAGED"
  <2>1. ASSUME NEW r \in Requests, UndoImport(r) PROVE file = "STAGED"
    BY <2>1 DEF UndoImport
  <2>2. ASSUME NEW r \in Requests,
               \/ FinishCash(r) \/ Claim(r) \/ Attach(r) \/ Release(r) \/ StampAuto(r)
        PROVE  file = "STAGED"
    BY <2>2 DEF FinishCash, Claim, Attach, Release, StampAuto
  <2>3. CASE Edit
    BY <2>3 DEF Edit, IgnoreOrUnignore, DeleteStatementLine, DismissUpstreamChange,
       FeedDelivers, FeedWithdraws, CommitImport, EnterTransaction, EditTransaction,
       DeleteTransaction, SetReconciled
  <2>4. ASSUME NEW k \in Lines, ClaimExpires(k) PROVE file = "STAGED"
    BY <2>4 DEF ClaimExpires
  <2>5. CASE UNCHANGED vars
    BY <2>5 DEF vars
  <2> QED BY <2>1, <2>2, <2>3, <2>4, <2>5, ReadingLeavesLines DEF Next, Proceed
<1>2. lines[l].status = "ABSENT"
  BY <1>1 DEF FileFirst
<1>3. ASSUME NEW k \in Lines, OneLineStep(k)
      PROVE  lines'[l].status = "ABSENT"
  <2>1. CASE k # l
    BY <1>0, <1>2, <1>3, <2>1
       DEF OneLineStep, ClaimLine, AttachLine, ReleaseLine, AgeClaim, SetLineStatus,
           DeleteLine, DismissUpstreamRemoval, UpsertStatementLine, ApplyRemovedLine
  <2>2. CASE k = l
    BY <1>0, <1>2, <1>3, <2>2
       DEF OneLineStep, ClaimLine, Claimable, InInbox, AttachLine, ReleaseLine, AgeClaim,
           SetLineStatus, DeleteLine, DismissUpstreamRemoval, UpsertStatementLine,
           ApplyRemovedLine, Exists, Row
  <2> QED BY <2>1, <2>2
<1>4. ASSUME NEW S, NEW s \in {"coded", "auto"}, StampLines(S, s)
      PROVE  lines'[l].status = "ABSENT"
  BY <1>0, <1>2, <1>4 DEF StampLines, Exists
<1>5. CASE DeleteImportLines
  BY <1>0, <1>2, <1>5 DEF DeleteImportLines, Exists
<1>6. ~Insertion
  BY DEF Insertion
<1> QED BY <1>2, <1>3, <1>4, <1>5, <1>6, NextIsLineStep DEF LineStep

PlaceOf == [l \in Lines |-> Place(l)]

LEMMA PlaceIsOfStatus ==
  ASSUME NEW l \in Lines
  PROVE  /\ lines[l].status = "ABSENT" => Place(l) = "nowhere"
         /\ lines[l].status \in {"NEW", "IGNORED"} => Place(l) = "inbox"
         /\ lines[l].status = "PROCESSING" => Place(l) = "claimed"
         /\ lines[l].status = "IMPORTED" => Place(l) = "booked"
         /\ lines[l].status = "DELETED" => Place(l) = "gone"
BY DEF Place, InInbox

LEMMA PlaceIsOfStatusNext ==
  ASSUME NEW l \in Lines
  PROVE  /\ lines'[l].status = "ABSENT" => Place(l)' = "nowhere"
         /\ lines'[l].status \in {"NEW", "IGNORED"} => Place(l)' = "inbox"
         /\ lines'[l].status = "PROCESSING" => Place(l)' = "claimed"
         /\ lines'[l].status = "IMPORTED" => Place(l)' = "booked"
         /\ lines'[l].status = "DELETED" => Place(l)' = "gone"
BY DEF Place, InInbox

LEMMA SamePlace ==
  ASSUME NEW l \in Lines, lines'[l].status = lines[l].status
  PROVE  Place(l)' = Place(l)
BY DEF Place, InInbox

\* The status changes one statement on one line can make.
StatusMove(s, t) ==
  \/ t = s
  \/ s = "ABSENT" /\ t = "NEW"
  \/ s \in {"NEW", "IGNORED"} /\ t \in {"NEW", "IGNORED", "PROCESSING", "DELETED"}
  \/ s = "PROCESSING" /\ t \in {"NEW", "IGNORED", "IMPORTED", "DELETED"}

LEMMA OneLineMoves ==
  ASSUME TypeOK, NEW l \in Lines, OneLineStep(l)
  PROVE  /\ StatusMove(lines[l].status, lines'[l].status)
         /\ \A k \in Lines \ {l} : lines'[k] = lines[k]
<1>0. lines \in [Lines -> Row] /\ lines[l].status \in LineStatus
  BY DEF TypeOK, LinesTypeOK, Row
<1>1. CASE ClaimLine(l)
  BY <1>0, <1>1 DEF ClaimLine, Claimable, InInbox, StatusMove, Row
<1>2. ASSUME NEW t \in Txs \cup {NoTx}, AttachLine(l, t)
      PROVE  /\ StatusMove(lines[l].status, lines'[l].status)
             /\ \A k \in Lines \ {l} : lines'[k] = lines[k]
  BY <1>0, <1>2 DEF AttachLine, StatusMove, Row
<1>3. CASE ReleaseLine(l) \/ AgeClaim(l) \/ DismissUpstreamRemoval(l)
  BY <1>0, <1>3 DEF ReleaseLine, AgeClaim, DismissUpstreamRemoval, StatusMove, Row
<1>4. ASSUME NEW s \in {"NEW", "IGNORED"}, SetLineStatus(l, s)
      PROVE  /\ StatusMove(lines[l].status, lines'[l].status)
             /\ \A k \in Lines \ {l} : lines'[k] = lines[k]
  BY <1>0, <1>4 DEF SetLineStatus, Exists, LineStatus, StatusMove, Row
<1>5. CASE DeleteLine(l)
  BY <1>0, <1>5 DEF DeleteLine, Exists, LineStatus, StatusMove, Row
<1>6. ASSUME NEW a \in Amounts, UpsertStatementLine(l, a)
      PROVE  /\ StatusMove(lines[l].status, lines'[l].status)
             /\ \A k \in Lines \ {l} : lines'[k] = lines[k]
  <2>1. NewRow(a).status = "NEW"
    BY DEF NewRow, AbsentRow
  <2> QED BY <1>0, <1>6, <2>1 DEF UpsertStatementLine, StatusMove, Row
<1>7. CASE ApplyRemovedLine(l)
  BY <1>0, <1>7 DEF ApplyRemovedLine, InInbox, StatusMove, Row
<1> QED BY <1>1, <1>2, <1>3, <1>4, <1>5, <1>6, <1>7 DEF OneLineStep

LEMMA MoveIsBookStep ==
  ASSUME TypeOK, TypeOK', NEW l \in Lines,
         StatusMove(lines[l].status, lines'[l].status),
         \A k \in Lines \ {l} : lines'[k] = lines[k]
  PROVE  Book!Next \/ PlaceOf' = PlaceOf
<1>0. lines[l].status \in LineStatus /\ lines'[l].status \in LineStatus
  BY DEF TypeOK, LinesTypeOK, Row
<1>1. \A k \in Lines \ {l} : Place(k)' = Place(k)
  BY SamePlace
<1>2. /\ PlaceOf' = [PlaceOf EXCEPT ![l] = Place(l)']
      /\ PlaceOf[l] = Place(l)
  BY <1>1 DEF PlaceOf
<1>3. CASE Place(l)' = Place(l)
  BY <1>2, <1>3 DEF PlaceOf
<1>4. CASE Place(l)' # Place(l)
  <2>1. \/ Place(l) = "nowhere" /\ Place(l)' = "inbox"
        \/ Place(l) = "inbox" /\ Place(l)' = "claimed"
        \/ Place(l) = "claimed" /\ Place(l)' = "booked"
        \/ Place(l) = "claimed" /\ Place(l)' = "inbox"
        \/ Place(l) \in {"inbox", "claimed"} /\ Place(l)' = "gone"
    BY <1>0, <1>4, PlaceIsOfStatus, PlaceIsOfStatusNext DEF StatusMove, LineStatus
  <2>2. \/ Book!Arrive(l) \/ Book!Claim(l) \/ Book!Book(l) \/ Book!Return(l) \/ Book!Drop(l)
    BY <1>2, <2>1 DEF Book!Arrive, Book!Claim, Book!Book, Book!Return, Book!Drop,
       Book!Move, PlaceOf
  <2> QED BY <2>2 DEF Book!Next
<1> QED BY <1>3, <1>4

LEMMA BookStep ==
  ASSUME TypeOK, TypeOK', FileFirst, [Next]_vars
  PROVE  Book!Next \/ PlaceOf' = PlaceOf
<1>0. lines \in [Lines -> Row]
  BY DEF TypeOK, LinesTypeOK
<1>1. ASSUME NEW l \in Lines, OneLineStep(l)
      PROVE  Book!Next \/ PlaceOf' = PlaceOf
  BY <1>1, OneLineMoves, MoveIsBookStep
<1>2. ASSUME NEW S, NEW s \in {"coded", "auto"}, StampLines(S, s)
      PROVE  PlaceOf' = PlaceOf
  <2>1. \A l \in Lines : lines'[l].status = lines[l].status
    BY <1>0, <1>2 DEF StampLines, Row
  <2> QED BY <2>1, SamePlace DEF PlaceOf
<1>3. CASE Insertion
  <2>1. PICK S \in SUBSET ImportLines, a \in Amounts : InsertImportLines([l \in S |-> a])
    BY <1>3 DEF Insertion
  <2>2. \A l \in Lines : lines'[l] = IF l \in S THEN NewRow(a) ELSE lines[l]
    BY <2>1 DEF InsertImportLines
  <2>3. NewRow(a).status = "NEW"
    BY DEF NewRow, AbsentRow
  <2>4. \A l \in S : lines[l].status = "ABSENT"
    BY <1>3 DEF Insertion, FileFirst
  <2>5. \A l \in S : l \in Lines /\ Place(l) = "nowhere"
    BY <2>4, PlaceIsOfStatus DEF ImportLines
  <2>6. \A l \in Lines : Place(l)' = IF l \in S THEN "inbox" ELSE Place(l)
    BY <2>2, <2>3, SamePlace, PlaceIsOfStatusNext
  <2>7. PlaceOf' = [l \in Lines |-> IF l \in S THEN "inbox" ELSE PlaceOf[l]]
    BY <2>6 DEF PlaceOf
  <2>8. Book!ArriveTogether
    BY <2>5, <2>7 DEF Book!ArriveTogether, PlaceOf, ImportLines
  <2> QED BY <2>8 DEF Book!Next
<1>4. CASE DeleteImportLines
  <2>1. \A l \in Lines : lines'[l].status = IF l \in FeedLines \/ lines[l].status = "ABSENT"
                                           THEN lines[l].status ELSE "DELETED"
    BY <1>0, <1>4 DEF DeleteImportLines, ImportLines, Exists, Row
  <2>2. \A l \in Lines : (Place(l) = "nowhere") <=> (lines[l].status = "ABSENT")
    BY <1>0, PlaceIsOfStatus DEF Row, LineStatus
  <2>3. \A l \in Lines : Place(l)' = IF l \in FeedLines \/ Place(l) = "nowhere"
                                     THEN Place(l) ELSE "gone"
    BY <2>1, <2>2, SamePlace, PlaceIsOfStatusNext
  <2>4. Book!Undo
    BY <2>3 DEF Book!Undo, PlaceOf
  <2> QED BY <2>4 DEF Book!Next
<1>5. CASE UNCHANGED lines
  BY <1>5, SamePlace DEF PlaceOf
<1> QED BY <1>1, <1>2, <1>3, <1>4, <1>5, NextIsLineStep DEF LineStep

\* The reconcile screen implements LineBook, whatever users, feed and wizard do:
\* a line reaches the books from a claim only, and for good unless its file is
\* undone.  (ClaimLine, AttachLineTransaction, ReleaseLine, ApplyRemovedLines)
THEOREM LineBookKept == Spec => KeepsLineBook
<1>1. Init => FileFirst
  BY DEF Init, LinesInit, AbsentRow, FileFirst, ImportLines
<1>2. TypeOK /\ FileFirst /\ [Next]_vars => FileFirst'
  BY FileFirstStep
<1>3. Init => Book!Init
  <2>1. Init => \A l \in Lines : Place(l) = "nowhere"
    BY PlaceIsOfStatus DEF Init, LinesInit, AbsentRow
  <2> QED BY <2>1 DEF Book!Init
<1>4. TypeOK /\ TypeOK' /\ FileFirst /\ [Next]_vars => [Book!Next]_PlaceOf
  BY BookStep
<1> QED BY <1>1, <1>2, <1>3, <1>4, TypeCorrect, PTL
     DEF Spec, KeepsLineBook, Book!Spec, PlaceOf

----------------------------------------------------------------------------
(* The claim. *)

\* Steps of a request that holds no claim, before and after.
Reads(r) ==
  \/ Start(r)
  \/ \E t \in Txs : CheckSelected(r, t)
  \/ \E l \in Lines : NextRow(r, l)
  \/ FinishCash(r)
  \/ ReadCandidates(r)
  \/ \E l \in Lines, t \in Txs, a \in Amounts : NextPair(r, l, t, a)
  \/ FinishAuto(r)
  \/ RefuseRow(r)
  \/ LoseClaim(r)
  \/ StampAuto(r)
  \/ UndoImport(r)

\* Steps of a request inside its claim.
Works(r) ==
  \/ \E t \in Txs : PostTransaction(r, t)
  \/ \E x \in Transfers : PostTransfer(r, x)
  \/ \E t \in Txs : ReconcileSelected(r, t)
  \/ FailPosting(r)

\* Steps that end the claim.
Ends(r) == Attach(r) \/ FailAttach(r) \/ Release(r) \/ Kill(r)

LEMMA StepCases ==
  ASSUME [Next]_vars
  PROVE  \/ \E r \in Requests : Reads(r) \/ Works(r) \/ Ends(r) \/ Claim(r)
         \/ Edit
         \/ \E l \in Lines : ClaimExpires(l)
         \/ UNCHANGED vars
BY DEF Next, Proceed, Reads, Works, Ends

LEMMA CheckedFields ==
  ASSUME NEW r \in Requests, NEW t \in Txs, req \in [Requests -> Request]
  PROVE  Checked(r, t).pc \in {"idle", req[r].pc, "claim"}
BY DEF Checked, Idle, Request

LEMMA AttachedFields ==
  ASSUME NEW r \in Requests, req \in [Requests -> Request]
  PROVE  Attached(r).pc \in {"rows", "stamp", "idle"}
BY DEF Attached, Idle, Request

LEMMA ReadsFrame ==
  ASSUME TypeOK, NEW r \in Requests, Reads(r)
  PROVE  /\ \A q \in Requests \ {r} : req'[q] = req[q]
         /\ req[r].pc \notin {"post", "attach", "release"}
         /\ req'[r].pc \notin {"post", "attach", "release"}
<1> DEFINE Goal == /\ \A q \in Requests \ {r} : req'[q] = req[q]
                   /\ req[r].pc \notin {"post", "attach", "release"}
                   /\ req'[r].pc \notin {"post", "attach", "release"}
<1>0. req \in [Requests -> Request]
  BY DEF TypeOK
<1>1. CASE Start(r)
  <2>1. \A op \in {"create", "transfer"}, l \in Lines : StartOnLine(r, op, l) => Goal
    BY <1>0 DEF StartOnLine, Idle
  <2>2. \A l \in Lines, S \in SUBSET Txs, t \in Txs : StartMatch(r, l, S, t) => Goal
    BY <1>0 DEF StartMatch, Idle
  <2>3. \A S \in SUBSET Lines : StartCash(r, S) => Goal
    BY <1>0 DEF StartCash, Idle
  <2>4. StartAuto(r) => Goal
    BY <1>0 DEF StartAuto, Idle
  <2>5. StartUndo(r) => Goal
    BY <1>0 DEF StartUndo, Idle
  <2> QED BY <1>1, <2>1, <2>2, <2>3, <2>4, <2>5 DEF Start
<1>2. ASSUME NEW t \in Txs, CheckSelected(r, t)
      PROVE  Goal
  BY <1>0, <1>2, CheckedFields DEF CheckSelected, Idle
<1>3. ASSUME NEW l \in Lines, NextRow(r, l)
      PROVE  Goal
  <2> DEFINE row == [req[r] EXCEPT !.pc = "claim", !.line = l, !.amount = lines[l].amount,
                                   !.link = NoTx, !.made = NoTx,
                                   !.todo = @ \ {<<l, NoAmount>>}]
             q   == IF Exists(l) THEN row ELSE Idle
  <2>1. req' = [req EXCEPT ![r] = q] /\ req[r].pc = "rows"
    BY <1>3 DEF NextRow
  <2>2. q.pc \in {"claim", "idle"}
    BY <1>0 DEF Request, Idle
  <2> HIDE DEF q
  <2> QED BY <1>0, <2>1, <2>2
<1>4. CASE FinishCash(r) \/ FinishAuto(r) \/ RefuseRow(r) \/ UndoImport(r)
  BY <1>0, <1>4 DEF FinishCash, FinishAuto, RefuseRow, UndoImport, Idle
<1>5. CASE ReadCandidates(r)
  BY <1>0, <1>5 DEF ReadCandidates, Request
<1>6. ASSUME NEW l \in Lines, NEW t \in Txs, NEW a \in Amounts, NextPair(r, l, t, a)
      PROVE  Goal
  <2> DEFINE q == [req[r] EXCEPT !.pc = "claim", !.line = l, !.amount = a, !.link = t,
                                 !.sel = {t}, !.left = {t}, !.todo = @ \ {<<l, a>>}]
  <2>1. req' = [req EXCEPT ![r] = q] /\ req[r].pc = "rows"
    BY <1>6 DEF NextPair
  <2>2. q.pc = "claim"
    BY <1>0 DEF Request
  <2> HIDE DEF q
  <2> QED BY <1>0, <2>1, <2>2
<1>7. CASE LoseClaim(r)
  BY <1>0, <1>7 DEF LoseClaim, Idle, Request
<1>8. CASE StampAuto(r)
  BY <1>0, <1>8 DEF StampAuto, Request
<1> QED BY <1>1, <1>2, <1>3, <1>4, <1>5, <1>6, <1>7, <1>8 DEF Reads

Within(r) ==
  /\ \A q \in Requests \ {r} : req'[q] = req[q]
  /\ req[r].pc = "post"
  /\ req'[r].pc \in {"post", "attach", "release"}
  /\ req'[r].line = req[r].line
  /\ UNCHANGED <<lines, file, kills, lost, abandoned>>

LEMMA WorksFrame ==
  ASSUME TypeOK, NEW r \in Requests, Works(r)
  PROVE  Within(r)
<1>0. req \in [Requests -> Request]
  BY DEF TypeOK
<1>1. \A t \in Txs : PostTransaction(r, t) => Within(r)
  BY <1>0 DEF PostTransaction, Request, Within
<1>2. \A x \in Transfers : PostTransfer(r, x) => Within(r)
  BY <1>0 DEF PostTransfer, Request, Within
<1>3. \A t \in Txs : ReconcileSelected(r, t) => Within(r)
  BY <1>0 DEF ReconcileSelected, Request, Within, history
<1>4. FailPosting(r) => Within(r)
  BY <1>0 DEF FailPosting, Request, Within, history
<1> QED BY <1>1, <1>2, <1>3, <1>4 DEF Works

LEMMA EndsFrame ==
  ASSUME TypeOK, NEW r \in Requests, Ends(r)
  PROVE  /\ \A q \in Requests \ {r} : req'[q] = req[q]
         /\ req'[r].pc \notin {"post", "attach", "release"}
<1>0. req \in [Requests -> Request]
  BY DEF TypeOK
<1>1. CASE Attach(r)
  BY <1>0, <1>1, AttachedFields DEF Attach
<1>2. CASE FailAttach(r) \/ Release(r) \/ Kill(r)
  BY <1>0, <1>2 DEF FailAttach, Release, Kill, Idle
<1> QED BY <1>1, <1>2 DEF Ends

LEMMA ClaimFrame ==
  ASSUME TypeOK, NEW r \in Requests, Claim(r)
  PROVE  /\ \A q \in Requests \ {r} : req'[q] = req[q]
         /\ req[r].pc = "claim" /\ req'[r].pc = "post"
         /\ req'[r].line = req[r].line /\ req[r].line \in Lines
BY WorkedLine DEF TypeOK, Claim, Request

----------------------------------------------------------------------------
(* No failure strands a line. *)

\* Only a claim starts the processing of a line.
NoNewProcessing ==
  \A l \in Lines : lines'[l].status = "PROCESSING" => lines[l].status = "PROCESSING"

LEMMA StampStatus ==
  ASSUME TypeOK, NEW S, NEW s \in {"coded", "auto"}, StampLines(S, s)
  PROVE  \A l \in Lines : /\ lines'[l].status = lines[l].status
                          /\ lines'[l].claim = lines[l].claim
BY DEF TypeOK, LinesTypeOK, Row, StampLines

LEMMA ReadsLines ==
  ASSUME TypeOK, NEW r \in Requests, Reads(r)
  PROVE  NoNewProcessing /\ UNCHANGED abandoned
<1>1. CASE FinishCash(r) \/ StampAuto(r)
  BY <1>1, StampStatus DEF FinishCash, StampAuto, NoNewProcessing, history
<1>2. CASE UndoImport(r)
  <2>1. DeleteImportLines => NoNewProcessing
    BY DEF DeleteImportLines, NoNewProcessing, TypeOK, LinesTypeOK, Row
  <2>2. UNCHANGED lines => NoNewProcessing
    BY DEF NoNewProcessing
  <2> QED BY <1>2, <2>1, <2>2 DEF UndoImport, history
<1>3. ASSUME Reads(r), ~(FinishCash(r) \/ StampAuto(r) \/ UndoImport(r))
      PROVE  NoNewProcessing /\ UNCHANGED abandoned
  <2>1. UNCHANGED lines
    BY <1>3, ReadingLeavesLines DEF Reads
  <2>2. UNCHANGED history
    <3>1. Start(r) => UNCHANGED history
      BY DEF Start, StartOnLine, StartMatch, StartCash, StartAuto, StartUndo
    <3>2. ASSUME NEW t \in Txs, CheckSelected(r, t)
          PROVE  UNCHANGED history
      BY <3>2 DEF CheckSelected
    <3>3. ASSUME NEW l \in Lines, NextRow(r, l)
          PROVE  UNCHANGED history
      BY <3>3 DEF NextRow
    <3>4. ASSUME NEW l \in Lines, NEW t \in Txs, NEW a \in Amounts, NextPair(r, l, t, a)
          PROVE  UNCHANGED history
      BY <3>4 DEF NextPair
    <3>5. ReadCandidates(r) \/ FinishAuto(r) \/ RefuseRow(r) \/ LoseClaim(r) => UNCHANGED history
      BY DEF ReadCandidates, FinishAuto, RefuseRow, LoseClaim
    <3> QED BY <1>3, <3>1, <3>2, <3>3, <3>4, <3>5 DEF Reads
  <2> QED BY <2>1, <2>2 DEF NoNewProcessing, history
<1> QED BY <1>1, <1>2, <1>3

LEMMA EditLines ==
  ASSUME TypeOK, Edit
  PROVE  NoNewProcessing /\ UNCHANGED <<abandoned, req>>
<1>0. lines \in [Lines -> Row]
  BY DEF TypeOK, LinesTypeOK
<1>1. UNCHANGED <<abandoned, req>>
  BY DEF Edit, IgnoreOrUnignore, DeleteStatementLine, DismissUpstreamChange,
     FeedDelivers, FeedWithdraws, CommitImport, EnterTransaction, EditTransaction,
     DeleteTransaction, SetReconciled, history
<1>2. ASSUME NEW l \in Lines, NEW s \in {"NEW", "IGNORED"}, IgnoreOrUnignore(l, s)
      PROVE  NoNewProcessing
  BY <1>0, <1>2 DEF IgnoreOrUnignore, SetLineStatus, NoNewProcessing, Row
<1>3. ASSUME NEW l \in Lines,
             DeleteStatementLine(l) \/ DismissUpstreamChange(l) \/ FeedWithdraws(l)
      PROVE  NoNewProcessing
  BY <1>0, <1>3 DEF DeleteStatementLine, DeleteLine, DismissUpstreamChange,
     DismissUpstreamRemoval, FeedWithdraws, ApplyRemovedLine, NoNewProcessing, Row
<1>4. ASSUME NEW l \in Lines, NEW a \in Amounts, FeedDelivers(l, a)
      PROVE  NoNewProcessing
  <2>1. NewRow(a).status = "NEW"
    BY DEF NewRow, AbsentRow
  <2> QED BY <1>0, <1>4, <2>1 DEF FeedDelivers, UpsertStatementLine, NoNewProcessing, Row
<1>5. ASSUME NEW S \in SUBSET ImportLines, NEW a \in Amounts, CommitImport(S, a)
      PROVE  NoNewProcessing
  <2>1. NewRow(a).status = "NEW"
    BY DEF NewRow, AbsentRow
  <2> QED BY <1>0, <1>5, <2>1 DEF CommitImport, InsertImportLines, NoNewProcessing
<1>6. ASSUME NEW t \in Txs,
             \/ \E a \in Amounts, rec \in BOOLEAN : EnterTransaction(t, a, rec)
             \/ \E s \in {"AUTHORISED", "DELETED"}, a \in Amounts, rec \in BOOLEAN :
                  EditTransaction(t, s, a, rec)
             \/ DeleteTransaction(t)
             \/ \E rec \in BOOLEAN : SetReconciled(t, rec)
      PROVE  NoNewProcessing
  BY <1>6 DEF EnterTransaction, EditTransaction, DeleteTransaction, SetReconciled,
     NoNewProcessing
<1> QED BY <1>1, <1>2, <1>3, <1>4, <1>5, <1>6 DEF Edit

LEMMA NoStrandedStep ==
  ASSUME TypeOK, NoStrandedLine, [Next]_vars
  PROVE  NoStrandedLine'
<1> SUFFICES ASSUME NEW l \in Lines, lines'[l].status = "PROCESSING"
             PROVE  Held(l)' \/ l \in abandoned'
  BY DEF NoStrandedLine
<1>0. lines \in [Lines -> Row]
  BY DEF TypeOK, LinesTypeOK
<1>1. ASSUME NEW r \in Requests, Reads(r)
      PROVE  Held(l)' \/ l \in abandoned'
  <2>1. Held(l) \/ l \in abandoned
    BY <1>1, ReadsLines DEF NoNewProcessing, NoStrandedLine
  <2>2. Held(l) => Held(l)'
    BY <1>1, ReadsFrame DEF Held, Holds
  <2> QED BY <1>1, <2>1, <2>2, ReadsLines
<1>2. ASSUME NEW r \in Requests, Works(r)
      PROVE  Held(l)' \/ l \in abandoned'
  <2>1. Within(r)
    BY <1>2, WorksFrame
  <2>2. Held(l) \/ l \in abandoned
    BY <2>1 DEF Within, NoStrandedLine
  <2>3. Held(l) => Held(l)'
    BY <2>1 DEF Within, Held, Holds
  <2> QED BY <2>1, <2>2, <2>3 DEF Within
<1>3. ASSUME NEW r \in Requests, Ends(r)
      PROVE  Held(l)' \/ l \in abandoned'
  <2>1. lines[l].status = "PROCESSING" /\ (Holds(r, l) => Kill(r))
    <3>1. CASE Attach(r)
      <4>1. req[r].line \in Lines /\ AttachLine(req[r].line, req[r].link)
        BY <3>1, WorkedLine DEF Attach
      <4> QED BY <1>0, <4>1 DEF AttachLine, Holds, Row
    <3>2. CASE FailAttach(r)
      BY <3>2 DEF FailAttach, Holds
    <3>3. CASE Release(r)
      <4>1. req[r].line \in Lines /\ ReleaseLine(req[r].line)
        BY <3>3, WorkedLine DEF Release
      <4> QED BY <1>0, <4>1 DEF ReleaseLine, Holds, Row
    <3>4. CASE Kill(r)
      BY <3>4 DEF Kill
    <3> QED BY <1>3, <3>1, <3>2, <3>3, <3>4 DEF Ends
  <2>2. abandoned \subseteq abandoned'
    BY <1>3 DEF Ends, Attach, FailAttach, Release, Kill, history
  <2>3. Held(l) \/ l \in abandoned
    BY <2>1 DEF NoStrandedLine
  <2>4. CASE Holds(r, l)
    BY <2>1, <2>4 DEF Kill
  <2>5. CASE ~Holds(r, l)
    <3>1. Held(l) => Held(l)'
      BY <1>3, <2>5, EndsFrame DEF Held, Holds
    <3> QED BY <2>2, <2>3, <3>1
  <2> QED BY <2>4, <2>5
<1>4. ASSUME NEW r \in Requests, Claim(r)
      PROVE  Held(l)' \/ l \in abandoned'
  <2>1. CASE req[r].line = l
    BY <1>4, <2>1, ClaimFrame DEF Held, Holds
  <2>2. CASE req[r].line # l
    <3>1. lines[l].status = "PROCESSING"
      BY <1>0, <1>4, <2>2, ClaimFrame DEF Claim, ClaimLine
    <3>2. Held(l) => Held(l)'
      BY <1>4, ClaimFrame DEF Held, Holds
    <3> QED BY <1>4, <2>2, <3>1, <3>2 DEF Claim, NoStrandedLine
  <2> QED BY <2>1, <2>2
<1>5. CASE Edit
  BY <1>5, EditLines DEF NoNewProcessing, NoStrandedLine, Held, Holds
<1>6. ASSUME NEW k \in Lines, ClaimExpires(k)
      PROVE  Held(l)' \/ l \in abandoned'
  <2>1. lines[l].status = "PROCESSING" /\ UNCHANGED <<req, abandoned>>
    BY <1>0, <1>6 DEF ClaimExpires, AgeClaim, Row, history
  <2> QED BY <2>1 DEF NoStrandedLine, Held, Holds
<1>7. CASE UNCHANGED vars
  BY <1>7 DEF vars, NoStrandedLine, Held, Holds
<1> QED BY <1>1, <1>2, <1>3, <1>4, <1>5, <1>6, <1>7, StepCases

\* However requests fail, overrun their claims or race with users and the feed, a
\* line that is being processed has a live request on it, unless its holder was
\* killed: a refused posting never swallows a line.  (withClaimedLine)
THEOREM NoLineStranded == Spec => []NoStrandedLine
<1>1. Init => NoStrandedLine
  BY DEF Init, LinesInit, AbsentRow, NoStrandedLine
<1>2. TypeOK /\ NoStrandedLine /\ [Next]_vars => NoStrandedLine'
  BY NoStrandedStep
<1> QED BY <1>1, <1>2, TypeCorrect, PTL DEF Spec

----------------------------------------------------------------------------
(* Exclusive claims. *)

\* While a request is inside its claim the row says so, and the claim is fresh.
ClaimInv ==
  /\ FileFirst
  /\ \A r \in Requests, l \in Lines :
       Holds(r, l) => lines[l].status = "PROCESSING" /\ lines[l].claim = "fresh"
  /\ SingleHolder

\* What keeps the claims of the requests that are inside theirs.
ClaimsKept ==
  \A r \in Requests, l \in Lines :
    Holds(r, l)' => /\ Holds(r, l)
                    /\ lines'[l].status = lines[l].status
                    /\ lines'[l].claim = lines[l].claim

LEMMA KeptClaims ==
  ASSUME TypeOK, ClaimInv, ClaimsKept, [Next]_vars
  PROVE  ClaimInv'
<1>1. FileFirst'
  BY FileFirstStep DEF ClaimInv
<1>2. \A r \in Requests, l \in Lines :
        Holds(r, l)' => lines'[l].status = "PROCESSING" /\ lines'[l].claim = "fresh"
  BY DEF ClaimInv, ClaimsKept
<1>3. \A l \in Lines : \A r, q \in Requests : Holds(r, l)' /\ Holds(q, l)' => r = q
  BY DEF ClaimInv, ClaimsKept, SingleHolder
<1> QED BY <1>1, <1>2, <1>3 DEF ClaimInv, SingleHolder

\* A line nobody may touch: it is in somebody's claim.
LEMMA HeldIsUntouchable ==
  ASSUME ClaimInv, ~ActOnClaimed, NEW l \in Lines, NEW r \in Requests, Holds(r, l)
  PROVE  ~Touchable(l) /\ ~Claimable(l) /\ ~InInbox(l) /\ lines[l].status = "PROCESSING"
BY DEF ClaimInv, Touchable, Claimable, InInbox

LEMMA EditKeepsClaims ==
  ASSUME TypeOK, ClaimInv, ~ActOnClaimed, Edit
  PROVE  ClaimsKept
<1> SUFFICES ASSUME NEW r \in Requests, NEW l \in Lines, Holds(r, l)'
             PROVE  /\ Holds(r, l)
                    /\ lines'[l].status = lines[l].status
                    /\ lines'[l].claim = lines[l].claim
  BY DEF ClaimsKept
<1> DEFINE Kept == lines'[l].status = lines[l].status /\ lines'[l].claim = lines[l].claim
<1>0. lines \in [Lines -> Row]
  BY DEF TypeOK, LinesTypeOK
<1>1. Holds(r, l)
  BY EditLines DEF Holds
<1>2. ~Touchable(l) /\ ~InInbox(l) /\ lines[l].status = "PROCESSING"
  BY <1>1, HeldIsUntouchable
<1>3. ASSUME NEW k \in Lines, NEW s \in {"NEW", "IGNORED"}, IgnoreOrUnignore(k, s)
      PROVE  Kept
  <2>1. k # l
    BY <1>2, <1>3 DEF IgnoreOrUnignore
  <2> QED BY <1>0, <1>3, <2>1 DEF IgnoreOrUnignore, SetLineStatus
<1>4. ASSUME NEW k \in Lines, DeleteStatementLine(k)
      PROVE  Kept
  <2>1. k # l
    BY <1>2, <1>4 DEF DeleteStatementLine
  <2> QED BY <1>0, <1>4, <2>1 DEF DeleteStatementLine, DeleteLine
<1>5. ASSUME NEW k \in Lines, DismissUpstreamChange(k)
      PROVE  Kept
  BY <1>0, <1>5 DEF DismissUpstreamChange, DismissUpstreamRemoval, Row
<1>6. ASSUME NEW k \in Lines, NEW a \in Amounts, FeedDelivers(k, a)
      PROVE  Kept
  BY <1>0, <1>2, <1>6 DEF FeedDelivers, UpsertStatementLine, Row
<1>7. ASSUME NEW k \in Lines, FeedWithdraws(k)
      PROVE  Kept
  BY <1>0, <1>2, <1>7 DEF FeedWithdraws, ApplyRemovedLine, Row
<1>8. ASSUME NEW S \in SUBSET ImportLines, NEW a \in Amounts, CommitImport(S, a)
      PROVE  Kept
  <2>1. l \notin S
    BY <1>2, <1>8 DEF CommitImport, ClaimInv, FileFirst
  <2> QED BY <1>8, <2>1 DEF CommitImport, InsertImportLines
<1>9. ASSUME NEW t \in Txs,
             \/ \E a \in Amounts, rec \in BOOLEAN : EnterTransaction(t, a, rec)
             \/ \E s \in {"AUTHORISED", "DELETED"}, a \in Amounts, rec \in BOOLEAN :
                  EditTransaction(t, s, a, rec)
             \/ DeleteTransaction(t)
             \/ \E rec \in BOOLEAN : SetReconciled(t, rec)
      PROVE  Kept
  BY <1>9 DEF EnterTransaction, EditTransaction, DeleteTransaction, SetReconciled
<1>10. Kept
  BY <1>3, <1>4, <1>5, <1>6, <1>7, <1>8, <1>9 DEF Edit
<1> QED BY <1>1, <1>10

LEMMA ReadsKeepClaims ==
  ASSUME TypeOK, ClaimInv, ~ActOnClaimed, NEW p \in Requests, Reads(p)
  PROVE  ClaimsKept
<1> SUFFICES ASSUME NEW r \in Requests, NEW l \in Lines, Holds(r, l)'
             PROVE  /\ Holds(r, l)
                    /\ lines'[l].status = lines[l].status
                    /\ lines'[l].claim = lines[l].claim
  BY DEF ClaimsKept
<1>1. Holds(r, l)
  BY ReadsFrame DEF Holds
<1>2. CASE FinishCash(p) \/ StampAuto(p)
  BY <1>1, <1>2, StampStatus DEF FinishCash, StampAuto
<1>3. CASE UndoImport(p)
  <2>1. ~Touchable(l)
    BY <1>1, HeldIsUntouchable
  <2>2. CASE DeleteImportLines /\ l \notin ImportLines
    BY <1>1, <2>2 DEF DeleteImportLines
  <2> QED BY <1>1, <1>3, <2>1, <2>2 DEF UndoImport
<1>4. ASSUME ~(FinishCash(p) \/ StampAuto(p) \/ UndoImport(p))
      PROVE  UNCHANGED lines
  BY <1>4, ReadingLeavesLines DEF Reads
<1> QED BY <1>1, <1>2, <1>3, <1>4

LEMMA EndsKeepClaims ==
  ASSUME TypeOK, ClaimInv, NEW p \in Requests, Ends(p)
  PROVE  ClaimsKept
<1> SUFFICES ASSUME NEW r \in Requests, NEW l \in Lines, Holds(r, l)'
             PROVE  /\ Holds(r, l)
                    /\ lines'[l].status = lines[l].status
                    /\ lines'[l].claim = lines[l].claim
  BY DEF ClaimsKept
<1>0. lines \in [Lines -> Row]
  BY DEF TypeOK, LinesTypeOK
<1>1. r # p /\ Holds(r, l)
  BY EndsFrame DEF Holds
<1>2. CASE Attach(p)
  <2>1. req[p].line \in Lines /\ AttachLine(req[p].line, req[p].link) /\ Holds(p, req[p].line)
    BY <1>2, WorkedLine DEF Attach, Holds
  <2>2. req[p].line # l
    BY <1>1, <2>1 DEF ClaimInv, SingleHolder
  <2> QED BY <1>0, <1>1, <2>1, <2>2 DEF AttachLine
<1>3. CASE Release(p)
  <2>1. req[p].line \in Lines /\ ReleaseLine(req[p].line) /\ Holds(p, req[p].line)
    BY <1>3, WorkedLine DEF Release, Holds
  <2>2. req[p].line # l
    BY <1>1, <2>1 DEF ClaimInv, SingleHolder
  <2> QED BY <1>0, <1>1, <2>1, <2>2 DEF ReleaseLine
<1>4. CASE FailAttach(p) \/ Kill(p)
  BY <1>1, <1>4 DEF FailAttach, Kill
<1> QED BY <1>2, <1>3, <1>4 DEF Ends

LEMMA ClaimTakesFreeLine ==
  ASSUME TypeOK, ClaimInv, ~ActOnClaimed, NEW p \in Requests, Claim(p), [Next]_vars
  PROVE  ClaimInv'
<1> DEFINE m == req[p].line
<1>0. lines \in [Lines -> Row] /\ m \in Lines
  BY ClaimFrame DEF TypeOK, LinesTypeOK
<1>1. ClaimLine(m) /\ \A r \in Requests : ~Holds(r, m)
  BY <1>0, HeldIsUntouchable DEF Claim, ClaimLine
<1>2. \A r \in Requests, l \in Lines :
        Holds(r, l)' => (r = p /\ l = m) \/ (r # p /\ l # m /\ Holds(r, l))
  BY <1>1, ClaimFrame DEF Holds
<1>3. /\ lines'[m].status = "PROCESSING" /\ lines'[m].claim = "fresh"
      /\ \A l \in Lines \ {m} : lines'[l] = lines[l]
  BY <1>0, <1>1 DEF ClaimLine, Row
<1>4. \A r \in Requests, l \in Lines :
        Holds(r, l)' => lines'[l].status = "PROCESSING" /\ lines'[l].claim = "fresh"
  BY <1>2, <1>3 DEF ClaimInv
<1>5. \A l \in Lines : \A r, q \in Requests : Holds(r, l)' /\ Holds(q, l)' => r = q
  BY <1>2 DEF ClaimInv, SingleHolder
<1>6. FileFirst'
  BY FileFirstStep DEF ClaimInv
<1> QED BY <1>4, <1>5, <1>6 DEF ClaimInv, SingleHolder

LEMMA ClaimStep ==
  ASSUME TypeOK, ClaimInv, ~ActOnClaimed, ~Overrun, [Next]_vars
  PROVE  ClaimInv'
<1>1. ASSUME NEW r \in Requests, Reads(r)
      PROVE  ClaimInv'
  BY <1>1, ReadsKeepClaims, KeptClaims
<1>2. ASSUME NEW r \in Requests, Works(r)
      PROVE  ClaimInv'
  <2>1. ClaimsKept
    BY <1>2, WorksFrame DEF Within, ClaimsKept, Holds
  <2> QED BY <2>1, KeptClaims
<1>3. ASSUME NEW r \in Requests, Ends(r)
      PROVE  ClaimInv'
  BY <1>3, EndsKeepClaims, KeptClaims
<1>4. ASSUME NEW r \in Requests, Claim(r)
      PROVE  ClaimInv'
  BY <1>4, ClaimTakesFreeLine
<1>5. CASE Edit
  BY <1>5, EditKeepsClaims, KeptClaims
<1>6. ASSUME NEW k \in Lines, ClaimExpires(k)
      PROVE  ClaimInv'
  <2>1. UNCHANGED req /\ \A r \in Requests : ~Holds(r, k)
    BY <1>6 DEF ClaimExpires, Held
  <2>2. \A l \in Lines \ {k} : lines'[l] = lines[l]
    BY <1>6 DEF ClaimExpires, AgeClaim, TypeOK, LinesTypeOK
  <2>3. ClaimsKept
    BY <2>1, <2>2 DEF ClaimsKept, Holds
  <2> QED BY <2>3, KeptClaims
<1>7. CASE UNCHANGED vars
  <2>1. ClaimsKept
    BY <1>7 DEF vars, ClaimsKept, Holds
  <2> QED BY <2>1, KeptClaims
<1> QED BY <1>1, <1>2, <1>3, <1>4, <1>5, <1>6, <1>7, StepCases

\* Two requests never work inside the claim of one line, as long as no user acts
\* on a line that is being processed and no request outlives its claim.
\* (ClaimLine, withClaimedLine)
THEOREM ClaimExclusive ==
  ASSUME ~ActOnClaimed, ~Overrun
  PROVE  Spec => []SingleHolder
<1>1. Init => ClaimInv
  BY DEF Init, LinesInit, AbsentRow, Idle, ClaimInv, FileFirst, Holds, SingleHolder,
     ImportLines
<1>2. TypeOK /\ ClaimInv /\ [Next]_vars => ClaimInv'
  BY ClaimStep
<1>3. ClaimInv => SingleHolder
  BY DEF ClaimInv
<1> QED BY <1>1, <1>2, <1>3, TypeCorrect, PTL DEF Spec

----------------------------------------------------------------------------
(* What no step undoes. *)

\* The rows of the ledger stay, and so do lines that are in the books.
RowsStay  == \A t \in Txs : TxExists(t) => (TxExists(t))'
BooksStay == \A l \in Lines : InBooks(l) => (InBooks(l))' /\ lines'[l].tx = lines[l].tx

LedgerStep ==
  \/ UNCHANGED ledger
  \/ \E t \in Txs :
       \/ \E a \in Amounts, rec \in BOOLEAN : CreateTx(t, a, rec)
       \/ \E s \in {"AUTHORISED", "DELETED"}, a \in Amounts, rec \in BOOLEAN : UpdateTx(t, s, a, rec)
       \/ DeleteTx(t)
       \/ \E rec \in BOOLEAN : ReconcileTx(t, rec)

LEMMA ReadsLeaveLedger ==
  ASSUME NEW r \in Requests, Reads(r) \/ Ends(r) \/ Claim(r) \/ FailPosting(r)
                               \/ \E x \in Transfers : PostTransfer(r, x)
  PROVE  UNCHANGED ledger
<1>1. Start(r) => UNCHANGED ledger
  BY DEF Start, StartOnLine, StartMatch, StartCash, StartAuto, StartUndo
<1>2. ASSUME NEW t \in Txs, CheckSelected(r, t)
      PROVE  UNCHANGED ledger
  BY <1>2 DEF CheckSelected
<1>3. ASSUME NEW l \in Lines, NextRow(r, l)
      PROVE  UNCHANGED ledger
  BY <1>3 DEF NextRow
<1>4. ASSUME NEW l \in Lines, NEW t \in Txs, NEW a \in Amounts, NextPair(r, l, t, a)
      PROVE  UNCHANGED ledger
  BY <1>4 DEF NextPair
<1>5. ReadCandidates(r) \/ FinishAuto(r) \/ RefuseRow(r) \/ LoseClaim(r) => UNCHANGED ledger
  BY DEF ReadCandidates, FinishAuto, RefuseRow, LoseClaim
<1>6. FinishCash(r) \/ StampAuto(r) \/ UndoImport(r) => UNCHANGED ledger
  BY DEF FinishCash, StampAuto, UndoImport
<1>7. Ends(r) \/ Claim(r) \/ FailPosting(r) => UNCHANGED ledger
  BY DEF Ends, Attach, FailAttach, Release, Kill, Claim, FailPosting
<1>8. ASSUME NEW x \in Transfers, PostTransfer(r, x)
      PROVE  UNCHANGED ledger
  BY <1>8 DEF PostTransfer
<1> QED BY <1>1, <1>2, <1>3, <1>4, <1>5, <1>6, <1>7, <1>8 DEF Reads

LEMMA NextIsLedgerStep ==
  ASSUME TypeOK, [Next]_vars
  PROVE  LedgerStep
<1>1. ASSUME NEW r \in Requests, NEW t \in Txs, PostTransaction(r, t)
      PROVE  LedgerStep
  <2>1. req[r].amount \in Amounts
    BY <1>1 DEF PostTransaction, TypeOK, WorksOnLine
  <2> QED BY <1>1, <2>1 DEF PostTransaction, LedgerStep
<1>2. ASSUME NEW r \in Requests, NEW t \in Txs, ReconcileSelected(r, t)
      PROVE  LedgerStep
  BY <1>2 DEF ReconcileSelected, LedgerStep
<1>3. CASE Edit
  <2>1. ASSUME NEW l \in Lines,
               \/ \E s \in {"NEW", "IGNORED"} : IgnoreOrUnignore(l, s)
               \/ DeleteStatementLine(l)
               \/ DismissUpstreamChange(l)
               \/ \E a \in Amounts : FeedDelivers(l, a)
               \/ FeedWithdraws(l)
        PROVE  UNCHANGED ledger
    BY <2>1 DEF IgnoreOrUnignore, DeleteStatementLine, DismissUpstreamChange,
                FeedDelivers, FeedWithdraws
  <2>2. ASSUME NEW S \in SUBSET ImportLines, NEW a \in Amounts, CommitImport(S, a)
        PROVE  UNCHANGED ledger
    BY <2>2 DEF CommitImport
  <2>3. ASSUME NEW t \in Txs,
               \/ \E a \in Amounts, rec \in BOOLEAN : EnterTransaction(t, a, rec)
               \/ \E s \in {"AUTHORISED", "DELETED"}, a \in Amounts, rec \in BOOLEAN :
                    EditTransaction(t, s, a, rec)
               \/ DeleteTransaction(t)
               \/ \E rec \in BOOLEAN : SetReconciled(t, rec)
        PROVE  LedgerStep
    BY <2>3 DEF EnterTransaction, EditTransaction, DeleteTransaction, SetReconciled, LedgerStep
  <2> QED BY <1>3, <2>1, <2>2, <2>3 DEF Edit, LedgerStep
<1>4. ASSUME NEW l \in Lines, ClaimExpires(l)
      PROVE  LedgerStep
  BY <1>4 DEF ClaimExpires, LedgerStep
<1>5. CASE UNCHANGED vars
  BY <1>5 DEF vars, LedgerStep
<1> QED BY <1>1, <1>2, <1>3, <1>4, <1>5, StepCases, ReadsLeaveLedger DEF Works, LedgerStep

LEMMA RowsStayAlways ==
  ASSUME TypeOK, [Next]_vars
  PROVE  RowsStay
<1>0. ledger \in [Txs -> [status : TxStatus, reconciled : BOOLEAN,
                          amount : Amounts \cup {NoAmount}]]
  BY DEF TypeOK, LedgerTypeOK
<1>1. ASSUME NEW t \in Txs,
             \/ \E a \in Amounts, rec \in BOOLEAN : CreateTx(t, a, rec)
             \/ \E s \in {"AUTHORISED", "DELETED"}, a \in Amounts, rec \in BOOLEAN :
                  UpdateTx(t, s, a, rec)
             \/ DeleteTx(t)
             \/ \E rec \in BOOLEAN : ReconcileTx(t, rec)
      PROVE  RowsStay
  BY <1>0, <1>1 DEF CreateTx, UpdateTx, DeleteTx, ReconcileTx, RowsStay, TxExists, TxStatus
<1>2. CASE UNCHANGED ledger
  BY <1>2 DEF RowsStay, TxExists
<1> QED BY <1>1, <1>2, NextIsLedgerStep DEF LedgerStep

LEMMA BooksStayAlways ==
  ASSUME TypeOK, FileFirst, [Next]_vars
  PROVE  BooksStay
<1> SUFFICES ASSUME NEW l \in Lines, InBooks(l)
             PROVE  (InBooks(l))' /\ lines'[l].tx = lines[l].tx
  BY DEF BooksStay
<1>0. lines \in [Lines -> Row] /\ lines[l].status \in {"IMPORTED", "DELETED"}
  BY DEF TypeOK, LinesTypeOK, InBooks
<1>1. ASSUME NEW k \in Lines, OneLineStep(k)
      PROVE  (InBooks(l))' /\ lines'[l].tx = lines[l].tx
  <2>1. CASE k # l
    BY <1>0, <1>1, <2>1, OneLineMoves DEF InBooks
  <2>2. CASE k = l
    <3>1. (InBooks(l))'
      BY <1>0, <1>1, <2>2, OneLineMoves DEF StatusMove, InBooks
    <3>2. ASSUME NEW a \in Amounts, UpsertStatementLine(l, a)
          PROVE  lines'[l].tx = lines[l].tx
      BY <1>0, <3>2 DEF UpsertStatementLine, InInbox, Booked, Row
    <3>3. ~ClaimLine(l) /\ \A t \in Txs \cup {NoTx} : ~AttachLine(l, t)
      BY <1>0 DEF ClaimLine, Claimable, InInbox, AttachLine
    <3>4. ReleaseLine(l) \/ AgeClaim(l) \/ DeleteLine(l) => lines'[l].tx = lines[l].tx
      BY <1>0 DEF ReleaseLine, AgeClaim, DeleteLine, Row
    <3>5. DismissUpstreamRemoval(l) \/ ApplyRemovedLine(l) => lines'[l].tx = lines[l].tx
      BY <1>0 DEF DismissUpstreamRemoval, ApplyRemovedLine, Row
    <3>6. \A s \in {"NEW", "IGNORED"} : SetLineStatus(l, s) => lines'[l].tx = lines[l].tx
      BY <1>0 DEF SetLineStatus, Row
    <3> QED BY <1>1, <2>2, <3>1, <3>2, <3>3, <3>4, <3>5, <3>6 DEF OneLineStep
  <2> QED BY <2>1, <2>2
<1>2. ASSUME NEW S, NEW s \in {"coded", "auto"}, StampLines(S, s)
      PROVE  (InBooks(l))' /\ lines'[l].tx = lines[l].tx
  BY <1>0, <1>2 DEF StampLines, Row, InBooks
<1>3. CASE Insertion
  <2>1. PICK S \in SUBSET ImportLines, a \in Amounts : InsertImportLines([k \in S |-> a])
    BY <1>3 DEF Insertion
  <2>2. l \notin S
    BY <1>0, <1>3, <2>1 DEF Insertion, FileFirst
  <2> QED BY <1>0, <2>1, <2>2 DEF InsertImportLines, InBooks
<1>4. CASE DeleteImportLines
  BY <1>0, <1>4 DEF DeleteImportLines, Row, InBooks
<1>5. CASE UNCHANGED lines
  BY <1>0, <1>5 DEF InBooks
<1> QED BY <1>1, <1>2, <1>3, <1>4, <1>5, NextIsLineStep DEF LineStep

----------------------------------------------------------------------------
(* Links. *)

\* What request r is about to record is there, the lines it has still to stamp are in
\* the books, and what it posted is what it will link.
Ready(r) ==
  /\ req[r].pc \in {"claim", "post", "attach"} =>
       (req[r].link # NoTx => TxExists(req[r].link))
  /\ req[r].pc = "check" => /\ req[r].op = "match" /\ req[r].link \in Txs
                            /\ req[r].link \in req[r].left \/ TxExists(req[r].link)
  /\ \A c \in req[r].cands : TxExists(c[1])
  /\ \A l \in req[r].done : InBooks(l)
  /\ req[r].pc = "stamp" => req[r].line \in Lines /\ InBooks(req[r].line)
  /\ req[r].pc = "attach" /\ req[r].made # NoTx =>
       req[r].link = IF req[r].made \in Txs THEN req[r].made ELSE NoTx
  /\ req[r].op = "transfer" /\ req[r].pc \in {"claim", "post"} => req[r].link = NoTx
  /\ req[r].op \in {"match", "auto"} => req[r].made = NoTx

LinksInv == FileFirst /\ LinksAreBooked /\ \A r \in Requests : Ready(r)

\* What Ready says of a request that does nothing cannot be undone by the others.
LEMMA ReadyStays ==
  ASSUME TypeOK, RowsStay, BooksStay, NEW r \in Requests, Ready(r), req'[r] = req[r]
  PROVE  Ready(r)'
<1>1. req[r] \in Request
  BY DEF TypeOK
<1>2. req[r].link \in Txs \cup {NoTx} /\ \A c \in req[r].cands : c[1] \in Txs
  BY <1>1 DEF Request
<1>3. req[r].done \subseteq Lines /\ req[r].left \subseteq Txs
  BY <1>1 DEF Request
<1>4. \A t \in Txs : TxExists(t) => (TxExists(t))'
  BY DEF RowsStay
<1>5. \A l \in Lines : InBooks(l) => (InBooks(l))'
  BY DEF BooksStay
<1> QED BY <1>2, <1>3, <1>4, <1>5 DEF Ready, TxExists, InBooks

LEMMA IdleReady ==
  ASSUME NEW r \in Requests, req'[r] = Idle
  PROVE  Ready(r)'
BY DEF Ready, Idle

LEMMA StartReady ==
  ASSUME TypeOK, NEW r \in Requests, Start(r)
  PROVE  Ready(r)'
<1>0. req \in [Requests -> Request]
  BY DEF TypeOK
<1>1. ASSUME NEW op \in {"create", "transfer"}, NEW l \in Lines, StartOnLine(r, op, l)
      PROVE  Ready(r)'
  BY <1>0, <1>1 DEF StartOnLine, Idle, Ready
<1>2. ASSUME NEW l \in Lines, NEW S \in SUBSET Txs, NEW t \in Txs, StartMatch(r, l, S, t)
      PROVE  Ready(r)'
  BY <1>0, <1>2 DEF StartMatch, Idle, Ready
<1>3. ASSUME NEW S \in SUBSET Lines, StartCash(r, S)
      PROVE  Ready(r)'
  BY <1>0, <1>3 DEF StartCash, Idle, Ready
<1>4. CASE StartAuto(r)
  BY <1>0, <1>4 DEF StartAuto, Idle, Ready
<1>5. CASE StartUndo(r)
  BY <1>0, <1>5 DEF StartUndo, Idle, Ready
<1> QED BY <1>1, <1>2, <1>3, <1>4, <1>5 DEF Start

LEMMA CheckReady ==
  ASSUME TypeOK, NEW r \in Requests, Ready(r), NEW t \in Txs, CheckSelected(r, t)
  PROVE  Ready(r)'
<1> DEFINE sum  == req[r].sum + ledger[t].amount
           rest == req[r].left \ {t}
           more == [req[r] EXCEPT !.sum = sum, !.left = rest]
           all  == [req[r] EXCEPT !.pc = "claim", !.sum = sum, !.left = req[r].sel]
           next == IF rest # {} THEN more ELSE IF sum = req[r].amount THEN all ELSE Idle
<1>1. /\ req[r].pc = "check" /\ t \in req[r].left /\ UNCHANGED <<lines, ledger>>
      /\ req' = [req EXCEPT ![r] = IF TxExists(t) /\ ~ledger[t].reconciled THEN next ELSE Idle]
  BY DEF CheckSelected, Turn, Checked
<1>2. req[r] \in Request /\ req \in [Requests -> Request]
  BY DEF TypeOK
<1>3. /\ all.pc = "claim" /\ all.link = req[r].link /\ all.cands = req[r].cands
      /\ all.done = req[r].done /\ all.made = req[r].made /\ all.op = req[r].op
  BY <1>2 DEF Request
<1>4. /\ more.pc = "check" /\ more.link = req[r].link /\ more.cands = req[r].cands
      /\ more.done = req[r].done /\ more.made = req[r].made /\ more.op = req[r].op
      /\ more.left = rest
  BY <1>1, <1>2 DEF Request
<1> HIDE DEF all, more, sum
<1>5. CASE req'[r] = Idle
  BY <1>5, IdleReady
<1>6. CASE TxExists(t) /\ req'[r] = more
  <2>1. req[r].link \in rest \/ TxExists(req[r].link)
    BY <1>1, <1>6 DEF Ready
  <2> QED BY <1>1, <1>4, <1>6, <2>1 DEF Ready, TxExists, InBooks
<1>7. CASE TxExists(t) /\ rest = {} /\ req'[r] = all
  <2>1. TxExists(req[r].link) /\ req[r].op = "match"
    BY <1>1, <1>7 DEF Ready
  <2> QED BY <1>1, <1>3, <1>7, <2>1 DEF Ready, TxExists, InBooks
<1> QED BY <1>1, <1>2, <1>5, <1>6, <1>7

LEMMA NextRowReady ==
  ASSUME TypeOK, NEW r \in Requests, Ready(r), NEW l \in Lines, NextRow(r, l)
  PROVE  Ready(r)'
<1> DEFINE row  == [req[r] EXCEPT !.pc = "claim", !.line = l, !.amount = lines[l].amount,
                                  !.link = NoTx, !.made = NoTx, !.todo = @ \ {<<l, NoAmount>>}]
           next == IF Exists(l) THEN row ELSE Idle
<1>1. req' = [req EXCEPT ![r] = next] /\ req[r].op = "cash" /\ UNCHANGED <<lines, ledger>>
  BY DEF NextRow
<1>2. req[r] \in Request /\ req \in [Requests -> Request]
  BY DEF TypeOK
<1>3. /\ row.pc = "claim" /\ row.link = NoTx /\ row.op = req[r].op
      /\ row.cands = req[r].cands /\ row.done = req[r].done
  BY <1>2 DEF Request
<1>4. req'[r] = row \/ req'[r] = Idle
  BY <1>1, <1>2
<1> HIDE DEF row, next
<1>5. CASE req'[r] = row
  BY <1>1, <1>3, <1>5 DEF Ready, TxExists, InBooks
<1> QED BY <1>4, <1>5, IdleReady

LEMMA CandidatesReady ==
  ASSUME TypeOK, NEW r \in Requests, Ready(r), ReadCandidates(r)
  PROVE  Ready(r)'
<1>1. req[r] \in Request /\ req \in [Requests -> Request]
  BY DEF TypeOK
<1>2. /\ req'[r].pc = "rows" /\ req'[r].done = req[r].done
      /\ req'[r].op = req[r].op /\ req'[r].made = req[r].made
      /\ UNCHANGED <<lines, ledger>>
  BY <1>1 DEF ReadCandidates, Request
<1>3. \A c \in req'[r].cands : TxExists(c[1])
  BY <1>1 DEF ReadCandidates, Request
<1> QED BY <1>2, <1>3 DEF Ready, TxExists, InBooks

LEMMA NextPairReady ==
  ASSUME TypeOK, NEW r \in Requests, Ready(r), NEW l \in Lines, NEW t \in Txs,
         NEW a \in Amounts, NextPair(r, l, t, a)
  PROVE  Ready(r)'
<1> DEFINE q == [req[r] EXCEPT !.pc = "claim", !.line = l, !.amount = a, !.link = t,
                               !.sel = {t}, !.left = {t}, !.todo = @ \ {<<l, a>>}]
<1>1. /\ req' = [req EXCEPT ![r] = q] /\ req[r].op = "auto" /\ <<t, a>> \in req[r].cands
      /\ UNCHANGED <<lines, ledger>>
  BY DEF NextPair
<1>2. req[r] \in Request /\ req \in [Requests -> Request]
  BY DEF TypeOK
<1>3. /\ q.pc = "claim" /\ q.link = t /\ q.cands = req[r].cands
      /\ q.done = req[r].done /\ q.made = req[r].made /\ q.op = req[r].op
  BY <1>2 DEF Request
<1> HIDE DEF q
<1>4. req'[r] = q
  BY <1>1, <1>2
<1>5. TxExists(t)
  <2>1. TxExists(<<t, a>>[1])
    BY <1>1 DEF Ready
  <2> QED BY <2>1
<1> QED BY <1>1, <1>3, <1>4, <1>5 DEF Ready, TxExists, InBooks

LEMMA LoseReady ==
  ASSUME TypeOK, NEW r \in Requests, Ready(r), LoseClaim(r)
  PROVE  Ready(r)'
<1> DEFINE rows == [req[r] EXCEPT !.pc = "rows"]
<1>1. req' = [req EXCEPT ![r] = IF Loops(r) THEN rows ELSE Idle] /\ UNCHANGED <<lines, ledger>>
  BY DEF LoseClaim
<1>2. req[r] \in Request /\ req \in [Requests -> Request]
  BY DEF TypeOK
<1>3. /\ rows.pc = "rows" /\ rows.cands = req[r].cands /\ rows.done = req[r].done
      /\ rows.made = req[r].made /\ rows.op = req[r].op
  BY <1>2 DEF Request
<1>4. req'[r] = rows \/ req'[r] = Idle
  BY <1>1, <1>2
<1> HIDE DEF rows
<1>5. CASE req'[r] = rows
  BY <1>1, <1>3, <1>5 DEF Ready, TxExists, InBooks
<1> QED BY <1>4, <1>5, IdleReady

LEMMA WorksReady ==
  ASSUME TypeOK, RowsStay, BooksStay, NEW r \in Requests, Ready(r), Works(r) \/ Claim(r)
  PROVE  Ready(r)'
<1>1. req[r] \in Request /\ req \in [Requests -> Request]
  BY DEF TypeOK
<1>2. /\ \A c \in req[r].cands : c[1] \in Txs /\ (TxExists(c[1]))'
      /\ \A l \in req[r].done : l \in Lines /\ (InBooks(l))'
  BY <1>1 DEF Ready, Request, RowsStay, BooksStay
<1>3. req[r].link \in Txs \cup {NoTx}
  BY <1>1 DEF Request
<1>31. \A t \in Txs : req[r].pc \in {"claim", "post"} /\ req[r].link = t => (TxExists(t))'
  BY <1>3, LinesAssumption DEF Ready, RowsStay
<1>4. ASSUME Claim(r) \/ FailPosting(r) \/ \E t \in Txs : ReconcileSelected(r, t)
      PROVE  /\ req[r].pc \in {"claim", "post"}
             /\ req'[r].pc \in {"post", "attach", "release"}
             /\ req'[r].pc = "post" /\ req[r].op = "transfer" => req[r].pc = "claim"
             /\ req'[r].pc = "attach" => req[r].op \in {"match", "auto"}
             /\ req'[r].link = req[r].link /\ req'[r].cands = req[r].cands
             /\ req'[r].done = req[r].done /\ req'[r].made = req[r].made
             /\ req'[r].op = req[r].op
  <2>1. CASE Claim(r)
    BY <1>1, <2>1 DEF Claim, Request
  <2>2. CASE FailPosting(r)
    <3>1. CASE req[r].op # "transfer"
      BY <1>1, <2>2, <3>1 DEF FailPosting, Request
    <3>2. CASE req[r].op = "transfer"
      BY <1>1, <2>2, <3>2 DEF FailPosting, Request
    <3> QED BY <3>1, <3>2
  <2>3. ASSUME NEW t \in Txs, ReconcileSelected(r, t)
        PROVE  /\ req[r].pc = "post" /\ req[r].op \in {"match", "auto"}
               /\ req'[r].pc \in {"post", "attach"}
               /\ req'[r].link = req[r].link /\ req'[r].cands = req[r].cands
               /\ req'[r].done = req[r].done /\ req'[r].made = req[r].made
               /\ req'[r].op = req[r].op
    BY <1>1, <2>3 DEF ReconcileSelected, Request
  <2> QED BY <1>4, <2>1, <2>2, <2>3
<1>5. CASE Claim(r) \/ FailPosting(r) \/ \E t \in Txs : ReconcileSelected(r, t)
  BY <1>2, <1>3, <1>31, <1>4, <1>5 DEF Ready, TxExists, InBooks
<1>6. ASSUME NEW t \in Txs, PostTransaction(r, t)
      PROVE  Ready(r)'
  <2>1. /\ req'[r].pc = "attach" /\ req'[r].link = t /\ req'[r].made = t
        /\ req'[r].cands = req[r].cands /\ req'[r].done = req[r].done
        /\ req'[r].op = req[r].op /\ req[r].op \in {"create", "cash"}
    BY <1>1, <1>6 DEF PostTransaction, Request
  <2>2. (TxExists(t))'
    BY <1>6 DEF PostTransaction, CreateTx, TxExists, TypeOK, LedgerTypeOK
  <2> QED BY <1>2, <2>1, <2>2 DEF Ready, TxExists, InBooks
<1>7. ASSUME NEW x \in Transfers, PostTransfer(r, x)
      PROVE  Ready(r)'
  <2>1. /\ req'[r].pc = "attach" /\ req'[r].link = req[r].link /\ req'[r].made = x
        /\ req'[r].cands = req[r].cands /\ req'[r].done = req[r].done
        /\ req'[r].op = req[r].op /\ req[r].op = "transfer" /\ req[r].pc = "post"
    BY <1>1, <1>7 DEF PostTransfer, Request
  <2>2. req[r].link = NoTx /\ x \notin Txs
    BY <2>1, ReconcileAssumption DEF Ready
  <2> QED BY <1>2, <2>1, <2>2 DEF Ready, TxExists, InBooks
<1> QED BY <1>5, <1>6, <1>7 DEF Works

LEMMA AttachReady ==
  ASSUME TypeOK, RowsStay, BooksStay, NEW r \in Requests, Ready(r), Attach(r)
  PROVE  Ready(r)'
<1> DEFINE cash == [req[r] EXCEPT !.pc = "rows", !.done = @ \cup {req[r].line},
                                  !.line = NoLine, !.link = NoTx, !.made = NoTx]
           auto == [req[r] EXCEPT !.pc = "stamp", !.cands = {c \in @ : c[1] # req[r].link}]
<1>1. req[r] \in Request /\ req \in [Requests -> Request] /\ req[r].line \in Lines
  BY WorkedLine DEF TypeOK, Attach
<1>2. /\ \A c \in req[r].cands : c[1] \in Txs /\ (TxExists(c[1]))'
      /\ \A l \in req[r].done : l \in Lines /\ (InBooks(l))'
  BY <1>1 DEF Ready, Request, RowsStay, BooksStay
<1>3. \A l \in Lines : l = req[r].line => (InBooks(l))'
  BY <1>1 DEF Attach, AttachLine, InBooks, TypeOK, LinesTypeOK, Row
<1>4. /\ cash.pc = "rows" /\ cash.cands = req[r].cands
      /\ cash.done = req[r].done \cup {req[r].line} /\ cash.op = req[r].op
  BY <1>1 DEF Request
<1>5. /\ auto.pc = "stamp" /\ auto.cands \subseteq req[r].cands /\ auto.line = req[r].line
      /\ auto.done = req[r].done /\ auto.op = req[r].op /\ auto.made = req[r].made
  BY <1>1 DEF Request
<1>6. \/ req[r].op = "cash" /\ req'[r] = cash
      \/ req[r].op = "auto" /\ req'[r] = auto
      \/ req'[r] = Idle
  BY <1>1 DEF Attach, Attached
<1> HIDE DEF cash, auto
<1>7. CASE req[r].op = "cash" /\ req'[r] = cash
  BY <1>1, <1>2, <1>3, <1>4, <1>7 DEF Ready, TxExists, InBooks
<1>8. CASE req[r].op = "auto" /\ req'[r] = auto
  BY <1>1, <1>2, <1>3, <1>5, <1>8 DEF Ready, TxExists, InBooks
<1> QED BY <1>6, <1>7, <1>8, IdleReady

LEMMA EndsReady ==
  ASSUME NEW r \in Requests, req \in [Requests -> Request],
         FinishCash(r) \/ FinishAuto(r) \/ RefuseRow(r) \/ UndoImport(r)
           \/ FailAttach(r) \/ Release(r) \/ Kill(r)
  PROVE  Ready(r)'
<1>1. req'[r] = Idle
  BY DEF FinishCash, FinishAuto, RefuseRow, UndoImport, FailAttach, Release, Kill
<1> QED BY <1>1, IdleReady

LEMMA StampReady ==
  ASSUME TypeOK, BooksStay, RowsStay, NEW r \in Requests, Ready(r), StampAuto(r)
  PROVE  Ready(r)'
<1>1. req[r] \in Request /\ req \in [Requests -> Request]
  BY DEF TypeOK
<1>2. /\ \A c \in req[r].cands : c[1] \in Txs /\ (TxExists(c[1]))'
      /\ \A l \in req[r].done : l \in Lines /\ (InBooks(l))'
  BY <1>1 DEF Ready, Request, RowsStay, BooksStay
<1>3. /\ req'[r].pc = "rows" /\ req'[r].cands = req[r].cands /\ req'[r].done = req[r].done
      /\ req'[r].made = req[r].made /\ req'[r].op = req[r].op
  BY <1>1 DEF StampAuto, Request
<1> QED BY <1>2, <1>3 DEF Ready, TxExists, InBooks

\* Whoever moves, every request stays ready.
LEMMA ReadyStep ==
  ASSUME TypeOK, LinksInv, [Next]_vars, NEW q \in Requests
  PROVE  Ready(q)'
<1>0. Ready(q) /\ RowsStay /\ BooksStay /\ req \in [Requests -> Request]
  BY RowsStayAlways, BooksStayAlways DEF LinksInv, TypeOK
<1>1. ASSUME NEW r \in Requests, Reads(r)
      PROVE  Ready(q)'
  <2>1. CASE q # r
    BY <1>0, <1>1, <2>1, ReadsFrame, ReadyStays
  <2>2. CASE q = r
    BY <1>0, <1>1, <2>2, StartReady, CheckReady, NextRowReady, EndsReady, CandidatesReady,
       NextPairReady, LoseReady, StampReady DEF Reads
  <2> QED BY <2>1, <2>2
<1>2. ASSUME NEW r \in Requests, Works(r) \/ Claim(r)
      PROVE  Ready(q)'
  <2>1. CASE q # r
    BY <1>0, <1>2, <2>1, WorksFrame, ClaimFrame, ReadyStays DEF Within
  <2>2. CASE q = r
    BY <1>0, <1>2, <2>2, WorksReady
  <2> QED BY <2>1, <2>2
<1>3. ASSUME NEW r \in Requests, Ends(r)
      PROVE  Ready(q)'
  <2>1. CASE q # r
    BY <1>0, <1>3, <2>1, EndsFrame, ReadyStays
  <2>2. CASE q = r
    BY <1>0, <1>3, <2>2, AttachReady, EndsReady DEF Ends
  <2> QED BY <2>1, <2>2
<1>4. CASE Edit \/ (\E l \in Lines : ClaimExpires(l)) \/ UNCHANGED vars
  <2>1. UNCHANGED req
    BY <1>4, EditLines DEF ClaimExpires, vars
  <2> QED BY <1>0, <2>1, ReadyStays
<1> QED BY <1>1, <1>2, <1>3, <1>4, StepCases

\* A line that records nothing and has no stamp goes on so, but for an attach or a stamp.
LEMMA PlainStays ==
  ASSUME TypeOK, [Next]_vars, NEW l \in Lines, lines[l].tx = NoTx, lines[l].stamp = "none"
  PROVE  \/ lines'[l].tx = NoTx /\ lines'[l].stamp = "none"
         \/ \E r \in Requests : Attach(r) /\ req[r].line = l
         \/ \E r \in Requests : FinishCash(r) /\ l \in req[r].done
         \/ \E r \in Requests : StampAuto(r) /\ req[r].line = l
<1> DEFINE Plain == lines'[l].tx = NoTx /\ lines'[l].stamp = "none"
<1>0. lines \in [Lines -> Row]
  BY DEF TypeOK, LinesTypeOK
<1>1. UNCHANGED lines => Plain
  OBVIOUS
<1>2. ASSUME NEW k \in Lines,
             \/ ClaimLine(k) \/ ReleaseLine(k) \/ AgeClaim(k) \/ DeleteLine(k)
             \/ DismissUpstreamRemoval(k) \/ ApplyRemovedLine(k)
             \/ \E s \in {"NEW", "IGNORED"} : SetLineStatus(k, s)
      PROVE  Plain
  BY <1>0, <1>2 DEF ClaimLine, ReleaseLine, AgeClaim, DeleteLine, DismissUpstreamRemoval,
     ApplyRemovedLine, SetLineStatus, Row
<1>3. \A a \in Amounts : NewRow(a).tx = NoTx /\ NewRow(a).stamp = "none"
  BY DEF NewRow, AbsentRow
<1>4. ASSUME NEW k \in Lines, NEW a \in Amounts, UpsertStatementLine(k, a)
      PROVE  Plain
  BY <1>0, <1>3, <1>4 DEF UpsertStatementLine, Row
<1>5. ASSUME NEW S \in SUBSET ImportLines, NEW a \in Amounts, InsertImportLines([k \in S |-> a])
      PROVE  Plain
  BY <1>3, <1>5 DEF InsertImportLines
<1>6. DeleteImportLines => Plain
  BY <1>0 DEF DeleteImportLines, Row
<1>7. ASSUME NEW S, NEW s \in {"coded", "auto"}, StampLines(S, s), l \notin S
      PROVE  Plain
  BY <1>7 DEF StampLines
<1>8. ASSUME NEW r \in Requests, Reads(r), ~(FinishCash(r) /\ l \in req[r].done),
                 ~(StampAuto(r) /\ req[r].line = l)
      PROVE  Plain
  <2>1. CASE FinishCash(r)
    BY <1>7, <1>8, <2>1 DEF FinishCash
  <2>2. CASE StampAuto(r)
    BY <1>7, <1>8, <2>2 DEF StampAuto
  <2>3. CASE UndoImport(r)
    BY <1>1, <1>6, <2>3 DEF UndoImport
  <2>4. CASE ~(FinishCash(r) \/ StampAuto(r) \/ UndoImport(r))
    BY <1>1, <1>8, <2>4, ReadingLeavesLines DEF Reads
  <2> QED BY <2>1, <2>2, <2>3, <2>4
<1>9. ASSUME NEW r \in Requests, Works(r) \/ Claim(r)
      PROVE  Plain
  <2>1. CASE Works(r)
    BY <1>1, <2>1, WorksFrame DEF Within
  <2>2. CASE Claim(r)
    BY <1>2, <2>2, ClaimFrame DEF Claim
  <2> QED BY <1>9, <2>1, <2>2
<1>10. ASSUME NEW r \in Requests, Ends(r), ~(Attach(r) /\ req[r].line = l)
       PROVE  Plain
  <2>1. CASE Attach(r)
    BY <1>0, <1>10, <2>1 DEF Attach, AttachLine
  <2>2. CASE Release(r)
    BY <1>2, <2>2, WorkedLine DEF Release
  <2>3. CASE FailAttach(r) \/ Kill(r)
    BY <1>1, <2>3 DEF FailAttach, Kill
  <2> QED BY <1>10, <2>1, <2>2, <2>3 DEF Ends
<1>11. CASE Edit
  <2>1. ASSUME NEW k \in Lines,
               \/ \E s \in {"NEW", "IGNORED"} : IgnoreOrUnignore(k, s)
               \/ DeleteStatementLine(k) \/ DismissUpstreamChange(k) \/ FeedWithdraws(k)
        PROVE  Plain
    BY <1>2, <2>1 DEF IgnoreOrUnignore, DeleteStatementLine, DismissUpstreamChange, FeedWithdraws
  <2>2. ASSUME NEW k \in Lines, NEW a \in Amounts, FeedDelivers(k, a)
        PROVE  Plain
    BY <1>4, <2>2 DEF FeedDelivers
  <2>3. ASSUME NEW S \in SUBSET ImportLines, NEW a \in Amounts, CommitImport(S, a)
        PROVE  Plain
    BY <1>5, <2>3 DEF CommitImport
  <2>4. ASSUME NEW t \in Txs,
               \/ \E a \in Amounts, rec \in BOOLEAN : EnterTransaction(t, a, rec)
               \/ \E s \in {"AUTHORISED", "DELETED"}, a \in Amounts, rec \in BOOLEAN :
                    EditTransaction(t, s, a, rec)
               \/ DeleteTransaction(t)
               \/ \E rec \in BOOLEAN : SetReconciled(t, rec)
        PROVE  Plain
    BY <1>1, <2>4 DEF EnterTransaction, EditTransaction, DeleteTransaction, SetReconciled
  <2> QED BY <1>11, <2>1, <2>2, <2>3, <2>4 DEF Edit
<1>12. ASSUME NEW k \in Lines, ClaimExpires(k)
       PROVE  Plain
  BY <1>2, <1>12 DEF ClaimExpires
<1>13. CASE UNCHANGED vars
  BY <1>1, <1>13 DEF vars
<1> QED BY <1>8, <1>9, <1>10, <1>11, <1>12, <1>13, StepCases

LEMMA LinksStep ==
  ASSUME TypeOK, LinksInv, [Next]_vars
  PROVE  LinksInv'
<1>0. BooksStay /\ RowsStay /\ lines \in [Lines -> Row]
  BY RowsStayAlways, BooksStayAlways DEF LinksInv, TypeOK, LinesTypeOK
<1>1. FileFirst' /\ \A r \in Requests : Ready(r)'
  BY FileFirstStep, ReadyStep DEF LinksInv
<1>2. ASSUME NEW l \in Lines
      PROVE  /\ lines'[l].tx # NoTx => (InBooks(l))' /\ (TxExists(lines[l].tx))'
             /\ lines'[l].stamp # "none" => (InBooks(l))'
  <2>0. /\ lines[l].tx # NoTx => InBooks(l) /\ TxExists(lines[l].tx)
        /\ lines[l].stamp # "none" => InBooks(l)
    BY DEF LinksInv, LinksAreBooked
  <2>1. CASE InBooks(l)
    <3>1. (InBooks(l))' /\ lines'[l].tx = lines[l].tx /\ lines[l].tx \in Txs \cup {NoTx}
      BY <1>0, <2>1 DEF BooksStay, Row
    <3> QED BY <1>0, <2>0, <3>1 DEF RowsStay, TxExists
  <2>2. CASE ~InBooks(l)
    <3>0. lines[l].tx = NoTx /\ lines[l].stamp = "none"
      BY <2>0, <2>2
    <3>1. ASSUME NEW r \in Requests, Attach(r), req[r].line = l
          PROVE  (InBooks(l))' /\ (lines'[l].tx # NoTx => (TxExists(lines[l].tx))')
      <4>1. lines'[l].tx = req[r].link /\ (InBooks(l))' /\ UNCHANGED ledger
        BY <1>0, <3>1 DEF Attach, AttachLine, InBooks, Row
      <4>2. req[r].link # NoTx => TxExists(req[r].link)
        BY <3>1 DEF LinksInv, Ready, Attach
      <4> QED BY <4>1, <4>2 DEF TxExists
    <3>2. ASSUME NEW r \in Requests
          PROVE  ~(FinishCash(r) /\ l \in req[r].done) /\ ~(StampAuto(r) /\ req[r].line = l)
      BY <2>2 DEF LinksInv, Ready, FinishCash, StampAuto
    <3> QED BY <3>0, <3>1, <3>2, PlainStays
  <2> QED BY <2>1, <2>2
<1> QED BY <1>1, <1>2 DEF LinksInv, LinksAreBooked

\* A line points at a transaction only once it is in the books, and at one that is
\* there; only such a line says that it was coded or auto-reconciled.  Whatever
\* users and the feed do meanwhile, and however claims are overrun.
\* (AttachLineTransaction, MarkLinesCoded, MarkAutoReconciled)
THEOREM LinksBooked == Spec => []LinksAreBooked
<1>1. Init => LinksInv
  BY DEF Init, LinesInit, AbsentRow, Idle, LinksInv, FileFirst, LinksAreBooked, Ready,
     ImportLines
<1>2. TypeOK /\ LinksInv /\ [Next]_vars => LinksInv'
  BY LinksStep
<1>3. LinksInv => LinksAreBooked
  BY DEF LinksInv
<1> QED BY <1>1, <1>2, <1>3, TypeCorrect, PTL DEF Spec

----------------------------------------------------------------------------
(* Postings. *)

\* A request is about to record posting p on line l.
Recording(l, p) ==
  \E r \in Requests : Holds(r, l) /\ req[r].pc = "attach" /\ req[r].made = p

Standing(l) == posted[l] \ lost

\* Until a line is in the books its postings are in the hands of its holder; from then
\* on there is the one that the line records.
PostedInv ==
  \A l \in Lines :
    /\ ~InBooks(l) => \A p \in Standing(l) : Recording(l, p)
    /\ InBooks(l)  => /\ \A p, q \in Standing(l) : p = q
                      /\ \A p \in Standing(l) : lines[l].tx = IF p \in Txs THEN p ELSE NoTx

LEMMA ReadsKeepHistory ==
  ASSUME NEW r \in Requests, Reads(r)
  PROVE  UNCHANGED history
<1>1. Start(r) => UNCHANGED history
  BY DEF Start, StartOnLine, StartMatch, StartCash, StartAuto, StartUndo
<1>2. ASSUME NEW t \in Txs, CheckSelected(r, t)
      PROVE  UNCHANGED history
  BY <1>2 DEF CheckSelected
<1>3. ASSUME NEW l \in Lines, NextRow(r, l)
      PROVE  UNCHANGED history
  BY <1>3 DEF NextRow
<1>4. ASSUME NEW l \in Lines, NEW t \in Txs, NEW a \in Amounts, NextPair(r, l, t, a)
      PROVE  UNCHANGED history
  BY <1>4 DEF NextPair
<1>5. ReadCandidates(r) \/ FinishAuto(r) \/ RefuseRow(r) \/ LoseClaim(r) => UNCHANGED history
  BY DEF ReadCandidates, FinishAuto, RefuseRow, LoseClaim
<1>6. FinishCash(r) \/ StampAuto(r) \/ UndoImport(r) => UNCHANGED history
  BY DEF FinishCash, StampAuto, UndoImport
<1> QED BY <1>1, <1>2, <1>3, <1>4, <1>5, <1>6 DEF Reads

LEMMA EditKeepsHistory ==
  ASSUME Edit
  PROVE  UNCHANGED <<req, posted, lost>>
BY DEF Edit, IgnoreOrUnignore, DeleteStatementLine, DismissUpstreamChange,
   FeedDelivers, FeedWithdraws, CommitImport, EnterTransaction, EditTransaction,
   DeleteTransaction, SetReconciled, history

\* Steps that post nothing and take nobody away from an attach.
LEMMA PostingsKept ==
  ASSUME TypeOK, BooksStay, ClaimInv', PostedInv, UNCHANGED <<posted, lost>>,
         \A r \in Requests : req[r].pc = "attach" => req'[r] = req[r]
  PROVE  PostedInv'
<1> SUFFICES ASSUME NEW l \in Lines
             PROVE  /\ ~(InBooks(l))' => \A p \in Standing(l) : (Recording(l, p))'
                    /\ (InBooks(l))' =>
                         /\ \A p, q \in Standing(l) : p = q
                         /\ \A p \in Standing(l) : lines'[l].tx = IF p \in Txs THEN p ELSE NoTx
  BY DEF PostedInv, Standing
<1>1. CASE InBooks(l)
  BY <1>1 DEF BooksStay, PostedInv
<1>2. CASE ~InBooks(l)
  <2>1. \A p \in Standing(l) : (Recording(l, p))'
    BY <1>2 DEF PostedInv, Recording, Holds
  <2>2. \A p : (Recording(l, p))' => ~(InBooks(l))'
    BY DEF Recording, ClaimInv, InBooks
  <2> QED BY <2>1, <2>2
<1> QED BY <1>1, <1>2

\* A posting joins the line its request holds.
LEMMA PostingMade ==
  ASSUME TypeOK, ClaimInv, PostedInv, NEW r \in Requests, NEW p \in Postings,
         req[r].pc = "post", req'[r].pc = "attach", req'[r].made = p,
         req'[r].line = req[r].line, \A q \in Requests \ {r} : req'[q] = req[q],
         posted' = [posted EXCEPT ![req[r].line] = @ \cup {p}],
         UNCHANGED <<lines, lost>>
  PROVE  PostedInv'
<1>1. req[r].line \in Lines /\ posted \in [Lines -> SUBSET Postings]
  BY WorkedLine DEF TypeOK
<1>2. Holds(r, req[r].line) /\ ~InBooks(req[r].line)
  BY <1>1 DEF Holds, ClaimInv, InBooks
<1>3. \A l \in Lines : \A x : Recording(l, x) => (Recording(l, x))'
  BY DEF Recording, Holds
<1>4. ASSUME NEW l \in Lines
      PROVE  /\ ~(InBooks(l))' => \A x \in (Standing(l))' : (Recording(l, x))'
             /\ (InBooks(l))' =>
                  /\ \A x, y \in (Standing(l))' : x = y
                  /\ \A x \in (Standing(l))' : lines'[l].tx = IF x \in Txs THEN x ELSE NoTx
  <2>1. CASE l = req[r].line
    <3>1. \A x \in (Standing(l))' : x \in Standing(l) \/ x = p
      BY <1>1, <2>1 DEF Standing
    <3>2. ~InBooks(l) /\ ~(InBooks(l))'
      BY <1>2, <2>1 DEF InBooks
    <3>3. (Recording(l, p))'
      BY <2>1 DEF Recording, Holds
    <3> QED BY <1>3, <3>1, <3>2, <3>3 DEF PostedInv
  <2>2. CASE l # req[r].line
    <3>1. (Standing(l))' = Standing(l) /\ ((InBooks(l))' <=> InBooks(l)) /\ lines'[l] = lines[l]
      BY <1>1, <2>2 DEF Standing, InBooks
    <3> QED BY <1>3, <3>1 DEF PostedInv
  <2> QED BY <2>1, <2>2
<1> QED BY <1>4 DEF PostedInv

\* The one posting that stands becomes what the line records.
LEMMA PostingAttached ==
  ASSUME TypeOK, ClaimInv, PostedInv, NEW r \in Requests, Ready(r), Attach(r)
  PROVE  PostedInv'
<1> DEFINE m == req[r].line
<1>0. m \in Lines /\ lines \in [Lines -> Row] /\ NoTx \notin Postings
      /\ posted \in [Lines -> SUBSET Postings]
  BY WorkedLine, LinesAssumption, ReconcileAssumption DEF Attach, TypeOK, LinesTypeOK, Postings
<1>1. UNCHANGED <<posted, lost>> /\ \A q \in Requests \ {r} : req'[q] = req[q]
  BY EndsFrame DEF Attach, Ends, history
<1>2. /\ lines'[m].tx = req[r].link /\ (lines'[m].status = "IMPORTED")
      /\ \A l \in Lines \ {m} : lines'[l] = lines[l]
  BY <1>0 DEF Attach, AttachLine, Row
<1>3. Holds(r, m) /\ ~InBooks(m) /\ req[r].pc = "attach"
  BY <1>0 DEF Attach, AttachLine, Holds, InBooks
<1>4. \A p \in Standing(m) : p = req[r].made
  BY <1>0, <1>3 DEF PostedInv, Recording, ClaimInv, SingleHolder
<1>5. \A p \in Standing(m) : req[r].link = IF p \in Txs THEN p ELSE NoTx
  BY <1>0, <1>3, <1>4 DEF Ready, Standing
<1>6. \A l \in Lines \ {m} : \A p : Recording(l, p) => (Recording(l, p))'
  BY <1>1 DEF Recording, Holds
<1>7. ASSUME NEW l \in Lines
      PROVE  /\ ~(InBooks(l))' => \A x \in Standing(l) : (Recording(l, x))'
             /\ (InBooks(l))' =>
                  /\ \A x, y \in Standing(l) : x = y
                  /\ \A x \in Standing(l) : lines'[l].tx = IF x \in Txs THEN x ELSE NoTx
  <2>1. CASE l = m
    <3>1. (InBooks(l))'
      BY <1>2, <2>1 DEF InBooks
    <3> QED BY <1>2, <1>4, <1>5, <2>1, <3>1
  <2>2. CASE l # m
    <3>1. ((InBooks(l))' <=> InBooks(l)) /\ lines'[l] = lines[l]
      BY <1>2, <2>2 DEF InBooks
    <3> QED BY <1>6, <2>2, <3>1 DEF PostedInv
  <2> QED BY <2>1, <2>2
<1> QED BY <1>1, <1>7 DEF PostedInv, Standing

\* What a dying request has posted does not stand any more.
LEMMA PostingLost ==
  ASSUME TypeOK, PostedInv, NEW r \in Requests, Kill(r), req[r].pc = "attach"
  PROVE  PostedInv'
<1>0. NoTx \notin Postings /\ posted \in [Lines -> SUBSET Postings]
  BY LinesAssumption, ReconcileAssumption DEF TypeOK, Postings
<1>1. /\ UNCHANGED <<lines, posted>> /\ \A q \in Requests \ {r} : req'[q] = req[q]
      /\ lost' = lost \cup ({req[r].made} \ {NoTx})
  BY EndsFrame DEF Kill, Ends
<1>2. ASSUME NEW l \in Lines
      PROVE  /\ \A p \in (Standing(l))' : p \in Standing(l) /\ p # req[r].made
             /\ (InBooks(l))' <=> InBooks(l)
  BY <1>0, <1>1 DEF Standing, InBooks
<1>3. \A l \in Lines : \A p : Recording(l, p) /\ p # req[r].made => (Recording(l, p))'
  BY <1>1 DEF Recording, Holds
<1> QED BY <1>1, <1>2, <1>3 DEF PostedInv

LEMMA PostedStep ==
  ASSUME TypeOK, ClaimInv, ClaimInv', LinksInv, PostedInv, [Next]_vars
  PROVE  PostedInv'
<1>0. BooksStay /\ req \in [Requests -> Request]
  BY BooksStayAlways DEF LinksInv, TypeOK
<1>1. ASSUME NEW r \in Requests, Reads(r)
      PROVE  PostedInv'
  <2>1. UNCHANGED <<posted, lost>>
    BY <1>1, ReadsKeepHistory DEF history
  <2> QED BY <1>0, <1>1, <2>1, ReadsFrame, PostingsKept
<1>2. ASSUME NEW r \in Requests, NEW t \in Txs, PostTransaction(r, t)
      PROVE  PostedInv'
  <2>1. /\ req[r].pc = "post" /\ req'[r].pc = "attach" /\ req'[r].made = t
        /\ req'[r].line = req[r].line /\ t \in Postings /\ UNCHANGED <<lines, lost>>
        /\ posted' = [posted EXCEPT ![req[r].line] = @ \cup {t}]
    BY <1>0, <1>2 DEF PostTransaction, Request, Postings
  <2>2. \A q \in Requests \ {r} : req'[q] = req[q]
    BY <1>0, <1>2 DEF PostTransaction
  <2> QED BY <2>1, <2>2, PostingMade
<1>3. ASSUME NEW r \in Requests, NEW x \in Transfers, PostTransfer(r, x)
      PROVE  PostedInv'
  <2>1. /\ req[r].pc = "post" /\ req'[r].pc = "attach" /\ req'[r].made = x
        /\ req'[r].line = req[r].line /\ x \in Postings /\ UNCHANGED <<lines, lost>>
        /\ posted' = [posted EXCEPT ![req[r].line] = @ \cup {x}]
    BY <1>0, <1>3 DEF PostTransfer, Request, Postings
  <2>2. \A q \in Requests \ {r} : req'[q] = req[q]
    BY <1>0, <1>3 DEF PostTransfer
  <2> QED BY <2>1, <2>2, PostingMade
<1>4. ASSUME NEW r \in Requests,
             FailPosting(r) \/ Claim(r) \/ Release(r) \/ \E t \in Txs : ReconcileSelected(r, t)
      PROVE  PostedInv'
  <2>1. UNCHANGED <<posted, lost>> /\ req[r].pc # "attach"
    BY <1>4 DEF FailPosting, Claim, Release, ReconcileSelected, history
  <2>2. \A q \in Requests \ {r} : req'[q] = req[q]
    BY <1>0, <1>4 DEF FailPosting, Claim, Release, ReconcileSelected
  <2> QED BY <1>0, <2>1, <2>2, PostingsKept
<1>5. ASSUME NEW r \in Requests, Attach(r) \/ FailAttach(r)
      PROVE  PostedInv'
  <2>1. ~FailAttach(r)
    BY WorkedLine DEF FailAttach, ClaimInv, Holds
  <2>2. Ready(r)
    BY DEF LinksInv
  <2> QED BY <1>5, <2>1, <2>2, PostingAttached
<1>6. ASSUME NEW r \in Requests, Kill(r)
      PROVE  PostedInv'
  <2>1. CASE req[r].pc # "attach"
    <3>1. UNCHANGED <<posted, lost>> /\ \A q \in Requests \ {r} : req'[q] = req[q]
      BY <1>0, <1>6, <2>1 DEF Kill
    <3> QED BY <1>0, <2>1, <3>1, PostingsKept
  <2> QED BY <1>6, <2>1, PostingLost
<1>7. CASE Edit \/ (\E l \in Lines : ClaimExpires(l)) \/ UNCHANGED vars
  <2>1. UNCHANGED <<req, posted, lost>>
    BY <1>7, EditKeepsHistory DEF ClaimExpires, vars, history
  <2> QED BY <1>0, <2>1, PostingsKept
<1> QED BY <1>1, <1>2, <1>3, <1>4, <1>5, <1>6, <1>7, StepCases DEF Works, Ends

LEMMA PostedAlways ==
  ASSUME ~ActOnClaimed, ~Overrun
  PROVE  Spec => [](TypeOK /\ ClaimInv /\ PostedInv)
<1>1. Init => ClaimInv /\ LinksInv /\ PostedInv
  <2>1. Init => ClaimInv
    BY DEF Init, LinesInit, AbsentRow, Idle, ClaimInv, FileFirst, Holds, SingleHolder,
       ImportLines
  <2>2. Init => LinksInv
    BY DEF Init, LinesInit, AbsentRow, Idle, LinksInv, FileFirst, LinksAreBooked, Ready,
       ImportLines
  <2>3. Init => PostedInv
    BY DEF Init, PostedInv, Standing
  <2> QED BY <2>1, <2>2, <2>3
<1>2. TypeOK /\ ClaimInv /\ LinksInv /\ PostedInv /\ [Next]_vars
        => ClaimInv' /\ LinksInv' /\ PostedInv'
  BY ClaimStep, LinksStep, PostedStep
<1> QED BY <1>1, <1>2, TypeCorrect, PTL DEF Spec

\* A line is posted once, leaving aside what a killed request posted, as long as no
\* user acts on a line that is being processed and no request outlives its claim.
\* (ClaimLine, withClaimedLine)
THEOREM PostedAtMostOnce ==
  ASSUME ~ActOnClaimed, ~Overrun
  PROVE  Spec => []OneTransactionPerLine
<1>1. ClaimInv /\ PostedInv => OneTransactionPerLine
  <2> SUFFICES ASSUME ClaimInv, PostedInv, NEW l \in Lines,
                      NEW p \in Standing(l), NEW q \in Standing(l)
               PROVE  p = q
    BY DEF OneTransactionPerLine, Standing
  <2>1. CASE ~InBooks(l)
    BY <2>1 DEF PostedInv, Recording, ClaimInv, SingleHolder
  <2>2. CASE InBooks(l)
    BY <2>2 DEF PostedInv
  <2> QED BY <2>1, <2>2
<1> QED BY <1>1, PostedAlways, PTL

\* A line is posted once and no posting is left behind that the inbox does not know of:
\* it is what its line records, or its request is about to record it, or was killed before it could.
\* Under the same two conditions.  (withClaimedLine)
THEOREM PostingsAreRecorded ==
  ASSUME ~ActOnClaimed, ~Overrun
  PROVE  Spec => []PostingsRecorded
<1>1. OneTransactionPerLine /\ PostedInv => PostingsRecorded
  BY DEF PostedInv, PostingsRecorded, Recorded, Recording, Standing
<1> QED BY <1>1, PostedAlways, PostedAtMostOnce, PTL

----------------------------------------------------------------------------
(* What lines are linked to is settled. *)

Settled(t)  == TxExists(t) /\ ledger[t].reconciled
Unposted(t) == TxExists(t) /\ \A k \in Lines : t \notin posted[k]

Matches(r) == req[r].op \in {"match", "auto"}

\* What a request has looked up, checked or is about to link was not made out of a
\* line; what it has reconciled so far is settled; and what it will link without having
\* selected it, it has posted on its own line.
Clear(r) ==
  /\ \A c \in req[r].cands : Unposted(c[1])
  /\ req[r].pc = "check" =>
       req[r].link \in req[r].sel /\ \A t \in req[r].sel \ req[r].left : Unposted(t)
  /\ Matches(r) /\ req[r].pc \in {"claim", "post", "attach"} =>
       req[r].link \in req[r].sel /\ \A t \in req[r].sel : Unposted(t)
  /\ Matches(r) /\ req[r].pc = "claim" => req[r].sel \subseteq req[r].left
  /\ Matches(r) /\ req[r].pc = "post" => \A t \in req[r].sel \ req[r].left : Settled(t)
  /\ Matches(r) /\ req[r].pc = "attach" => \A t \in req[r].sel : Settled(t)
  /\ ~Matches(r) /\ req[r].pc = "attach" /\ req[r].link # NoTx =>
       req[r].link \in posted[req[r].line]

\* A transaction made out of a line is settled, and no other line made it.
OwnPostings ==
  \A k \in Lines : \A t \in posted[k] \cap Txs :
    Settled(t) /\ \A l \in Lines : t \in posted[l] => l = k

SettledInv == LinkedIsSettled /\ OwnPostings /\ \A r \in Requests : Clear(r)

\* Neither edited nor marked unreconciled by hand, a settled transaction stays settled;
\* one that is there is never posted afterwards; and postings are not forgotten.
Steady ==
  /\ \A t \in Txs : Settled(t) => (Settled(t))'
  /\ \A t \in Txs : Unposted(t) => (Unposted(t))'
  /\ \A l \in Lines : posted[l] \subseteq posted'[l]

LEMMA FlagsStay ==
  ASSUME TypeOK, [Next]_vars, "editTx" \notin Edits, "unreconcile" \notin Edits,
         NEW t \in Txs, Settled(t)
  PROVE  (Settled(t))'
<1>0. ledger \in [Txs -> [status : TxStatus, reconciled : BOOLEAN,
                          amount : Amounts \cup {NoAmount}]]
  BY DEF TypeOK, LedgerTypeOK
<1>1. ASSUME NEW u \in Txs,
             \/ \E a \in Amounts, rec \in BOOLEAN : CreateTx(u, a, rec)
             \/ DeleteTx(u)
             \/ ReconcileTx(u, TRUE)
      PROVE  (Settled(t))'
  BY <1>0, <1>1 DEF CreateTx, DeleteTx, ReconcileTx, Settled, TxExists, TxStatus
<1>2. UNCHANGED ledger => (Settled(t))'
  BY DEF Settled, TxExists
<1>3. ASSUME NEW r \in Requests, NEW u \in Txs, PostTransaction(r, u)
      PROVE  (Settled(t))'
  <2>1. req[r].amount \in Amounts
    BY <1>3 DEF PostTransaction, TypeOK, WorksOnLine
  <2> QED BY <1>1, <1>3, <2>1 DEF PostTransaction
<1>4. ASSUME NEW r \in Requests, NEW u \in Txs, ReconcileSelected(r, u)
      PROVE  (Settled(t))'
  BY <1>1, <1>4 DEF ReconcileSelected
<1>5. CASE Edit
  <2>1. ASSUME NEW l \in Lines,
               \/ \E s \in {"NEW", "IGNORED"} : IgnoreOrUnignore(l, s)
               \/ DeleteStatementLine(l)
               \/ DismissUpstreamChange(l)
               \/ \E a \in Amounts : FeedDelivers(l, a)
               \/ FeedWithdraws(l)
        PROVE  UNCHANGED ledger
    BY <2>1 DEF IgnoreOrUnignore, DeleteStatementLine, DismissUpstreamChange,
                FeedDelivers, FeedWithdraws
  <2>2. ASSUME NEW S \in SUBSET ImportLines, NEW a \in Amounts, CommitImport(S, a)
        PROVE  UNCHANGED ledger
    BY <2>2 DEF CommitImport
  <2>3. ASSUME NEW u \in Txs,
               \/ \E a \in Amounts, rec \in BOOLEAN : EnterTransaction(u, a, rec)
               \/ \E s \in {"AUTHORISED", "DELETED"}, a \in Amounts, rec \in BOOLEAN :
                    EditTransaction(u, s, a, rec)
               \/ DeleteTransaction(u)
               \/ \E rec \in BOOLEAN : SetReconciled(u, rec)
        PROVE  (Settled(t))'
    BY <1>1, <2>3 DEF EnterTransaction, EditTransaction, DeleteTransaction, SetReconciled
  <2> QED BY <1>2, <1>5, <2>1, <2>2, <2>3 DEF Edit
<1>6. CASE (\E l \in Lines : ClaimExpires(l)) \/ UNCHANGED vars
  BY <1>2, <1>6 DEF ClaimExpires, vars
<1> QED BY <1>2, <1>3, <1>4, <1>5, <1>6, StepCases, ReadsLeaveLedger DEF Works

\* What a step posts: a transaction that was not there, as settled, or a transfer.
LEMMA PostingStep ==
  ASSUME TypeOK, [Next]_vars
  PROVE  \/ UNCHANGED posted
         \/ \E r \in Requests, t \in Txs : PostTransaction(r, t)
         \/ \E r \in Requests, x \in Transfers : PostTransfer(r, x)
<1>1. ASSUME NEW r \in Requests, Reads(r) \/ Ends(r) \/ Claim(r) \/ FailPosting(r)
      PROVE  UNCHANGED posted
  BY <1>1, ReadsKeepHistory
     DEF Ends, Attach, FailAttach, Release, Kill, Claim, FailPosting, history
<1>2. ASSUME NEW r \in Requests, NEW t \in Txs, ReconcileSelected(r, t)
      PROVE  UNCHANGED posted
  BY <1>2 DEF ReconcileSelected, history
<1>3. CASE Edit \/ (\E l \in Lines : ClaimExpires(l)) \/ UNCHANGED vars
  BY <1>3, EditKeepsHistory DEF ClaimExpires, vars, history
<1> QED BY <1>1, <1>2, <1>3, StepCases DEF Works

LEMMA TransactionPosted ==
  ASSUME TypeOK, NEW r \in Requests, NEW t \in Txs, PostTransaction(r, t)
  PROVE  /\ req[r].line \in Lines /\ ~TxExists(t) /\ (Settled(t))'
         /\ posted'[req[r].line] = posted[req[r].line] \cup {t}
         /\ \A l \in Lines \ {req[r].line} : posted'[l] = posted[l]
<1>1. req[r].line \in Lines
  BY WorkedLine DEF PostTransaction
<1> QED BY <1>1 DEF PostTransaction, CreateTx, TypeOK, LedgerTypeOK, TxExists, Settled

LEMMA TransferPosted ==
  ASSUME TypeOK, NEW r \in Requests, NEW x \in Transfers, PostTransfer(r, x)
  PROVE  /\ x \notin Txs
         /\ \A l \in Lines : posted[l] \subseteq posted'[l] /\ posted'[l] \subseteq posted[l] \cup {x}
<1>1. req[r].line \in Lines
  BY WorkedLine DEF PostTransfer
<1> QED BY <1>1, ReconcileAssumption DEF PostTransfer, TypeOK

LEMMA SteadyAlways ==
  ASSUME TypeOK, [Next]_vars, "editTx" \notin Edits, "unreconcile" \notin Edits
  PROVE  Steady
<1>0. RowsStay
  BY RowsStayAlways
<1>1. CASE UNCHANGED posted
  BY <1>0, <1>1, FlagsStay DEF Steady, RowsStay, Unposted
<1>2. ASSUME NEW r \in Requests, NEW u \in Txs, PostTransaction(r, u)
      PROVE  Steady
  <2>1. \A l \in Lines : posted[l] \subseteq posted'[l] /\ posted'[l] \subseteq posted[l] \cup {u}
    BY <1>2, TransactionPosted
  <2>2. ~TxExists(u)
    BY <1>2, TransactionPosted
  <2>3. \A t \in Txs : Unposted(t) => (Unposted(t))'
    BY <1>0, <2>1, <2>2 DEF RowsStay, Unposted
  <2> QED BY <2>1, <2>3, FlagsStay DEF Steady
<1>3. ASSUME NEW r \in Requests, NEW x \in Transfers, PostTransfer(r, x)
      PROVE  Steady
  <2>1. /\ x \notin Txs
        /\ \A l \in Lines : posted[l] \subseteq posted'[l] /\ posted'[l] \subseteq posted[l] \cup {x}
    BY <1>3, TransferPosted
  <2>2. \A t \in Txs : Unposted(t) => (Unposted(t))'
    BY <1>0, <2>1 DEF RowsStay, Unposted
  <2> QED BY <2>1, <2>2, FlagsStay DEF Steady
<1> QED BY <1>1, <1>2, <1>3, PostingStep

\* What Clear says of a request that does nothing cannot be undone by the others.
LEMMA ClearStays ==
  ASSUME TypeOK, Steady, NEW r \in Requests, Clear(r), req'[r] = req[r]
  PROVE  Clear(r)'
<1>1. req[r] \in Request /\ (req[r].pc = "attach" => req[r].line \in Lines)
  BY WorkedLine DEF TypeOK
<1>2. /\ req[r].sel \subseteq Txs /\ \A c \in req[r].cands : c[1] \in Txs
      /\ req[r].link \in Txs \cup {NoTx}
  BY <1>1 DEF Request
<1>3. /\ \A t \in Txs : Settled(t) => (Settled(t))'
      /\ \A t \in Txs : Unposted(t) => (Unposted(t))'
      /\ \A l \in Lines : posted[l] \subseteq posted'[l]
  BY DEF Steady
<1>4. \A c \in req[r].cands : (Unposted(c[1]))'
  <2> SUFFICES ASSUME NEW c \in req[r].cands PROVE (Unposted(c[1]))'
    OBVIOUS
  <2>1. PICK t \in Txs : t = c[1]
    BY <1>2
  <2>2. Unposted(t)
    BY <2>1 DEF Clear
  <2>3. (Unposted(t))'
    BY <1>3, <2>2
  <2> QED BY <2>1, <2>3 DEF Unposted, TxExists
<1> HIDE DEF Settled, Unposted
<1> QED BY <1>1, <1>2, <1>3, <1>4 DEF Clear, Matches

LEMMA IdleClear ==
  ASSUME NEW r \in Requests, req'[r] = Idle
  PROVE  Clear(r)'
BY DEF Clear, Matches, Idle

LEMMA StartClear ==
  ASSUME TypeOK, NEW r \in Requests, Start(r)
  PROVE  Clear(r)'
<1>0. req \in [Requests -> Request]
  BY DEF TypeOK
<1>1. ASSUME NEW op \in {"create", "transfer"}, NEW l \in Lines, StartOnLine(r, op, l)
      PROVE  Clear(r)'
  BY <1>0, <1>1 DEF StartOnLine, Idle, Clear, Matches
<1>2. ASSUME NEW l \in Lines, NEW S \in SUBSET Txs, NEW t \in Txs, StartMatch(r, l, S, t)
      PROVE  Clear(r)'
  BY <1>0, <1>2 DEF StartMatch, Idle, Clear, Matches
<1>3. ASSUME NEW S \in SUBSET Lines, StartCash(r, S)
      PROVE  Clear(r)'
  BY <1>0, <1>3 DEF StartCash, Idle, Clear, Matches
<1>4. CASE StartAuto(r)
  BY <1>0, <1>4 DEF StartAuto, Idle, Clear, Matches
<1>5. CASE StartUndo(r)
  BY <1>0, <1>5 DEF StartUndo, Idle, Clear, Matches
<1> QED BY <1>1, <1>2, <1>3, <1>4, <1>5 DEF Start

\* A transaction that is not reconciled yet was not made out of a line.
LEMMA OpenIsUnposted ==
  ASSUME OwnPostings, NEW t \in Txs, TxExists(t), ~ledger[t].reconciled
  PROVE  Unposted(t)
BY DEF OwnPostings, Unposted, Settled

\* Nothing Unposted speaks of has changed.
Untouched == UNCHANGED <<ledger, posted>>

LEMMA UnpostedUntouched ==
  ASSUME Untouched, NEW t
  PROVE  ((Unposted(t))' <=> Unposted(t)) /\ ((Settled(t))' <=> Settled(t))
BY DEF Untouched, Unposted, Settled, TxExists

LEMMA CheckClear ==
  ASSUME TypeOK, OwnPostings, NEW r \in Requests, Ready(r), Clear(r), NEW t \in Txs,
         CheckSelected(r, t)
  PROVE  Clear(r)'
<1> DEFINE sum  == req[r].sum + ledger[t].amount
           rest == req[r].left \ {t}
           more == [req[r] EXCEPT !.sum = sum, !.left = rest]
           all  == [req[r] EXCEPT !.pc = "claim", !.sum = sum, !.left = req[r].sel]
           next == IF rest # {} THEN more ELSE IF sum = req[r].amount THEN all ELSE Idle
<1>1. /\ req[r].pc = "check" /\ Untouched /\ req[r].op = "match"
      /\ req' = [req EXCEPT ![r] = IF TxExists(t) /\ ~ledger[t].reconciled THEN next ELSE Idle]
  BY DEF CheckSelected, Checked, history, Untouched, Ready
<1>2. req[r] \in Request /\ req \in [Requests -> Request]
  BY DEF TypeOK
<1>3. /\ all.pc = "claim" /\ all.link = req[r].link /\ all.cands = req[r].cands
      /\ all.sel = req[r].sel /\ all.left = req[r].sel /\ all.op = req[r].op
  BY <1>2 DEF Request
<1>4. /\ more.pc = "check" /\ more.link = req[r].link /\ more.cands = req[r].cands
      /\ more.sel = req[r].sel /\ more.left = rest /\ more.op = req[r].op
  BY <1>1, <1>2 DEF Request
<1>5. /\ \A c \in req[r].cands : (Unposted(c[1]))'
      /\ req[r].link \in req[r].sel
      /\ \A u \in req[r].sel \ req[r].left : (Unposted(u))'
  BY <1>1, UnpostedUntouched DEF Clear
<1>6. TxExists(t) /\ ~ledger[t].reconciled => (Unposted(t))'
  BY <1>1, OpenIsUnposted, UnpostedUntouched
<1>7. \/ req'[r] = Idle
      \/ (Unposted(t))' /\ req'[r] = more
      \/ (Unposted(t))' /\ rest = {} /\ req'[r] = all
  BY <1>1, <1>2, <1>6
<1>8. \A u \in req[r].sel \ rest : u = t \/ u \in req[r].sel \ req[r].left
  OBVIOUS
<1> HIDE DEF all, more, sum, rest, Unposted, Untouched
<1>9. CASE (Unposted(t))' /\ req'[r] = more
  <2>1. \A u \in req[r].sel \ rest : (Unposted(u))'
    BY <1>5, <1>8, <1>9
  <2> QED BY <1>4, <1>5, <1>9, <2>1 DEF Clear, Matches
<1>10. CASE (Unposted(t))' /\ rest = {} /\ req'[r] = all
  <2>1. \A u \in req[r].sel : (Unposted(u))'
    BY <1>5, <1>8, <1>10
  <2> QED BY <1>3, <1>5, <1>10, <2>1 DEF Clear, Matches
<1> QED BY <1>7, <1>9, <1>10, IdleClear

LEMMA NextRowClear ==
  ASSUME TypeOK, NEW r \in Requests, Clear(r), NEW l \in Lines, NextRow(r, l)
  PROVE  Clear(r)'
<1> DEFINE row  == [req[r] EXCEPT !.pc = "claim", !.line = l, !.amount = lines[l].amount,
                                  !.link = NoTx, !.made = NoTx, !.todo = @ \ {<<l, NoAmount>>}]
           next == IF Exists(l) THEN row ELSE Idle
<1>1. req' = [req EXCEPT ![r] = next] /\ req[r].op = "cash" /\ Untouched
  BY DEF NextRow, Untouched, history
<1>2. req[r] \in Request /\ req \in [Requests -> Request]
  BY DEF TypeOK
<1>3. row.pc = "claim" /\ row.op = req[r].op /\ row.cands = req[r].cands
  BY <1>2 DEF Request
<1>4. req'[r] = row \/ req'[r] = Idle
  BY <1>1, <1>2
<1>5. \A c \in req[r].cands : (Unposted(c[1]))'
  BY <1>1, UnpostedUntouched DEF Clear
<1> HIDE DEF row, next, Unposted
<1>6. CASE req'[r] = row
  BY <1>1, <1>3, <1>5, <1>6 DEF Clear, Matches
<1> QED BY <1>4, <1>6, IdleClear

LEMMA CandidatesClear ==
  ASSUME TypeOK, OwnPostings, NEW r \in Requests, ReadCandidates(r)
  PROVE  Clear(r)'
<1>1. req[r] \in Request /\ req \in [Requests -> Request]
  BY DEF TypeOK
<1>2. req'[r].pc = "rows" /\ Untouched
  BY <1>1 DEF ReadCandidates, Request, Untouched, history
<1>3. ASSUME NEW c \in req'[r].cands
      PROVE  (Unposted(c[1]))'
  <2>1. PICK t \in Txs : c[1] = t /\ TxExists(t) /\ ~ledger[t].reconciled
    BY <1>1, <1>3 DEF ReadCandidates, Request
  <2>2. (Unposted(t))'
    BY <1>2, <2>1, OpenIsUnposted, UnpostedUntouched
  <2> QED BY <2>1, <2>2 DEF Unposted, TxExists
<1> QED BY <1>2, <1>3 DEF Clear, Matches

LEMMA NextPairClear ==
  ASSUME TypeOK, NEW r \in Requests, Clear(r), NEW l \in Lines, NEW t \in Txs,
         NEW a \in Amounts, NextPair(r, l, t, a)
  PROVE  Clear(r)'
<1> DEFINE q == [req[r] EXCEPT !.pc = "claim", !.line = l, !.amount = a, !.link = t,
                               !.sel = {t}, !.left = {t}, !.todo = @ \ {<<l, a>>}]
<1>1. /\ req' = [req EXCEPT ![r] = q] /\ req[r].op = "auto" /\ <<t, a>> \in req[r].cands
      /\ Untouched
  BY DEF NextPair, Untouched, history
<1>2. req[r] \in Request /\ req \in [Requests -> Request]
  BY DEF TypeOK
<1>3. /\ q.pc = "claim" /\ q.link = t /\ q.cands = req[r].cands
      /\ q.sel = {t} /\ q.left = {t} /\ q.op = req[r].op
  BY <1>2 DEF Request
<1>4. \A c \in req[r].cands : (Unposted(c[1]))'
  BY <1>1, UnpostedUntouched DEF Clear
<1>5. (Unposted(t))'
  <2>1. (Unposted(<<t, a>>[1]))'
    BY <1>1, <1>4
  <2> QED BY <2>1 DEF Unposted, TxExists
<1>6. req'[r] = q
  BY <1>1, <1>2
<1> HIDE DEF q, Unposted
<1> QED BY <1>1, <1>3, <1>4, <1>5, <1>6 DEF Clear, Matches

\* Going on to the next row, or stamping and going on, forgets the row before.
LEMMA NextTurnClear ==
  ASSUME TypeOK, NEW r \in Requests, Clear(r), LoseClaim(r) \/ StampAuto(r)
  PROVE  Clear(r)'
<1> DEFINE rows == [req[r] EXCEPT !.pc = "rows"]
<1>1. req[r] \in Request /\ req \in [Requests -> Request]
  BY DEF TypeOK
<1>2. (req'[r] = rows \/ req'[r] = Idle) /\ Untouched
  BY <1>1 DEF LoseClaim, StampAuto, Untouched, history
<1>3. rows.pc = "rows" /\ rows.cands = req[r].cands
  BY <1>1 DEF Request
<1>4. \A c \in req[r].cands : (Unposted(c[1]))'
  BY <1>2, UnpostedUntouched DEF Clear
<1> HIDE DEF rows, Unposted
<1>5. CASE req'[r] = rows
  BY <1>3, <1>4, <1>5 DEF Clear, Matches
<1> QED BY <1>2, <1>5, IdleClear

LEMMA ClaimClear ==
  ASSUME TypeOK, NEW r \in Requests, Clear(r), Claim(r) \/ FailPosting(r)
  PROVE  Clear(r)'
<1>1. req[r] \in Request /\ req \in [Requests -> Request]
  BY DEF TypeOK
<1>2. /\ Untouched /\ req'[r].op = req[r].op /\ req'[r].link = req[r].link
      /\ req'[r].cands = req[r].cands
      /\ req'[r].sel = req[r].sel /\ req'[r].left = req[r].left
  BY <1>1 DEF Claim, FailPosting, Request, Untouched, history
<1>3. \/ req[r].pc = "claim" /\ req'[r].pc = "post"
      \/ req[r].pc = "post" /\ req'[r].pc = "release"
  BY <1>1 DEF Claim, FailPosting, Request
<1>4. /\ \A c \in req[r].cands : (Unposted(c[1]))'
      /\ Matches(r) => req[r].link \in req[r].sel /\ \A t \in req[r].sel : (Unposted(t))'
  BY <1>2, <1>3, UnpostedUntouched DEF Clear
<1>5. Matches(r) /\ req[r].pc = "claim" => req[r].sel \ req[r].left = {}
  BY DEF Clear
<1> HIDE DEF Unposted, Settled
<1> QED BY <1>2, <1>3, <1>4, <1>5 DEF Clear, Matches

LEMMA SelectedClear ==
  ASSUME TypeOK, Steady, NEW r \in Requests, Clear(r), NEW t \in Txs, ReconcileSelected(r, t)
  PROVE  Clear(r)'
<1>1. req[r] \in Request /\ req \in [Requests -> Request]
  BY DEF TypeOK
<1>2. /\ req[r].pc = "post" /\ Matches(r) /\ req'[r].op = req[r].op
      /\ req'[r].link = req[r].link /\ req'[r].cands = req[r].cands
      /\ req'[r].sel = req[r].sel /\ req'[r].left = req[r].left \ {t}
  BY <1>1 DEF ReconcileSelected, Request, Matches
<1>3. req'[r].pc = "post" \/ (req'[r].pc = "attach" /\ req[r].left = {t})
  BY <1>1 DEF ReconcileSelected, Request
<1>4. (Settled(t))'
  BY DEF ReconcileSelected, ReconcileTx, Settled, TxExists, TypeOK, LedgerTypeOK
<1>5. /\ \A u \in Txs : Settled(u) => (Settled(u))'
      /\ \A u \in Txs : Unposted(u) => (Unposted(u))'
  BY DEF Steady
<1>6. /\ req[r].sel \subseteq Txs /\ \A c \in req[r].cands : c[1] \in Txs
  BY <1>1 DEF Request
<1>7. req[r].link \in req[r].sel /\ \A u \in req[r].sel : (Unposted(u))'
  BY <1>2, <1>5, <1>6 DEF Clear
<1>8. \A u \in req[r].sel \ req'[r].left : (Settled(u))'
  <2> SUFFICES ASSUME NEW u \in req[r].sel, u \notin req'[r].left
               PROVE  (Settled(u))'
    OBVIOUS
  <2>1. u = t \/ u \notin req[r].left
    BY <1>2
  <2> QED BY <1>2, <1>4, <1>5, <1>6, <2>1 DEF Clear
<1>9. req'[r].pc = "attach" => \A u \in req[r].sel : (Settled(u))'
  BY <1>2, <1>3, <1>8
<1>10. ASSUME NEW c \in req[r].cands
       PROVE  (Unposted(c[1]))'
  <2>1. PICK u \in Txs : u = c[1]
    BY <1>6
  <2>2. (Unposted(u))'
    BY <1>5, <2>1 DEF Clear
  <2> QED BY <2>1, <2>2 DEF Unposted, TxExists
<1> HIDE DEF Unposted, Settled
<1> QED BY <1>2, <1>3, <1>7, <1>8, <1>9, <1>10 DEF Clear, Matches

LEMMA PostingClear ==
  ASSUME TypeOK, Steady, NEW r \in Requests, Ready(r), Clear(r),
         \/ \E t \in Txs : PostTransaction(r, t)
         \/ \E x \in Transfers : PostTransfer(r, x)
  PROVE  Clear(r)'
<1>1. req[r] \in Request /\ req \in [Requests -> Request]
  BY DEF TypeOK
<1>2. \A c \in req[r].cands : c[1] \in Txs
  BY <1>1 DEF Request
<1>3. ASSUME NEW c \in req[r].cands
      PROVE  (Unposted(c[1]))'
  <2>1. PICK t \in Txs : t = c[1]
    BY <1>2
  <2>2. (Unposted(t))'
    BY <2>1 DEF Clear, Steady
  <2> QED BY <2>1, <2>2 DEF Unposted, TxExists
<1>4. ASSUME NEW t \in Txs, PostTransaction(r, t)
      PROVE  Clear(r)'
  <2>1. /\ req'[r].pc = "attach" /\ req'[r].cands = req[r].cands /\ req'[r].link = t
        /\ req'[r].line = req[r].line /\ req'[r].op \in {"create", "cash"}
    BY <1>1, <1>4 DEF PostTransaction, Request
  <2>2. t \in posted'[req[r].line]
    BY <1>4, TransactionPosted
  <2> HIDE DEF Unposted, Settled
  <2> QED BY <1>3, <2>1, <2>2 DEF Clear, Matches
<1>5. ASSUME NEW x \in Transfers, PostTransfer(r, x)
      PROVE  Clear(r)'
  <2>1. /\ req'[r].pc = "attach" /\ req'[r].cands = req[r].cands
        /\ req'[r].link = req[r].link /\ req'[r].op = "transfer"
    BY <1>1, <1>5 DEF PostTransfer, Request
  <2>2. req[r].link = NoTx
    BY <1>5 DEF Ready, PostTransfer
  <2> HIDE DEF Unposted, Settled
  <2> QED BY <1>3, <2>1, <2>2 DEF Clear, Matches
<1> QED BY <1>4, <1>5

LEMMA AttachClear ==
  ASSUME TypeOK, NEW r \in Requests, Clear(r), Attach(r)
  PROVE  Clear(r)'
<1> DEFINE cash == [req[r] EXCEPT !.pc = "rows", !.done = @ \cup {req[r].line},
                                  !.line = NoLine, !.link = NoTx, !.made = NoTx]
           auto == [req[r] EXCEPT !.pc = "stamp", !.cands = {c \in @ : c[1] # req[r].link}]
<1>1. req[r] \in Request /\ req \in [Requests -> Request]
  BY DEF TypeOK
<1>2. cash.pc = "rows" /\ cash.cands = req[r].cands
  BY <1>1 DEF Request
<1>3. auto.pc = "stamp" /\ auto.cands \subseteq req[r].cands
  BY <1>1 DEF Request
<1>4. (req'[r] = cash \/ req'[r] = auto \/ req'[r] = Idle) /\ Untouched
  BY <1>1 DEF Attach, Attached, Untouched, history
<1>5. \A c \in req[r].cands : (Unposted(c[1]))'
  BY <1>4, UnpostedUntouched DEF Clear
<1> HIDE DEF cash, auto, Unposted
<1>6. CASE req'[r] = cash
  BY <1>2, <1>5, <1>6 DEF Clear, Matches
<1>7. CASE req'[r] = auto
  BY <1>3, <1>5, <1>7 DEF Clear, Matches
<1> QED BY <1>4, <1>6, <1>7, IdleClear

LEMMA EndsClear ==
  ASSUME NEW r \in Requests, req \in [Requests -> Request],
         FinishCash(r) \/ FinishAuto(r) \/ RefuseRow(r) \/ UndoImport(r)
           \/ FailAttach(r) \/ Release(r) \/ Kill(r)
  PROVE  Clear(r)'
<1>1. req'[r] = Idle
  BY DEF FinishCash, FinishAuto, RefuseRow, UndoImport, FailAttach, Release, Kill
<1> QED BY <1>1, IdleClear

\* Whoever moves, every request stays clear.
LEMMA ClearStep ==
  ASSUME TypeOK, LinksInv, SettledInv, Steady, [Next]_vars, NEW q \in Requests
  PROVE  Clear(q)'
<1>0. Ready(q) /\ Clear(q) /\ OwnPostings /\ req \in [Requests -> Request]
  BY DEF LinksInv, SettledInv, TypeOK
<1>1. ASSUME NEW r \in Requests, Reads(r)
      PROVE  Clear(q)'
  <2>1. CASE q # r
    BY <1>0, <1>1, <2>1, ReadsFrame, ClearStays
  <2>2. CASE q = r
    BY <1>0, <1>1, <2>2, StartClear, CheckClear, NextRowClear, EndsClear, CandidatesClear,
       NextPairClear, NextTurnClear DEF Reads
  <2> QED BY <2>1, <2>2
<1>2. ASSUME NEW r \in Requests, Works(r) \/ Claim(r)
      PROVE  Clear(q)'
  <2>1. CASE q # r
    BY <1>0, <1>2, <2>1, WorksFrame, ClaimFrame, ClearStays DEF Within
  <2>2. CASE q = r
    BY <1>0, <1>2, <2>2, ClaimClear, SelectedClear, PostingClear DEF Works
  <2> QED BY <2>1, <2>2
<1>3. ASSUME NEW r \in Requests, Ends(r)
      PROVE  Clear(q)'
  <2>1. CASE q # r
    BY <1>0, <1>3, <2>1, EndsFrame, ClearStays
  <2>2. CASE q = r
    BY <1>0, <1>3, <2>2, AttachClear, EndsClear DEF Ends
  <2> QED BY <2>1, <2>2
<1>4. CASE Edit \/ (\E l \in Lines : ClaimExpires(l)) \/ UNCHANGED vars
  <2>1. UNCHANGED req
    BY <1>4, EditLines DEF ClaimExpires, vars
  <2> QED BY <1>0, <2>1, ClearStays
<1> QED BY <1>1, <1>2, <1>3, <1>4, StepCases

LEMMA OwnPostingsStep ==
  ASSUME TypeOK, OwnPostings, Steady, [Next]_vars
  PROVE  OwnPostings'
<1> SUFFICES ASSUME NEW k \in Lines, NEW t \in Txs, t \in posted'[k]
             PROVE  (Settled(t))' /\ \A l \in Lines : t \in posted'[l] => l = k
  BY DEF OwnPostings, Settled, TxExists
<1>1. t \in posted[k] => Settled(t) /\ (Settled(t))' /\ \A l \in Lines : t \in posted[l] => l = k
  BY DEF OwnPostings, Steady
<1>2. CASE UNCHANGED posted
  BY <1>1, <1>2
<1>3. ASSUME NEW r \in Requests, NEW u \in Txs, PostTransaction(r, u)
      PROVE  (Settled(t))' /\ \A l \in Lines : t \in posted'[l] => l = k
  <2>1. /\ req[r].line \in Lines /\ ~TxExists(u) /\ (Settled(u))'
        /\ posted'[req[r].line] = posted[req[r].line] \cup {u}
        /\ \A l \in Lines \ {req[r].line} : posted'[l] = posted[l]
    BY <1>3, TransactionPosted
  <2>2. \A l \in Lines : u \notin posted[l]
    BY <2>1 DEF OwnPostings, Settled
  <2> HIDE DEF Settled
  <2>3. CASE t = u
    <3>1. \A l \in Lines : u \in posted'[l] => l = req[r].line
      BY <2>1, <2>2
    <3> QED BY <2>1, <2>3, <3>1
  <2>4. CASE t # u
    <3>1. \A l \in Lines : t \in posted'[l] <=> t \in posted[l]
      BY <2>1, <2>4
    <3> QED BY <1>1, <3>1
  <2> QED BY <2>3, <2>4
<1>4. ASSUME NEW r \in Requests, NEW x \in Transfers, PostTransfer(r, x)
      PROVE  (Settled(t))' /\ \A l \in Lines : t \in posted'[l] => l = k
  <2>1. \A l \in Lines : t \in posted'[l] => t \in posted[l]
    BY <1>4, TransferPosted
  <2> QED BY <1>1, <2>1
<1> QED BY <1>2, <1>3, <1>4, PostingStep

LEMMA SettledStep ==
  ASSUME TypeOK, LinksInv, SettledInv, [Next]_vars,
         "editTx" \notin Edits, "unreconcile" \notin Edits
  PROVE  SettledInv'
<1>0. /\ BooksStay /\ Steady /\ OwnPostings' /\ lines \in [Lines -> Row]
      /\ posted \in [Lines -> SUBSET Postings]
  BY BooksStayAlways, SteadyAlways, OwnPostingsStep DEF LinksInv, SettledInv, TypeOK, LinesTypeOK
<1>1. \A r \in Requests : Clear(r)'
  BY <1>0, ClearStep
\* What makes t fit to be the transaction of line l, before the step and after it.
<1> DEFINE Fit(l, t) == Settled(t) /\ \A k \in Lines : t \in posted[k] => k = l
<1>2. \A l \in Lines : \A t \in Txs : Fit(l, t) => (Settled(t))' /\ \A k \in Lines : t \in posted'[k] => k = l
  <2> SUFFICES ASSUME NEW l \in Lines, NEW t \in Txs, Fit(l, t), NEW k \in Lines, t \in posted'[k]
               PROVE  (Settled(t))' /\ k = l
    BY <1>0 DEF Steady
  <2>1. (Settled(t))'
    BY <1>0 DEF Steady
  <2>2. CASE Unposted(t)
    <3>1. (Unposted(t))'
      BY <1>0, <2>2 DEF Steady
    <3> QED BY <3>1 DEF Unposted
  <2>3. CASE ~Unposted(t)
    <3>1. t \in posted[l]
      BY <2>3 DEF Unposted, Settled
    <3>2. t \in posted'[l]
      BY <1>0, <3>1 DEF Steady
    <3> QED BY <1>0, <2>1, <3>2 DEF OwnPostings
  <2> QED BY <2>2, <2>3
<1>3. ASSUME NEW l \in Lines, lines'[l].tx # NoTx
      PROVE  ledger'[lines'[l].tx].reconciled
             /\ \A k \in Lines : lines'[l].tx \in posted'[k] => k = l
  <2>1. ASSUME NEW t \in Txs, Fit(l, t), lines'[l].tx = t
        PROVE  ledger'[lines'[l].tx].reconciled
               /\ \A k \in Lines : lines'[l].tx \in posted'[k] => k = l
    BY <1>2, <2>1 DEF Settled
  <2>2. CASE InBooks(l)
    <3>1. PICK t \in Txs : t = lines[l].tx /\ lines'[l].tx = t
      BY <1>0, <1>3, <2>2 DEF BooksStay, Row
    <3>2. Fit(l, t)
      BY <1>3, <3>1 DEF SettledInv, LinkedIsSettled, LinksInv, LinksAreBooked, Settled
    <3> QED BY <2>1, <3>1, <3>2
  <2>3. CASE ~InBooks(l)
    <3>1. lines[l].tx = NoTx /\ lines[l].stamp = "none"
      BY <2>3 DEF LinksInv, LinksAreBooked
    <3>2. ASSUME NEW r \in Requests
          PROVE  ~(FinishCash(r) /\ l \in req[r].done) /\ ~(StampAuto(r) /\ req[r].line = l)
      BY <2>3 DEF LinksInv, Ready, FinishCash, StampAuto
    <3>3. PICK r \in Requests : Attach(r) /\ req[r].line = l
      BY <1>3, <3>1, <3>2, PlainStays
    <3>4. lines'[l].tx = req[r].link /\ req[r].pc = "attach"
      BY <1>0, <3>3 DEF Attach, AttachLine, Row
    <3>5. PICK t \in Txs : t = req[r].link
      BY <1>3, <3>4, WorkedLine
    <3>6. Clear(r) /\ t # NoTx
      BY <1>3, <3>4, <3>5 DEF SettledInv
    <3>7. CASE Matches(r)
      <4>1. Settled(t) /\ Unposted(t)
        BY <3>4, <3>5, <3>6, <3>7 DEF Clear
      <4> QED BY <2>1, <3>4, <3>5, <4>1 DEF Unposted
    <3>8. CASE ~Matches(r)
      <4>1. t \in posted[l]
        BY <3>3, <3>4, <3>5, <3>6, <3>8 DEF Clear
      <4>2. Fit(l, t)
        BY <4>1 DEF SettledInv, OwnPostings
      <4> QED BY <2>1, <3>4, <3>5, <4>2
    <3> QED BY <3>7, <3>8
  <2> QED BY <2>2, <2>3
<1> QED BY <1>0, <1>1, <1>3 DEF SettledInv, LinkedIsSettled

\* The transaction a line is linked to is marked reconciled, and one made out of a line
\* is linked to no other line, however requests race, overrun their claims or die and
\* whatever users do to lines that are being processed: as long as nobody rewrites the
\* transaction or marks it unreconciled by hand.
\* (createTransactionFromLine against Match, ReconcileSelection, autoReconcileAccount)
THEOREM LinkedSettled ==
  ASSUME "editTx" \notin Edits, "unreconcile" \notin Edits
  PROVE  Spec => []LinkedIsSettled
<1>1. Init => LinksInv /\ SettledInv
  <2>1. Init => LinksInv
    BY DEF Init, LinesInit, AbsentRow, Idle, LinksInv, FileFirst, LinksAreBooked, Ready,
       ImportLines
  <2>2. Init => SettledInv
    BY DEF Init, LinesInit, AbsentRow, Idle, SettledInv, LinkedIsSettled, OwnPostings, Clear,
       Matches
  <2> QED BY <2>1, <2>2
<1>2. TypeOK /\ LinksInv /\ SettledInv /\ [Next]_vars => LinksInv' /\ SettledInv'
  BY LinksStep, SettledStep
<1>3. SettledInv => LinkedIsSettled
  BY DEF SettledInv
<1> QED BY <1>1, <1>2, <1>3, TypeCorrect, PTL DEF Spec
=============================================================================
