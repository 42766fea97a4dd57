--------------------------- MODULE FeedSyncProofs ---------------------------
(***************************************************************************)
(* What holds of FeedSync for every number of transactions, syncs, changes *)
(* and failures: its types, and that as long as syncs do not overlap the   *)
(* lines account for everything the cursor has left behind.                *)
(***************************************************************************)
EXTENDS FeedSync, TLAPS

----------------------------------------------------------------------------
(* Types. *)

LEMMA SyncRecord ==
  ASSUME NEW p \in {"idle", "fetch"}, NEW m \in Moments
  PROVE  [pc |-> p, from |-> m, upto |-> 0, todo |-> {}] \in Sync
<1>1. 0 \in Moments
  BY FeedSyncAssumption DEF Moments
<1>2. {} \in SUBSET Trans
  OBVIOUS
<1> QED BY <1>1, <1>2 DEF Sync

LEMMA UpsertedType ==
  ASSUME line \in [Trans -> Line], NEW x \in Trans, NEW v \in Moments
  PROVE  Upserted(x, v) \in Line
<1>1. line[x] \in Line /\ NoRow \in Line
  BY FeedSyncAssumption DEF NoRow, Line, Moments
<1>2. /\ [line[x] EXCEPT !.parked = v] \in Line
      /\ [NoRow EXCEPT !.place = "inbox", !.at = v] \in Line
  BY <1>1 DEF Line
<1> QED BY <1>2 DEF Upserted

LEMMA AfterRemovalType ==
  ASSUME line \in [Trans -> Line], NEW x \in Trans
  PROVE  AfterRemoval(x) \in Line
<1>1. CASE InInbox(x)
  BY <1>1, FeedSyncAssumption DEF AfterRemoval, InInbox, Taken, NoRow, Line, Moments
<1>2. CASE Taken(x)
  BY <1>2 DEF AfterRemoval, InInbox, Taken, Line
<1>3. CASE ~InInbox(x) /\ ~Taken(x)
  BY <1>3 DEF AfterRemoval
<1> QED BY <1>1, <1>2, <1>3

LEMMA SyncStepType ==
  ASSUME TypeOK, NEW s \in Syncs, Proceed(s)
  PROVE  TypeOK'
<1> USE FeedSyncAssumption
<1>1. ASSUME NEW upto \in Moments, Fetch(s, upto)
      PROVE  TypeOK'
  <2>1. /\ sync[s] \in Sync /\ sync[s].from \in 0..now /\ now \in Moments
        /\ Restated(sync[s].from, upto) \in SUBSET Trans
    BY DEF TypeOK, Restated, Changed
  <2>2. upto \in 0..now
    BY <1>1, <2>1 DEF Fetch, Moments
  <2>3. /\ sync' \in [Syncs -> Sync]
        /\ \A t \in Syncs : sync'[t].from \in 0..now /\ sync'[t].upto \in 0..now
    BY <1>1, <2>1, <2>2 DEF Fetch, TypeOK, Sync
  <2> QED BY <1>1, <2>3 DEF Fetch, TypeOK
<1>2. ASSUME NEW x \in Trans, StoreLine(s, x)
      PROVE  TypeOK'
  <2>1. sync[s] \in Sync /\ sync[s].upto \in Moments
    BY DEF TypeOK, Sync
  <2>2. bank[sync[s].upto][x].at \in Moments
    BY <2>1 DEF TypeOK, View
  <2>3. line' \in [Trans -> Line]
    BY <1>2, <2>2, UpsertedType DEF StoreLine, TypeOK
  <2>4. /\ sync' \in [Syncs -> Sync]
        /\ \A t \in Syncs : sync'[t].from \in 0..now /\ sync'[t].upto \in 0..now
    BY <1>2, <2>1 DEF StoreLine, TypeOK, Sync
  <2>5. answered' \in SUBSET Trans
    BY <1>2 DEF StoreLine, TypeOK
  <2> QED BY <1>2, <2>3, <2>4, <2>5 DEF StoreLine, TypeOK
<1>3. CASE StoredAll(s)
  <2>1. sync[s] \in Sync
    BY DEF TypeOK
  <2>2. /\ sync' \in [Syncs -> Sync]
        /\ \A t \in Syncs : sync'[t].from \in 0..now /\ sync'[t].upto \in 0..now
    BY <1>3, <2>1 DEF StoredAll, TypeOK, Sync
  <2> QED BY <1>3, <2>2 DEF StoredAll, TypeOK
<1>4. CASE ApplyRemoved(s)
  <2>1. sync[s] \in Sync
    BY DEF TypeOK
  <2>2. /\ sync' \in [Syncs -> Sync]
        /\ \A t \in Syncs : sync'[t].from \in 0..now /\ sync'[t].upto \in 0..now
    BY <1>4, <2>1 DEF ApplyRemoved, TypeOK, Sync
  <2>3. line' \in [Trans -> Line]
    BY <1>4, AfterRemovalType DEF ApplyRemoved, TypeOK
  <2> QED BY <1>4, <2>2, <2>3 DEF ApplyRemoved, TypeOK
<1>5. CASE Advance(s)
  <2>1. /\ sync' \in [Syncs -> Sync]
        /\ \A t \in Syncs : sync'[t].from \in 0..now /\ sync'[t].upto \in 0..now
    BY <1>5 DEF Advance, TypeOK, Sync, Quiet, Moments
  <2>2. cursor' \in 0..now
    BY <1>5 DEF Advance, TypeOK
  <2> QED BY <1>5, <2>1, <2>2 DEF Advance, TypeOK
<1> QED BY <1>1, <1>2, <1>3, <1>4, <1>5 DEF Proceed

LEMMA UserType ==
  ASSUME TypeOK, NEW x \in Trans, User(x)
  PROVE  TypeOK'
<1>0. /\ line \in [Trans -> Line]
      /\ NoRow \in Line
      /\ \A p \in {"inbox", "claimed", "booked"} : [line[x] EXCEPT !.place = p] \in Line
      /\ [line[x] EXCEPT !.withdrawn = FALSE] \in Line
  <2>1. line[x] \in Line /\ 0 \in Moments
    BY FeedSyncAssumption DEF TypeOK, Moments
  <2> QED BY <2>1 DEF TypeOK, Line, NoRow
<1>1. line' \in [Trans -> Line]
  BY <1>0 DEF User, ClaimLine, AttachLine, ReleaseLine, DeleteLine, DismissUpstreamRemoval
<1>2. answered' \in SUBSET Trans
  BY DEF TypeOK, User, ClaimLine, AttachLine, ReleaseLine, DeleteLine,
         DismissUpstreamRemoval
<1>3. UNCHANGED <<bank, now, cursor, sync, fails, overlapped>>
  BY DEF User, ClaimLine, AttachLine, ReleaseLine, DeleteLine, DismissUpstreamRemoval
<1> QED BY <1>1, <1>2, <1>3 DEF TypeOK

LEMMA BankType ==
  ASSUME TypeOK, NEW x \in Trans, NEW gone \in BOOLEAN, BankMoves(x, gone)
  PROVE  TypeOK'
<1> USE FeedSyncAssumption
<1>1. now \in Moments /\ now + 1 \in Moments /\ now' = now + 1
  BY DEF TypeOK, BankMoves, Moments
<1>2. bank' \in [Moments -> [Trans -> View]]
  BY <1>1 DEF TypeOK, BankMoves, View
<1>3. /\ cursor' \in 0..now'
      /\ \A s \in Syncs : sync'[s].from \in 0..now' /\ sync'[s].upto \in 0..now'
  BY <1>1 DEF TypeOK, BankMoves, Moments
<1> QED BY <1>1, <1>2, <1>3 DEF TypeOK, BankMoves

LEMMA InitType == Init => TypeOK
<1> SUFFICES ASSUME Init PROVE TypeOK
  OBVIOUS
<1>1. 0 \in Moments /\ 0 \in 0..MaxFails
  BY FeedSyncAssumption DEF Moments
<1>2. bank \in [Moments -> [Trans -> View]]
  BY <1>1 DEF Init, View, Unknown
<1>3. line \in [Trans -> Line]
  BY <1>1 DEF Init, Line, NoRow
<1>4. /\ sync \in [Syncs -> Sync]
      /\ \A s \in Syncs : sync[s].from = 0 /\ sync[s].upto = 0
  <2>1. Quiet \in Sync /\ Quiet.from = 0 /\ Quiet.upto = 0
    BY <1>1, SyncRecord DEF Quiet
  <2> QED BY <2>1 DEF Init
<1>5. /\ now \in Moments /\ cursor \in 0..now
      /\ \A s \in Syncs : sync[s].from \in 0..now /\ sync[s].upto \in 0..now
  BY <1>1, <1>4 DEF Init
<1>6. answered \in SUBSET Trans /\ fails \in 0..MaxFails /\ overlapped \in BOOLEAN
  BY <1>1 DEF Init
<1> QED BY <1>2, <1>3, <1>4, <1>5, <1>6 DEF TypeOK

LEMMA NextType ==
  ASSUME TypeOK, [Next]_vars
  PROVE  TypeOK'
<1> USE FeedSyncAssumption
<1>1. ASSUME NEW x \in Trans, NEW gone \in BOOLEAN, BankMoves(x, gone)
      PROVE  TypeOK'
  BY <1>1, BankType
<1>2. ASSUME NEW s \in Syncs, StartSync(s)
      PROVE  TypeOK'
  <2> DEFINE new == [pc |-> "fetch", from |-> cursor, upto |-> 0, todo |-> {}]
  <2>1. now \in Nat /\ cursor \in 0..now /\ cursor \in Moments /\ 0 \in Moments
    BY DEF TypeOK, Moments
  <2>2. new \in Sync /\ new.from \in 0..now /\ new.upto \in 0..now
    BY <2>1, SyncRecord
  <2>4. sync' = [sync EXCEPT ![s] = new]
    BY <1>2 DEF StartSync
  <2>5. /\ sync' \in [Syncs -> Sync]
        /\ \A t \in Syncs : sync'[t].from \in 0..now /\ sync'[t].upto \in 0..now
    <3> HIDE DEF new
    <3> QED BY <2>2, <2>4 DEF TypeOK
  <2>3. overlapped' \in BOOLEAN
    BY <1>2 DEF StartSync, TypeOK
  <2> QED BY <1>2, <2>5, <2>3 DEF StartSync, TypeOK
<1>3. ASSUME NEW s \in Syncs, Proceed(s)
      PROVE  TypeOK'
  BY <1>3, SyncStepType
<1>4. ASSUME NEW s \in Syncs, FailSync(s)
      PROVE  TypeOK'
  <2>1. /\ sync' \in [Syncs -> Sync]
        /\ \A t \in Syncs : sync'[t].from \in 0..now /\ sync'[t].upto \in 0..now
    BY <1>4 DEF FailSync, TypeOK, Sync, Quiet, Moments
  <2>2. fails' \in 0..MaxFails
    BY <1>4 DEF FailSync, TypeOK
  <2> QED BY <1>4, <2>1, <2>2 DEF FailSync, TypeOK
<1>5. ASSUME NEW x \in Trans, User(x)
      PROVE  TypeOK'
  BY <1>5, UserType
<1>6. CASE UNCHANGED vars
  BY <1>6 DEF vars, TypeOK
<1> QED BY <1>1, <1>2, <1>3, <1>4, <1>5, <1>6 DEF Next

\* The cursor is never ahead of the bank, nor is what a sync has read.
\* (SetSyncCursor, Plaid.SyncConnection)
THEOREM SyncTypeCorrect == Spec => []TypeOK
<1>1. Init => TypeOK
  BY InitType
<1>2. TypeOK /\ [Next]_vars => TypeOK'
  BY NextType
<1> QED BY <1>1, <1>2, PTL DEF Spec

----------------------------------------------------------------------------
(* The inductive invariant behind CursorCovers. *)

\* What the bank has said stays said: versions only grow, a version that has not
\* changed is the same view, and a removal is final.
BankInv ==
  \A x \in Trans, q \in 0..now :
    /\ bank[q][x].at <= q
    /\ \A p \in 0..q :
         /\ bank[p][x].at <= bank[q][x].at
         /\ bank[q][x].at <= p => bank[q][x] = bank[p][x]
         /\ bank[p][x].gone => bank[q][x] = bank[p][x]

\* A sync that has fetched knows how far it read, and has only lines in hand that
\* were restated there.
FetchInv ==
  \A s \in Syncs :
    /\ sync[s].pc \in {"store", "remove", "advance"} =>
         /\ sync[s].from <= sync[s].upto
         /\ sync[s].todo \subseteq Restated(sync[s].from, sync[s].upto)
    /\ sync[s].pc \in {"remove", "advance"} => sync[s].todo = {}

\* Syncs that do not overlap: one runs, and nobody has moved the cursor since.
Alone ==
  \A s \in Syncs : Running(s) =>
    /\ sync[s].from = cursor
    /\ \A t \in Syncs : Running(t) => t = s

\* The part of its batch a sync has dealt with.
Dealt(s, x) ==
  \/ x \in sync[s].todo
  \/ sync[s].pc # "advance" /\ bank[sync[s].upto][x].gone
  \/ Covered(x, sync[s].upto)

Progressed ==
  \A s \in Syncs : sync[s].pc \in {"store", "remove", "advance"} =>
    \A x \in Trans \ answered : Dealt(s, x)

IInv ==
  /\ BankInv
  /\ FetchInv
  /\ ~overlapped => Alone /\ Progressed
  /\ CursorCovers

----------------------------------------------------------------------------
(* Steps of the bank and of users. *)

LEMMA BankMovesInv ==
  ASSUME TypeOK, IInv, NEW y \in Trans, NEW g \in BOOLEAN, BankMoves(y, g)
  PROVE  IInv'
<1>1. /\ now \in Moments /\ now' = now + 1 /\ now + 1 \in Moments
      /\ \A m \in 0..now : m \in Moments
      /\ ~bank[now][y].gone
  BY FeedSyncAssumption DEF TypeOK, BankMoves, Moments
<1>2. /\ \A m \in 0..now : bank'[m] = bank[m]
      /\ bank'[now + 1][y] = [at |-> now + 1, gone |-> g]
      /\ \A x \in Trans \ {y} : bank'[now + 1][x] = bank[now][x]
  BY <1>1 DEF BankMoves, TypeOK, Moments
<1>3. \A x \in Trans, m \in 0..now : bank[m][x] \in View
  BY <1>1 DEF TypeOK
<1>4. BankInv'
  <2>1. SUFFICES ASSUME NEW x \in Trans, NEW q \in 0..now', NEW p \in 0..q
                 PROVE  /\ bank'[q][x].at <= q
                        /\ bank'[p][x].at <= bank'[q][x].at
                        /\ bank'[q][x].at <= p => bank'[q][x] = bank'[p][x]
                        /\ bank'[p][x].gone => bank'[q][x] = bank'[p][x]
    BY <1>1 DEF BankInv, Moments
  <2>2. CASE q \in 0..now
    BY <2>2, <1>1, <1>2 DEF IInv, BankInv, Moments
  <2>3. CASE q = now + 1 /\ p = q
    BY <2>3, <1>1, <1>2, <1>3 DEF IInv, BankInv, Moments, View
  <2>4. CASE q = now + 1 /\ p \in 0..now /\ x = y
    <3>1. bank[p][y].at <= p /\ ~bank[p][y].gone
      BY <2>4, <1>1 DEF IInv, BankInv, Moments
    <3>2. bank[p][y].at \in Int
      BY <2>4, <1>3 DEF View, Moments
    <3> QED BY <2>4, <3>1, <3>2, <1>1, <1>2 DEF Moments
  <2>5. CASE q = now + 1 /\ p \in 0..now /\ x # y
    <3>1. /\ bank[now][x].at <= now
          /\ bank[p][x].at <= bank[now][x].at
          /\ bank[now][x].at <= p => bank[now][x] = bank[p][x]
          /\ bank[p][x].gone => bank[now][x] = bank[p][x]
      BY <2>5, <1>1 DEF IInv, BankInv, Moments
    <3>2. bank[now][x].at \in Int
      BY <1>1, <1>3 DEF View, Moments
    <3> QED BY <2>5, <3>1, <3>2, <1>1, <1>2 DEF Moments
  <2> QED BY <2>2, <2>3, <2>4, <2>5, <1>1 DEF Moments
<1>5. UNCHANGED <<cursor, line, sync, answered, overlapped>>
  BY DEF BankMoves
<1>6. \A x \in Trans, m \in 0..now : Covered(x, m) => Covered(x, m)'
  BY <1>1, <1>2, <1>5 DEF Covered, Seen
<1>7. \A from \in 0..now, upto \in 0..now : Restated(from, upto)' = Restated(from, upto)
  BY <1>2 DEF Restated, Changed
<1>8. \A s \in Syncs : sync[s].from \in 0..now /\ sync[s].upto \in 0..now
  BY DEF TypeOK
<1>9. FetchInv'
  BY <1>5, <1>7, <1>8 DEF IInv, FetchInv
<1>10. ~overlapped => Alone' /\ Progressed'
  BY <1>2, <1>5, <1>6, <1>8 DEF IInv, Alone, Running, Progressed, Dealt
<1>11. CursorCovers'
  BY <1>5, <1>6 DEF IInv, CursorCovers, TypeOK
<1> QED BY <1>4, <1>5, <1>9, <1>10, <1>11 DEF IInv

\* A user only moves a line along, or answers for it.
LEMMA UserInv ==
  ASSUME TypeOK, IInv, NEW y \in Trans, User(y)
  PROVE  IInv'
<1>1. UNCHANGED <<bank, now, cursor, sync, overlapped>> /\ answered \subseteq answered'
  BY DEF User, ClaimLine, AttachLine, ReleaseLine, DeleteLine, DismissUpstreamRemoval
<1>2. \A x \in Trans \ answered' :
        /\ line'[x].place = "none" <=> line[x].place = "none"
        /\ line'[x].at = line[x].at /\ line'[x].parked = line[x].parked
        /\ line'[x].withdrawn = line[x].withdrawn
  BY DEF TypeOK, Line, User, ClaimLine, AttachLine, ReleaseLine, DeleteLine,
         DismissUpstreamRemoval, InInbox
<1>3. \A x \in Trans \ answered', m \in Moments : Covered(x, m)' <=> Covered(x, m)
  BY <1>1, <1>2 DEF Covered, Seen
<1>4. /\ cursor \in Moments
      /\ \A s \in Syncs : sync[s].upto \in Moments
  BY FeedSyncAssumption DEF TypeOK, Moments, Sync
<1>5. BankInv'
  BY <1>1 DEF IInv, BankInv
<1>6. FetchInv'
  BY <1>1 DEF IInv, FetchInv, Restated, Changed
<1>7. ~overlapped => Alone'
  BY <1>1 DEF IInv, Alone, Running
<1>8. ~overlapped => Progressed'
  BY <1>1, <1>3, <1>4 DEF IInv, Progressed, Dealt
<1>9. CursorCovers'
  BY <1>1, <1>3, <1>4 DEF IInv, CursorCovers
<1> QED BY <1>1, <1>5, <1>6, <1>7, <1>8, <1>9 DEF IInv

----------------------------------------------------------------------------
(* Steps of a sync. *)

LEMMA Ranges ==
  ASSUME TypeOK
  PROVE  /\ now \in Nat /\ cursor \in 0..now /\ cursor \in Moments
         /\ \A m \in 0..now : m \in Moments
         /\ \A s \in Syncs : /\ sync[s].from \in 0..now /\ sync[s].from \in Moments
                            /\ sync[s].upto \in 0..now /\ sync[s].upto \in Moments
         /\ \A x \in Trans, m \in Moments : bank[m][x] \in View
BY FeedSyncAssumption DEF TypeOK, Moments

LEMMA StartSyncInv ==
  ASSUME TypeOK, IInv, NEW s \in Syncs, StartSync(s)
  PROVE  IInv'
<1>1. /\ UNCHANGED <<bank, now, cursor, line, answered>>
      /\ \A t \in Syncs \ {s} : sync'[t] = sync[t]
      /\ sync'[s].pc = "fetch" /\ sync'[s].from = cursor
      /\ ~overlapped' => ~overlapped /\ \A t \in Syncs : ~Running(t)
  BY DEF StartSync, TypeOK
<1>2. BankInv'
  BY <1>1 DEF IInv, BankInv
<1>3. FetchInv'
  BY <1>1 DEF IInv, FetchInv, Restated, Changed
<1>4. ~overlapped' => Alone'
  BY <1>1 DEF Alone, Running
<1>5. ~overlapped' => Progressed'
  BY <1>1 DEF Progressed, Running
<1>6. CursorCovers'
  BY <1>1 DEF IInv, CursorCovers, Covered, Seen
<1> QED BY <1>2, <1>3, <1>4, <1>5, <1>6 DEF IInv

LEMMA FailSyncInv ==
  ASSUME TypeOK, IInv, NEW s \in Syncs, FailSync(s)
  PROVE  IInv'
<1>1. /\ UNCHANGED <<bank, now, cursor, line, answered, overlapped>>
      /\ \A t \in Syncs \ {s} : sync'[t] = sync[t]
      /\ sync'[s].pc = "idle"
  BY DEF FailSync, TypeOK, Quiet
<1>2. BankInv'
  BY <1>1 DEF IInv, BankInv
<1>3. FetchInv'
  BY <1>1 DEF IInv, FetchInv, Restated, Changed
<1>4. ~overlapped' => Alone'
  BY <1>1 DEF IInv, Alone, Running
<1>5. ~overlapped' => Progressed'
  BY <1>1 DEF IInv, Progressed, Dealt, Covered, Seen
<1>6. CursorCovers'
  BY <1>1 DEF IInv, CursorCovers, Covered, Seen
<1> QED BY <1>2, <1>3, <1>4, <1>5, <1>6 DEF IInv

\* What is not in the answer to a fetch has not changed since the cursor.
LEMMA FetchStepInv ==
  ASSUME TypeOK, IInv, NEW s \in Syncs, NEW upto \in Moments, Fetch(s, upto)
  PROVE  IInv'
<1>1. /\ UNCHANGED <<bank, now, cursor, line, answered, overlapped>>
      /\ \A t \in Syncs \ {s} : sync'[t] = sync[t]
      /\ sync[s].pc = "fetch" /\ sync'[s].pc = "store"
      /\ sync'[s].from = sync[s].from /\ sync'[s].upto = upto
      /\ sync'[s].todo = Restated(sync[s].from, upto)
      /\ upto \in sync[s].from..now
  BY DEF Fetch, TypeOK, Sync
<1>2. BankInv'
  BY <1>1 DEF IInv, BankInv
<1>3. FetchInv'
  BY <1>1, Ranges DEF IInv, FetchInv, Restated, Changed
<1>4. ~overlapped' => Alone'
  BY <1>1 DEF IInv, Alone, Running
<1>5. ASSUME ~overlapped', NEW x \in Trans \ answered
      PROVE  Dealt(s, x)'
  <2>1. sync[s].from = cursor /\ Covered(x, cursor)
    BY <1>1, <1>5 DEF IInv, Alone, Running, CursorCovers
  <2>2. CASE bank[upto][x].at <= cursor
    <3>1. bank[upto][x] = bank[cursor][x]
      BY <2>1, <2>2, <1>1, Ranges DEF IInv, BankInv
    <3> QED BY <1>1, <2>1, <3>1 DEF Dealt, Covered, Seen
  <2>3. CASE bank[upto][x].at > cursor
    BY <1>1, <2>1, <2>3 DEF Dealt, Restated, Changed
  <2> QED BY <2>2, <2>3, Ranges DEF View, Moments
<1>6. ~overlapped' => Progressed'
  BY <1>1, <1>5 DEF IInv, Progressed, Dealt, Covered, Seen
<1>7. CursorCovers'
  BY <1>1 DEF IInv, CursorCovers, Covered, Seen
<1> QED BY <1>2, <1>3, <1>4, <1>6, <1>7 DEF IInv

\* A stored line shows the version the sync read, which covers the cursor it
\* began with too.
LEMMA StoreLineInv ==
  ASSUME TypeOK, IInv, NEW s \in Syncs, NEW y \in Trans, StoreLine(s, y)
  PROVE  IInv'
<1> DEFINE v == bank[sync[s].upto][y].at
<1>1. /\ UNCHANGED <<bank, now, cursor, overlapped>>
      /\ answered \ {y} \subseteq answered'
      /\ \A t \in Syncs \ {s} : sync'[t] = sync[t]
      /\ sync[s].pc = "store" /\ sync'[s].pc = "store"
      /\ sync'[s].from = sync[s].from /\ sync'[s].upto = sync[s].upto
      /\ sync'[s].todo = sync[s].todo \ {y}
      /\ y \in sync[s].todo
  BY DEF StoreLine, TypeOK, Sync
<1>2. /\ \A x \in Trans \ {y} : line'[x] = line[x]
      /\ line'[y] = Upserted(y, v)
  BY DEF StoreLine, TypeOK
<1>3. /\ y \in Restated(sync[s].from, sync[s].upto)
      /\ sync[s].from <= sync[s].upto
  BY <1>1 DEF IInv, FetchInv
<1>4. v \in Nat \ {0} /\ ~bank[sync[s].upto][y].gone
  BY <1>3, Ranges DEF Restated, Changed, View, Moments
<1>5. line'[y].place # "none" /\ Seen(y)' = v
  <2>1. CASE Taken(y)
    BY <2>1, <1>2, <1>4 DEF Upserted, Taken, Seen, TypeOK, Line
  <2>2. CASE ~Taken(y)
    BY <2>2, <1>2 DEF Upserted, Seen, NoRow
  <2> QED BY <2>1, <2>2
<1>6. Covered(y, sync[s].upto)' /\ Covered(y, sync[s].from)'
  <2>1. /\ bank[sync[s].from][y].at <= v
        /\ bank[sync[s].from][y].gone => bank[sync[s].from][y] = bank[sync[s].upto][y]
    BY <1>3, Ranges DEF IInv, BankInv
  <2>2. v \in Int /\ bank[sync[s].from][y].at \in Int
    BY Ranges DEF View, Moments
  <2> HIDE DEF v
  <2>3. Covered(y, sync[s].from)'
    BY <1>1, <1>4, <1>5, <2>1, <2>2 DEF Covered
  <2>4. Covered(y, sync[s].upto)'
    BY <1>1, <1>4, <1>5, <2>2 DEF Covered, v
  <2> QED BY <2>3, <2>4
<1>7. \A x \in Trans \ {y}, m \in Moments : Covered(x, m) => Covered(x, m)'
  BY <1>1, <1>2 DEF Covered, Seen
<1>8. BankInv'
  BY <1>1 DEF IInv, BankInv
<1>9. FetchInv'
  BY <1>1 DEF IInv, FetchInv, Restated, Changed
<1>10. ~overlapped' => Alone'
  BY <1>1 DEF IInv, Alone, Running
<1>11. ~overlapped' => Progressed'
  <2>1. SUFFICES ASSUME ~overlapped, NEW x \in Trans \ answered'
                 PROVE  Dealt(s, x)'
    BY <1>1 DEF IInv, Alone, Running, Progressed
  <2>2. CASE x = y
    BY <2>2, <1>1, <1>6 DEF Dealt
  <2>3. CASE x # y
    <3>1. x \notin answered
      BY <2>3 DEF StoreLine
    <3>2. Dealt(s, x)
      BY <2>1, <3>1, <1>1 DEF IInv, Progressed
    <3> QED BY <3>2, <2>3, <1>1, <1>7, Ranges DEF Dealt
  <2> QED BY <2>2, <2>3
<1>12. CursorCovers'
  <2>1. SUFFICES ASSUME ~overlapped, NEW x \in Trans \ answered'
                 PROVE  Covered(x, cursor)'
    BY <1>1 DEF CursorCovers
  <2>2. CASE x = y
    <3>1. sync[s].from = cursor
      BY <2>1, <1>1 DEF IInv, Alone, Running
    <3> QED BY <2>2, <3>1, <1>1, <1>6
  <2>3. CASE x # y
    <3>1. x \notin answered
      BY <2>3 DEF StoreLine
    <3> QED BY <2>1, <2>3, <3>1, <1>1, <1>7, Ranges DEF IInv, CursorCovers
  <2> QED BY <2>2, <2>3
<1> QED BY <1>8, <1>9, <1>10, <1>11, <1>12 DEF IInv

LEMMA StoredAllInv ==
  ASSUME TypeOK, IInv, NEW s \in Syncs, StoredAll(s)
  PROVE  IInv'
<1>1. /\ UNCHANGED <<bank, now, cursor, line, answered, overlapped>>
      /\ \A t \in Syncs \ {s} : sync'[t] = sync[t]
      /\ sync[s].pc = "store" /\ sync'[s].pc = "remove"
      /\ sync'[s].from = sync[s].from /\ sync'[s].upto = sync[s].upto
      /\ sync[s].todo = {} /\ sync'[s].todo = {}
  BY DEF StoredAll, TypeOK, Sync
<1>2. BankInv'
  BY <1>1 DEF IInv, BankInv
<1>3. FetchInv'
  BY <1>1 DEF IInv, FetchInv, Restated, Changed
<1>4. ~overlapped' => Alone'
  BY <1>1 DEF IInv, Alone, Running
<1>5. ~overlapped' => Progressed'
  BY <1>1 DEF IInv, Progressed, Dealt, Covered, Seen
<1>6. CursorCovers'
  BY <1>1 DEF IInv, CursorCovers, Covered, Seen
<1> QED BY <1>2, <1>3, <1>4, <1>5, <1>6 DEF IInv

\* What is removed leaves the inbox or is marked; a line that is marked keeps the
\* version the cursor covers.
LEMMA ApplyRemovedInv ==
  ASSUME TypeOK, IInv, NEW s \in Syncs, ApplyRemoved(s)
  PROVE  IInv'
<1>1. /\ UNCHANGED <<bank, now, cursor, answered, overlapped>>
      /\ \A t \in Syncs \ {s} : sync'[t] = sync[t]
      /\ sync[s].pc = "remove" /\ sync'[s].pc = "advance"
      /\ sync'[s].from = sync[s].from /\ sync'[s].upto = sync[s].upto
      /\ sync'[s].todo = sync[s].todo
  BY DEF ApplyRemoved, TypeOK, Sync
<1> DEFINE R == Removed(sync[s].from, sync[s].upto)
<1>2. \A x \in Trans : line'[x] = IF x \in R THEN AfterRemoval(x) ELSE line[x]
  BY DEF ApplyRemoved
<1>3. /\ sync[s].todo = {} /\ sync[s].from <= sync[s].upto
  BY <1>1 DEF IInv, FetchInv
<1>4. \A x \in R : /\ x \in Trans
                   /\ bank[sync[s].upto][x].gone
                   /\ bank[sync[s].upto][x].at > sync[s].from
                   /\ line'[x].place = "none" \/ line'[x].withdrawn
                   /\ line'[x].place # "none" =>
                        /\ line[x].place # "none"
                        /\ line'[x].at = line[x].at /\ line'[x].parked = line[x].parked
  <2> SUFFICES ASSUME NEW x \in R
               PROVE  /\ x \in Trans
                      /\ bank[sync[s].upto][x].gone
                      /\ bank[sync[s].upto][x].at > sync[s].from
                      /\ line'[x].place = "none" \/ line'[x].withdrawn
                      /\ line'[x].place # "none" =>
                           /\ line[x].place # "none"
                           /\ line'[x].at = line[x].at /\ line'[x].parked = line[x].parked
    OBVIOUS
  <2>1. x \in Trans /\ line'[x] = AfterRemoval(x) /\ line[x] \in Line
    BY <1>2 DEF Removed, Changed, TypeOK
  <2>2. CASE InInbox(x)
    BY <2>1, <2>2 DEF AfterRemoval, InInbox, Taken, NoRow, Removed, Changed
  <2>3. CASE Taken(x)
    BY <2>1, <2>3 DEF AfterRemoval, InInbox, Taken, Line, Removed, Changed
  <2>4. CASE ~InInbox(x) /\ ~Taken(x)
    BY <2>1, <2>4 DEF AfterRemoval, InInbox, Taken, Line, Removed, Changed
  <2> QED BY <2>2, <2>3, <2>4
<1>5. \A x \in R : Covered(x, sync[s].upto)'
  BY <1>1, <1>4 DEF Covered
<1>6. \A x \in R : Covered(x, sync[s].from) => Covered(x, sync[s].from)'
  <2> SUFFICES ASSUME NEW x \in R, Covered(x, sync[s].from)
               PROVE  Covered(x, sync[s].from)'
    OBVIOUS
  <2>1. bank[now][x].gone
    BY <1>4, Ranges DEF IInv, BankInv
  <2>2. ~bank[sync[s].from][x].gone
    <3>1. bank[sync[s].from][x].at <= sync[s].from
      BY <1>4, Ranges DEF IInv, BankInv
    <3>2. bank[sync[s].from][x].gone => bank[sync[s].upto][x] = bank[sync[s].from][x]
      BY <1>3, <1>4, Ranges DEF IInv, BankInv
    <3>3. bank[sync[s].from][x].at \in Int
      BY <1>4, Ranges DEF View, Moments
    <3> QED BY <3>1, <3>2, <3>3, <1>4, Ranges
  <2> QED BY <1>1, <1>4, <2>1, <2>2 DEF Covered, Seen
<1>7. \A x \in Trans \ R, m \in Moments : Covered(x, m) => Covered(x, m)'
  BY <1>1, <1>2 DEF Covered, Seen
<1>8. BankInv'
  BY <1>1 DEF IInv, BankInv
<1>9. FetchInv'
  BY <1>1 DEF IInv, FetchInv, Restated, Changed
<1>10. ~overlapped' => Alone'
  BY <1>1 DEF IInv, Alone, Running
<1>11. ~overlapped' => Progressed'
  <2>1. SUFFICES ASSUME ~overlapped, NEW x \in Trans \ answered
                 PROVE  Covered(x, sync[s].upto)'
    BY <1>1 DEF IInv, Alone, Running, Progressed, Dealt
  <2>2. CASE x \in R
    BY <2>2, <1>5
  <2>3. CASE x \notin R
    <3>1. bank[sync[s].upto][x].gone \/ Covered(x, sync[s].upto)
      BY <2>1, <1>1, <1>3 DEF IInv, Progressed, Dealt
    <3>2. CASE Covered(x, sync[s].upto)
      BY <3>2, <2>3, <1>1, <1>7, Ranges
    <3>3. CASE bank[sync[s].upto][x].gone
      <4>1. bank[sync[s].upto][x].at <= sync[s].from
        <5>1. bank[sync[s].upto][x].at \in Int
          BY Ranges DEF View, Moments
        <5> QED BY <5>1, <2>3, <3>3, Ranges DEF Removed, Changed
      <4>2. bank[sync[s].upto][x] = bank[sync[s].from][x]
        BY <4>1, <1>3, Ranges DEF IInv, BankInv
      <4>3. Covered(x, sync[s].from)
        BY <2>1, <1>1 DEF IInv, Alone, Running, CursorCovers
      <4>4. Covered(x, sync[s].upto)
        BY <4>2, <4>3 DEF Covered
      <4> QED BY <4>4, <2>3, <1>1, <1>7, Ranges
    <3> QED BY <3>1, <3>2, <3>3
  <2> QED BY <2>2, <2>3
<1>12. CursorCovers'
  <2>1. SUFFICES ASSUME ~overlapped, NEW x \in Trans \ answered
                 PROVE  Covered(x, cursor)'
    BY <1>1 DEF CursorCovers
  <2>2. sync[s].from = cursor /\ Covered(x, cursor)
    BY <2>1, <1>1 DEF IInv, Alone, Running, CursorCovers
  <2>3. CASE x \in R
    BY <2>2, <2>3, <1>1, <1>6
  <2>4. CASE x \notin R
    BY <2>2, <2>4, <1>1, <1>7, Ranges
  <2> QED BY <2>3, <2>4
<1> QED BY <1>8, <1>9, <1>10, <1>11, <1>12 DEF IInv

LEMMA AdvanceInv ==
  ASSUME TypeOK, IInv, NEW s \in Syncs, Advance(s)
  PROVE  IInv'
<1>1. /\ UNCHANGED <<bank, now, line, answered, overlapped>>
      /\ \A t \in Syncs \ {s} : sync'[t] = sync[t]
      /\ sync[s].pc = "advance" /\ sync'[s].pc = "idle"
      /\ cursor' \in {sync[s].upto, cursor}
  BY DEF Advance, TypeOK, Quiet
<1>2. BankInv'
  BY <1>1 DEF IInv, BankInv
<1>3. FetchInv'
  BY <1>1 DEF IInv, FetchInv, Restated, Changed
<1>4. ~overlapped' => \A t \in Syncs : sync'[t].pc = "idle"
  BY <1>1 DEF IInv, Alone, Running
<1>5. ~overlapped' => Alone' /\ Progressed'
  BY <1>4 DEF Alone, Running, Progressed
<1>6. ~overlapped => \A x \in Trans \ answered : Covered(x, sync[s].upto)
  BY <1>1 DEF IInv, FetchInv, Progressed, Dealt
<1>7. CursorCovers'
  BY <1>1, <1>6 DEF IInv, CursorCovers, Covered, Seen
<1> QED BY <1>2, <1>3, <1>5, <1>7 DEF IInv

LEMMA InitInv == Init => IInv
<1> SUFFICES ASSUME Init PROVE IInv
  OBVIOUS
<1>1. 0 \in Moments /\ \A q \in 0..now : q = 0
  BY FeedSyncAssumption DEF Init, Moments
<1>2. \A x \in Trans : bank[0][x] = Unknown
  BY <1>1 DEF Init
<1>3. BankInv
  BY <1>1, <1>2 DEF BankInv, Unknown
<1>4. \A s \in Syncs : sync[s].pc = "idle"
  BY DEF Init, Quiet
<1>5. FetchInv /\ Alone /\ Progressed
  BY <1>4 DEF FetchInv, Alone, Running, Progressed
<1>6. cursor = 0
  BY DEF Init
<1>7. CursorCovers
  <2>1. \A x \in Trans : bank[cursor][x].at = 0
    <3>1. bank[cursor] = bank[0]
      BY <1>6
    <3>2. Unknown.at = 0
      BY DEF Unknown
    <3> QED BY <1>2, <3>1, <3>2
  <2> QED BY <2>1 DEF CursorCovers, Covered
<1> QED BY <1>3, <1>5, <1>7 DEF IInv

LEMMA NextInv ==
  ASSUME TypeOK, IInv, [Next]_vars
  PROVE  IInv'
<1>1. ASSUME NEW s \in Syncs, Proceed(s)
      PROVE  IInv'
  BY <1>1, FetchStepInv, StoreLineInv, StoredAllInv, ApplyRemovedInv, AdvanceInv
  DEF Proceed
<1>2. CASE UNCHANGED vars
  <2>0. UNCHANGED <<bank, now, cursor, line, sync, answered, overlapped>>
    BY <1>2 DEF vars
  <2>1. BankInv' /\ FetchInv' /\ CursorCovers'
    BY <2>0 DEF IInv, BankInv, FetchInv, CursorCovers, Covered, Seen, Restated, Changed
  <2>2. ~overlapped' => Alone' /\ Progressed'
    BY <2>0 DEF IInv, Alone, Running, Progressed, Dealt, Covered, Seen
  <2> QED BY <2>1, <2>2 DEF IInv
<1>3. CASE Next
  BY <1>1, <1>3, BankMovesInv, UserInv, StartSyncInv, FailSyncInv DEF Next
<1> QED BY <1>2, <1>3

\* Through every failure, replay, restatement and user, the lines account for
\* whatever the saved cursor has left behind, as long as no two syncs of the
\* connection have run at once.  (syncIncremental, SetSyncCursor)
THEOREM CursorSound == Spec => []CursorCovers
<1>1. Init => TypeOK /\ IInv
  BY InitType, InitInv
<1>2. TypeOK /\ IInv /\ [Next]_vars => (TypeOK /\ IInv)'
  BY NextType, NextInv
<1>3. IInv => CursorCovers
  BY DEF IInv
<1> QED BY <1>1, <1>2, <1>3, PTL DEF Spec
=============================================================================
