------------------------------ MODULE FeedSync ------------------------------
(***************************************************************************)
(* One incremental bank feed connection: syncConnection and                *)
(* syncIncremental of internal/handlers/bank_feed.go, run by the Sync      *)
(* button and by the background sweep, against a provider that answers     *)
(* with what changed since a cursor and a user who works on the lines      *)
(* meanwhile.                                                              *)
(*                                                                         *)
(* A line is identified by the provider's transaction id, as the staging   *)
(* upsert identifies it.  The bank's successive versions of a transaction  *)
(* are told apart by the moment the bank issued them: the version of an    *)
(* amount, a date or a text is the number of that moment.                  *)
(***************************************************************************)
EXTENDS Integers

CONSTANTS
  Trans,        \* the provider's transaction ids
  Syncs,        \* syncs of the connection that may run at once
  MaxMoments,   \* bound: changes the bank makes
  MaxFails      \* bound: syncs that fail or are killed

ASSUME FeedSyncAssumption ==
  /\ MaxMoments \in Nat
  /\ MaxFails \in Nat

VARIABLES
  bank,         \* what the bank says of every transaction, at every moment
  now,          \* the current moment
  cursor,       \* bank_feed_connections.sync_cursor, as a moment
  line,         \* bank_statement_lines, by provider_tx_id
  sync,         \* the running syncs
  fails,        \* how many syncs have failed
  answered,     \* history: the user discarded the line, or dismissed its notice
  overlapped    \* history: two syncs have run at once

vars == <<bank, now, cursor, line, sync, fails, answered, overlapped>>

Moments == 0..MaxMoments

\* The latest version of a transaction, 0 before the first, and whether the bank
\* has removed it.
View == [at : Moments, gone : BOOLEAN]

\* at is the version a line holds, parked the one beside it (0 when none).
Line == [place     : {"none", "inbox", "claimed", "booked"},
         at        : Moments,
         parked    : Moments,
         withdrawn : BOOLEAN]

Sync == [pc   : {"idle", "fetch", "store", "remove", "advance"},
         from : Moments,
         upto : Moments,
         todo : SUBSET Trans]

TypeOK ==
  /\ bank \in [Moments -> [Trans -> View]]
  /\ now \in Moments
  /\ cursor \in 0..now
  /\ line \in [Trans -> Line]
  /\ sync \in [Syncs -> Sync]
  /\ \A s \in Syncs : sync[s].from \in 0..now /\ sync[s].upto \in 0..now
  /\ fails \in 0..MaxFails
  /\ answered \in SUBSET Trans
  /\ overlapped \in BOOLEAN

Unknown == [at |-> 0, gone |-> FALSE]
NoRow   == [place |-> "none", at |-> 0, parked |-> 0, withdrawn |-> FALSE]
Quiet   == [pc |-> "idle", from |-> 0, upto |-> 0, todo |-> {}]

Init ==
  /\ bank = [m \in Moments |-> [x \in Trans |-> Unknown]]
  /\ now = 0
  /\ cursor = 0
  /\ line = [x \in Trans |-> NoRow]
  /\ sync = [s \in Syncs |-> Quiet]
  /\ fails = 0
  /\ answered = {}
  /\ overlapped = FALSE

Running(s) == sync[s].pc # "idle"

InInbox(x) == line[x].place = "inbox"
Taken(x)   == line[x].place \in {"claimed", "booked"}

----------------------------------------------------------------------------
(* The bank. *)

\* A transaction is added or restated, or removed for good: its replacement
\* arrives under a fresh id.
BankMoves(x, gone) ==
  /\ now < MaxMoments
  /\ ~bank[now][x].gone
  /\ gone => bank[now][x].at # 0
  /\ now' = now + 1
  /\ bank' = [m \in Moments |->
                IF m <= now THEN bank[m]
                ELSE [bank[now] EXCEPT ![x] = [at |-> now + 1, gone |-> gone]]]
  /\ UNCHANGED <<cursor, line, sync, fails, answered, overlapped>>

\* What the provider lists between two cursors: transactions added or modified,
\* in their latest version, and transactions removed.
Changed(from, upto) == {x \in Trans : bank[upto][x].at > from}
Restated(from, upto) == {x \in Changed(from, upto) : ~bank[upto][x].gone}
Removed(from, upto)  == {x \in Changed(from, upto) : bank[upto][x].gone}

----------------------------------------------------------------------------
(* A sync. *)

\* GetConnection reads the cursor.
StartSync(s) ==
  /\ ~Running(s)
  /\ sync' = [sync EXCEPT ![s] =
              [pc |-> "fetch", from |-> cursor, upto |-> 0, todo |-> {}]]
  /\ overlapped' = (overlapped \/ \E t \in Syncs : Running(t))
  /\ UNCHANGED <<bank, now, cursor, line, fails, answered>>

\* The pages are read until there is no more, or too many of them.
Fetch(s, upto) ==
  /\ sync[s].pc = "fetch"
  /\ upto \in sync[s].from..now
  /\ sync[s].from < now => sync[s].from < upto
  /\ sync' = [sync EXCEPT ![s].pc = "store", ![s].upto = upto,
                          ![s].todo = Restated(sync[s].from, upto)]
  /\ UNCHANGED <<bank, now, cursor, line, fails, answered, overlapped>>

\* UpsertStatementLine: a row nobody has taken becomes the bank's version.
Upserted(x, v) ==
  IF Taken(x) THEN [line[x] EXCEPT !.parked = v]
              ELSE [NoRow EXCEPT !.place = "inbox", !.at = v]

StoreLine(s, x) ==
  /\ sync[s].pc = "store"
  /\ x \in sync[s].todo
  /\ line' = [line EXCEPT ![x] = Upserted(x, bank[sync[s].upto][x].at)]
  /\ answered' = IF line[x].place = "none" THEN answered \ {x} ELSE answered
  /\ sync' = [sync EXCEPT ![s].todo = @ \ {x}]
  /\ UNCHANGED <<bank, now, cursor, fails, overlapped>>

StoredAll(s) ==
  /\ sync[s].pc = "store" /\ sync[s].todo = {}
  /\ sync' = [sync EXCEPT ![s].pc = "remove"]
  /\ UNCHANGED <<bank, now, cursor, line, fails, answered, overlapped>>

\* As AfterRemoval, saying nothing of a removal to the user who coded the line.
DroppedFromInbox(x) == IF InInbox(x) THEN NoRow ELSE line[x]

\* ApplyRemovedLines drops what is in the inbox and marks what is not.
AfterRemoval(x) ==
  CASE InInbox(x) -> NoRow
    [] Taken(x)   -> [line[x] EXCEPT !.withdrawn = TRUE]
    [] OTHER      -> line[x]

ApplyRemoved(s) ==
  /\ sync[s].pc = "remove"
  /\ line' = [x \in Trans |-> IF x \in Removed(sync[s].from, sync[s].upto)
                              THEN AfterRemoval(x) ELSE line[x]]
  /\ sync' = [sync EXCEPT ![s].pc = "advance"]
  /\ UNCHANGED <<bank, now, cursor, fails, answered, overlapped>>

\* As Advance, taking the cursor for the first moment that was not read.
AdvancePast(s) ==
  /\ sync[s].pc = "advance"
  /\ cursor' = IF sync[s].upto # sync[s].from THEN sync[s].upto + 1 ELSE cursor
  /\ sync' = [sync EXCEPT ![s] = Quiet]
  /\ UNCHANGED <<bank, now, line, fails, answered, overlapped>>

\* As Advance, comparing the new cursor with itself.
AdvanceNever(s) ==
  /\ sync[s].pc = "advance"
  /\ sync' = [sync EXCEPT ![s] = Quiet]
  /\ UNCHANGED <<bank, now, cursor, line, fails, answered, overlapped>>

\* SetSyncCursor, unless the cursor is the one the sync began with.
Advance(s) ==
  /\ sync[s].pc = "advance"
  /\ cursor' = IF sync[s].upto # sync[s].from THEN sync[s].upto ELSE cursor
  /\ sync' = [sync EXCEPT ![s] = Quiet]
  /\ UNCHANGED <<bank, now, line, fails, answered, overlapped>>

\* The provider or the database refuses, or the process dies.
FailSync(s) ==
  /\ Running(s)
  /\ fails < MaxFails
  /\ fails' = fails + 1
  /\ sync' = [sync EXCEPT ![s] = Quiet]
  /\ UNCHANGED <<bank, now, cursor, line, answered, overlapped>>

----------------------------------------------------------------------------
(* The user, on one line; Reconcile has the details. *)

ClaimLine(x) ==
  /\ InInbox(x)
  /\ line' = [line EXCEPT ![x].place = "claimed"]
  /\ UNCHANGED <<bank, now, cursor, sync, fails, answered, overlapped>>

AttachLine(x) ==
  /\ line[x].place = "claimed"
  /\ line' = [line EXCEPT ![x].place = "booked"]
  /\ UNCHANGED <<bank, now, cursor, sync, fails, answered, overlapped>>

\* What the bank said meanwhile stays beside the line.
ReleaseLine(x) ==
  /\ line[x].place = "claimed"
  /\ line' = [line EXCEPT ![x].place = "inbox"]
  /\ UNCHANGED <<bank, now, cursor, sync, fails, answered, overlapped>>

DeleteLine(x) ==
  /\ line[x].place \in {"inbox", "claimed"}
  /\ line' = [line EXCEPT ![x] = NoRow]
  /\ answered' = answered \cup {x}
  /\ UNCHANGED <<bank, now, cursor, sync, fails, overlapped>>

DismissUpstreamRemoval(x) ==
  /\ line[x].withdrawn
  /\ line' = [line EXCEPT ![x].withdrawn = FALSE]
  /\ answered' = answered \cup {x}
  /\ UNCHANGED <<bank, now, cursor, sync, fails, overlapped>>

----------------------------------------------------------------------------
Proceed(s) ==
  \/ \E upto \in Moments : Fetch(s, upto)
  \/ \E x \in Trans : StoreLine(s, x)
  \/ StoredAll(s)
  \/ ApplyRemoved(s)
  \/ Advance(s)

User(x) ==
  \/ ClaimLine(x)
  \/ AttachLine(x)
  \/ ReleaseLine(x)
  \/ DeleteLine(x)
  \/ DismissUpstreamRemoval(x)

Next ==
  \/ \E x \in Trans, gone \in BOOLEAN : BankMoves(x, gone)
  \/ \E s \in Syncs : StartSync(s)
  \/ \E s \in Syncs : Proceed(s)
  \/ \E s \in Syncs : FailSync(s)
  \/ \E x \in Trans : User(x)

Spec == Init /\ [][Next]_vars

(***************************************************************************)
(* The scheduler starts a sync at every tick of its interval, and a sync   *)
(* that has started runs to its end or fails.                              *)
(***************************************************************************)
FairSpec ==
  /\ Spec
  /\ \A s \in Syncs : WF_vars(StartSync(s)) /\ WF_vars(Proceed(s))

----------------------------------------------------------------------------
(* Properties. *)

\* The newest version of x the user can see, on the line or in the notice.
Seen(x) == IF line[x].parked # 0 THEN line[x].parked ELSE line[x].at

\* The lines account for what the bank said of x at moment m, or for something
\* it said later.
Covered(x, m) ==
  \/ bank[m][x].at = 0
  \/ bank[m][x].gone /\ (line[x].place = "none" \/ line[x].withdrawn)
  \/ ~bank[m][x].gone /\ line[x].place # "none" /\ Seen(x) >= bank[m][x].at
  \/ ~bank[m][x].gone /\ bank[now][x].gone /\ line[x].place = "none"

\* Whatever the cursor has left behind is in the inbox or in a notice beside a
\* coded line, and whatever was removed is gone from the inbox or marked,
\* through every failure, replay and user, while syncs do not overlap.
\* (syncIncremental, SetSyncCursor)
CursorCovers ==
  ~overlapped => \A x \in Trans \ answered : Covered(x, cursor)

\* The cursor reaches everything the bank has said, in spite of failures and of
\* syncs that overlap and set each other's cursor back.  (StartSyncScheduler)
CatchesUp == <>[](cursor = now)

\* "records how far the connection has been synced": the same once every sync has
\* ended, whether or not they overlapped; a line that is wrong then stays wrong,
\* for no later sync reads the bank's word on it again.  (SetSyncCursor)
CursorMeansSynced ==
  (\A s \in Syncs : ~Running(s)) => \A x \in Trans \ answered : Covered(x, cursor)
=============================================================================
